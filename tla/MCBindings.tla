----------------------------- MODULE MCBindings -----------------------------
(***************************************************************************)
(* Small workloads for module Bindings.                                     *)
(***************************************************************************)
EXTENDS Bindings

Ev(tag, key) == [tag |-> tag, key |-> key]
Ask(op, key, times) == [op |-> op, key |-> key, times |-> times, for |-> IF op = "wait_path" THEN 2 ELSE 1]
At(at, does, key) == [at |-> at, does |-> does, key |-> key]
Alone == [c \in {1} |-> "None"]

Rust(drivers, timers, conns, asks, feeds, faults, interrupts, horizon) ==
    [kind |-> "rust", drivers |-> drivers, dual |-> FALSE, timers |-> timers, conns |-> conns, asks |-> asks, feeds |-> feeds,
     faults |-> faults, interrupts |-> interrupts, horizon |-> horizon, throws |-> FALSE, mute |-> FALSE,
     hopeless |-> {}]
ForSdk(timers, asks, feeds, faults, horizon) ==
    [Rust(TRUE, timers, Alone, asks, feeds, faults, 0, horizon) EXCEPT !.kind = "sdk"]

MCModes == <<
    \* focused waits beside next_event, with agents
    Rust(TRUE, {}, Alone,
         <<Ask("connect", 1, 1), Ask("wait_path", 1, 1), Ask("next_event", 0, 2), Ask("wait_peer_ready", 1, 1)>>,
         << <<Ev("Message", 0), Ev("PeerReady", 1)>>, <<Ev("NatPath", 1)>> >>, 0, 1, 1),
    \* run_until and its limit, without agents
    [Rust(FALSE, {}, Alone, <<Ask("wait_peer_ready", 1, 2), Ask("next_event", 0, 1), Ask("next_wake", 0, 1)>>,
          << <<Ev("Message", 0), Ev("PeerReady", 2), Ev("PeerReady", 1), Ev("Message", 0)>> >>, 1, 1, 2) EXCEPT !.dual = TRUE],
    \* run_until woken past its deadline by an event it does not wait for
    Rust(FALSE, {}, Alone, <<Ask("wait_peer_ready", 1, 1)>>, << <<Ev("Message", 0), Ev("Message", 0)>> >>, 0, 0, 2),
    \* close, with a connection that replaces another on the way
    Rust(FALSE, {}, [c \in {1, 2} |-> IF c = 1 THEN "Up" ELSE "Pending"], <<Ask("next_event", 0, 1), Ask("close", 0, 1)>>,
         << <<Ev("Established", 2), Ev("Closed", 2)>>, <<Ev("Closed", 1)>> >>, 1, 1, 3),
    \* close of an endpoint whose mDNS goodbye fails
    [Rust(FALSE, {}, [c \in {1} |-> "Up"], <<Ask("close", 0, 1)>>, << <<Ev("Message", 0), Ev("Closed", 1)>> >>, 0, 0, 3)
     EXCEPT !.mute = TRUE],
    \* timers of the agents, one of which fails, one takes an event back
    Rust(TRUE, {At(1, "ConnectFailed", 1), At(0, "PeerDiscovered", 0), At(1, "Withdraw", 0), At(2, "MdnsFails", 0)}, Alone,
         <<Ask("connect", 1, 1), Ask("next_nat_event", 0, 1), Ask("wait_path", 1, 1), Ask("poll", 0, 1), Ask("next_wake", 0, 1)>>,
         << <<Ev("Message", 0), Ev("Message", 0)>> >>, 0, 0, 3),
    \* a stream is abandoned while its events are set aside
    Rust(TRUE, {}, Alone, <<Ask("wait_peer_ready", 1, 2), Ask("abandon", 1, 1), Ask("next_event", 0, 1), Ask("poll", 0, 1), Ask("close", 0, 1)>>,
         << <<Ev("Message", 0), Ev("StreamData", 1), Ev("StreamClosed", 1), Ev("PeerReady", 1)>> >>, 0, 0, 1),
    \* the SDK connects, and cancels or times out
    ForSdk({}, <<Ask("connect", 1, 1), Ask("cancelConnect", 1, 1), Ask("connectTimeout", 1, 1), Ask("close", 0, 1)>>,
           << <<Ev("NatPath", 1)>>, <<Ev("Message", 0)>> >>, 0, 0),
    [ForSdk({}, <<Ask("connect", 1, 1), Ask("cancelConnect", 1, 1)>>, << <<Ev("Message", 0)>> >>, 0, 0) EXCEPT !.hopeless = {1}],
    \* a relayed path, then the end of its punch
    ForSdk({}, <<Ask("connect", 1, 1), Ask("cancelConnect", 1, 1)>>,
           << <<Ev("NatRelayed", 1), Ev("NatPunchFailed", 1), Ev("NatFellBack", 1)>> >>, 0, 0),
    ForSdk({}, <<Ask("startConnect", 1, 1), Ask("waitConnectResult", 1, 1)>>,
           << <<Ev("NatRelayed", 1), Ev("NatUpgraded", 1)>> >>, 0, 0),
    \* results nobody awaits yet, and more events than the queue holds
    ForSdk({}, <<Ask("startConnect", 1, 1), Ask("startConnect", 2, 1), Ask("waitConnectResult", 1, 1)>>,
           << <<Ev("NatPath", 1), Ev("NatFailed", 2)>>, <<Ev("Message", 0)>> >>, 0, 0),
    \* a stream
    ForSdk({}, <<Ask("openStream", 1, 1), Ask("read", 1, 3)>>,
           << <<Ev("StreamReady", 1), Ev("StreamData", 1), Ev("StreamFin", 1), Ev("StreamClosed", 1)>> >>, 0, 0),
    ForSdk({}, <<Ask("openStream", 1, 1), Ask("openTimeout", 1, 1), Ask("abandon", 1, 1), Ask("close", 0, 1)>>,
           << <<Ev("StreamReady", 1), Ev("StreamData", 1), Ev("StreamClosed", 1)>> >>, 0, 0),
    \* errors of opens, one of which may mean either stream
    ForSdk({}, <<Ask("openStream", 1, 1), Ask("openStream", 2, 1)>>,
           << <<Ev("EndpointError", 0), Ev("EndpointError", 1)>> >>, 0, 0),
    \* the driver fails
    ForSdk({At(1, "MdnsFails", 0)}, <<Ask("connect", 1, 1), Ask("connectTimeout", 1, 1), Ask("openStream", 1, 1)>>,
           << <<Ev("Message", 0)>> >>, 1, 1),
    \* more events than the carry and the queue hold
    ForSdk({}, <<Ask("openStream", 1, 1), Ask("read", 1, 1)>>,
           << <<Ev("StreamReady", 1), Ev("StreamData", 1), Ev("Message", 1), Ev("Message", 1)>> >>, 0, 0),
    [ForSdk({}, <<Ask("openStream", 1, 1)>>, << <<Ev("Message", 1), Ev("Message", 1)>>,
           <<Ev("StreamReady", 1)>> >>, 0, 0) EXCEPT !.throws = TRUE] >>
=============================================================================
