# mini-p2p: TLA+ models and proofs

mini-p2p is a libp2p stack in Rust. Its protocols are written *sans-IO*: a
component is a state machine that takes inputs (events, calls, a clock reading)
and returns actions and events; a driver executes the actions and feeds the
results back. That style makes the components easy to unit-test one input at a
time, and moves the difficulty into the *order* of inputs: which event arrives
between two others, which action is refused, what is already buffered when a
table changes. Those orders are what this directory models.

Contents: [Inventory](#inventory) ·
[Modules](#modules-and-how-they-correspond-to-the-code) ·
[Runs](#runs) · [Proofs](#proofs) · [Observations](#observations) ·
[What is not modelled](#what-is-not-modelled) · [Plan](#plan)

## Inventory

Paths are relative to `src/crates/` unless they start with `transports/`.

### How the parts fit together

```
 application
    |  poll / next_event / calls                       events
 Endpoint  (minip2p/src/std, minip2p/src/portable)
    |-- drivers: relay server, NAT, pubsub, discovery   (agents: sans-IO)
    |      ingest(event) -> actions -> swarm calls -> results back to the agent
 SwarmRuntime / driver (swarm/src/runtime.rs, driver.rs)
    |  flush: execute core actions; buffer core events; deferred actions
 SwarmCore (swarm/src/core.rs)
    |-- ping, identify, multistream-select               (sans-IO)
 Transport contract (transport/src/transport.rs)
    |-- TransportSet -> QUIC | TCP + secure-mux(Noise, yamux) | Circuit(relayed)
```

Below the bindings everything runs on the thread that polls the endpoint. There
are no data races;
the concurrency is between *buffers*: a transport batch computed before the core
reacts to it, swarm events read one at a time while the swarm's tables are
already ahead, actions queued while their reason disappears, frames that cross
on the wire, and two peers.

| component | state it keeps | operations | what is hard | what makes it correct |
|---|---|---|---|---|
| `ping` | per peer: outbound stream, inbound streams, ping in flight, reassembly buffers | register, send, data, half-close, close, tick, remove, migrate | fragments, timeout against late answer, slot limit | one payload under way, no honest peer accused, every ping resolves, slots freed |
| `yamux` | per stream: windows, send buffer, deferred credit and flags, half-close flags; session: output queue, aggregate buffer, keepalive | open, send, close_write, reset, go_away, poll, handle_data, poll_output | crossing frames, credit threshold, FIN behind a buffer, last window update against FIN | bytes in order and complete at EOF, no stall, no self-inflicted protocol error, each stream's end reported once |
| `swarm` core | connections ↔ peers, negotiators, stream owners, ping timers, identify state, action and event queues | 10 transport events, tick, open/send/close/reset/abandon/forget/ping/disconnect | supersession and late identity in the middle of a batch, refused actions | maps stay inverse, nothing survives a connection, ordered events |
| `swarm` runtime | event buffer, deferred actions | poll, flush, dispatch, application calls | the application reads one event at a time while actions wait for it | an old connection is closed after the application heard of it, and is closed |
| `relay` machines | HOP and STOP handshakes | on_data, accept, reject, close, reset | payload pipelined behind a handshake | request before outputs, bytes kept |
| `relay-server` agent | reservations, HOP workers, pending and committed circuits, limiters, queued operations | swarm events, tick, four result callbacks | stale results, limits while pending, deadlines at the time of an event, EOF and payload before commit | limits, paired lifecycle events, tables agree, order and completeness of bridged bytes |
| relay server driver | pending opens | ingest, tick, pump, execute | swarm ahead of its events, ids of superseded connections | results reach the operation they belong to |
| `relay` client | reservation / connect / stop responder machines | inputs of each | pipelined bytes, refusals | as above |
| `nat` | attempts, inbound sessions, reservation housekeeping | connection events, stream events, tick, results | direct dials, relay leg and punch race; late results | one path announced, improvements only, every attempt ends |
| `dcutr`, `autonat` | handshake and probe state | inputs, tick | retries, timeouts | outcome once |
| `pubsub` (floodsub, gossipsub) | subscriptions, mesh, backoff, caches, per-peer sender with one frame in flight | subscribe, publish, RPC, heartbeat, send result | a failed frame goes back among newer control items | mesh within bounds, no graft during backoff, no duplicate delivery |
| `discovery` | peer book from two sources, backoff, coalesced events | observe, connect/dial results, tick, poll | events coalesced until read | views agree with the book, bounded queues |
| `mdns` | announced addresses, schedule, queued and parked packets | tick, packets, close | a packet refused now is sent when addresses have changed | only present addresses are claimed |
| `secure-mux` | phase: multistream, Noise, multistream, yamux | handle_input, stream calls | one chunk crosses several phases | no byte lost or reordered at a phase change |
| `circuit` | adopted bridges, sessions, retired bridges | adopt, inject, transport calls | late events of retired bridges | circuit closes once |
| `transport` set | id translation, members | transport calls, poll | id reuse, a member failing | injective ids |
| `transports/tcp`, `transports/quic` | sockets, connections | transport calls, poll | partial IO | transport contract |
| endpoint std/portable | drivers, carry buffer, interrupt | poll loop, blocking calls | which driver sees which event when; a call that waits for one event meets others | no event lost below the limit, no call sleeps on what it waits for |
| bindings (`ffi-core`, `bindings/ts`) | driver thread, carry, doorbell, JavaScript queue and promises | start, stop, drain, SDK calls | three threads and a bounded queue between them | every event announced, every promise settles |
| `noise`, `tls`, `identity`, `core`, `platform`, `smoltcp` | — | codecs, cryptography, adapters | — | — |

`PROJECT.json` lists the hazards at their source lines with the properties that
guard each of them.

## Modules and how they correspond to the code

| module | models | role |
|---|---|---|
| `PingProtocol`, `Ping` | `ping/src/lib.rs` | handlers as operators; two peers over streams |
| `CreditFlow` | flow control of one direction of a stream, `yamux/src/session.rs` | abstract specification, all sizes symbolic |
| `YamuxSession`, `Yamux` | `yamux/src/session.rs`, `frame.rs` | one end as operators; two ends, hosts, connection; refines `CreditFlow` (mapping in `MCYamux`) |
| `SwarmCore`, `SwarmRuntime` | `swarm/src/core.rs`, `events.rs`, `runtime.rs`; identify and negotiation as the core uses them | core handlers as operators (with `PingProtocol`); the core under the runtime, an application and any transport that keeps the contract |
| `RelayAgent`, `RelayServer` | `relay-server/src/agent.rs`, `limiter.rs`, `relay/src/server.rs`; `minip2p/src/std/relay_server.rs` | the agent as operators; under its driver, swarm, peers and clock |
| `NatAttempt`, `NatAgent`, `Nat` | `nat/src/{attempt,housekeeping,inbound,agent,events}.rs`, relay client, DCUtR and AutoNAT as they are driven; `minip2p/src/std/nat.rs` | one attempt to reach a peer; probes, reservations, inbound circuits and the agent; the driver with swarm, relay and peers |
| `PubsubShared`, `Gossipsub`, `Floodsub`, `Pubsub` | `pubsub/src/**`, `minip2p/src/std/pubsub.rs` | what the routers share; the two routers; either of them under the driver |
| `DiscoveryBook`, `Mdns`, `Discovery` | `discovery/src/{book,beacon,events}.rs`, `mdns/src/*`, `minip2p/src/std/discovery.rs` | the book; mDNS agent and driver; hosts on a link |
| `SecureMux` | `secure-mux/src/session.rs`, with multistream-select and Noise as message sequences | the upgrade of a byte stream, over `YamuxSession` |
| `TcpNet`, `StdTcp`, `SmoltcpTcp`, `TcpTransport`, `Tcp` | `transports/tcp/src/*` | links; the two socket providers; the transport over either; two endpoints |
| `CircuitTransport`, `Circuit` | `circuit/src/lib.rs`, `transport/src/set.rs`, `connection_id.rs` | circuits over a transport set; two endpoints behind a relay |
| `QuicTransport`, `Quic` | `transports/quic/src/{connection,lib}.rs` | connections and endpoint around quiche; two dual-stack endpoints |
| `Endpoint`, `Bindings` | `minip2p/src/std/mod.rs`, `swarm/src/driver.rs`; `ffi-core/src/*`, `bindings/ts/**` | blocking calls of an endpoint; who drives it: an application thread, or the driver thread with the JavaScript SDK |
| `*Proofs` | | TLAPS proofs about the module they are named after |
| `MC*` | | instances for TLC |

A handler that in Rust mutates `self` and returns a list of actions is an
operator `Handler(state, input)` that returns the new state with what it emitted;
the state machines compose such operators with the queues around them. Operators
have the names of the functions they translate (`on_stream_data` is
`OnStreamData`), fields keep theirs, and every operator is mapped to its lines in
`PROJECT.json`. Operators whose comment begins "Mutant of" or "A mutant of" are wrong on purpose
and used by nothing: each is the variant of a handler that breaks one property.

**Ping.** The dialer and the listener each hold one `PeerPingState`. A stream is
two channels of bytes and markers (`OPEN`, `FIN`, `RST`). The receiver takes any
prefix of the bytes in a channel (`IsChunk`), which is all a transport may do.
Either side's host may half-close or the transport may lose a stream at any time.
The clock runs ahead of `Tick`: a timeout may fire late, an answer may arrive
after the instant of the timeout and before the tick.

**Yamux.** `sess[e]` is one end; the connection delivers frames in order
(`FrameArrives`), hosts call the API and drain outputs (`PollOutput`).
`DrainFirst` says that a host drains its outputs before it calls again, as
secure-mux does. Credit that is due is *deferred* until the output queue is
drained (`Refill`, `materialize_deferred_control`). A payload byte is the pair of
its writer and its position, so that order and completeness can be stated.
Window sizes are constants, including the peer's default window, which may be
smaller than the configured one.

**CreditFlow** forgets everything of a stream but its counters: what the sender
may send, what it buffers, the bytes and the credit on the wire, what the
receiver allows, has delivered and owes. It is nondeterministic in the sizes of
sends and frames. `Yamux` implements it in both directions: bytes in data frames
queued or in flight are `data`, credit in window updates is `credit`; a stream
that either end has removed is "closed".

**Swarm.** `core` is the record of the core's tables with its action and event
queues. A step of the runtime is: start a flush, execute one action (an
`OpenStream` feeds its result back into the core; a refused reset feeds back
`ResetStreamFailed`), surface the events, deliver one transport event, tick,
return. The transport is *external*: it is any transport that keeps the contract
of `transport/src/transport.rs`, with `late` workloads for one that verifies the
peer after `Connected`. A batch of events is computed before the core reacts, so
an effect of the core on a stream becomes visible only in the next batch.

**Relay server.** `ag` is the agent; `conn` and `stream` are the swarm's tables;
`inbox` are swarm events not yet ingested. The host is one thread, so the
environment only moves while the agent has no queued actions (`Idle`). The tables
run *ahead* of the inbox: while an event is ingested the connection it belongs to
may already be gone, and an action may be refused or, since the driver addresses
streams by peer and stream id, hit what now carries that id (`Addressed`). Peers
send requests, replies, payload, half-closes and resets at any moment; a send of
the relay may be refused as a fault. Requests and replies are kinds of frame,
payload bytes are numbered. `last_event_tick_ms` is the boolean `swept`: whether a
sweep has happened at the present time. The initial state has the two peers
connected, which the program reaches from an empty one by two established
connections.

**NAT.** The agent's record holds its attempts, inbound circuits, the prober and
the reservation manager, with the shared queues of actions and events. `Nat` is
the driver: it executes an action on a swarm that may refuse it, carries results
back, and reads peers' bytes as the kinds of message the machines tell apart. The
relay, the other peer and the dials are external and answer anything, late or
never. Every timer of the configuration is a constant of a unit or two, so that
each can fire before, with and after the others.

**Pubsub.** One router under the driver, with peers whose RPCs come from the
workload, whole, partly or malformed. A write is accepted or refused by the swarm
and lost with its stream later; `said` and `decided` remember what the router last
told and last decided about a topic for each peer. Random choices of the router
(which peers to graft) range over `Picks`.

**Discovery.** A step of a host is one turn of its endpoint. Datagrams carry
claims (peer, address, lifetime) instead of DNS records; the carrier may be full,
fail or lose. `app` is what the application has read.

**Transports.** `SecureMux` cuts the wire at message boundaries: a token is a
multistream line, a handshake message or a sealed Noise message. `TcpTransport` is
written once over the operators of a provider; `Tcp` instantiates it over the
operating system's sockets and over smoltcp. `CircuitTransport` runs the same
sessions over bridge streams. In `QuicTransport` the library quiche is external:
the model keeps what the code relies on (handshake in three packets, ordered
delivery within a window, RESET_STREAM and STOP_SENDING, timers). In all of them
`view` is an automaton over the events a host was given.

**Endpoint and bindings.** A call that may block runs in steps, one per turn of
its loop; it sleeps only in the wait for input. In "sdk" modes the driver thread
holds the state lock from its look at the lifecycle to the end of its pump, the
doorbell thread rings, and JavaScript runs to completion between native calls.

## Runs

Each run has a constant set or sequence of *workloads* (`Workloads`, `Modes`), and
an initial state picks one: a workload says which connections, streams, calls,
faults and times there are. So one run holds several small instances, each
explored completely; the `MC` module describes each of them.

| run | question | workloads |
|---|---|---|
| `ping` | exchanges, limit, ends | two streams, two-byte payloads, one inbound slot, timeout 1, clock to 4 |
| `credit_flow` | flow control of one direction | windows 3 and 5, buffer 4, `u32` maximum 8 |
| `yamux` | bytes, agreement, refinement of `CreditFlow`, progress | both write and close; one writes more; buffers full; resets; GoAway with keepalive; undrained outputs. Window 1 growing to 2, server limit of one stream |
| `swarm` | tables, events, streams, timers, superseded connections | two connections to a peer with streams of either side; a stream on the connection being replaced; every call on one connection; pings with late identity |
| `relay` | admission, carrying, deadlines, liveness | competing CONNECTs, reservations over a circuit, pauses, a bridge with payload both ways, with one fault, with two, with a source that does not wait for its answer |
| `nat` | outcomes, ownership, timers | dialer, relayed dialer, dialer beside a reservation, reserver whose relay is lost, listener with and without the application's own streams, prober |
| `pubsub` | mesh, decisions, subscriptions, messages | gossipsub with two peers, with failing streams, with RPCs behind a frame in flight, with a refused frame before a full control queue, with IHAVE/IWANT; floodsub with two peers, with failures |
| `tcp` | events, bytes, sockets | both providers: flow, cut connections, racing dials, timers, one connection allowed, a send buffer that fills; a dial to the wrong peer |
| `circuit` | ownership, arbitration, bytes | a stream with a failing member, two bridges of which one retired key is remembered, a direct connection, relay and bridge lost, a relay that stops reading, resets, wrong peer |
| `quic` | events, bytes, books and wakeups | streams against the window, limits, lost and repeated handshakes, closes, blocked and dead sockets, dual stack, keepalive, wrong and bad certificates |
| `discovery` | events, dials, datagrams | two hosts on a link, a full book, both sources of a peer, a full carrier, malformed answers, beacons, a late host |
| `bindings` | events, waits, promises | focused waits, `run_until` limits, `run_until` woken late, close, agent timers, abandoned streams; SDK connects, cancels, timeouts, streams, errors of opening streams, driver failure, overflow |

### What the properties say

*Ping.* `HonestExchanges`: at most one payload's bytes are anywhere between
sending and checking, none once no ping is in flight, and no peer that runs this
code is reported for a protocol violation, except for a half-close before the
answer. `InboundLimit`. `PingsEnd`: every ping is answered or given up, and a
closed stream does not occupy a slot for good.

*CreditFlow.* `NeverFails`: no window is exceeded, overflows or underflows.
`NoStall`: a sender with buffered bytes has data, credit or an update to come.

*Yamux.* `InOrder`: the reader sees a prefix of what was written. `SessionsAgree`: two
ends that run this code never fail a session; the reader has all of it at the end of a
stream that no host reset; each end of stream is reported once and nothing
follows it; the aggregate buffer is the sum of the streams'. `SessionsProgress`:
accepted bytes arrive; a GoAway closes every stream at both ends.
`BothDirectionsFlow`: each direction implements `CreditFlow`.

*Swarm.* `CoreTables`: the two connection maps are inverse, nothing is kept for a
lost peer, and a stream is negotiated, owned or abandoned, never two of them, and
only while it exists. `ConnectionsAgree`: the application reads each connection's
life in order, never sees two open ones to a peer, and no placeholder is left once
the peer is verified. `StreamLife`: a stream's events are in order and stop when it
is abandoned; a reset is queued once. `PingTimerArmed`: the core's copy of the ping
timer wakes the host in time. `SupersededEnds`: the deferred close of an old
connection happens after the application was told, and does happen.

*Relay.* `AdmissionIsSound`: reservations and circuits, those that may still
commit included, stay within every limit and rate; tables refer to each other and
to live connections; lifecycle events alternate. `CircuitsCarry`: bridged bytes
arrive once each and in order, but for the payload of a CONNECT whose source writes on
before the answer (`InOrder`), and an end of stream after all of them; no second send
before its echo; no STOP stream is left open. `DeadlinesFirst`: no event is handled while a
deadline of its instant is due. `RequestsResolve`: a request is decided, and a
pending CONNECT commits or ends, by its deadline.

*NAT.* `OneOutcome`: the events of a connect id form one story with one ending.
`HoldsWhatItUses`: streams and circuits have owners, advertised addresses have
reservations, a peer whose path is reported as relayed is connected. `TickSettles`: a tick leaves
nothing due, and an inbound circuit always has a timer.

*Pubsub.* `MeshAgrees`: mesh members are known, subscribed, not backed off, and
within `d_high`. `DecisionsStand`: the last GRAFT or PRUNE decision reaches the
peer or is queued, unless a restored frame left no room for it.
`LinksKept`: the remote's view of our subscriptions is right once a gossipsub link is quiet, over streams that are open. `WrittenOrTold`: a message is
delivered once while the cache of seen messages remembers it, and one that no stream
accepted is still queued or raised `OutboundFailure`. What a stream accepted and then lost
is neither: nothing in the code promises a receipt.

*Transports.* `EventsLegal`, `QuicEventsLegal`: the events of a connection and its
streams form one life. `FlowsWhole`, `CarriesWhole`, `QuicStreamsWhole`: bytes
arrive whole and in order. `SocketsServed`: every socket has an owner and one with
work wakes its host. `QuicSettles`: tables, counters and limits agree and what is
ready is on a timer or in a queue. `CircuitsOwned`, `DirectWins`: a circuit lives
once with its bridge, whose events surface again only once `retire_bridge` has forgotten
its key, and yields to a direct connection. `CarriesWhole` adds that no circuit ends on
its own over a bridge that is intact and accepts what is sent.

*Discovery.* `EventsTellTheBook`: what the application has read is what the book
says. `DialsControlled`: a dial belongs to an entry and the limit of all dials together
holds (the limit per peer starts afresh with a new entry). `MdnsSpeaksNow`: no datagram
claims an address that is not among the interfaces the agent last learned.

*Bindings.* `EventsReach`: each event is handed over once, or waits announced, and no call
polls past its deadline more than once (`run_until` twice); what a failing tick, a failing
close or the end of close takes with it is accounted for. `WaitsEnd`: no call sleeps on
what it waits for, past its deadline or past a timer of an agent, and close leaves nobody
connected. `PromisesSettle`: a promise of the SDK settles when its attempt ends or the SDK
closes; at rest a stream still opening has had no answer and a read still pending has
nothing to return.

### Bounds and why they are enough

Every bound is a named constant or a field of a workload. Windows and payload
lengths are smaller than the data, so that buffering, partial sends and credit
returns happen; limits are 1 or 2, and the workloads meet and exceed them: among them
`max_seen_messages` 1 with two messages, `MAX_RETIRED_BRIDGES` 1 with two bridges,
`max_pending_per_peer` 1, TCP's `max_connections` 1 and `max_buffered_send` 1 in the
workloads for them. Three limits of the relay are not met: `max_circuits` 2,
`max_pending_hop_requests_per_connection` 2 and `max_pending_stop_requests_per_connection`
2, since `max_circuits_per_peer` and the streams of a workload end before them; each is
the same comparison as one that is met. Two
connections, streams or requests are what an interleaving between "old" and "new"
needs. `MaxBatch` 2 is the least that lets an event follow the one that supersedes
its connection, and 3 (workload `Overtaken`) lets a stream be negotiated on the
superseded one. Clock bounds exceed every timeout by at least one or, in the
relay, equal the longest. Faults (resets, refusals, losses, interrupts) are counted
by fuel, so that a workload is about one or two of them in every position rather
than a storm; what no workload combines is listed under "What is not modelled".
`CHECK_DEADLOCK` is off because all these systems may stop: every application
call, peer step and clock tick is optional or bounded.

### Fairness

* Ping: time passes, the dialer ticks, and the listener's transport hands over
  what arrives on its streams. The driver sleeps by `next_timeout` and polls, which
  gives this. None on the dialer's receiving side: a ping resolves by its timeout
  although no answer arrives. None on the hosts' calls.
* Yamux: each end drains its output and the connection delivers. None on host
  calls.
* Swarm: the application keeps polling (`WF` of the runtime's steps). None on the
  transport or on calls.
* Relay: the endpoint's loop goes on and time passes. Weak fairness of the host's
  steps is written with its enabling condition spelled out (`HostRests`). None on
  peers: `RequestsResolve` holds against peers that never answer.
* Elsewhere progress is stated as safety: in a state of rest what is owed is on a
  timer or in a queue (`TickSettles`, `SocketsServed`, `QuicSettles`, `WaitsEnd`,
  `PromisesSettle`, the message part of `WrittenOrTold`).

## Proofs

The theorems hold for every value of the constants that satisfies the named
assumptions: `CreditAssumption` (`CreditFlow`), `PingAssumption` and
`PayloadsAssumption` (`PingProtocol`, `Ping`), `SwarmAssumption` and
`RuntimeAssumption` (`SwarmCore`, `SwarmRuntime`), `NatAssumption` (`NatAttempt`),
`YamuxAssumption` and `WorkloadAssumption` (`YamuxSession`, `Yamux`), `OrderAssumption`,
`ConfigAssumption` and `WorkloadAssumption` (`PubsubShared`, `Gossipsub`, `Pubsub`).
`CreditFlow` (at its end), `PingProofs`, `SwarmProofs`, `NatProofs`, `YamuxProofs` and
`PubsubProofs` hold them.

**CreditFlow.** Assumptions: the default window is positive and no larger than the
configured one, and this no larger than the `u32` maximum. The safety properties
are not inductive. The invariant `IInv` is the type invariant, `NeverFails`,
and `FlowInv`: while a stream is open,

* what the receiver allows is what the sender may still send, plus bytes and
  credit on the wire;
* that, plus what was delivered since the last update and what is owed, is the
  configured window;
* a sender with a buffer has no window;
* what was delivered since the last update is at most half the window.

From it follow: `TypeCorrect` (no counter underflows), `FlowControlNeverFails`
(no window is exceeded or overflows, and the `expect` in
`materialize_deferred_control` holds), `SendKeepsOrder` (a send cannot overtake
buffered bytes), `FlowNeverStalls` (with nothing on the wire, a blocked sender is
owed credit: the window is then wholly delivered or owed, delivered is at most
half, so something is owed), and `FlowInvariant` itself. TLC shows that `Yamux`
refines `CreditFlow` on an instance; the refinement itself is not proved.

**Ping.** `PingInv` adds to the properties the types of everything on the wire:
without knowing that a channel carries payload symbols, nothing is known of the
buffers that chunks are appended to. Each handler is described by a lemma
(`DataKeeps`, `ProcessKeeps`, `EndKeeps`, `RegisterKeeps`): it keeps a peer's
state sound, does not add inbound streams (except registration, within the
limit), and puts only symbols on the wire. `PingStep` goes through the actions
with those lemmas. Results: `TypeCorrect` (with the bound on receive buffers),
`ListenerLimited`, `TimeoutIsArmed`.

**Ping exchanges.** `HonestExchanges` counts bytes in four places: the two
channels of a stream and the two receive buffers. `ExchangeInv` says of every
stream that it is `Shaped` (OPEN is first and taken by the accept, behind a FIN
comes only a reset, the end that wrote a FIN gave the stream up, the listener forgets
a stream only when the dialer can send nothing more on it) and `Counted` (the four
places together hold at most one payload; nothing on the dialer's stream without a
ping in flight; and otherwise bytes that continue that ping's payload, so that the
echo can only match). The count of a channel is taken with a
cardinality, so that a step that moves a chunk from a channel to a buffer is a
statement about finite sets and not an induction over the sequence. Result:
`ExchangesAreHonest`, that is `Spec => []HonestExchanges`.

**Yamux.** `BytesInOrder` is `Spec => []InOrder`: what a host has read of a stream is a
prefix of what the other host wrote, for any windows, limits and workload, whatever
the hosts open, close, reset or leave unread. The bytes of one direction are spread
over five places, and `InOrder` speaks of the last of them only. `BytesInv` says of
every end `e` and every stream that there are positions `g <= h` and `i <= j <= k`
(`Flow`):

* the other host has the bytes up to `g`, and the notices its session still holds
  bring those from `g` to `h`;
* the connection carries those from `i` to `j`, the frames that `e`'s session has queued
  those from `j` to `k`, and the stream's send buffer the rest, up to what `e`'s host
  wrote;
* as long as the other end has the stream, `h = i`: nothing is missing between what it
  has taken and what is on its way. Once it has given the stream up, what still arrives
  is dropped, so `h` stands still.

Two more parts make it inductive. `Settled`: a stream with buffered bytes has no send
window. A write first takes what the window has room for, so without it a new
write could overtake the buffer; it is why `on_window_update` ends with
`flush_buffered`. `SynOnce`: the frame that opens a stream is the first one that
matters, before it is taken the acceptor has nothing of the stream, and a stream that
is not opened yet has left no bytes anywhere. Without it a late SYN could make a fresh
stream in the middle of the bytes.

"A sequence of frames carries the bytes from `i` to `j`" is said by the existence of
cut positions (`Carries`, `Cuts`) in place of a fold, so that a frame that moves from
one queue to the next is a statement about the positions alone. What a method of
`session.rs` does to the places is one of four kinds: it `Keeps` all, `Moves` the
payload of a frame to the notices, `Alters` what was written, or `Takes` a frame; there
is a lemma per method (`SendBytesAlters`, `OnDataTakes`, `FlushBufferedKeeps`, ...) and one
per action of `Yamux`. `flush_buffered` is a fold over the chunks, for which the
induction is made from the least element of a set of naturals, as in the NAT proofs.
`InitBytes`, `StepBytes` and `BytesArrive` give `BytesInvariant` and `BytesInOrder`.

`YamuxAssumption`: the window constants are ordered as `YamuxConfig` and the protocol
want them, a frame has room for a byte, stream ids are `u32` and not 0 (the session's
own id), and `None` is none of the values it stands beside. For these proofs
`close_all_streams` lists its notices by the number of smaller ids instead of by a
library sort, of which nothing can be proved; the sequence is the same.

**Swarm.** `SwarmInv` is over the core, the connections and streams of the
transport, the workload and the clock:

* `PeersSound`: the two connection maps are inverse, a peer without a connection
  has nothing kept for it, and the core's deadline of every ping in flight is that
  of the machine's timer;
* `StreamsSound`: a stream is in at most one stage, and opens are for known targets;
* `Attached`: a connection has a peer in the core only while the transport has it,
  an unidentified connection has its placeholder, and a stream is in a stage only
  while it exists.

The last part is what makes the others inductive: a transport that gives an
identifier again, or reports on a stream the core has forgotten, would undo them.
The lemmas follow the code: a few frames say which tables a helper leaves alone
(`Agree`), one lemma per helper and per arm of `on_transport_event`, `execute_action`
results and calls says what it keeps, and `SwarmInvariant` goes through the actions
with them. The core's handlers work on values, so each lemma is about any sound core `k` and
not about the state. From `SwarmInv` follow `CoreTablesAreSound` (`CoreTables`) and
`PingWakesDriver` (`PingTimerArmed`).

Hypothesis of the three theorems: `IdentitiesInTime`, in a workload whose identities
are verified late there is one connection per remote peer. The code needs it:
`upgrade_connection_identity` (`core.rs:1151`) installs the verified peer's connection
without superseding another one, which would leave the maps no longer inverse. In
workloads without late identities nothing is assumed about the number of
connections per peer. The workloads of the run satisfy it, and TLC checks `SwarmInv`
on them.

**NAT.** What has been said of a connect id is spread over the log of the events the
driver took and the queue of those it has not taken. `NatInv` says of every id that

* the two together are legal (`Story`): an opening event first, others after it, and
  nothing behind a last word;
* an attempt that is not done is at the point of the story its fields say (`Fits`):
  without a best path nothing was said and neither a punch nor a DCUtR exchange is
  under way; with one, the path is relayed and the last word is still to come;
* an id that is not handed out yet has no attempt and no story;
* between two calls no attempt is done: `reap_done` ends every one.

`OneOutcome` alone is not inductive: it knows neither the queued events nor which
field makes an attempt raise the next one. The middle part is the argument of the
code, that `best_path`, `done` and the punch deadline together say what may still be
announced, and it is what every early return of `attempt.rs` protects. The lemmas are
about any agent `g` and any attempt `i`. `Still` and `Silent` are for operators that say nothing
of a connect id (streams, dials, the prober, reservations, inbound circuits), `Alike`
for those that only move a leg; each handler of an attempt takes a `Live` attempt to a
`Live` one or to one that is `Over`, which says its last word at most once. The loops
over the attempts and the circuits are folds. The induction they need is made from
the least element of a set of naturals (`LeastElement`, `Induction`, `ChainOf`) for a
set in place of a predicate, since an operator parameter cannot be instantiated.
`NatInvariant` goes through the actions, and `OneOutcomeHolds` is
`Spec => []OneOutcome`. `NatAssumption`: connect and inbound ids are handed out from 1
without gaps, and `None` is neither a path nor a time.

The proof led to a correction of the model: `on_dcutr_stream_input` returns when there
is no responder (`attempt.rs:219`). Without that guard an input behind the end of the
exchange would have been decoded, and the attempt could not be shown to be silent then.

**Gossipsub's mesh.** `MeshStaysRight` is `Spec => []MeshAgrees`: a member of the mesh of a
topic is a known peer that is subscribed to it and not backed off, in a topic of ours,
the mesh never outgrows `d_high`, and a topic we are subscribed to has no fanout. It
holds for any number of peers, topics, streams and messages, any configuration that
validates, any order in which the random generator lists the peers, and whatever RPCs
the remotes send. The invariant `MeshInv` adds only the shape of the tables (`Shape`):
which peers they are about, that backoffs are naturals, and that every known peer has a
state. The properties hold together or not at all: leaving a mesh and the backoff, the
remote's unsubscription and the member it concerns, or the removal of a peer and its
memberships are single steps here because they are single calls of the agent.

* `Alike(h, k)`: `k` differs from `h` in nothing that the mesh depends on. The greater
  part of the agent (senders, queues, frames, caches, the inbound half) is shown to be
  `Alike`, one lemma per function; `AlikeSound` carries the invariant over.
* `AlikeBut(h, k, t, ps)`: as `Alike`, but for the backoff of `ps` in topic `t`.
  `maintain_mesh` backs members off before it writes the new mesh; `NewMesh` says when the
  mesh that it writes then is right, and subscribing, GRAFT, PRUNE and the heartbeat
  rest on it.
* `Selected` and `Filled`: `select_peers` takes at most `count` of the candidates, and
  filling up keeps within `d`. The selection is stated by positions in the shuffled order:
  a position is taken when at most `count` candidates stand up to it.
* The agent's loops are folds. `Step` is one turn of each of the fourteen, `TurnsExist`
  that a fold has the function its definition chooses, `FoldKeeps` that it keeps what a
  turn keeps, by the same induction as in the NAT proofs.
* `OnFrame` may forget the inbound stream, but never the peer, so that a GRAFT later in
  the same RPC still finds the peer known: `Sound(h, {p})` carries that through the loops of
  `process_rpc`.

A consequence: the branch of the heartbeat that cuts a mesh above `d_high` down is never
taken (`MaintainMeshSound`, whose case is empty). Assumptions: `ConfigAssumption` is
`GossipsubConfig::validate`; `OrderAssumption`, that peers and topics come in a sequence;
`WorkloadAssumption`, what decoding guarantees of an RPC. Floodsub has no mesh and its
states satisfy `MeshAgrees` vacuously. For these proofs `peers` is a function on the peers
that are known, and what the heartbeat and unsubscribing do to several peers is stated
for each of them; the state space that TLC explores is unchanged.

**Only model-checked.** Liveness (`PingsEnd`, `SupersededEnds`, `SessionsProgress`,
`RequestsResolve` and the like) and anything about `ENABLED` are outside what the
prover can do. The order of the swarm's events (`ConnectionsAgree`, `StreamLife`)
speaks of sequences that are filtered and flattened: `SelectSeq` is a local recursive
definition of the `Sequences` module, of which the provers know no fact. The same holds
for the relay agent, whose `cancel_operations` filters the queue that carries its
pending operations, and for the discovery book and the bindings. A fold over a
sequence of known length is within reach, as the NAT, Yamux and gossipsub proofs show.
`DecisionsStand` and `LinksKept` of pubsub read queues through `Sorted`, which is
`SelectSeq`, and `WrittenOrTold` a cache that is filtered by it. Not
attempted: `SessionsAgree` and the refinement of `CreditFlow` by `Yamux` (both need the
windows of the two ends beside the positions of `BytesInv`), `HoldsWhatItUses` and
`TickSettles` of NAT, and the invariants of the transports.

## Observations

Met while modelling; the modelled code does these things, and the properties leave
room for them where they say so.

*Swarm.* An event of a superseded connection, later in the batch that superseded
it, surfaces under a synthetic peer id (`core.rs:1048`; the comment at 1045 calls
such ids internal); the workload `Overtaken` reaches it. With a second connection
whose identity is verified late, `upgrade_connection_identity` (`core.rs:1151`)
points `peer_to_conn` away from the first without superseding it (line 1189).
Workloads with `late` therefore have one connection per peer, and the theorems about
the core's tables have this as a hypothesis (`IdentitiesInTime`).

*Relay.* A source that sends payload in the same chunk as its CONNECT and more
payload before the answer has the two delivered in the wrong order: the first waits
in the HOP responder, the second goes into the pending circuit's buffer
(`agent.rs:1279`; `crates/relay/README.md:25` speaks of pipelined bytes and line 58 of
reads that are paused). The workload `Hasty` reaches it: `InOrder` there lets the byte
that came with the CONNECT arrive late, and no other. A STOP
negotiation that fails emits no event that the driver reads: its CONNECT is denied
by timeout. After a refused pipelined forward the queued half-close still executes.
The driver addresses streams without their connection; stream ids are unique
across connections in the workloads.

*NAT.* A stream that the application opened to a peer with an inbound circuit can
be taken for the agent's (`inbound.rs:405`; `AppStreamsAreFree` and the listener
workload `MCListener` show it).

*Pubsub.* `restore_older` with a full queue keeps the item it puts back and drops the
newer decision queued behind it (`gossipsub/agent.rs:143`, workload `MCFullQueue`),
although its comment says that newer decisions win: the case `DecisionsStand` exempts. Past
`max_seen_messages` a message may be delivered again. A message that a stream accepted and
then lost raises nothing.
A floodsub subscription that timed out and was withdrawn while in flight is never
withdrawn at the remote. A PRUNE queued before a GRAFT is accepted is still sent,
and a queued GRAFT is not cancelled by a received PRUNE. The branch for a mesh
above `d_high` is unreachable, which the proof of `MeshStaysRight` shows for every
configuration.

*TCP.* An early return of pending events leaves `authenticate_by` unstamped for
that poll. A half-closed socket left by a graceful close has no timer. A GoAway in
the same input as the acknowledgement of yamux gives Connected, Error and Closed.

*Circuit.* An event of a bridge whose retired key was evicted surfaces as one of an
unknown stream. A bridge that refuses a send ends its circuit. A retired entry that `inject_bridge_closed` adds again is released only
with the relay's connection.

*QUIC.* Handshake packets a server owes are not flushed by the poll that produced
them. An error of a stream the peer stopped fails the whole poll; `send_stream` may
return another stream's error; when the IPv4 half of a dual transport fails to
poll, the IPv6 half is not polled.

*Discovery.* The outcome of an attempt that was replaced may be charged to the
dial queued after it (`crossed`). Limits per peer start afresh when an entry is
created again. With a lifetime of 120 s below the query interval of 300 s a peer
that only answers queries comes and goes. `DialFailed` may follow `Expired`.

*Endpoint and bindings.* `run_until` polls twice past its deadline when its wait ends
late with an event that does not match (`driver.rs:513`), although its comment at 492-495
allows one poll: `EventsReach` allows it two. A close that
fails discards the events it collected, and one that succeeds those that focused waits had
set aside. Events taken with a failing `tick_drivers` are lost
(`lost`). A driver that fails between filling an empty carry and ringing leaves
events unannounced (`muted`). The book may take back an event a waiter was woken
for (`masked`). An interrupt may surface twice. A connect that times out against a
stopped endpoint stays pending (`Stranded`, `sdk.ts:630`).

## What is not modelled

* Relay server: the reservation limiter and the limiters per address (the same
  token bucket under another key), the choice and encoding of announced addresses,
  wall-clock expiry times, texts of runtime errors. Control frames arrive whole.
* Swarm: addresses, protocol names beyond the kinds the core tells apart, listening,
  contents of identify messages.
* Secure-mux: what is packed behind the last line of a negotiation in one message
  (`take_remaining_buffer`): the peer seals one line or one frame per message.
* Codecs (multistream lines, Noise payloads, DNS, protobuf): by their outcome only.
* Yamux: byte layout and the incremental decoder, ping nonces.
* Pubsub: no workload combines IHAVE/IWANT with failing streams; close reports of a
  peer's streams arrive in order.
* TCP: the `Writable` event of a provider (writes are retried by every poll). Of
  smoltcp's closing states TIME-WAIT is kept, LAST-ACK ends with the last segment.
* Circuit: the refusal of a close of the inner transport; in `reject_inner_collision`,
  which no workload reaches, its outcome is ignored by the code.
* Endpoint: errors of `disconnect` in close, which only reports a peer that is not
  connected and is called for connected ones.
* mDNS: one interface per host; DNS names and records.
* Endpoint and SDK: builders; in the SDK ping, event subscriptions, inbound streams,
  flowing mode.
* The portable endpoint (a twin of the std one), cryptography, codecs, generated
  shells: no state machine of their own at this level.

## Plan

The modules of the plan are all written. What could follow is proof work, in this
order: `NoProtocolError` and the safety part of the refinement of `CreditFlow` for one
stream of `Yamux`, over `BytesInv` and the windows of both ends; the
ownership of streams by the machines of the NAT agent (`StreamsHaveOwners`), for which
the frames of `NatProofs` need the registry as well; the limits and tables of the relay
agent, once its sweeps are written pointwise, as `handle_tick` of the
swarm is, and its cancelled operations by positions.
