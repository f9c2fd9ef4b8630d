------------------------------- MODULE MCNat -------------------------------
(* One relay, which is also the AutoNAT server, and one other peer. *)
EXTENDS Nat

CONSTANTS R, T, r1, r2, t1, c1

MCRelays == <<R>>
MCPeerOf == [c \in Conns |-> IF c \in {r1, r2} THEN R ELSE T]

Config(force_relay, policy, probing) ==
    [force_relay |-> force_relay, policy |-> policy, probing |-> probing]
Fuel(connects, cancels, incoming, accepts, closes, app, policies) ==
    [connects |-> connects, cancels |-> cancels, incoming |-> incoming, accepts |-> accepts,
     closes |-> closes, app |-> app, policies |-> policies]

\* A dialer alone, a dialer that only relays, a dialer that shares the relay with a
\* reservation, a reservation whose relay is lost and comes back, a listener that a
\* circuit reaches, and a prober.
MCModes ==
    { [config |-> Config(FALSE, "Never", FALSE), unused |-> {r2},
       fuel |-> Fuel(1, 0, 1, 0, 0, 0, {<<1, TRUE>>, <<1, FALSE>>})],
      [config |-> Config(TRUE, "Never", FALSE), unused |-> {r2, t1},
       fuel |-> Fuel(1, 0, 0, 0, 1, 0, {<<1, TRUE>>})],
      [config |-> Config(FALSE, "Always", FALSE), unused |-> {r2, t1},
       fuel |-> Fuel(1, 1, 0, 0, 0, 0, {<<0, TRUE>>})],
      [config |-> Config(FALSE, "Always", FALSE), unused |-> {t1},
       fuel |-> Fuel(0, 0, 0, 0, 2, 0, {})],
      [config |-> Config(FALSE, "Never", FALSE), unused |-> {r2},
       fuel |-> Fuel(0, 0, 1, 2, 1, 0, {})],
      [config |-> Config(FALSE, "Never", FALSE), unused |-> {r2},
       fuel |-> Fuel(0, 0, 1, 2, 0, 1, {})],
      [config |-> Config(FALSE, "WhenPrivate", TRUE), unused |-> {t1, r2},
       fuel |-> Fuel(0, 0, 0, 0, 1, 0, {})] }

\* The listener alone.
MCListener == {mode \in MCModes : mode.fuel.app > 0}
=============================================================================
