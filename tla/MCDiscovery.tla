---------------------------- MODULE MCDiscovery ----------------------------
(* Two hosts on a link, and one host with the claims of three peers. *)
EXTENDS Discovery

MCPeerSeq == <<1, 2, 3>>

Fuel(faults, conns, attempts, changes, arrivals, losses, shutdowns) ==
    [faults |-> faults, conns |-> conns, attempts |-> attempts, changes |-> changes, arrivals |-> arrivals,
     losses |-> losses, shutdowns |-> shutdowns]

Claim(p, a, ttl) == [peer |-> p, addr |-> a, ttl |-> ttl]
Dgram(body) == [interface |-> 0, legacy |-> FALSE, unicast |-> FALSE, off_link |-> FALSE, too_big |-> FALSE, body |-> body]
Says(claims) == Dgram([kind |-> "Response", meta |-> FALSE, claims |-> claims])
Asks(meta, legacy) == [Dgram([kind |-> "Query", meta |-> meta, claims |-> <<>>]) EXCEPT !.legacy = legacy]
Other(kind) == Dgram([kind |-> kind, meta |-> FALSE, claims |-> <<>>])
Beacon(p, kind, addrs) == [from |-> p, kind |-> kind, addrs |-> addrs]

Load(late, hs, mdns, sockets, capacity, beacon, local, listens, ips, datagrams, beacons, budget) ==
    [late |-> late, hosts |-> hs, mdns |-> mdns, sockets |-> sockets, capacity |-> capacity, beacon |-> beacon, local |-> local,
     listens |-> listens, ips |-> ips, datagrams |-> datagrams, beacons |-> beacons, fuel |-> budget]

\* Two hosts that answer each other; claims of two peers in a book of one; both sources
\* of one peer with its connections; a carrier that is full, and answers of all kinds;
\* beacons between two hosts; and a host that is late.
MCModes ==
    << Load(FALSE, {1, 2}, TRUE, FALSE, 2, FALSE, <<0>>, {}, {}, {}, {}, Fuel(0, 0, 0, 0, 0, 1, 1)),
       Load(FALSE, {1}, TRUE, FALSE, 2, FALSE, <<>>, {}, {},
            {Says(<<Claim(2, 5, 2)>>), Says(<<Claim(2, 5, 0)>>), Says(<<Claim(3, 6, 2), Claim(3, 7, 1), Claim(3, 8, 1)>>)},
            {}, Fuel(0, 0, 1, 0, 3, 0, 0)),
       Load(FALSE, {1}, TRUE, FALSE, 2, TRUE, <<>>, {}, {},
            {Says(<<Claim(2, 5, 2)>>), Says(<<Claim(2, 5, 0), Claim(2, 6, 1)>>)},
            {Beacon(2, "Good", <<5, 6>>), Beacon(2, "Good", <<>>), Beacon(3, "Good", <<7>>),
             Beacon(2, "Unsigned", <<>>)},
            Fuel(0, 1, 1, 0, 2, 0, 0)),
       Load(FALSE, {1}, TRUE, TRUE, 1, FALSE, <<0, 5>>, {<<6>>}, {9},
            {Asks(TRUE, FALSE), Asks(FALSE, TRUE), [Asks(FALSE, FALSE) EXCEPT !.unicast = TRUE]}, {}, Fuel(1, 0, 0, 1, 1, 0, 1)),
       Load(FALSE, {1}, TRUE, TRUE, 2, FALSE, <<>>, {}, {},
            {Other("Garbage"), Other("Malformed"), Says(<<Claim(2, 0, 1)>>), Says(<<Claim(0, 0, 1), Claim(2, 5, 1)>>),
             Says(<<Claim(2, 5, 1), Claim(3, 6, 1)>>), Says(<<Claim(1, 5, 1)>>), Says(<<>>),
             [Says(<<Claim(2, 5, 1)>>) EXCEPT !.off_link = TRUE], [Says(<<Claim(2, 5, 1)>>) EXCEPT !.too_big = TRUE]},
            {}, Fuel(0, 0, 0, 0, 2, 0, 0)),
       Load(FALSE, {1, 2}, FALSE, TRUE, 2, TRUE, <<5>>, {<<0, 6>>}, {}, {},
            {}, Fuel(0, 0, 1, 1, 0, 0, 0)),
       Load(TRUE, {1}, TRUE, FALSE, 2, FALSE, <<5>>, {}, {}, {Says(<<Claim(2, 5, 1)>>), Asks(FALSE, FALSE)}, {},
            Fuel(1, 0, 1, 0, 2, 1, 0)) >>
=============================================================================
