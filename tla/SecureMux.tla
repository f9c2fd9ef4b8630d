----------------------------- MODULE SecureMux -----------------------------
(***************************************************************************)
(* The upgrade of a byte stream to a connection, crates/secure-mux: a      *)
(* multistream negotiation of Noise, the Noise XX handshake, a second      *)
(* negotiation of Yamux under encryption, then Yamux.  A session is a      *)
(* record and its methods are operators.                                   *)
(*                                                                         *)
(* The wire is cut at message boundaries, where the decoders of            *)
(* multistream-select and noise cut it: a wire token is a multistream      *)
(* line, a handshake message that carries an identity, or a Noise          *)
(* transport message with the nonce it was sealed with.                    *)
(***************************************************************************)
EXTENDS YamuxSession

\* A line of multistream-select, a message of Noise.
Token(k, v, n, data) == [k |-> k, v |-> v, n |-> n, data |-> data]
Line(v)              == Token("Line", v, 0, None)
Handshake(k, peer)   == Token(k, peer, 0, None)
Sealed(role, n, data) == Token("Sealed", role, n, data)

\* enum SessionOutput
Out(o, s, v) == [o |-> o, s |-> s, v |-> v]
Write(tok)   == Out("Write", None, tok)

-----------------------------------------------------------------------------
(* multistream-select *)

\* fn handle_message: the next state, the reply and the outcome of one line.
Selects(role, state, desired, line) ==
    LET to(st, reply, outcome) == [state |-> st, reply |-> reply, outcome |-> outcome]
    IN  CASE state = "Header" ->
               IF line # "/multistream" THEN to("Done", <<>>, "ProtocolError")
               ELSE IF role = "Initiator" THEN to("Response", <<desired>>, "None")
               ELSE to("Request", <<>>, "None")
          [] state = "Request" ->
               IF line = desired THEN to("Done", <<desired>>, "Negotiated")
               ELSE to("Request", <<"na">>, "None")
          [] state = "Response" ->
               IF line = desired THEN to("Done", <<>>, "Negotiated")
               ELSE to("Done", <<>>, IF line = "na" THEN "NotAvailable" ELSE "ProtocolError")

-----------------------------------------------------------------------------
(* struct SecureMuxSession.  err is what the last method returned. *)

NewSecure(role, identity, expected) ==
    [ role |-> role, identity |-> identity, expected |-> expected,
      phase |-> "SelectNoise", select |-> "Header", step |-> "Initial", peer |-> None,
      send |-> 0, receive |-> 0, yamux |-> None, outputs |-> <<>>, err |-> None ]

IsEstablished(s) == s.phase = "Ready"
Fails(s, e)      == [s EXCEPT !.phase = "Failed", !.err = e, !.yamux = None]
Refuses(s, e)    == [s EXCEPT !.err = e]
Writes(s, tok)   == [s EXCEPT !.outputs = Append(@, Write(tok))]

\* fn encrypt: every message takes the next nonce.
Encrypt(s, data) == [Writes(s, Sealed(s.role, s.send, data)) EXCEPT !.send = @ + 1]

\* fn start
Start(s) == Writes([s EXCEPT !.err = None], Line("/multistream"))

YamuxRole(role) == IF role = "Initiator" THEN "Client" ELSE "Server"

\* Every frame that poll_output makes up once nothing is queued.
Materialized(y) ==
    FoldLeft(LAMBDA z, i : MaterializeDeferredControl(z), y, [i \in 1..Cardinality(Ids) |-> i])

Drain(s, out) ==
    IF out.output = "Outbound" THEN Encrypt(s, out.frame)
    ELSE IF out.output = "GoAwayReceived" THEN s
    ELSE [s EXCEPT !.outputs = Append(@, Out(out.output, out.stream, out.data))]

\* fn drain_yamux: the session ends with a GoAway, once all is drained.
DrainYamux(s, y) ==
    LET all  == Materialized(y)
        done == FoldLeft(Drain, s, all.pending)
    IN  IF all.remote_go_away THEN Fails(done, "GoAway")
        ELSE [done EXCEPT !.yamux = [all EXCEPT !.pending = <<>>]]

\* fn with_yamux: an operation and what it returns.
WithYamux(s, y, e) ==
    IF s.phase # "Ready" THEN Refuses(s, "NotEstablished")
    ELSE DrainYamux(Refuses(s, e), y)

Known(s, id) == s.phase = "Ready" /\ id \in Ids /\ s.yamux.streams[id] # None
OnStream(s, id, accepted, y) ==
    IF s.phase = "Ready" /\ ~Known(s, id) THEN Refuses(s, "UnknownStream")
    ELSE IF s.phase = "Ready" /\ ~accepted THEN WithYamux(s, s.yamux, "Yamux")
    ELSE WithYamux(s, y, None)

SessionOpen(s) ==
    IF s.phase = "Ready" /\ ~OpenStreamAccepted(s.yamux) THEN WithYamux(s, s.yamux, "Yamux")
    ELSE WithYamux(s, OpenStream(s.yamux), None)
SessionSend(s, id, data) ==
    OnStream(s, id, SendAccepted(s.yamux, id, data), SendBytes(s.yamux, id, data))
SessionCloseWrite(s, id) == OnStream(s, id, Active(s.yamux), CloseWrite(s.yamux, id))
SessionReset(s, id)      == OnStream(s, id, Active(s.yamux), Reset(s.yamux, id))
SessionGoAway(s)         == WithYamux(s, GoAway(s.yamux), None)
SessionPoll(s, now)      == IF s.phase = "Ready" THEN WithYamux(s, Poll(s.yamux, now), None) ELSE Refuses(s, None)
SessionDeadline(s)       == IF s.phase = "Ready" THEN NextDeadline(s.yamux) ELSE None

-----------------------------------------------------------------------------
(* fn feed_phase, one token at a time. *)

\* The lines of one negotiation; the replies of the second are encrypted.
Reply(s, lines) ==
    IF lines = <<>> THEN s
    ELSE IF s.phase = "SelectNoise" THEN Writes(s, Line(lines[1])) ELSE Encrypt(s, Line(lines[1]))

FeedSelect(s, tok, desired, Done(_)) ==
    LET r    == Selects(s.role, s.select, desired, tok.v)
        next == Reply([s EXCEPT !.select = r.state], r.reply)
    IN  CASE tok.k # "Line" -> Fails(s, "Protocol")
          [] tok.k = "Line" /\ r.outcome = "Negotiated" -> Done(next)
          [] tok.k = "Line" /\ r.outcome = "None" -> next
          [] OTHER -> Fails(next, "Protocol")

\* Noise is selected: the initiator speaks first.
StartNoise(s) ==
    LET next == [s EXCEPT !.phase = "Noise", !.select = "Header"]
    IN  IF s.role = "Initiator" THEN Writes([next EXCEPT !.step = "AwaitMessage2"], Handshake("N1", None))
        ELSE [next EXCEPT !.step = "AwaitMessage1"]

\* fn complete_handshake, and the start of the second negotiation.
Authenticated(s, peer) ==
    Encrypt([s EXCEPT !.phase = "SelectYamux", !.peer = peer, !.step = "Complete"], Line("/multistream"))

\* A mutant of ReadMessage: any identity that signs is accepted.
ReadMessageUnchecked(s, tok) ==
    CASE s.step = "AwaitMessage1" /\ tok.k = "N1" ->
           Writes([s EXCEPT !.step = "AwaitMessage3"], Handshake("N2", s.identity))
      [] s.step = "AwaitMessage2" /\ tok.k = "N2" -> Authenticated(Writes(s, Handshake("N3", s.identity)), tok.v)
      [] s.step = "AwaitMessage3" /\ tok.k = "N3" -> Authenticated(s, tok.v)
      [] OTHER -> Fails(s, "Protocol")

\* fn read_message of the XX handshake, with verify_payload.
ReadMessage(s, tok) ==
    LET trusted == s.expected \in {None, tok.v}
    IN  CASE s.step = "AwaitMessage1" /\ tok.k = "N1" ->
               Writes([s EXCEPT !.step = "AwaitMessage3"], Handshake("N2", s.identity))
          [] s.step = "AwaitMessage2" /\ tok.k = "N2" /\ trusted ->
               Authenticated(Writes(s, Handshake("N3", s.identity)), tok.v)
          [] s.step = "AwaitMessage3" /\ tok.k = "N3" /\ trusted -> Authenticated(s, tok.v)
          [] OTHER -> Fails(s, "Protocol")

\* Yamux is selected: the session is announced as established.  A message holds one
\* line or one frame, as Encrypt seals them, so that nothing is packed behind the last
\* line (take_remaining_buffer).
Establish(s) ==
    [s EXCEPT !.phase = "Ready", !.select = "Done",
              !.yamux = NewSession(YamuxRole(s.role)),
              !.outputs = Append(@, Out("Established", None, s.peer))]

DrainFed(s, y) ==
    LET next == DrainYamux(s, y)
    IN  IF y.failed /\ next.err = None THEN Fails(next, "Protocol") ELSE next
FeedYamux(s, frame) == FoldLeft(DrainFed, s, <<HandleFrame(s.yamux, frame)>>)

\* fn decrypt_with_ad: the sender's messages in the order it sealed them.
Opens(s, tok) == tok.k = "Sealed" /\ tok.v # s.role /\ tok.n = s.receive

FeedToken(s, tok) ==
    CASE s.phase = "Failed" -> s
      [] s.phase = "SelectNoise" -> FeedSelect(s, tok, "/noise", StartNoise)
      [] s.phase = "Noise" -> ReadMessage(s, tok)
      [] s.phase \in {"SelectYamux", "Ready"} ->
           LET opened == [s EXCEPT !.receive = @ + 1]
           IN  IF ~Opens(s, tok) THEN Fails(s, "Protocol")
               ELSE IF s.phase = "Ready" THEN FeedYamux(opened, tok.data)
               ELSE FeedSelect(opened, tok.data, "/yamux", Establish)

\* fn handle_input: a session that failed stays failed.
HandleInput(s, data) ==
    IF s.phase = "Failed" THEN Refuses(s, "Protocol")
    ELSE FoldLeft(FeedToken, [s EXCEPT !.err = None], data)
=============================================================================
