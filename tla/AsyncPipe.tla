----------------------------- MODULE AsyncPipe ------------------------------
(***************************************************************************)
(* A transport pipe: the state machine of transport/async (Initial,        *)
(* HandshakeTx, HandshakeRx, Active, Dead) over a byte stream.  The module *)
(* has no variable.  Each operator gives the set of outcomes a call of the *)
(* pipe may have:                                                          *)
(*                                                                         *)
(*   pipe   the pipe after the call                                        *)
(*   inq    the messages of the peer still in the stream                   *)
(*   evts   the events raised, in order, as <<kind, message>> pairs        *)
(*   out    the messages the call finished writing to the stream           *)
(*                                                                         *)
(* A message is a natural number.  A read or a write of the stream either  *)
(* completes a message, has to wait, or fails: the kernel chooses.         *)
(* `sending' and `receiving' tell that an operation of that direction is   *)
(* pending; `msg' is the message being sent.  How many bytes a pending     *)
(* operation has moved matters only when it is given up, and is chosen     *)
(* then: `torn' holds the directions in which a message was cut, so that   *)
(* what follows makes no sense.  `overlap' records that an operation was   *)
(* started while another one of the same direction was pending.            *)
(***************************************************************************)
EXTENDS Naturals, Sequences

NoMsg == 0

PipeStates == {"None", "Initial", "HandshakeTx", "HandshakeRx", "Active", "Dead"}

PipeType(Msg) ==
    [state : PipeStates, canSend : BOOLEAN, canRecv : BOOLEAN,
     sending : BOOLEAN, msg : Msg, receiving : BOOLEAN,
     torn : SUBSET {"in", "out"}, overlap : BOOLEAN]

(* No controller is registered for the endpoint. *)
NoPipe == [state |-> "None", canSend |-> FALSE, canRecv |-> FALSE,
           sending |-> FALSE, msg |-> NoMsg, receiving |-> FALSE,
           torn |-> {}, overlap |-> FALSE]

NewPipe == [NoPipe EXCEPT !.state = "Initial"]

DeadPipe == [NoPipe EXCEPT !.state = "Dead"]

Outcome(p, q, evts, out) == [pipe |-> p, inq |-> q, evts |-> evts, out |-> out]

Evt(kind) == <<kind, NoMsg>>

Received(m) == <<"Received", m>>

(* The error transition common to every state. *)
Failed(q, evts) == Outcome(DeadPipe, q, Append(evts, Evt("Error")), <<>>)

-----------------------------------------------------------------------------
(* Opening, closing and the handshake. *)

Open(p, q) ==
    IF p.state = "Initial"
    THEN {Outcome([p EXCEPT !.state = "HandshakeTx"], q, <<>>, <<>>)}
    ELSE {Outcome(DeadPipe, q, <<>>, <<>>)}

Close(q) == {Outcome(DeadPipe, q, <<>>, <<>>)}

(* A handshake is read whole or fails: that one read in part may pass, and *)
(* shift what follows, is in module Framing.                               *)
HandshakeReady(p, q) ==
    {Failed(q, <<>>),
     IF p.state = "HandshakeTx"
     THEN Outcome([p EXCEPT !.state = "HandshakeRx"], q, <<>>, <<>>)
     ELSE Outcome([p EXCEPT !.state = "Active"], q, <<Evt("Opened")>>, <<>>)}

-----------------------------------------------------------------------------
(* What the pending operations do to the stream. *)

(* The peer makes sense of a written message only if the stream is whole. *)
Written(p, m) == IF "out" \in p.torn THEN <<>> ELSE <<m>>

(* The messages one read may complete.  A torn stream yields anything. *)
Readable(p, q, Garbage) ==
    IF "in" \in p.torn THEN Garbage
    ELSE IF q = <<>> THEN {} ELSE {Head(q)}

AfterRead(p, q) == IF "in" \in p.torn THEN q ELSE Tail(q)

(* The pipe as a new operation of direction d begins: the one that was     *)
(* pending, if any, may have moved a part of its message already.          *)
Begin(p, pending, d) ==
    {[p EXCEPT !.overlap = @ \/ pending, !.torn = @ \cup cut] :
        cut \in IF pending THEN {{}, {d}} ELSE {{}}}

(* Seeded fault: a send that has to wait is reported as done. *)
StartSendHastily(p, q, m) ==
    {Outcome([p EXCEPT !.canSend = FALSE], q, <<Evt("Sent")>>, <<m>>),
     Outcome([p EXCEPT !.canSend = FALSE, !.sending = TRUE, !.msg = m],
             q, <<Evt("Sent")>>, <<>>),
     Failed(q, <<>>)}

(* start_send: when the new operation completes at once an older one stays *)
(* pending, otherwise the new one takes its place.                         *)
StartSend(p, q, m) ==
    UNION {{Outcome([r EXCEPT !.canSend = FALSE], q, <<Evt("Sent")>>, Written(r, m)),
            Outcome([r EXCEPT !.canSend = FALSE, !.sending = TRUE, !.msg = m],
                    q, <<>>, <<>>),
            Failed(q, <<>>)} : r \in Begin(p, p.sending, "out")}

(* start_recv, likewise. *)
StartRecv(p, q, Garbage) ==
    UNION {{Outcome([r EXCEPT !.canRecv = FALSE], AfterRead(r, q),
                    <<Received(m)>>, <<>>) : m \in Readable(r, q, Garbage)}
           \cup {Outcome([r EXCEPT !.canRecv = FALSE, !.receiving = TRUE],
                         q, <<>>, <<>>),
                 Failed(q, <<>>)} : r \in Begin(p, p.receiving, "in")}

(* Active::send and Active::recv; in any other state the pipe just dies.   *)
Send(p, q, m) ==
    IF p.state = "Active" THEN StartSend(p, q, m) ELSE Close(q)

Recv(p, q, Garbage) ==
    IF p.state = "Active" THEN StartRecv(p, q, Garbage) ELSE Close(q)

-----------------------------------------------------------------------------
(* Active::ready: first the readable side, then the writable one, then hup; *)
(* each passes its outcomes on to the next unless it failed.               *)

Then(outcomes, Step(_)) ==
    UNION {IF o.pipe.state = "Dead" THEN {o} ELSE Step(o) : o \in outcomes}

ChangeCanRecv(p, q, b) ==
    Outcome([p EXCEPT !.canRecv = b], q,
            IF p.canRecv = b THEN <<>>
            ELSE <<Evt(IF b THEN "CanRecv" ELSE "CannotRecv")>>, <<>>)

ReadableChanged(p, q, readable, hup, Garbage) ==
    IF ~readable THEN {ChangeCanRecv(p, q, FALSE)}
    ELSE IF p.receiving
    THEN {Outcome([p EXCEPT !.receiving = FALSE], AfterRead(p, q),
                  <<Received(m)>>, <<>>) : m \in Readable(p, q, Garbage)}
         \cup {Outcome(p, q, <<>>, <<>>), Failed(q, <<>>)}
    ELSE IF ~hup THEN {ChangeCanRecv(p, q, TRUE)}
    ELSE {Outcome(p, q, <<>>, <<>>)}

(* Seeded fault: the pipe is offered again before the message is out. *)
WritableChangedBlindly(o, writable, hup) ==
    IF o.pipe.canSend = writable THEN {o}
    ELSE {Outcome([o.pipe EXCEPT !.canSend = writable], o.inq,
                  o.evts \o <<Evt(IF writable THEN "CanSend" ELSE "CannotSend")>>,
                  <<>>)}

WritableChanged(o, writable, hup) ==
    LET p == o.pipe
        Add(r, evts, out) == Outcome(r, o.inq, o.evts \o evts, out)
        Change(b) == Add([p EXCEPT !.canSend = b],
                         IF p.canSend = b THEN <<>>
                         ELSE <<Evt(IF b THEN "CanSend" ELSE "CannotSend")>>, <<>>)
    IN  IF ~writable THEN {Change(FALSE)}
        ELSE IF p.sending
        THEN {Add([p EXCEPT !.sending = FALSE, !.msg = NoMsg], <<Evt("Sent")>>,
                  Written(p, p.msg)),
              o,
              Failed(o.inq, o.evts)}
        ELSE IF ~hup THEN {Change(TRUE)}
        ELSE {o}

HangUpChanged(o, hup) ==
    IF hup THEN {[Failed(o.inq, o.evts) EXCEPT !.out = o.out]} ELSE {o}

Ready(p, q, readable, writable, hup, Garbage) ==
    LET Writable(o) == WritableChanged(o, writable, hup)
        HangUp(o) == HangUpChanged(o, hup)
    IN  Then(Then(ReadableChanged(p, q, readable, hup, Garbage), Writable), HangUp)
=============================================================================
