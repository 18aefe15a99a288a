-------------------------------- MODULE Rep ---------------------------------
(* proto/rep.rs: a request comes from the fair queue and its reply goes    *)
(* back to the pipe it came from.  Inside a device the address of the      *)
(* requester travels with the message instead of staying in the socket.    *)
(*                                                                         *)
(* On the wire a request is a number, NoMsg one whose backtrace has no     *)
(* end; a reply is the number of the request it answers.  The backtrace is *)
(* the pipe the request came from and that number.                         *)
EXTENDS Context

New == [pipes |-> {}, fq |-> EmptyPriolist, sd |-> {}, backtrace |-> NoHeader,
        device |-> FALSE, state |-> Idle]

Active(e) == State("Active", e, NoMsg, NoTimeout, FALSE, NoTimeout)
ReplyOnHold(e, m, t) == State("SendOnHold", e, m, t, FALSE, NoTimeout)

IsSendReady(p) ==
    IF p.device THEN p.sd # {} ELSE p.state.name = "Active" /\ p.state.eid \in p.sd

IsRecvReady(p) == Peek(p.fq)

AddPipe(c, e) ==
    [c EXCEPT !.p.fq = Insert(@, e, c.desc[e].recv_priority), !.p.pipes = @ \cup {e}]

DropPipe(c, e) ==
    [c EXCEPT !.p.fq = Remove(@, e), !.p.sd = @ \ {e}, !.p.pipes = @ \ {e}]

-----------------------------------------------------------------------------
(* msg_to_raw_msg: where the reply goes and what it answers. *)
Address(c, h) == IF c.p.device THEN h ELSE c.p.backtrace

SendAcked(c, t) == Answer(c, "Send", NoMsg, t)

SendWhenInactive(c, t) == Goto(Answer(c, "Err", NoMsg, t), Idle)

SendMalformed(c, t) == Answer(c, "Err", NoMsg, t)

(* Seeded fault: the reply goes to whichever pipe is ready. *)
SendReplyToReady(c, m, t, e) ==
    LET f == CHOOSE f \in c.p.sd : TRUE
        d == [c EXCEPT !.p.sd = @ \ {f}]
    IN  IF f \in c.p.pipes THEN Goto(SendOn(d, f, m), Sending(f, m, t))
        ELSE Goto(d, ReplyOnHold(f, m, t))

SendReplyTo(c, m, t, e) ==
    LET d == [c EXCEPT !.p.sd = @ \ {e}]
    IN  IF e \in c.p.pipes THEN Goto(SendOn(d, e, m), Sending(e, m, t))
        ELSE Goto(d, ReplyOnHold(e, m, t))

(* A device drops the reply its requester cannot take; a socket keeps it.  *)
Send(c, m, t, e) ==
    IF c.p.device
    THEN IF e \in c.p.sd THEN SendReplyTo(c, m, t, e) ELSE Goto(SendAcked(c, t), Idle)
    ELSE IF ~In(c, {"Active"}) THEN SendWhenInactive(c, t)
    ELSE IF e \in c.p.sd THEN SendReplyTo(c, m, t, e) ELSE Goto(c, ReplyOnHold(e, m, t))

OnSendAck(c, e) ==
    IF Is(c, "Sending", e) THEN Goto(SendAcked(c, c.p.state.timeout), Idle) ELSE c

OnSendTimeout(c) == Goto(SendReply(c, "Err", NoMsg), Idle)

OnSendReady(c, e) ==
    LET d == [c EXCEPT !.p.sd = @ \cup {e}]
    IN  IF Is(c, "SendOnHold", e) THEN SendReplyTo(d, c.p.state.msg, c.p.state.timeout, e) ELSE d

OnSendNotReady(c, e) == [c EXCEPT !.p.sd = @ \ {e}]

-----------------------------------------------------------------------------
Recv(c, t) == RecvChosen(FairQueue(c), t)

(* raw_msg_to_msg: the header of a request received. *)
Backtrace(e, m) == Header(e, m)

(* Seeded fault: a socket out of a device does not note the requester. *)
RecvAckedUnaddressed(c, m, h) == Deliver(c, m, h, c.p.state.timeout)

RecvAcked(c, m, h) ==
    IF c.p.device THEN Deliver(c, m, h, c.p.state.timeout)
    ELSE [Answer(c, "Recv", m, c.p.state.timeout) EXCEPT !.p.backtrace = h]

RecvMalformed(c) == SendReply(c, "Err", NoMsg)

OnRecvAck(c, e, m) ==
    IF ~Is(c, "Receiving", e) THEN c
    ELSE Goto(RecvAcked(c, m, Backtrace(e, m)), IF c.p.device THEN Idle ELSE Active(e))

OnRecvTimeout(c) == Goto(SendReply(c, "Err", NoMsg), Idle)

RecvIfOnHold(c) == IF In(c, {"RecvOnHold"}) THEN Recv(c, c.p.state.timeout) ELSE c

OnRecvReady(c, e) == RecvIfOnHold([c EXCEPT !.p.fq = Activate(@, e)])

OnRecvNotReady(c, e) == [c EXCEPT !.p.fq = Deactivate(@, e)]

-----------------------------------------------------------------------------
(* Only a receive is started again: a reply keeps the pipe it is for. *)
OnPipeRemoved(c, e) == IF Is(c, "Receiving", e) THEN Recv(c, c.p.state.timeout) ELSE c

Told(c, was, is) ==
    CheckRecvReadyChange(CheckSendReadyChange(c, IsSendReady(was), IsSendReady(is)),
                         IsRecvReady(was), IsRecvReady(is))

(* Rep::apply: changes of readiness are told once the transition is over. *)
Apply(c, d) == Told(d, c.p, d.p)

(* What the removal itself changed is told after what the state made of it. *)
PipeDropped(c, d, e) ==
    Told(IF e \in c.p.pipes THEN Apply(d, OnPipeRemoved(d, e)) ELSE d, c.p, d.p)

RemovePipe(c, e) == PipeDropped(c, DropPipe(c, e), e)

OnDevicePlugged(c) == [c EXCEPT !.p.device = TRUE]

ClearBacktrace(c) == [c EXCEPT !.p.backtrace = NoHeader]

(* The methods of the Protocol trait; the ones left out do nothing.        *)
SendRaw(c, h, t) ==
    IF h = NoHeader THEN SendMalformed(c, t) ELSE Apply(c, Send(c, h.msg, t, h.eid))
HandleSend(c, h, t) == SendRaw(c, Address(c, h), t)
SendAckApplied(c, e) == Apply(c, OnSendAck(c, e))
HandleSendAck(c, e) == SendAckApplied(ClearBacktrace(c), e)
HandleSendTimeout(c) == Apply(c, OnSendTimeout(c))
HandleSendReady(c, e) == Apply(c, OnSendReady(c, e))
HandleSendNotReady(c, e) == Apply(c, OnSendNotReady(c, e))
HandleRecv(c, t) == Apply(c, Recv(c, t))
HandleRecvAck(c, e, m) ==
    IF m = NoMsg THEN RecvMalformed(c) ELSE Apply(c, OnRecvAck(c, e, m))
HandleRecvTimeout(c) == Apply(c, OnRecvTimeout(c))
HandleRecvReady(c, e) == Apply(c, OnRecvReady(c, e))
HandleRecvNotReady(c, e) == Apply(c, OnRecvNotReady(c, e))
=============================================================================
