-------------------------------- MODULE Req ---------------------------------
(* proto/req.rs: a request goes to one pipe and its reply is awaited from  *)
(* that pipe; a request that is not answered is sent again.  Inside a      *)
(* device messages pass both ways unchanged.                               *)
(*                                                                         *)
(* On the wire a request is its id and a reply is the id it carries; NoMsg *)
(* is a reply too short to carry one.  `seq' is req_id_seq counted from    *)
(* the creation of the socket.                                             *)
EXTENDS Context

New == [pipes |-> {}, lb |-> EmptyPriolist, fq |-> EmptyPriolist, rv |-> {}, seq |-> 0,
        device |-> FALSE, state |-> Idle]

SendingReq(e, m, t, retry)     == State("Sending", e, m, t, retry, NoTimeout)
SendReqOnHold(m, t, retry)     == State("SendOnHold", NoEid, m, t, retry, NoTimeout)
Active(e, m, r)                == State("Active", e, m, NoTimeout, FALSE, r)
ReceivingReply(e, m, r, t)     == State("Receiving", e, m, t, FALSE, r)
RecvReplyOnHold(e, m, r, t)    == State("RecvOnHold", e, m, t, FALSE, r)

(* The reply to no request in particular: what a device waits for. *)
IsForAnybody(s) == s.msg = NoMsg

IsSendReady(p) == Peek(p.lb)

IsRecvReady(p) ==
    IF p.device THEN Peek(p.fq) ELSE p.state.name = "Active" /\ p.state.eid \in p.rv

AddPipe(c, e) ==
    [c EXCEPT !.p.lb = Insert(@, e, c.desc[e].send_priority),
              !.p.fq = Insert(@, e, c.desc[e].recv_priority),
              !.p.pipes = @ \cup {e}]

DropPipe(c, e) ==
    [c EXCEPT !.p.lb = Remove(@, e), !.p.fq = Remove(@, e),
              !.p.rv = @ \ {e}, !.p.pipes = @ \ {e}]

-----------------------------------------------------------------------------
(* msg_to_raw_msg: the message on the wire, and the protocol after it. *)
Encode(c, m) ==
    IF c.p.device THEN [ctx |-> c, msg |-> m]
    ELSE [ctx |-> [c EXCEPT !.p.seq = @ + 1], msg |-> c.p.seq + 1]

SendReqChosen(s, m, t, retry) ==
    Goto(s.ctx, IF s.eid = NoEid THEN SendReqOnHold(m, t, retry)
                ELSE SendingReq(s.eid, m, t, retry))

(* State::send.  The resend timer of the previous request is cancelled     *)
(* only if the socket is Active.                                           *)
Send(c, m, t, retry) ==
    SendReqChosen(LoadBalance(IF In(c, {"Active"}) THEN Cancel(c, c.p.state.pending) ELSE c, m),
                  m, t, retry)

(* on_send_ack replies to the user once and arms the resend timer. *)
AwaitReply(c, s, r) ==
    IF c.p.device THEN Goto(c, Idle) ELSE Goto(Schedule(c, r), Active(s.eid, s.msg, r))

RequestSent(c, s) == AwaitReply(c, s, Fresh(c.timers, "ReqResend"))

SendAcked(c) ==
    LET s == c.p.state
    IN  RequestSent(Cancel(IF s.retry THEN c ELSE SendReply(c, "Send", NoMsg), s.timeout), s)

(* Seeded fault: a resent request is acknowledged to the user once more. *)
OnSendAckTwice(c, e) ==
    IF Is(c, "Sending", e) THEN SendAcked([c EXCEPT !.p.state.retry = FALSE]) ELSE c

OnSendAck(c, e) == IF Is(c, "Sending", e) THEN SendAcked(c) ELSE c

OnSendTimeout(c) == Goto(SendReply(c, "Err", NoMsg), Idle)

SendIfOnHold(c) ==
    LET s == c.p.state
    IN  IF In(c, {"SendOnHold"}) THEN Send(c, s.msg, s.timeout, s.retry) ELSE c

OnSendReady(c, e) == SendIfOnHold([c EXCEPT !.p.lb = Activate(@, e)])

OnSendNotReady(c, e) == [c EXCEPT !.p.lb = Deactivate(@, e)]

(* Only an Active socket sends its request again. *)
OnRetryTimeout(c) ==
    IF In(c, {"Active"}) THEN Send(Goto(c, Idle), c.p.state.msg, NoTimeout, TRUE) ELSE c

-----------------------------------------------------------------------------
(* recv_reply_for: the pipe of the request is told to read, whether it has *)
(* something to read or not; without it the receive is put on hold.        *)
RecvReplyFor(c, e, m, r, t) ==
    LET d == [c EXCEPT !.p.rv = @ \ {e}]
    IN  IF e \in c.p.pipes THEN Goto(RecvOn(d, e), ReceivingReply(e, m, r, t))
        ELSE Goto(d, RecvReplyOnHold(e, m, r, t))

RecvForAnybody(c, t) == RecvChosen(FairQueue(c), t)

RecvWhenInactive(c, t) == Goto(Answer(c, "Err", NoMsg, t), Idle)

Recv(c, t) ==
    LET s == c.p.state
    IN  IF c.p.device THEN RecvForAnybody(c, t)
        ELSE IF In(c, {"Active"}) THEN RecvReplyFor(c, s.eid, s.msg, s.pending, t)
        ELSE RecvWhenInactive(c, t)

(* cur_req_id() == req_id; a device makes every reply current. *)
IsCurrent(c, m) == c.p.device \/ m = c.p.seq

RecvAcked(c, m) ==
    LET s == c.p.state
    IN  Goto(Cancel(Answer(c, "Recv", m, s.timeout), s.pending), Idle)

RecvMalformed(c) == SendReply(c, "Err", NoMsg)

(* The reply to another request is skipped. *)
OnRecvAck(c, e, m) ==
    LET s == c.p.state
    IN  IF ~Is(c, "Receiving", e) THEN c
        ELSE IF IsForAnybody(s) \/ IsCurrent(c, m) THEN RecvAcked(c, m)
        ELSE RecvReplyFor(c, e, s.msg, s.pending, s.timeout)

(* Seeded fault: the user is told and the receive goes on. *)
OnRecvTimeoutAndWait(c) == SendReply(c, "Err", NoMsg)

(* The request is given up with the receive. *)
OnRecvTimeout(c) ==
    Goto(IF In(c, {"Receiving", "RecvOnHold"}) THEN Answer(c, "Err", NoMsg, c.p.state.pending)
         ELSE c, Idle)

(* A receive on hold goes on if it waits for anybody, or for this pipe.    *)
RecvIfOnHold(c, e) ==
    LET s == c.p.state
    IN  IF ~In(c, {"RecvOnHold"}) \/ ~(IsForAnybody(s) \/ s.eid = e) THEN c
        ELSE Recv(Goto(c, IF IsForAnybody(s) THEN Idle ELSE Active(s.eid, s.msg, s.pending)), s.timeout)

OnRecvReady(c, e) == RecvIfOnHold([c EXCEPT !.p.fq = Activate(@, e), !.p.rv = @ \cup {e}], e)

OnRecvNotReady(c, e) == [c EXCEPT !.p.fq = Deactivate(@, e), !.p.rv = @ \ {e}]

-----------------------------------------------------------------------------
(* An unfinished request is sent again; a receive is started again from    *)
(* Idle, which fails it unless the socket is in a device.                  *)
OnPipeRemoved(c, e) ==
    LET s == c.p.state
        d == Goto(c, Idle)
    IN  IF Is(c, "Sending", e) THEN Send(d, s.msg, s.timeout, s.retry)
        ELSE IF Is(c, "Receiving", e) THEN Recv(d, s.timeout) ELSE c

Told(c, was, is) ==
    CheckRecvReadyChange(CheckSendReadyChange(c, IsSendReady(was), IsSendReady(is)),
                         IsRecvReady(was), IsRecvReady(is))

(* Req::apply: changes of readiness are told once the transition is over. *)
Apply(c, d) == Told(d, c.p, d.p)

(* What the removal itself changed is told after what the state made of it. *)
PipeDropped(c, d, e) ==
    Told(IF e \in c.p.pipes THEN Apply(d, OnPipeRemoved(d, e)) ELSE d, c.p, d.p)

RemovePipe(c, e) == PipeDropped(c, DropPipe(c, e), e)

OnDevicePlugged(c) == [c EXCEPT !.p.device = TRUE]

(* The methods of the Protocol trait; the ones left out do nothing.        *)
SendRaw(r, t) == Apply(r.ctx, Send(r.ctx, r.msg, t, FALSE))
HandleSend(c, m, t) == SendRaw(Encode(c, m), t)
HandleSendAck(c, e) == Apply(c, OnSendAck(c, e))
HandleSendTimeout(c) == Apply(c, OnSendTimeout(c))
HandleSendReady(c, e) == Apply(c, OnSendReady(c, e))
HandleSendNotReady(c, e) == Apply(c, OnSendNotReady(c, e))
HandleRecv(c, t) == Apply(c, Recv(c, t))
HandleRecvAck(c, e, m) ==
    IF m = NoMsg THEN RecvMalformed(c) ELSE Apply(c, OnRecvAck(c, e, m))
HandleRecvTimeout(c) == Apply(c, OnRecvTimeout(c))
HandleRecvReady(c, e) == Apply(c, OnRecvReady(c, e))
HandleRecvNotReady(c, e) == Apply(c, OnRecvNotReady(c, e))
HandleTimerTick(c, t) == IF t.task = "ReqResend" THEN Apply(c, OnRetryTimeout(c)) ELSE c
=============================================================================
