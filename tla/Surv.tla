-------------------------------- MODULE Surv --------------------------------
(* proto/surv.rs: a survey goes to every pipe that can take it now, and    *)
(* the responses to it are received from any pipe until its deadline.      *)
(*                                                                         *)
(* On the wire a survey is its id and a response is the id it carries;     *)
(* NoMsg is a response too short to carry one.  `seq' is survey_id_seq     *)
(* counted from the creation of the socket.                                *)
EXTENDS Context

New == [pipes |-> {}, bc |-> {}, fq |-> EmptyPriolist, seq |-> 0,
        device |-> FALSE, state |-> Idle]

Active(m, d)                   == State("Active", NoEid, m, NoTimeout, FALSE, d)
ReceivingResponse(e, m, d, t)  == State("Receiving", e, m, t, FALSE, d)
RecvResponseOnHold(m, d, t)    == State("RecvOnHold", NoEid, m, t, FALSE, d)

(* The response to no survey in particular: what a device waits for. *)
IsForAnybody(s) == s.pending = NoTimeout

IsSendReady(p) == p.bc # {}

IsRecvReady(p) == (p.device \/ p.state.name = "Active") /\ Peek(p.fq)

AddPipe(c, e) ==
    [c EXCEPT !.p.fq = Insert(@, e, c.desc[e].recv_priority), !.p.pipes = @ \cup {e}]

DropPipe(c, e) ==
    [c EXCEPT !.p.bc = @ \ {e}, !.p.fq = Remove(@, e), !.p.pipes = @ \ {e}]

-----------------------------------------------------------------------------
(* msg_to_raw_msg: the message on the wire, and the protocol after it. *)
Encode(c, m) ==
    IF c.p.device THEN [ctx |-> c, msg |-> m]
    ELSE [ctx |-> [c EXCEPT !.p.seq = @ + 1], msg |-> c.p.seq + 1]

StartSurvey(c, r) == Goto(Schedule(c, r), Active(c.p.seq, r))

SurveySent(c) == StartSurvey(c, Fresh(c.timers, "SurveyCancel"))

(* The reply does not wait for any pipe; the deadline starts now. *)
Broadcast(c, m, t) == SurveySent(Answer(SendToAll(c, m), "Send", NoMsg, t))

(* A new survey replaces the one that is active; the deadline of any other *)
(* is left running.                                                        *)
Send(c, m, t) ==
    Broadcast(IF In(c, {"Active"}) THEN Cancel(c, c.p.state.pending) ELSE c, m, t)

OnSendReady(c, e) == [c EXCEPT !.p.bc = @ \cup {e}]

OnSendNotReady(c, e) == [c EXCEPT !.p.bc = @ \ {e}]

(* Only an Active survey ends with its deadline. *)
OnSurveyTimeout(c) == IF In(c, {"Active"}) THEN Goto(c, Idle) ELSE c

-----------------------------------------------------------------------------
ResponseChosen(r, t, m, d) ==
    Goto(r.ctx, IF r.eid = NoEid THEN RecvResponseOnHold(m, d, t)
                ELSE ReceivingResponse(r.eid, m, d, t))

RecvResponseFor(c, t, m, d) == ResponseChosen(FairQueue(c), t, m, d)

RecvForAnybody(c, t) == RecvChosen(FairQueue(c), t)

RecvWhenInactive(c, t) == Goto(Answer(c, "Err", NoMsg, t), Idle)

Recv(c, t) ==
    IF c.p.device THEN RecvForAnybody(c, t)
    ELSE IF In(c, {"Active"}) THEN RecvResponseFor(c, t, c.p.state.msg, c.p.state.pending)
    ELSE RecvWhenInactive(c, t)

RecvAcked(c, m) == Answer(c, "Recv", m, c.p.state.timeout)

RecvMalformed(c) == SendReply(c, "Err", NoMsg)

(* raw_msg_to_msg: in a device every response passes for one to the last   *)
(* survey, whatever id it carries.                                         *)
SurveyId(c, m) == IF c.p.device THEN c.p.seq ELSE m

(* Seeded fault: a response to an older survey will do. *)
IsToOlder(c, m) == SurveyId(c, m) \leq c.p.state.msg

IsTo(c, m) == SurveyId(c, m) = c.p.state.msg

(* A response to another survey is skipped; the survey goes on after one   *)
(* to it.                                                                  *)
OnRecvAck(c, e, m) ==
    LET s == c.p.state
    IN  IF ~Is(c, "Receiving", e) THEN c
        ELSE IF IsForAnybody(s) THEN Goto(RecvAcked(c, m), Idle)
        ELSE IF IsTo(c, m) THEN Goto(RecvAcked(c, m), Active(s.msg, s.pending))
        ELSE RecvResponseFor(c, s.timeout, s.msg, s.pending)

(* Seeded fault: the receive on hold is told nothing. *)
OnRecvTimeoutSilent(c) == Goto(c, Idle)

(* The survey outlives a receive that times out. *)
OnRecvTimeout(c) ==
    LET s == c.p.state
    IN  Goto(SendReply(c, "Err", NoMsg),
             IF In(c, {"Receiving", "RecvOnHold"}) /\ ~IsForAnybody(s)
             THEN Active(s.msg, s.pending) ELSE Idle)

RecvIfOnHold(c) ==
    LET s == c.p.state
    IN  IF ~In(c, {"RecvOnHold"}) THEN c
        ELSE Recv(Goto(c, IF IsForAnybody(s) THEN Idle ELSE Active(s.msg, s.pending)), s.timeout)

OnRecvReady(c, e) == RecvIfOnHold([c EXCEPT !.p.fq = Activate(@, e)])

OnRecvNotReady(c, e) == [c EXCEPT !.p.fq = Deactivate(@, e)]

-----------------------------------------------------------------------------
(* A receive is started again from Idle, which fails it, and forgets the   *)
(* survey, unless the socket is in a device.                               *)
OnPipeRemoved(c, e) ==
    IF Is(c, "Receiving", e) THEN Recv(Goto(c, Idle), c.p.state.timeout) ELSE c

Told(c, was, is) ==
    CheckRecvReadyChange(CheckSendReadyChange(c, IsSendReady(was), IsSendReady(is)),
                         IsRecvReady(was), IsRecvReady(is))

(* Surveyor::apply: changes of readiness are told after the transition. *)
Apply(c, d) == Told(d, c.p, d.p)

(* What the removal itself changed is told after what the state made of it. *)
PipeDropped(c, d, e) ==
    Told(IF e \in c.p.pipes THEN Apply(d, OnPipeRemoved(d, e)) ELSE d, c.p, d.p)

RemovePipe(c, e) == PipeDropped(c, DropPipe(c, e), e)

OnDevicePlugged(c) == [c EXCEPT !.p.device = TRUE]

(* The methods of the Protocol trait; the ones left out do nothing.        *)
SendRaw(r, t) == Apply(r.ctx, Send(r.ctx, r.msg, t))
HandleSend(c, m, t) == SendRaw(Encode(c, m), t)
HandleSendReady(c, e) == Apply(c, OnSendReady(c, e))
HandleSendNotReady(c, e) == Apply(c, OnSendNotReady(c, e))
HandleRecv(c, t) == Apply(c, Recv(c, t))
HandleRecvAck(c, e, m) ==
    IF m = NoMsg THEN RecvMalformed(c) ELSE Apply(c, OnRecvAck(c, e, m))
HandleRecvTimeout(c) == Apply(c, OnRecvTimeout(c))
HandleRecvReady(c, e) == Apply(c, OnRecvReady(c, e))
HandleRecvNotReady(c, e) == Apply(c, OnRecvNotReady(c, e))
HandleTimerTick(c, t) == IF t.task = "SurveyCancel" THEN Apply(c, OnSurveyTimeout(c)) ELSE c
=============================================================================
