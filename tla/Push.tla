-------------------------------- MODULE Push --------------------------------
(* proto/push.rs: each message goes to one pipe, the next the load         *)
(* balancer offers, and waits for one if there is none.                    *)
EXTENDS Context

New == [pipes |-> {}, lb |-> EmptyPriolist, state |-> Idle]

IsSendReady(p) == Peek(p.lb)

AddPipe(c, e) ==
    [c EXCEPT !.p.lb = Insert(@, e, c.desc[e].send_priority), !.p.pipes = @ \cup {e}]

DropPipe(c, e) == [c EXCEPT !.p.lb = Remove(@, e), !.p.pipes = @ \ {e}]

(* Seeded fault: a message no pipe can take is dropped. *)
SendOrDrop(c, m, t) ==
    LET s == LoadBalance(c, m)
    IN  Goto(s.ctx, IF s.eid = NoEid THEN Idle ELSE Sending(s.eid, m, t))

Send(c, m, t) == SendChosen(LoadBalance(c, m), m, t)

(* Seeded fault: the message goes with its pipe. *)
OnPipeRemovedWithMessage(c, e) == IF Is(c, "Sending", e) THEN Goto(c, Idle) ELSE c

OnPipeRemoved(c, e) ==
    IF Is(c, "Sending", e) THEN Send(c, c.p.state.msg, c.p.state.timeout) ELSE c

SendAcked(c) == Answer(c, "Send", NoMsg, c.p.state.timeout)

OnSendAck(c, e) == IF Is(c, "Sending", e) THEN Goto(SendAcked(c), Idle) ELSE c

OnSendTimeout(c) == Goto(SendReply(c, "Err", NoMsg), Idle)

(* Seeded fault: the message on hold is not looked at. *)
OnSendReadyForgetful(c, e) == [c EXCEPT !.p.lb = Activate(@, e)]

SendIfOnHold(c) ==
    IF In(c, {"SendOnHold"}) THEN Send(c, c.p.state.msg, c.p.state.timeout) ELSE c

OnSendReady(c, e) == SendIfOnHold([c EXCEPT !.p.lb = Activate(@, e)])

OnSendNotReady(c, e) == [c EXCEPT !.p.lb = Deactivate(@, e)]

(* Receiving is not supported. *)
Recv(c, t) == Answer(c, "Err", NoMsg, t)

(* Push::apply: a change of readiness is told once the transition is over. *)
Apply(c, d) == CheckSendReadyChange(d, IsSendReady(c.p), IsSendReady(d.p))

PipeDropped(c, e, found) == IF found THEN Apply(c, OnPipeRemoved(c, e)) ELSE c

RemovePipe(c, e) == PipeDropped(Apply(c, DropPipe(c, e)), e, e \in c.p.pipes)

(* The methods of the Protocol trait; the ones left out do nothing.        *)
HandleSend(c, m, t) == Apply(c, Send(c, m, t))
HandleSendAck(c, e) == Apply(c, OnSendAck(c, e))
HandleSendTimeout(c) == Apply(c, OnSendTimeout(c))
HandleSendReady(c, e) == Apply(c, OnSendReady(c, e))
HandleSendNotReady(c, e) == Apply(c, OnSendNotReady(c, e))
HandleRecv(c, t) == Apply(c, Recv(c, t))
=============================================================================
