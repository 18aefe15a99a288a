-------------------------------- MODULE Bus ---------------------------------
(* proto/bus.rs: a message goes to every pipe that can take it now, except *)
(* the one it came from; a message received says which one that is.        *)
EXTENDS Context

New == [pipes |-> {}, bc |-> {}, fq |-> EmptyPriolist, state |-> Idle]

IsSendReady(p) == p.bc # {}

IsRecvReady(p) == Peek(p.fq)

AddPipe(c, e) ==
    [c EXCEPT !.p.fq = Insert(@, e, c.desc[e].recv_priority), !.p.pipes = @ \cup {e}]

DropPipe(c, e) ==
    [c EXCEPT !.p.bc = @ \ {e}, !.p.fq = Remove(@, e), !.p.pipes = @ \ {e}]

-----------------------------------------------------------------------------
(* The header of a message received: the endpoint it came from. *)
Decode(e) == Header(e, NoMsg)

(* The endpoint a message to send came from, NoEid when it has no header. *)
Encode(h) == h.eid

(* The reply does not wait for any pipe. *)
Send(c, m, oid, t) ==
    Answer(IF oid # NoEid /\ oid \in c.p.bc THEN SendToAllExcept(c, m, oid) ELSE SendToAll(c, m),
           "Send", NoMsg, t)

OnSendReady(c, e) == [c EXCEPT !.p.bc = @ \cup {e}]

OnSendNotReady(c, e) == [c EXCEPT !.p.bc = @ \ {e}]

-----------------------------------------------------------------------------
Recv(c, t) == RecvChosen(FairQueue(c), t)

OnPipeRemoved(c, e) == IF Is(c, "Receiving", e) THEN Recv(c, c.p.state.timeout) ELSE c

RecvAcked(c, m, h) == Deliver(c, m, h, c.p.state.timeout)

OnRecvAck(c, e, m) ==
    IF Is(c, "Receiving", e) THEN Goto(RecvAcked(c, m, Decode(e)), Idle) ELSE c

OnRecvTimeout(c) == Goto(SendReply(c, "Err", NoMsg), Idle)

RecvIfOnHold(c) == IF In(c, {"RecvOnHold"}) THEN Recv(c, c.p.state.timeout) ELSE c

OnRecvReady(c, e) == RecvIfOnHold([c EXCEPT !.p.fq = Activate(@, e)])

OnRecvNotReady(c, e) == [c EXCEPT !.p.fq = Deactivate(@, e)]

-----------------------------------------------------------------------------
Told(c, was, is) ==
    CheckRecvReadyChange(CheckSendReadyChange(c, IsSendReady(was), IsSendReady(is)),
                         IsRecvReady(was), IsRecvReady(is))

(* Bus::apply: changes of readiness are told once the transition is over. *)
Apply(c, d) == Told(d, c.p, d.p)

(* What the removal itself changed is told after what the state made of it. *)
PipeDropped(c, d, e) ==
    Told(IF e \in c.p.pipes THEN Apply(d, OnPipeRemoved(d, e)) ELSE d, c.p, d.p)

RemovePipe(c, e) == PipeDropped(c, DropPipe(c, e), e)

(* The methods of the Protocol trait; the ones left out do nothing.        *)
HandleSend(c, m, h, t) == Apply(c, Send(c, m, Encode(h), t))
HandleSendReady(c, e) == Apply(c, OnSendReady(c, e))
HandleSendNotReady(c, e) == Apply(c, OnSendNotReady(c, e))
HandleRecv(c, t) == Apply(c, Recv(c, t))
HandleRecvAck(c, e, m) == Apply(c, OnRecvAck(c, e, m))
HandleRecvTimeout(c) == Apply(c, OnRecvTimeout(c))
HandleRecvReady(c, e) == Apply(c, OnRecvReady(c, e))
HandleRecvNotReady(c, e) == Apply(c, OnRecvNotReady(c, e))
=============================================================================
