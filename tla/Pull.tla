-------------------------------- MODULE Pull --------------------------------
(* proto/pull.rs: each message comes from one pipe, the next the fair      *)
(* queue offers.                                                           *)
EXTENDS Context

New == [pipes |-> {}, fq |-> EmptyPriolist, state |-> Idle]

IsRecvReady(p) == Peek(p.fq)

AddPipe(c, e) ==
    [c EXCEPT !.p.fq = Insert(@, e, c.desc[e].recv_priority), !.p.pipes = @ \cup {e}]

DropPipe(c, e) == [c EXCEPT !.p.fq = Remove(@, e), !.p.pipes = @ \ {e}]

(* Sending is not supported. *)
Send(c, t) == Answer(c, "Err", NoMsg, t)

Recv(c, t) == RecvChosen(FairQueue(c), t)

OnPipeRemoved(c, e) == IF Is(c, "Receiving", e) THEN Recv(c, c.p.state.timeout) ELSE c

RecvAcked(c, m) == Answer(c, "Recv", m, c.p.state.timeout)

(* A message that comes when nobody waits for it is dropped. *)
OnRecvAck(c, e, m) == IF Is(c, "Receiving", e) THEN Goto(RecvAcked(c, m), Idle) ELSE c

OnRecvTimeout(c) == Goto(SendReply(c, "Err", NoMsg), Idle)

(* Seeded fault: the receive on hold is not looked at. *)
OnRecvReadyForgetful(c, e) == [c EXCEPT !.p.fq = Activate(@, e)]

(* Seeded fault: a message is read ahead of any receive. *)
OnRecvReadyEagerly(c, e) ==
    LET d == [c EXCEPT !.p.fq = Activate(@, e)]
    IN  IF In(d, {"RecvOnHold"}) THEN Recv(d, d.p.state.timeout) ELSE FairQueue(d).ctx

RecvIfOnHold(c) == IF In(c, {"RecvOnHold"}) THEN Recv(c, c.p.state.timeout) ELSE c

OnRecvReady(c, e) == RecvIfOnHold([c EXCEPT !.p.fq = Activate(@, e)])

OnRecvNotReady(c, e) == [c EXCEPT !.p.fq = Deactivate(@, e)]

(* Pull::apply: a change of readiness is told once the transition is over. *)
Apply(c, d) == CheckRecvReadyChange(d, IsRecvReady(c.p), IsRecvReady(d.p))

PipeDropped(c, e, found) == IF found THEN Apply(c, OnPipeRemoved(c, e)) ELSE c

RemovePipe(c, e) == PipeDropped(Apply(c, DropPipe(c, e)), e, e \in c.p.pipes)

(* The methods of the Protocol trait; the ones left out do nothing.        *)
HandleSend(c, t) == Apply(c, Send(c, t))
HandleRecv(c, t) == Apply(c, Recv(c, t))
HandleRecvAck(c, e, m) == Apply(c, OnRecvAck(c, e, m))
HandleRecvTimeout(c) == Apply(c, OnRecvTimeout(c))
HandleRecvReady(c, e) == Apply(c, OnRecvReady(c, e))
HandleRecvNotReady(c, e) == Apply(c, OnRecvNotReady(c, e))
=============================================================================
