-------------------------------- MODULE Sub ---------------------------------
(* proto/sub.rs: messages come from the fair queue; the ones that start    *)
(* with no subscription are skipped.                                       *)
EXTENDS Context

CONSTANT Prefixes  \* the subscriptions each message starts with

New == [pipes |-> {}, fq |-> EmptyPriolist, subscriptions |-> {}, state |-> Idle]

IsRecvReady(p) == Peek(p.fq)

AddPipe(c, e) ==
    [c EXCEPT !.p.fq = Insert(@, e, c.desc[e].recv_priority), !.p.pipes = @ \cup {e}]

DropPipe(c, e) == [c EXCEPT !.p.fq = Remove(@, e), !.p.pipes = @ \ {e}]

Subscribe(c, s) == [c EXCEPT !.p.subscriptions = @ \cup {s}]

Unsubscribe(c, s) == [c EXCEPT !.p.subscriptions = @ \ {s}]

Accept(p, m) == p.subscriptions \cap Prefixes[m] # {}

(* Sending is not supported. *)
Send(c, t) == Answer(c, "Err", NoMsg, t)

Recv(c, t) == RecvChosen(FairQueue(c), t)

OnPipeRemoved(c, e) == IF Is(c, "Receiving", e) THEN Recv(c, c.p.state.timeout) ELSE c

RecvAcked(c, m) == Answer(c, "Recv", m, c.p.state.timeout)

OnRecvAck(c, e, m) ==
    IF ~Is(c, "Receiving", e) THEN c
    ELSE IF Accept(c.p, m) THEN Goto(RecvAcked(c, m), Idle)
    ELSE Recv(c, c.p.state.timeout)

OnRecvTimeout(c) == Goto(SendReply(c, "Err", NoMsg), Idle)

RecvIfOnHold(c) == IF In(c, {"RecvOnHold"}) THEN Recv(c, c.p.state.timeout) ELSE c

OnRecvReady(c, e) == RecvIfOnHold([c EXCEPT !.p.fq = Activate(@, e)])

OnRecvNotReady(c, e) == [c EXCEPT !.p.fq = Deactivate(@, e)]

(* Sub::apply: a change of readiness is told once the transition is over. *)
Apply(c, d) == CheckRecvReadyChange(d, IsRecvReady(c.p), IsRecvReady(d.p))

PipeDropped(c, e, found) == IF found THEN Apply(c, OnPipeRemoved(c, e)) ELSE c

RemovePipe(c, e) == PipeDropped(Apply(c, DropPipe(c, e)), e, e \in c.p.pipes)

(* The methods of the Protocol trait; the ones left out do nothing.        *)
HandleSend(c, t) == Apply(c, Send(c, t))
HandleRecv(c, t) == Apply(c, Recv(c, t))
HandleRecvAck(c, e, m) == Apply(c, OnRecvAck(c, e, m))
HandleRecvTimeout(c) == Apply(c, OnRecvTimeout(c))
HandleRecvReady(c, e) == Apply(c, OnRecvReady(c, e))
HandleRecvNotReady(c, e) == Apply(c, OnRecvNotReady(c, e))
=============================================================================
