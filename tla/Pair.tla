-------------------------------- MODULE Pair --------------------------------
(* proto/pair.rs: at most one pipe, for both directions.  `pipes' is the   *)
(* Option<(EndpointId, Pipe)> of the code: empty or a singleton.           *)
EXTENDS Context

New == [pipes |-> {}, send_ready |-> FALSE, recv_ready |-> FALSE, state |-> Idle]

AddPipe(c, e) ==
    IF c.p.pipes = {} THEN [c EXCEPT !.p.pipes = {e}] ELSE CloseOn(c, e)

DropPipe(c, e) == [c EXCEPT !.p.pipes = @ \ {e}]

OnPipeRemoved(c, e) ==
    LET d == [c EXCEPT !.p.send_ready = FALSE, !.p.recv_ready = FALSE]
        s == c.p.state
    IN  IF Is(c, "Sending", e) THEN Goto(d, SendOnHold(s.msg, s.timeout))
        ELSE IF Is(c, "Receiving", e) THEN Goto(d, RecvOnHold(s.timeout)) ELSE d

-----------------------------------------------------------------------------
(* The endpoint of the pipe, NoEid for None. *)
Only(pipes) == IF pipes = {} THEN NoEid ELSE CHOOSE e \in pipes : TRUE

TakeSendReady(c, m) ==
    IF ~c.p.send_ready THEN Chosen(c, NoEid)
    ELSE SendTo([c EXCEPT !.p.send_ready = FALSE], Only(c.p.pipes), m)

Send(c, m, t) == SendChosen(TakeSendReady(c, m), m, t)

SendAcked(c) == Answer(c, "Send", NoMsg, c.p.state.timeout)

OnSendAck(c, e) == IF Is(c, "Sending", e) THEN Goto(SendAcked(c), Idle) ELSE c

OnSendTimeout(c) == Goto(SendReply(c, "Err", NoMsg), Idle)

MarkSendReady(c, e, b) == IF e \in c.p.pipes THEN [c EXCEPT !.p.send_ready = b] ELSE c

SendIfOnHold(c) ==
    IF In(c, {"SendOnHold"}) THEN Send(c, c.p.state.msg, c.p.state.timeout) ELSE c

OnSendReady(c, e) == SendIfOnHold(MarkSendReady(c, e, TRUE))

OnSendNotReady(c, e) == MarkSendReady(c, e, FALSE)

-----------------------------------------------------------------------------
TakeRecvReady(c) ==
    IF ~c.p.recv_ready THEN Chosen(c, NoEid)
    ELSE RecvFrom([c EXCEPT !.p.recv_ready = FALSE], Only(c.p.pipes))

Recv(c, t) == RecvChosen(TakeRecvReady(c), t)

RecvAcked(c, m) == Answer(c, "Recv", m, c.p.state.timeout)

OnRecvAck(c, e, m) == IF Is(c, "Receiving", e) THEN Goto(RecvAcked(c, m), Idle) ELSE c

OnRecvTimeout(c) == Goto(SendReply(c, "Err", NoMsg), Idle)

MarkRecvReady(c, e, b) == IF e \in c.p.pipes THEN [c EXCEPT !.p.recv_ready = b] ELSE c

RecvIfOnHold(c) == IF In(c, {"RecvOnHold"}) THEN Recv(c, c.p.state.timeout) ELSE c

OnRecvReady(c, e) == RecvIfOnHold(MarkRecvReady(c, e, TRUE))

OnRecvNotReady(c, e) == MarkRecvReady(c, e, FALSE)

-----------------------------------------------------------------------------
(* Pair::apply: changes of readiness are told once the transition is over. *)
Apply(c, d) ==
    CheckRecvReadyChange(CheckSendReadyChange(d, c.p.send_ready, d.p.send_ready),
                         c.p.recv_ready, d.p.recv_ready)

PipeDropped(c, e) == Apply(c, OnPipeRemoved(c, e))

RemovePipe(c, e) == IF e \in c.p.pipes THEN PipeDropped(DropPipe(c, e), e) ELSE c

(* The methods of the Protocol trait; the ones left out do nothing.        *)
HandleSend(c, m, t) == Apply(c, Send(c, m, t))
HandleSendAck(c, e) == Apply(c, OnSendAck(c, e))
HandleSendTimeout(c) == Apply(c, OnSendTimeout(c))
HandleSendReady(c, e) == Apply(c, OnSendReady(c, e))
HandleSendNotReady(c, e) == Apply(c, OnSendNotReady(c, e))
HandleRecv(c, t) == Apply(c, Recv(c, t))
HandleRecvAck(c, e, m) == Apply(c, OnRecvAck(c, e, m))
HandleRecvTimeout(c) == Apply(c, OnRecvTimeout(c))
HandleRecvReady(c, e) == Apply(c, OnRecvReady(c, e))
HandleRecvNotReady(c, e) == Apply(c, OnRecvNotReady(c, e))
=============================================================================
