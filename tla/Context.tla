------------------------------ MODULE Context -------------------------------
(***************************************************************************)
(* What a protocol works with (core/context.rs, core/endpoint.rs,          *)
(* proto/pipes.rs, proto/policy.rs): the channel that replies to the user, *)
(* the bus that carries commands to the pipes, the timers, the readiness   *)
(* events, and the policies that choose a pipe.                            *)
(*                                                                         *)
(* A handler of a protocol is an operator from context to context: `c.p'   *)
(* is the protocol (the fields of its Inner, and its state), the other     *)
(* fields are what the handler may change around it.                       *)
(*                                                                         *)
(*   bus      the signals queued for the I/O thread                        *)
(*   replies  the channel to the user                                      *)
(*   timers   the timeouts that are armed                                  *)
(*   told     the last CanSend and CanRecv events raised                   *)
(*   alive    FALSE after a panic of the I/O thread                        *)
(*   order    the order in which a HashSet of endpoints is drained         *)
(*                                                                         *)
(* desc has the priorities of each endpoint, which no handler changes.     *)
(***************************************************************************)
EXTENDS PriolistOps, FiniteSets

NoMsg == 0
NoEid == 0

(* The header that travels with a message between recv_msg and send_msg:   *)
(* the endpoint it came from and what it answers.                          *)
Header(e, m) == [eid |-> e, msg |-> m]
NoHeader == Header(NoEid, NoMsg)

Reply(kind, m, h) == [kind |-> kind, msg |-> m, header |-> h]

Signal(kind, e, m) == [kind |-> kind, eid |-> e, msg |-> m]

Cmd(kind, e) == Signal(kind, e, NoMsg)

(* A timeout is a task and a handle that no other armed timeout of that    *)
(* task has.  The handle of Reconnect and of Rebind is the endpoint.       *)
Timeout(task, n) == [task |-> task, n |-> n]
NoTimeout == Timeout("None", 0)

Fresh(timers, task) ==
    Timeout(task, Min({n \in 1 .. (Cardinality(timers) + 1) :
                         Timeout(task, n) \notin timers}))

-----------------------------------------------------------------------------
(* The context. *)

SendReply(c, kind, m) == [c EXCEPT !.replies = Append(@, Reply(kind, m, NoHeader))]

PushSignal(c, s) == [c EXCEPT !.bus = Append(@, s)]

Schedule(c, t) == IF t = NoTimeout THEN c ELSE [c EXCEPT !.timers = @ \cup {t}]

(* Seeded fault: the timer is not found and stays armed. *)
CancelNothing(c, t) == c

Cancel(c, t) == [c EXCEPT !.timers = @ \ {t}]

RaiseCanSend(c, b) == [c EXCEPT !.told.send = b]

RaiseCanRecv(c, b) == [c EXCEPT !.told.recv = b]

CheckSendReadyChange(c, was, is) == IF was # is THEN RaiseCanSend(c, is) ELSE c

(* Seeded fault: only good news is told. *)
CheckRecvReadyOnly(c, was, is) == IF is /\ ~was THEN RaiseCanRecv(c, is) ELSE c

CheckRecvReadyChange(c, was, is) == IF was # is THEN RaiseCanRecv(c, is) ELSE c

(* A panic unwinds the I/O thread: nothing else the handler did matters. *)
Panic(c) == [c EXCEPT !.alive = FALSE]

(* Reply to the user and give up the timeout of the call. *)
Answer(c, kind, m, t) == Cancel(SendReply(c, kind, m), t)

(* The same for a message that is received with its header. *)
Deliver(c, m, h, t) == Cancel([c EXCEPT !.replies = Append(@, Reply("Recv", m, h))], t)

-----------------------------------------------------------------------------
(* core::endpoint::Pipe and PipeCollection. *)

SendOn(c, e, m) == PushSignal(c, Signal("Send", e, m))

RecvOn(c, e) == PushSignal(c, Cmd("Recv", e))

CloseOn(c, e) == PushSignal(c, Cmd("Close", e))

(* The members of S in the order of this context. *)
Drain(c, S) == SelectSeq(c.order, LAMBDA e : e \in S)

CloseAll(c) ==
    LET es == Drain(c, c.p.pipes)
    IN  [c EXCEPT !.bus = @ \o [i \in DOMAIN es |-> Cmd("Close", es[i])],
                  !.p.pipes = {}]

-----------------------------------------------------------------------------
(* The policies.  A choice of pipe is a context and the endpoint chosen,   *)
(* NoEid for None.  A pop that panics takes everything with it.            *)

Chosen(c, e) == [ctx |-> c, eid |-> e]

(* send_to and recv_from of the collection find the pipe or do nothing. *)
SendTo(c, e, m) == IF e \in c.p.pipes THEN Chosen(SendOn(c, e, m), e) ELSE Chosen(c, NoEid)

RecvFrom(c, e) == IF e \in c.p.pipes THEN Chosen(RecvOn(c, e), e) ELSE Chosen(c, NoEid)

(* load_balancing::send *)
LoadBalance(c, m) ==
    IF ~Peek(c.p.lb) THEN Chosen(c, NoEid)
    ELSE IF PopPanics(c.p.lb) THEN Chosen(Panic(c), NoEid)
    ELSE SendTo([c EXCEPT !.p.lb = Pop(@)], PopValue(c.p.lb), m)

(* fair_queue::recv *)
FairQueue(c) ==
    IF ~Peek(c.p.fq) THEN Chosen(c, NoEid)
    ELSE IF PopPanics(c.p.fq) THEN Chosen(Panic(c), NoEid)
    ELSE RecvFrom([c EXCEPT !.p.fq = Pop(@)], PopValue(c.p.fq))

SendToEach(c, m, S) ==
    LET es == Drain(c, S \cap c.p.pipes)
    IN  [c EXCEPT !.bus = @ \o [i \in DOMAIN es |-> Signal("Send", es[i], m)]]

(* broadcast::send_to_all *)
SendToAll(c, m) == [SendToEach(c, m, c.p.bc) EXCEPT !.p.bc = {}]

(* broadcast::send_to_all_except *)
SendToAllExcept(c, m, e) == [SendToEach(c, m, c.p.bc \ {e}) EXCEPT !.p.bc = {e}]

-----------------------------------------------------------------------------
(* The states of the protocols.  `msg' is the message of Sending and       *)
(* SendOnHold, and the pending request or survey of the others; `pending'  *)
(* is the timer that goes with it, `retry' tells a request sent again.     *)

State(name, e, m, t, retry, r) ==
    [name |-> name, eid |-> e, msg |-> m, timeout |-> t, retry |-> retry, pending |-> r]

Idle == State("Idle", NoEid, NoMsg, NoTimeout, FALSE, NoTimeout)

StateNames == {"Idle", "Sending", "SendOnHold", "Active", "Receiving", "RecvOnHold"}

(* The states of a send and of a receive that nothing else goes with. *)
Sending(e, m, t) == State("Sending", e, m, t, FALSE, NoTimeout)
SendOnHold(m, t) == State("SendOnHold", NoEid, m, t, FALSE, NoTimeout)
Receiving(e, t)  == State("Receiving", e, NoMsg, t, FALSE, NoTimeout)
RecvOnHold(t)    == State("RecvOnHold", NoEid, NoMsg, t, FALSE, NoTimeout)

In(c, names) == c.p.state.name \in names

Is(c, name, e) == c.p.state.name = name /\ c.p.state.eid = e

Goto(c, s) == [c EXCEPT !.p.state = s]

(* A send goes to the pipe that was chosen, or waits for one. *)
SendChosen(s, m, t) ==
    Goto(s.ctx, IF s.eid = NoEid THEN SendOnHold(m, t) ELSE Sending(s.eid, m, t))

(* A receive, likewise. *)
RecvChosen(r, t) ==
    Goto(r.ctx, IF r.eid = NoEid THEN RecvOnHold(t) ELSE Receiving(r.eid, t))
=============================================================================
