--------------------------- MODULE SessionProofs ---------------------------
(***************************************************************************)
(* No signal is left behind on the bus, for any sockets, probes, threads   *)
(* and bounds.  The bus is reported to the event loop once only, when its  *)
(* first signal is queued (reactor/bus.rs), so all that could wake the     *)
(* event loop for a signal queued later is the report that is still due or *)
(* the process_bus that is still running.                                  *)
(***************************************************************************)
EXTENDS Session, TLAPS

(* What the property is about. *)
reportVars == <<bus, edge, draining, running>>

(* A step that touches neither the bus nor the loop keeps it. *)
LEMMA Untouched ==
    ASSUME BusIsReported, UNCHANGED reportVars
    PROVE  BusIsReported'
BY DEF BusIsReported, reportVars

(* EventLoopBus::send on a bus that is empty makes it readable; on one     *)
(* that is not, a report is due already.                                   *)
LEMMA SendReports ==
    ASSUME NEW signals, BusIsReported, BusSend(signals), running # "stopped",
           UNCHANGED draining
    PROVE  BusIsReported'
<1>1. CASE bus # <<>>
  BY <1>1 DEF BusIsReported, BusSend
<1>2. CASE bus = <<>> /\ signals # <<>>
  BY <1>2 DEF BusIsReported, BusSend
<1>3. CASE bus = <<>> /\ signals = <<>>
  <2>1. bus' = <<>>
    BY <1>3 DEF BusSend
  <2> QED BY <2>1 DEF BusIsReported
<1> QED BY <1>1, <1>2, <1>3

(* Handling a signal happens inside process_bus, which goes on.            *)
LEMMA DrainingReports ==
    ASSUME draining, UNCHANGED draining
    PROVE  BusIsReported'
BY DEF BusIsReported

(* Taking a request of the channel leaves the loop running and the flag of *)
(* process_bus as it is.                                                   *)
LEMMA RequestTaken ==
    ASSUME NEW op, TakeRequest(op)
    PROVE  running # "stopped" /\ UNCHANGED draining
BY DEF TakeRequest, Outside

(* process_request: what it queues goes through EventLoopBus::send. *)
LEMMA RequestReports == BusIsReported /\ RequestStep => BusIsReported'
<1> SUFFICES ASSUME BusIsReported, RequestStep PROVE BusIsReported'
  OBVIOUS
<1>1. CASE AddProbe
  <2>1. UNCHANGED reportVars
    BY <1>1, RequestTaken DEF AddProbe, busVars, reportVars
  <2> QED BY <2>1, Untouched
<1>2. CASE AddDevice
  <2>1. UNCHANGED reportVars
    BY <1>2, RequestTaken DEF AddDevice, busVars, reportVars
  <2> QED BY <2>1, Untouched
<1>3. CASE Shutdown
  <2>1. running # "stopped" /\ UNCHANGED <<bus, edge, draining>>
    BY <1>3, RequestTaken DEF Shutdown, busVars
  <2> QED BY <2>1 DEF BusIsReported
<1>4. CASE Poll
  <2>1. running # "stopped" /\ UNCHANGED draining
    BY <1>4, RequestTaken DEF Poll
  <2>2. PICK signals : BusSend(signals)
    BY <1>4 DEF Poll
  <2> QED BY <2>1, <2>2, SendReports
<1>5. CASE RemoveProbe
  <2>1. UNCHANGED reportVars
    BY <1>5, RequestTaken DEF RemoveProbe, busVars, reportVars
  <2> QED BY <2>1, Untouched
<1>6. CASE Check
  <2>1. running # "stopped" /\ UNCHANGED <<draining, running>>
    BY <1>6, RequestTaken DEF Check
  <2>2. CASE UNCHANGED busVars
    BY <2>1, <2>2, Untouched DEF busVars, reportVars
  <2>3. CASE BusSend(<<Command(Left), Command(Right)>>)
    BY <2>1, <2>3, SendReports
  <2> QED BY <1>6, <2>2, <2>3 DEF Check
<1>7. CASE CloseDevice
  <2>1. UNCHANGED reportVars
    BY <1>7, RequestTaken DEF CloseDevice, busVars, reportVars
  <2> QED BY <2>1, Untouched
<1>8. ASSUME NEW side, StartCall(side) PROVE BusIsReported'
  <2>1. running # "stopped" /\ UNCHANGED <<draining, running>>
    BY <1>8, RequestTaken DEF StartCall
  <2>2. \/ UNCHANGED busVars
        \/ \E signals : BusSend(signals)
    BY <1>8 DEF StartCall
  <2>3. CASE UNCHANGED busVars
    BY <2>1, <2>3, Untouched DEF busVars, reportVars
  <2>4. ASSUME NEW signals, BusSend(signals) PROVE BusIsReported'
    BY <2>1, <2>4, SendReports
  <2> QED BY <2>2, <2>3, <2>4
<1>9. CASE CloseSocket
  <2>1. running # "stopped" /\ UNCHANGED draining
    BY <1>9, RequestTaken DEF CloseSocket
  <2>2. PICK signals : BusSend(signals)
    BY <1>9 DEF CloseSocket
  <2> QED BY <2>1, <2>2, SendReports
<1> QED BY <1>1, <1>2, <1>3, <1>4, <1>5, <1>6, <1>7, <1>8, <1>9 DEF RequestStep

(* process_bus: it starts when the bus is reported and ends when it is     *)
(* empty.                                                                  *)
LEMMA BusReports == BusIsReported /\ BusStep => BusIsReported'
<1> SUFFICES ASSUME BusIsReported, BusStep PROVE BusIsReported'
  OBVIOUS
<1>1. CASE StartBus
  BY <1>1 DEF StartBus, BusIsReported
<1>2. CASE EndBus
  BY <1>2 DEF EndBus, busVars, BusIsReported
<1>3. ASSUME NEW s \in Sid,
             SocketPoll(s) \/ OnDone(s) \/ OnSocketClosed(s)
                \/ \E side \in Sides : OnSocketEvent(s, side)
      PROVE  BusIsReported'
  <2>1. draining /\ UNCHANGED draining
    BY <1>3 DEF SocketPoll, OnDone, OnSocketClosed, OnSocketEvent, Take, loopVars
  <2> QED BY <2>1, DrainingReports
<1> QED BY <1>1, <1>2, <1>3 DEF BusStep

(* What the threads do reaches the channel and the reply channels only. *)
LEMMA ThreadsReport == BusIsReported /\ (ThreadStep \/ UserStep) => BusIsReported'
<1> SUFFICES ASSUME BusIsReported, ThreadStep \/ UserStep PROVE BusIsReported'
  OBVIOUS
<1>1. ASSUME NEW op, NEW id, Ask(op, id) PROVE UNCHANGED reportVars
  BY <1>1 DEF Ask, busVars, reportVars
<1>2. ASSUME Quiet PROVE UNCHANGED reportVars
  BY <1>2 DEF Quiet, busVars, loopVars, reportVars
<1>3. CASE UserStep
  <2>1. \E op, id : Ask(op, id)
    BY <1>3 DEF UserStep, CreateBridge, DropSession, CreateProbe, OwnerAsks, UserPolls, UserDrops
  <2> QED BY <2>1, <1>1, Untouched
<1>4. CASE BridgeStep
  <2>1. Quiet \/ \E op, id : Ask(op, id)
    BY <1>4 DEF BridgeStep, BridgeChecks, BridgeCalls, BridgeChecked, BridgeReturns, BridgeDropped
  <2> QED BY <2>1, <1>1, <1>2, Untouched
<1>5. CASE OwnerReturns
  BY <1>5, <1>2, Untouched DEF OwnerReturns
<1>6. ASSUME NEW p \in Pid, UserReturns(p) PROVE BusIsReported'
  BY <1>6, <1>2, Untouched DEF UserReturns
<1> QED BY <1>3, <1>4, <1>5, <1>6 DEF ThreadStep

(* The events sockets raise by themselves are queued the same way. *)
LEMMA SocketsReport == BusIsReported /\ SocketStep => BusIsReported'
<1> SUFFICES ASSUME BusIsReported, SocketStep PROVE BusIsReported'
  OBVIOUS
<1>1. ASSUME NEW s \in Sid, CallFails(s) PROVE BusIsReported'
  <2>1. UNCHANGED reportVars
    BY <1>1 DEF CallFails, busVars, loopVars, reportVars
  <2> QED BY <2>1, Untouched
<1>2. ASSUME NEW s \in Sid, NEW side \in Sides, ReadinessChange(s, side) PROVE BusIsReported'
  <2>1. running # "stopped" /\ UNCHANGED draining
    BY <1>2 DEF ReadinessChange, loopVars
  <2>2. \E signals : BusSend(signals)
    BY <1>2 DEF ReadinessChange
  <2> QED BY <2>1, <2>2, SendReports
<1> QED BY <1>1, <1>2 DEF SocketStep

(* Signals never wait on a bus the event loop does not look at, whatever   *)
(* the sockets, the probes, the threads and their number: requests, ticks  *)
(* and calls that overtake the bus included.                               *)
THEOREM NoSignalLeftBehind == Spec => []BusIsReported
<1>1. Init => BusIsReported
  BY DEF Init, BusIsReported
<1>2. BusIsReported /\ [Next]_vars => BusIsReported'
  <2> SUFFICES ASSUME BusIsReported, [Next]_vars PROVE BusIsReported'
    OBVIOUS
  <2>1. CASE RequestStep
    BY <2>1, RequestReports
  <2>2. CASE BusStep
    BY <2>2, BusReports
  <2>3. CASE TimerStep
    <3>1. UNCHANGED reportVars
      BY <2>3 DEF TimerStep, PollTimeout, busVars, loopVars, reportVars
    <3> QED BY <3>1, Untouched
  <2>4. CASE Stop
    BY <2>4 DEF Stop, BusIsReported
  <2>5. CASE SocketStep
    BY <2>5, SocketsReport
  <2>6. CASE ThreadStep \/ UserStep
    BY <2>6, ThreadsReport
  <2>7. CASE UNCHANGED vars
    <3>1. UNCHANGED reportVars
      BY <2>7 DEF vars, busVars, loopVars, reportVars
    <3> QED BY <3>1, Untouched
  <2> QED BY <2>1, <2>2, <2>3, <2>4, <2>5, <2>6, <2>7 DEF Next
<1> QED BY <1>1, <1>2, PTL DEF Spec
=============================================================================
