------------------------------ MODULE Session ------------------------------
(***************************************************************************)
(* What the I/O thread does for the other objects of a session: probes     *)
(* (core/probe.rs), devices (core/device.rs), the maps from sockets to     *)
(* them (core/session.rs), the signal bus that wakes the event loop        *)
(* (reactor/bus.rs, event_loop.rs) and the end of the session.             *)
(*                                                                         *)
(* The threads are the owner of the session, one user per probe, and the   *)
(* thread that runs the bridge between the sockets Left and Right.  A      *)
(* socket is here what module Socket says of it: it raises CanRecv and     *)
(* CanSend when its readiness changes, and serves one call at a time.      *)
(***************************************************************************)
EXTENDS Naturals, Sequences, FiniteSets

CONSTANTS
    Sid,         \* the sockets
    Left, Right, \* those the bridge joins
    Opts,        \* poll_opts: for each probe a sequence of [sid, recv, send]
    MaxChange,   \* how often the readiness of sockets may change by itself
    MaxBus,      \* how many signals may wait before the bus is served
    MaxErr,      \* how many calls of the bridge may fail
    MaxPoll,     \* how many polls each user makes
    Scenes       \* who takes part (the bridge as NoPid), the sockets with a message
                 \* waiting, and those with room for one

Pid == DOMAIN Opts
NoPid == 0

ASSUME SocketsAssumption == Left \in Sid /\ Right \in Sid \ {Left}
ASSUME BoundsAssumption == {MaxChange, MaxBus, MaxErr, MaxPoll} \subseteq Nat
ASSUME OptsAssumption ==
    /\ Pid \subseteq Nat \ {NoPid}
    /\ \A p \in Pid : Opts[p] \in Seq([sid : Sid, recv : BOOLEAN, send : BOOLEAN])

VARIABLES
    ready,    \* what each socket answers to is_recv_ready and is_send_ready
    untold,   \* the sides of sockets that became ready without an event
    open,     \* the sockets the session has
    busy,     \* the call each socket works on
    bus,      \* the signals queued
    edge,     \* the event loop is due to report the bus as readable
    draining, \* the I/O thread is inside process_bus
    chan,     \* the requests of all threads, in one channel
    running,  \* the event loop is "running", "stopping" or "stopped"
    probes,   \* ProbeCollection: the probes there are
    mapping,  \* ProbeCollection: from sockets to probes
    votes,    \* recv_votes and send_votes of each probe
    polling,  \* the probes whose `timeout' is Some
    timers,   \* the probes whose poll timeout is armed
    device,   \* the device: whether it exists, left_recv, right_recv, waiting
    replies,  \* the reply channels: the session's, the device's, every probe's and socket's
    owner,    \* where the owner of the session is
    user,     \* where the user of each probe is
    bridge,   \* where the thread of the bridge is
    todo,     \* the calls the bridge makes before it checks again
    polls,    \* how many polls each user has made
    changes,  \* how many changes of readiness there were
    errs      \* how many calls of the bridge have failed

sockVars   == <<ready, untold, open, busy>>
busVars    == <<bus, edge>>
loopVars   == <<chan, running, draining>>
probeVars  == <<probes, mapping, votes, polling, timers>>
threadVars == <<owner, user, bridge, todo>>
bounds     == <<polls, changes, errs>>
vars == <<sockVars, busVars, loopVars, probeVars, device, replies, threadVars, bounds>>

Sides == {"recv", "send"}

Signal(kind, s, up) == [kind |-> kind, sid |-> s, up |-> up]
Command(s) == Signal("Poll", s, FALSE)
Can(side) == IF side = "recv" THEN "CanRecv" ELSE "CanSend"
Event(s, side) == Signal(Can(side), s, ready[s][side])

NoVotes(p) == [i \in DOMAIN Opts[p] |-> [recv |-> "None", send |-> "None"]]

NoDevice == [known |-> FALSE, left |-> FALSE, right |-> FALSE, waiting |-> FALSE]
Unready == [side \in Sides |-> FALSE]

(* The sockets are connected, and no event of theirs is on its way. *)
Init ==
    /\ untold = {} /\ open = Sid /\ busy = [s \in Sid |-> "none"]
    /\ bus = <<>> /\ edge = FALSE
    /\ chan = <<>> /\ running = "running" /\ draining = FALSE
    /\ probes = {} /\ mapping = [s \in Sid |-> NoPid]
    /\ votes = [p \in Pid |-> NoVotes(p)] /\ polling = {} /\ timers = {}
    /\ device = NoDevice
    /\ replies = [session |-> <<>>, device |-> <<>>,
                  probe |-> [p \in Pid |-> <<>>], socket |-> [s \in Sid |-> <<>>]]
    /\ owner = "idle" /\ todo = <<>>
    /\ \E scene \in Scenes :
          /\ user = [p \in Pid |-> IF p \in scene.who THEN "unborn" ELSE "absent"]
          /\ bridge = IF NoPid \in scene.who THEN "unborn" ELSE "absent"
          /\ ready = [s \in Sid |-> [recv |-> s \in scene.supplied, send |-> s \in scene.room]]
    /\ polls = [p \in Pid |-> 0] /\ changes = 0 /\ errs = 0

-----------------------------------------------------------------------------
(* The bus.  The first signal queued makes it readable, taking the last    *)
(* one makes it not readable.                                              *)

(* Seeded fault: the queue is looked at after the signal is pushed. *)
BusSendUnseen(signals) == bus' = bus \o signals /\ UNCHANGED edge

BusSend(signals) ==
    /\ bus' = bus \o signals
    /\ edge' = (edge \/ (bus = <<>> /\ signals # <<>>))

(* Take the head and queue what its handler sends. *)
BusRecv(signals) ==
    LET rest == Tail(bus)
    IN  /\ bus' = rest \o signals
        /\ edge' = IF rest = <<>> THEN signals # <<>> ELSE edge

(* The event loop reports the bus once, and process_bus empties it. *)
StartBus ==
    /\ running # "stopped" /\ ~draining /\ edge
    /\ edge' = FALSE /\ draining' = TRUE
    /\ UNCHANGED <<sockVars, bus, chan, running, probeVars, device, replies, threadVars, bounds>>

EndBus ==
    /\ draining /\ bus = <<>>
    /\ draining' = FALSE
    /\ UNCHANGED <<sockVars, busVars, chan, running, probeVars, device, replies, threadVars, bounds>>

Take(kind, s) == draining /\ bus # <<>> /\ Head(bus).kind = kind /\ Head(bus).sid = s

(* What requests and ticks need: the loop is not inside process_bus. *)
Outside == running # "stopped" /\ ~draining /\ Len(bus) < MaxBus

-----------------------------------------------------------------------------
(* Probes.  The handlers of a probe work on the part c of the state. *)

Probing == [votes |-> votes, polling |-> polling, timers |-> timers, replies |-> replies]

Probed(c) ==
    votes' = c.votes /\ polling' = c.polling /\ timers' = c.timers /\ replies' = c.replies

TellUser(c, p, reply) == [c EXCEPT !.replies.probe[p] = Append(@, reply)]

(* Seeded fault: the votes are cleared away instead of set to None. *)
OnPollSucceedVoteless(c, p) ==
    TellUser([c EXCEPT !.polling = @ \ {p}, !.timers = @ \ {p}, !.votes[p] = <<>>], p, "Poll")

(* Seeded fault: the timeout stays armed. *)
OnPollSucceedInTime(c, p) ==
    TellUser([c EXCEPT !.polling = @ \ {p}, !.votes[p] = NoVotes(p)], p, "Poll")

OnPollSucceed(c, p) ==
    TellUser([c EXCEPT !.polling = @ \ {p}, !.timers = IF p \in c.polling THEN @ \ {p} ELSE @,
                       !.votes[p] = NoVotes(p)], p, "Poll")

IsVoteOver(interest, vote) == interest => vote = "Yes"

(* Probe::check. *)
CheckPoll(c, p) ==
    IF /\ p \in c.polling
       /\ \A i \in DOMAIN Opts[p] : /\ IsVoteOver(Opts[p][i].recv, c.votes[p][i].recv)
                                    /\ IsVoteOver(Opts[p][i].send, c.votes[p][i].send)
    THEN OnPollSucceed(c, p)
    ELSE c

(* sid_to_idx: of several entries for a socket the last one counts. *)
IsIndexOf(p, s, i) ==
    Opts[p][i].sid = s /\ \A j \in DOMAIN Opts[p] : Opts[p][j].sid = s => j <= i

(* on_socket_can_recv and on_socket_can_send. *)
OnSocketVote(c, p, s, side, up) ==
    LET vote(i) == IF IsIndexOf(p, s, i)
                   THEN [c.votes[p][i] EXCEPT ![side] = IF up THEN "Yes" ELSE "No"]
                   ELSE c.votes[p][i]
    IN  CheckPoll([c EXCEPT !.votes[p] = [i \in DOMAIN Opts[p] |-> vote(i)]], p)

-----------------------------------------------------------------------------
(* Requests. *)

Request(op, id) == [op |-> op, id |-> id]

TakeRequest(op) ==
    /\ Outside /\ chan # <<>> /\ Head(chan).op = op
    /\ chan' = Tail(chan)
    /\ UNCHANGED <<draining, threadVars, polls, errs>>

Sids(p) == {Opts[p][i].sid : i \in DOMAIN Opts[p]}

AddProbe ==
    LET p == Head(chan).id
    IN  /\ TakeRequest("CreateProbe")
        /\ probes' = probes \cup {p}
        /\ mapping' = [s \in Sid |-> IF s \in Sids(p) THEN p ELSE mapping[s]]
        /\ replies' = [replies EXCEPT !.session = Append(@, p)]
        /\ UNCHANGED <<sockVars, busVars, running, votes, polling, timers, device, changes>>

(* on_device_plugged may make a side of either socket ready, and no event  *)
(* tells.                                                                  *)
AddDevice ==
    /\ TakeRequest("CreateDevice")
    /\ \E gained \in SUBSET {g \in {Left, Right} \X Sides : ~ready[g[1]][g[2]]} :
          /\ changes + Cardinality(gained) <= MaxChange
          /\ changes' = changes + Cardinality(gained)
          /\ ready' = [s \in Sid |-> [side \in Sides |-> ready[s][side] \/ <<s, side>> \in gained]]
          /\ untold' = untold \cup gained
    /\ device' = [device EXCEPT !.known = TRUE]
    /\ replies' = [replies EXCEPT !.session = Append(@, NoPid)]
    /\ UNCHANGED <<open, busy, busVars, running, probeVars>>

Shutdown ==
    /\ TakeRequest("Shutdown")
    /\ running' = "stopping"
    /\ UNCHANGED <<sockVars, busVars, probeVars, device, replies, changes>>

(* Probe::poll.  Its `schedule', that of ProbeEventLoopContext, only inserts *)
(* a timer and always returns Ok, so that the poll always starts.           *)
Poll ==
    LET p == Head(chan).id
    IN  /\ TakeRequest("Poll")
        /\ BusSend([i \in DOMAIN Opts[p] |-> Command(Opts[p][i].sid)])
        /\ Probed(CheckPoll([Probing EXCEPT !.polling = @ \cup {p}, !.timers = @ \cup {p}], p))
        /\ UNCHANGED <<sockVars, running, probes, mapping, device, changes>>

(* remove_probe; dropping the probe says Closed. *)
RemoveProbe ==
    LET p == Head(chan).id
    IN  /\ TakeRequest("CloseProbe")
        /\ probes' = probes \ {p}
        /\ mapping' = [s \in Sid |-> IF s \in Sids(p) THEN NoPid ELSE mapping[s]]
        /\ replies' = [replies EXCEPT !.probe[p] = Append(@, "Closed")]
        /\ UNCHANGED <<sockVars, busVars, running, votes, polling, timers, device, changes>>

(* send_check_reply. *)
CheckReply(d) == [kind |-> "Check", left |-> d.left, right |-> d.right]

(* Seeded fault: the sockets are not asked. *)
CheckUnasked ==
    /\ TakeRequest("Check")
    /\ IF device.left \/ device.right
       THEN replies' = [replies EXCEPT !.device = Append(@, CheckReply(device))]
       ELSE UNCHANGED replies
    /\ device' = [device EXCEPT !.waiting = ~(device.left \/ device.right)]
    /\ UNCHANGED <<sockVars, busVars, running, probeVars, changes>>

(* Device::check. *)
Check ==
    /\ TakeRequest("Check")
    /\ \/ /\ device.left \/ device.right
          /\ device' = [device EXCEPT !.waiting = FALSE]
          /\ replies' = [replies EXCEPT !.device = Append(@, CheckReply(device))]
          /\ UNCHANGED busVars
       \/ /\ ~device.left /\ ~device.right
          /\ BusSend(<<Command(Left), Command(Right)>>)
          /\ device' = [device EXCEPT !.waiting = TRUE]
          /\ UNCHANGED replies
    /\ UNCHANGED <<sockVars, running, probeVars, changes>>

(* The request to close a device is not handled. *)
CloseDevice ==
    /\ TakeRequest("CloseDevice")
    /\ UNCHANGED <<sockVars, busVars, running, probeVars, device, replies, changes>>

(* A call that finds its socket ready is served at once and may use the    *)
(* readiness up; otherwise it is held.                                     *)
StartCall(side) ==
    LET s == Head(chan).id
    IN  /\ TakeRequest(side)
        /\ busy' = [busy EXCEPT ![s] = IF ready[s][side] THEN "served" ELSE side]
        /\ \/ /\ ready[s][side]
              /\ ready' = [ready EXCEPT ![s][side] = FALSE]
              /\ untold' = untold \ {<<s, side>>}
              /\ BusSend(<<Signal(Can(side), s, FALSE), Signal("Done", s, TRUE)>>)
           \/ /\ ready[s][side] /\ BusSend(<<Signal("Done", s, TRUE)>>)
              /\ UNCHANGED <<ready, untold>>
           \/ ~ready[s][side] /\ UNCHANGED <<ready, untold, busVars>>
        /\ UNCHANGED <<open, running, probeVars, device, replies, changes>>

CloseSocket ==
    LET s == Head(chan).id
    IN  /\ TakeRequest("Close")
        /\ BusSend(<<Signal("Closed", s, FALSE)>>)
        /\ UNCHANGED <<sockVars, running, probeVars, device, replies, changes>>

-----------------------------------------------------------------------------
(* Signals. *)

(* Seeded fault: the socket does not report its send side. *)
SocketPollRecv(s) ==
    /\ Take("Poll", s)
    /\ BusRecv(IF s \in open THEN <<Event(s, "recv")>> ELSE <<>>)
    /\ UNCHANGED <<sockVars, loopVars, probeVars, device, replies, threadVars, bounds>>

(* Command::Poll: the socket reports both sides as they are. *)
SocketPoll(s) ==
    /\ Take("Poll", s)
    /\ BusRecv(IF s \in open THEN <<Event(s, "recv"), Event(s, "send")>> ELSE <<>>)
    /\ untold' = untold \ ({s} \X Sides)
    /\ UNCHANGED <<ready, open, busy, loopVars, probeVars, device, replies, threadVars, bounds>>

(* Device::on_socket_can_recv. *)
OnSocketCanRecv(d, s, up) ==
    CASE s = Left  -> [d EXCEPT !.left = up, !.waiting = @ /\ ~up]
      [] s = Right -> [d EXCEPT !.right = up, !.waiting = @ /\ ~up]

(* process_socket_evt: the device of the socket first, then its probe. *)
OnSocketEvent(s, side) ==
    LET up == Head(bus).up
        linked == side = "recv" /\ device.known /\ s \in {Left, Right}
        d == IF linked THEN OnSocketCanRecv(device, s, up) ELSE device
        c == IF device.waiting /\ ~d.waiting
             THEN [Probing EXCEPT !.replies.device = Append(@, CheckReply(d))] ELSE Probing
    IN  /\ Take(Can(side), s)
        /\ BusRecv(<<>>)
        /\ device' = d
        /\ Probed(IF mapping[s] \in probes THEN OnSocketVote(c, mapping[s], s, side, up) ELSE c)
        /\ UNCHANGED <<sockVars, loopVars, probes, mapping, threadVars, bounds>>

(* The pipe has done what the call asked for. *)
OnDone(s) ==
    /\ Take("Done", s)
    /\ BusRecv(<<>>)
    /\ replies' = IF s \in open /\ busy[s] = "served"
                  THEN [replies EXCEPT !.socket[s] = Append(@, "Ok")] ELSE replies
    /\ busy' = [busy EXCEPT ![s] = IF @ = "served" THEN "none" ELSE @]
    /\ UNCHANGED <<ready, untold, open, loopVars, probeVars, device, threadVars, bounds>>

(* Event::Closed: remove_socket; the reply channel of the socket is cut. *)
OnSocketClosed(s) ==
    /\ Take("Closed", s)
    /\ BusRecv(<<>>)
    /\ open' = open \ {s} /\ ready' = [ready EXCEPT ![s] = Unready]
    /\ UNCHANGED <<untold, busy, loopVars, probeVars, device, replies, threadVars, bounds>>

-----------------------------------------------------------------------------
(* The timer and the sockets. *)

(* on_poll_timeout; the tick of a probe that is gone is lost. *)
PollTimeout(p) ==
    /\ Outside /\ p \in timers
    /\ LET c == [Probing EXCEPT !.timers = @ \ {p}]
       IN  Probed(IF p \in probes THEN OnPollSucceed(c, p) ELSE c)
    /\ UNCHANGED <<sockVars, busVars, loopVars, probes, mapping, device, threadVars, bounds>>

(* A message, or room for one, comes or goes with the pipes of a socket.   *)
(* A call held by the socket takes it before anybody is told.              *)
ReadinessChange(s, side) ==
    /\ running # "stopped" /\ Len(bus) < MaxBus
    /\ s \in open /\ changes < MaxChange /\ changes' = changes + 1
    /\ \/ /\ busy[s] = side
          /\ busy' = [busy EXCEPT ![s] = "served"]
          /\ BusSend(<<Signal("Done", s, TRUE)>>)
          /\ UNCHANGED <<ready, untold>>
       \/ /\ busy[s] # side
          /\ ready' = [ready EXCEPT ![s][side] = ~@]
          /\ untold' = untold \ {<<s, side>>}
          /\ BusSend(<<Signal(Can(side), s, ~ready[s][side])>>)
          /\ UNCHANGED busy
    /\ UNCHANGED <<open, loopVars, probeVars, device, replies, threadVars, polls, errs>>

(* A call of the bridge ends with an error. *)
CallFails(s) ==
    /\ running # "stopped" /\ s \in open /\ busy[s] # "none"
    /\ errs < MaxErr /\ errs' = errs + 1
    /\ busy' = [busy EXCEPT ![s] = "none"]
    /\ replies' = [replies EXCEPT !.socket[s] = Append(@, "Err")]
    /\ UNCHANGED <<ready, untold, open, busVars, loopVars, probeVars, device, threadVars,
                   polls, changes>>

(* The event loop has ended, and all that it owns is dropped. *)
Stop ==
    /\ running = "stopping" /\ ~draining
    /\ running' = "stopped" /\ chan' = <<>> /\ bus' = <<>> /\ edge' = FALSE
    /\ open' = {} /\ ready' = [s \in Sid |-> Unready] /\ untold' = {}
    /\ busy' = [s \in Sid |-> "none"]
    /\ probes' = {} /\ mapping' = [s \in Sid |-> NoPid] /\ polling' = {} /\ timers' = {}
    /\ votes' = [p \in Pid |-> NoVotes(p)]
    /\ device' = NoDevice
    /\ replies' = [replies EXCEPT
                      !.probe = [p \in Pid |-> IF p \in probes THEN Append(@[p], "Closed") ELSE @[p]],
                      !.device = IF device.known THEN Append(@, [kind |-> "Closed"]) ELSE @]
    /\ UNCHANGED <<draining, threadVars, bounds>>

-----------------------------------------------------------------------------
(* The threads.  A request to an event loop that has stopped fails.        *)

Ask(op, id) ==
    /\ chan' = IF running = "stopped" THEN chan ELSE Append(chan, Request(op, id))
    /\ UNCHANGED <<sockVars, busVars, running, draining, probeVars, device, replies, changes, errs>>

Quiet == UNCHANGED <<sockVars, busVars, loopVars, probeVars, device, bounds>>

(* recv_reply fails: nobody is left to reply. *)
CutOff(channel, gone) == gone /\ channel = <<>>
Rest(channel) == IF channel = <<>> THEN <<>> ELSE Tail(channel)

OwnerAsks(op, id) ==
    /\ owner = "idle" /\ owner' = op
    /\ Ask(op, id) /\ UNCHANGED <<user, bridge, todo, polls>>

CreateProbe(p) == user[p] = "unborn" /\ OwnerAsks("CreateProbe", p)

CreateBridge == bridge = "unborn" /\ OwnerAsks("CreateDevice", NoPid)

DropSession == OwnerAsks("Shutdown", NoPid)

OwnerReturns ==
    /\ \/ /\ replies.session # <<>> /\ owner' = "idle"
          /\ LET id == Head(replies.session)
             IN  IF id = NoPid THEN bridge' = "idle" /\ UNCHANGED user
                 ELSE user' = [user EXCEPT ![id] = "idle"] /\ UNCHANGED bridge
       \/ /\ owner = "Shutdown" /\ CutOff(replies.session, running = "stopped")
          /\ owner' = "done" /\ UNCHANGED <<user, bridge>>
    /\ replies' = [replies EXCEPT !.session = Rest(@)]
    /\ Quiet /\ UNCHANGED todo

UserPolls(p) ==
    /\ user[p] = "idle" /\ polls[p] < MaxPoll
    /\ user' = [user EXCEPT ![p] = "poll"] /\ polls' = [polls EXCEPT ![p] = @ + 1]
    /\ Ask("Poll", p) /\ UNCHANGED <<owner, bridge, todo>>

UserDrops(p) ==
    /\ user[p] = "idle" /\ user' = [user EXCEPT ![p] = "drop"]
    /\ Ask("CloseProbe", p) /\ UNCHANGED <<owner, bridge, todo, polls>>

UserReturns(p) ==
    /\ user[p] \in {"poll", "drop"}
    /\ replies.probe[p] # <<>> \/ CutOff(replies.probe[p], running = "stopped")
    /\ user' = [user EXCEPT ![p] = IF @ = "drop" THEN "done" ELSE "idle"]
    /\ replies' = [replies EXCEPT !.probe[p] = Rest(@)]
    /\ Quiet /\ UNCHANGED <<owner, bridge, todo>>

(* forward_msg and exchange_msg, for what run_once finds ready. *)
ForwardMsg(from, to) == <<Request("recv", from), Request("send", to)>>
ExchangeMsg == <<Request("recv", Left), Request("recv", Right),
                 Request("send", Right), Request("send", Left)>>

RunOnce(l, r) ==
    CASE l /\ r -> ExchangeMsg
      [] l /\ ~r -> ForwardMsg(Left, Right)
      [] ~l /\ r -> ForwardMsg(Right, Left)
      [] OTHER -> <<>>

(* When `run' ends its sockets are dropped, then the bridge itself. *)
Leaving == <<Request("Close", Right), Request("Close", Left), Request("CloseDevice", NoPid)>>

BridgeChecks ==
    /\ bridge = "idle" /\ todo = <<>> /\ bridge' = "check"
    /\ Ask("Check", NoPid) /\ UNCHANGED <<owner, user, todo, polls>>

BridgeCalls ==
    /\ \/ bridge = "idle" /\ bridge' = "call"
       \/ bridge = "leaving" /\ bridge' = "drop"
    /\ todo # <<>> /\ Ask(Head(todo).op, Head(todo).id)
    /\ UNCHANGED <<owner, user, todo, polls>>

(* Seeded fault: the loop goes on after an error. *)
BridgeCheckedAnyway ==
    /\ bridge = "check"
    /\ replies.device # <<>> \/ CutOff(replies.device, running = "stopped")
    /\ bridge' = "idle"
    /\ todo' = IF replies.device # <<>> /\ Head(replies.device).kind = "Check"
               THEN RunOnce(Head(replies.device).left, Head(replies.device).right) ELSE <<>>
    /\ replies' = [replies EXCEPT !.device = Rest(@)]
    /\ Quiet /\ UNCHANGED <<owner, user>>

BridgeChecked ==
    /\ bridge = "check"
    /\ \/ /\ replies.device # <<>> /\ Head(replies.device).kind = "Check"
          /\ bridge' = "idle"
          /\ todo' = RunOnce(Head(replies.device).left, Head(replies.device).right)
       \/ /\ \/ replies.device # <<>> /\ Head(replies.device).kind = "Closed"
             \/ CutOff(replies.device, running = "stopped")
          /\ bridge' = "leaving" /\ todo' = Leaving
    /\ replies' = [replies EXCEPT !.device = Rest(@)]
    /\ Quiet /\ UNCHANGED <<owner, user>>

BridgeReturns ==
    LET s == Head(todo).id
    IN  /\ bridge = "call"
        /\ \/ /\ replies.socket[s] # <<>> /\ Head(replies.socket[s]) = "Ok"
              /\ bridge' = "idle" /\ todo' = Tail(todo)
           \/ /\ \/ replies.socket[s] # <<>> /\ Head(replies.socket[s]) = "Err"
                 \/ CutOff(replies.socket[s], s \notin open)
              /\ bridge' = "leaving" /\ todo' = Leaving
        /\ replies' = [replies EXCEPT !.socket[s] = Rest(@)]
        /\ Quiet /\ UNCHANGED <<owner, user>>

BridgeDropped ==
    LET s == Head(todo).id
    IN  /\ bridge = "drop" /\ todo' = Tail(todo)
        /\ \/ /\ Head(todo).op = "Close"
              /\ replies.socket[s] # <<>> \/ CutOff(replies.socket[s], s \notin open)
              /\ replies' = [replies EXCEPT !.socket[s] = Rest(@)]
              /\ bridge' = "leaving"
           \/ /\ Head(todo).op = "CloseDevice"
              /\ replies.device # <<>> \/ CutOff(replies.device, running = "stopped")
              /\ replies' = [replies EXCEPT !.device = Rest(@)]
              /\ bridge' = "done"
        /\ Quiet /\ UNCHANGED <<owner, user>>

-----------------------------------------------------------------------------
RequestStep ==
    \/ AddProbe \/ AddDevice \/ Shutdown \/ Poll \/ RemoveProbe \/ Check \/ CloseDevice
    \/ StartCall("recv") \/ StartCall("send") \/ CloseSocket

BusStep ==
    \/ StartBus \/ EndBus
    \/ \E s \in Sid : \/ SocketPoll(s) \/ OnDone(s) \/ OnSocketClosed(s)
                      \/ \E side \in Sides : OnSocketEvent(s, side)

BridgeStep == BridgeChecks \/ BridgeCalls \/ BridgeChecked \/ BridgeReturns \/ BridgeDropped

TimerStep == \E p \in Pid : PollTimeout(p)

(* The threads go on with what they have begun. *)
ThreadStep == OwnerReturns \/ BridgeStep \/ \E p \in Pid : UserReturns(p)

(* The owner and the users begin something. *)
UserStep ==
    \/ CreateBridge \/ DropSession
    \/ \E p \in Pid : CreateProbe(p) \/ UserPolls(p) \/ UserDrops(p)

SocketStep == \E s \in Sid : CallFails(s) \/ \E side \in Sides : ReadinessChange(s, side)

Next == RequestStep \/ BusStep \/ TimerStep \/ Stop \/ SocketStep \/ ThreadStep \/ UserStep

Spec == Init /\ [][Next]_vars

(* The event loop serves the channel, the bus and the timer in turn; the   *)
(* threads take their replies and the bridge goes on.  Nobody has to call, *)
(* and no socket has to become ready.                                      *)
Fairness ==
    /\ WF_vars(BusStep) /\ SF_vars(RequestStep) /\ SF_vars(Stop)
    /\ WF_vars(ThreadStep)

FairSpec == Spec /\ Fairness

-----------------------------------------------------------------------------
(* The collections hold known sockets and probes, and a probe keeps one    *)
(* vote of each kind for every entry of its poll_opts.                     *)
TypeOK ==
    /\ ready \in [Sid -> [Sides -> BOOLEAN]] /\ untold \subseteq Sid \X Sides
    /\ open \subseteq Sid /\ busy \in [Sid -> Sides \cup {"none", "served"}]
    /\ bus \in Seq([kind : {"Poll", "CanRecv", "CanSend", "Done", "Closed"}, sid : Sid, up : BOOLEAN])
    /\ edge \in BOOLEAN /\ draining \in BOOLEAN
    /\ running \in {"running", "stopping", "stopped"}
    /\ probes \subseteq Pid /\ polling \subseteq Pid /\ timers \subseteq Pid
    /\ mapping \in [Sid -> Pid \cup {NoPid}]
    /\ \A p \in Pid : votes[p] \in [DOMAIN Opts[p] -> [Sides -> {"None", "Yes", "No"}]]
    /\ device \in [known : BOOLEAN, left : BOOLEAN, right : BOOLEAN, waiting : BOOLEAN]

(* A poll gets one reply: its request is queued, or it is pending with its *)
(* timeout armed, or its reply is there.  Whether the votes or the timeout *)
(* end a poll, the other one does not answer the next poll.                *)
PollRepliesInTurn ==
    \A p \in Pid :
        LET asked == Len(SelectSeq(chan, LAMBDA r : r.op = "Poll" /\ r.id = p))
            pending == IF p \in polling THEN 1 ELSE 0
            answered == Len(SelectSeq(replies.probe[p], LAMBDA r : r = "Poll"))
        IN  running # "stopped" =>
                /\ asked + pending + answered = (IF user[p] = "poll" THEN 1 ELSE 0)
                /\ timers \cap {p} = polling \cap {p}

(* The last signal about a side of a socket that is on the bus. *)
Pending(s, side) ==
    {i \in DOMAIN bus : bus[i].sid = s /\ bus[i].kind \in {Can(side), "Poll"}}
WillTell(s, side) ==
    \E i \in Pending(s, side) :
        /\ \A j \in Pending(s, side) : j <= i
        /\ bus[i].kind = "Poll" \/ bus[i].up = ready[s][side]

(* A probe that still gets the events of a socket has voted as the socket  *)
(* is, or is about to be told: no change of readiness is lost on the way   *)
(* from the protocol to the probe, polls and calls overtaking the bus or not. *)
VotesAreCurrent ==
    \A p \in probes : \A i \in DOMAIN Opts[p] : \A side \in Sides :
        LET s == Opts[p][i].sid
            vote == votes[p][i][side]
        IN  (/\ mapping[s] = p /\ IsIndexOf(p, s, i) /\ s \in open
             /\ <<s, side>> \notin untold
             /\ vote # "None" \/ p \in polling)
            => \/ vote = (IF ready[s][side] THEN "Yes" ELSE "No")
               \/ WillTell(s, side)

(* A bridge that waits for one of its sockets is told when there is        *)
(* something to receive: the device never sleeps on a ready socket.        *)
BridgeIsWoken ==
    \A s \in {Left, Right} :
        (bridge = "check" /\ device.waiting /\ s \in open /\ ready[s].recv)
            => WillTell(s, "recv")

(* Signals never wait on a bus the event loop does not look at, though its *)
(* readiness is reported once only (reactor/bus.rs with PollOpt::edge).    *)
BusIsReported == bus # <<>> /\ running # "stopped" => edge \/ draining

(* Dropping the session ends the session, its bridge and the calls on it,  *)
(* as the documentation of Device::run has it.                             *)
DropReleasesThreads ==
    owner = "Shutdown" ~> /\ owner = "done" /\ bridge \in {"absent", "unborn", "done"}
                          /\ \A p \in Pid : user[p] \in {"absent", "unborn", "idle", "done"}
=============================================================================
