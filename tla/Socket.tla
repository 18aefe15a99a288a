------------------------------- MODULE Socket -------------------------------
(***************************************************************************)
(* A socket of any of the ten protocols, from the user's call down to the  *)
(* byte streams:                                                           *)
(*                                                                         *)
(*   facade/socket.rs    the user thread: one blocking call at a time,     *)
(*                       a request out, a reply back                       *)
(*   reactor/*.rs        the I/O thread: requests, bus signals, timer      *)
(*                       ticks and I/O readiness, one at a time            *)
(*   core/socket.rs      endpoints, timeouts, reconnection, options        *)
(*   proto/*.rs          the protocol (modules Push .. Resp)               *)
(*   transport/async     the pipes (module AsyncPipe)                      *)
(*   transport/tcp       the acceptor                                      *)
(*                                                                         *)
(* The peer of every pipe is external.  The peers of a REQ or SURVEYOR     *)
(* socket answer what they have read once, later or never, and in any      *)
(* order; the peers of the others send when they like.                     *)
(*                                                                         *)
(* A message the user sends is the number of the send, a message of a peer *)
(* is the number of that message over all peers.  What a request, a survey *)
(* and their answers are on the wire is said in Req, Surv, Rep and Resp.   *)
(***************************************************************************)
EXTENDS Context

CONSTANTS
    Settings,     \* how the socket may be used, see below
    Prefixes,     \* the subscriptions each message starts with
    Levels,       \* the priorities the user may configure
    MaxFail,      \* how many I/O failures may happen
    MaxWire,      \* how many messages a pipe's stream may hold
    ConnectFirst  \* does the user connect every endpoint before anything else?

AllKinds == {"push", "pull", "pair", "bus", "pub", "sub", "req", "rep", "surv", "resp"}

(* ConfigOption, without those that only change a duration or a size. *)
GenericOptions == {"send_timeout", "recv_timeout", "send_priority", "recv_priority", "linger"}
Options == GenericOptions \cup {"subscribe", "unsubscribe"}

AllOps == {"connect", "bind", "send", "try_send", "recv", "try_recv",
           "close_endpoint", "plug", "close"} \cup Options

SettingType == [
    kinds : SUBSET AllKinds,               \* the protocols the socket may have
    pipes : Nat \ {0},                     \* how many pipes there may be
    ops : SUBSET AllOps,                   \* the operations the user calls
    sends : Nat,                           \* how many messages the user may send
    ins : Nat,                             \* how many messages the peers may send first
    bus : Nat,                             \* how many signals may wait before the bus is served
    timeouts : SUBSET {"send", "recv"},    \* the timeouts that are configured already
    rough : BOOLEAN]                       \* may peers send messages without a header, and the
                                           \* kernel withdraw readiness it has reported?

NPipes == Max({u.pipes : u \in Settings})
Eid == 1 .. NPipes
Aid == NPipes + 1
MaxSend == Max({u.sends : u \in Settings})
MaxMsg == Max({u.sends + u.ins : u \in Settings})
Msg == 0 .. MaxMsg
Topics == UNION {Prefixes[m] : m \in DOMAIN Prefixes}

ASSUME SettingsAssumption == \A u \in Settings : u \in SettingType

ASSUME BoundsAssumption ==
    /\ {MaxFail, MaxWire} \subseteq Nat /\ ConnectFirst \in BOOLEAN
    /\ 1 .. MaxMsg \subseteq DOMAIN Prefixes

ASSUME PriorityAssumption ==
    Levels \subseteq 1 .. LowestPriority

VARIABLES
    use,       \* how the socket is used
    kind,      \* the protocol of the socket
    proto,     \* its state
    call,      \* the call the user thread is blocked in, "none" or "done"
    chan,      \* the requests in the channel to the I/O thread
    replies,   \* the channel back to the user
    config,    \* Socket::config
    desc,      \* the EndpointDesc of each endpoint: it is in the pipe or acceptor, goes from
               \* there into the timer that connects it again, and back into the new one
    opening,   \* Socket::pipes, the endpoints whose pipe is not open yet
    listening, \* Socket::acceptors
    life,      \* the socket is "open", "closing" (Closed is on the bus) or "gone"
    told,      \* the readiness last raised for probes and devices
    timers,    \* the timeouts that are armed
    bus,       \* the signals queued for the I/O thread
    draining,  \* the I/O thread is inside process_bus
    alive,     \* the I/O thread has not panicked
    tp,        \* the pipe of each endpoint
    acc,       \* the acceptor: "None", "New", "Open" or "Closed"
    urls,      \* the endpoints with an url: connected, not accepted
    inq,       \* the messages in each pipe's stream
    atPeer,    \* what each peer has read and not answered
    fails,     \* how many I/O failures have happened
    sent,      \* how many messages the user has sent
    got,       \* the last message the user has received
    conns,     \* history: how often each endpoint of a socket that answers was connected again
    origin,    \* history: the endpoint each message of a peer came on, and the value of conns then
    written,   \* history: which messages each endpoint has written entirely, and on which connection
    closed,    \* history: in which state each endpoint was when it was closed
    late       \* history: the endpoints made after the socket was asked to close

userVars == <<call, chan, sent, got>>
sockVars == <<use, kind, config, desc, opening, listening, life, urls, acc, closed, late>>
loopVars == <<bus, draining, alive>>
netVars  == <<tp, inq, atPeer, fails, conns, written, origin>>
vars == <<userVars, replies, proto, told, timers, sockVars, loopVars, netVars>>

-----------------------------------------------------------------------------
(* The protocol behind `Box<dyn Protocol>'. *)

PushP == INSTANCE Push
PullP == INSTANCE Pull
PairP == INSTANCE Pair
BusP  == INSTANCE Bus
PubP  == INSTANCE Pub
SubP  == INSTANCE Sub
ReqP  == INSTANCE Req
RepP  == INSTANCE Rep
SurvP == INSTANCE Surv
RespP == INSTANCE Resp
Tp    == INSTANCE AsyncPipe

NewProtocol(k) ==
    CASE k = "push" -> PushP!New [] k = "pull" -> PullP!New [] k = "pair" -> PairP!New
      [] k = "bus"  -> BusP!New  [] k = "pub"  -> PubP!New  [] k = "sub"  -> SubP!New
      [] k = "req"  -> ReqP!New  [] k = "rep"  -> RepP!New
      [] k = "surv" -> SurvP!New [] k = "resp" -> RespP!New

(* The methods of the trait; the protocols left out do nothing.             *)

AddPipe(c, e) ==
    CASE kind = "push" -> PushP!AddPipe(c, e) [] kind = "pull" -> PullP!AddPipe(c, e)
      [] kind = "pair" -> PairP!AddPipe(c, e) [] kind = "bus"  -> BusP!AddPipe(c, e)
      [] kind = "pub"  -> PubP!AddPipe(c, e)  [] kind = "sub"  -> SubP!AddPipe(c, e)
      [] kind = "req"  -> ReqP!AddPipe(c, e)  [] kind = "rep"  -> RepP!AddPipe(c, e)
      [] kind = "surv" -> SurvP!AddPipe(c, e) [] kind = "resp" -> RespP!AddPipe(c, e)

RemovePipe(c, e) ==
    CASE kind = "push" -> PushP!RemovePipe(c, e) [] kind = "pull" -> PullP!RemovePipe(c, e)
      [] kind = "pair" -> PairP!RemovePipe(c, e) [] kind = "bus"  -> BusP!RemovePipe(c, e)
      [] kind = "pub"  -> PubP!RemovePipe(c, e)  [] kind = "sub"  -> SubP!RemovePipe(c, e)
      [] kind = "req"  -> ReqP!RemovePipe(c, e)  [] kind = "rep"  -> RepP!RemovePipe(c, e)
      [] kind = "surv" -> SurvP!RemovePipe(c, e) [] kind = "resp" -> RespP!RemovePipe(c, e)

HandleSend(c, m, h, t) ==
    CASE kind = "push" -> PushP!HandleSend(c, m, t) [] kind = "pull" -> PullP!HandleSend(c, t)
      [] kind = "pair" -> PairP!HandleSend(c, m, t) [] kind = "bus"  -> BusP!HandleSend(c, m, h, t)
      [] kind = "pub"  -> PubP!Send(c, m, t)        [] kind = "sub"  -> SubP!HandleSend(c, t)
      [] kind = "req"  -> ReqP!HandleSend(c, m, t)  [] kind = "rep"  -> RepP!HandleSend(c, h, t)
      [] kind = "surv" -> SurvP!HandleSend(c, m, t) [] kind = "resp" -> RespP!HandleSend(c, h, t)

HandleSendAck(c, e) ==
    CASE kind = "push" -> PushP!HandleSendAck(c, e) [] kind = "pair" -> PairP!HandleSendAck(c, e)
      [] kind = "req"  -> ReqP!HandleSendAck(c, e)  [] kind = "rep"  -> RepP!HandleSendAck(c, e)
      [] kind = "resp" -> RespP!HandleSendAck(c, e) [] OTHER -> c

HandleSendTimeout(c) ==
    CASE kind = "push" -> PushP!HandleSendTimeout(c) [] kind = "pair" -> PairP!HandleSendTimeout(c)
      [] kind = "req"  -> ReqP!HandleSendTimeout(c)  [] kind = "rep"  -> RepP!HandleSendTimeout(c)
      [] kind = "resp" -> RespP!HandleSendTimeout(c) [] OTHER -> c

HandleSendReady(c, e) ==
    CASE kind = "push" -> PushP!HandleSendReady(c, e) [] kind = "pair" -> PairP!HandleSendReady(c, e)
      [] kind = "bus"  -> BusP!HandleSendReady(c, e)  [] kind = "pub"  -> PubP!OnSendReady(c, e)
      [] kind = "req"  -> ReqP!HandleSendReady(c, e)  [] kind = "rep"  -> RepP!HandleSendReady(c, e)
      [] kind = "surv" -> SurvP!HandleSendReady(c, e) [] kind = "resp" -> RespP!HandleSendReady(c, e)
      [] OTHER -> c

HandleSendNotReady(c, e) ==
    CASE kind = "push" -> PushP!HandleSendNotReady(c, e) [] kind = "pair" -> PairP!HandleSendNotReady(c, e)
      [] kind = "bus"  -> BusP!HandleSendNotReady(c, e)  [] kind = "pub"  -> PubP!OnSendNotReady(c, e)
      [] kind = "req"  -> ReqP!HandleSendNotReady(c, e)  [] kind = "rep"  -> RepP!HandleSendNotReady(c, e)
      [] kind = "surv" -> SurvP!HandleSendNotReady(c, e) [] kind = "resp" -> RespP!HandleSendNotReady(c, e)
      [] OTHER -> c

HandleRecv(c, t) ==
    CASE kind = "push" -> PushP!HandleRecv(c, t) [] kind = "pull" -> PullP!HandleRecv(c, t)
      [] kind = "pair" -> PairP!HandleRecv(c, t) [] kind = "bus"  -> BusP!HandleRecv(c, t)
      [] kind = "pub"  -> PubP!Recv(c, t)        [] kind = "sub"  -> SubP!HandleRecv(c, t)
      [] kind = "req"  -> ReqP!HandleRecv(c, t)  [] kind = "rep"  -> RepP!HandleRecv(c, t)
      [] kind = "surv" -> SurvP!HandleRecv(c, t) [] kind = "resp" -> RespP!HandleRecv(c, t)

HandleRecvAck(c, e, m) ==
    CASE kind = "pull" -> PullP!HandleRecvAck(c, e, m) [] kind = "pair" -> PairP!HandleRecvAck(c, e, m)
      [] kind = "bus"  -> BusP!HandleRecvAck(c, e, m)  [] kind = "sub"  -> SubP!HandleRecvAck(c, e, m)
      [] kind = "req"  -> ReqP!HandleRecvAck(c, e, m)  [] kind = "rep"  -> RepP!HandleRecvAck(c, e, m)
      [] kind = "surv" -> SurvP!HandleRecvAck(c, e, m) [] kind = "resp" -> RespP!HandleRecvAck(c, e, m)
      [] OTHER -> c

HandleRecvTimeout(c) ==
    CASE kind = "pull" -> PullP!HandleRecvTimeout(c) [] kind = "pair" -> PairP!HandleRecvTimeout(c)
      [] kind = "bus"  -> BusP!HandleRecvTimeout(c)  [] kind = "sub"  -> SubP!HandleRecvTimeout(c)
      [] kind = "req"  -> ReqP!HandleRecvTimeout(c)  [] kind = "rep"  -> RepP!HandleRecvTimeout(c)
      [] kind = "surv" -> SurvP!HandleRecvTimeout(c) [] kind = "resp" -> RespP!HandleRecvTimeout(c)
      [] OTHER -> c

HandleRecvReady(c, e) ==
    CASE kind = "pull" -> PullP!HandleRecvReady(c, e) [] kind = "pair" -> PairP!HandleRecvReady(c, e)
      [] kind = "bus"  -> BusP!HandleRecvReady(c, e)  [] kind = "sub"  -> SubP!HandleRecvReady(c, e)
      [] kind = "req"  -> ReqP!HandleRecvReady(c, e)  [] kind = "rep"  -> RepP!HandleRecvReady(c, e)
      [] kind = "surv" -> SurvP!HandleRecvReady(c, e) [] kind = "resp" -> RespP!HandleRecvReady(c, e)
      [] OTHER -> c

HandleRecvNotReady(c, e) ==
    CASE kind = "pull" -> PullP!HandleRecvNotReady(c, e) [] kind = "pair" -> PairP!HandleRecvNotReady(c, e)
      [] kind = "bus"  -> BusP!HandleRecvNotReady(c, e)  [] kind = "sub"  -> SubP!HandleRecvNotReady(c, e)
      [] kind = "req"  -> ReqP!HandleRecvNotReady(c, e)  [] kind = "rep"  -> RepP!HandleRecvNotReady(c, e)
      [] kind = "surv" -> SurvP!HandleRecvNotReady(c, e) [] kind = "resp" -> RespP!HandleRecvNotReady(c, e)
      [] OTHER -> c

HandleOption(c, op, topic) ==
    CASE kind = "sub" /\ op = "subscribe"   -> SubP!Subscribe(c, topic)
      [] kind = "sub" /\ op = "unsubscribe" -> SubP!Unsubscribe(c, topic)
      [] OTHER -> c

HandleTimerTick(c, t) ==
    CASE kind = "req"  -> ReqP!HandleTimerTick(c, t) [] kind = "surv" -> SurvP!HandleTimerTick(c, t)
      [] OTHER -> c

OnDevicePlugged(c) ==
    CASE kind = "req"  -> ReqP!OnDevicePlugged(c)  [] kind = "rep"  -> RepP!OnDevicePlugged(c)
      [] kind = "surv" -> SurvP!OnDevicePlugged(c) [] kind = "resp" -> RespP!OnDevicePlugged(c)
      [] OTHER -> c

IsSendReady ==
    CASE kind = "push" -> PushP!IsSendReady(proto) [] kind = "pair" -> proto.send_ready
      [] kind = "bus"  -> BusP!IsSendReady(proto)  [] kind = "pub"  -> PubP!IsSendReady(proto)
      [] kind = "req"  -> ReqP!IsSendReady(proto)  [] kind = "rep"  -> RepP!IsSendReady(proto)
      [] kind = "surv" -> SurvP!IsSendReady(proto) [] kind = "resp" -> RespP!IsSendReady(proto)
      [] OTHER -> FALSE

IsRecvReady ==
    CASE kind = "pull" -> PullP!IsRecvReady(proto) [] kind = "pair" -> proto.recv_ready
      [] kind = "bus"  -> BusP!IsRecvReady(proto)  [] kind = "sub"  -> SubP!IsRecvReady(proto)
      [] kind = "req"  -> ReqP!IsRecvReady(proto)  [] kind = "rep"  -> RepP!IsRecvReady(proto)
      [] kind = "surv" -> SurvP!IsRecvReady(proto) [] kind = "resp" -> RespP!IsRecvReady(proto)
      [] OTHER -> FALSE

(* The protocols that may be part of a device act as raw sockets there. *)
IsDevice == kind \in {"req", "rep", "surv", "resp"} /\ proto.device

(* The protocols whose peers only answer. *)
IsAsking == kind \in {"req", "surv"}

(* The protocols that answer. *)
IsAnswering == kind \in {"rep", "resp"}

-----------------------------------------------------------------------------
(* Config::default; the timeouts are 0 for None. *)
DefaultConfig == [send_timeout |-> 0, recv_timeout |-> 0, send_priority |-> 8, recv_priority |-> 8]

(* create_endpoint_desc *)
Desc(cfg) == [send_priority |-> cfg.send_priority, recv_priority |-> cfg.recv_priority]

Init ==
    /\ use \in Settings /\ kind \in use.kinds /\ proto = NewProtocol(kind)
    /\ config = [DefaultConfig EXCEPT !.send_timeout = IF "send" \in use.timeouts THEN 1 ELSE 0,
                                      !.recv_timeout = IF "recv" \in use.timeouts THEN 1 ELSE 0]
    /\ desc = [e \in Eid \cup {Aid} |-> Desc(DefaultConfig)]
    /\ call = "none" /\ chan = <<>> /\ replies = <<>>
    /\ opening = {} /\ listening = {} /\ life = "open" /\ urls = {} /\ acc = "None"
    /\ told = [send |-> FALSE, recv |-> FALSE] /\ timers = {}
    /\ bus = <<>> /\ draining = FALSE /\ alive = TRUE
    /\ tp = [e \in Eid |-> Tp!NoPipe] /\ inq = [e \in Eid |-> <<>>]
    /\ atPeer = [e \in Eid |-> {}] /\ fails = 0
    /\ sent = 0 /\ got = Reply("None", NoMsg, NoHeader)
    /\ conns = [e \in Eid |-> 0] /\ origin = <<>> /\ written = {}
    /\ closed = [e \in Eid \cup {Aid} |-> "no"] /\ late = {}

-----------------------------------------------------------------------------
(* The user thread: execute_request sends a request and waits for a reply. *)

Request(op, e, m, h) == [op |-> op, eid |-> e, msg |-> m, header |-> h]

Unused == {e \in 1 .. use.pipes : tp[e].state = "None"}

(* The connections that have been accepted and have no endpoint yet. *)
Promised == Cardinality({<<i, n>> \in (DOMAIN bus) \X (1 .. 2) :
                            bus[i].kind = "Accepted" /\ n \leq bus[i].msg})

Available == Cardinality(Unused) > Promised

(* The endpoints whose id is still in the channel back to the user. *)
Returning ==
    LET kinds == {replies[i].kind : i \in DOMAIN replies}
    IN  {e \in urls : "Connect" \in kinds /\ e = Max(urls)} \cup {a \in {Aid} : "Bind" \in kinds}

(* The endpoints the user was given and has not closed. *)
Handed ==
    {e \in urls \cup {a \in {Aid} : acc # "None"} : closed[e] = "no"} \ Returning

(* Whether the user may make this request now. *)
MayCall(r) ==
    /\ r.op \in use.ops
    /\ r.op \notin {"connect", "bind"} /\ ConnectFirst => Unused = {}
    /\ CASE r.op = "connect"              -> Available
         [] r.op = "bind"                 -> acc = "None"
         [] r.op \in {"send", "try_send"} -> sent < use.sends
         [] r.op = "plug"                 -> kind \in {"req", "rep", "surv", "resp"} /\ ~IsDevice
         [] OTHER                         -> TRUE

(* set_option, with the value as the message. *)
OptionRequests ==
    {Request(op, NoEid, v, NoHeader) : op \in {"subscribe", "unsubscribe"}, v \in Topics}
    \cup {Request(op, NoEid, v, NoHeader) : op \in {"send_timeout", "recv_timeout"}, v \in {0, 1}}
    \cup {Request(op, NoEid, v, NoHeader) : op \in {"send_priority", "recv_priority"}, v \in Levels}
    \cup {Request("linger", NoEid, 1, NoHeader)}

Requests ==
    [op : {"connect", "bind", "recv", "try_recv", "plug", "close"},
     eid : {NoEid}, msg : {NoMsg}, header : {NoHeader}]
    \cup [op : {"send", "try_send"}, eid : {NoEid}, msg : {sent + 1},
          header : {NoHeader, got.header}]
    \cup OptionRequests

Call(r) ==
    /\ MayCall(r)
    /\ call' = r.op /\ chan' = Append(chan, r)
    /\ sent' = IF r.op \in {"send", "try_send"} THEN sent + 1 ELSE sent
    /\ UNCHANGED <<got, replies, proto, told, timers, sockVars, loopVars, netVars>>

(* Endpoint::close does not wait for a reply, and an Endpoint may be       *)
(* closed by any thread, whatever call its socket is in.                   *)
CallCloseEndpoint(e) ==
    /\ alive /\ "close_endpoint" \in use.ops
    /\ \A i \in DOMAIN chan : chan[i].eid # e
    /\ chan' = Append(chan, Request("close_endpoint", e, NoMsg, NoHeader))
    /\ UNCHANGED <<call, sent, got, replies, proto, told, timers, sockVars, loopVars, netVars>>

(* The reply to CreateDevice has a channel of its own, that of the session. *)
Return ==
    /\ call \notin {"none", "done", "plug"} /\ replies # <<>>
    /\ call' = IF call = "close" THEN "done" ELSE "none"
    /\ replies' = Tail(replies)
    /\ got' = IF Head(replies).kind = "Recv" THEN Head(replies) ELSE got
    /\ UNCHANGED <<chan, sent, proto, told, timers, sockVars, loopVars, netVars>>

(* The I/O thread or the socket is gone: the call reports the closed       *)
(* channel, which is what Socket::drop waits for.                          *)
Disconnected ==
    /\ ~alive \/ life = "gone"
    /\ call \notin {"none", "done"} /\ replies = <<>>
    /\ call' = "done" /\ chan' = <<>>
    /\ UNCHANGED <<sent, got, replies, proto, told, timers, sockVars, loopVars, netVars>>

-----------------------------------------------------------------------------
(* Handlers run in a context, and leave their result in the variables.     *)

InOrder == [i \in 1 .. NPipes |-> i]

(* The orders a HashSet or HashMap of endpoints may be drained in. *)
Orders == {s \in [1 .. NPipes -> Eid] : \A e \in Eid : \E i \in 1 .. NPipes : s[i] = e}

(* What a handler finds when the signals b are on the bus. *)
Ctx(b, order) ==
    [p |-> proto, bus |-> b, replies |-> replies, timers |-> timers, told |-> told,
     alive |-> TRUE, order |-> order, desc |-> desc]

(* A panic unwinds the I/O thread, and nothing runs on it any more. *)
Finish(c) ==
    /\ alive' = c.alive
    /\ proto' = IF c.alive THEN c.p ELSE proto
    /\ bus' = IF c.alive THEN c.bus ELSE bus
    /\ replies' = IF c.alive THEN c.replies ELSE replies
    /\ timers' = IF c.alive THEN c.timers ELSE timers
    /\ told' = IF c.alive THEN c.told ELSE told

-----------------------------------------------------------------------------
(* The requests of the user, taken from the channel.                       *)

(* The I/O thread handles its other sources only outside process_bus.      *)
OutsideBus == alive /\ ~draining /\ Len(bus) < use.bus

TakeRequest(op) ==
    /\ chan # <<>> /\ Head(chan).op = op /\ OutsideBus
    /\ chan' = Tail(chan)

Connect ==
    /\ TakeRequest("connect")
    /\ \/ LET e == Min(Unused)
          IN  /\ Available
              /\ tp' = [tp EXCEPT ![e] = Tp!NewPipe]
              /\ opening' = opening \cup {e} /\ urls' = urls \cup {e}
              /\ desc' = [desc EXCEPT ![e] = Desc(config)]
              /\ Finish(SendReply(PushSignal(Ctx(bus, InOrder), Cmd("Open", e)), "Connect", NoMsg))
       \/ /\ Finish(SendReply(Ctx(bus, InOrder), "Err", NoMsg))
          /\ UNCHANGED <<tp, opening, urls, desc>>
    /\ UNCHANGED <<call, sent, got, draining, use, kind, config, listening, life, acc, closed, late,
                   inq, atPeer, fails, conns, written, origin>>

Bind ==
    /\ TakeRequest("bind")
    /\ \/ /\ acc = "None" /\ acc' = "New" /\ listening' = {Aid}
          /\ desc' = [desc EXCEPT ![Aid] = Desc(config)]
          /\ Finish(SendReply(PushSignal(Ctx(bus, InOrder), Cmd("Open", Aid)), "Bind", NoMsg))
       \/ /\ Finish(SendReply(Ctx(bus, InOrder), "Err", NoMsg))
          /\ UNCHANGED <<acc, listening, desc>>
    /\ UNCHANGED <<call, sent, got, draining, use, kind, config, opening, life, urls, closed, late, netVars>>

(* The protocol has taken the request over, and left this context. *)
Asks(c) ==
    /\ Finish(c)
    /\ UNCHANGED <<call, sent, got, draining, sockVars, netVars>>

SendMsg ==
    /\ TakeRequest("send")
    /\ \E o \in Orders :
          LET t == IF config.send_timeout # 0 THEN Fresh(timers, "SendTimeout") ELSE NoTimeout
          IN  Asks(HandleSend(Schedule(Ctx(bus, o), t), Head(chan).msg, Head(chan).header, t))

TrySendMsg ==
    /\ TakeRequest("try_send")
    /\ \/ /\ IsSendReady
          /\ \E o \in Orders :
                Asks(HandleSend(Ctx(bus, o), Head(chan).msg, Head(chan).header, NoTimeout))
       \/ /\ ~IsSendReady
          /\ Finish(SendReply(Ctx(bus, InOrder), "Err", NoMsg))
          /\ UNCHANGED <<call, sent, got, draining, sockVars, netVars>>

RecvMsg ==
    /\ TakeRequest("recv")
    /\ LET t == IF config.recv_timeout # 0 THEN Fresh(timers, "RecvTimeout") ELSE NoTimeout
       IN  Asks(HandleRecv(Schedule(Ctx(bus, InOrder), t), t))

TryRecvMsg ==
    /\ TakeRequest("try_recv")
    /\ \/ /\ IsRecvReady
          /\ Asks(HandleRecv(Ctx(bus, InOrder), NoTimeout))
       \/ /\ ~IsRecvReady
          /\ Finish(SendReply(Ctx(bus, InOrder), "Err", NoMsg))
          /\ UNCHANGED <<call, sent, got, draining, sockVars, netVars>>

(* Config::set, which refuses the options it has no field for. *)
ConfigSet(cfg, op, v) == IF op \in DOMAIN cfg THEN [cfg EXCEPT ![op] = v] ELSE cfg

(* The options that are accepted: the protocols refuse all but their own. *)
Accepts(op) == op \in DOMAIN config \/ (kind = "sub" /\ op \notin GenericOptions)

SetOption(op) ==
    LET c == Ctx(bus, InOrder)
        v == Head(chan).msg
    IN  /\ TakeRequest(op)
        /\ config' = ConfigSet(config, op, v)
        /\ Finish(SendReply(IF op \in GenericOptions THEN c ELSE HandleOption(c, op, v),
                            IF Accepts(op) THEN "SetOption" ELSE "Err", NoMsg))
        /\ UNCHANGED <<call, sent, got, draining, use, kind, desc, opening, listening, life, urls, acc,
                       closed, late, netVars>>

(* CreateDevice; its reply comes through the channel of the session. *)
PlugDevice ==
    /\ TakeRequest("plug")
    /\ Finish(OnDevicePlugged(Ctx(bus, InOrder)))
    /\ call' = "none"
    /\ UNCHANGED <<sent, got, draining, sockVars, netVars>>

(* remove_pipe: the pipe is the socket's or the protocol's, and is closed  *)
(* by whoever had it.                                                      *)
Knows(e) == e \in opening \cup proto.pipes

CloseIf(found, c, e) == IF found THEN CloseOn(c, e) ELSE c

Removed(c, e) ==
    IF e \in opening THEN CloseOn(c, e) ELSE CloseIf(e \in proto.pipes, RemovePipe(c, e), e)

(* close_pipe and close_acceptor. *)
CloseEndpoint ==
    LET e == Head(chan).eid
    IN  /\ TakeRequest("close_endpoint")
        /\ \/ /\ life # "gone" /\ e \in Eid
              /\ Finish(Removed(Ctx(bus, InOrder), e))
              /\ opening' = opening \ {e}
              /\ closed' = [closed EXCEPT ![e] = IF Knows(e) THEN "live" ELSE "retrying"]
              /\ UNCHANGED listening
           \/ /\ life # "gone" /\ e = Aid
              /\ Finish(IF e \in listening THEN CloseOn(Ctx(bus, InOrder), e) ELSE Ctx(bus, InOrder))
              /\ listening' = listening \ {e}
              /\ closed' = [closed EXCEPT ![e] = IF e \in listening THEN "live" ELSE "retrying"]
              /\ UNCHANGED opening
           \/ /\ life = "gone"
              /\ closed' = [closed EXCEPT ![e] = "gone"]
              /\ UNCHANGED <<replies, proto, told, timers, bus, alive, opening, listening>>
        /\ UNCHANGED <<call, sent, got, draining, use, kind, config, desc, life, urls, acc, late, netVars>>

(* Seeded fault: the pipes that are still opening are forgotten. *)
CloseOpened ==
    /\ TakeRequest("close")
    /\ \E o \in Orders :
          Finish(PushSignal(CloseAll(Ctx(bus \o [i \in 1 .. Cardinality(listening) |-> Cmd("Close", Aid)], o)),
                            Cmd("Closed", NoEid)))
    /\ opening' = {} /\ listening' = {} /\ life' = "closing"
    /\ UNCHANGED <<call, sent, got, draining, use, kind, config, desc, urls, acc, closed, late, netVars>>

(* close: the pipes of the socket, the acceptor, the pipes of the protocol *)
(* (every protocol closes its pipes in the same way).                      *)
CloseSocket ==
    /\ TakeRequest("close")
    /\ \E o \in Orders :
          LET own == SelectSeq(o, LAMBDA e : e \in opening)
              b   == bus \o [i \in DOMAIN own |-> Cmd("Close", own[i])]
                         \o [i \in 1 .. Cardinality(listening) |-> Cmd("Close", Aid)]
          IN  Finish(PushSignal(CloseAll(Ctx(b, o)), Cmd("Closed", NoEid)))
    /\ opening' = {} /\ listening' = {} /\ life' = "closing"
    /\ UNCHANGED <<call, sent, got, draining, use, kind, config, desc, urls, acc, closed, late, netVars>>

-----------------------------------------------------------------------------
(* The bus: commands for the pipes and the acceptor. *)

Take(k, e) ==
    /\ alive /\ bus # <<>>
    /\ Head(bus).kind = k /\ Head(bus).eid = e

Fails(o) == \E i \in DOMAIN o.evts : o.evts[i] = Tp!Evt("Error")

(* The bus after pipe e has raised its events. *)
Raise(b, e, evts) == b \o [i \in DOMAIN evts |-> Signal(evts[i][1], e, evts[i][2])]

(* Pipe e does one of `outcomes'; its events go to the end of the bus `b'. *)
PipeDoes(e, outcomes, b) ==
    \E o \in outcomes :
        LET out == {o.out[i] : i \in DOMAIN o.out}
        IN  /\ Fails(o) => fails < MaxFail
            /\ fails' = IF Fails(o) THEN fails + 1 ELSE fails
            /\ tp' = [tp EXCEPT ![e] = o.pipe]
            /\ inq' = [inq EXCEPT ![e] = o.inq]
            /\ bus' = Raise(b, e, o.evts)
            /\ atPeer' = IF IsAsking THEN [atPeer EXCEPT ![e] = @ \cup out] ELSE atPeer
            /\ written' = written \cup {<<e, conns[e], m>> : m \in out}
            /\ UNCHANGED <<conns, origin>>

(* process_bus goes on until the bus is empty. *)
KeepDraining == draining' = (bus' # <<>>)

Command(e, outcomes) ==
    /\ PipeDoes(e, outcomes, Tail(bus))
    /\ KeepDraining
    /\ UNCHANGED <<userVars, replies, proto, told, timers, sockVars, alive>>

PipeOpen(e) == Take("Open", e) /\ Command(e, Tp!Open(tp[e], inq[e]))

PipeClose(e) == Take("Close", e) /\ Command(e, Tp!Close(inq[e]))

PipeSend(e) == Take("Send", e) /\ Command(e, Tp!Send(tp[e], inq[e], Head(bus).msg))

PipeRecv(e) == Take("Recv", e) /\ Command(e, Tp!Recv(tp[e], inq[e], Msg))

AcceptorCommand(k, state) ==
    /\ Take(k, Aid)
    /\ acc' = state /\ bus' = Tail(bus) /\ KeepDraining
    /\ UNCHANGED <<userVars, replies, proto, told, timers, alive, netVars,
                   use, kind, config, desc, opening, listening, life, urls, closed, late>>

AcceptorOpen == AcceptorCommand("Open", "Open")

AcceptorClose == AcceptorCommand("Close", "Closed")

-----------------------------------------------------------------------------
(* The bus: events, handled by the socket and the protocol.  The events of *)
(* a socket that is gone are dropped.                                      *)

Ignore ==
    /\ life = "gone"
    /\ bus' = Tail(bus)
    /\ UNCHANGED <<replies, proto, told, timers, alive>>

Handled == KeepDraining /\ UNCHANGED <<userVars, netVars, use, kind, config, desc, listening, urls, acc, closed, late>>

(* The context of an event, and its argument. *)
EventCtx == Ctx(Tail(bus), InOrder)
EventMsg == Head(bus).msg

(* An event the protocol handles by itself, leaving the context c. *)
Event(k, e, c) ==
    /\ Take(k, e)
    /\ \/ Ignore
       \/ life # "gone" /\ Finish(c)
    /\ UNCHANGED <<opening, life>>
    /\ Handled

OnSendReady(e)    == Event("CanSend", e, HandleSendReady(EventCtx, e))
OnSendNotReady(e) == Event("CannotSend", e, HandleSendNotReady(EventCtx, e))
OnSendAck(e)      == Event("Sent", e, HandleSendAck(EventCtx, e))
OnRecvReady(e)    == Event("CanRecv", e, HandleRecvReady(EventCtx, e))
OnRecvNotReady(e) == Event("CannotRecv", e, HandleRecvNotReady(EventCtx, e))
OnRecvAck(e)      == Event("Received", e, HandleRecvAck(EventCtx, e, EventMsg))

(* Seeded fault: the pipe given to the protocol stays with the socket too. *)
OnOpenedKeepingPipe(e) ==
    /\ Take("Opened", e)
    /\ \/ Ignore
       \/ /\ life # "gone"
          /\ Finish(IF e \in opening THEN AddPipe(EventCtx, e) ELSE EventCtx)
    /\ UNCHANGED <<opening, life>>
    /\ Handled

OnOpened(e) ==
    /\ Take("Opened", e)
    /\ \/ Ignore /\ UNCHANGED opening
       \/ /\ life # "gone"
          /\ Finish(IF e \in opening THEN AddPipe(EventCtx, e) ELSE EventCtx)
          /\ opening' = opening \ {e}
    /\ UNCHANGED life
    /\ Handled

(* Seeded fault: the reconnection does not depend on what was removed. *)
OnPipeErrorAlways(e) ==
    /\ Take("Error", e)
    /\ \/ Ignore /\ UNCHANGED opening
       \/ /\ life # "gone"
          /\ Finish(Schedule(Removed(EventCtx, e), Timeout("Reconnect", e)))
          /\ opening' = opening \ {e}
    /\ UNCHANGED life
    /\ Handled

(* on_pipe_error: what the socket or the protocol gives up is closed, and  *)
(* connected again later if it has an url.                                 *)
OnPipeError(e) ==
    /\ Take("Error", e)
    /\ \/ Ignore /\ UNCHANGED opening
       \/ /\ life # "gone"
          /\ Finish(Schedule(Removed(EventCtx, e),
                             IF Knows(e) /\ e \in urls THEN Timeout("Reconnect", e) ELSE NoTimeout))
          /\ opening' = opening \ {e}
    /\ UNCHANGED life
    /\ Handled

(* accept_pipe: the priorities are those of the acceptor, or those of the  *)
(* socket if the acceptor is gone.                                         *)
AcceptedDesc == IF Aid \in listening THEN desc[Aid] ELSE Desc(config)

(* Accepted: each connection gets an endpoint, and is opened if the socket *)
(* is still there.                                                         *)
OnAccepted ==
    LET n   == Head(bus).msg
        new == {e \in Unused : Cardinality({f \in Unused : f < e}) < n}
        es  == SelectSeq(InOrder, LAMBDA e : e \in new)
    IN  /\ Take("Accepted", Aid)
        /\ tp' = [e \in Eid |-> IF e \in new THEN Tp!NewPipe ELSE tp[e]]
        /\ \/ Ignore /\ UNCHANGED <<opening, desc>>
           \/ /\ life # "gone"
              /\ bus' = Tail(bus) \o [i \in DOMAIN es |-> Cmd("Open", es[i])]
              /\ opening' = opening \cup new
              /\ desc' = [e \in DOMAIN desc |-> IF e \in new THEN AcceptedDesc ELSE desc[e]]
              /\ UNCHANGED <<replies, proto, told, timers, alive>>
        /\ late' = IF life = "open" THEN late ELSE late \cup new
        /\ KeepDraining
        /\ UNCHANGED <<userVars, use, kind, config, listening, life, urls, acc, closed,
                       inq, atPeer, fails, conns, written, origin>>

OnAcceptorError ==
    /\ Take("AcceptorError", Aid)
    /\ \/ Ignore /\ UNCHANGED listening
       \/ /\ life # "gone"
          /\ Finish(IF Aid \in listening
                    THEN Schedule(CloseOn(EventCtx, Aid), Timeout("Rebind", Aid)) ELSE EventCtx)
          /\ listening' = {}
    /\ KeepDraining
    /\ UNCHANGED <<userVars, netVars, use, kind, config, desc, opening, life, urls, acc, closed, late>>

(* Closed, the event of the socket itself: the session removes it, and     *)
(* both ends of the channel back to the user with it.                      *)
OnSocketClosed ==
    /\ Take("Closed", NoEid)
    /\ life' = "gone" /\ bus' = Tail(bus)
    /\ opening' = {} /\ listening' = {}
    /\ KeepDraining
    /\ UNCHANGED <<userVars, replies, proto, told, timers, alive, netVars,
                   use, kind, config, desc, urls, acc, closed, late>>

-----------------------------------------------------------------------------
(* Timer ticks. *)

Tick(task, n) == OutsideBus /\ Timeout(task, n) \in timers

Armed(task) == {t.n : t \in {u \in timers : u.task = task}}

(* The context of a tick: the timer is gone. *)
TickCtx(task, n) == Cancel(Ctx(bus, InOrder), Timeout(task, n))

(* A task of the protocol, which leaves the context c; for a socket that   *)
(* is gone the tick is lost.                                               *)
ProtocolTick(task, n, c) ==
    /\ Tick(task, n)
    /\ Finish(IF life = "gone" THEN TickCtx(task, n) ELSE c)
    /\ UNCHANGED <<userVars, draining, sockVars, netVars>>

SendTimeoutTick(n) ==
    ProtocolTick("SendTimeout", n, HandleSendTimeout(TickCtx("SendTimeout", n)))
RecvTimeoutTick(n) ==
    ProtocolTick("RecvTimeout", n, HandleRecvTimeout(TickCtx("RecvTimeout", n)))
TaskTick(task, n) ==
    ProtocolTick(task, n, HandleTimerTick(TickCtx(task, n), Timeout(task, n)))
ResendTick(n) == TaskTick("ReqResend", n)
SurveyTick(n) == TaskTick("SurveyCancel", n)

(* Seeded fault: the endpoint is described anew when it is connected again. *)
ReconnectTickAfresh(e) ==
    /\ Tick("Reconnect", e)
    /\ timers' = timers \ {Timeout("Reconnect", e)}
    /\ \/ /\ life = "gone"
          /\ UNCHANGED <<tp, inq, atPeer, conns, opening, bus, late, desc>>
       \/ /\ life # "gone"
          /\ desc' = [desc EXCEPT ![e] = Desc(config)]
          /\ tp' = [tp EXCEPT ![e] = Tp!NewPipe]
          /\ inq' = [inq EXCEPT ![e] = <<>>]
          /\ atPeer' = [atPeer EXCEPT ![e] = {}]
          /\ conns' = IF IsAnswering THEN [conns EXCEPT ![e] = @ + 1] ELSE conns
          /\ opening' = opening \cup {e}
          /\ bus' = Append(bus, Cmd("Open", e))
          /\ late' = IF life = "open" THEN late ELSE late \cup {e}
    /\ UNCHANGED <<userVars, replies, proto, told, draining, alive,
                   use, kind, config, listening, life, urls, acc, closed, fails, written, origin>>

(* reconnect: a failure arms the same timer again, which changes nothing. *)
ReconnectTick(e) ==
    /\ Tick("Reconnect", e)
    /\ timers' = timers \ {Timeout("Reconnect", e)}
    /\ \/ /\ life = "gone"
          /\ UNCHANGED <<tp, inq, atPeer, conns, opening, bus, late>>
       \/ /\ life # "gone"
          /\ tp' = [tp EXCEPT ![e] = Tp!NewPipe]
          /\ inq' = [inq EXCEPT ![e] = <<>>]
          /\ atPeer' = [atPeer EXCEPT ![e] = {}]
          /\ conns' = IF IsAnswering THEN [conns EXCEPT ![e] = @ + 1] ELSE conns
          /\ opening' = opening \cup {e}
          /\ bus' = Append(bus, Cmd("Open", e))
          /\ late' = IF life = "open" THEN late ELSE late \cup {e}
    /\ UNCHANGED <<userVars, replies, proto, told, draining, alive,
                   use, kind, config, desc, listening, life, urls, acc, closed, fails, written, origin>>

(* rebind, likewise. *)
RebindTick ==
    /\ Tick("Rebind", Aid)
    /\ timers' = timers \ {Timeout("Rebind", Aid)}
    /\ \/ life = "gone" /\ UNCHANGED <<acc, listening, bus>>
       \/ /\ life # "gone"
          /\ acc' = "New" /\ listening' = {Aid}
          /\ bus' = Append(bus, Cmd("Open", Aid))
    /\ late' = IF life = "closing" THEN late \cup {Aid} ELSE late
    /\ UNCHANGED <<userVars, replies, proto, told, draining, alive, netVars,
                   use, kind, config, desc, opening, life, urls, closed>>

-----------------------------------------------------------------------------
(* I/O readiness and the peers. *)

IoStep(e, outcomes) ==
    /\ PipeDoes(e, outcomes, bus)
    /\ UNCHANGED <<userVars, replies, proto, told, timers, sockVars, draining, alive>>

HandshakeStep(e) ==
    /\ tp[e].state \in {"HandshakeTx", "HandshakeRx"} /\ OutsideBus
    /\ IoStep(e, Tp!HandshakeReady(tp[e], inq[e]))

(* Readiness the kernel may report: data or the end of the stream to read, *)
(* and, unless it is withdrawn, what it reported before and nobody used.   *)
PipeReady(e) ==
    /\ tp[e].state = "Active" /\ OutsideBus
    /\ \E readable, writable, hup \in BOOLEAN :
        /\ readable => inq[e] # <<>> \/ hup
        /\ ~use.rough => /\ tp[e].canRecv => readable
                         /\ tp[e].canSend => writable
        /\ IoStep(e, Tp!Ready(tp[e], inq[e], readable, writable, hup, Msg))

(* TcpAcceptor::accept takes every connection that waits, n of them, and   *)
(* goes on after an error; the errors, which count as one failure, are     *)
(* raised before what was accepted.                                        *)
AcceptorReady ==
    /\ acc = "Open" /\ OutsideBus
    /\ \E n, errors \in 0 .. 2 :
        /\ n + errors > 0
        /\ n + Promised \leq Cardinality(Unused)
        /\ errors > 0 => fails < MaxFail
        /\ fails' = IF errors > 0 THEN fails + 1 ELSE fails
        /\ bus' = bus \o [i \in 1 .. errors |-> Cmd("AcceptorError", Aid)]
                      \o (IF n > 0 THEN <<Signal("Accepted", Aid, n)>> ELSE <<>>)
        /\ UNCHANGED <<userVars, replies, proto, told, timers, sockVars, draining, alive,
                       tp, inq, atPeer, conns, written, origin>>

Arrives(e, m) ==
    /\ alive /\ tp[e].state = "Active" /\ Len(inq[e]) < MaxWire
    /\ inq' = [inq EXCEPT ![e] = Append(@, m)]
    /\ UNCHANGED <<userVars, replies, proto, told, timers, sockVars, loopVars,
                   tp, fails, conns, written>>

PeerReplies(e) ==
    \E m \in atPeer[e] :
        /\ Arrives(e, m)
        /\ atPeer' = [atPeer EXCEPT ![e] = @ \ {m}]
        /\ UNCHANGED origin

PeerSends(e) ==
    /\ kind \in {"pull", "pair", "bus", "sub", "rep", "resp"} /\ Len(origin) < use.ins
    /\ Arrives(e, Len(origin) + 1)
    /\ origin' = Append(origin, <<e, conns[e]>>)
    /\ UNCHANGED atPeer

(* A message too short for its header; it is numbered as the others are. *)
PeerSendsMalformed(e) ==
    /\ use.rough /\ kind \in {"req", "rep", "surv", "resp"} /\ Len(origin) < use.ins
    /\ Arrives(e, NoMsg)
    /\ origin' = Append(origin, <<NoEid, 0>>)
    /\ UNCHANGED atPeer

-----------------------------------------------------------------------------
UserStep ==
    \/ alive /\ call = "none" /\ \E r \in Requests : Call(r)
    \/ \E e \in Handed : CallCloseEndpoint(e)
    \/ Return \/ Disconnected

RequestStep ==
    \/ Connect \/ Bind \/ SendMsg \/ TrySendMsg \/ RecvMsg \/ TryRecvMsg
    \/ \E op \in Options : SetOption(op)
    \/ PlugDevice \/ CloseEndpoint \/ CloseSocket

CommandStep(e) == PipeOpen(e) \/ PipeClose(e) \/ PipeSend(e) \/ PipeRecv(e)

EventStep(e) ==
    \/ OnOpened(e) \/ OnSendReady(e) \/ OnSendNotReady(e) \/ OnSendAck(e)
    \/ OnRecvReady(e) \/ OnRecvNotReady(e) \/ OnRecvAck(e) \/ OnPipeError(e)

AcceptorStep == AcceptorOpen \/ AcceptorClose \/ OnAccepted \/ OnAcceptorError

BusStep ==
    /\ bus # <<>>
    /\ (\E e \in Eid : CommandStep(e) \/ EventStep(e)) \/ AcceptorStep \/ OnSocketClosed

TimerStep ==
    \/ \E n \in Armed("SendTimeout") : SendTimeoutTick(n)
    \/ \E n \in Armed("RecvTimeout") : RecvTimeoutTick(n)
    \/ \E n \in Armed("ReqResend") : ResendTick(n)
    \/ \E n \in Armed("SurveyCancel") : SurveyTick(n)
    \/ \E e \in Armed("Reconnect") : ReconnectTick(e)
    \/ RebindTick

Next ==
    \/ UserStep \/ RequestStep \/ BusStep \/ TimerStep \/ AcceptorReady
    \/ \E e \in Eid : HandshakeStep(e) \/ PipeReady(e)
    \/ \E e \in Eid : PeerReplies(e) \/ PeerSends(e) \/ PeerSendsMalformed(e)

Spec == Init /\ [][Next]_vars

(* I/O that works: fairness must not make a connection break. *)
Unbroken(A) == A /\ fails' = fails

(* Each round of the event loop serves every source that is ready: a       *)
(* request, a timer or an I/O event is not passed over forever, although   *)
(* it has to wait each time for the bus to be drained.  The peers answer,  *)
(* and a user whose reply has come takes it.  Nothing makes the user call, *)
(* a peer speak first, a message be sent again or the I/O fail.            *)
Fairness ==
    /\ WF_vars(Return) /\ WF_vars(Disconnected) /\ WF_vars(BusStep)
    /\ SF_vars(RequestStep)
    /\ \A e \in Eid : /\ SF_vars(ReconnectTick(e)) /\ SF_vars(Unbroken(HandshakeStep(e)))
                      /\ SF_vars(Unbroken(PipeReady(e))) /\ WF_vars(PeerReplies(e))

FairSpec == Spec /\ Fairness

-----------------------------------------------------------------------------
(* The state of the protocol. *)

StateIn(names) == proto.state.name \in names
StateIs(name, e) == proto.state.name = name /\ proto.state.eid = e

IsWaitingToSend == StateIn({"Sending", "SendOnHold"}) /\ ~proto.state.retry
IsWaitingToRecv == StateIn({"Receiving", "RecvOnHold"})

Wants(op) ==
    CASE op = "connect" -> "Connect" [] op = "bind" -> "Bind"
      [] op \in {"send", "try_send"} -> "Send" [] op \in {"recv", "try_recv"} -> "Recv"
      [] OTHER -> "SetOption"

(* The I/O thread has taken the request of the call. *)
IsTaken == call \notin {"none", "done"} /\ \A i \in DOMAIN chan : chan[i].op # call

TimeoutType == [task : {"None", "SendTimeout", "RecvTimeout", "ReqResend", "SurveyCancel",
                        "Reconnect", "Rebind"}, n : Nat]

DescType == [send_priority : Levels \cup {8}, recv_priority : Levels \cup {8}]

ConfigType == [send_timeout : {0, 1}, recv_timeout : {0, 1},
               send_priority : Levels \cup {8}, recv_priority : Levels \cup {8}]

HeaderType == [eid : Eid \cup {NoEid}, msg : Msg]

ReplyType == [kind : {"None", "Connect", "Bind", "Send", "Recv", "SetOption", "Err"},
              msg : Msg, header : HeaderType]

SignalType == [kind : {"Open", "Close", "Send", "Recv", "Opened", "CanSend", "CannotSend",
                       "Sent", "CanRecv", "CannotRecv", "Received", "Error",
                       "Accepted", "AcceptorError", "Closed"},
               eid : Eid \cup {NoEid, Aid}, msg : Msg \cup 0 .. 2]

(* The state has the types of the code, and a pipe is owned either by the  *)
(* socket, which waits for it to open, or by the protocol, never by both.  *)
TypeOK ==
    /\ use \in Settings /\ kind \in use.kinds
    /\ config \in ConfigType /\ desc \in [Eid \cup {Aid} -> DescType]
    /\ proto.pipes \subseteq Eid /\ opening \subseteq Eid \ proto.pipes
    /\ proto.state \in [name : StateNames, eid : Eid \cup {NoEid}, msg : Msg,
                        timeout : TimeoutType, retry : BOOLEAN, pending : TimeoutType]
    /\ call \in AllOps \cup {"none", "done"}
    /\ \A i \in DOMAIN chan : chan[i].op \in use.ops
    /\ replies \in Seq(ReplyType) /\ got \in ReplyType
    /\ listening \subseteq {Aid} /\ life \in {"open", "closing", "gone"}
    /\ timers \subseteq TimeoutType /\ told \in [send : BOOLEAN, recv : BOOLEAN]
    /\ bus \in Seq(SignalType) /\ draining \in BOOLEAN /\ alive \in BOOLEAN
    /\ tp \in [Eid -> Tp!PipeType(Msg)] /\ inq \in [Eid -> Seq(Msg)]
    /\ acc \in {"None", "New", "Open", "Closed"} /\ urls \subseteq Eid
    /\ atPeer \in [Eid -> SUBSET Msg] /\ fails \in 0 .. MaxFail /\ sent \in 0 .. MaxSend
    /\ conns \in [Eid -> 0 .. MaxFail] /\ origin \in Seq((Eid \cup {NoEid}) \X (0 .. MaxFail))
    /\ written \subseteq Eid \X (0 .. MaxFail) \X Msg
    /\ closed \in [Eid \cup {Aid} -> {"no", "live", "retrying", "gone"}] /\ late \subseteq Eid \cup {Aid}

(* No peer has sent a message without a header so far.  Such a message is  *)
(* reported to the user while the receive goes on, so that from then on    *)
(* replies come out of turn.                                               *)
IsTidy == \A i \in DOMAIN origin : origin[i][1] # NoEid

(* A reply in the channel answers the call the user is blocked in, there   *)
(* is one at most, and the protocol no longer works on that call: no       *)
(* handler of the I/O thread replies twice or out of turn, which would     *)
(* shift every later reply to the wrong call (facade's execute_request     *)
(* pairs them only by their order).                                        *)
RepliesInTurn ==
    IsTidy /\ replies # <<>> =>
        /\ Len(replies) = 1 /\ IsTaken /\ call # "close"
        /\ Head(replies).kind \in {Wants(call), "Err"}
        /\ alive => ~IsWaitingToSend /\ ~IsWaitingToRecv

(* While the user is blocked and nothing is on its way back, the state of  *)
(* the protocol still stands for the call: no handler drops a call without *)
(* a reply, whatever pipe fails under it.                                  *)
NoCallForgotten ==
    alive /\ life # "gone" /\ IsTaken /\ replies = <<>> =>
        \/ Wants(call) = "Send" /\ IsWaitingToSend
        \/ Wants(call) = "Recv" /\ IsWaitingToRecv
        \/ call = "close"

(* A pipe has written message m entirely. *)
IsWritten(m) == \E w \in written : w[3] = m

(* What recv returns is what the socket asked for: the reply or response   *)
(* to the last request or survey, which did leave, or a message about a    *)
(* topic the socket subscribes to.  Answers to older requests and surveys  *)
(* and other topics are skipped without the user seeing them.              *)
DeliveredIsWanted ==
    \A i \in DOMAIN replies :
        replies[i].kind = "Recv" =>
            /\ IsAsking /\ ~IsDevice =>
                  replies[i].msg = proto.seq /\ IsWritten(proto.seq)
            /\ kind = "sub" => proto.subscriptions \cap Prefixes[replies[i].msg] # {}

(* The message of the current send, as it is on the wire. *)
Asked ==
    CASE kind = "req" /\ ~IsDevice -> proto.seq
      [] IsAnswering               -> got.msg
      [] OTHER                     -> sent

(* send returns Ok only after a pipe has written that very message, unless *)
(* the protocol broadcasts or drops by design: the acknowledgement of an   *)
(* older message never stands for it.                                      *)
SendAckMeansWritten ==
    \A i \in DOMAIN replies :
        /\ IsTidy /\ replies[i].kind = "Send"
        /\ kind \in {"push", "pair", "req", "rep", "resp"} /\ (IsAnswering => ~IsDevice)
        => IsWritten(Asked)

(* A reply or response is written to the endpoint its request came on,     *)
(* whatever was received, or failed, in between.  If the endpoint was      *)
(* accepted, it goes to that very connection or nowhere.  An endpoint that *)
(* was connected keeps its id when it is connected again: the reply to a   *)
(* request of the connection that failed then goes to the new one.         *)
ReplyGoesToRequester ==
    IsAnswering =>
        \A w \in written :
            /\ w[3] \in DOMAIN origin /\ origin[w[3]][1] = w[1]
            /\ w[1] \notin urls => origin[w[3]][2] = w[2]

(* A socket that has received a request and not answered it knows whom to  *)
(* answer.                                                                 *)
ActiveKnowsRequester ==
    IsAnswering /\ ~IsDevice /\ StateIn({"Active"}) => proto.backtrace # NoHeader

(* An armed send or receive timeout is the one the protocol holds for the  *)
(* current call; none outlives its call to hit a later one.                *)
TimeoutsBelongToCall ==
    alive /\ IsTidy =>
        \A t \in timers :
            t.task \in {"SendTimeout", "RecvTimeout"} => t = proto.state.timeout

(* A request that was sent and not answered has its resend timer armed.    *)
PendingRequestIsTimed ==
    kind = "req" /\ ~IsDevice /\ StateIn({"Active", "Receiving", "RecvOnHold"}) =>
        proto.state.pending \in timers

(* A response is given to the user only while the deadline of its survey   *)
(* has not expired.  (A deadline that expires afterwards, with the         *)
(* response on its way to the user, ends the survey.)                      *)
ResponseIsInTime ==
    kind = "surv" /\ ~IsDevice /\ StateIn({"Active"}) =>
        \A i \in DOMAIN replies : replies[i].kind = "Recv" => proto.state.pending \in timers

(* An operation is never started on a pipe while another one of the same   *)
(* direction is in progress.                                               *)
NoOverlappingOperation == \A e \in Eid : ~tp[e].overlap

(* The pipes the protocol takes to be ready for a message. *)
Offered ==
    CASE kind \in {"push", "req"} ->
            {proto.lb.items[i].value : i \in {j \in DOMAIN proto.lb.items : proto.lb.items[j].active}}
      [] kind \in {"bus", "pub", "surv"} -> proto.bc
      [] kind \in {"rep", "resp"} -> proto.sd
      [] kind = "pair" -> IF proto.send_ready THEN proto.pipes ELSE {}
      [] OTHER -> {}

(* A protocol takes a pipe to be ready only if it is not in the middle of  *)
(* a message, or has failed with the error still on the bus.               *)
OfferedPipesAreFree ==
    \A e \in Offered : ~tp[e].sending \/ tp[e].state = "Dead"

(* The user never sets a receive timeout. *)
IsPatient == "recv" \notin use.timeouts /\ "recv_timeout" \notin use.ops

(* A message taken off the stream is handed to the receive that waits for  *)
(* it: while no receive times out and the user does not close the          *)
(* endpoint, no message is thrown away.                                    *)
NoMessageDropped ==
    \A e \in Eid :
        IsPatient /\ IsTidy /\ Take("Received", e) /\ life = "open" /\ closed[e] = "no"
        => StateIs("Receiving", e)

(* Probes and devices are told of every change of readiness, in the order  *)
(* it happens: what they were told last is what the socket would answer    *)
(* now.  A RESPONDENT socket repeats good news that may be stale.          *)
ReadinessReported ==
    alive /\ life = "open" /\ ~IsDevice =>
        /\ IsSendReady = told.send
        /\ IsRecvReady => told.recv
        /\ kind # "resp" => (told.recv => IsRecvReady)

(* An endpoint the user has closed never comes back, whatever its pipe had *)
(* raised before, provided it was not waiting to be connected again.       *)
ClosedEndpointStaysClosed ==
    life # "gone" =>
        /\ \A e \in Eid : closed[e] = "live" => ~Knows(e) /\ Timeout("Reconnect", e) \notin timers
        /\ closed[Aid] = "live" => Aid \notin listening

(* When the socket is gone and the bus is empty, every connection and the  *)
(* acceptor it had when it was asked to close are closed.                  *)
CloseReleasesPipes ==
    life = "gone" /\ alive /\ bus = <<>> =>
        /\ \A e \in Eid \ late : tp[e].state \in {"None", "Dead"}
        /\ Aid \notin late => acc \in {"None", "Closed"}

(* The priorities at which pipe e is in one of the lists of the protocol. *)
Listed(list, e) ==
    IF list \notin DOMAIN proto THEN {}
    ELSE {proto[list].items[i].priority :
              i \in {j \in DOMAIN proto[list].items : proto[list].items[j].value = e}}

(* An endpoint is served at the priorities that were configured when it    *)
(* was connected, also after it was connected again, whatever the user has *)
(* configured since: set_send_priority and set_recv_priority speak of the  *)
(* endpoints subsequently added.                                           *)
EndpointKeepsPriority ==
    [][\A e \in urls : /\ desc'[e] = desc[e]
                       /\ Listed("lb", e)' \subseteq {desc[e].send_priority}
                       /\ Listed("fq", e)' \subseteq {desc[e].recv_priority}]_vars

(* A blocking send on a socket with endpoints returns, even if the         *)
(* connection breaks under it: the message goes to the next pipe that is   *)
(* ready, at the latest the one that has reconnected.  Only the reply to a *)
(* requester whose connection broke is held, until the send times out.     *)
SendReturns == call = "send" ~> call # "send" \/ (IsAnswering /\ fails > 0)

(* Something the current or next receive can return is under way. *)
IsExpected ==
    CASE kind = "req"  -> TRUE
      [] kind = "surv" -> \E e \in Eid : proto.seq \in atPeer[e]
      [] kind = "sub"  -> \E e \in Eid : \E i \in DOMAIN inq[e] : SubP!Accept(proto, inq[e][i])
      [] OTHER         -> \E e \in Eid : inq[e] # <<>>

(* A blocking recv returns as long as no connection breaks and there is    *)
(* something to receive.                                                   *)
RecvReturns == call = "recv" /\ IsExpected ~> call # "recv" \/ fails > 0

=============================================================================
