# A TLA+ model of scaproust

scaproust is a Rust implementation of the nanomsg scalability protocols. This
directory holds a TLA+ model of it: sockets of all ten protocols from the user's
call down to the pipes, the priority list that chooses a pipe, the framing of
messages on TCP and IPC streams, and the probes, devices and shutdown of a session.
TLC checks the modules on small instances; TLAPS proves theorems about the priority
list, the framing and the bus for every instance. Paths below are relative to
`src/src/`.

## The system

| part | files | what makes it hard | module |
|---|---|---|---|
| facade | `facade/socket.rs`, `endpoint.rs` | replies are matched to calls by their order only | `Socket` |
| reactor | `reactor/*.rs` | commands to pipes and events of pipes share one queue, requests overtake it; the queue wakes the loop once | `Socket`, `Session` |
| socket | `core/socket.rs`, `endpoint.rs` | timeouts, reconnection racing close | `Socket` |
| protocols | `proto/*.rs` | late acknowledgements and answers, loss of a pipe under a call | `Push` `Pull` `Pair` `Bus` `Pub` `Sub` `Req` `Rep` `Surv` `Resp` |
| pipe collection, policies, context | `proto/pipes.rs`, `policy.rs`, `core/context.rs` | readiness is told by changes only | `Context` |
| priority list | `proto/priolist.rs` | an index kept across `swap_remove` | `PriolistOps`, `Priolist`, `ReadySet` |
| pipe | `transport/async/**` | one operation at a time, hang-ups | `AsyncPipe` |
| framing | `transport/tcp`, `transport/ipc` | partial reads and writes, empty parts | `Framing`, `Channel` |
| session, probe, device | `core/session.rs`, `probe.rs`, `device.rs`, `facade/…` | stale readiness, votes against the timeout, threads at shutdown | `Session` |

A user call is a request on a channel. The single I/O thread takes one thing at a
time from its sources: a request, a timer tick or an I/O event. Handling it may put
commands for pipes and events of pipes on the bus, and `process_bus` runs until the
bus is empty. The user thread waits for one reply.

`PROJECT.json` lists the parts with their status, the lines each definition models,
and the hazards with the lines at which they bite.

Operators marked "Seeded fault" are used by no specification: each is a plausible
mistake in the definition below it, and shows that a property notices that mistake.
The `MC…` modules and the `.cfg` files are the instances for TLC.

## Modules

### PriolistOps, Priolist, ReadySet

`PriolistOps` has the operations of `priolist.rs` as operators on `[items, current]`,
with indices from 1. `Priolist` drives one list as the protocols do; `popped` is what
the last operation returned, `panicked` that a pop indexed past the end. `Removable`
is the set of endpoints that may be removed, so that promises that hold only without
removals can be stated. `ReadySet` is what the list promises: a set of known
endpoints, some ready, of which a pop takes a most urgent ready one.

### Context and the protocols

A handler of a protocol is an operator from context to context. A context is the
protocol (`c.p`: the fields of its `Inner` and its `state`) and what it may change
around it: bus, reply channel, timers, the readiness last told, and whether the
thread has panicked. The methods of the trait `Protocol` are `AddPipe`, `RemovePipe`,
`HandleSend`, `HandleSendAck`, `HandleSendTimeout`, `HandleSendReady`,
`HandleSendNotReady`, their receiving counterparts, `HandleOption`, `HandleTimerTick` and
`OnDevicePlugged`; a protocol module defines those that do something, in terms of the
transitions of its state, and `Socket` chooses the module by `kind`. `close` is the same
for all of them (`CloseAll`). Each handler keeps
the order of the commands and replies of the code, because they share the bus.
`HashSet` and `HashMap` are drained in any order (`Orders`).

A message the user sends is its number, a message of a peer the number of that
message over all peers. A request id or survey id is that of the request (`proto.seq`);
a backtrace is the pipe and the request it came from. A subscription is a model value,
and `Prefixes` says which of them each message starts with.

### AsyncPipe

A pipe at the grain of whole messages: each operator gives the outcomes a call may
have. A read or write completes, waits or fails. A pending operation that is given
up for another may have moved part of its message; the stream is then `torn`: a torn
input yields anything, a torn output nothing. That a pipe moves messages whole when
its operations are not given up is what `Framing` shows. A handshake is taken to be read
in one piece here; what one read in part does is in `Framing`.

### Socket

| variable | code |
|---|---|
| `call`, `chan`, `replies` | the blocked call of the user thread, its request in the channel, the reply channel |
| `kind`, `proto` | `Box<dyn Protocol>` |
| `config`, `desc` | `Socket::config`, the `EndpointDesc` of each endpoint |
| `opening`, `listening`, `urls` | `Socket::pipes`, `Socket::acceptors`, the endpoints that have an url |
| `timers`, `told` | the timeouts armed in the adapter's schedule, the last `CanSend` and `CanRecv` |
| `bus`, `draining`, `alive` | the dispatcher's bus, "inside `process_bus`", "the thread has not panicked" |
| `tp`, `acc` | the pipe of each endpoint, the acceptor |
| `life` | open, closing (`Closed` is on the bus), gone |
| `inq`, `atPeer` | external: what is in the streams, what the peers have read |
| `conns`, `origin`, `written`, `closed`, `late` | history |
| `use`, `sent`, `got`, `fails` | how the socket is used, and the counters of the bounds |

Every handler is one action. Requests: `Connect`, `Bind`, `SendMsg`, `TrySendMsg`,
`RecvMsg`, `TryRecvMsg`, `SetOption`, `PlugDevice`, `CloseEndpoint`, `CloseSocket`.
Commands: `PipeOpen`, `PipeClose`, `PipeSend`, `PipeRecv`, `AcceptorOpen`,
`AcceptorClose`. Events: `OnOpened` to `OnPipeError`, `OnAccepted`, `OnAcceptorError`,
`OnSocketClosed`. Timers: the `…Tick` actions. I/O: `HandshakeStep`, `PipeReady`,
`AcceptorReady`. An action includes what its handler calls: `OnPipeError` removes the
pipe from socket, protocol and lists, lets the protocol move its message to another
pipe, closes the pipe and arms the reconnection.

An `Endpoint` is a handle of its own: `CallCloseEndpoint` may happen at any time from the
moment the user has the handle, also while a call on the socket blocks.

`schedule` (`reactor/adapter.rs:379`, `525`) only inserts a timer and always returns `Ok`, so
the branches for its failure (`core/socket.rs:366`, `420`, `core/probe.rs:78`) cannot be
taken, and `SendMsg`, `RecvMsg` and `Poll` have none.

A timer may tick at any time after it is armed. The peers of REQ and SURVEYOR sockets
answer each question at most once, in any order, or never; the others send when they
like. A failed attempt to reconnect only arms the same timer again and is left out.

### Framing, Channel

The handshake, `SendOperation` and `RecvOperation` of both transports, step by step,
between a sender and a receiver, over a stream of at most `Capacity` bytes. A byte
is `<<m, i>>`, the i-th byte of message m, or `<<0, i>>` for the handshake; `Value` is what it
holds. The kernel takes and gives any number of bytes at a time. `put` is history: how many
bytes of the last message, or of the handshake, have left.

`recv_and_check_handshake` makes one read into a zeroed buffer, ignores how many bytes it
got and compares the whole buffer. The last two bytes of a handshake are zero, so a read
of 6 or 7 bytes passes, and the rest of the handshake stays in front of the first message,
where every later length is read at the wrong place. The history variable `skew` is the
number of bytes left behind. `Channel` is what a connection promises the pipes: messages
come out whole, once and in order, unless it is broken (`Break`) before it has delivered
anything; a broken one promises nothing. `Framing` maps `intact` to `skew = 0`.

### Session

The probes with their votes, the maps from sockets to probes, the device of a bridge,
the bus with its edge-triggered readiness, the end of the event loop, and the threads:
the owner of the session, a user per probe, the thread of the bridge. A socket is what
`Socket` shows of it: it tells changes of readiness (`ReadinessReported`) and serves one
call at a time (`RepliesInTurn`, `NoCallForgotten`). A call that finds its socket
ready is served; otherwise it is held. Joining a device may make a socket ready with
no event (`untold`).

## Runs

`CHECK_DEADLOCK FALSE` everywhere but in `priolist_stable`: a send on a socket with no
endpoint waits forever, a session or stream may be done, a panic ends a list.

| run | instance | distinct states |
|---|---|---|
| `priolist` | 4 endpoints, 2 priorities, all removable | |
| `priolist_stable` | 3 endpoints, 2 priorities, none removable, fair | 1 159 |
| `sockets_calls` | every protocol. 1 endpoint, 2 sends, send timeout, blocking and non-blocking calls, subscriptions, 1 failure; PUSH, REQ, REP also with a send timeout set and unset between calls; REQ, REP, SURVEYOR, RESPONDENT also with malformed messages, withdrawn readiness and in a device; BUS, SUB, SURVEYOR, REP also with a receive timeout. 2 endpoints, 1 failure, for all but BUS and SUB: a receive timeout for PUSH, PULL, PAIR, PUB, REQ, RESPONDENT, set and unset between calls for PULL; accepted connections for REP, with a request each, and RESPONDENT | 684 000 |
| `sockets_endpoints` | every protocol, 1 endpoint, connect and bind, 1 failure, closing the endpoint and the socket at any time, blocked calls included, with 2 signals waiting for PUSH, PAIR, PUB, REP; PUSH and PULL also with 2 priorities configured at any time | 764 000 |
| `sockets_fair` | every protocol, 1 endpoint, blocking calls, 1 failure, fair | 12 000 |
| `session` | 2 sockets, 2 probes that share one, a bridge between them, 3 scenes, fair | 198 000 |
| `framing` | headers of 8 and 9 bytes, 5 messages with all combinations of empty parts, the last too long, 12 bytes in flight, fair | 10 800 |

What they check:

- one reply per call, of the right kind, while it is pending (`RepliesInTurn`,
  `NoCallForgotten`); a send that returned was written (`SendAckMeansWritten`); recv
  returns an answer to the last question, never to an older one, or a topic subscribed to
  (`DeliveredIsWanted`); no timeout outlives its call (`TimeoutsBelongToCall`);
- operations of a pipe do not overlap (`NoOverlappingOperation`); pipes taken to be ready
  are not in the middle of a message (`OfferedPipesAreFree`); what is taken off a
  stream is not thrown away (`NoMessageDropped`);
- an answer goes to the endpoint its question came on, and to the very connection if that
  was accepted (`ReplyGoesToRequester`), and a socket that owes an answer knows to whom
  (`ActiveKnowsRequester`);
- probes and devices are told of changes of readiness (`ReadinessReported`); votes are
  current or about to be (`VotesAreCurrent`); a bridge never sleeps on a ready socket
  (`BridgeIsWoken`); a poll is answered once, by the votes or by the timeout
  (`PollRepliesInTurn`);
- a closed endpoint stays closed (`ClosedEndpointStaysClosed`), a closed socket closes all
  its pipes (`CloseReleasesPipes`), dropping the session lets every thread go
  (`DropReleasesThreads`);
- an endpoint keeps the priorities it was connected with, also when it is connected again
  after others were configured (`EndpointKeepsPriority`);
- signals do not wait on a bus nobody looks at (`BusIsReported`);
- a send operation resumes at the byte it stopped at (`SendPositionIsExact`), messages
  arrive whole, once, in order (`ImplementsChannel`) and all of them
  (`EveryMessageArrives`);
- a ready endpoint is never forgotten (`NoReadyItemForgotten`), the most urgent comes
  first (`CurrentIsMostUrgent`), none is stored twice (`NoDuplicates`), and, without
  removals, a pop takes a ready one (`StableCurrentIsActive`, `ImplementsReadySet`) and
  none is starved (`EveryReadyItemIsServed`);
- blocking calls return (`SendReturns`, `RecvReturns`).

Bounds. Two sends are the least for an acknowledgement or an answer to be late; two
endpoints the least for it to come from another pipe, for two requesters, and for the
dangling current item; one failure is enough to lose a pipe in every state of a call.
`use.pipes`, `use.sends` and `use.ins` bound the endpoints and the messages of each way of
using a socket, `use.bus` and `MaxBus` how much may pile up before the bus is served (the code
serves it every round of the event loop); a handler may exceed them. BUS and SUB
have one endpoint only: what a second one adds, they share with PUB and PULL. Two probes on one
socket are the least for their mappings to collide. `ConnectFirst` removes the
interleavings of connecting with other calls, which `sockets_endpoints` covers. In
`framing` 12 bytes are more than one header and less than two messages, so that reads
and writes are cut inside every part.

Fairness. `WF` of `BusStep`: `process_bus` loops until the bus is empty. `SF` of
requests, handshakes, readiness, reconnection and the end of the loop: each round of
the event loop serves every source that is ready, but each has to wait for the bus to
be drained, so it is enabled again and again and not continuously. Peers answer what
they have read; threads take replies that are there, and the bridge, which loops, goes
on. In `Framing` the handshake takes place, operations are resumed, and the kernel does not refuse to move bytes
forever. Nothing forces a user to call, a peer to speak first, a timer to tick (but
reconnection) or I/O to fail: fairness of handshakes and readiness is only of the
steps that do not fail (`Unbroken`), so that a recv cannot return because fairness broke
the connection.

What is not claimed, and why:

- A malformed message is reported to the user while the receive goes on and its timeout
  stays armed, so replies are out of turn from then on. `RepliesInTurn`,
  `SendAckMeansWritten`, `TimeoutsBelongToCall` and `NoMessageDropped` hold until the first
  one (`IsTidy`).
- With a receive timeout and several requests, receive operations of a REQ socket
  overlap (finding 2), and the stream may then yield anything: with a receive timeout
  `sockets_calls` has one request only. A message whose receive has timed out is thrown
  away, so `NoMessageDropped` is about users that set no receive timeout (`IsPatient`).
- An endpoint the user connected keeps its id when it is connected again. The reply to a
  request of the connection that failed is then sent on the one that has replaced it
  (`rep.rs:196`): `ReplyGoesToRequester` promises the endpoint, and the connection only for
  endpoints that were accepted, which are never connected again.
- `DeliveredIsWanted` is about answers to older questions. A response to the last survey is
  delivered even after its deadline, if that expired during a recv (finding 4).
- `RecvReturns` ends with the first broken connection: the answer went with it. A reply
  of a REP or RESPONDENT socket to a connection that broke is held until the send times
  out: `SendReturns` excepts it.
- A connection accepted by an acceptor that has failed or was closed since takes the
  priorities configured at that time (`core/socket.rs:312`): `EndpointKeepsPriority` is
  about endpoints the user connected.
- A reconnection that is scheduled when the user closes the endpoint still happens
  (TODO at `core/socket.rs:177`); `ClosedEndpointStaysClosed` is about endpoints that
  were not waiting to be reconnected. Pipes made by a tick or an accepted connection
  between the request to close the socket and its `Closed` event (`late`) are excepted
  from `CloseReleasesPipes`.
- Requests overtake the bus, so `try_send` and `try_recv` may decide on stale readiness and
  then wait; they are answered as the blocking calls are.
- A RESPONDENT socket may tell `CanRecv(true)` again when it is no longer so, and joining a
  device changes readiness with no event: `ReadinessReported` excepts both.
- Of two probes on one socket only the one added last gets its events (and none after
  either is dropped); the other is answered by its timeout.
- After an error the thread of a bridge waits in `Bridge::drop` until the session is
  dropped, because the request to close a device is ignored. `DropReleasesThreads` is
  about the dropping of the session.
- A handshake that is written in part, or of which fewer than 6 bytes are read at first,
  fails the connection, which is opened again later. One of which 6 or 7 bytes are read
  passes, and what the connection then delivers is not claimed: `ImplementsChannel` maps it
  to a broken channel, `EveryMessageArrives` excepts it (`skew > 0`), and `Socket` assumes
  that it does not happen.
- A priority above 16 (`config.rs:101`) is outside the assumptions; ids do not wrap around;
  the controllers of closed pipes that stay registered (`dead.rs:22`) grow over a run longer
  than a bounded model has. These hazards have no property.

## What the violations show

1. `priolist_remove` (`CurrentIsActive`): `remove_at_index` uses `swap_remove` and
   recomputes `current` only if the removed item was the current one. `current` may then
   name an inactive item, or an index past the end on which the next `pop` panics.
   `NoReadyItemForgotten` and `CurrentIsMostUrgent` survive even so.
2. `req_overlap` (`NoOverlappingOperation`): a recv that times out leaves its operation
   pending in the pipe; the recv of the next request starts another on the same stream.
3. `req_resend` (`PendingRequestIsTimed`): a resend tick that arrives during a recv is
   dropped and the timer is not armed again, so that request is not resent.
4. `surv_deadline` (`ResponseIsInTime`): a deadline that expires during a recv is ignored
   and never comes again, so responses that arrive after it are delivered, although the
   option promises a `TimedOut` error and that they are dropped.
5. `rep_late_ack` (`ActiveKnowsRequester`): `on_send_ack` of a REP socket clears the
   backtrace before it looks at the state. When the send of a reply timed out and the
   next request was received meanwhile, the late acknowledgement erases the backtrace of
   that request, and it cannot be answered. (RESPONDENT has the same code.) Without a
   send timeout the property holds (`sockets_fair`).

## Proofs

| module | theorem | statement |
|---|---|---|
| `PriolistProofs` | `SpecIInv` | `Spec => []IInv` |
| | `TypeCorrect` | `Spec => []TypeOK` |
| | `ReadyItemsRemembered` | `Spec => []NoReadyItemForgotten` |
| | `MostUrgentFirst` | `Spec => []CurrentIsMostUrgent` |
| | `IdsDistinct` | `Spec => []NoDuplicates` |
| | `StablePopIsReady` | `Spec => []StableCurrentIsActive` |
| | `Refinement` | `Removable = {}` implies `Spec => ImplementsReadySet` |
| `FramingProofs` | `SendIsExact` | `Spec => []SendPositionIsExact` |
| | `FramingTypes` | `Spec => []TypeOK` |
| `ChannelProofs` | `FramingImplementsChannel` | `Spec => ImplementsChannel` |
| `SessionProofs` | `NoSignalLeftBehind` | `Spec => []BusIsReported` |

**Priority list**, for all finite or infinite `Eid` and all `Priority` and `Removable`.
Assumptions: endpoint ids are positive (0 stands for none), priorities are in 1..16 as
documented, `Removable` is a subset of `Eid`. None of the properties is inductive alone.
`IInv` is the conjunction of `TypeOK`, `NoDuplicates` and facts about `current`. While the
thread runs, `WeakCurrent`: if there is no current item no item is active, and otherwise
no active item is more urgent than the priority recorded. It says nothing about the
index, so it survives `swap_remove`, and it is what `compute_next` needs, which only
looks at the given priority and less urgent ones. After a panic there is no current
item. When nothing is removable there has been no panic and `GoodCurrent` holds: the
current index is that of an active item with that priority. The proofs describe
`ComputeNext`, then each operation, then each action. The refinement maps the list to
its sets of known and ready endpoints.

**Framing**, for any sequence of messages, header sizes, protocol, capacity and limit.
Assumptions: lengths are natural numbers, headers are not empty, the protocol id is a
positive u16. The invariant is `TypeOK` together with
`SendPositionIsExact`: the position is only meaningful for an operation that has a
message, and the types only survive a write if the position is within the message. The
lemmas `TcpAdvances` and `IpcAdvances` say what one write leaves behind, for each step and
wherever it is cut.

**Framing implements Channel**, from the same assumptions. `RecvInv` adds the receiver's
half, as long as no handshake was accepted from a partial read; the handshake counts as
message 0, so the argument starts with the first byte of the connection. `Contiguous`: from
any byte in the stream to the end of its message the bytes follow
each other, then comes the first byte of the next message; the byte the sender writes next,
known from `SendPositionIsExact`, continues the stream. The first byte of the stream (or the
next one written, when it is empty) is the one the receiver needs, and what a
`RecvOperation` has read is the beginning of its message. The statement is about any two
positions rather than neighbours because a read of many bytes would otherwise need an
induction. `Continued` and `Appended` keep it through a write, `Taken` and `Dropped` through
a read; then a full header tells the length of the message that is due
(`HeaderTellsLength`) and a full payload is that message (`PayloadIsIdentified`). Each
`AdvanceRecv` that returns a message is `Deliver`, `StartSend` is `Begin`, a `RecvHandshake`
that leaves bytes behind is `Break`, which is possible only before the first delivery
(`HandshakeInv`); on a broken connection a message returned is `DeliverAnything`. The other
steps stutter.

**Bus**, for any sockets, probes, scenes and bounds. `BusIsReported` is inductive as it
stands. A step either leaves bus and loop alone, or queues through `EventLoopBus::send`
(which makes an empty bus readable; a bus that is not empty is reported already or being
drained), or runs inside `process_bus`, which ends only with an empty bus.

Only model-checked: liveness, and everything about `Socket`, the protocols and the rest of `Session`.

## Not modelled

- The wire formats of headers and ids, the opening of operating-system sockets, urls.
- The relay device: a loop of recv and send on one socket, which are calls of `Socket`.
- Options that only change a duration or a size (intervals, deadlines, the maximal size of
  a message, `TcpNoDelay`), and the getters.
- Wrap-around of request and survey ids (2^31 questions), priorities outside 1..16.
- The Windows back ends (another active state for named pipes), `pair-prefetch.rs` (not
  compiled), the protocol and transport registries, traits, error constructors, test
  doubles.
- Errors of the poller itself. Registrations with it are assumed to report what is ready.
- Two processes of this library talking to each other at the level of `Socket`: the peer is
  the most general one that answers each question at most once.
