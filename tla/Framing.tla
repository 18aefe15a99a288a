------------------------------ MODULE Framing ------------------------------
(***************************************************************************)
(* How messages cross a byte stream: the handshake (transport/async/stub), *)
(* SendOperation and RecvOperation of the TCP and IPC transports and the   *)
(* stubs that start and resume them.  The sender's process and the         *)
(* receiver's both run this code; between them the kernel takes and gives  *)
(* as many bytes at a time as it likes.                                    *)
(*                                                                         *)
(* A byte is <<m, i>>, the i-th byte of message m on the wire, or <<0, i>> *)
(* for the handshake; Value is what is in it.  The transport header holds  *)
(* the length of the rest: 8 bytes for TCP, a type byte and 8 for IPC.     *)
(***************************************************************************)
EXTENDS Integers, Sequences

CONSTANTS
    Messages,       \* what is sent: a sequence of [header, body] lengths
    HeaderSize,     \* the transport header of each transport
    ProtocolId,     \* the protocol of the sender, which the receiver expects
    Filler,         \* the value of the bytes of protocol headers and payloads
    Capacity,       \* how many bytes the stream may hold
    MaxSize         \* recv_max_size of the receiver, 0 for no limit

Transports == {"tcp", "ipc"}

ASSUME MessagesAssumption == Messages \in Seq([header : Nat, body : Nat])
ASSUME SizeAssumption == HeaderSize \in [Transports -> Nat \ {0}]
ASSUME ValueAssumption == ProtocolId \in 1 .. 65535 /\ Filler \in 0 .. 255
ASSUME CapacityAssumption == Capacity \in Nat /\ MaxSize \in Nat

VARIABLES
    transport,  \* the transport of the connection
    hello,      \* the handshake: "tx", "rx", "done" or "failed"
    skew,       \* history: how many of its bytes an accepted handshake left behind
    stream,     \* the bytes in flight
    begun,      \* how many messages the sender has begun
    acked,      \* how many sends have returned true
    send,       \* send_operation: its step and how much of it is written
    put,        \* history: how many bytes of the last message begun, or of the
                \* handshake when there is none, have left
    recv,       \* recv_operation: its step and what it has read
    delivered   \* the messages the receiver has returned

vars == <<transport, hello, skew, stream, begun, acked, send, put, recv, delivered>>

-----------------------------------------------------------------------------
(* The bytes of message m: transport header, protocol header, payload. *)

H == HeaderSize[transport]
Size(m) == Messages[m].header + Messages[m].body
Total(m) == H + Size(m)

Bytes(m, from, to) == [i \in 1 .. (to - from + 1) |-> <<m, from + i - 1>>]

(* create_handshake: zero, 'S', 'P', version, protocol id, reserved. *)
HandshakeSize == 8
Handshake == <<0, 83, 80, 0, ProtocolId \div 256, ProtocolId % 256, 0, 0>>

(* What a byte holds: the last one of a transport header the length, the   *)
(* ones before it zero, but for the type byte IPC puts in front.           *)
Value(b) ==
    CASE b[1] = 0 -> Handshake[b[2]]
      [] b[1] > 0 /\ b[2] = H -> Size(b[1])
      [] b[1] > 0 /\ b[2] < H -> IF transport = "ipc" /\ b[2] = 1 THEN 1 ELSE 0
      [] b[1] > 0 /\ b[2] > H -> Filler

Least(a, b) == IF a <= b THEN a ELSE b

(* Where each step of a SendOperation starts in the message, and ends. *)
Start(m, step) ==
    CASE step = "TransportHdr" -> 0
      [] step = "ProtocolHdr"  -> H
      [] step = "UsrPayload"   -> H + Messages[m].header

End(m, step) ==
    CASE step = "TransportHdr" -> H
      [] step = "ProtocolHdr"  -> H + Messages[m].header
      [] step = "UsrPayload"   -> H + Messages[m].header + Messages[m].body

-----------------------------------------------------------------------------
NoSend == [step |-> "None", written |-> 0, running |-> FALSE]
NoRecv == [step |-> "None", buffer |-> <<>>, length |-> 0, running |-> FALSE]

Init ==
    /\ transport \in Transports /\ hello = "tx" /\ skew = 0 /\ stream = <<>>
    /\ begun = 0 /\ acked = 0 /\ send = NoSend /\ put = 0
    /\ recv = NoRecv /\ delivered = <<>>

(* send_and_check_handshake: a short write is an error. *)
SendHandshake ==
    /\ hello = "tx"
    /\ \E n \in 0 .. Least(HandshakeSize, Capacity) :
          /\ stream' = stream \o Bytes(0, 1, n)
          /\ hello' = IF n = HandshakeSize THEN "rx" ELSE "failed"
          /\ put' = n
    /\ UNCHANGED <<transport, skew, begun, acked, send, recv, delivered>>

(* check_handshake on a zeroed buffer of which n bytes were read *)
check_handshake(n) ==
    \A i \in 1 .. HandshakeSize : (IF i <= n THEN Value(stream[i]) ELSE 0) = Handshake[i]

(* recv_and_check_handshake: one read, whose count is ignored.  A read     *)
(* that stops within the reserved bytes passes the check, and leaves the   *)
(* rest of the handshake in front of the first message.                    *)
RecvHandshake ==
    /\ hello = "rx"
    /\ \E n \in 0 .. Least(HandshakeSize, Len(stream)) :
          /\ stream' = SubSeq(stream, n + 1, Len(stream))
          /\ hello' = IF check_handshake(n) THEN "done" ELSE "failed"
          /\ skew' = IF check_handshake(n) THEN HandshakeSize - n ELSE 0
    /\ UNCHANGED <<transport, begun, acked, send, put, recv, delivered>>

-----------------------------------------------------------------------------
(* The sender. *)

(* SendOperation::new, then run; the pipe starts no other before it is     *)
(* done.  It waits for the handshake of its peer, not for the peer to have *)
(* read its own.                                                           *)
StartSend ==
    /\ hello \in {"rx", "done"} /\ send.step = "None" /\ begun < Len(Messages)
    /\ begun' = begun + 1 /\ put' = 0
    /\ send' = [step |-> "TransportHdr", written |-> 0, running |-> TRUE]
    /\ UNCHANGED <<transport, hello, skew, stream, acked, recv, delivered>>

(* The stream became writable again. *)
ResumeSend ==
    /\ send.step # "None" /\ ~send.running
    /\ send' = [send EXCEPT !.running = TRUE]
    /\ UNCHANGED <<transport, hello, skew, stream, begun, acked, put, recv, delivered>>

At(step, written, passed) == [step |-> step, written |-> written, running |-> passed]

(* Seeded fault: what is left of the protocol header is kept instead. *)
TcpTransportHdrCountingDown(m, w) ==
    IF w < H THEN At("TransportHdr", w, FALSE)
    ELSE IF w < H + Messages[m].header THEN At("ProtocolHdr", H - w, FALSE)
    ELSE IF w < H + Messages[m].header + Messages[m].body
         THEN At("UsrPayload", w - (H + Messages[m].header), FALSE)
    ELSE NoSend

(* TCP writes the rest of its buffer and those after it at once: w bytes   *)
(* counted from the start of the step.                                     *)
TcpTransportHdr(m, w) ==
    IF w < H THEN At("TransportHdr", w, FALSE)
    ELSE IF w < H + Messages[m].header THEN At("ProtocolHdr", w - H, FALSE)
    ELSE IF w < H + Messages[m].header + Messages[m].body
         THEN At("UsrPayload", w - (H + Messages[m].header), FALSE)
    ELSE NoSend

(* Seeded fault: the protocol header is counted as payload. *)
TcpProtocolHdrAsPayload(m, w) ==
    IF w < Messages[m].header THEN At("ProtocolHdr", w, FALSE)
    ELSE IF w < Messages[m].header + Messages[m].body THEN At("UsrPayload", w, FALSE)
    ELSE NoSend

TcpProtocolHdr(m, w) ==
    IF w < Messages[m].header THEN At("ProtocolHdr", w, FALSE)
    ELSE IF w < Messages[m].header + Messages[m].body
         THEN At("UsrPayload", w - Messages[m].header, FALSE)
    ELSE NoSend

TcpUsrPayload(m, w) == IF w < Messages[m].body THEN At("UsrPayload", w, FALSE) ELSE NoSend

TcpAdvance(m, w) ==
    CASE send.step = "TransportHdr" -> TcpTransportHdr(m, w)
      [] send.step = "ProtocolHdr"  -> TcpProtocolHdr(m, w)
      [] send.step = "UsrPayload"   -> TcpUsrPayload(m, w)

(* IPC writes one buffer at a time and goes on with the next. *)
IpcTransportHdr(m, w) == IF w = H THEN At("ProtocolHdr", 0, TRUE) ELSE At("TransportHdr", w, FALSE)

(* Seeded fault: a header cut short is written again from its start. *)
IpcProtocolHdrFromStart(m, w) ==
    IF w = Messages[m].header THEN At("UsrPayload", 0, TRUE) ELSE At("ProtocolHdr", 0, FALSE)

IpcProtocolHdr(m, w) ==
    IF w = Messages[m].header THEN At("UsrPayload", 0, TRUE) ELSE At("ProtocolHdr", w, FALSE)

IpcUsrPayload(m, w) == IF w = Messages[m].body THEN NoSend ELSE At("UsrPayload", w, FALSE)

IpcAdvance(m, w) ==
    CASE send.step = "TransportHdr" -> IpcTransportHdr(m, w)
      [] send.step = "ProtocolHdr"  -> IpcProtocolHdr(m, w)
      [] send.step = "UsrPayload"   -> IpcUsrPayload(m, w)

(* One write of the loop in resume_at: the kernel takes n bytes, or none. *)
AdvanceSend ==
    LET m     == begun
        from  == Start(m, send.step) + send.written
        limit == IF transport = "tcp" THEN Total(m) ELSE End(m, send.step)
    IN  /\ send.step # "None" /\ send.running
        /\ \E n \in 0 .. (limit - from) :
              /\ Len(stream) + n <= Capacity
              /\ stream' = stream \o Bytes(m, from + 1, from + n)
              /\ put' = put + n
              /\ send' = IF transport = "tcp" THEN TcpAdvance(m, send.written + n)
                         ELSE IpcAdvance(m, send.written + n)
        /\ acked' = IF send' = NoSend THEN acked + 1 ELSE acked
        /\ UNCHANGED <<transport, hello, skew, begun, recv, delivered>>

-----------------------------------------------------------------------------
(* The receiver. *)

StartRecv ==
    /\ hello = "done" /\ recv.step = "None"
    /\ recv' = [step |-> "Header", buffer |-> <<>>, length |-> H, running |-> TRUE]
    /\ UNCHANGED <<transport, hello, skew, stream, begun, acked, send, put, delivered>>

ResumeRecv ==
    /\ recv.step \in {"Header", "Payload"} /\ ~recv.running
    /\ recv' = [recv EXCEPT !.running = TRUE]
    /\ UNCHANGED <<transport, hello, skew, stream, begun, acked, send, put, delivered>>

(* The length in a transport header, of which IPC skips the type byte.  A  *)
(* length that needs more than its last byte is Beyond: no message is that *)
(* long, such a header starts in the middle of something else.             *)
Beyond == 256

ReadLength(buffer) ==
    LET first == IF transport = "ipc" THEN 2 ELSE 1
    IN  IF \A i \in first .. (H - 1) : Value(buffer[i]) = 0 THEN Value(buffer[H]) ELSE Beyond

ReadHeader(buffer) ==
    IF Len(buffer) < H THEN [recv EXCEPT !.buffer = buffer, !.running = FALSE]
    ELSE IF MaxSize > 0 /\ ReadLength(buffer) > MaxSize
    THEN [recv EXCEPT !.step = "Error", !.running = FALSE]
    ELSE [step |-> "Payload", buffer |-> <<>>, length |-> ReadLength(buffer), running |-> TRUE]

(* Seeded fault: a payload without bytes is waited for. *)
ReadPayloadOfSome(buffer) ==
    IF Len(buffer) = recv.length /\ buffer # <<>> THEN NoRecv
    ELSE [recv EXCEPT !.buffer = buffer, !.running = FALSE]

ReadPayload(buffer) ==
    IF Len(buffer) = recv.length THEN NoRecv
    ELSE [recv EXCEPT !.buffer = buffer, !.running = FALSE]

(* The message a payload belongs to, 0 if it is not that of one message. *)
Identify(payload) ==
    LET n  == Len(delivered) + 1
        ms == {m \in DOMAIN Messages : payload = Bytes(m, H + 1, Total(m))}
    IN  IF n \in ms THEN n ELSE IF ms = {} THEN 0 ELSE CHOOSE m \in ms : TRUE

(* One read of the loop in resume_at. *)
AdvanceRecv ==
    /\ recv.step \in {"Header", "Payload"} /\ recv.running
    /\ \E n \in 0 .. Least(recv.length - Len(recv.buffer), Len(stream)) :
          LET buffer == recv.buffer \o SubSeq(stream, 1, n)
          IN  /\ stream' = SubSeq(stream, n + 1, Len(stream))
              /\ recv' = IF recv.step = "Header" THEN ReadHeader(buffer) ELSE ReadPayload(buffer)
              /\ delivered' = IF recv' = NoRecv THEN Append(delivered, Identify(buffer))
                              ELSE delivered
    /\ UNCHANGED <<transport, hello, skew, begun, acked, send, put>>

-----------------------------------------------------------------------------
Next ==
    \/ SendHandshake \/ RecvHandshake
    \/ StartSend \/ ResumeSend \/ AdvanceSend
    \/ StartRecv \/ ResumeRecv \/ AdvanceRecv

Spec == Init /\ [][Next]_vars

(* Operations are resumed when the stream is ready, and the kernel does    *)
(* not refuse to move bytes forever.                                       *)
Moves(A) == A /\ (stream' # stream \/ send'.step # send.step \/ recv'.step # recv.step)

Fairness ==
    /\ WF_vars(SendHandshake) /\ WF_vars(RecvHandshake)
    /\ WF_vars(StartSend) /\ WF_vars(ResumeSend) /\ SF_vars(Moves(AdvanceSend))
    /\ WF_vars(StartRecv) /\ WF_vars(ResumeRecv) /\ SF_vars(Moves(AdvanceRecv))

FairSpec == Spec /\ Fairness

-----------------------------------------------------------------------------
SendType ==
    [step : {"None", "TransportHdr", "ProtocolHdr", "UsrPayload"}, written : Nat, running : BOOLEAN]

(* The counters are numbers and an operation in progress has a message. *)
TypeOK ==
    /\ transport \in Transports /\ hello \in {"tx", "rx", "done", "failed"}
    /\ skew \in 0 .. HandshakeSize
    /\ begun \in 0 .. Len(Messages) /\ acked \in Nat /\ put \in Nat
    /\ send \in SendType
    /\ send.step # "None" => begun > 0

(* What a SendOperation remembers, its step and how much of that step is   *)
(* written, is exactly how many bytes of its message the stream has taken, *)
(* wherever a write was cut short: within a header, between two, or in the *)
(* payload.  When none is left every message begun was acknowledged, and   *)
(* the last one, or the handshake before the first, has left entirely.     *)
SendPositionIsExact ==
    /\ send.step # "None" =>
          /\ put = Start(begun, send.step) + send.written
          /\ put <= Total(begun) /\ acked + 1 = begun
    /\ send.step = "None" => acked = begun /\ (begun > 0 => put = Total(begun))
    /\ begun = 0 /\ hello \in {"rx", "done"} => put = HandshakeSize

Abstract == INSTANCE Channel WITH Count <- Len(Messages), intact <- skew = 0

(* However the kernel cuts the stream into pieces, the receiver returns    *)
(* the messages that were sent, whole, once and in order (RecvOperation    *)
(* against SendOperation, headers included), on every connection whose     *)
(* handshake was read in one piece.  Nothing else can take that away, and  *)
(* nothing can once the first message was returned.                        *)
ImplementsChannel == Abstract!Spec

Refused == {m \in DOMAIN Messages : MaxSize > 0 /\ Size(m) > MaxSize}

(* A connection either fails in its handshake, accepts a handshake it has  *)
(* read in part, or every message arrives, empty ones too, up to the first *)
(* one that is longer than the receiver accepts: that one ends it.         *)
EveryMessageArrives ==
    <>(\/ hello = "failed" \/ skew > 0
       \/ \A m \in DOMAIN Messages : m <= Len(delivered) \/ \E r \in Refused : r <= m)
=============================================================================
