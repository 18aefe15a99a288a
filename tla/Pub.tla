-------------------------------- MODULE Pub ---------------------------------
(* proto/publ.rs: a message goes to every pipe that can take it now.  The  *)
(* protocol has no state machine and raises its readiness events itself.   *)
EXTENDS Context

New == [pipes |-> {}, bc |-> {}, state |-> Idle]

IsSendReady(p) == p.bc # {}

AddPipe(c, e) == [c EXCEPT !.p.pipes = @ \cup {e}]

RemovePipe(c, e) ==
    LET d == [c EXCEPT !.p.bc = @ \ {e}, !.p.pipes = @ \ {e}]
    IN  IF d.p.bc = {} THEN RaiseCanSend(d, FALSE) ELSE d

(* Seeded fault: nobody is told that no pipe is left to send to. *)
SendUntold(c, m, t) == Answer(SendToAll(c, m), "Send", NoMsg, t)

(* The reply does not wait for any pipe. *)
Send(c, m, t) == Answer(RaiseCanSend(SendToAll(c, m), FALSE), "Send", NoMsg, t)

OnSendReady(c, e) ==
    LET d == IF c.p.bc = {} THEN RaiseCanSend(c, TRUE) ELSE c
    IN  [d EXCEPT !.p.bc = @ \cup {e}]

OnSendNotReady(c, e) ==
    LET d == [c EXCEPT !.p.bc = @ \ {e}]
    IN  IF (c.p.bc = {}) # (d.p.bc = {}) THEN RaiseCanSend(d, FALSE) ELSE d

(* Receiving is not supported. *)
Recv(c, t) == Answer(c, "Err", NoMsg, t)
=============================================================================
