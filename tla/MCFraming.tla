----------------------------- MODULE MCFraming -----------------------------
(* Framing with the sizes of the code and messages whose protocol header,  *)
(* payload or both are empty; the last one is too long for the receiver.   *)
EXTENDS Framing

HeaderSizes == [t \in Transports |-> IF t = "tcp" THEN 8 ELSE 9]

FiveMessages == <<[header |-> 4, body |-> 3], [header |-> 0, body |-> 0],
                  [header |-> 4, body |-> 0], [header |-> 0, body |-> 3],
                  [header |-> 4, body |-> 4]>>
=============================================================================
