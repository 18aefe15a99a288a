------------------------------ MODULE Channel ------------------------------
(***************************************************************************)
(* What a connection promises the pipes on both ends: messages go in whole *)
(* and come out whole, once and in the order they went in.  No bytes, no   *)
(* headers, no partial writes or reads.  A connection may be broken when   *)
(* it is set up, and then promises nothing.  Module Framing implements it. *)
(***************************************************************************)
EXTENDS Naturals, Sequences

CONSTANT Count   \* how many messages there are to send

VARIABLES
    begun,       \* how many messages the sender has begun to send
    delivered,   \* the numbers of the messages the receiver has returned
    intact       \* whether the connection keeps its promise

Init == begun = 0 /\ delivered = <<>> /\ intact = TRUE

Begin ==
    /\ begun < Count
    /\ begun' = begun + 1
    /\ UNCHANGED <<delivered, intact>>

Deliver ==
    /\ intact /\ Len(delivered) < begun
    /\ delivered' = Append(delivered, Len(delivered) + 1)
    /\ UNCHANGED <<begun, intact>>

(* Only a connection that has not delivered anything yet breaks. *)
Break ==
    /\ intact /\ delivered = <<>>
    /\ intact' = FALSE
    /\ UNCHANGED <<begun, delivered>>

(* What a broken connection delivers, if anything, is not said. *)
DeliverAnything ==
    /\ ~intact
    /\ Len(delivered') = Len(delivered) + 1
    /\ UNCHANGED <<begun, intact>>

Spec == Init /\ [][Begin \/ Deliver \/ Break \/ DeliverAnything]_<<begun, delivered, intact>>
=============================================================================
