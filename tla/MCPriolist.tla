----------------------------- MODULE MCPriolist -----------------------------
(* Priolist with small sets of endpoints and priorities.                   *)
EXTENDS Priolist
=============================================================================
