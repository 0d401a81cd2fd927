--------------------------- MODULE MCOfflineQueue ---------------------------
(* Two wishes of the same amount, so that one can look like the other.       *)
EXTENDS OfflineQueue

MCWants == [w \in Wishes |-> 2]
=============================================================================
