------------------------------ MODULE MCEscrow ------------------------------
(* Small instances of Escrow for TLC. *)
EXTENDS Escrow, TLC

CONSTANTS a1, a2, t1, t2

OneBlock == {<<t1, a2>>}
=============================================================================
