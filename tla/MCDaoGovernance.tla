-------------------------- MODULE MCDaoGovernance --------------------------
(* Small instances of DaoGovernance for TLC. *)
EXTENDS DaoGovernance
=============================================================================
