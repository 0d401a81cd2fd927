--------------------------- MODULE MCRealtimeFeed ---------------------------
(* Two pods and one client, a log and an answer that hold two events.        *)
EXTENDS RealtimeFeed, TLC

CONSTANTS p1, p2, c1

MCSymmetry == Permutations({p1, p2})
=============================================================================
