---------------------------- MODULE MCSponsorship ----------------------------
(* Two requests, for one address or for two, over one slot of capacity.     *)
EXTENDS Sponsorship

CONSTANTS k1, k2, r1, r2, s1, s2, c1

MCWants == [r \in Requests |-> IF r = r1 THEN {k1} ELSE Keys]
MCSigns == [s \in Submits |-> IF s = s1 THEN {r1} ELSE {r2}]
=============================================================================
