-------------------------- MODULE MCTurretsMatching --------------------------
(* Two donations, the first delivered twice, to a project with two offers    *)
(* of one matcher: the first offer has room for the smaller donation only.   *)
EXTENDS TurretsMatching, TLC

CONSTANTS t1, t2, c1, c2, c3, m1

MCShare == [m \in Payments \X Offers |-> IF m[1] = t1 THEN 1 ELSE 2]
MCCap == (1 :> 2) @@ (2 :> 3)
MCAbout == (c1 :> t1) @@ (c2 :> t1) @@ (c3 :> t2)
MCMatcherOf == [o \in Offers |-> m1]
=============================================================================
