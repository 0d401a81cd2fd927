------------------------ MODULE MCDonationCommands ------------------------
(* A client and both indexers report one transaction, in which there are   *)
(* two donations: the Soroban poller reports the other one.  The poller    *)
(* has a second transaction, and one it can never record.                  *)
EXTENDS DonationCommands

CONSTANTS client, horizon, first, second, bad

MCHashOf == [r \in Requests |-> IF r \in {second, bad} THEN r ELSE first]
MCDetailsOf == [r \in Requests |-> IF r = first THEN "other" ELSE "original"]
MCBefore == [r \in Soroban |-> CASE r = first -> {}
                                 [] r = second -> {first}
                                 [] r = bad -> {first, second}]
=============================================================================
