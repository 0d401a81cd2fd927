------------------------- MODULE MCDonationIntegrity -------------------------
(* One donation: cases share the enforcement setting and nothing else.       *)
EXTENDS DonationIntegrity
=============================================================================
