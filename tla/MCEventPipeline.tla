------------------------- MODULE MCEventPipeline -------------------------
(* A few events for TLC, all about the same donor, so that their        *)
(* projections meet in the same rows.                                   *)
EXTENDS EventPipeline

CONSTANTS p1, p2

\* Event 2 is poisoned in the runs with one pod.
MCKindFour == <<"MatchApplied", "DonationRecorded", "DonationRecorded", "JobReleased">>
MCKindThree == <<"DonationRecorded", "ProjectStatusChanged", "MatchApplied">>

MCDonorOf == [e \in Events |-> "donor"]
=============================================================================
