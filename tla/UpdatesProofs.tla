--------------------------- MODULE UpdatesProofs ---------------------------
(***************************************************************************)
(* Theorems about ProjectUpdates, for any number of administrators,        *)
(* donors, recipients, dispatches and revisions, and chunks of any size.   *)
(*                                                                         *)
(* The moderation rests on what a revision has been through (UpdateFits):  *)
(* nothing pending was ever shown, and what is published is approved.  For *)
(* the messages, a recipient whose claim is in the hands of a dispatch has *)
(* no job yet, and one with a job keeps the claim (ClaimsFit).  The same   *)
(* holds for corrections (CorrectionsFit), unless a dispatch of the        *)
(* publication undoes the claim under a correction; that dispatch has then *)
(* been overtaken, for only what a channel in carried had claimed is ever  *)
(* corrected.                                                              *)
(*                                                                         *)
(* That a channel is only marked when its recipients were all reached      *)
(* rests on how far a dispatch is (DoneWith): whom it has gone by is       *)
(* settled, claimed or on record as outrun (Steady), because a chunk is    *)
(* the first of what was found and one that is not full is all of it       *)
(* (ChunkIsFirst).  The same holds of the corrections unless a removal was *)
(* cut off; and while a removal that nobody raced is in force, no dispatch *)
(* of the publication runs and every channel still owed a correction is on *)
(* the list of the removal (OnlyRemovals).                                 *)
(***************************************************************************)
EXTENDS ProjectUpdates, Sums

\* The recipients a dispatch has claimed and not handed over yet.
Held(p, kind) ==
    IF dispatches[p].kind = kind /\ dispatches[p].at \in {"send", "release"} THEN Rows(p) ELSE {}

UpdateFits ==
    /\ update.status = "none" <=> update.revision = 0
    /\ shown \subseteq 1 .. update.revision
    /\ update.status = "pending" => update.revision \notin shown
    /\ update.status = "published" => update.revision \in approved

DispatchesFit ==
    \A p \in Processes :
        /\ dispatches[p].at # "idle" => dispatches[p].kind \in Kinds
        /\ dispatches[p].kind = "publication" => dispatches[p].revision \in approved
        /\ dispatches[p].at \notin {"idle", "state"} =>
               /\ dispatches[p].todo # {}
               /\ dispatches[p].kind = "removal" => dispatches[p].todo \subseteq update.carried
        /\ dispatches[p].at \in {"claim", "send", "release"} => Rows(p) \subseteq Recipient

ClaimsFit ==
    /\ \A r \in amended : r[1] \in update.carried
    /\ \A p \in Processes : Held(p, "publication") \subseteq claims
    /\ \A p, q \in Processes : p # q => Held(p, "publication") \intersect Held(q, "publication") = {}
    /\ \A r \in Recipient : ~Holds(r, "unanswered") /\ jobs[<<r, "publication">>] > 0 =>
           /\ jobs[<<r, "publication">>] = 1 /\ r \in claims
           /\ \A p \in Processes : r \notin Held(p, "publication")

CorrectionsFit ==
    \A r \in Recipient : ~Holds(r, "outrun") =>
        /\ \A p \in Processes : r \in Held(p, "removal") => r \in amended
        /\ \A p, q \in Processes : p # q => r \notin Held(p, "removal") \intersect Held(q, "removal")
        /\ ~Holds(r, "unanswered") /\ jobs[<<r, "removal">>] > 0 =>
               /\ jobs[<<r, "removal">>] = 1 /\ r \in amended
               /\ \A p \in Processes : r \notin Held(p, "removal")

IInv ==
    /\ TypeOK /\ UpdateFits /\ DispatchesFit /\ ClaimsFit /\ CorrectionsFit
    /\ AppealIsPending /\ ReportsAreSettled /\ ShownIsKept /\ OnlyApprovedIsSent

-----------------------------------------------------------------------------
(* Types *)

\* A recipient is a pair of a channel and a number.
LEMMA RecipientTypes ==
    /\ \A r \in Recipient : r[1] \in Channel /\ r[2] \in Nat /\ r = <<r[1], r[2]>>
    /\ "publication" \in Kinds /\ "removal" \in Kinds
BY UpdatesAssumption DEF Recipient, Kinds

\* A dispatch is the record of its fields.
LEMMA DispatchType ==
    ASSUME TypeOK, NEW p \in Processes
    PROVE  /\ dispatches \in [Processes -> Dispatch] /\ dispatches[p] \in Dispatch
           /\ dispatches[p] = [kind |-> dispatches[p].kind, revision |-> dispatches[p].revision,
                               at |-> dispatches[p].at, todo |-> dispatches[p].todo, last |-> dispatches[p].last,
                               rows |-> dispatches[p].rows, full |-> dispatches[p].full]
           /\ Serves(p) \in Channel
           /\ dispatches[p].todo # {} => Serves(p) \in dispatches[p].todo
<1>1. dispatches \in [Processes -> Dispatch] /\ dispatches[p] \in Dispatch
  BY DEF TypeOK
<1>2. Serves(p) \in Channel /\ (dispatches[p].todo # {} => Serves(p) \in dispatches[p].todo)
  BY <1>1 DEF Serves, Channel, Dispatch
<1> QED
  BY <1>1, <1>2 DEF Dispatch

\* A step of a dispatch: only its own record changes.
LEMMA SetDispatch ==
    ASSUME TypeOK, NEW p \in Processes, NEW d \in Dispatch, Set(p, d)
    PROVE  /\ dispatches' \in [Processes -> Dispatch]
           /\ dispatches'[p] = d
           /\ \A q \in Processes : q # p => dispatches'[q] = dispatches[q]
BY DEF TypeOK, Set

\* The idle dispatch is a dispatch.
LEMMA IdleType == Idle \in Dispatch
BY UpdatesAssumption DEF Idle, Dispatch

\* A dispatch that starts has its kind and revision and reads the state next.
LEMMA StartType ==
    ASSUME NEW kind \in Kinds, NEW revision \in 0 .. MaxRevision
    PROVE  LET d == [Idle EXCEPT !.kind = kind, !.revision = revision, !.at = "state"] IN
           /\ d \in Dispatch /\ d.kind = kind /\ d.revision = revision /\ d.at = "state"
BY DEF Idle, Dispatch

\* A decision or a retry starts a dispatch in an idle place.
LEMMA StartsDispatch ==
    ASSUME TypeOK, NEW kind \in Kinds, NEW revision \in 0 .. MaxRevision, Dispatches(kind, revision)
    PROVE  /\ dispatches' \in [Processes -> Dispatch]
           /\ \A p \in Processes : \/ dispatches'[p] = dispatches[p]
                                   \/ /\ dispatches'[p].kind = kind /\ dispatches'[p].revision = revision
                                      /\ dispatches'[p].at = "state"
<1>1. PICK p \in Processes :
        dispatches' = [dispatches EXCEPT ![p] = [Idle EXCEPT !.kind = kind, !.revision = revision, !.at = "state"]]
  BY DEF Dispatches
<1> DEFINE d == [Idle EXCEPT !.kind = kind, !.revision = revision, !.at = "state"]
<1>2. d \in Dispatch /\ d.kind = kind /\ d.revision = revision /\ d.at = "state"
  BY StartType
<1>3. dispatches' = [dispatches EXCEPT ![p] = d]
  BY <1>1
<1> HIDE DEF d
<1> QED
  BY <1>2, <1>3 DEF TypeOK

-----------------------------------------------------------------------------
(* Frames *)

\* What is not handed over or released keeps the books of the claims.
LEMMA ClaimsFrame ==
    ASSUME IInv, TypeOK', UNCHANGED <<claims, amended, jobs>>, mishaps \subseteq mishaps',
           update.carried \subseteq update'.carried,
           \A p \in Processes, k \in Kinds : Held(p, k)' \subseteq Held(p, k)
    PROVE  (ClaimsFit /\ CorrectionsFit)'
<1> USE RecipientTypes
<1>1. ClaimsFit'
  BY DEF IInv, ClaimsFit, Holds
<1>2. CorrectionsFit'
  BY DEF IInv, CorrectionsFit, Holds
<1> QED
  BY <1>1, <1>2

\* A step of a dispatch leaves the moderation alone.
LEMMA ModerationFrame ==
    ASSUME IInv, UNCHANGED <<archive, appeal, reports, approved, shown>>,
           update'.status = update.status, update'.revision = update.revision, sent' \subseteq approved
    PROVE  (UpdateFits /\ AppealIsPending /\ ReportsAreSettled /\ ShownIsKept /\ OnlyApprovedIsSent)'
BY DEF IInv, UpdateFits, AppealIsPending, ReportsAreSettled, ShownIsKept, OnlyApprovedIsSent

\* What a dispatch holds is told by its own record.
LEMMA HeldFrame ==
    ASSUME NEW p \in Processes, dispatches'[p] = dispatches[p]
    PROVE  /\ Rows(p)' = Rows(p) /\ Serves(p)' = Serves(p)
           /\ \A k \in Kinds : Held(p, k)' = Held(p, k)
BY DEF Held, Rows, Serves

\* Only a dispatch that sends or releases holds claims.
LEMMA HeldNothing ==
    ASSUME NEW p \in Processes, dispatches[p].at \notin {"send", "release"}
    PROVE  \A k \in Kinds : Held(p, k) = {}
BY DEF Held

\* A decision, an edit or a report, with or without a dispatch it starts.
LEMMA DecisionFrame ==
    ASSUME IInv, TypeOK', UNCHANGED <<claims, amended, jobs, mishaps>>,
           update'.carried = update.carried, approved \subseteq approved',
           \A p \in Processes : \/ dispatches'[p] = dispatches[p]
                               \/ /\ dispatches'[p].kind \in Kinds /\ dispatches'[p].at = "state"
                                  /\ dispatches'[p].kind = "publication" => dispatches'[p].revision \in approved'
    PROVE  (DispatchesFit /\ ClaimsFit /\ CorrectionsFit)'
<1>1. ASSUME NEW p \in Processes, NEW k \in Kinds PROVE Held(p, k)' \subseteq Held(p, k)
  <2>1. CASE dispatches'[p] = dispatches[p]
    BY <2>1, HeldFrame
  <2>2. CASE dispatches'[p].at = "state"
    BY <2>2 DEF Held
  <2> QED
    BY <2>1, <2>2
<1>2. (ClaimsFit /\ CorrectionsFit)'
  BY <1>1, ClaimsFrame
<1>3. DispatchesFit'
  <2> SUFFICES ASSUME NEW p \in Processes
      PROVE /\ dispatches'[p].at # "idle" => dispatches'[p].kind \in Kinds
            /\ dispatches'[p].kind = "publication" => dispatches'[p].revision \in approved'
            /\ dispatches'[p].at \notin {"idle", "state"} =>
                 /\ dispatches'[p].todo # {}
                 /\ dispatches'[p].kind = "removal" => dispatches'[p].todo \subseteq update'.carried
            /\ dispatches'[p].at \in {"claim", "send", "release"} => Rows(p)' \subseteq Recipient
    BY DEF DispatchesFit
  <2>1. CASE dispatches'[p] = dispatches[p]
    BY <2>1, HeldFrame DEF IInv, DispatchesFit
  <2>2. CASE dispatches'[p].at = "state" /\ dispatches'[p].kind \in Kinds
             /\ (dispatches'[p].kind = "publication" => dispatches'[p].revision \in approved')
    BY <2>2
  <2> QED
    BY <2>1, <2>2
<1> QED
  BY <1>2, <1>3

-----------------------------------------------------------------------------
(* Moderation *)

\* No update, no dispatch and no claim: the invariant holds initially.
LEMMA InitInv ==
    Init => IInv
<1> SUFFICES ASSUME Init PROVE IInv
  OBVIOUS
<1>1. TypeOK
  BY UpdatesAssumption, IdleType DEF Init, TypeOK, Update, Recipient
<1>2. \A p \in Processes, k \in Kinds : Held(p, k) = {}
  BY DEF Init, Idle, Held
<1>3. UpdateFits /\ AppealIsPending /\ ReportsAreSettled /\ ShownIsKept /\ OnlyApprovedIsSent
  BY DEF Init, UpdateFits, AppealIsPending, ReportsAreSettled, ShownIsKept, OnlyApprovedIsSent, NoAppeal, Public
<1>4. DispatchesFit
  BY DEF Init, DispatchesFit, Idle
<1>5. ClaimsFit /\ CorrectionsFit
  BY <1>2, RecipientTypes DEF Init, ClaimsFit, CorrectionsFit
<1> QED
  BY <1>1, <1>3, <1>4, <1>5 DEF IInv

\* A move of the update to a status of a revision keeps its type.
LEMMA MovesType ==
    ASSUME TypeOK, NEW status, NEW revision \in 1 .. MaxRevision, Moves(status, revision),
           status \in Public \union {"none", "pending", "rejected", "removed", "appealed"}
    PROVE  /\ update' \in Update /\ update'.status = status /\ update'.revision = revision
           /\ update'.carried = update.carried
           /\ shown' \subseteq 1 .. MaxRevision
           /\ status \in Public => shown' = shown \union {revision}
           /\ status \notin Public => shown' = shown
<1>1. update' = [update EXCEPT !.status = status, !.revision = revision]
  BY DEF Moves
<1>2. update' \in Update /\ update'.status = status /\ update'.revision = revision /\ update'.carried = update.carried
  <2>1. revision \in 0 .. MaxRevision
    BY UpdatesAssumption
  <2>2. update \in Update
    BY DEF TypeOK
  <2> QED
    BY <1>1, <2>1, <2>2 DEF Update
<1>3. shown \subseteq 1 .. MaxRevision
  BY DEF TypeOK
<1>4. shown' = IF status \in Public THEN shown \union {revision} ELSE shown
  BY DEF Moves
<1> QED
  BY <1>2, <1>3, <1>4

\* The update has a revision once it exists.
LEMMA RevisionType ==
    ASSUME IInv, update.status # "none"
    PROVE  update.revision \in 1 .. MaxRevision
<1>1. update \in Update /\ update.revision # 0
  BY DEF IInv, TypeOK, UpdateFits
<1>2. update.revision \in 0 .. MaxRevision
  BY <1>1 DEF Update
<1> QED
  BY <1>1, <1>2, UpdatesAssumption

\* Creating an update keeps the invariant.
LEMMA CreateStep ==
    ASSUME IInv, Create
    PROVE  IInv'
<1>1. PICK status \in {"published_pending_review", "pending"} : Moves(status, 1)
  BY DEF Create
<1>2. /\ update' \in Update /\ update'.status = status /\ update'.revision = 1
      /\ update'.carried = update.carried
      /\ shown' \subseteq 1 .. MaxRevision
      /\ status \in Public => shown' = shown \union {1}
      /\ status \notin Public => shown' = shown
  <2>1. 1 \in 1 .. MaxRevision /\ TypeOK
    BY UpdatesAssumption DEF IInv
  <2>2. status \in Public \union {"none", "pending", "rejected", "removed", "appealed"}
    BY DEF Public
  <2> QED
    BY <1>1, <2>1, <2>2, MovesType
<1>3. update.status = "none" /\ update.revision = 0 /\ shown = {}
  BY DEF Create, IInv, UpdateFits
<1>4. TypeOK'
  BY <1>2 DEF IInv, TypeOK, Create, recipients
<1>5. (DispatchesFit /\ ClaimsFit /\ CorrectionsFit)'
  BY <1>2, <1>4, DecisionFrame DEF Create, recipients
<1>6. (UpdateFits /\ AppealIsPending /\ ShownIsKept /\ OnlyApprovedIsSent)'
  BY <1>1, <1>2, <1>3
  DEF IInv, Create, Public, UpdateFits, AppealIsPending, ShownIsKept, OnlyApprovedIsSent
<1>7. ReportsAreSettled'
  BY <1>1, <1>2, <1>3 DEF IInv, Create, Public, ReportsAreSettled
<1> QED
  BY <1>4, <1>5, <1>6, <1>7 DEF IInv

\* Editing an update keeps the invariant.
LEMMA EditStep ==
    ASSUME IInv, Edit
    PROVE  IInv'
<1> DEFINE status == StatusAfterEdit
<1>1. /\ update.status # "none" /\ update.revision \in 1 .. MaxRevision
      /\ update.revision + 1 \in 1 .. MaxRevision
  BY RevisionType, UpdatesAssumption DEF Edit, Public
<1>2. /\ WasPublic => status = "published_pending_review" /\ update.status \in Public
      /\ ~WasPublic => status = "pending" /\ update.status = "pending"
  BY DEF StatusAfterEdit, WasPublic, Edit
<1>3. /\ update' \in Update /\ update'.status = status /\ update'.revision = update.revision + 1
      /\ update'.carried = update.carried
      /\ shown' \subseteq 1 .. MaxRevision
      /\ status \in Public => shown' = shown \union {update.revision + 1}
      /\ status \notin Public => shown' = shown
  <2>1. status \in Public \union {"none", "pending", "rejected", "removed", "appealed"}
    BY <1>2 DEF Public
  <2>2. Moves(status, update.revision + 1)
    BY DEF Edit
  <2> HIDE DEF status
  <2> QED
    BY <1>1, <2>1, <2>2, MovesType DEF IInv
<1>4. TypeOK'
  <2>1. archive' \subseteq [revision : 1 .. MaxRevision, public : BOOLEAN]
    <3>1. WasPublic \in BOOLEAN
      BY DEF WasPublic
    <3>2. [revision |-> update.revision, public |-> WasPublic] \in [revision : 1 .. MaxRevision, public : BOOLEAN]
      BY <1>1, <3>1
    <3>3. archive' = archive \union {[revision |-> update.revision, public |-> WasPublic]}
      BY DEF Edit
    <3> QED
      BY <3>2, <3>3 DEF IInv, TypeOK
  <2>2. UNCHANGED <<appeal, reports, claims, amended, jobs, dispatches, approved, sent, mishaps, causes, faults>>
    BY DEF Edit, recipients
  <2> HIDE DEF status
  <2> QED
    BY <1>3, <2>1, <2>2 DEF IInv, TypeOK
<1>5. (DispatchesFit /\ ClaimsFit /\ CorrectionsFit)'
  BY <1>3, <1>4, DecisionFrame DEF Edit, recipients
<1> HIDE DEF status
<1>6. (UpdateFits /\ AppealIsPending /\ OnlyApprovedIsSent)'
  <2>1. shown \subseteq 1 .. update.revision
    BY DEF IInv, UpdateFits
  <2> QED
    BY <1>1, <1>2, <1>3, <2>1 DEF IInv, Edit, Public, UpdateFits, AppealIsPending, OnlyApprovedIsSent
<1>7. ShownIsKept'
  <2> SUFFICES ASSUME NEW r \in shown'
      PROVE r = update'.revision \/ [revision |-> r, public |-> TRUE] \in archive'
    BY DEF ShownIsKept
  <2>1. r = update'.revision \/ r \in shown
    BY <1>3
  <2>2. ASSUME r \in shown PROVE [revision |-> r, public |-> TRUE] \in archive'
    <3>1. r = update.revision \/ [revision |-> r, public |-> TRUE] \in archive
      BY <2>2 DEF IInv, ShownIsKept
    <3>2. r = update.revision => WasPublic
      BY <1>2, <2>2 DEF IInv, UpdateFits
    <3>3. archive' = archive \union {[revision |-> update.revision, public |-> WasPublic]}
      BY DEF Edit
    <3>4. WasPublic => [revision |-> update.revision, public |-> WasPublic]
                       = [revision |-> update.revision, public |-> TRUE]
      BY DEF WasPublic
    <3> QED
      BY <3>1, <3>2, <3>3, <3>4
  <2> QED
    BY <2>1, <2>2
<1>8. ReportsAreSettled'
  BY <1>2, <1>3 DEF IInv, Edit, Public, ReportsAreSettled
<1> QED
  BY <1>4, <1>5, <1>6, <1>7, <1>8 DEF IInv

\* A decision or an appeal keeps what is told of the dispatches, and its types hold.
LEMMA DecisionTypes ==
    ASSUME IInv, update' \in Update, update'.carried = update.carried, shown' \subseteq 1 .. MaxRevision,
           UNCHANGED <<archive, claims, amended, jobs, sent, mishaps, faults>>,
           appeal' = NoAppeal \/ appeal' \in [filed_by : Admins, prior : {"rejected", "removed"}],
           reports' \in [Donors -> {"none", "checked", "open", "late", "reviewed", "actioned"}],
           approved \subseteq approved', approved' \subseteq 1 .. MaxRevision,
           causes' \subseteq {"raced", "cut off"},
           \/ UNCHANGED dispatches
           \/ \E kind \in Kinds, revision \in 0 .. MaxRevision :
                  Dispatches(kind, revision) /\ (kind = "publication" => revision \in approved')
    PROVE  (TypeOK /\ DispatchesFit /\ ClaimsFit /\ CorrectionsFit)'
<1>1. /\ dispatches' \in [Processes -> Dispatch]
      /\ \A p \in Processes : \/ dispatches'[p] = dispatches[p]
                              \/ /\ dispatches'[p].kind \in Kinds /\ dispatches'[p].at = "state"
                                 /\ dispatches'[p].kind = "publication" => dispatches'[p].revision \in approved'
  <2>1. CASE UNCHANGED dispatches
    BY <2>1 DEF IInv, TypeOK
  <2>2. ASSUME NEW kind \in Kinds, NEW revision \in 0 .. MaxRevision,
               Dispatches(kind, revision), kind = "publication" => revision \in approved'
        PROVE  /\ dispatches' \in [Processes -> Dispatch]
               /\ \A p \in Processes :
                      \/ dispatches'[p] = dispatches[p]
                      \/ /\ dispatches'[p].kind \in Kinds /\ dispatches'[p].at = "state"
                         /\ dispatches'[p].kind = "publication" => dispatches'[p].revision \in approved'
    <3>1. TypeOK
      BY DEF IInv
    <3>2. /\ dispatches' \in [Processes -> Dispatch]
          /\ \A p \in Processes : \/ dispatches'[p] = dispatches[p]
                                  \/ /\ dispatches'[p].kind = kind /\ dispatches'[p].revision = revision
                                     /\ dispatches'[p].at = "state"
      BY <2>2, <3>1, StartsDispatch
    <3> QED
      BY <2>2, <3>2
  <2> QED
    BY <2>1, <2>2
<1>2. TypeOK'
  BY <1>1 DEF IInv, TypeOK
<1> QED
  BY <1>1, <1>2, DecisionFrame

\* A publication approves and shows the revision the update has.
LEMMA PublishesType ==
    ASSUME IInv, Publishes, update.status # "none"
    PROVE  /\ update' \in Update /\ update'.status = "published" /\ update'.revision = update.revision
           /\ update'.carried = update.carried
           /\ shown' = shown \union {update.revision} /\ shown' \subseteq 1 .. MaxRevision
           /\ approved' = approved \union {update.revision} /\ approved' \subseteq 1 .. MaxRevision
           /\ \E kind \in Kinds, revision \in 0 .. MaxRevision :
                  Dispatches(kind, revision) /\ (kind = "publication" => revision \in approved')
<1>1. update.revision \in 1 .. MaxRevision /\ TypeOK
  BY RevisionType DEF IInv
<1>2. Moves("published", update.revision) /\ Dispatches("publication", update.revision)
      /\ approved' = approved \union {update.revision}
  BY DEF Publishes
<1>3. /\ update' \in Update /\ update'.status = "published" /\ update'.revision = update.revision
      /\ update'.carried = update.carried
      /\ shown' = shown \union {update.revision} /\ shown' \subseteq 1 .. MaxRevision
  BY <1>1, <1>2, MovesType DEF Public
<1>4. update.revision \in 0 .. MaxRevision /\ approved' \subseteq 1 .. MaxRevision
  <2>1. approved \subseteq 1 .. MaxRevision
    BY <1>1 DEF TypeOK
  <2>2. update.revision \in 0 .. MaxRevision
    BY <1>1 DEF TypeOK, Update
  <2> QED
    BY <1>1, <1>2, <2>1, <2>2
<1> QED
  BY <1>2, <1>3, <1>4 DEF Kinds

\* What a step must keep that moves the update on without another revision: only
\* approved ones are published, and only shown or published ones are shown.
LEMMA ModerationMoves ==
    ASSUME IInv, update'.revision = update.revision, update.status # "none", update'.status # "none",
           update'.status \in {"pending", "published_pending_review"} => FALSE,
           shown' = IF update'.status \in Public THEN shown \union {update.revision} ELSE shown,
           approved \subseteq approved', update'.status = "published" => update.revision \in approved',
           UNCHANGED <<archive, sent>>
    PROVE  (UpdateFits /\ ShownIsKept /\ OnlyApprovedIsSent)'
<1>1. update.revision \in 1 .. update.revision
  <2>1. update.revision \in 1 .. MaxRevision
    BY RevisionType
  <2> QED
    BY <2>1, UpdatesAssumption
<1>2. UpdateFits'
  BY <1>1 DEF IInv, UpdateFits
<1>3. ShownIsKept'
  BY DEF IInv, ShownIsKept
<1>4. OnlyApprovedIsSent'
  BY DEF IInv, OnlyApprovedIsSent
<1> QED
  BY <1>2, <1>3, <1>4

\* A decision of a moderator keeps the invariant.
LEMMA DecideStep ==
    ASSUME IInv, NEW action \in DOMAIN Transition, Decide(action)
    PROVE  IInv'
<1>1. action \in {"approve", "reject", "remove", "reinstate"} /\ update.status \in Transition[action]
  BY DEF Transition, Decide
<1>2. /\ update.status # "none" /\ update.status # "appealed"
      /\ update.revision \in 1 .. MaxRevision
  <2>1. update.status \notin {"none", "appealed"}
    BY <1>1 DEF Transition, Public
  <2> QED
    BY <2>1, RevisionType
<1>3. UNCHANGED <<archive, appeal, claims, amended, jobs, sent, mishaps, faults>>
  BY DEF Decide, recipients
<1>4. causes' \subseteq {"raced", "cut off"}
  BY DEF Decide, NotesRace, IInv, TypeOK
<1>5. /\ reports' = [d \in Donors |->
                        IF reports[d] \notin {"open", "late"} THEN reports[d]
                        ELSE IF action \in {"remove", "reject"} THEN "actioned" ELSE "reviewed"]
  BY DEF Decide
<1>6. reports' \in [Donors -> {"none", "checked", "open", "late", "reviewed", "actioned"}]
  BY <1>5 DEF IInv, TypeOK
<1>7. /\ update' \in Update /\ update'.revision = update.revision /\ update'.carried = update.carried
      /\ update'.status \in {"published", "rejected", "removed"}
      /\ shown' \subseteq 1 .. MaxRevision
      /\ shown' = IF update'.status \in Public THEN shown \union {update.revision} ELSE shown
      /\ approved \subseteq approved' /\ approved' \subseteq 1 .. MaxRevision
      /\ update'.status = "published" => update.revision \in approved'
      /\ \/ UNCHANGED dispatches
         \/ \E kind \in Kinds, revision \in 0 .. MaxRevision :
                Dispatches(kind, revision) /\ (kind = "publication" => revision \in approved')
  <2>1. CASE Publishes
    BY <1>2, <2>1, PublishesType DEF Public
  <2>2. CASE action = "reject" /\ Moves("rejected", update.revision) /\ UNCHANGED <<approved, dispatches>>
    <3>1. "rejected" \notin Public
      BY DEF Public
    <3>2. /\ update' \in Update /\ update'.revision = update.revision /\ update'.carried = update.carried
          /\ update'.status = "rejected" /\ shown' = shown /\ shown' \subseteq 1 .. MaxRevision
      BY <1>2, <2>2, <3>1, MovesType DEF IInv
    <3> QED
      BY <2>2, <3>1, <3>2 DEF IInv, TypeOK
  <2>3. CASE /\ action = "remove" /\ Moves("removed", update.revision) /\ UNCHANGED approved
             /\ Dispatches("removal", update.revision)
    <3>1. "removed" \notin Public
      BY DEF Public
    <3>2. /\ update' \in Update /\ update'.revision = update.revision /\ update'.carried = update.carried
          /\ update'.status = "removed" /\ shown' = shown /\ shown' \subseteq 1 .. MaxRevision
      BY <1>2, <2>3, <3>1, MovesType DEF IInv
    <3>3. "removal" \in Kinds /\ update.revision \in 0 .. MaxRevision
      BY <1>2, UpdatesAssumption DEF Kinds
    <3> QED
      BY <2>3, <3>1, <3>2, <3>3 DEF IInv, TypeOK
  <2> QED
    BY <2>1, <2>2, <2>3 DEF Decide
<1>8. appeal' = NoAppeal \/ appeal' \in [filed_by : Admins, prior : {"rejected", "removed"}]
  BY <1>3 DEF IInv, TypeOK
<1>9. (TypeOK /\ DispatchesFit /\ ClaimsFit /\ CorrectionsFit)'
  BY <1>3, <1>4, <1>6, <1>7, <1>8, DecisionTypes
<1>10. (UpdateFits /\ ShownIsKept /\ OnlyApprovedIsSent)'
  BY <1>2, <1>3, <1>7, ModerationMoves
<1>11. AppealIsPending'
  BY <1>2, <1>3, <1>7 DEF IInv, AppealIsPending
<1>12. ReportsAreSettled'
  BY <1>5, <1>6 DEF ReportsAreSettled
<1> QED
  BY <1>9, <1>10, <1>11, <1>12 DEF IInv

\* Filing an appeal keeps the invariant.
LEMMA FileAppealStep ==
    ASSUME IInv, NEW a \in Admins, FileAppeal(a)
    PROVE  IInv'
<1>1. /\ update.status \in {"rejected", "removed"} /\ update.revision \in 1 .. MaxRevision
      /\ update.status \notin Public
  <2>1. update.status \in {"rejected", "removed"}
    BY DEF FileAppeal
  <2> QED
    BY <2>1, RevisionType DEF Public
<1>2. UNCHANGED <<archive, reports, claims, amended, jobs, dispatches, approved, sent, mishaps, causes, faults>>
  BY DEF FileAppeal, recipients
<1>3. "appealed" \notin Public /\ Moves("appealed", update.revision)
  BY DEF FileAppeal, Public
<1>4. /\ update' \in Update /\ update'.revision = update.revision /\ update'.carried = update.carried
      /\ update'.status = "appealed" /\ shown' = shown /\ shown' \subseteq 1 .. MaxRevision
  BY <1>1, <1>3, MovesType DEF IInv
<1>5. appeal' = [filed_by |-> a, prior |-> update.status]
  BY DEF FileAppeal
<1>6. appeal' \in [filed_by : Admins, prior : {"rejected", "removed"}] /\ appeal' # NoAppeal
  BY <1>1, <1>5 DEF NoAppeal
<1>7. (TypeOK /\ DispatchesFit /\ ClaimsFit /\ CorrectionsFit)'
  <2>1. /\ reports' \in [Donors -> {"none", "checked", "open", "late", "reviewed", "actioned"}]
        /\ approved' \subseteq 1 .. MaxRevision /\ causes' \subseteq {"raced", "cut off"}
    BY <1>2 DEF IInv, TypeOK
  <2> QED
    BY <1>2, <1>4, <1>6, <2>1, DecisionTypes
<1>8. (UpdateFits /\ ShownIsKept /\ OnlyApprovedIsSent)'
  BY <1>1, <1>2, <1>3, <1>4, ModerationMoves
<1>9. AppealIsPending'
  BY <1>4, <1>6 DEF AppealIsPending
<1>10. ReportsAreSettled'
  BY <1>1, <1>2 DEF IInv, ReportsAreSettled
<1> QED
  BY <1>7, <1>8, <1>9, <1>10 DEF IInv

\* Deciding an appeal keeps the invariant.
LEMMA DecideAppealStep ==
    ASSUME IInv, NEW a \in Admins, DecideAppeal(a)
    PROVE  IInv'
<1>1. /\ update.status = "appealed" /\ update.revision \in 1 .. MaxRevision
      /\ appeal \in [filed_by : Admins, prior : {"rejected", "removed"}]
  <2>1. appeal # NoAppeal
    BY DEF DecideAppeal
  <2>2. update.status = "appealed" /\ appeal \in [filed_by : Admins, prior : {"rejected", "removed"}]
    BY <2>1 DEF IInv, AppealIsPending, TypeOK
  <2> QED
    BY <2>2, RevisionType
<1>2. UNCHANGED <<archive, reports, claims, amended, jobs, sent, mishaps, faults>> /\ appeal' = NoAppeal
  BY DEF DecideAppeal, recipients
<1>3. /\ update' \in Update /\ update'.revision = update.revision /\ update'.carried = update.carried
      /\ update'.status \in {"published", "rejected", "removed"}
      /\ shown' \subseteq 1 .. MaxRevision
      /\ shown' = IF update'.status \in Public THEN shown \union {update.revision} ELSE shown
      /\ approved \subseteq approved' /\ approved' \subseteq 1 .. MaxRevision
      /\ update'.status = "published" => update.revision \in approved'
      /\ causes' \subseteq {"raced", "cut off"}
      /\ \/ UNCHANGED dispatches
         \/ \E kind \in Kinds, revision \in 0 .. MaxRevision :
                Dispatches(kind, revision) /\ (kind = "publication" => revision \in approved')
  <2>1. CASE Publishes /\ NotesRace
    <3>1. causes' \subseteq {"raced", "cut off"}
      BY <2>1 DEF NotesRace, IInv, TypeOK
    <3> QED
      BY <1>1, <2>1, <3>1, PublishesType DEF Public
  <2>2. CASE Moves(appeal.prior, update.revision) /\ UNCHANGED <<approved, dispatches, causes>>
    <3>1. appeal.prior \in {"rejected", "removed"} /\ appeal.prior \notin Public
      BY <1>1 DEF Public
    <3>2. /\ update' \in Update /\ update'.revision = update.revision /\ update'.carried = update.carried
          /\ update'.status = appeal.prior /\ shown' = shown /\ shown' \subseteq 1 .. MaxRevision
      BY <1>1, <2>2, <3>1, MovesType DEF IInv
    <3> QED
      BY <2>2, <3>1, <3>2 DEF IInv, TypeOK
  <2> QED
    BY <2>1, <2>2 DEF DecideAppeal
<1>4. (TypeOK /\ DispatchesFit /\ ClaimsFit /\ CorrectionsFit)'
  <2>1. reports' \in [Donors -> {"none", "checked", "open", "late", "reviewed", "actioned"}]
    BY <1>2 DEF IInv, TypeOK
  <2> QED
    BY <1>2, <1>3, <2>1, DecisionTypes
<1>5. (UpdateFits /\ ShownIsKept /\ OnlyApprovedIsSent)'
  BY <1>1, <1>2, <1>3, ModerationMoves
<1>6. AppealIsPending'
  BY <1>2, <1>3 DEF AppealIsPending
<1>7. ReportsAreSettled'
  <2>1. "appealed" \notin Public
    BY DEF Public
  <2> QED
    BY <1>1, <1>2, <2>1 DEF IInv, ReportsAreSettled
<1> QED
  BY <1>4, <1>5, <1>6, <1>7 DEF IInv

\* Reporting an update keeps the invariant.
LEMMA ReportStep ==
    ASSUME IInv, NEW d \in Donors, CheckReport(d) \/ InsertReport(d)
    PROVE  IInv'
<1>1. UNCHANGED <<update, archive, appeal, claims, amended, jobs, dispatches, approved, sent, shown,
                  mishaps, causes, faults>>
  BY DEF CheckReport, InsertReport, recipients, history
<1>2. PICK report \in {"checked", "open", "late"} :
        /\ reports' = [reports EXCEPT ![d] = report]
        /\ report = "open" => update.status \in Public
  <2>1. CASE CheckReport(d)
    BY <2>1 DEF CheckReport
  <2>2. CASE InsertReport(d)
    BY <2>2 DEF InsertReport
  <2> QED
    BY <2>1, <2>2
<1>3. TypeOK'
  BY <1>1, <1>2 DEF IInv, TypeOK
<1>4. (DispatchesFit /\ ClaimsFit /\ CorrectionsFit)'
  BY <1>1, <1>3, DecisionFrame
<1>5. (UpdateFits /\ AppealIsPending /\ ShownIsKept /\ OnlyApprovedIsSent)'
  BY <1>1 DEF IInv, UpdateFits, AppealIsPending, ShownIsKept, OnlyApprovedIsSent
<1>6. ReportsAreSettled'
  BY <1>1, <1>2 DEF IInv, TypeOK, ReportsAreSettled
<1> QED
  BY <1>3, <1>4, <1>5, <1>6 DEF IInv

\* Asking for the notifications again keeps the invariant.
LEMMA RetryStep ==
    ASSUME IInv, RetryNotifications
    PROVE  IInv'
<1>1. /\ UNCHANGED <<update, archive, appeal, reports, claims, amended, jobs, approved, sent, shown,
                     mishaps, causes, faults>>
      /\ update.status = "published" /\ Dispatches("publication", update.revision)
  BY DEF RetryNotifications, rows, recipients, history
<1>2. /\ \E kind \in Kinds, revision \in 0 .. MaxRevision :
            Dispatches(kind, revision) /\ (kind = "publication" => revision \in approved')
  <2>1. update.revision \in 0 .. MaxRevision /\ update.revision \in approved
    BY <1>1 DEF IInv, TypeOK, Update, UpdateFits
  <2> QED
    BY <1>1, <2>1 DEF Kinds
<1>3. (TypeOK /\ DispatchesFit /\ ClaimsFit /\ CorrectionsFit)'
  <2>1. /\ update' \in Update /\ update'.carried = update.carried /\ shown' \subseteq 1 .. MaxRevision
        /\ appeal' = NoAppeal \/ appeal' \in [filed_by : Admins, prior : {"rejected", "removed"}]
        /\ reports' \in [Donors -> {"none", "checked", "open", "late", "reviewed", "actioned"}]
        /\ approved' \subseteq 1 .. MaxRevision /\ causes' \subseteq {"raced", "cut off"}
    BY <1>1 DEF IInv, TypeOK
  <2> QED
    BY <1>1, <1>2, <2>1, DecisionTypes
<1>4. (UpdateFits /\ AppealIsPending /\ ReportsAreSettled /\ ShownIsKept /\ OnlyApprovedIsSent)'
  BY <1>1 DEF IInv, UpdateFits, AppealIsPending, ReportsAreSettled, ShownIsKept, OnlyApprovedIsSent
<1> QED
  BY <1>3, <1>4 DEF IInv

-----------------------------------------------------------------------------
(* Dispatch *)

\* What the record of one dispatch must be for its step to fit.
LEMMA DispatchesFrame ==
    ASSUME IInv, NEW p \in Processes, UNCHANGED approved, update.carried \subseteq update'.carried,
           \A q \in Processes : q # p => dispatches'[q] = dispatches[q],
           dispatches'[p].kind \in Kinds \/ dispatches'[p].at = "idle",
           dispatches'[p].kind = "publication" => dispatches'[p].revision \in approved,
           dispatches'[p].at \notin {"idle", "state"} =>
               /\ dispatches'[p].todo # {}
               /\ dispatches'[p].kind = "removal" => dispatches'[p].todo \subseteq update'.carried,
           dispatches'[p].at \in {"claim", "send", "release"} => Rows(p)' \subseteq Recipient
    PROVE  DispatchesFit'
<1> SUFFICES ASSUME NEW q \in Processes
    PROVE /\ dispatches'[q].at # "idle" => dispatches'[q].kind \in Kinds
          /\ dispatches'[q].kind = "publication" => dispatches'[q].revision \in approved'
          /\ dispatches'[q].at \notin {"idle", "state"} =>
               /\ dispatches'[q].todo # {}
               /\ dispatches'[q].kind = "removal" => dispatches'[q].todo \subseteq update'.carried
          /\ dispatches'[q].at \in {"claim", "send", "release"} => Rows(q)' \subseteq Recipient
  BY DEF DispatchesFit
<1>1. CASE q = p
  BY <1>1
<1>2. CASE q # p
  BY <1>2, HeldFrame DEF IInv, DispatchesFit
<1> QED
  BY <1>1, <1>2

\* A step with which a dispatch reads, marks or ends.
LEMMA QuietStep ==
    ASSUME IInv, NEW p \in Processes, NEW d \in Dispatch, Set(p, d),
           UNCHANGED <<archive, appeal, reports, claims, amended, jobs, approved, sent, shown>>,
           update' \in Update, update'.status = update.status, update'.revision = update.revision,
           update.carried \subseteq update'.carried, mishaps \subseteq mishaps',
           mishaps' \subseteq Recipient \X {"stranded", "outrun", "unanswered"},
           causes' \subseteq {"raced", "cut off"}, faults' \in 0 .. MaxFaults,
           d.at \notin {"send", "release"},
           d.kind \in Kinds \/ d.at = "idle",
           d.kind = "publication" => d.revision \in approved,
           d.at \notin {"idle", "state"} =>
               d.todo # {} /\ (d.kind = "removal" => d.todo \subseteq update'.carried),
           d.at = "claim" => Rows(p)' \subseteq Recipient
    PROVE  IInv'
<1>1. /\ dispatches' \in [Processes -> Dispatch] /\ dispatches'[p] = d
      /\ \A q \in Processes : q # p => dispatches'[q] = dispatches[q]
  BY SetDispatch DEF IInv
<1>2. TypeOK'
  BY <1>1 DEF IInv, TypeOK
<1>3. ASSUME NEW q \in Processes, NEW k \in Kinds PROVE Held(q, k)' \subseteq Held(q, k)
  <2>1. CASE q = p
    BY <1>1, <2>1 DEF Held
  <2>2. CASE q # p
    BY <1>1, <2>2, HeldFrame
  <2> QED
    BY <2>1, <2>2
<1>4. (ClaimsFit /\ CorrectionsFit)'
  BY <1>2, <1>3, ClaimsFrame
<1>5. DispatchesFit'
  BY <1>1, DispatchesFrame
<1>6. (UpdateFits /\ AppealIsPending /\ ReportsAreSettled /\ ShownIsKept /\ OnlyApprovedIsSent)'
  <2>1. sent' \subseteq approved
    BY DEF IInv, OnlyApprovedIsSent
  <2> QED
    BY <2>1, ModerationFrame
<1> QED
  BY <1>2, <1>4, <1>5, <1>6 DEF IInv

\* What is known of a dispatch under way.
LEMMA DispatchKnown ==
    ASSUME IInv, NEW p \in Processes, dispatches[p].at # "idle"
    PROVE  /\ dispatches[p].kind \in Kinds
           /\ dispatches[p].kind = "publication" => dispatches[p].revision \in approved
           /\ dispatches[p].at # "state" =>
                /\ dispatches[p].todo # {} /\ Serves(p) \in dispatches[p].todo
                /\ dispatches[p].kind = "removal" =>
                     dispatches[p].todo \subseteq update.carried /\ Serves(p) \in update.carried
           /\ dispatches[p].at \in {"claim", "send", "release"} => Rows(p) \subseteq Recipient
<1>1. /\ dispatches[p].kind \in Kinds
      /\ dispatches[p].kind = "publication" => dispatches[p].revision \in approved
      /\ dispatches[p].at # "state" =>
            /\ dispatches[p].todo # {}
            /\ dispatches[p].kind = "removal" => dispatches[p].todo \subseteq update.carried
      /\ dispatches[p].at \in {"claim", "send", "release"} => Rows(p) \subseteq Recipient
  BY DEF IInv, DispatchesFit
<1>2. dispatches[p].todo # {} => Serves(p) \in dispatches[p].todo
  BY DispatchType DEF IInv
<1> QED
  BY <1>1, <1>2

\* What a quiet step of a dispatch leaves as it is.
LEMMA TypeParts ==
    ASSUME IInv
    PROVE  /\ update \in Update /\ faults \in 0 .. MaxFaults
           /\ mishaps \subseteq Recipient \X {"stranded", "outrun", "unanswered"}
           /\ causes \subseteq {"raced", "cut off"}
BY DEF IInv, TypeOK

\* A fault the bound allows stays within the bound.
LEMMA FaultCount ==
    ASSUME IInv, faults < MaxFaults, faults' = faults + 1
    PROVE  faults' \in 0 .. MaxFaults
<1>1. MaxFaults \in Nat
  BY UpdatesAssumption
<1>2. faults \in 0 .. MaxFaults
  BY TypeParts
<1> QED
  BY <1>1, <1>2

\* Reading the channels that are left to serve keeps the invariant.
LEMMA ReadStateStep ==
    ASSUME IInv, NEW p \in Processes, ReadState(p)
    PROVE  IInv'
<1> DEFINE todo == {c \in Channel : Serve(dispatches[p].kind, c)}
           d == IF todo = {} THEN Idle ELSE [dispatches[p] EXCEPT !.at = "read", !.todo = todo]
<1>1. dispatches[p].at = "state" /\ Set(p, d)
  BY DEF ReadState
<1>2. /\ UNCHANGED <<update, archive, appeal, reports, claims, amended, jobs, approved, sent, shown,
                     mishaps, causes, faults>>
  BY DEF ReadState, rows, recipients, history
<1>3. /\ dispatches[p].kind \in Kinds /\ dispatches[p] \in Dispatch
      /\ dispatches[p].kind = "publication" => dispatches[p].revision \in approved
  BY <1>1, DispatchKnown, DispatchType DEF IInv
<1>4. dispatches[p].kind = "removal" => todo \subseteq update.carried
  BY DEF Serve
<1>5. /\ d \in Dispatch /\ d.at \in {"idle", "read"}
      /\ d.kind = "publication" => d.revision \in approved
      /\ d.at = "read" => d.kind \in Kinds /\ d.todo # {} /\ (d.kind = "removal" => d.todo \subseteq update.carried)
  <2>1. CASE todo = {}
    BY <2>1, IdleType DEF Idle
  <2>2. CASE todo # {}
    <3>1. d = [dispatches[p] EXCEPT !.at = "read", !.todo = todo] /\ todo \in SUBSET Channel
      BY <2>2
    <3> HIDE DEF todo, d
    <3>2. d \in Dispatch /\ d.at = "read" /\ d.todo = todo /\ d.kind = dispatches[p].kind
          /\ d.revision = dispatches[p].revision
      BY <1>3, <3>1 DEF Dispatch
    <3> QED
      BY <1>3, <1>4, <2>2, <3>2
  <2> QED
    BY <2>1, <2>2
<1> HIDE DEF d
<1> QED
  BY <1>1, <1>2, <1>5, TypeParts, QuietStep

\* Reading the next chunk of recipients keeps the invariant.
LEMMA ReadChunkStep ==
    ASSUME IInv, NEW p \in Processes, ReadChunk(p)
    PROVE  IInv'
<1> DEFINE found == {r[2] : r \in {r \in Unclaimed(dispatches[p].kind) :
                                      r[1] = Serves(p) /\ r[2] > dispatches[p].last}}
           chunk == {n \in found : Cardinality({m \in found : m < n}) < Chunk}
<1>1. /\ dispatches[p].at = "read"
      /\ \/ chunk = {} /\ Set(p, [dispatches[p] EXCEPT !.at = "mark"])
         \/ \E last \in chunk :
                Set(p, [dispatches[p] EXCEPT !.at = "claim", !.last = last, !.rows = chunk,
                                             !.full = Cardinality(chunk) = Chunk])
  BY DEF ReadChunk
<1>2. UNCHANGED <<update, archive, appeal, reports, claims, amended, jobs, approved, sent, shown,
                  mishaps, causes, faults>>
  BY DEF ReadChunk, rows, recipients, history
<1>3. /\ dispatches[p].kind \in Kinds /\ dispatches[p] \in Dispatch /\ dispatches \in [Processes -> Dispatch]
      /\ dispatches[p].kind = "publication" => dispatches[p].revision \in approved
      /\ dispatches[p].todo # {}
      /\ dispatches[p].kind = "removal" => dispatches[p].todo \subseteq update.carried
  BY <1>1, DispatchKnown, DispatchType DEF IInv
<1>4. \A n \in chunk : n \in Nat /\ <<Serves(p), n>> \in Recipient
  <2>1. Unclaimed(dispatches[p].kind) \subseteq Recipient
    BY DEF Unclaimed, IInv, TypeOK
  <2>2. \A r \in Recipient : r[2] \in Nat /\ r = <<r[1], r[2]>>
    BY RecipientTypes
  <2> QED
    BY <2>1, <2>2
<1> HIDE DEF chunk
<1>5. CASE chunk = {} /\ Set(p, [dispatches[p] EXCEPT !.at = "mark"])
  <2> DEFINE d == [dispatches[p] EXCEPT !.at = "mark"]
  <2>1. d \in Dispatch /\ d.at = "mark" /\ d.todo = dispatches[p].todo /\ d.kind = dispatches[p].kind
        /\ d.revision = dispatches[p].revision /\ Set(p, d)
    BY <1>3, <1>5 DEF Dispatch
  <2> HIDE DEF d
  <2> QED
    BY <1>2, <1>3, <2>1, TypeParts, QuietStep
<1>6. ASSUME NEW last \in chunk,
             Set(p, [dispatches[p] EXCEPT !.at = "claim", !.last = last, !.rows = chunk,
                                          !.full = Cardinality(chunk) = Chunk])
      PROVE  IInv'
  <2> DEFINE d == [dispatches[p] EXCEPT !.at = "claim", !.last = last, !.rows = chunk,
                                        !.full = Cardinality(chunk) = Chunk]
  <2>1. (Cardinality(chunk) = Chunk) \in BOOLEAN
    OBVIOUS
  <2>2. last \in Nat /\ chunk \in SUBSET Nat
    BY <1>4
  <2>3. d \in Dispatch /\ d.at = "claim" /\ d.todo = dispatches[p].todo /\ d.kind = dispatches[p].kind
        /\ d.revision = dispatches[p].revision /\ d.rows = chunk
    BY <1>3, <2>1, <2>2 DEF Dispatch
  <2>4. Set(p, d)
    BY <1>6
  <2> HIDE DEF d
  <2>5. dispatches'[p] = d
    BY <1>3, <2>4 DEF Set
  <2>6. Rows(p)' \subseteq Recipient
    BY <1>4, <2>3, <2>5 DEF Rows, Serves
  <2> QED
    BY <1>2, <1>3, <2>3, <2>4, <2>6, TypeParts, QuietStep
<1> QED
  BY <1>1, <1>5, <1>6

\* Marking a channel as done keeps the invariant.
LEMMA MarkStep ==
    ASSUME IInv, NEW p \in Processes, Mark(p)
    PROVE  IInv'
<1> DEFINE d == IF dispatches[p].todo = {Serves(p)} THEN Idle
                ELSE [dispatches[p] EXCEPT !.at = "read", !.todo = @ \ {Serves(p)}, !.last = 0]
<1>1. dispatches[p].at = "mark" /\ Set(p, d)
  BY DEF Mark
<1>2. UNCHANGED <<archive, appeal, reports, claims, amended, jobs, approved, sent, shown,
                  mishaps, causes, faults>>
  BY DEF Mark, recipients, history
<1>3. /\ dispatches[p].kind \in Kinds /\ dispatches[p] \in Dispatch /\ Serves(p) \in Channel
      /\ dispatches[p].kind = "publication" => dispatches[p].revision \in approved
      /\ dispatches[p].todo # {}
      /\ dispatches[p].kind = "removal" => dispatches[p].todo \subseteq update.carried
  BY <1>1, DispatchKnown, DispatchType DEF IInv
<1>4. /\ update' \in Update /\ update'.status = update.status /\ update'.revision = update.revision
      /\ update.carried \subseteq update'.carried
  <2>1. update \in Update
    BY TypeParts
  <2>2. \/ update' = [update EXCEPT !.carried = @ \union {Serves(p)}]
        \/ update' = [update EXCEPT !.corrected = @ \union {Serves(p)}]
    BY DEF Mark
  <2> QED
    BY <1>3, <2>1, <2>2 DEF Update
<1>5. /\ d \in Dispatch /\ d.at \in {"idle", "read"}
      /\ d.kind = "publication" => d.revision \in approved
      /\ d.at = "read" => d.kind \in Kinds /\ d.todo # {} /\ (d.kind = "removal" => d.todo \subseteq update.carried)
  <2>1. CASE dispatches[p].todo = {Serves(p)}
    BY <2>1, IdleType DEF Idle
  <2>2. CASE dispatches[p].todo # {Serves(p)}
    <3>1. d = [dispatches[p] EXCEPT !.at = "read", !.todo = @ \ {Serves(p)}, !.last = 0]
      BY <2>2
    <3> HIDE DEF d
    <3>2. d \in Dispatch /\ d.at = "read" /\ d.todo = dispatches[p].todo \ {Serves(p)}
          /\ d.kind = dispatches[p].kind /\ d.revision = dispatches[p].revision
      BY <1>3, <3>1 DEF Dispatch
    <3> QED
      BY <1>3, <2>2, <3>2
  <2> QED
    BY <2>1, <2>2
<1> HIDE DEF d
<1> QED
  BY <1>1, <1>2, <1>4, <1>5, TypeParts, QuietStep

\* A process that stops keeps the invariant.
LEMMA StopStep ==
    ASSUME IInv, NEW p \in Processes, Stop(p)
    PROVE  IInv'
<1>1. /\ UNCHANGED <<update, archive, appeal, reports, claims, amended, jobs, approved, sent, shown>>
      /\ Set(p, Idle) /\ faults < MaxFaults /\ faults' = faults + 1
  BY DEF Stop, rows, recipients
<1>2. causes' \subseteq {"raced", "cut off"}
  BY TypeParts DEF Stop, CutOff
<1>3. mishaps \subseteq mishaps' /\ mishaps' \subseteq Recipient \X {"stranded", "outrun", "unanswered"}
  <2>1. CASE dispatches[p].at \in {"send", "release"} /\ dispatches[p].kind = "publication"
    <3>1. Rows(p) \subseteq Recipient
      BY <2>1, DispatchKnown
    <3> QED
      BY <2>1, <3>1, TypeParts DEF Stop
  <2>2. CASE ~(dispatches[p].at \in {"send", "release"} /\ dispatches[p].kind = "publication")
    BY <2>2, TypeParts DEF Stop
  <2> QED
    BY <2>1, <2>2
<1>4. faults' \in 0 .. MaxFaults
  BY <1>1, FaultCount
<1>5. Idle.at = "idle" /\ Idle.kind # "publication"
  BY DEF Idle
<1> QED
  BY <1>1, <1>2, <1>3, <1>4, <1>5, TypeParts, IdleType, QuietStep

\* A step of a dispatch with a chunk in hand: it goes on with the same update or ends.
LEMMA ChunkStep ==
    ASSUME IInv, NEW p \in Processes, NEW d \in Dispatch, Set(p, d),
           dispatches[p].at \in {"claim", "send", "release"},
           UNCHANGED <<update, archive, appeal, reports, approved, shown>>, sent' \subseteq approved,
           \/ d = Idle
           \/ /\ d.kind = dispatches[p].kind /\ d.revision = dispatches[p].revision
              /\ d.todo = dispatches[p].todo
              /\ d.at \in {"send", "release"} => Rows(p)' \subseteq Recipient
              /\ d.at \in {"send", "release", "read", "mark"},
           (TypeOK /\ ClaimsFit /\ CorrectionsFit)'
    PROVE  IInv'
<1>1. /\ dispatches'[p] = d
      /\ \A q \in Processes : q # p => dispatches'[q] = dispatches[q]
  BY SetDispatch DEF IInv
<1>2. /\ dispatches[p].kind \in Kinds
      /\ dispatches[p].kind = "publication" => dispatches[p].revision \in approved
      /\ dispatches[p].todo # {}
      /\ dispatches[p].kind = "removal" => dispatches[p].todo \subseteq update.carried
  BY DispatchKnown
<1>3. DispatchesFit'
  <2>1. CASE d = Idle
    <3>1. d.at = "idle" /\ d.kind # "publication"
      BY <2>1 DEF Idle
    <3> QED
      BY <1>1, <3>1, DispatchesFrame
  <2>2. CASE d # Idle
    <3>1. /\ d.kind = dispatches[p].kind /\ d.revision = dispatches[p].revision
          /\ d.todo = dispatches[p].todo /\ d.at # "claim"
          /\ d.at \in {"send", "release"} => Rows(p)' \subseteq Recipient
      BY <2>2
    <3> QED
      BY <1>1, <1>2, <3>1, DispatchesFrame
  <2> QED
    BY <2>1, <2>2
<1>4. (UpdateFits /\ AppealIsPending /\ ReportsAreSettled /\ ShownIsKept /\ OnlyApprovedIsSent)'
  BY ModerationFrame
<1> QED
  BY <1>3, <1>4 DEF IInv

\* After a chunk a dispatch reads the next one or marks its channel.
LEMMA AfterChunkType ==
    ASSUME NEW d \in Dispatch
    PROVE  /\ AfterChunk(d) \in Dispatch /\ AfterChunk(d).at \in {"read", "mark"}
           /\ AfterChunk(d).kind = d.kind /\ AfterChunk(d).revision = d.revision
           /\ AfterChunk(d).todo = d.todo
BY DEF AfterChunk, Dispatch

\* A chunk in hand is claimed by this dispatch alone.
LEMMA HeldIsMine ==
    ASSUME IInv, NEW p \in Processes, dispatches[p].at \in {"send", "release"}
    PROVE  /\ dispatches[p].kind \in Kinds /\ Rows(p) \subseteq Recipient
           /\ Held(p, dispatches[p].kind) = Rows(p)
           /\ \A k \in Kinds : k # dispatches[p].kind => Held(p, k) = {}
BY DispatchKnown DEF Held

\* Claiming the recipients of a chunk keeps the invariant.
LEMMA ClaimStep ==
    ASSUME IInv, NEW p \in Processes, Claim(p)
    PROVE  IInv'
<1> DEFINE taken == Claimable(p)
           d == IF taken = {} THEN AfterChunk(dispatches[p])
                ELSE [dispatches[p] EXCEPT !.at = "send", !.rows = {r[2] : r \in taken}]
<1>1. /\ dispatches[p].at = "claim" /\ Set(p, d)
      /\ IF dispatches[p].kind = "publication" THEN claims' = claims \union taken /\ UNCHANGED amended
         ELSE amended' = amended \union taken /\ UNCHANGED claims
      /\ UNCHANGED <<update, archive, appeal, reports, jobs, approved, sent, shown, mishaps, causes, faults>>
  BY DEF Claim, rows, history
<1>2. /\ dispatches[p].kind \in Kinds /\ dispatches[p] \in Dispatch /\ dispatches \in [Processes -> Dispatch]
      /\ dispatches[p].todo # {} /\ Rows(p) \subseteq Recipient
      /\ dispatches[p].kind = "removal" => Serves(p) \in update.carried
  BY <1>1, DispatchKnown, DispatchType DEF IInv
<1>3. /\ taken \subseteq Recipient
      /\ dispatches[p].kind = "publication" => taken \intersect claims = {}
      /\ dispatches[p].kind = "removal" => taken \subseteq claims \ amended
  BY <1>2 DEF Claimable, Unclaimed, Kinds
<1>4. \A r \in taken : r[1] = Serves(p) /\ r = <<Serves(p), r[2]>> /\ r[2] \in Nat
  BY <1>2, RecipientTypes DEF Claimable, Rows
<1>5. /\ d \in Dispatch /\ d.kind = dispatches[p].kind /\ d.revision = dispatches[p].revision
      /\ d.todo = dispatches[p].todo /\ d.at \in {"send", "read", "mark"}
      /\ d.at = "send" => d.rows = {r[2] : r \in taken}
  <2>1. CASE taken = {}
    BY <1>2, <2>1, AfterChunkType
  <2>2. CASE taken # {}
    <3>1. d = [dispatches[p] EXCEPT !.at = "send", !.rows = {r[2] : r \in taken}]
      BY <2>2
    <3>2. {r[2] : r \in taken} \in SUBSET Nat
      BY <1>4
    <3> HIDE DEF d, taken
    <3> QED
      BY <1>2, <3>1, <3>2 DEF Dispatch
  <2> QED
    BY <2>1, <2>2
<1> HIDE DEF d, taken
<1>6. /\ dispatches' \in [Processes -> Dispatch] /\ dispatches'[p] = d
      /\ \A q \in Processes : q # p => dispatches'[q] = dispatches[q]
  BY <1>1, <1>5, SetDispatch DEF IInv
<1>7. d.at = "send" => Rows(p)' = taken
  <2>1. Serves(p)' = Serves(p)
    BY <1>5, <1>6 DEF Serves
  <2>2. d.at = "send" => Rows(p)' = {Serves(p)} \X {r[2] : r \in taken}
    BY <1>5, <1>6, <2>1 DEF Rows
  <2>3. {Serves(p)} \X {r[2] : r \in taken} = taken
    BY <1>4
  <2> QED
    BY <2>2, <2>3
<1>8. /\ \A k \in Kinds : Held(p, k)' = IF k = dispatches[p].kind /\ d.at = "send" THEN taken ELSE {}
      /\ \A q \in Processes, k \in Kinds : q # p => Held(q, k)' = Held(q, k)
  <2>1. \A k \in Kinds : Held(p, k)' = IF k = dispatches[p].kind /\ d.at = "send" THEN taken ELSE {}
    BY <1>5, <1>6, <1>7 DEF Held
  <2>2. \A q \in Processes, k \in Kinds : q # p => Held(q, k)' = Held(q, k)
    BY <1>6, HeldFrame
  <2> QED
    BY <2>1, <2>2
<1>9. TypeOK'
  <2>1. claims' \subseteq Recipient /\ amended' \subseteq claims'
    <3>1. claims \subseteq Recipient /\ amended \subseteq claims
      BY DEF IInv, TypeOK
    <3>2. CASE dispatches[p].kind = "publication"
      BY <1>1, <1>3, <3>1, <3>2
    <3>3. CASE dispatches[p].kind = "removal"
      <4>1. amended' = amended \union taken /\ claims' = claims /\ taken \subseteq claims
        BY <1>1, <1>3, <3>3
      <4> QED
        BY <3>1, <4>1
    <3> QED
      BY <1>2, <3>2, <3>3 DEF Kinds
  <2> QED
    BY <1>1, <1>6, <2>1 DEF IInv, TypeOK
<1>10. (ClaimsFit /\ CorrectionsFit)'
  <2>1. CASE dispatches[p].kind = "publication"
    <3>1. /\ claims' = claims \union taken /\ UNCHANGED <<amended, jobs, mishaps, update>>
          /\ taken \intersect claims = {} /\ Held(p, "removal")' = {} /\ Held(p, "publication")' \subseteq taken
      BY <1>1, <1>3, <1>8, <2>1 DEF Kinds
    <3>2. \A q \in Processes, k \in Kinds : q # p => Held(q, k)' = Held(q, k)
      BY <1>8
    <3>3. ClaimsFit'
      BY <1>8, <2>1, <3>1, <3>2 DEF IInv, ClaimsFit, Holds, Kinds
    <3>4. CorrectionsFit'
      BY <3>1, <3>2 DEF IInv, CorrectionsFit, Holds, Kinds
    <3> QED
      BY <3>3, <3>4
  <2>2. CASE dispatches[p].kind = "removal"
    <3>1. /\ amended' = amended \union taken /\ UNCHANGED <<claims, jobs, mishaps, update>>
          /\ taken \intersect amended = {} /\ Held(p, "publication")' = {} /\ Held(p, "removal")' \subseteq taken
      BY <1>1, <1>3, <1>8, <2>2 DEF Kinds
    <3>2. \A q \in Processes, k \in Kinds : q # p => Held(q, k)' = Held(q, k)
      BY <1>8
    <3>3. \A r \in taken : r[1] \in update.carried
      BY <1>2, <1>4, <2>2
    <3>4. ClaimsFit'
      BY <3>1, <3>2, <3>3 DEF IInv, ClaimsFit, Holds, Kinds
    <3>5. CorrectionsFit'
      BY <3>1, <3>2 DEF IInv, CorrectionsFit, Holds, Kinds
    <3> QED
      BY <3>4, <3>5
  <2> QED
    BY <1>2, <2>1, <2>2 DEF Kinds
<1>11. sent' \subseteq approved
  BY <1>1 DEF IInv, OnlyApprovedIsSent
<1>12. d.at \in {"send", "release"} => Rows(p)' \subseteq Recipient
  BY <1>3, <1>5, <1>7
<1> QED
  BY <1>1, <1>5, <1>9, <1>10, <1>11, <1>12, ChunkStep

\* Queueing adds one job for every claim the process holds.
LEMMA QueuesJobs ==
    ASSUME IInv, NEW p \in Processes, dispatches[p].at = "send", Queues(p)
    PROVE  /\ jobs' \in [Recipient \X Kinds -> Nat]
           /\ \A r \in Recipient, k \in Kinds :
                  jobs'[<<r, k>>] = IF r \in Held(p, k) THEN jobs[<<r, k>>] + 1 ELSE jobs[<<r, k>>]
           /\ sent' \subseteq approved
<1>1. /\ jobs \in [Recipient \X Kinds -> Nat]
      /\ jobs' = [j \in Recipient \X Kinds |->
                     IF j \in Rows(p) \X {dispatches[p].kind} THEN jobs[j] + 1 ELSE jobs[j]]
  BY DEF IInv, TypeOK, Queues
<1>2. \A k \in Kinds : Held(p, k) = IF k = dispatches[p].kind THEN Rows(p) ELSE {}
  BY HeldIsMine
<1>3. sent' \subseteq approved
  BY DispatchKnown DEF IInv, OnlyApprovedIsSent, Queues
<1>4. ASSUME NEW r \in Recipient, NEW k \in Kinds
      PROVE  jobs'[<<r, k>>] = IF r \in Held(p, k) THEN jobs[<<r, k>>] + 1 ELSE jobs[<<r, k>>]
  <2>1. <<r, k>> \in Recipient \X Kinds
    OBVIOUS
  <2>2. <<r, k>> \in Rows(p) \X {dispatches[p].kind} <=> r \in Rows(p) /\ k = dispatches[p].kind
    OBVIOUS
  <2> QED
    BY <1>1, <1>2, <2>1, <2>2
<1>5. jobs' \in [Recipient \X Kinds -> Nat]
  BY <1>1
<1> QED
  BY <1>3, <1>4, <1>5

\* Queueing the notifications of a chunk keeps the invariant.
LEMMA SendStep ==
    ASSUME IInv, NEW p \in Processes, Send(p)
    PROVE  IInv'
<1> DEFINE d == AfterChunk(dispatches[p])
<1>1. /\ dispatches[p].at = "send" /\ Queues(p) /\ Set(p, d)
      /\ UNCHANGED <<update, archive, appeal, reports, claims, amended, approved, shown, mishaps, causes, faults>>
  BY DEF Send, rows
<1>2. dispatches[p] \in Dispatch
  BY DispatchType DEF IInv
<1>3. /\ d \in Dispatch /\ d.kind = dispatches[p].kind /\ d.revision = dispatches[p].revision
      /\ d.todo = dispatches[p].todo /\ d.at \in {"read", "mark"}
  BY <1>2, AfterChunkType
<1> HIDE DEF d
<1>4. /\ jobs' \in [Recipient \X Kinds -> Nat]
      /\ \A r \in Recipient, k \in Kinds :
             jobs'[<<r, k>>] = IF r \in Held(p, k) THEN jobs[<<r, k>>] + 1 ELSE jobs[<<r, k>>]
      /\ sent' \subseteq approved
  BY <1>1, QueuesJobs
<1>5. /\ dispatches' \in [Processes -> Dispatch] /\ dispatches'[p] = d
      /\ \A q \in Processes : q # p => dispatches'[q] = dispatches[q]
  BY <1>1, <1>3, SetDispatch DEF IInv
<1>6. /\ \A k \in Kinds : Held(p, k)' = {}
      /\ \A q \in Processes, k \in Kinds : q # p => Held(q, k)' = Held(q, k)
  <2>1. \A k \in Kinds : Held(p, k)' = {}
    BY <1>3, <1>5 DEF Held
  <2>2. \A q \in Processes, k \in Kinds : q # p => Held(q, k)' = Held(q, k)
    BY <1>5, HeldFrame
  <2> QED
    BY <2>1, <2>2
<1>7. TypeOK'
  <2>1. sent' \subseteq 1 .. MaxRevision
    BY <1>4 DEF IInv, TypeOK
  <2> QED
    BY <1>1, <1>4, <1>5, <2>1 DEF IInv, TypeOK
<1>8. jobs \in [Recipient \X Kinds -> Nat]
  BY DEF IInv, TypeOK
<1>9. ClaimsFit'
  <2> SUFFICES ASSUME NEW r \in Recipient, ~Holds(r, "unanswered"), jobs'[<<r, "publication">>] > 0
      PROVE /\ jobs'[<<r, "publication">>] = 1 /\ r \in claims
            /\ \A q \in Processes : r \notin Held(q, "publication")'
    BY <1>1, <1>6 DEF IInv, ClaimsFit, Holds, Kinds
  <2>1. CASE r \in Held(p, "publication")
    <3>1. jobs[<<r, "publication">>] = 0
      BY <1>8, <2>1, RecipientTypes DEF IInv, ClaimsFit
    <3>2. jobs'[<<r, "publication">>] = 1
      BY <1>4, <2>1, <3>1, RecipientTypes
    <3>3. r \in claims /\ \A q \in Processes : q # p => r \notin Held(q, "publication")
      BY <2>1 DEF IInv, ClaimsFit
    <3> QED
      BY <1>6, <3>2, <3>3, RecipientTypes
  <2>2. CASE r \notin Held(p, "publication")
    <3>1. jobs'[<<r, "publication">>] = jobs[<<r, "publication">>]
      BY <1>4, <2>2, RecipientTypes
    <3> QED
      BY <1>6, <3>1, RecipientTypes DEF IInv, ClaimsFit
  <2> QED
    BY <2>1, <2>2
<1>10. CorrectionsFit'
  <2> SUFFICES ASSUME NEW r \in Recipient, ~Holds(r, "outrun")
      PROVE /\ \A q \in Processes : r \in Held(q, "removal")' => r \in amended
            /\ \A q, s \in Processes : q # s => r \notin Held(q, "removal")' \intersect Held(s, "removal")'
            /\ ~Holds(r, "unanswered") /\ jobs'[<<r, "removal">>] > 0 =>
                   /\ jobs'[<<r, "removal">>] = 1 /\ r \in amended
                   /\ \A q \in Processes : r \notin Held(q, "removal")'
    BY <1>1 DEF CorrectionsFit, Holds
  <2>1. /\ \A q \in Processes : r \in Held(q, "removal") => r \in amended
        /\ \A q, s \in Processes : q # s => r \notin Held(q, "removal") \intersect Held(s, "removal")
        /\ ~Holds(r, "unanswered") /\ jobs[<<r, "removal">>] > 0 =>
               /\ jobs[<<r, "removal">>] = 1 /\ r \in amended
               /\ \A q \in Processes : r \notin Held(q, "removal")
    BY DEF IInv, CorrectionsFit
  <2>2. CASE r \in Held(p, "removal")
    <3>1. ~Holds(r, "unanswered") => jobs[<<r, "removal">>] = 0
      BY <1>8, <2>1, <2>2, RecipientTypes
    <3>2. ~Holds(r, "unanswered") => jobs'[<<r, "removal">>] = 1
      BY <1>4, <2>2, <3>1, RecipientTypes
    <3> QED
      BY <1>6, <2>1, <2>2, <3>2, RecipientTypes
  <2>3. CASE r \notin Held(p, "removal")
    <3>1. jobs'[<<r, "removal">>] = jobs[<<r, "removal">>]
      BY <1>4, <2>3, RecipientTypes
    <3> QED
      BY <1>6, <2>1, <3>1, RecipientTypes
  <2> QED
    BY <2>2, <2>3
<1> QED
  BY <1>1, <1>3, <1>4, <1>7, <1>9, <1>10, ChunkStep

\* A queue that refuses the notifications keeps the invariant.
LEMMA SendFailsStep ==
    ASSUME IInv, NEW p \in Processes, SendFails(p)
    PROVE  IInv'
<1> DEFINE d == [dispatches[p] EXCEPT !.at = "release"]
<1>1. /\ dispatches[p].at = "send" /\ Set(p, d)
      /\ faults < MaxFaults /\ faults' = faults + 1
      /\ UNCHANGED <<update, archive, appeal, reports, claims, amended, approved, shown, causes>>
      /\ \/ UNCHANGED <<jobs, sent, mishaps>>
         \/ Queues(p) /\ mishaps' = mishaps \union (Rows(p) \X {"unanswered"})
  BY DEF SendFails, rows
<1>2. dispatches[p] \in Dispatch /\ dispatches \in [Processes -> Dispatch] /\ Rows(p) \subseteq Recipient
  BY <1>1, DispatchType, DispatchKnown DEF IInv
<1>3. /\ d \in Dispatch /\ d.kind = dispatches[p].kind /\ d.revision = dispatches[p].revision
      /\ d.todo = dispatches[p].todo /\ d.rows = dispatches[p].rows /\ d.at = "release"
  BY <1>2 DEF Dispatch
<1> HIDE DEF d
<1>4. /\ dispatches' \in [Processes -> Dispatch] /\ dispatches'[p] = d
      /\ \A q \in Processes : q # p => dispatches'[q] = dispatches[q]
  BY <1>1, <1>3, SetDispatch DEF IInv
<1>5. Rows(p)' = Rows(p)
  BY <1>3, <1>4 DEF Rows, Serves
<1>6. \A q \in Processes, k \in Kinds : Held(q, k)' = Held(q, k)
  <2>1. \A k \in Kinds : Held(p, k)' = Held(p, k)
    BY <1>1, <1>3, <1>4, <1>5 DEF Held
  <2>2. \A q \in Processes, k \in Kinds : q # p => Held(q, k)' = Held(q, k)
    BY <1>4, HeldFrame
  <2> QED
    BY <2>1, <2>2
<1>7. /\ jobs' \in [Recipient \X Kinds -> Nat] /\ sent' \subseteq approved
      /\ mishaps \subseteq mishaps' /\ mishaps' \subseteq Recipient \X {"stranded", "outrun", "unanswered"}
      /\ \A r \in Recipient, k \in Kinds :
             jobs'[<<r, k>>] = jobs[<<r, k>>] \/ <<r, "unanswered">> \in mishaps'
  <2>1. CASE UNCHANGED <<jobs, sent, mishaps>>
    BY <2>1, TypeParts DEF IInv, TypeOK, OnlyApprovedIsSent
  <2>2. CASE Queues(p) /\ mishaps' = mishaps \union (Rows(p) \X {"unanswered"})
    <3>1. /\ jobs' \in [Recipient \X Kinds -> Nat]
          /\ \A r \in Recipient, k \in Kinds :
                 jobs'[<<r, k>>] = IF r \in Held(p, k) THEN jobs[<<r, k>>] + 1 ELSE jobs[<<r, k>>]
          /\ sent' \subseteq approved
      BY <1>1, <2>2, QueuesJobs
    <3>2. \A r \in Recipient, k \in Kinds : r \in Held(p, k) => r \in Rows(p)
      BY DEF Held
    <3>3. mishaps' \subseteq Recipient \X {"stranded", "outrun", "unanswered"}
      BY <1>2, <2>2, TypeParts
    <3> QED
      BY <2>2, <3>1, <3>2, <3>3
  <2> QED
    BY <1>1, <2>1, <2>2
<1>8. TypeOK'
  <2>1. sent' \subseteq 1 .. MaxRevision
    BY <1>7 DEF IInv, TypeOK
  <2>2. faults' \in 0 .. MaxFaults
    BY <1>1, FaultCount
  <2> QED
    BY <1>1, <1>4, <1>7, <2>1, <2>2 DEF IInv, TypeOK
<1>9. ClaimsFit'
  <2>1. \A r \in Recipient : <<r, "unanswered">> \notin mishaps' =>
           <<r, "unanswered">> \notin mishaps /\ jobs'[<<r, "publication">>] = jobs[<<r, "publication">>]
    BY <1>7, RecipientTypes
  <2> QED
    BY <1>1, <1>6, <2>1, RecipientTypes DEF IInv, ClaimsFit, Holds
<1>10. CorrectionsFit'
  <2>1. \A r \in Recipient : <<r, "unanswered">> \notin mishaps' =>
           <<r, "unanswered">> \notin mishaps /\ jobs'[<<r, "removal">>] = jobs[<<r, "removal">>]
    BY <1>7, RecipientTypes
  <2>2. \A r \in Recipient : <<r, "outrun">> \notin mishaps' => <<r, "outrun">> \notin mishaps
    BY <1>7
  <2> QED
    BY <1>1, <1>6, <2>1, <2>2, RecipientTypes DEF IInv, CorrectionsFit, Holds
<1> QED
  BY <1>1, <1>2, <1>3, <1>5, <1>7, <1>8, <1>9, <1>10, ChunkStep

\* Giving back the claims of a failed chunk keeps the invariant.
LEMMA ReleaseStep ==
    ASSUME IInv, NEW p \in Processes, Release(p)
    PROVE  IInv'
<1>1. /\ dispatches[p].at = "release" /\ Set(p, Idle)
      /\ amended' = amended \ Rows(p)
      /\ IF dispatches[p].kind = "publication"
         THEN claims' = claims \ Rows(p) /\ mishaps' = mishaps \union (Outrun(p) \X {"outrun"})
         ELSE UNCHANGED <<claims, mishaps>>
      /\ CutOff(p)
      /\ UNCHANGED <<update, archive, appeal, reports, jobs, approved, sent, shown, faults>>
  BY DEF Release, rows
<1>2. /\ dispatches[p].kind \in Kinds /\ Rows(p) \subseteq Recipient
      /\ Held(p, dispatches[p].kind) = Rows(p)
  BY <1>1, HeldIsMine
<1>3. /\ dispatches' \in [Processes -> Dispatch] /\ dispatches'[p] = Idle
      /\ \A q \in Processes : q # p => dispatches'[q] = dispatches[q]
  BY <1>1, IdleType, SetDispatch DEF IInv
<1>4. /\ \A k \in Kinds : Held(p, k)' = {}
      /\ \A q \in Processes, k \in Kinds : q # p => Held(q, k)' = Held(q, k)
  <2>1. \A k \in Kinds : Held(p, k)' = {}
    BY <1>3 DEF Held, Idle
  <2>2. \A q \in Processes, k \in Kinds : q # p => Held(q, k)' = Held(q, k)
    BY <1>3, HeldFrame
  <2> QED
    BY <2>1, <2>2
<1>5. mishaps \subseteq mishaps' /\ mishaps' \subseteq Recipient \X {"stranded", "outrun", "unanswered"}
  <2>1. Outrun(p) \subseteq Recipient
    BY <1>2 DEF Outrun
  <2>2. Outrun(p) \X {"outrun"} \subseteq Recipient \X {"stranded", "outrun", "unanswered"}
    BY <2>1
  <2>3. mishaps' = mishaps \/ mishaps' = mishaps \union (Outrun(p) \X {"outrun"})
    BY <1>1
  <2> QED
    BY <2>2, <2>3, TypeParts
<1>6. TypeOK'
  <2>1. claims' \subseteq Recipient /\ amended' \subseteq claims'
    <3>1. claims \subseteq Recipient /\ amended \subseteq claims
      BY DEF IInv, TypeOK
    <3> QED
      BY <1>1, <3>1
  <2>2. causes' \subseteq {"raced", "cut off"}
    BY <1>1, TypeParts DEF CutOff
  <2> QED
    BY <1>1, <1>3, <1>5, <2>1, <2>2 DEF IInv, TypeOK
<1>7. (ClaimsFit /\ CorrectionsFit)'
  <2>1. CASE dispatches[p].kind = "publication"
    <3>1. /\ claims' = claims \ Rows(p) /\ amended' = amended \ Rows(p)
          /\ mishaps' = mishaps \union (Outrun(p) \X {"outrun"})
          /\ UNCHANGED <<jobs, update>> /\ Held(p, "publication") = Rows(p)
      BY <1>1, <1>2, <2>1
    <3>2. \A q \in Processes, k \in Kinds : Held(q, k)' \subseteq Held(q, k)
      BY <1>4
    <3>3. \A r \in Recipient : <<r, "unanswered">> \in mishaps' <=> <<r, "unanswered">> \in mishaps
      BY <3>1
    <3>4. ClaimsFit'
      <4>1. \A r \in amended' : r[1] \in update'.carried
        BY <3>1 DEF IInv, ClaimsFit
      <4>2. /\ \A q \in Processes : Held(q, "publication")' \subseteq claims'
            /\ \A q, s \in Processes : q # s => Held(q, "publication")' \intersect Held(s, "publication")' = {}
        BY <1>4, <3>1, <3>2, RecipientTypes DEF IInv, ClaimsFit
      <4>3. ASSUME NEW r \in Recipient, <<r, "unanswered">> \notin mishaps', jobs'[<<r, "publication">>] > 0
            PROVE  /\ jobs'[<<r, "publication">>] = 1 /\ r \in claims'
                   /\ \A q \in Processes : r \notin Held(q, "publication")'
        <5>1. /\ jobs[<<r, "publication">>] = 1 /\ r \in claims
              /\ \A q \in Processes : r \notin Held(q, "publication")
          BY <3>1, <3>3, <4>3 DEF IInv, ClaimsFit, Holds
        <5> QED
          BY <3>1, <3>2, <5>1, RecipientTypes
      <4> QED
        BY <4>1, <4>2, <4>3 DEF ClaimsFit, Holds
    <3>5. CorrectionsFit'
      <4> SUFFICES ASSUME NEW r \in Recipient, <<r, "outrun">> \notin mishaps'
          PROVE /\ \A q \in Processes : r \in Held(q, "removal")' => r \in amended'
                /\ \A q, s \in Processes : q # s => r \notin Held(q, "removal")' \intersect Held(s, "removal")'
                /\ <<r, "unanswered">> \notin mishaps' /\ jobs'[<<r, "removal">>] > 0 =>
                       /\ jobs'[<<r, "removal">>] = 1 /\ r \in amended'
                       /\ \A q \in Processes : r \notin Held(q, "removal")'
        BY DEF CorrectionsFit, Holds
      <4>1. r \in amended => r \in amended'
        \* What was corrected is in a channel that carried it, so it is outrun.
        <5>1. r \in amended => r[1] \in update.carried
          BY DEF IInv, ClaimsFit
        <5>2. r \in Rows(p) /\ r[1] \in update.carried => r \in Outrun(p)
          BY DEF Outrun
        <5> QED
          BY <3>1, <5>1, <5>2
      <4>2. /\ \A q \in Processes : r \in Held(q, "removal") => r \in amended
            /\ \A q, s \in Processes : q # s => r \notin Held(q, "removal") \intersect Held(s, "removal")
            /\ <<r, "unanswered">> \notin mishaps /\ jobs[<<r, "removal">>] > 0 =>
                   /\ jobs[<<r, "removal">>] = 1 /\ r \in amended
                   /\ \A q \in Processes : r \notin Held(q, "removal")
        BY <1>5 DEF IInv, CorrectionsFit, Holds
      <4> QED
        BY <3>1, <3>2, <3>3, <4>1, <4>2, RecipientTypes
    <3> QED
      BY <3>4, <3>5
  <2>2. CASE dispatches[p].kind = "removal"
    <3>1. /\ amended' = amended \ Rows(p) /\ Held(p, "removal") = Rows(p)
          /\ UNCHANGED <<claims, jobs, update, mishaps>>
      BY <1>1, <1>2, <2>2
    <3>2. \A q \in Processes, k \in Kinds : Held(q, k)' \subseteq Held(q, k)
      BY <1>4
    <3>3. ClaimsFit'
      BY <3>1, <3>2, RecipientTypes DEF IInv, ClaimsFit, Holds
    <3>4. CorrectionsFit'
      BY <1>4, <3>1, <3>2, RecipientTypes DEF IInv, CorrectionsFit, Holds
    <3> QED
      BY <3>3, <3>4
  <2> QED
    BY <1>2, <2>1, <2>2 DEF Kinds
<1>8. sent' \subseteq approved
  BY <1>1 DEF IInv, OnlyApprovedIsSent
<1> QED
  BY <1>1, <1>6, <1>7, <1>8, IdleType, ChunkStep

\* Nothing changes.
LEMMA StutterStep ==
    ASSUME IInv, UNCHANGED vars
    PROVE  IInv'
<1>1. UNCHANGED <<update, archive, appeal, reports, claims, amended, jobs, dispatches,
                  approved, sent, shown, mishaps, causes, faults>>
  BY DEF vars, rows, recipients, history
<1>2. \A p \in Processes : dispatches'[p] = dispatches[p]
  BY <1>1
<1>3. TypeOK'
  BY <1>1 DEF IInv, TypeOK
<1>4. (ClaimsFit /\ CorrectionsFit)' /\ DispatchesFit'
  BY <1>1, <1>2, <1>3, DecisionFrame
<1>5. (UpdateFits /\ AppealIsPending /\ ReportsAreSettled /\ ShownIsKept /\ OnlyApprovedIsSent)'
  BY <1>1 DEF IInv, UpdateFits, AppealIsPending, ReportsAreSettled, ShownIsKept, OnlyApprovedIsSent
<1> QED
  BY <1>3, <1>4, <1>5 DEF IInv

-----------------------------------------------------------------------------
(* Who a dispatch has gone by *)

\* A recipient that is claimed, or has the correction claimed, or was released
\* behind the back of another dispatch.
Settled(r, kind) == Holds(r, "outrun") \/ r \in (IF kind = "publication" THEN claims ELSE amended)

\* The recipients a dispatch has gone by, but for those it is about to claim.
DoneWith(p, kind) ==
    {r \in Recipient : /\ dispatches[p].kind = kind /\ GoneBy(p, r)
                       /\ dispatches[p].at = "claim" => r \notin Rows(p)}

Marked(kind) == IF kind = "publication" THEN update.carried ELSE update.corrected
Steady(kind) ==
    \A r \in Recipient :
        r[1] \in Marked(kind) \/ (\E p \in Processes : r \in DoneWith(p, kind)) => Settled(r, kind)

ProgressFits ==
    /\ \A p \in Processes : dispatches[p].at = "idle" => dispatches[p] = Idle
    /\ \A p \in Processes : dispatches[p].at = "state" => dispatches[p].todo = {} /\ dispatches[p].last = 0
    /\ \A r \in claims : Reached(r)
    /\ Steady("publication")
    /\ \A r \in Recipient : Corrected(r) => r[1] \in update.carried

\* The update is removed, or an appeal against that is pending.
Withdrawn == update.status = "removed" \/ (update.status = "appealed" /\ appeal.prior = "removed")
OnlyRemovals ==
    /\ \A p \in Processes : dispatches[p].kind # "publication"
    /\ ~InProgress => update.carried \subseteq update.corrected
    /\ \A p \in Processes : dispatches[p].at \notin {"idle", "state"} =>
           update.carried \ update.corrected \subseteq dispatches[p].todo

RecallFits ==
    causes = {} =>
        /\ Steady("removal")
        /\ \A r \in amended : Corrected(r) \/ \E p \in Processes : r \in Held(p, "removal")
        /\ Withdrawn => OnlyRemovals

RecipientsInv == IInv /\ ProgressFits /\ RecallFits

\* A chunk is the first of what was found: nothing found is passed over, and one
\* that is not full has all of it.
LEMMA ChunkIsFirst ==
    ASSUME NEW F \in SUBSET Nat, IsFiniteSet(F),
           NEW C, C = {n \in F : Cardinality({m \in F : m < n}) < Chunk}
    PROVE  /\ \A n \in C, m \in F : m <= n => m \in C
           /\ C = {} => F = {}
           /\ \A last \in C : (\A n \in C : n <= last) /\ Cardinality(C) # Chunk => C = F
<1> DEFINE below(n) == {m \in F : m < n}
<1>1. Chunk \in Nat \ {0}
  BY UpdatesAssumption
<1>2. /\ \A n \in F : IsFiniteSet(below(n)) /\ Cardinality(below(n)) \in Nat
      /\ IsFiniteSet(C) /\ Cardinality(C) \in Nat
  <2>1. \A n \in F : below(n) \subseteq F
    OBVIOUS
  <2>2. C \subseteq F
    OBVIOUS
  <2> HIDE DEF below
  <2> QED
    BY <2>1, <2>2, FS_Subset, FS_CardinalityType
<1>3. \A n \in F : n \in C <=> Cardinality(below(n)) < Chunk
  OBVIOUS
<1>4. ASSUME NEW n \in C, NEW m \in F, m <= n PROVE m \in C
  <2>1. below(m) \subseteq below(n) /\ n \in F
    <3>1. n \in Nat /\ m \in Nat /\ n \in F /\ \A k \in F : k \in Nat
      OBVIOUS
    <3>2. \A k \in Nat : k < m => k < n
      BY <1>4, <3>1
    <3> QED
      BY <3>1, <3>2
  <2>2. Cardinality(below(m)) <= Cardinality(below(n))
    <3> HIDE DEF below
    <3> QED
      BY <1>2, <2>1, FS_Subset
  <2> HIDE DEF below
  <2> QED
    BY <1>1, <1>2, <1>3, <2>1, <2>2
<1>5. ASSUME F \ C # {}
      PROVE  \E x \in F \ C : below(x) \subseteq C
  <2>1. F \ C \subseteq Nat
    OBVIOUS
  <2>2. PICK x \in F \ C : \A y \in F \ C : x <= y
    <3> HIDE DEF below
    <3> QED
      BY <1>5, <2>1, Smallest
  <2>3. \A m \in F : m < x => m \in C
    BY <2>1, <2>2
  <2> QED
    BY <2>3
<1>6. ASSUME C = {} PROVE F = {}
  <2> SUFFICES ASSUME F # {} PROVE FALSE
    OBVIOUS
  <2>1. PICK x \in F \ C : below(x) \subseteq C
    BY <1>5, <1>6
  <2>2. Cardinality(below(x)) = 0
    <3> HIDE DEF below
    <3> QED
      BY <1>6, <2>1, FS_EmptySet
  <2> HIDE DEF below
  <2> QED
    BY <1>1, <1>3, <2>1, <2>2
<1>7. ASSUME NEW last \in C, \A n \in C : n <= last, Cardinality(C) # Chunk PROVE C = F
  <2> SUFFICES ASSUME F \ C # {} PROVE FALSE
    OBVIOUS
  <2>1. PICK x \in F \ C : below(x) \subseteq C
    BY <1>5
  <2>2. C \ {last} \subseteq below(last) /\ last \in F
    <3>1. last \in Nat /\ last \in F /\ \A k \in C : k \in F /\ k \in Nat
      OBVIOUS
    <3>2. \A k \in C \ {last} : k < last
      BY <1>7, <3>1
    <3> QED
      BY <3>1, <3>2
  <2> HIDE DEF below
  <2>3. Cardinality(below(x)) <= Cardinality(C)
    BY <1>2, <2>1, FS_Subset
  <2>4. /\ Cardinality(C \ {last}) <= Cardinality(below(last))
        /\ Cardinality(C \ {last}) = Cardinality(C) - 1
    BY <1>2, <2>2, FS_Subset, FS_RemoveElement
  <2>5. /\ Cardinality(below(x)) \in Nat /\ ~ (Cardinality(below(x)) < Chunk)
        /\ Cardinality(below(last)) \in Nat /\ Cardinality(below(last)) < Chunk
    BY <1>2, <1>3, <2>1, <2>2
  <2>6. \A a, b, c, k \in Nat : ~ (a < k) /\ a <= c /\ b < k /\ c - 1 <= b => c = k
    OBVIOUS
  <2>7. Cardinality(C) - 1 <= Cardinality(below(last)) /\ Chunk \in Nat
    BY <1>1, <2>4
  <2> QED
    BY <1>2, <1>7, <2>3, <2>5, <2>6, <2>7, Zenon
<1> QED
  BY <1>4, <1>6, <1>7

\* What a dispatch has gone by is told by its own record.
LEMMA DoneFrame ==
    ASSUME NEW p \in Processes, dispatches'[p] = dispatches[p]
    PROVE  /\ \A r \in Recipient : GoneBy(p, r)' <=> GoneBy(p, r)
           /\ \A k \in Kinds : DoneWith(p, k)' = DoneWith(p, k)
BY DEF DoneWith, GoneBy, Rows, Serves

\* One that starts, turns to the next channel or ends has gone by nobody.
LEMMA DoneNothing ==
    ASSUME NEW p \in Processes, NEW k \in Kinds,
           \/ dispatches[p].todo = {}
           \/ dispatches[p].at = "read" /\ dispatches[p].last = 0
           \/ dispatches[p].kind # k
    PROVE  DoneWith(p, k) = {}
<1>1. \A r \in Recipient : r[2] \in Nat \ {0}
  BY UpdatesAssumption DEF Recipient
<1> QED
  BY <1>1 DEF DoneWith, GoneBy

\* What the idle dispatch says.
LEMMA IdleParts ==
    Idle.kind = "none" /\ Idle.at = "idle" /\ Idle.todo = {} /\ Idle.last = 0
BY DEF Idle

\* A record that goes on with the same channel has gone by no more than before,
\* unless it reads a chunk.
LEMMA DoneKept ==
    ASSUME NEW p \in Processes, NEW k \in Kinds,
           dispatches[p].at \in {"claim", "send", "release"},
           dispatches'[p].kind = dispatches[p].kind, dispatches'[p].todo = dispatches[p].todo,
           dispatches'[p].last = dispatches[p].last,
           \/ dispatches'[p].at \in {"send", "release"} /\ dispatches'[p].full = dispatches[p].full
           \/ dispatches'[p].at = IF dispatches[p].full THEN "read" ELSE "mark"
    PROVE  \A r \in DoneWith(p, k)' : r \in Recipient /\ dispatches[p].kind = k /\ GoneBy(p, r)
BY DEF DoneWith, GoneBy, Serves

\* An ended dispatch, and one of the other kind, holds nothing.
LEMMA UnderwayIsHeld ==
    \A r \in Recipient : Underway(r) <=> \E p \in Processes : r \in Held(p, "publication")
BY DEF Underway, Held

\* Who has not to be claimed is settled.
LEMMA NotUnclaimed ==
    ASSUME RecipientsInv, NEW k \in Kinds, NEW r \in Recipient, r \notin Unclaimed(k),
           k = "removal" => r[1] \in update.carried
    PROVE  Settled(r, k)
<1>1. CASE k = "publication"
  BY <1>1 DEF Unclaimed, Settled
<1>2. CASE k = "removal"
  <2>1. r \in claims => r \in amended
    BY <1>2 DEF Unclaimed
  <2>2. r \notin claims => Holds(r, "outrun")
    BY <1>2 DEF RecipientsInv, ProgressFits, Steady, Marked, Settled
  <2> QED
    BY <1>2, <2>1, <2>2 DEF Settled
<1> QED
  BY <1>1, <1>2 DEF Kinds

\* What a step of one dispatch must keep for nobody it goes by to be left out.
LEMMA SteadyStep ==
    ASSUME NEW p \in Processes, NEW k \in Kinds, Steady(k),
           \A q \in Processes : q # p => dispatches'[q] = dispatches[q],
           \A r \in Recipient :
               (r[1] \in Marked(k) \/ \E q \in Processes \ {p} : r \in DoneWith(q, k)) /\ Settled(r, k) => Settled(r, k)',
           \A r \in Recipient : r[1] \in Marked(k)' => r[1] \in Marked(k) \/ Settled(r, k)',
           \A r \in DoneWith(p, k)' : Settled(r, k)'
    PROVE  Steady(k)'
<1> SUFFICES ASSUME NEW r \in Recipient,
                    r[1] \in Marked(k)' \/ \E q \in Processes : r \in DoneWith(q, k)'
    PROVE  Settled(r, k)'
  BY DEF Steady
<1>1. CASE r[1] \in Marked(k)
  <2>1. Settled(r, k)
    BY <1>1 DEF Steady
  <2> QED
    BY <1>1, <2>1
<1>2. CASE r[1] \in Marked(k)' /\ r[1] \notin Marked(k)
  BY <1>2
<1>3. ASSUME NEW q \in Processes, r \in DoneWith(q, k)' PROVE Settled(r, k)'
  <2>1. CASE q = p
    BY <1>3, <2>1
  <2>2. CASE q # p
    <3>1. dispatches'[q] = dispatches[q]
      BY <2>2
    <3>2. r \in DoneWith(q, k)
      BY <1>3, <3>1, DoneFrame
    <3>3. Settled(r, k)
      BY <3>2 DEF Steady
    <3> QED
      BY <2>2, <3>2, <3>3
  <2> QED
    BY <2>1, <2>2
<1> QED
  BY <1>1, <1>2, <1>3

\* Removals stay among themselves.
LEMMA OnlyRemovalsStep ==
    ASSUME NEW p \in Processes, OnlyRemovals,
           \A q \in Processes : q # p => dispatches'[q] = dispatches[q],
           dispatches'[p].kind \in {dispatches[p].kind, "none"},
           (update.carried \ update.corrected)' \subseteq update.carried \ update.corrected,
           dispatches'[p] # Idle \/ update'.carried \subseteq update'.corrected,
           dispatches'[p].at \notin {"idle", "state"} => (update.carried \ update.corrected)' \subseteq dispatches'[p].todo
    PROVE  OnlyRemovals'
<1>1. \A q \in Processes : dispatches'[q].kind # "publication"
  BY DEF OnlyRemovals
<1>2. ~InProgress' => update'.carried \subseteq update'.corrected
  BY DEF InProgress
<1>3. \A q \in Processes : dispatches'[q].at \notin {"idle", "state"} =>
          (update.carried \ update.corrected)' \subseteq dispatches'[q].todo
  BY DEF OnlyRemovals
<1> QED
  BY <1>1, <1>2, <1>3 DEF OnlyRemovals

\* A recipient that was reached stays so unless its claim is undone.
LEMMA ReachedKept ==
    ASSUME NEW r \in Recipient, Reached(r), mishaps \subseteq mishaps',
           jobs[<<r, "publication">>] > 0 => jobs'[<<r, "publication">>] > 0,
           \A q \in Processes : r \in Held(q, "publication") =>
               r \in Held(q, "publication")' \/ jobs'[<<r, "publication">>] > 0 \/ <<r, "stranded">> \in mishaps'
    PROVE  Reached(r)'
<1>1. CASE Underway(r)
  <2>1. PICK q \in Processes : r \in Held(q, "publication")
    BY <1>1, UnderwayIsHeld
  <2>2. r \in Held(q, "publication")' => Underway(r)'
    BY DEF Underway, Held
  <2> QED
    BY <2>1, <2>2 DEF Reached, Holds
<1>2. CASE ~ Underway(r)
  BY <1>2 DEF Reached, Holds
<1> QED
  BY <1>1, <1>2

\* The books of the recipients after a step of one dispatch.
LEMMA RecipientsStep ==
    ASSUME RecipientsInv, IInv', NEW p \in Processes, NEW d \in Dispatch, Set(p, d),
           d.at = "idle" => d = Idle, d.at # "state",
           UNCHANGED appeal, update'.status = update.status, causes \subseteq causes',
           Steady("publication")',
           \A r \in claims' : Reached(r)',
           \A r \in Recipient : Corrected(r)' => r[1] \in update'.carried,
           causes' = {} =>
               /\ Steady("removal")'
               /\ \A r \in amended' : Corrected(r)' \/ \E q \in Processes : r \in Held(q, "removal")'
               /\ OnlyRemovals => OnlyRemovals'
    PROVE  RecipientsInv'
<1>1. /\ dispatches' \in [Processes -> Dispatch] /\ dispatches'[p] = d
      /\ \A q \in Processes : q # p => dispatches'[q] = dispatches[q]
  BY SetDispatch DEF RecipientsInv, IInv
<1>2. ProgressFits'
  <2>1. /\ \A q \in Processes : dispatches'[q].at = "idle" => dispatches'[q] = Idle
        /\ \A q \in Processes : dispatches'[q].at = "state" => dispatches'[q].todo = {} /\ dispatches'[q].last = 0
    BY <1>1 DEF RecipientsInv, ProgressFits
  <2> QED
    BY <2>1 DEF ProgressFits
<1>3. RecallFits'
  <2> SUFFICES ASSUME causes' = {}
      PROVE /\ Steady("removal")'
            /\ \A r \in amended' : Corrected(r)' \/ \E q \in Processes : r \in Held(q, "removal")'
            /\ Withdrawn' => OnlyRemovals'
    BY DEF RecallFits
  <2>1. causes = {}
    OBVIOUS
  <2>2. Withdrawn' => Withdrawn
    BY DEF Withdrawn
  <2> QED
    BY <2>1, <2>2 DEF RecipientsInv, RecallFits
<1> QED
  BY <1>2, <1>3 DEF RecipientsInv

\* A step of a dispatch that claims, hands over and releases nothing.
LEMMA QuietRecipients ==
    ASSUME RecipientsInv, IInv', NEW p \in Processes, NEW d \in Dispatch, Set(p, d),
           d.at = "idle" => d = Idle, d.at # "state",
           UNCHANGED <<appeal, claims, amended, jobs>>, update'.status = update.status,
           update.carried \subseteq update'.carried,
           causes \subseteq causes', mishaps \subseteq mishaps',
           dispatches[p].at \notin {"send", "release"} \/ causes' # {} \/ dispatches[p].kind = "publication",
           \A r \in Held(p, "publication") : <<r, "stranded">> \in mishaps',
           \A k \in Kinds : k = "publication" \/ causes' = {} =>
               /\ \A r \in Recipient : r[1] \in Marked(k)' => r[1] \in Marked(k) \/ Settled(r, k)
               /\ \A r \in DoneWith(p, k)' : Settled(r, k),
           causes' = {} /\ OnlyRemovals => OnlyRemovals'
    PROVE  RecipientsInv'
<1>1. /\ dispatches' \in [Processes -> Dispatch] /\ dispatches'[p] = d
      /\ \A q \in Processes : q # p => dispatches'[q] = dispatches[q]
  BY SetDispatch DEF RecipientsInv, IInv
<1>2. \A r \in Recipient, k \in Kinds : Settled(r, k) => Settled(r, k)'
  BY DEF Settled, Holds
<1>3. ASSUME NEW k \in Kinds, Steady(k), k = "publication" \/ causes' = {} PROVE Steady(k)'
  <2>1. /\ \A r \in Recipient : r[1] \in Marked(k)' => r[1] \in Marked(k) \/ Settled(r, k)
        /\ \A r \in DoneWith(p, k)' : r \in Recipient /\ Settled(r, k)
    BY <1>3 DEF DoneWith
  <2> QED
    BY <1>1, <1>2, <1>3, <2>1, SteadyStep
<1>4. Steady("publication")'
  BY <1>3 DEF Kinds, RecipientsInv, ProgressFits
<1>5. \A r \in claims' : Reached(r)'
  <2> SUFFICES ASSUME NEW r \in claims PROVE Reached(r)'
    OBVIOUS
  <2>1. r \in Recipient /\ Reached(r)
    BY DEF RecipientsInv, IInv, TypeOK, ProgressFits
  <2>2. \A q \in Processes : r \in Held(q, "publication") =>
            r \in Held(q, "publication")' \/ <<r, "stranded">> \in mishaps'
    BY <1>1, HeldFrame DEF Kinds
  <2> QED
    BY <2>1, <2>2, ReachedKept
<1>6. \A r \in Recipient : Corrected(r)' => r[1] \in update'.carried
  BY DEF RecipientsInv, ProgressFits, Corrected
<1>7. ASSUME causes' = {}
      PROVE  /\ Steady("removal")'
             /\ \A r \in amended' : Corrected(r)' \/ \E q \in Processes : r \in Held(q, "removal")'
             /\ OnlyRemovals => OnlyRemovals'
  <2>1. causes = {}
    BY <1>7
  <2>2. Steady("removal")'
    BY <1>3, <1>7, <2>1 DEF Kinds, RecipientsInv, RecallFits
  <2>3. Held(p, "removal") = {}
    BY <1>7 DEF Held
  <2>4. \A r \in amended' : Corrected(r)' \/ \E q \in Processes : r \in Held(q, "removal")'
    BY <1>1, <2>1, <2>3, HeldFrame DEF Kinds, RecipientsInv, RecallFits, Corrected
  <2> QED
    BY <1>7, <2>2, <2>4
<1> QED
  BY <1>4, <1>5, <1>6, <1>7, RecipientsStep

\* Reading the channels that are left keeps RecipientsInv.
LEMMA ReadStateRecipients ==
    ASSUME RecipientsInv, NEW p \in Processes, ReadState(p)
    PROVE  RecipientsInv'
<1> DEFINE todo == {c \in Channel : Serve(dispatches[p].kind, c)}
           d == IF todo = {} THEN Idle ELSE [dispatches[p] EXCEPT !.at = "read", !.todo = todo]
<1>1. dispatches[p].at = "state" /\ Set(p, d)
  BY DEF ReadState
<1>2. UNCHANGED <<update, appeal, claims, amended, jobs, mishaps, causes>>
  BY DEF ReadState, rows, recipients, history
<1>3. IInv' /\ IInv
  BY ReadStateStep DEF RecipientsInv
<1>4. /\ dispatches[p].kind \in Kinds /\ dispatches[p] \in Dispatch /\ dispatches \in [Processes -> Dispatch]
      /\ dispatches[p].last = 0
  BY <1>1, <1>3, DispatchKnown, DispatchType DEF IInv, RecipientsInv, ProgressFits
<1>5. /\ d \in Dispatch /\ d.kind \in {dispatches[p].kind, "none"}
      /\ \/ d = Idle /\ todo = {}
         \/ d.at = "read" /\ d.last = 0 /\ d.todo = todo /\ d # Idle /\ d.kind = dispatches[p].kind
  <2>1. CASE todo = {}
    BY <2>1, IdleType, IdleParts
  <2>2. CASE todo # {}
    <3>1. d = [dispatches[p] EXCEPT !.at = "read", !.todo = todo] /\ todo \in SUBSET Channel
      BY <2>2
    <3> HIDE DEF todo, d
    <3>2. d \in Dispatch /\ d.at = "read" /\ d.todo = todo /\ d.kind = dispatches[p].kind /\ d.last = 0
      BY <1>4, <3>1 DEF Dispatch
    <3> QED
      BY <3>2, IdleParts
  <2> QED
    BY <2>1, <2>2
<1>6. /\ dispatches[p].kind = "removal" => update.carried \ update.corrected \subseteq todo
  <2>1. update.carried \subseteq Channel
    BY <1>3 DEF IInv, TypeOK, Update
  <2> QED
    BY <2>1 DEF Serve
<1> HIDE DEF d, todo
<1>7. /\ dispatches'[p] = d /\ \A q \in Processes : q # p => dispatches'[q] = dispatches[q]
  BY <1>1, <1>3, <1>5, SetDispatch DEF IInv
<1>8. \A k \in Kinds : DoneWith(p, k)' = {}
  <2> SUFFICES ASSUME NEW k \in Kinds PROVE DoneWith(p, k)' = {}
    OBVIOUS
  <2>1. \A r \in Recipient : r[2] \in Nat \ {0}
    BY UpdatesAssumption DEF Recipient
  <2> QED
    BY <1>5, <1>7, <2>1, IdleParts DEF DoneWith, GoneBy
<1>9. OnlyRemovals => OnlyRemovals'
  <2> SUFFICES ASSUME OnlyRemovals PROVE OnlyRemovals'
    OBVIOUS
  <2>1. dispatches[p].kind = "removal"
    BY <1>4 DEF OnlyRemovals, Kinds
  <2>2. /\ dispatches'[p] # Idle \/ update'.carried \subseteq update'.corrected
        /\ dispatches'[p].at \notin {"idle", "state"} =>
               (update.carried \ update.corrected)' \subseteq dispatches'[p].todo
    BY <1>2, <1>5, <1>6, <1>7, <2>1, IdleParts
  <2> QED
    BY <1>2, <1>5, <1>7, <2>2, OnlyRemovalsStep
<1>10. Held(p, "publication") = {}
  BY <1>1 DEF Held
<1>11. \A k \in Kinds : Marked(k)' = Marked(k)
  BY <1>2 DEF Marked
<1> QED
  BY <1>1, <1>2, <1>3, <1>5, <1>8, <1>9, <1>10, <1>11, IdleParts, QuietRecipients

\* Marking a channel as done keeps RecipientsInv.
LEMMA MarkRecipients ==
    ASSUME RecipientsInv, NEW p \in Processes, Mark(p)
    PROVE  RecipientsInv'
<1> DEFINE d == IF dispatches[p].todo = {Serves(p)} THEN Idle
                ELSE [dispatches[p] EXCEPT !.at = "read", !.todo = @ \ {Serves(p)}, !.last = 0]
<1>1. dispatches[p].at = "mark" /\ Set(p, d)
  BY DEF Mark
<1>2. UNCHANGED <<appeal, claims, amended, jobs, mishaps, causes>>
  BY DEF Mark, recipients, history
<1>3. IInv' /\ IInv
  BY MarkStep DEF RecipientsInv
<1>4. /\ dispatches[p].kind \in Kinds /\ dispatches[p] \in Dispatch /\ Serves(p) \in Channel
      /\ dispatches[p].todo # {} /\ update \in Update
  BY <1>1, <1>3, DispatchKnown, DispatchType, TypeParts DEF IInv
<1>5. /\ update'.status = update.status
      /\ update'.carried = IF dispatches[p].kind = "publication" THEN update.carried \union {Serves(p)}
                           ELSE update.carried
      /\ update'.corrected = IF dispatches[p].kind = "publication" THEN update.corrected
                             ELSE update.corrected \union {Serves(p)}
  <2>1. update' = IF dispatches[p].kind = "publication" THEN [update EXCEPT !.carried = @ \union {Serves(p)}]
                  ELSE [update EXCEPT !.corrected = @ \union {Serves(p)}]
    BY DEF Mark
  <2> QED
    BY <1>4, <2>1 DEF Update
<1>6. /\ d \in Dispatch /\ d.kind \in {dispatches[p].kind, "none"}
      /\ \/ d = Idle /\ dispatches[p].todo = {Serves(p)}
         \/ /\ d.at = "read" /\ d.last = 0 /\ d.todo = dispatches[p].todo \ {Serves(p)}
            /\ d # Idle /\ d.kind = dispatches[p].kind
  <2>1. CASE dispatches[p].todo = {Serves(p)}
    BY <2>1, IdleType, IdleParts
  <2>2. CASE dispatches[p].todo # {Serves(p)}
    <3>1. d = [dispatches[p] EXCEPT !.at = "read", !.todo = @ \ {Serves(p)}, !.last = 0]
      BY <2>2
    <3> HIDE DEF d
    <3>2. d \in Dispatch /\ d.at = "read" /\ d.todo = dispatches[p].todo \ {Serves(p)}
          /\ d.kind = dispatches[p].kind /\ d.last = 0
      BY <1>4, <3>1 DEF Dispatch
    <3> QED
      BY <3>2, IdleParts
  <2> QED
    BY <2>1, <2>2
<1> HIDE DEF d
<1>7. /\ dispatches'[p] = d /\ \A q \in Processes : q # p => dispatches'[q] = dispatches[q]
  BY <1>1, <1>3, <1>6, SetDispatch DEF IInv
<1>8. \A k \in Kinds : DoneWith(p, k)' = {}
  <2>1. \A r \in Recipient : r[2] \in Nat \ {0}
    BY UpdatesAssumption DEF Recipient
  <2> QED
    BY <1>6, <1>7, <2>1, IdleParts DEF DoneWith, GoneBy
<1>9. ASSUME NEW k \in Kinds, k = "publication" \/ causes' = {}, NEW r \in Recipient, r[1] \in Marked(k)'
      PROVE  r[1] \in Marked(k) \/ Settled(r, k)
  <2> SUFFICES ASSUME r[1] \notin Marked(k) PROVE Settled(r, k)
    OBVIOUS
  <2>1. k = dispatches[p].kind /\ r[1] = Serves(p)
    BY <1>4, <1>5, <1>9 DEF Marked, Kinds
  <2>2. r \in DoneWith(p, k)
    BY <1>1, <1>4, <2>1 DEF DoneWith, GoneBy
  <2>3. Steady(k)
    BY <1>2, <1>9 DEF Kinds, RecipientsInv, ProgressFits, RecallFits
  <2> QED
    BY <2>2, <2>3 DEF Steady
<1>10. OnlyRemovals => OnlyRemovals'
  <2> SUFFICES ASSUME OnlyRemovals PROVE OnlyRemovals'
    OBVIOUS
  <2>1. /\ dispatches[p].kind = "removal"
        /\ update.carried \ update.corrected \subseteq dispatches[p].todo
    BY <1>1, <1>4 DEF OnlyRemovals, Kinds
  <2>2. (update.carried \ update.corrected)' = (update.carried \ update.corrected) \ {Serves(p)}
    BY <1>5, <2>1
  <2>3. /\ dispatches'[p] # Idle \/ update'.carried \subseteq update'.corrected
        /\ dispatches'[p].at \notin {"idle", "state"} =>
               (update.carried \ update.corrected)' \subseteq dispatches'[p].todo
    BY <1>6, <1>7, <2>1, <2>2, IdleParts
  <2> QED
    BY <1>6, <1>7, <2>2, <2>3, OnlyRemovalsStep
<1>11. Held(p, "publication") = {} /\ update.carried \subseteq update'.carried
  BY <1>1, <1>5 DEF Held
<1> QED
  BY <1>1, <1>2, <1>3, <1>5, <1>6, <1>8, <1>9, <1>10, <1>11, IdleParts, QuietRecipients

\* A process that stops keeps RecipientsInv.
LEMMA StopRecipients ==
    ASSUME RecipientsInv, NEW p \in Processes, Stop(p)
    PROVE  RecipientsInv'
<1>1. /\ UNCHANGED <<update, appeal, claims, amended, jobs>> /\ Set(p, Idle) /\ CutOff(p)
      /\ mishaps' = IF dispatches[p].at \in {"send", "release"} /\ dispatches[p].kind = "publication"
                    THEN mishaps \union (Rows(p) \X {"stranded"}) ELSE mishaps
  BY DEF Stop, rows, recipients
<1>2. IInv' /\ IInv
  BY StopStep DEF RecipientsInv
<1>3. /\ dispatches'[p] = Idle /\ \A q \in Processes : q # p => dispatches'[q] = dispatches[q]
  BY <1>1, <1>2, IdleType, SetDispatch DEF IInv
<1>4. mishaps \subseteq mishaps' /\ \A r \in Held(p, "publication") : <<r, "stranded">> \in mishaps'
  BY <1>1 DEF Held
<1>5. causes \subseteq causes' /\ (dispatches[p].kind = "removal" => causes' # {})
  BY <1>1 DEF CutOff
<1>6. dispatches[p].kind \in Kinds
  <2>1. dispatches[p].at # "idle"
    BY DEF Stop, RecipientsInv, ProgressFits
  <2> QED
    BY <1>2, <2>1, DispatchKnown
<1>7. \A k \in Kinds : DoneWith(p, k)' = {}
  BY <1>3, IdleParts DEF DoneWith, GoneBy
<1>8. causes' = {} /\ OnlyRemovals => OnlyRemovals'
  BY <1>5, <1>6 DEF OnlyRemovals, Kinds
<1>9. \A k \in Kinds : Marked(k)' = Marked(k)
  BY <1>1 DEF Marked
<1> QED
  BY <1>1, <1>2, <1>4, <1>5, <1>6, <1>7, <1>8, <1>9, IdleType, IdleParts, QuietRecipients DEF Kinds

\* What a dispatch finds to claim.
LEMMA FoundType ==
    ASSUME RecipientsInv, NEW p \in Processes, NEW k \in Kinds, Serves(p) \in Channel
    PROVE  LET found == {r[2] : r \in {r \in Unclaimed(k) : r[1] = Serves(p) /\ r[2] > dispatches[p].last}} IN
           /\ found \in SUBSET Nat /\ IsFiniteSet(found)
           /\ \A r \in Recipient : r[1] = Serves(p) /\ r[2] > dispatches[p].last /\ r \in Unclaimed(k) => r[2] \in found
<1> DEFINE found == {r[2] : r \in {r \in Unclaimed(k) : r[1] = Serves(p) /\ r[2] > dispatches[p].last}}
<1>1. Unclaimed(k) \subseteq Recipient
  BY DEF Unclaimed, RecipientsInv, IInv, TypeOK
<1>2. \A r \in Recipient : r[1] \in Channel /\ r[2] \in Recipients[r[1]]
  BY UpdatesAssumption DEF Recipient
<1>3. found \in SUBSET Recipients[Serves(p)]
  BY <1>1, <1>2
<1>4. IsFiniteSet(Recipients[Serves(p)]) /\ Recipients[Serves(p)] \subseteq Nat
  BY UpdatesAssumption
<1>5. IsFiniteSet(found)
  <2> HIDE DEF found
  <2> QED
    BY <1>3, <1>4, FS_Subset
<1>6. \A r \in Recipient : r[1] = Serves(p) /\ r[2] > dispatches[p].last /\ r \in Unclaimed(k) => r[2] \in found
  OBVIOUS
<1>7. found \in SUBSET Nat
  <2> HIDE DEF found
  <2> QED
    BY <1>3, <1>4
<1> QED
  BY <1>5, <1>6, <1>7

\* Reading the next chunk keeps RecipientsInv.
LEMMA ReadChunkRecipients ==
    ASSUME RecipientsInv, NEW p \in Processes, ReadChunk(p)
    PROVE  RecipientsInv'
<1>0. PICK k \in Kinds : k = dispatches[p].kind
  <2>1. dispatches[p].at = "read" /\ IInv
    BY DEF ReadChunk, RecipientsInv
  <2> QED
    BY <2>1, DispatchKnown
<1> DEFINE found == {r[2] : r \in {r \in Unclaimed(k) : r[1] = Serves(p) /\ r[2] > dispatches[p].last}}
           chunk == {n \in found : Cardinality({m \in found : m < n}) < Chunk}
<1>1. /\ dispatches[p].at = "read"
      /\ \/ chunk = {} /\ Set(p, [dispatches[p] EXCEPT !.at = "mark"])
         \/ \E last \in chunk :
                /\ \A n \in chunk : n <= last
                /\ Set(p, [dispatches[p] EXCEPT !.at = "claim", !.last = last, !.rows = chunk,
                                                !.full = Cardinality(chunk) = Chunk])
  BY <1>0 DEF ReadChunk
<1>2. UNCHANGED <<update, appeal, claims, amended, jobs, mishaps, causes>>
  BY DEF ReadChunk, rows, recipients, history
<1>3. IInv' /\ IInv
  BY ReadChunkStep DEF RecipientsInv
<1>4. /\ dispatches[p].kind = k /\ dispatches[p] \in Dispatch /\ Serves(p) \in Channel
      /\ dispatches[p].todo # {} /\ dispatches[p].last \in Nat
      /\ dispatches[p].kind = "removal" => Serves(p) \in update.carried
  <2>1. dispatches[p] \in Dispatch /\ Serves(p) \in Channel
    BY <1>3, DispatchType DEF IInv
  <2>2. /\ dispatches[p].todo # {}
        /\ dispatches[p].kind = "removal" => Serves(p) \in update.carried
    BY <1>1, <1>3, DispatchKnown
  <2> QED
    BY <1>0, <2>1, <2>2 DEF Dispatch
<1>5. /\ found \in SUBSET Nat /\ IsFiniteSet(found)
      /\ \A r \in Recipient : r[1] = Serves(p) /\ r[2] > dispatches[p].last /\ r \in Unclaimed(k) => r[2] \in found
  BY <1>4, FoundType
<1>6. chunk = {n \in found : Cardinality({m \in found : m < n}) < Chunk}
  OBVIOUS
<1> HIDE DEF found, chunk
<1>7. /\ \A n \in chunk, m \in found : m <= n => m \in chunk
      /\ chunk = {} => found = {}
      /\ \A last \in chunk : (\A n \in chunk : n <= last) /\ Cardinality(chunk) # Chunk => chunk = found
      /\ chunk \subseteq found
  <2>1. found \in SUBSET Nat /\ IsFiniteSet(found)
    BY <1>5
  <2>2. /\ \A n \in chunk, m \in found : m <= n => m \in chunk
        /\ chunk = {} => found = {}
        /\ \A last \in chunk : (\A n \in chunk : n <= last) /\ Cardinality(chunk) # Chunk => chunk = found
    BY <1>6, <2>1, ChunkIsFirst
  <2>3. chunk \subseteq found
    BY <1>6
  <2> QED
    BY <2>2, <2>3
\* Those it did not find beyond where it was, and those it had gone by, are settled.
<1>8. ASSUME NEW r \in Recipient, r[1] = Serves(p), r[2] \notin found, k = "publication" \/ causes = {}
      PROVE  Settled(r, k)
  <2>1. r[2] \in Nat
    BY RecipientTypes
  <2>2. CASE r[2] > dispatches[p].last
    <3>1. r \notin Unclaimed(k)
      BY <1>5, <1>8, <2>2
    <3> QED
      BY <1>4, <1>8, <3>1, NotUnclaimed
  <2>3. CASE dispatches[p].last >= r[2]
    <3>1. r \in DoneWith(p, k)
      BY <1>1, <1>4, <1>8, <2>3 DEF DoneWith, GoneBy
    <3>2. Steady(k)
      BY <1>4, <1>8 DEF Kinds, RecipientsInv, ProgressFits, RecallFits
    <3> QED
      BY <3>1, <3>2 DEF Steady
  <2> QED
    BY <1>4, <2>1, <2>2, <2>3
<1>9. ASSUME NEW d \in Dispatch, Set(p, d), d.at \in {"mark", "claim"}, d.kind = k, d.todo = dispatches[p].todo,
             \A r \in DoneWith(p, k)' : r[2] \notin found
      PROVE  RecipientsInv'
  <2>1. /\ dispatches'[p] = d /\ \A q \in Processes : q # p => dispatches'[q] = dispatches[q]
    BY <1>3, <1>9, SetDispatch DEF IInv
  <2>2. d # Idle /\ d.at # "idle" /\ d.at # "state" /\ d.kind \in {dispatches[p].kind, "none"}
    BY <1>0, <1>9, IdleParts
  <2>3. ASSUME NEW l \in Kinds, l = "publication" \/ causes' = {}, NEW r \in DoneWith(p, l)'
        PROVE  Settled(r, l)
    <3>1. l = k /\ r \in Recipient /\ r[1] = Serves(p)
      <4>1. l = k /\ r \in Recipient /\ r[1] = Serves(p)'
        BY <1>9, <2>1, <2>3 DEF DoneWith, GoneBy
      <4>2. Serves(p)' = Serves(p)
        BY <1>9, <2>1 DEF Serves
      <4> QED
        BY <4>1, <4>2
    <3> QED
      BY <1>2, <1>8, <1>9, <2>3, <3>1
  <2>4. OnlyRemovals => OnlyRemovals'
    <3> SUFFICES ASSUME OnlyRemovals PROVE OnlyRemovals'
      OBVIOUS
    <3>1. update.carried \ update.corrected \subseteq dispatches[p].todo
      BY <1>1 DEF OnlyRemovals
    <3>2. (update.carried \ update.corrected)' = update.carried \ update.corrected
      BY <1>2
    <3> QED
      BY <1>9, <2>1, <2>2, <3>1, <3>2, OnlyRemovalsStep
  <2>5. Held(p, "publication") = {}
    BY <1>1 DEF Held
  <2>6. \A l \in Kinds : Marked(l)' = Marked(l)
    BY <1>2 DEF Marked
  <2> QED
    BY <1>1, <1>2, <1>3, <1>9, <2>2, <2>3, <2>4, <2>5, <2>6, QuietRecipients
<1>10. CASE chunk = {} /\ Set(p, [dispatches[p] EXCEPT !.at = "mark"])
  <2> DEFINE d == [dispatches[p] EXCEPT !.at = "mark"]
  <2>1. d \in Dispatch /\ d.at = "mark" /\ d.todo = dispatches[p].todo /\ d.kind = k /\ Set(p, d)
    BY <1>4, <1>10 DEF Dispatch
  <2> HIDE DEF d
  <2>2. found = {}
    BY <1>7, <1>10
  <2> QED
    BY <1>9, <2>1, <2>2
<1>11. ASSUME NEW last \in chunk, \A n \in chunk : n <= last,
              Set(p, [dispatches[p] EXCEPT !.at = "claim", !.last = last, !.rows = chunk,
                                           !.full = Cardinality(chunk) = Chunk])
       PROVE  RecipientsInv'
  <2> DEFINE d == [dispatches[p] EXCEPT !.at = "claim", !.last = last, !.rows = chunk,
                                        !.full = Cardinality(chunk) = Chunk]
  <2>1. PICK full \in BOOLEAN : full = (Cardinality(chunk) = Chunk)
    BY Zenon
  <2>2. last \in Nat /\ chunk \in SUBSET Nat
    BY <1>5, <1>7
  <2>3. d = [dispatches[p] EXCEPT !.at = "claim", !.last = last, !.rows = chunk, !.full = full] /\ Set(p, d)
    BY <1>11, <2>1
  <2> HIDE DEF d
  <2>4. d \in Dispatch /\ d.at = "claim" /\ d.todo = dispatches[p].todo /\ d.kind = k
        /\ d.rows = chunk /\ d.last = last /\ d.full = full
    BY <1>4, <2>2, <2>3 DEF Dispatch
  <2>5. dispatches'[p] = d
    BY <1>3, <2>3, <2>4, SetDispatch DEF IInv
  <2>6. ASSUME NEW r \in DoneWith(p, k)' PROVE r[2] \notin found
    <3>1. /\ r \in Recipient /\ GoneBy(p, r)' /\ r \notin Rows(p)'
      BY <2>4, <2>5 DEF DoneWith
    <3>2. r[1] = Serves(p)' /\ (last >= r[2] \/ ~full)
      BY <2>4, <2>5, <3>1 DEF GoneBy
    <3>3. r[2] \notin chunk
      <4>1. r = <<r[1], r[2]>>
        BY <3>1, RecipientTypes
      <4> QED
        BY <2>4, <2>5, <3>1, <3>2, <4>1 DEF Rows
    <3>4. r[2] \in Nat
      BY <3>1, RecipientTypes
    <3>5. CASE last >= r[2]
      BY <1>7, <2>2, <3>3, <3>4, <3>5
    <3>6. CASE ~full
      BY <1>7, <1>11, <2>1, <3>3, <3>6
    <3> QED
      BY <3>2, <3>5, <3>6
  <2> QED
    BY <1>9, <2>3, <2>4, <2>6
<1> QED
  BY <1>1, <1>10, <1>11

\* Claiming the recipients of a chunk keeps RecipientsInv.
LEMMA ClaimRecipients ==
    ASSUME RecipientsInv, NEW p \in Processes, Claim(p)
    PROVE  RecipientsInv'
<1>0. PICK k \in Kinds : k = dispatches[p].kind
  <2>1. dispatches[p].at = "claim" /\ IInv
    BY DEF Claim, RecipientsInv
  <2> QED
    BY <2>1, DispatchKnown
<1> DEFINE taken == Claimable(p)
           d == IF taken = {} THEN AfterChunk(dispatches[p])
                ELSE [dispatches[p] EXCEPT !.at = "send", !.rows = {r[2] : r \in taken}]
<1>1. /\ dispatches[p].at = "claim" /\ Set(p, d)
      /\ IF k = "publication" THEN claims' = claims \union taken /\ UNCHANGED amended
         ELSE amended' = amended \union taken /\ UNCHANGED claims
      /\ UNCHANGED <<update, appeal, jobs, mishaps, causes>>
  BY <1>0 DEF Claim, rows, history
<1>2. IInv' /\ IInv
  BY ClaimStep DEF RecipientsInv
<1>3. /\ k = dispatches[p].kind /\ dispatches[p] \in Dispatch /\ Rows(p) \subseteq Recipient
      /\ k = "removal" => Serves(p) \in update.carried
  BY <1>0, <1>1, <1>2, DispatchKnown, DispatchType DEF IInv
<1>4. /\ taken = Rows(p) \intersect Unclaimed(k) /\ taken \subseteq Recipient
      /\ \A r \in taken : r[1] = Serves(p) /\ r = <<Serves(p), r[2]>> /\ r[2] \in Nat
  <2>1. taken = Rows(p) \intersect Unclaimed(k)
    BY <1>0 DEF Claimable
  <2>2. \A r \in Rows(p) : r[1] = Serves(p)
    BY DEF Rows
  <2> HIDE DEF taken
  <2> QED
    BY <1>3, <2>1, <2>2, RecipientTypes
<1>5. /\ d \in Dispatch /\ d.kind = k /\ d.todo = dispatches[p].todo
      /\ d.last = dispatches[p].last /\ d.full = dispatches[p].full
      /\ \/ taken = {} /\ d.at = IF dispatches[p].full THEN "read" ELSE "mark"
         \/ d.at = "send" /\ d.rows = {r[2] : r \in taken}
  <2>1. CASE taken = {}
    BY <1>0, <1>3, <2>1 DEF AfterChunk, Dispatch
  <2>2. CASE taken # {}
    <3>1. d = [dispatches[p] EXCEPT !.at = "send", !.rows = {r[2] : r \in taken}]
      BY <2>2
    <3>2. {r[2] : r \in taken} \in SUBSET Nat
      BY <1>4
    <3> HIDE DEF d, taken
    <3> QED
      BY <1>3, <3>1, <3>2 DEF Dispatch
  <2> QED
    BY <2>1, <2>2
<1> HIDE DEF d, taken
<1>6. /\ dispatches'[p] = d /\ \A q \in Processes : q # p => dispatches'[q] = dispatches[q]
  BY <1>1, <1>2, <1>5, SetDispatch DEF IInv
<1>7. taken \subseteq Held(p, k)'
  <2>1. CASE d.at = "send"
    <3>1. Rows(p)' = {Serves(p)} \X {r[2] : r \in taken}
      BY <1>5, <1>6, <2>1 DEF Rows, Serves
    <3> QED
      BY <1>4, <1>5, <1>6, <2>1, <3>1 DEF Held
  <2> QED
    BY <1>5, <2>1
<1>8. d.at \notin {"idle", "state"} /\ d # Idle
  BY <1>5, IdleParts
<1>9. \A r \in Recipient, l \in Kinds : Settled(r, l) => Settled(r, l)'
  BY <1>1 DEF Settled, Holds
<1>10. ASSUME NEW l \in Kinds, l = "publication" \/ causes = {} PROVE Steady(l)'
  <2>1. Steady(l)
    BY <1>10 DEF Kinds, RecipientsInv, ProgressFits, RecallFits
  <2>2. ASSUME NEW r \in DoneWith(p, l)' PROVE Settled(r, l)'
    <3>1. r \in Recipient /\ l = k /\ GoneBy(p, r)
      BY <1>0, <1>1, <1>5, <1>6, <2>2, DoneKept
    <3>2. CASE r \notin Rows(p)
      <4>1. r \in DoneWith(p, l)
        BY <1>0, <3>1, <3>2 DEF DoneWith
      <4> QED
        BY <1>9, <2>1, <3>1, <4>1 DEF Steady
    <3>3. CASE r \in taken
      BY <1>1, <3>1, <3>3 DEF Settled
    <3>4. CASE r \in Rows(p) /\ r \notin taken
      <4>1. r \notin Unclaimed(l) /\ (l = "removal" => r[1] \in update.carried)
        BY <1>3, <1>4, <3>1, <3>4 DEF Rows
      <4> QED
        BY <1>9, <3>1, <4>1, NotUnclaimed
    <3> QED
      BY <3>2, <3>3, <3>4
  <2>3. \A r \in Recipient : r[1] \in Marked(l)' => r[1] \in Marked(l)
    BY <1>1 DEF Marked
  <2> QED
    BY <1>6, <1>9, <2>1, <2>2, <2>3, SteadyStep
<1>11. \A l \in Kinds : Held(p, l) = {}
  BY <1>1 DEF Held
<1>12. \A r \in claims' : Reached(r)'
  <2> SUFFICES ASSUME NEW r \in claims' PROVE Reached(r)'
    OBVIOUS
  <2>1. r \in Recipient
    BY <1>2 DEF IInv, TypeOK
  <2>2. CASE r \in claims
    <3>1. Reached(r)
      BY <2>2 DEF RecipientsInv, ProgressFits
    <3>2. \A q \in Processes : r \in Held(q, "publication") => r \in Held(q, "publication")'
      BY <1>6, <1>11, HeldFrame DEF Kinds
    <3> QED
      BY <1>1, <2>1, <3>1, <3>2, ReachedKept
  <2>3. CASE r \notin claims
    <3>1. r \in Held(p, "publication")'
      BY <1>1, <1>7, <2>3
    <3>2. Underway(r)'
      BY <3>1 DEF Underway, Held
    <3> QED
      BY <3>2 DEF Reached
  <2> QED
    BY <2>2, <2>3
<1>13. \A r \in Recipient : Corrected(r)' => r[1] \in update'.carried
  BY <1>1 DEF RecipientsInv, ProgressFits, Corrected
<1>14. ASSUME causes' = {}
       PROVE  /\ Steady("removal")'
              /\ \A r \in amended' : Corrected(r)' \/ \E q \in Processes : r \in Held(q, "removal")'
              /\ OnlyRemovals => OnlyRemovals'
  <2>1. causes = {} /\ Steady("removal")'
    BY <1>1, <1>10, <1>14 DEF Kinds
  <2>2. ASSUME NEW r \in amended' PROVE Corrected(r)' \/ \E q \in Processes : r \in Held(q, "removal")'
    <3>1. CASE r \in amended
      <4>1. Corrected(r) \/ \E q \in Processes : r \in Held(q, "removal")
        BY <2>1, <3>1 DEF RecipientsInv, RecallFits
      <4>2. \A q \in Processes : r \in Held(q, "removal") => r \in Held(q, "removal")'
        BY <1>6, <1>11, HeldFrame DEF Kinds
      <4> QED
        BY <1>1, <4>1, <4>2 DEF Corrected
    <3>2. CASE r \notin amended
      BY <1>1, <1>3, <1>7, <2>2, <3>2 DEF Kinds
    <3> QED
      BY <3>1, <3>2
  <2>3. OnlyRemovals => OnlyRemovals'
    <3> SUFFICES ASSUME OnlyRemovals PROVE OnlyRemovals'
      OBVIOUS
    <3>1. update.carried \ update.corrected \subseteq dispatches[p].todo
      BY <1>1 DEF OnlyRemovals
    <3>2. (update.carried \ update.corrected)' = update.carried \ update.corrected
      BY <1>1
    <3> QED
      BY <1>0, <1>5, <1>6, <1>8, <3>1, <3>2, OnlyRemovalsStep
  <2> QED
    BY <2>1, <2>2, <2>3
<1>15. Steady("publication")'
  BY <1>10 DEF Kinds
<1> QED
  BY <1>1, <1>2, <1>5, <1>8, <1>12, <1>13, <1>14, <1>15, RecipientsStep

\* Queueing the notifications keeps RecipientsInv.
LEMMA SendRecipients ==
    ASSUME RecipientsInv, NEW p \in Processes, Send(p)
    PROVE  RecipientsInv'
<1> DEFINE d == AfterChunk(dispatches[p])
<1>1. /\ dispatches[p].at = "send" /\ Queues(p) /\ Set(p, d)
      /\ UNCHANGED <<update, appeal, claims, amended, mishaps, causes>>
  BY DEF Send, rows
<1>2. IInv' /\ IInv
  BY SendStep DEF RecipientsInv
<1>3. /\ dispatches[p].kind \in Kinds /\ dispatches[p] \in Dispatch /\ Rows(p) \subseteq Recipient
      /\ dispatches[p].kind = "removal" => Serves(p) \in update.carried
  BY <1>1, <1>2, DispatchKnown, DispatchType DEF IInv
<1>4. /\ d \in Dispatch /\ d.kind = dispatches[p].kind /\ d.todo = dispatches[p].todo
      /\ d.last = dispatches[p].last /\ d.full = dispatches[p].full
      /\ d.at = IF dispatches[p].full THEN "read" ELSE "mark"
  BY <1>3 DEF AfterChunk, Dispatch
<1>5. d.at \notin {"idle", "state", "claim", "send", "release"} /\ d # Idle
  BY <1>4, IdleParts
<1> HIDE DEF d
<1>6. /\ dispatches'[p] = d /\ \A q \in Processes : q # p => dispatches'[q] = dispatches[q]
  BY <1>1, <1>2, <1>4, SetDispatch DEF IInv
<1>7. /\ jobs \in [Recipient \X Kinds -> Nat]
      /\ \A r \in Recipient, k \in Kinds :
             jobs'[<<r, k>>] = IF r \in Held(p, k) THEN jobs[<<r, k>>] + 1 ELSE jobs[<<r, k>>]
  BY <1>1, <1>2, QueuesJobs DEF IInv, TypeOK
<1>8. \A r \in Recipient, k \in Kinds : r \in Held(p, k) \/ jobs[<<r, k>>] > 0 => jobs'[<<r, k>>] > 0
  <2> SUFFICES ASSUME NEW r \in Recipient, NEW k \in Kinds, r \in Held(p, k) \/ jobs[<<r, k>>] > 0
      PROVE jobs'[<<r, k>>] > 0
    OBVIOUS
  <2>1. PICK n \in Nat : n = jobs[<<r, k>>]
    BY <1>7
  <2>2. CASE r \in Held(p, k)
    <3>1. jobs'[<<r, k>>] = n + 1
      BY <1>7, <2>1, <2>2
    <3> QED
      BY <3>1
  <2>3. CASE r \notin Held(p, k)
    BY <1>7, <2>3
  <2> QED
    BY <2>2, <2>3
<1>9. \A r \in Recipient, k \in Kinds : Settled(r, k) => Settled(r, k)'
  BY <1>1 DEF Settled, Holds
<1>10. ASSUME NEW k \in Kinds, k = "publication" \/ causes = {} PROVE Steady(k)'
  <2>1. Steady(k)
    BY <1>10 DEF Kinds, RecipientsInv, ProgressFits, RecallFits
  <2>2. ASSUME NEW r \in DoneWith(p, k)' PROVE Settled(r, k)'
    <3>1. r \in Recipient /\ dispatches[p].kind = k /\ GoneBy(p, r)
      BY <1>1, <1>4, <1>6, <2>2, DoneKept
    <3>2. r \in DoneWith(p, k)
      BY <1>1, <3>1 DEF DoneWith
    <3> QED
      BY <1>9, <2>1, <3>1, <3>2 DEF Steady
  <2>3. \A r \in Recipient : r[1] \in Marked(k)' => r[1] \in Marked(k)
    BY <1>1 DEF Marked
  <2> QED
    BY <1>6, <1>9, <2>1, <2>2, <2>3, SteadyStep
<1>11. \A r \in claims' : Reached(r)'
  <2> SUFFICES ASSUME NEW r \in claims PROVE Reached(r)'
    BY <1>1
  <2>1. r \in Recipient /\ Reached(r)
    BY <1>2 DEF IInv, TypeOK, RecipientsInv, ProgressFits
  <2>2. \A q \in Processes : r \in Held(q, "publication") =>
            r \in Held(q, "publication")' \/ jobs'[<<r, "publication">>] > 0
    BY <1>6, <1>8, <2>1, HeldFrame DEF Kinds
  <2> QED
    BY <1>1, <1>8, <2>1, <2>2, ReachedKept DEF Kinds
<1>12. \A r \in Recipient : Corrected(r)' => r[1] \in update'.carried
  <2> SUFFICES ASSUME NEW r \in Recipient, Corrected(r)' PROVE r[1] \in update.carried
    BY <1>1
  <2>1. CASE r \in Held(p, "removal")
    BY <1>3, <2>1 DEF Held, Rows
  <2>2. CASE r \notin Held(p, "removal")
    BY <1>7, <2>2 DEF Kinds, Corrected, RecipientsInv, ProgressFits
  <2> QED
    BY <2>1, <2>2
<1>13. ASSUME causes' = {}
       PROVE  /\ Steady("removal")'
              /\ \A r \in amended' : Corrected(r)' \/ \E q \in Processes : r \in Held(q, "removal")'
              /\ OnlyRemovals => OnlyRemovals'
  <2>1. causes = {} /\ Steady("removal")'
    BY <1>1, <1>10, <1>13 DEF Kinds
  <2>2. ASSUME NEW r \in amended PROVE Corrected(r)' \/ \E q \in Processes : r \in Held(q, "removal")'
    <3>1. Corrected(r) \/ \E q \in Processes : r \in Held(q, "removal")
      BY <2>1 DEF RecipientsInv, RecallFits
    <3>2. r \in Recipient
      BY <1>2 DEF IInv, TypeOK
    <3>3. \A q \in Processes : r \in Held(q, "removal") => Corrected(r)' \/ r \in Held(q, "removal")'
      BY <1>6, <1>8, <3>2, HeldFrame DEF Kinds, Corrected
    <3> QED
      BY <1>8, <3>1, <3>2, <3>3 DEF Kinds, Corrected
  <2>3. OnlyRemovals => OnlyRemovals'
    <3> SUFFICES ASSUME OnlyRemovals PROVE OnlyRemovals'
      OBVIOUS
    <3>1. update.carried \ update.corrected \subseteq dispatches[p].todo
      BY <1>1 DEF OnlyRemovals
    <3>2. (update.carried \ update.corrected)' = update.carried \ update.corrected
      BY <1>1
    <3> QED
      BY <1>4, <1>5, <1>6, <3>1, <3>2, OnlyRemovalsStep
  <2> QED
    BY <1>1, <2>1, <2>2, <2>3
<1>14. Steady("publication")'
  BY <1>10 DEF Kinds
<1> QED
  BY <1>1, <1>2, <1>4, <1>5, <1>11, <1>12, <1>13, <1>14, RecipientsStep

\* A queue that refuses keeps RecipientsInv.
LEMMA SendFailsRecipients ==
    ASSUME RecipientsInv, NEW p \in Processes, SendFails(p)
    PROVE  RecipientsInv'
<1> DEFINE d == [dispatches[p] EXCEPT !.at = "release"]
<1>1. /\ dispatches[p].at = "send" /\ Set(p, d)
      /\ UNCHANGED <<update, appeal, claims, amended, causes>>
      /\ \/ UNCHANGED <<jobs, mishaps>>
         \/ Queues(p) /\ mishaps' = mishaps \union (Rows(p) \X {"unanswered"})
  BY DEF SendFails, rows
<1>2. IInv' /\ IInv
  BY SendFailsStep DEF RecipientsInv
<1>3. /\ dispatches[p].kind \in Kinds /\ dispatches[p] \in Dispatch /\ Rows(p) \subseteq Recipient
      /\ dispatches[p].kind = "removal" => Serves(p) \in update.carried
  BY <1>1, <1>2, DispatchKnown, DispatchType DEF IInv
<1>4. /\ d \in Dispatch /\ d.kind = dispatches[p].kind /\ d.todo = dispatches[p].todo
      /\ d.last = dispatches[p].last /\ d.full = dispatches[p].full /\ d.rows = dispatches[p].rows
      /\ d.at = "release"
  BY <1>3 DEF Dispatch
<1>5. d # Idle
  BY <1>4, IdleParts
<1> HIDE DEF d
<1>6. /\ dispatches'[p] = d /\ \A q \in Processes : q # p => dispatches'[q] = dispatches[q]
  BY <1>1, <1>2, <1>4, SetDispatch DEF IInv
<1>7. \A q \in Processes, k \in Kinds : Held(q, k)' = Held(q, k)
  <2>1. Rows(p)' = Rows(p)
    BY <1>4, <1>6 DEF Rows, Serves
  <2>2. \A k \in Kinds : Held(p, k)' = Held(p, k)
    BY <1>1, <1>4, <1>6, <2>1 DEF Held
  <2> QED
    BY <1>6, <2>2, HeldFrame
<1>8. /\ mishaps \subseteq mishaps'
      /\ \A r \in Recipient, k \in Kinds : jobs[<<r, k>>] > 0 => jobs'[<<r, k>>] > 0
      /\ \A r \in Recipient, k \in Kinds : jobs'[<<r, k>>] > 0 => jobs[<<r, k>>] > 0 \/ r \in Held(p, k)
  <2>1. CASE UNCHANGED <<jobs, mishaps>>
    BY <2>1
  <2>2. CASE Queues(p) /\ mishaps' = mishaps \union (Rows(p) \X {"unanswered"})
    <3>1. /\ jobs \in [Recipient \X Kinds -> Nat]
          /\ \A r \in Recipient, k \in Kinds :
                 jobs'[<<r, k>>] = IF r \in Held(p, k) THEN jobs[<<r, k>>] + 1 ELSE jobs[<<r, k>>]
      BY <1>1, <1>2, <2>2, QueuesJobs DEF IInv, TypeOK
    <3>2. ASSUME NEW r \in Recipient, NEW k \in Kinds
          PROVE  /\ jobs[<<r, k>>] > 0 => jobs'[<<r, k>>] > 0
                 /\ jobs'[<<r, k>>] > 0 => jobs[<<r, k>>] > 0 \/ r \in Held(p, k)
      <4>1. PICK n \in Nat : n = jobs[<<r, k>>]
        BY <3>1
      <4>2. jobs'[<<r, k>>] = n + 1 \/ (jobs'[<<r, k>>] = n /\ r \notin Held(p, k)) 
        BY <3>1, <4>1
      <4>3. jobs'[<<r, k>>] = n + 1 => r \in Held(p, k)
        <5>1. n + 1 # n
          OBVIOUS
        <5> QED
          BY <3>1, <4>1, <5>1
      <4>4. n + 1 > 0
        OBVIOUS
      <4> QED
        BY <4>1, <4>2, <4>3, <4>4
    <3> QED
      BY <2>2, <3>2
  <2> QED
    BY <1>1, <2>1, <2>2
<1>9. \A r \in Recipient, k \in Kinds : Settled(r, k) => Settled(r, k)'
  BY <1>1, <1>8 DEF Settled, Holds
<1>10. ASSUME NEW k \in Kinds, k = "publication" \/ causes = {} PROVE Steady(k)'
  <2>1. Steady(k)
    BY <1>10 DEF Kinds, RecipientsInv, ProgressFits, RecallFits
  <2>2. ASSUME NEW r \in DoneWith(p, k)' PROVE Settled(r, k)'
    <3>1. r \in Recipient /\ dispatches[p].kind = k /\ GoneBy(p, r)
      BY <1>1, <1>4, <1>6, <2>2, DoneKept
    <3>2. r \in DoneWith(p, k)
      BY <1>1, <3>1 DEF DoneWith
    <3> QED
      BY <1>9, <2>1, <3>1, <3>2 DEF Steady
  <2>3. \A r \in Recipient : r[1] \in Marked(k)' => r[1] \in Marked(k)
    BY <1>1 DEF Marked
  <2> QED
    BY <1>6, <1>9, <2>1, <2>2, <2>3, SteadyStep
<1>11. \A r \in claims' : Reached(r)'
  <2> SUFFICES ASSUME NEW r \in claims PROVE Reached(r)'
    BY <1>1
  <2>1. r \in Recipient /\ Reached(r)
    BY <1>2 DEF IInv, TypeOK, RecipientsInv, ProgressFits
  <2> QED
    BY <1>7, <1>8, <2>1, ReachedKept DEF Kinds
<1>12. \A r \in Recipient : Corrected(r)' => r[1] \in update'.carried
  <2> SUFFICES ASSUME NEW r \in Recipient, Corrected(r)' PROVE r[1] \in update.carried
    BY <1>1
  <2>1. CASE r \in Held(p, "removal")
    BY <1>3, <2>1 DEF Held, Rows
  <2>2. CASE r \notin Held(p, "removal")
    BY <1>8, <2>2 DEF Kinds, Corrected, RecipientsInv, ProgressFits
  <2> QED
    BY <2>1, <2>2
<1>13. ASSUME causes' = {}
       PROVE  /\ Steady("removal")'
              /\ \A r \in amended' : Corrected(r)' \/ \E q \in Processes : r \in Held(q, "removal")'
              /\ OnlyRemovals => OnlyRemovals'
  <2>1. causes = {} /\ Steady("removal")'
    BY <1>1, <1>10, <1>13 DEF Kinds
  <2>2. ASSUME NEW r \in amended PROVE Corrected(r)' \/ \E q \in Processes : r \in Held(q, "removal")'
    <3>1. (Corrected(r) \/ \E q \in Processes : r \in Held(q, "removal")) /\ r \in Recipient
      BY <1>2, <2>1 DEF RecipientsInv, RecallFits, IInv, TypeOK
    <3> QED
      BY <1>7, <1>8, <3>1 DEF Kinds, Corrected
  <2>3. OnlyRemovals => OnlyRemovals'
    <3> SUFFICES ASSUME OnlyRemovals PROVE OnlyRemovals'
      OBVIOUS
    <3>1. update.carried \ update.corrected \subseteq dispatches[p].todo
      BY <1>1 DEF OnlyRemovals
    <3>2. (update.carried \ update.corrected)' = update.carried \ update.corrected
      BY <1>1
    <3> QED
      BY <1>4, <1>5, <1>6, <3>1, <3>2, OnlyRemovalsStep
  <2> QED
    BY <1>1, <2>1, <2>2, <2>3
<1>14. Steady("publication")'
  BY <1>10 DEF Kinds
<1> QED
  BY <1>1, <1>2, <1>4, <1>5, <1>11, <1>12, <1>13, <1>14, RecipientsStep

\* Giving the claims back keeps RecipientsInv.
LEMMA ReleaseRecipients ==
    ASSUME RecipientsInv, NEW p \in Processes, Release(p)
    PROVE  RecipientsInv'
<1>1. /\ dispatches[p].at = "release" /\ Set(p, Idle) /\ CutOff(p)
      /\ amended' = amended \ Rows(p)
      /\ IF dispatches[p].kind = "publication"
         THEN claims' = claims \ Rows(p) /\ mishaps' = mishaps \union (Outrun(p) \X {"outrun"})
         ELSE UNCHANGED <<claims, mishaps>>
      /\ UNCHANGED <<update, appeal, jobs>>
  BY DEF Release, rows
<1>2. IInv' /\ IInv
  BY ReleaseStep DEF RecipientsInv
<1>3. /\ dispatches[p].kind \in Kinds /\ Rows(p) \subseteq Recipient
  BY <1>1, <1>2, HeldIsMine
<1>4. /\ dispatches'[p] = Idle /\ \A q \in Processes : q # p => dispatches'[q] = dispatches[q]
  BY <1>1, <1>2, IdleType, SetDispatch DEF IInv
<1>5. /\ causes \subseteq causes' /\ mishaps \subseteq mishaps' /\ claims' \subseteq claims
      /\ causes' = {} => dispatches[p].kind = "publication"
      /\ claims' # claims => dispatches[p].kind = "publication"
  BY <1>1, <1>3 DEF CutOff, Kinds
<1>6. ASSUME dispatches[p].kind = "publication", NEW r \in Rows(p),
             r[1] \in update.carried \/ \E q \in Processes \ {p} : r \in DoneWith(q, "publication")
      PROVE  <<r, "outrun">> \in mishaps'
  <2>1. r \in Outrun(p)
    BY <1>6 DEF Outrun, DoneWith
  <2> QED
    BY <1>1, <1>6, <2>1
<1>7. \A k \in Kinds : DoneWith(p, k)' = {}
  BY <1>4, IdleParts DEF DoneWith, GoneBy
<1>8. \A k \in Kinds : Marked(k)' = Marked(k)
  BY <1>1 DEF Marked
<1>9. Steady("publication")'
  <2>1. Steady("publication")
    BY DEF RecipientsInv, ProgressFits
  <2>2. ASSUME NEW r \in Recipient, Settled(r, "publication"),
               r[1] \in Marked("publication") \/ \E q \in Processes \ {p} : r \in DoneWith(q, "publication")
        PROVE  Settled(r, "publication")'
    <3>1. CASE dispatches[p].kind = "publication" /\ r \in Rows(p)
      BY <1>6, <2>2, <3>1 DEF Marked, Settled, Holds
    <3>2. CASE ~(dispatches[p].kind = "publication" /\ r \in Rows(p))
      BY <1>1, <1>5, <2>2, <3>2 DEF Settled, Holds
    <3> QED
      BY <3>1, <3>2
  <2> QED
    BY <1>4, <1>7, <1>8, <2>1, <2>2, SteadyStep DEF Kinds
<1>10. \A r \in claims' : Reached(r)'
  <2> SUFFICES ASSUME NEW r \in claims' PROVE Reached(r)'
    OBVIOUS
  <2>1. r \in claims /\ r \in Recipient /\ Reached(r)
    BY <1>2, <1>5 DEF IInv, TypeOK, RecipientsInv, ProgressFits
  <2>2. r \notin Held(p, "publication")
    BY <1>1 DEF Held
  <2>3. \A q \in Processes : r \in Held(q, "publication") => r \in Held(q, "publication")'
    BY <1>4, <2>2, HeldFrame DEF Kinds
  <2> QED
    BY <1>1, <1>5, <2>1, <2>3, ReachedKept
<1>11. \A r \in Recipient : Corrected(r)' => r[1] \in update'.carried
  BY <1>1 DEF RecipientsInv, ProgressFits, Corrected
\* A publication undoes no correction that is not outrun.
<1>12. ASSUME causes' = {}
       PROVE  /\ Steady("removal")'
              /\ \A r \in amended' : Corrected(r)' \/ \E q \in Processes : r \in Held(q, "removal")'
              /\ OnlyRemovals => OnlyRemovals'
  <2>1. causes = {} /\ dispatches[p].kind = "publication"
    BY <1>5, <1>12
  <2>2. Steady("removal")
    BY <2>1 DEF RecipientsInv, RecallFits
  <2>3. ASSUME NEW r \in Recipient, Settled(r, "removal") PROVE Settled(r, "removal")'
    <3>1. CASE r \in Rows(p) /\ r \in amended
      <4>1. r[1] \in update.carried
        BY <1>2, <3>1 DEF IInv, ClaimsFit
      <4> QED
        BY <1>6, <2>1, <3>1, <4>1 DEF Settled, Holds
    <3>2. CASE ~(r \in Rows(p) /\ r \in amended)
      BY <1>1, <1>5, <2>3, <3>2 DEF Settled, Holds
    <3> QED
      BY <3>1, <3>2
  <2>4. Steady("removal")'
    BY <1>4, <1>7, <1>8, <2>2, <2>3, SteadyStep DEF Kinds
  <2>5. Held(p, "removal") = {}
    BY <2>1 DEF Held
  <2>6. \A r \in amended' : Corrected(r)' \/ \E q \in Processes : r \in Held(q, "removal")'
    BY <1>1, <1>4, <2>1, <2>5, HeldFrame DEF Kinds, RecipientsInv, RecallFits, Corrected
  <2>7. ~OnlyRemovals
    BY <2>1 DEF OnlyRemovals
  <2> QED
    BY <2>4, <2>6, <2>7
<1> QED
  BY <1>1, <1>2, <1>5, <1>9, <1>10, <1>11, <1>12, IdleType, IdleParts, RecipientsStep

\* A dispatch starts where there was none, and has gone by nobody.
LEMMA StartsFresh ==
    ASSUME TypeOK, NEW kind \in Kinds, NEW revision \in 0 .. MaxRevision, Dispatches(kind, revision)
    PROVE  \E p \in Processes :
               /\ dispatches[p] = Idle
               /\ dispatches'[p].kind = kind /\ dispatches'[p].at = "state"
               /\ dispatches'[p].todo = {} /\ dispatches'[p].last = 0
               /\ \A q \in Processes : q # p => dispatches'[q] = dispatches[q]
<1>1. PICK p \in Processes :
        /\ dispatches[p] = Idle
        /\ dispatches' = [dispatches EXCEPT ![p] = [Idle EXCEPT !.kind = kind, !.revision = revision, !.at = "state"]]
  BY DEF Dispatches
<1> DEFINE d == [Idle EXCEPT !.kind = kind, !.revision = revision, !.at = "state"]
<1>2. d.kind = kind /\ d.at = "state" /\ d.todo = {} /\ d.last = 0
  BY DEF Idle
<1>3. dispatches' = [dispatches EXCEPT ![p] = d]
  BY <1>1
<1> HIDE DEF d
<1> QED
  BY <1>1, <1>2, <1>3 DEF TypeOK

\* A decision, an edit or a report, with or without a dispatch it starts.
LEMMA DecisionRecipients ==
    ASSUME RecipientsInv, IInv', UNCHANGED <<claims, amended, jobs, mishaps>>,
           update'.carried = update.carried, update'.corrected = update.corrected, causes \subseteq causes',
           \/ UNCHANGED dispatches
           \/ \E kind \in Kinds, revision \in 0 .. MaxRevision : Dispatches(kind, revision),
           causes' = {} /\ Withdrawn' => OnlyRemovals'
    PROVE  RecipientsInv'
<1>1. ASSUME NEW p \in Processes
      PROVE  \/ dispatches'[p] = dispatches[p]
             \/ /\ dispatches[p] = Idle /\ dispatches'[p].at = "state"
                /\ dispatches'[p].todo = {} /\ dispatches'[p].last = 0
  <2>1. TypeOK
    BY DEF RecipientsInv, IInv
  <2> QED
    BY <2>1, StartsFresh
<1>2. \A p \in Processes, k \in Kinds : Held(p, k)' = Held(p, k) /\ DoneWith(p, k)' \subseteq DoneWith(p, k)
  <2> SUFFICES ASSUME NEW p \in Processes, NEW k \in Kinds
      PROVE Held(p, k)' = Held(p, k) /\ DoneWith(p, k)' \subseteq DoneWith(p, k)
    OBVIOUS
  <2>1. CASE dispatches'[p] = dispatches[p]
    BY <2>1, HeldFrame, DoneFrame
  <2>2. CASE dispatches[p] = Idle /\ dispatches'[p].at = "state" /\ dispatches'[p].todo = {}
    <3>1. Held(p, k)' = {} /\ Held(p, k) = {}
      BY <2>2, IdleParts DEF Held
    <3>2. DoneWith(p, k)' = {}
      BY <2>2 DEF DoneWith, GoneBy
    <3> QED
      BY <3>1, <3>2
  <2> QED
    BY <1>1, <2>1, <2>2
<1>3. \A k \in Kinds : Marked(k)' = Marked(k)
  BY DEF Marked
<1>4. \A r \in Recipient, k \in Kinds : Settled(r, k) => Settled(r, k)'
  BY DEF Settled, Holds
<1>5. \A k \in Kinds : Steady(k) => Steady(k)'
  BY <1>2, <1>3, <1>4 DEF Steady
<1>6. ProgressFits'
  <2>1. /\ \A q \in Processes : dispatches'[q].at = "idle" => dispatches'[q] = Idle
        /\ \A q \in Processes : dispatches'[q].at = "state" => dispatches'[q].todo = {} /\ dispatches'[q].last = 0
    BY <1>1 DEF RecipientsInv, ProgressFits
  <2>2. \A r \in claims' : Reached(r)'
    <3> SUFFICES ASSUME NEW r \in claims PROVE Reached(r)'
      OBVIOUS
    <3>1. r \in Recipient /\ Reached(r)
      BY DEF RecipientsInv, IInv, TypeOK, ProgressFits
    <3> QED
      BY <1>2, <3>1, ReachedKept DEF Kinds
  <2>3. \A r \in Recipient : Corrected(r)' => r[1] \in update'.carried
    BY DEF RecipientsInv, ProgressFits, Corrected
  <2> QED
    BY <1>5, <2>1, <2>2, <2>3 DEF Kinds, RecipientsInv, ProgressFits
<1>7. RecallFits'
  <2> SUFFICES ASSUME causes' = {}
      PROVE /\ Steady("removal")'
            /\ \A r \in amended' : Corrected(r)' \/ \E q \in Processes : r \in Held(q, "removal")'
    BY DEF RecallFits
  <2>1. /\ Steady("removal")
        /\ \A r \in amended : Corrected(r) \/ \E q \in Processes : r \in Held(q, "removal")
    BY DEF RecipientsInv, RecallFits
  <2>2. \A r \in amended' : Corrected(r)' \/ \E q \in Processes : r \in Held(q, "removal")'
    BY <1>2, <2>1 DEF Kinds, Corrected
  <2> QED
    BY <1>5, <2>1, <2>2 DEF Kinds
<1> QED
  BY <1>6, <1>7 DEF RecipientsInv

\* What a decision writes to the row of the update.
LEMMA MovesParts ==
    ASSUME update \in Update, NEW status, NEW revision, Moves(status, revision)
    PROVE  /\ update'.status = status
           /\ update'.carried = update.carried /\ update'.corrected = update.corrected
BY DEF Moves, Update

\* What goes on about a removal stays the only thing that does.
LEMMA OnlyRemovalsFrame ==
    ASSUME OnlyRemovals, UNCHANGED dispatches,
           update'.carried = update.carried, update'.corrected = update.corrected
    PROVE  OnlyRemovals'
BY DEF OnlyRemovals, InProgress

\* A publication keeps what the update carried and starts at most a dispatch.
LEMMA PublishesRecipients ==
    ASSUME RecipientsInv, Publishes
    PROVE  /\ update'.status = "published"
           /\ update'.carried = update.carried /\ update'.corrected = update.corrected
           /\ \E kind \in Kinds, revision \in 0 .. MaxRevision : Dispatches(kind, revision)
<1>1. update \in Update /\ update.revision \in 0 .. MaxRevision
  BY DEF RecipientsInv, IInv, TypeOK, Update
<1>2. Moves("published", update.revision) /\ Dispatches("publication", update.revision)
  BY DEF Publishes
<1> QED
  BY <1>1, <1>2, MovesParts DEF Kinds

\* A decision keeps RecipientsInv.
LEMMA DecideRecipients ==
    ASSUME RecipientsInv, NEW action \in DOMAIN Transition, Decide(action)
    PROVE  RecipientsInv'
<1>1. IInv' /\ IInv /\ update \in Update /\ update.revision \in 0 .. MaxRevision
  BY DecideStep DEF RecipientsInv, IInv, TypeOK, Update
<1>2. UNCHANGED <<claims, amended, jobs, mishaps>> /\ NotesRace
  BY DEF Decide, recipients
<1>3. causes \subseteq causes' /\ (InProgress => causes' # {})
  BY <1>2 DEF NotesRace
<1>4. CASE Publishes
  BY <1>1, <1>2, <1>3, <1>4, PublishesRecipients, DecisionRecipients DEF Withdrawn
<1>5. CASE Moves("rejected", update.revision) /\ UNCHANGED <<approved, dispatches>>
  BY <1>1, <1>2, <1>3, <1>5, MovesParts, DecisionRecipients DEF Withdrawn
<1>6. CASE Moves("removed", update.revision) /\ Dispatches("removal", update.revision)
  <2>1. /\ update'.status = "removed"
        /\ update'.carried = update.carried /\ update'.corrected = update.corrected
    BY <1>1, <1>6, MovesParts
  <2>2. "removal" \in Kinds /\ TypeOK
    BY <1>1 DEF Kinds, IInv
  <2>3. PICK p \in Processes :
           /\ dispatches'[p].kind = "removal" /\ dispatches'[p].at = "state"
           /\ \A q \in Processes : q # p => dispatches'[q] = dispatches[q]
    BY <1>1, <1>6, <2>2, StartsFresh
  <2>4. ASSUME causes' = {} PROVE OnlyRemovals'
    <3>1. \A q \in Processes : dispatches[q] = Idle
      BY <1>3, <2>4 DEF InProgress
    <3>2. InProgress'
      BY <2>3, IdleParts DEF InProgress
    <3>3. \A q \in Processes : dispatches'[q].kind # "publication" /\ dispatches'[q].at \in {"idle", "state"}
      BY <2>3, <3>1, IdleParts
    <3> QED
      BY <3>2, <3>3 DEF OnlyRemovals
  <2> QED
    BY <1>1, <1>2, <1>3, <1>6, <2>1, <2>2, <2>4, DecisionRecipients
<1> QED
  BY <1>4, <1>5, <1>6 DEF Decide

\* Filing an appeal keeps RecipientsInv.
LEMMA FileAppealRecipients ==
    ASSUME RecipientsInv, NEW a \in Admins, FileAppeal(a)
    PROVE  RecipientsInv'
<1>1. IInv' /\ IInv /\ update \in Update
  BY FileAppealStep DEF RecipientsInv, IInv, TypeOK
<1>2. /\ UNCHANGED <<claims, amended, jobs, mishaps, dispatches, causes>>
      /\ appeal'.prior = update.status /\ Moves("appealed", update.revision)
  BY DEF FileAppeal, recipients
<1>3. /\ update'.status = "appealed"
      /\ update'.carried = update.carried /\ update'.corrected = update.corrected
  BY <1>1, <1>2, MovesParts
<1>4. causes' = {} /\ Withdrawn' => OnlyRemovals'
  <2> SUFFICES ASSUME causes' = {}, Withdrawn' PROVE OnlyRemovals'
    OBVIOUS
  <2>1. Withdrawn /\ causes = {}
    BY <1>2, <1>3 DEF Withdrawn
  <2> QED
    BY <1>2, <1>3, <2>1, OnlyRemovalsFrame DEF RecipientsInv, RecallFits
<1> QED
  BY <1>1, <1>2, <1>3, <1>4, DecisionRecipients

\* Deciding an appeal keeps RecipientsInv.
LEMMA DecideAppealRecipients ==
    ASSUME RecipientsInv, NEW a \in Admins, DecideAppeal(a)
    PROVE  RecipientsInv'
<1>1. IInv' /\ IInv /\ update \in Update
  BY DecideAppealStep DEF RecipientsInv, IInv, TypeOK
<1>2. UNCHANGED <<claims, amended, jobs, mishaps>> /\ appeal # NoAppeal
  BY DEF DecideAppeal, recipients
<1>3. CASE Publishes /\ NotesRace
  <2>1. causes \subseteq causes'
    BY <1>3 DEF NotesRace
  <2> QED
    BY <1>1, <1>2, <1>3, <2>1, PublishesRecipients, DecisionRecipients DEF Withdrawn
<1>4. CASE Moves(appeal.prior, update.revision) /\ UNCHANGED <<approved, dispatches, causes>>
  <2>1. /\ update'.status = appeal.prior /\ appeal.prior \in {"rejected", "removed"}
        /\ update'.carried = update.carried /\ update'.corrected = update.corrected
        /\ update.status = "appealed"
    BY <1>1, <1>2, <1>4, MovesParts DEF IInv, TypeOK, AppealIsPending
  <2>2. causes' = {} /\ Withdrawn' => OnlyRemovals'
    <3> SUFFICES ASSUME causes' = {}, Withdrawn' PROVE OnlyRemovals'
      OBVIOUS
    <3>1. Withdrawn /\ causes = {}
      BY <1>4, <2>1 DEF Withdrawn
    <3> QED
      BY <1>4, <2>1, <3>1, OnlyRemovalsFrame DEF RecipientsInv, RecallFits
  <2> QED
    BY <1>1, <1>2, <1>4, <2>1, <2>2, DecisionRecipients
<1> QED
  BY <1>3, <1>4 DEF DecideAppeal

\* The actions of the moderation that have nothing to do with a removal.
LEMMA OtherRecipients ==
    ASSUME RecipientsInv,
           \/ Create \/ Edit \/ RetryNotifications
           \/ \E d \in Donors : CheckReport(d) \/ InsertReport(d)
           \/ UNCHANGED vars
    PROVE  RecipientsInv'
<1>1. IInv /\ update \in Update /\ update.revision \in 0 .. MaxRevision
  BY DEF RecipientsInv, IInv, TypeOK, Update
<1>2. CASE Create
  <2>1. PICK status \in {"published_pending_review", "pending"} : Moves(status, 1)
    BY <1>2 DEF Create
  <2>2. UNCHANGED <<claims, amended, jobs, mishaps, dispatches, causes>>
    BY <1>2 DEF Create, recipients
  <2> QED
    BY <1>1, <1>2, <2>1, <2>2, CreateStep, MovesParts, DecisionRecipients DEF Withdrawn
<1>3. CASE Edit
  <2>1. Moves(StatusAfterEdit, update.revision + 1)
    BY <1>3 DEF Edit
  <2>2. UNCHANGED <<claims, amended, jobs, mishaps, dispatches, causes>>
    BY <1>3 DEF Edit, recipients
  <2>3. StatusAfterEdit \in {"published_pending_review", "pending"}
    BY DEF StatusAfterEdit
  <2> QED
    BY <1>1, <1>3, <2>1, <2>2, <2>3, EditStep, MovesParts, DecisionRecipients DEF Withdrawn
<1>4. CASE RetryNotifications
  <2>1. UNCHANGED <<update, claims, amended, jobs, mishaps, causes>>
    BY <1>4 DEF RetryNotifications, rows, recipients, history
  <2>2. update.status = "published" /\ Dispatches("publication", update.revision)
    BY <1>4 DEF RetryNotifications
  <2> QED
    BY <1>1, <1>4, <2>1, <2>2, RetryStep, DecisionRecipients DEF Withdrawn, Kinds
<1>5. CASE UNCHANGED vars \/ \E d \in Donors : CheckReport(d) \/ InsertReport(d)
  <2>1. UNCHANGED <<update, appeal, claims, amended, jobs, mishaps, dispatches, causes>>
    BY <1>5 DEF CheckReport, InsertReport, recipients, rows, history, vars
  <2>2. IInv'
    BY <1>1, <1>5, ReportStep, StutterStep
  <2>3. causes' = {} /\ Withdrawn' => OnlyRemovals'
    <3> SUFFICES ASSUME causes' = {}, Withdrawn' PROVE OnlyRemovals'
      OBVIOUS
    <3>1. Withdrawn /\ causes = {}
      BY <2>1 DEF Withdrawn
    <3> QED
      BY <2>1, <3>1, OnlyRemovalsFrame DEF RecipientsInv, RecallFits
  <2> QED
    BY <2>1, <2>2, <2>3, DecisionRecipients
<1> QED
  BY <1>2, <1>3, <1>4, <1>5

\* Nobody is a recipient initially: RecipientsInv holds.
LEMMA InitRecipients ==
    Init => RecipientsInv
<1> SUFFICES ASSUME Init PROVE RecipientsInv
  OBVIOUS
<1>1. \A p \in Processes : dispatches[p] = Idle
  BY DEF Init
<1>2. \A p \in Processes, k \in Kinds : DoneWith(p, k) = {}
  BY <1>1, IdleParts DEF DoneWith, GoneBy
<1>3. \A k \in Kinds : Steady(k)
  BY <1>2 DEF Init, Steady, Marked
<1>4. ProgressFits
  BY <1>1, <1>3, IdleParts DEF Init, ProgressFits, Kinds, Corrected
<1>5. RecallFits
  BY <1>3 DEF Init, RecallFits, Kinds, Withdrawn
<1> QED
  BY <1>4, <1>5, InitInv DEF RecipientsInv

-----------------------------------------------------------------------------
(* Theorems *)

\* The invariant of the moderation, the claims and the corrections, in every
\* reachable state.
THEOREM UpdatesInvariantHolds == Spec => []IInv
<1>1. IInv /\ [Next]_vars => IInv'
  <2> SUFFICES ASSUME IInv, [Next]_vars PROVE IInv'
    OBVIOUS
  <2>1. CASE Create
    BY <2>1, CreateStep
  <2>2. CASE Edit
    BY <2>2, EditStep
  <2>3. CASE RetryNotifications
    BY <2>3, RetryStep
  <2>4. ASSUME NEW action \in DOMAIN Transition, Decide(action) PROVE IInv'
    BY <2>4, DecideStep
  <2>5. ASSUME NEW a \in Admins, FileAppeal(a) \/ DecideAppeal(a) PROVE IInv'
    BY <2>5, FileAppealStep, DecideAppealStep
  <2>6. ASSUME NEW d \in Donors, CheckReport(d) \/ InsertReport(d) PROVE IInv'
    BY <2>6, ReportStep
  <2>7. ASSUME NEW p \in Processes, DispatchStep(p) PROVE IInv'
    BY <2>7, ReadStateStep, ReadChunkStep, ClaimStep, SendStep, SendFailsStep, ReleaseStep, MarkStep, StopStep
    DEF DispatchStep
  <2>8. CASE UNCHANGED vars
    BY <2>8, StutterStep
  <2> QED
    BY <2>1, <2>2, <2>3, <2>4, <2>5, <2>6, <2>7, <2>8 DEF Next
<1> QED
  BY InitInv, <1>1, PTL DEF Spec

\* Moderation is sound: only a revision that a moderator has published is sent to
\* subscribers, whatever edits, decisions, appeals and retries come in between, and
\* the history keeps what donors could read.
THEOREM ModerationStaysSound == Spec => []ModerationIsSound
<1>1. IInv => ModerationIsSound
  BY DEF IInv, ModerationIsSound
<1> QED
  BY UpdatesInvariantHolds, <1>1, PTL

\* Nobody is sent an update or its correction twice, however many dispatches
\* overlap, but for the named mishaps.
THEOREM RecipientsAreNotifiedOnce == Spec => []NotifiedOnce
<1>1. IInv => NotifiedOnce
  <2> SUFFICES ASSUME IInv, NEW r \in Recipient, NEW k \in Kinds, jobs[<<r, k>>] > 1
      PROVE Holds(r, "unanswered") \/ Holds(r, "outrun")
    BY DEF NotifiedOnce
  <2>1. jobs[<<r, k>>] \in Nat
    BY DEF IInv, TypeOK
  <2>2. CASE k = "publication"
    BY <2>1, <2>2 DEF IInv, ClaimsFit
  <2>3. CASE k = "removal"
    BY <2>1, <2>3 DEF IInv, CorrectionsFit
  <2> QED
    BY <2>2, <2>3 DEF Kinds
<1> QED
  BY UpdatesInvariantHolds, <1>1, PTL

\* Whom the dispatches have gone by, in every reachable state.
THEOREM RecipientsInvariantHolds == Spec => []RecipientsInv
<1>1. RecipientsInv /\ [Next]_vars => RecipientsInv'
  <2> SUFFICES ASSUME RecipientsInv, [Next]_vars PROVE RecipientsInv'
    OBVIOUS
  <2>1. CASE \/ Create \/ Edit \/ RetryNotifications
             \/ \E d \in Donors : CheckReport(d) \/ InsertReport(d)
             \/ UNCHANGED vars
    BY <2>1, OtherRecipients
  <2>2. ASSUME NEW action \in DOMAIN Transition, Decide(action) PROVE RecipientsInv'
    BY <2>2, DecideRecipients
  <2>3. ASSUME NEW a \in Admins, FileAppeal(a) \/ DecideAppeal(a) PROVE RecipientsInv'
    BY <2>3, FileAppealRecipients, DecideAppealRecipients
  <2>4. ASSUME NEW p \in Processes, DispatchStep(p) PROVE RecipientsInv'
    BY <2>4, ReadStateRecipients, ReadChunkRecipients, ClaimRecipients, SendRecipients, SendFailsRecipients,
       ReleaseRecipients, MarkRecipients, StopRecipients
    DEF DispatchStep
  <2> QED
    BY <2>1, <2>2, <2>3, <2>4 DEF Next
<1> QED
  BY InitRecipients, <1>1, PTL DEF Spec

\* A channel marked as notified has gone by every subscriber, corrections only go
\* to those, and a removal that was neither cut off nor raced has reached all of
\* them, for any number of recipients, chunks of any size, and however many
\* dispatches overlap, fail or stop.
THEOREM RecipientsAlwaysAgree == Spec => []RecipientsAgree
<1>1. RecipientsInv => RecipientsAgree
  <2> SUFFICES ASSUME RecipientsInv, NEW r \in Recipient
      PROVE /\ r[1] \in update.carried => Reached(r)
            /\ Corrected(r) => Reached(r)
            /\ update.status = "removed" /\ ~InProgress /\ causes = {} =>
                   (r[1] \in update.carried => Corrected(r) \/ Holds(r, "outrun"))
    BY DEF RecipientsAgree
  <2>1. ASSUME r[1] \in update.carried PROVE Reached(r)
    <3>1. Settled(r, "publication")
      BY <2>1 DEF RecipientsInv, ProgressFits, Steady, Marked
    <3> QED
      BY <3>1 DEF Settled, Reached, RecipientsInv, ProgressFits
  <2>2. Corrected(r) => r[1] \in update.carried
    BY DEF RecipientsInv, ProgressFits
  <2>3. ASSUME update.status = "removed", ~InProgress, causes = {}, r[1] \in update.carried
        PROVE  Corrected(r) \/ Holds(r, "outrun")
    <3>1. OnlyRemovals
      BY <2>3 DEF RecipientsInv, RecallFits, Withdrawn
    <3>2. Settled(r, "removal")
      BY <2>3, <3>1 DEF OnlyRemovals, RecipientsInv, RecallFits, Steady, Marked
    <3>3. \A p \in Processes : Held(p, "removal") = {}
      BY <2>3, IdleParts DEF InProgress, Held
    <3>4. r \in amended => Corrected(r)
      BY <2>3, <3>3 DEF RecipientsInv, RecallFits
    <3> QED
      BY <3>2, <3>4 DEF Settled
  <2> QED
    BY <2>1, <2>2, <2>3
<1> QED
  BY RecipientsInvariantHolds, <1>1, PTL
=============================================================================
