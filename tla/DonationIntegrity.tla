-------------------------- MODULE DonationIntegrity --------------------------
(***************************************************************************)
(* The review of suspicious donations: the detector                        *)
(* (backend/src/services/donationIntegrity.js) and the decisions, appeals  *)
(* and enforcement of reviewers (routes/integrity.js).                     *)
(*                                                                         *)
(* A donation is assessed from a queue by workers of several processes,    *)
(* in a transaction that holds its row.  It is assessed again when a       *)
(* payment of the Horizon stream completes a cycle, and then every         *)
(* statement is a transaction of its own, so that its FOR UPDATE holds the *)
(* row for that statement only.  Reviewers work in transactions that hold  *)
(* the row; such a transaction is one step, except the decision on an      *)
(* appeal, which reads the enforcement setting without locking it.         *)
(*                                                                         *)
(* The score is left open: an assessment may or may not reach the review   *)
(* boundary.  The three exclusion flags are always written together and    *)
(* are one here.  The labelled set and its gate, relationships of wallets  *)
(* and the log of events are not modelled: nothing below reads them,       *)
(* except that enforcement can only be enabled when the gate is met.       *)
(***************************************************************************)
EXTENDS Integers, Sequences

CONSTANTS
    Donations,
    Reviewers,
    Pods,           \* processes with a Horizon stream
    MaxAppeals,     \* bound: appeals against one assessment
    MaxOpen         \* bound: unused challenges of one assessment

ASSUME IntegrityAssumption ==
    "none" \notin Donations \union Reviewers /\ MaxAppeals \in Nat /\ MaxOpen \in Nat

VARIABLES
    recorded,       \* DonationRecorded events
    queue,          \* donation_integrity_queue
    cases,          \* donation_integrity_assessments
    appeals,        \* donation_integrity_appeals, in the order of submission
    challenges,     \* unused appeal challenges
    enforcement,    \* enforcement_enabled
    rescores,       \* assessments outside a transaction, of each pod
    hearings,       \* decisions on appeals, of each reviewer
    overtaken,      \* history: cases whose decision was overwritten by a rescore
    raced           \* history: cases decided by a setting that changed meanwhile

integrityVars == <<recorded, queue, cases, appeals, challenges, enforcement, rescores, hearings, overtaken, raced>>

Undecided == {"monitoring", "pending_review"}
Protected == {"confirmed", "dismissed", "appealed"}
Status == {"none"} \union Undecided \union Protected
Case == [status: Status, excluded: BOOLEAN, decided_by: Reviewers \union {"none"}]
AnAppeal == [status: {"pending", "granted", "denied"}, against: Reviewers, decided_by: Reviewers \union {"none"}]
Rescore == [at: {"idle", "selected", "read"}, case: Donations \union {"none"}, seen: Status]
Hearing == [case: Donations \union {"none"}, outcome: {"grant", "deny"}, enforced: BOOLEAN]

NoRescore == [at |-> "idle", case |-> "none", seen |-> "none"]
NoHearing == [case |-> "none", outcome |-> "grant", enforced |-> FALSE]

IntegrityTypes ==
    /\ recorded \subseteq Donations /\ queue \subseteq recorded
    /\ cases \in [Donations -> Case] /\ \A d \in Donations : cases[d].status # "none" => d \in recorded
    /\ appeals \in [Donations -> Seq(AnAppeal)] /\ challenges \in [Donations -> 0 .. MaxOpen]
    /\ enforcement \in BOOLEAN
    /\ rescores \in [Pods -> Rescore] /\ hearings \in [Reviewers -> Hearing]
    /\ overtaken \subseteq Donations /\ raced \subseteq Donations
    /\ \A r, q \in Reviewers : hearings[r].case = hearings[q].case /\ hearings[r].case # "none" => r = q

IntegrityInit ==
    /\ recorded = {} /\ queue = {}
    /\ cases = [d \in Donations |-> [status |-> "none", excluded |-> FALSE, decided_by |-> "none"]]
    /\ appeals = [d \in Donations |-> <<>>] /\ challenges = [d \in Donations |-> 0]
    /\ enforcement = FALSE
    /\ rescores = [p \in Pods |-> NoRescore] /\ hearings = [r \in Reviewers |-> NoHearing]
    /\ overtaken = {} /\ raced = {}

\* A transaction holds the row of the case.
Locked(d) == \E r \in Reviewers : hearings[r].case = d

-----------------------------------------------------------------------------
(* Assessment *)

\* The event is stored; that its queue entry cannot be written is only logged.
RecordDonation(d) ==
    /\ d \notin recorded
    /\ recorded' = recorded \union {d}
    /\ queue' \in {queue, queue \union {d}}
    /\ UNCHANGED <<cases, appeals, challenges, enforcement, rescores, hearings, overtaken, raced>>

\* The other source reports the same donation, before or after its assessment.
QueueDonationAssessment(d) ==
    /\ d \in recorded
    /\ queue' = queue \union {d}
    /\ UNCHANGED <<recorded, cases, appeals, challenges, enforcement, rescores, hearings, overtaken, raced>>

\* Mutated: donations of the API are taken to be queued already.
SweepHistoricalDonations_Assessed ==
    /\ queue' = queue \union {d \in recorded : cases[d].status # "none"}
    /\ UNCHANGED <<recorded, cases, appeals, challenges, enforcement, rescores, hearings, overtaken, raced>>

SweepHistoricalDonations ==
    /\ queue' = queue \union {d \in recorded : cases[d].status = "none"}
    /\ UNCHANGED <<recorded, cases, appeals, challenges, enforcement, rescores, hearings, overtaken, raced>>

\* Mutated: an appeal does not protect the status.
NextStatus_Appealed(status) == IF status \in {"confirmed", "dismissed"} THEN {status} ELSE Undecided

\* assessDonation: the score decides unless a reviewer has.
NextStatus(status) == IF status \in Protected THEN {status} ELSE Undecided

\* processIntegrityQueueBatch, one entry; a failure leaves it for a retry.
ProcessQueue(d) ==
    /\ d \in queue /\ ~Locked(d)
    /\ \E status \in NextStatus(cases[d].status) : cases' = [cases EXCEPT ![d].status = status]
    /\ queue' = queue \ {d}
    /\ UNCHANGED <<recorded, appeals, challenges, enforcement, rescores, hearings, overtaken, raced>>

\* rescoreCircularCandidates: the list of cases, then for each of them the
\* statements of assessDonation.
SelectCandidate(p, d) ==
    /\ rescores[p].at = "idle" /\ cases[d].status \in Undecided
    /\ rescores' = [rescores EXCEPT ![p] = [at |-> "selected", case |-> d, seen |-> "none"]]
    /\ UNCHANGED <<recorded, queue, cases, appeals, challenges, enforcement, hearings, overtaken, raced>>

ReadCase(p) ==
    LET d == rescores[p].case IN
    /\ rescores[p].at = "selected" /\ ~Locked(d)
    /\ rescores' = [rescores EXCEPT ![p] = [@ EXCEPT !.at = "read", !.seen = cases[d].status]]
    /\ UNCHANGED <<recorded, queue, cases, appeals, challenges, enforcement, hearings, overtaken, raced>>

WriteCase(p) ==
    LET d == rescores[p].case IN
    /\ rescores[p].at = "read" /\ ~Locked(d)
    /\ \E status \in NextStatus(rescores[p].seen) :
           /\ cases' = [cases EXCEPT ![d].status = status]
           /\ overtaken' = IF cases[d].status \in Protected \ {status} THEN overtaken \union {d} ELSE overtaken
    /\ rescores' = [rescores EXCEPT ![p] = NoRescore]
    /\ UNCHANGED <<recorded, queue, appeals, challenges, enforcement, hearings, raced>>

-----------------------------------------------------------------------------
(* Review *)

Decide(r, d, action) ==
    /\ cases[d].status \in Undecided /\ ~Locked(d) /\ hearings[r] = NoHearing
    /\ cases' = [cases EXCEPT ![d] =
           [status |-> IF action = "confirm" THEN "confirmed" ELSE "dismissed",
            excluded |-> action = "confirm" /\ enforcement, decided_by |-> r]]
    /\ UNCHANGED <<recorded, queue, appeals, challenges, enforcement, rescores, hearings, overtaken, raced>>

Pending(d) == \E i \in DOMAIN appeals[d] : appeals[d][i].status = "pending"

AppealChallenge(d) ==
    /\ cases[d].status = "confirmed" /\ challenges[d] < MaxOpen
    /\ challenges' = [challenges EXCEPT ![d] = @ + 1]
    /\ UNCHANGED <<recorded, queue, cases, appeals, enforcement, rescores, hearings, overtaken, raced>>

Expire(d) ==
    /\ challenges[d] > 0
    /\ challenges' = [challenges EXCEPT ![d] = @ - 1]
    /\ UNCHANGED <<recorded, queue, cases, appeals, enforcement, rescores, hearings, overtaken, raced>>

\* Mutated: the exclusion stays while the appeal is heard.
Suspended_Not(case) == [case EXCEPT !.status = "appealed"]
Suspended(case) == [case EXCEPT !.status = "appealed", !.excluded = FALSE]

Challenged(d) == challenges[d] > 0

\* The index of pending appeals refuses a second one.
Appeal(d) ==
    /\ Challenged(d) /\ cases[d].status = "confirmed" /\ ~Locked(d)
    /\ ~Pending(d) /\ Len(appeals[d]) < MaxAppeals
    /\ appeals' = [appeals EXCEPT ![d] =
           Append(@, [status |-> "pending", against |-> cases[d].decided_by, decided_by |-> "none"])]
    /\ challenges' = [challenges EXCEPT ![d] = @ - 1]
    /\ cases' = [cases EXCEPT ![d] = Suspended(@)]
    /\ UNCHANGED <<recorded, queue, enforcement, rescores, hearings, overtaken, raced>>

\* Mutated: anybody may hear an appeal.
MayHear_Anybody(r, d) == TRUE
MayHear(r, d) == cases[d].decided_by # r

\* The decision on an appeal: what it reads,
HearAppeal(r, d, outcome) ==
    /\ Pending(d) /\ ~Locked(d) /\ hearings[r] = NoHearing
    /\ MayHear(r, d)
    /\ hearings' = [hearings EXCEPT ![r] =
           [case |-> d, outcome |-> outcome, enforced |-> outcome = "deny" /\ enforcement]]
    /\ UNCHANGED <<recorded, queue, cases, appeals, challenges, enforcement, rescores, overtaken, raced>>

Settled(d, r, outcome) ==
    [i \in DOMAIN appeals[d] |->
        IF appeals[d][i].status # "pending" THEN appeals[d][i]
        ELSE [appeals[d][i] EXCEPT !.status = IF outcome = "grant" THEN "granted" ELSE "denied", !.decided_by = r]]

\* and what it writes; the case keeps the name of its first reviewer.
DecideAppeal(r) ==
    LET h == hearings[r] IN
    /\ h.case # "none"
    /\ appeals' = [appeals EXCEPT ![h.case] = Settled(h.case, r, h.outcome)]
    /\ cases' = [cases EXCEPT ![h.case] =
           [@ EXCEPT !.status = IF h.outcome = "grant" THEN "dismissed" ELSE "confirmed", !.excluded = h.enforced]]
    /\ hearings' = [hearings EXCEPT ![r] = NoHearing]
    /\ raced' = IF h.outcome = "deny" /\ h.enforced # enforcement THEN raced \union {h.case} ELSE raced
    /\ UNCHANGED <<recorded, queue, challenges, enforcement, rescores, overtaken>>

-----------------------------------------------------------------------------
(* Enforcement *)

\* A row that is held is waited for.
EnableEnforcement ==
    LET confirmed == {d \in Donations : cases[d].status = "confirmed"} IN
    /\ \A d \in confirmed : ~Locked(d)
    /\ enforcement' = TRUE
    /\ cases' = [d \in Donations |-> IF d \in confirmed THEN [cases[d] EXCEPT !.excluded = TRUE] ELSE cases[d]]
    /\ raced' = {}
    /\ UNCHANGED <<recorded, queue, appeals, challenges, rescores, hearings, overtaken>>

DisableEnforcement ==
    /\ \A d \in Donations : cases[d].excluded => ~Locked(d)
    /\ enforcement' = FALSE
    /\ cases' = [d \in Donations |-> [cases[d] EXCEPT !.excluded = FALSE]]
    /\ raced' = {}
    /\ UNCHANGED <<recorded, queue, appeals, challenges, rescores, hearings, overtaken>>

IntegrityNext ==
    \/ \E d \in Donations :
         \/ RecordDonation(d) \/ QueueDonationAssessment(d) \/ ProcessQueue(d)
         \/ \E p \in Pods : SelectCandidate(p, d)
         \/ AppealChallenge(d) \/ Expire(d) \/ Appeal(d)
         \/ \E r \in Reviewers :
              \/ \E action \in {"confirm", "dismiss"} : Decide(r, d, action)
              \/ \E outcome \in {"grant", "deny"} : HearAppeal(r, d, outcome)
    \/ \E p \in Pods : ReadCase(p) \/ WriteCase(p)
    \/ \E r \in Reviewers : DecideAppeal(r)
    \/ SweepHistoricalDonations \/ EnableEnforcement \/ DisableEnforcement

\* The timers of the worker; no entry fails for ever, and a transaction that
\* has begun ends.
Fairness ==
    /\ WF_integrityVars(SweepHistoricalDonations)
    /\ \A d \in Donations : SF_integrityVars(ProcessQueue(d))
    /\ \A r \in Reviewers : WF_integrityVars(DecideAppeal(r))

IntegritySpec == IntegrityInit /\ [][IntegrityNext]_integrityVars /\ Fairness

-----------------------------------------------------------------------------
(* Properties *)

\* What a reviewer has decided is changed only by an appeal and the decision on
\* it, and a dismissal by nothing, except where a rescore wrote back what it
\* had read before.
DecisionsStand ==
    [][\A d \in Donations :
           LET from == cases[d].status  to == cases'[d].status IN
           from \in Protected /\ from # to =>
               \/ from = "confirmed" /\ to = "appealed" /\ Len(appeals'[d]) > Len(appeals[d])
               \/ from = "appealed" /\ to \in {"confirmed", "dismissed"} /\ \E r \in Reviewers : hearings[r].case = d
               \/ d \in overtaken']_integrityVars

\* A donation is excluded exactly when its case is confirmed and enforcement is
\* enabled, except after a rescore of that kind, and after the denial of an
\* appeal that raced with the setting.
ExclusionIsEnforced ==
    \A d \in Donations \ (overtaken \union raced) :
        cases[d].excluded <=> cases[d].status = "confirmed" /\ enforcement

\* An appeal is pending exactly while its case is appealed.
AppealIsHeard ==
    \A d \in Donations \ overtaken : Pending(d) <=> cases[d].status = "appealed"

\* Nobody decides an appeal against a decision of his own, unless the decision
\* was overwritten and somebody else decided the case again meanwhile.
AppealIsIndependent ==
    \A d \in Donations \ overtaken : \A i \in DOMAIN appeals[d] : appeals[d][i].decided_by # appeals[d][i].against

\* An appeal stays pending until somebody else than the first reviewer decides it.
AppealsAreHeard == AppealIsHeard /\ AppealIsIndependent

\* Every donation is assessed, also when its queue entry was never written.
DonationsAreAssessed ==
    \A d \in Donations : d \in recorded ~> cases[d].status # "none"
=============================================================================
