--------------------------- MODULE ProjectUpdates ---------------------------
(***************************************************************************)
(* Moderation of a project update and the messages about it:               *)
(* backend/src/routes/updates.js, services/updateNotifications.js, and the *)
(* queueing of e-mail and push jobs in services/email.js and push.js.      *)
(*                                                                         *)
(* A decision is one transaction that holds the row of the update.  What   *)
(* follows it is not awaited: a dispatch claims the recipients of one      *)
(* channel after another, in chunks, and hands each chunk to the job queue *)
(* (pg-boss, external).  Every awaited call of a dispatch is a step.  A    *)
(* call to the queue may be refused, or fail although the job was taken,   *)
(* and the process may stop (faults).                                      *)
(*                                                                         *)
(* Updates share nothing, so there is one.  Its text is its revision.  The *)
(* subscribers stay the same and the e-mails of a chunk are in one         *)
(* language.  What a worker does with a job is not modelled.               *)
(***************************************************************************)
EXTENDS Integers, FiniteSetsExt

CONSTANTS
    Admins,
    Donors,         \* those with a committed donation to the project
    Recipients,     \* of each channel, by key
    Chunk,          \* EMAIL_CHUNK_SIZE, PUSH_CHUNK_SIZE
    Processes,      \* bound: dispatches at a time
    MaxRevision,    \* bound: number of revisions
    MaxFaults       \* bound: calls to the queue that fail, and stops

Channel == {"email", "push"}

ASSUME UpdatesAssumption ==
    /\ Recipients \in [Channel -> SUBSET (Nat \ {0})] /\ \A c \in Channel : IsFiniteSet(Recipients[c])
    /\ Chunk \in Nat \ {0} /\ MaxRevision \in Nat \ {0} /\ MaxFaults \in Nat

Recipient == UNION {{c} \X Recipients[c] : c \in Channel}
Kinds == {"publication", "removal"}
Public == {"published", "published_pending_review"}     \* PUBLIC_STATUSES

VARIABLES
    update,     \* its row: status, revision, channels notified, channels notified of the removal
    archive,    \* project_update_revisions
    appeal,     \* the pending row of project_update_appeals
    reports,    \* project_update_reports, and requests past their check
    claims,     \* rows of the recipient tables
    amended,    \* those with a correction_queued_at
    jobs,       \* jobs queued for a recipient
    dispatches,
    approved,   \* history: revisions a moderator published
    sent,       \* history: revisions handed to the queue
    shown,      \* history: revisions donors could read
    mishaps,    \* history: what happened to the claim on a recipient
    causes,     \* history: what happened to the dispatches
    faults

rows == <<update, archive, appeal, reports>>
recipients == <<claims, amended, jobs>>
history == <<approved, sent, shown, mishaps, causes>>
vars == <<rows, recipients, dispatches, history, faults>>

Update == [status: Public \union {"none", "pending", "rejected", "removed", "appealed"},
           revision: 0 .. MaxRevision, carried: SUBSET Channel, corrected: SUBSET Channel]
NoAppeal == [filed_by |-> "nobody", prior |-> "none"]
Dispatch == [kind: Kinds \union {"none"}, revision: 0 .. MaxRevision,
             at: {"idle", "state", "read", "claim", "send", "release", "mark"},
             todo: SUBSET Channel, last: Nat, rows: SUBSET Nat, full: BOOLEAN]
Idle == [kind |-> "none", revision |-> 0, at |-> "idle", todo |-> {}, last |-> 0, rows |-> {}, full |-> FALSE]

TypeOK ==
    /\ update \in Update
    /\ archive \subseteq [revision: 1 .. MaxRevision, public: BOOLEAN]
    /\ appeal = NoAppeal \/ appeal \in [filed_by: Admins, prior: {"rejected", "removed"}]
    /\ reports \in [Donors -> {"none", "checked", "open", "late", "reviewed", "actioned"}]
    /\ claims \subseteq Recipient /\ amended \subseteq claims
    /\ jobs \in [Recipient \X Kinds -> Nat]
    /\ dispatches \in [Processes -> Dispatch]
    /\ approved \union sent \union shown \subseteq 1 .. MaxRevision
    /\ mishaps \subseteq Recipient \X {"stranded", "outrun", "unanswered"}
    /\ causes \subseteq {"raced", "cut off"}
    /\ faults \in 0 .. MaxFaults

Init ==
    /\ update = [status |-> "none", revision |-> 0, carried |-> {}, corrected |-> {}]
    /\ archive = {} /\ appeal = NoAppeal /\ reports = [d \in Donors |-> "none"]
    /\ claims = {} /\ amended = {} /\ jobs = [j \in Recipient \X Kinds |-> 0]
    /\ dispatches = [p \in Processes |-> Idle]
    /\ approved = {} /\ sent = {} /\ shown = {} /\ mishaps = {} /\ causes = {}
    /\ faults = 0

-----------------------------------------------------------------------------
(* Moderation *)

Moves(status, revision) ==
    /\ update' = [update EXCEPT !.status = status, !.revision = revision]
    /\ shown' = IF status \in Public THEN shown \union {revision} ELSE shown

\* Projects that are verified in both ways are published before they are reviewed.
Create ==
    /\ update.status = "none"
    /\ \E status \in {"published_pending_review", "pending"} : Moves(status, 1)
    /\ UNCHANGED <<archive, appeal, reports, recipients, dispatches, approved, sent, mishaps, causes, faults>>

WasPublic == update.status \in Public

\* Mutated: the status is kept.
StatusAfterEdit_Kept == update.status
StatusAfterEdit == IF WasPublic THEN "published_pending_review" ELSE "pending"

Edit ==
    /\ update.status \in Public \union {"pending"} /\ update.revision < MaxRevision
    /\ archive' = archive \union {[revision |-> update.revision, public |-> WasPublic]}
    /\ Moves(StatusAfterEdit, update.revision + 1)
    /\ UNCHANGED <<appeal, reports, recipients, dispatches, approved, sent, mishaps, causes, faults>>

\* Starts a dispatch with the update as the decision returned it.
Dispatches(kind, revision) ==
    \E p \in Processes :
        /\ dispatches[p] = Idle
        /\ dispatches' = [dispatches EXCEPT ![p] = [Idle EXCEPT !.kind = kind, !.revision = revision, !.at = "state"]]

InProgress == \E p \in Processes : dispatches[p] # Idle

Publishes ==
    /\ Moves("published", update.revision)
    /\ approved' = approved \union {update.revision}
    /\ Dispatches("publication", update.revision)

NotesRace == causes' = IF InProgress THEN causes \union {"raced"} ELSE causes

Transition == [approve |-> {"pending", "published_pending_review"}, reject |-> {"pending"},
               remove |-> Public, reinstate |-> {"removed"}]

\* A moderator's decision; it settles the open reports.
Decide(action) ==
    /\ update.status \in Transition[action]
    /\ \/ action \in {"approve", "reinstate"} /\ Publishes
       \/ action = "reject" /\ Moves("rejected", update.revision) /\ UNCHANGED <<approved, dispatches>>
       \/ /\ action = "remove" /\ Moves("removed", update.revision) /\ UNCHANGED approved
          /\ Dispatches("removal", update.revision)
    /\ reports' = [d \in Donors |-> IF reports[d] \notin {"open", "late"} THEN reports[d]
                                    ELSE IF action \in {"remove", "reject"} THEN "actioned" ELSE "reviewed"]
    /\ NotesRace
    /\ UNCHANGED <<archive, appeal, recipients, sent, mishaps, faults>>

FileAppeal(a) ==
    /\ update.status \in {"rejected", "removed"}
    /\ appeal = NoAppeal    \* a unique index on the pending appeal
    /\ appeal' = [filed_by |-> a, prior |-> update.status]
    /\ Moves("appealed", update.revision)
    /\ UNCHANGED <<archive, reports, recipients, dispatches, approved, sent, mishaps, causes, faults>>

\* Decided by another administrator than the one who filed it.
DecideAppeal(a) ==
    /\ appeal # NoAppeal /\ appeal.filed_by # a
    /\ appeal' = NoAppeal
    /\ \/ Publishes /\ NotesRace
       \/ Moves(appeal.prior, update.revision) /\ UNCHANGED <<approved, dispatches, causes>>
    /\ UNCHANGED <<archive, reports, recipients, sent, mishaps, faults>>

\* A report is inserted in another statement than the one that checks it may be
\* made; an open one about an update that is no longer public is late.
CheckReport(d) ==
    /\ reports[d] = "none" /\ update.status \in Public
    /\ reports' = [reports EXCEPT ![d] = "checked"]
    /\ UNCHANGED <<update, archive, appeal, recipients, dispatches, history, faults>>

InsertReport(d) ==
    /\ reports[d] = "checked"
    /\ reports' = [reports EXCEPT ![d] = IF update.status \in Public THEN "open" ELSE "late"]
    /\ UNCHANGED <<update, archive, appeal, recipients, dispatches, history, faults>>

RetryNotifications ==
    /\ update.status = "published"
    /\ Dispatches("publication", update.revision)
    /\ UNCHANGED <<rows, recipients, history, faults>>

-----------------------------------------------------------------------------
(* Dispatch *)

Set(p, d) == dispatches' = [dispatches EXCEPT ![p] = d]
\* E-mail comes first.
Serves(p) == IF "email" \in dispatches[p].todo THEN "email" ELSE "push"
Rows(p) == {Serves(p)} \X dispatches[p].rows
\* Recipients a dispatch of this kind has still to claim.
Unclaimed(kind) == IF kind = "publication" THEN Recipient \ claims ELSE claims \ amended
\* Where the loop goes after a chunk.
AfterChunk(d) == [d EXCEPT !.at = IF d.full THEN "read" ELSE "mark", !.rows = {}]

\* Mutated: a removal takes the channels that did not carry the update.
Serve_Inverted(kind, c) == c \notin update.carried \union update.corrected
\* A removal follows the channels that carried the update.
Serve(kind, c) ==
    IF kind = "publication" THEN c \notin update.carried ELSE c \in update.carried \ update.corrected

ReadState(p) ==
    LET d == dispatches[p]
        todo == {c \in Channel : Serve(d.kind, c)}
    IN
    /\ d.at = "state"
    /\ Set(p, IF todo = {} THEN Idle ELSE [d EXCEPT !.at = "read", !.todo = todo])
    /\ UNCHANGED <<rows, recipients, history, faults>>

ReadChunk(p) ==
    LET d == dispatches[p]
        found == {r[2] : r \in {r \in Unclaimed(d.kind) : r[1] = Serves(p) /\ r[2] > d.last}}
        chunk == {n \in found : Cardinality({m \in found : m < n}) < Chunk}
    IN
    /\ d.at = "read"
    /\ \/ chunk = {} /\ Set(p, [d EXCEPT !.at = "mark"])
       \/ \E last \in chunk :
              /\ \A n \in chunk : n <= last
              /\ Set(p, [d EXCEPT !.at = "claim", !.last = last, !.rows = chunk, !.full = Cardinality(chunk) = Chunk])
    /\ UNCHANGED <<rows, recipients, history, faults>>

\* Mutated: the claim does not look at conflicts.
Claimable_All(p) == Rows(p)
\* What another dispatch has claimed since is left to it.
Claimable(p) == Rows(p) \intersect Unclaimed(dispatches[p].kind)

Claim(p) ==
    LET d == dispatches[p]
        taken == Claimable(p)
    IN
    /\ d.at = "claim"
    /\ IF d.kind = "publication" THEN claims' = claims \union taken /\ UNCHANGED amended
       ELSE amended' = amended \union taken /\ UNCHANGED claims
    /\ Set(p, IF taken = {} THEN AfterChunk(d) ELSE [d EXCEPT !.at = "send", !.rows = {r[2] : r \in taken}])
    /\ UNCHANGED <<rows, jobs, history, faults>>

Queues(p) ==
    LET d == dispatches[p] IN
    /\ jobs' = [j \in DOMAIN jobs |-> IF j \in Rows(p) \X {d.kind} THEN jobs[j] + 1 ELSE jobs[j]]
    /\ sent' = IF d.kind = "publication" THEN sent \union {d.revision} ELSE sent

Send(p) ==
    /\ dispatches[p].at = "send"
    /\ Queues(p) /\ Set(p, AfterChunk(dispatches[p]))
    /\ UNCHANGED <<rows, claims, amended, approved, shown, mishaps, causes, faults>>

\* The call fails, whether or not the job was taken.
SendFails(p) ==
    /\ dispatches[p].at = "send" /\ faults < MaxFaults
    /\ faults' = faults + 1
    /\ \/ UNCHANGED <<jobs, sent, mishaps>>
       \/ Queues(p) /\ mishaps' = mishaps \union (Rows(p) \X {"unanswered"})
    /\ Set(p, [dispatches[p] EXCEPT !.at = "release"])
    /\ UNCHANGED <<rows, claims, amended, approved, shown, causes>>

CutOff(p) == causes' = IF dispatches[p].kind = "removal" THEN causes \union {"cut off"} ELSE causes

\* A dispatch has gone by a recipient: it reads no chunk any more that has it.
GoneBy(q, r) ==
    /\ dispatches[q].todo # {} /\ Serves(q) = r[1]
    /\ \/ dispatches[q].at = "mark" \/ dispatches[q].last >= r[2]
       \/ dispatches[q].at \in {"claim", "send", "release"} /\ ~dispatches[q].full

\* Recipients of the chunk that another dispatch has gone by meanwhile.
Outrun(p) ==
    {r \in Rows(p) : \/ r[1] \in update.carried
                     \/ \E q \in Processes \ {p} : dispatches[q].kind = "publication" /\ GoneBy(q, r)}

\* The claim is undone, and the error ends the dispatch.
Release(p) ==
    LET d == dispatches[p] IN
    /\ d.at = "release"
    /\ amended' = amended \ Rows(p)
    /\ IF d.kind = "publication"
       THEN claims' = claims \ Rows(p) /\ mishaps' = mishaps \union (Outrun(p) \X {"outrun"})
       ELSE UNCHANGED <<claims, mishaps>>
    /\ CutOff(p) /\ Set(p, Idle)
    /\ UNCHANGED <<rows, jobs, approved, sent, shown, faults>>

Mark(p) ==
    LET d == dispatches[p] IN
    /\ d.at = "mark"
    /\ update' = IF d.kind = "publication" THEN [update EXCEPT !.carried = @ \union {Serves(p)}]
                 ELSE [update EXCEPT !.corrected = @ \union {Serves(p)}]
    /\ Set(p, IF d.todo = {Serves(p)} THEN Idle
              ELSE [d EXCEPT !.at = "read", !.todo = @ \ {Serves(p)}, !.last = 0])
    /\ UNCHANGED <<archive, appeal, reports, recipients, history, faults>>

\* The process stops; what it has claimed and not queued stays claimed.
Stop(p) ==
    /\ dispatches[p] # Idle /\ faults < MaxFaults
    /\ faults' = faults + 1
    /\ mishaps' = IF dispatches[p].at \in {"send", "release"} /\ dispatches[p].kind = "publication"
                  THEN mishaps \union (Rows(p) \X {"stranded"}) ELSE mishaps
    /\ CutOff(p) /\ Set(p, Idle)
    /\ UNCHANGED <<rows, recipients, approved, sent, shown>>

DispatchStep(p) == ReadState(p) \/ ReadChunk(p) \/ Claim(p) \/ Send(p) \/ SendFails(p) \/ Release(p) \/ Mark(p) \/ Stop(p)

Next ==
    \/ Create \/ Edit \/ RetryNotifications
    \/ \E action \in DOMAIN Transition : Decide(action)
    \/ \E a \in Admins : FileAppeal(a) \/ DecideAppeal(a)
    \/ \E d \in Donors : CheckReport(d) \/ InsertReport(d)
    \/ \E p \in Processes : DispatchStep(p)

Spec == Init /\ [][Next]_vars
-----------------------------------------------------------------------------
(* Properties *)

AppealIsPending == update.status = "appealed" <=> appeal # NoAppeal
ReportsAreSettled == update.status \notin Public => \A d \in Donors : reports[d] # "open"
ShownIsKept == \A r \in shown : r = update.revision \/ [revision |-> r, public |-> TRUE] \in archive

OnlyApprovedIsSent == sent \subseteq approved

\* An update waits for the decision on its appeal exactly while there is one; once
\* it is out of the public's sight, only reports that were on their way are open;
\* whatever donors could read stays in the public history when it is edited; and
\* however edits, decisions and retries follow one another, subscribers are only
\* sent a revision that a moderator has published.
ModerationIsSound == TypeOK /\ AppealIsPending /\ ReportsAreSettled /\ ShownIsKept /\ OnlyApprovedIsSent

Holds(r, what) == <<r, what>> \in mishaps

\* Nobody is sent an update twice, or its correction, by dispatches that overlap or
\* are repeated, unless the queue took a job and failed to say so, or the claim on
\* the recipient was undone after another dispatch had gone by.
NotifiedOnce ==
    \A r \in Recipient, k \in Kinds : jobs[<<r, k>>] > 1 => Holds(r, "unanswered") \/ Holds(r, "outrun")

Underway(r) ==
    \E p \in Processes : /\ dispatches[p].at \in {"send", "release"} /\ dispatches[p].kind = "publication"
                         /\ r \in Rows(p)
Reached(r) == jobs[<<r, "publication">>] > 0 \/ Underway(r) \/ Holds(r, "stranded") \/ Holds(r, "outrun")
Corrected(r) == jobs[<<r, "removal">>] > 0

\* A channel counts as notified only when every subscriber was, or is just being,
\* or was claimed by a process that stopped or by one that was overtaken and then
\* refused; only those get a correction; and once an update is removed, all those
\* have it that a notified channel had reached, unless the removal itself was cut
\* off or somebody decided while messages about an earlier decision went out.
RecipientsAgree ==
    \A r \in Recipient :
        /\ r[1] \in update.carried => Reached(r)
        /\ Corrected(r) => Reached(r)
        /\ update.status = "removed" /\ ~InProgress /\ causes = {} =>
               (r[1] \in update.carried /\ jobs[<<r, "publication">>] > 0 => Corrected(r) \/ Holds(r, "outrun"))
=============================================================================
