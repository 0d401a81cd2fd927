--------------------------- MODULE EventPipeline ---------------------------
(***************************************************************************)
(* The dispatch of recorded events to the read models                      *)
(* (backend/src/eventSourcing/eventStore.js and projections.js).           *)
(*                                                                         *)
(* Every backend pod runs a scheduler that takes a batch of unprocessed    *)
(* events, hands each to its projections, and marks the batch processed at *)
(* the end.  A projection is a sequence of SQL statements on the           *)
(* connection pool, outside any transaction, so a step here is one         *)
(* statement: what is between two awaits.  Any statement may fail, and a   *)
(* pod may stop at any point (a crash, or a shutdown, which does not wait  *)
(* for the batch in flight); both are counted in faults.  A statement that *)
(* took effect although its answer was lost is one followed by the failure *)
(* of the next.                                                            *)
(*                                                                         *)
(* Events is a set of integers in the order of (occurred_at, version).     *)
(* A sum the projections keep is represented by how often each event went  *)
(* into it, which no sum of amounts could hide.  Not modelled: the         *)
(* statistics kept for logging, and the delay before the next batch.       *)
(***************************************************************************)
EXTENDS Integers, Sequences, FiniteSetsExt

CONSTANTS
    Events,
    Pods,
    Kind,           \* the type of an event
    DonorOf,        \* the donor an event is about
    Poison,         \* events whose payload no projection can read
    MaxAttempts,    \* EVENT_STORE_MAX_ATTEMPTS
    BaseBatch,      \* EVENT_STORE_BATCH_SIZE
    MaxBatch,       \* EVENT_STORE_MAX_BATCH_SIZE
    MaxFaults       \* bound: failing statements and stopping pods

\* The statements the projections subscribed to a type of event execute, in
\* the order they subscribed in.
Statements ==
    [DonationRecorded |-> <<"addRaised", "readDonor", "writeDonor", "countProjects">>,
     MatchApplied |-> <<"addRaised", "readDonor", "writeDonor", "countProjects", "addMatched">>,
     JobReleased |-> <<"completeJob">>,
     ProjectStatusChanged |-> <<>>]

ASSUME PipelineAssumption ==
    /\ Events \subseteq Int
    /\ IsFiniteSet(Events)
    /\ IsFiniteSet(Pods)
    /\ Kind \in [Events -> DOMAIN Statements]
    /\ DOMAIN DonorOf = Events
    /\ Poison \subseteq Events
    /\ MaxAttempts \in Nat \ {0}
    /\ BaseBatch \in Nat \ {0}
    /\ MaxBatch \in Nat
    /\ BaseBatch <= MaxBatch
    /\ MaxFaults \in Nat

VARIABLES
    recorded,       \* rows of event_stream
    processed,      \* ... with processed = true
    deadLettered,   \* ... with dead_lettered = true
    attempts,       \* ... their attempts column
    filed,          \* rows of event_dead_letter for an event
    raised,         \* how often an event is in its project's raised_xlm
    donorTotal,     \* how often an event is in a donor's total_donated_xlm
    matched,        \* how often an event is in its match's matched_xlm
    completed,      \* release events whose job is completed
    pods,           \* the processBatch call of every pod
    dispatched,     \* history: events whose dispatch came to its end
    failures,       \* history: failed dispatches, up to MaxAttempts
    faults

streamVars == <<recorded, processed, deadLettered, attempts, filed>>
readModel == <<raised, donorTotal, matched, completed>>
history == <<dispatched, failures>>
vars == <<streamVars, readModel, pods, history, faults>>

Donors == {DonorOf[e] : e \in Events}
None == [e \in Events |-> 0]

Row == [event: Events, attempts: Nat]

PodState ==
    [mode: {"idle", "dispatching", "failed", "unfiled", "down"},
     rows: SUBSET Row,          \* rest of the batch, the current row included
     at: Nat,                   \* statements done for the current row
     total: [Events -> Nat],    \* the donor total that was read
     done: SUBSET Events,       \* processedIds
     fetched: Nat,              \* rows in the batch
     batchSize: BaseBatch .. MaxBatch]

Fresh == [mode |-> "idle", rows |-> {}, at |-> 0, total |-> None,
          done |-> {}, fetched |-> 0, batchSize |-> BaseBatch]

TypeOK ==
    /\ recorded \subseteq Events
    /\ processed \subseteq recorded
    /\ deadLettered \subseteq processed
    /\ attempts \in [Events -> 0 .. MaxAttempts]
    /\ filed \in [Events -> Nat]
    /\ raised \in [Events -> Nat]
    /\ donorTotal \in [Donors -> [Events -> Nat]]
    /\ matched \in [Events -> Nat]
    /\ completed \subseteq Events
    /\ pods \in [Pods -> PodState]
    /\ dispatched \subseteq recorded
    /\ failures \in [Events -> 0 .. MaxAttempts]
    /\ faults \in 0 .. MaxFaults

Init ==
    /\ recorded = {} /\ processed = {} /\ deadLettered = {}
    /\ attempts = None /\ filed = None
    /\ raised = None /\ matched = None /\ completed = {}
    /\ donorTotal = [d \in Donors |-> None]
    /\ pods = [p \in Pods |-> Fresh]
    /\ dispatched = {} /\ failures = None
    /\ faults = 0

-----------------------------------------------------------------------------
\* A command appends event e (commandBus.js).  The time of an event is taken
\* before it is inserted, so events need not arrive in their order.
Record(e) ==
    /\ e \notin recorded
    /\ recorded' = recorded \union {e}
    /\ UNCHANGED <<processed, deadLettered, attempts, filed, readModel, pods, history, faults>>

Pending == recorded \ processed

\* Mutated: processed events are fetched too.
Unprocessed_All(limit) == {e \in recorded : Cardinality({f \in recorded : f < e}) < limit}

\* getUnprocessed: the oldest pending events.  Nothing is claimed: another pod
\* may fetch the same events.
Unprocessed(limit) == {e \in Pending : Cardinality({f \in Pending : f < e}) < limit}

\* recordBatchOutcome: a full batch that got somewhere doubles the batch size,
\* one that got nowhere or was less than half full halves it.
NextBatchSize(limit, total, done) ==
    IF total >= limit /\ done > 0 THEN Min({MaxBatch, 2 * limit})
    ELSE IF (done = 0 /\ total > 0) \/ 2 * total < limit THEN Max({BaseBatch, limit \div 2})
    ELSE limit

EndOfBatch(p, total, done) ==
    [Fresh EXCEPT !.batchSize = NextBatchSize(pods[p].batchSize, total, done)]

\* An idle poll changes at most the batch size.
FetchBatch(p) ==
    LET batch == Unprocessed(pods[p].batchSize)
        rows == {[event |-> e, attempts |-> attempts[e]] : e \in batch}
    IN
    /\ pods[p].mode = "idle"
    /\ pods' = [pods EXCEPT ![p] =
                  IF batch = {}
                  THEN EndOfBatch(p, 0, 0)
                  ELSE [@ EXCEPT !.mode = "dispatching", !.rows = rows,
                                 !.fetched = Cardinality(batch)]]
    /\ UNCHANGED <<streamVars, readModel, history, faults>>

-----------------------------------------------------------------------------
\* dispatchToProjections, for the current row of pod p.
CurrentRows(p) == {row \in pods[p].rows : \A other \in pods[p].rows : row.event <= other.event}

Plan(row) == Statements[Kind[row.event]]

Dispatches(p, row) == pods[p].mode = "dispatching" /\ row \in CurrentRows(p)

Unfinished(p, row) ==
    /\ Dispatches(p, row)
    /\ row.event \notin Poison
    /\ pods[p].at < Len(Plan(row))

Executes(p, row, statement) ==
    /\ Unfinished(p, row)
    /\ Plan(row)[pods[p].at + 1] = statement
    /\ pods' = [pods EXCEPT ![p].at = @ + 1]

\* applyProjectProjection: an increment in the database, never overwritten.
AddRaised(p, row) ==
    /\ Executes(p, row, "addRaised")
    /\ raised' = [raised EXCEPT ![row.event] = @ + 1]
    /\ UNCHANGED <<streamVars, donorTotal, matched, completed, history, faults>>

\* upsertDonorStats reads the donor's total ...
ReadDonor(p, row) ==
    /\ Unfinished(p, row)
    /\ Plan(row)[pods[p].at + 1] = "readDonor"
    /\ pods' = [pods EXCEPT ![p].at = @ + 1, ![p].total = donorTotal[DonorOf[row.event]]]
    /\ UNCHANGED <<streamVars, readModel, history, faults>>

\* ... and writes it back with the amount added.  A match adds nothing: its
\* event has no currency.
WriteDonor(p, row) ==
    LET delta == IF Kind[row.event] = "DonationRecorded" THEN 1 ELSE 0 IN
    /\ Executes(p, row, "writeDonor")
    /\ donorTotal' = [donorTotal EXCEPT ![DonorOf[row.event]] = [pods[p].total EXCEPT ![row.event] = @ + delta]]
    /\ UNCHANGED <<streamVars, raised, matched, completed, history, faults>>

\* syncDonorProjectCount derives its count from the stream.
CountProjects(p, row) ==
    /\ Executes(p, row, "countProjects")
    /\ UNCHANGED <<streamVars, readModel, history, faults>>

AddMatched(p, row) ==
    /\ Executes(p, row, "addMatched")
    /\ matched' = [matched EXCEPT ![row.event] = @ + 1]
    /\ UNCHANGED <<streamVars, raised, donorTotal, completed, history, faults>>

CompleteJob(p, row) ==
    /\ Executes(p, row, "completeJob")
    /\ completed' = completed \union {row.event}
    /\ UNCHANGED <<streamVars, raised, donorTotal, matched, history, faults>>

NextRow(p, row) ==
    [pods[p] EXCEPT !.mode = "dispatching", !.rows = @ \ {row}, !.at = 0, !.total = None]

FinishEvent(p, row) ==
    /\ Dispatches(p, row)
    /\ row.event \notin Poison
    /\ pods[p].at = Len(Plan(row))
    /\ pods' = [pods EXCEPT ![p] = [NextRow(p, row) EXCEPT !.done = @ \union {row.event}]]
    /\ dispatched' = dispatched \union {row.event}
    /\ UNCHANGED <<streamVars, readModel, failures, faults>>

Fails(p, row) ==
    /\ pods' = [pods EXCEPT ![p].mode = "failed"]
    /\ failures' = [failures EXCEPT ![row.event] = Min({MaxAttempts, @ + 1})]
    /\ UNCHANGED <<streamVars, readModel, dispatched>>

\* fromPayload throws.
FailsToParse(p, row) ==
    /\ Dispatches(p, row)
    /\ row.event \in Poison
    /\ Fails(p, row)
    /\ UNCHANGED faults

Fault == faults < MaxFaults /\ faults' = faults + 1

StatementFails(p, row) ==
    /\ Unfinished(p, row)
    /\ Fails(p, row)
    /\ Fault

-----------------------------------------------------------------------------
\* What processBatch does about a failed row, whose attempts are those the
\* batch was fetched with.
Attempt(row) == row.attempts + 1

Failed(p, row) == pods[p].mode = "failed" /\ row \in CurrentRows(p)

Unfiled(p, row) == pods[p].mode = "unfiled" /\ row \in CurrentRows(p)

\* Mutated: a failed event counts as dispatched.
RecordAttempt_Done(p, row) ==
    /\ Failed(p, row)
    /\ Attempt(row) < MaxAttempts
    /\ attempts' = [attempts EXCEPT ![row.event] = Attempt(row)]
    /\ pods' = [pods EXCEPT ![p] = [NextRow(p, row) EXCEPT !.done = @ \union {row.event}]]
    /\ UNCHANGED <<recorded, processed, deadLettered, filed, readModel, history, faults>>

RecordAttempt(p, row) ==
    /\ Failed(p, row)
    /\ Attempt(row) < MaxAttempts
    /\ attempts' = [attempts EXCEPT ![row.event] = Attempt(row)]
    /\ pods' = [pods EXCEPT ![p] = NextRow(p, row)]
    /\ UNCHANGED <<recorded, processed, deadLettered, filed, readModel, history, faults>>

\* recordEventAttempt only logs that it failed.
AttemptNotRecorded(p, row) ==
    /\ Failed(p, row)
    /\ Attempt(row) < MaxAttempts
    /\ pods' = [pods EXCEPT ![p] = NextRow(p, row)]
    /\ Fault
    /\ UNCHANGED <<streamVars, readModel, history>>

MarkDeadLettered(p, row) ==
    /\ processed' = processed \union {row.event}
    /\ deadLettered' = deadLettered \union {row.event}
    /\ attempts' = [attempts EXCEPT ![row.event] = Attempt(row)]
    /\ pods' = [pods EXCEPT ![p] = NextRow(p, row)]

\* Mutated: the event is marked, and its dead-letter row is not written.
DeadLetter_MarksOnly(p, row) ==
    /\ Failed(p, row)
    /\ Attempt(row) >= MaxAttempts
    /\ MarkDeadLettered(p, row)
    /\ UNCHANGED <<recorded, filed, readModel, history, faults>>

\* recordDeadLetter, in one transaction.
DeadLetter(p, row) ==
    /\ Failed(p, row)
    /\ Attempt(row) >= MaxAttempts
    /\ filed' = [filed EXCEPT ![row.event] = @ + 1]
    /\ MarkDeadLettered(p, row)
    /\ UNCHANGED <<recorded, readModel, history, faults>>

\* The transaction is rolled back ...
DeadLetterFails(p, row) ==
    /\ Failed(p, row)
    /\ Attempt(row) >= MaxAttempts
    /\ pods' = [pods EXCEPT ![p].mode = "unfiled"]
    /\ Fault
    /\ UNCHANGED <<streamVars, readModel, history>>

\* ... and the event is marked all the same, without a dead-letter row.
MarkUnfiled(p, row) ==
    /\ Unfiled(p, row)
    /\ MarkDeadLettered(p, row)
    /\ UNCHANGED <<recorded, filed, readModel, history, faults>>

\* If that fails as well the event stays pending.
MarkUnfiledFails(p, row) ==
    /\ Unfiled(p, row)
    /\ pods' = [pods EXCEPT ![p] = NextRow(p, row)]
    /\ Fault
    /\ UNCHANGED <<streamVars, readModel, history>>

\* pool.connect() is outside the try block of recordDeadLetter: when it throws,
\* the whole batch is given up, the events already dispatched included.
NoClient(p, row) ==
    /\ Failed(p, row)
    /\ Attempt(row) >= MaxAttempts
    /\ pods' = [pods EXCEPT ![p] = EndOfBatch(p, 0, 0)]
    /\ Fault
    /\ UNCHANGED <<streamVars, readModel, history>>

-----------------------------------------------------------------------------
BatchDone(p) == pods[p].mode = "dispatching" /\ pods[p].rows = {}

MarkProcessedBatch(p) ==
    /\ BatchDone(p)
    /\ processed' = processed \union pods[p].done
    /\ pods' = [pods EXCEPT ![p] = EndOfBatch(p, pods[p].fetched, Cardinality(pods[p].done))]
    /\ UNCHANGED <<recorded, deadLettered, attempts, filed, readModel, history, faults>>

MarkFails(p) ==
    /\ BatchDone(p)
    /\ pods[p].done # {}
    /\ pods' = [pods EXCEPT ![p] = EndOfBatch(p, 0, 0)]
    /\ Fault
    /\ UNCHANGED <<streamVars, readModel, history>>

Stop(p) ==
    /\ pods[p].mode # "down"
    /\ pods' = [pods EXCEPT ![p] = [Fresh EXCEPT !.mode = "down"]]
    /\ Fault
    /\ UNCHANGED <<streamVars, readModel, history>>

Restart(p) ==
    /\ pods[p].mode = "down"
    /\ pods' = [pods EXCEPT ![p] = Fresh]
    /\ UNCHANGED <<streamVars, readModel, history, faults>>

\* What the scheduler loop of a pod does as long as the database answers.
Works(p) ==
    \/ FetchBatch(p)
    \/ \E row \in CurrentRows(p) :
         \/ AddRaised(p, row) \/ ReadDonor(p, row) \/ WriteDonor(p, row)
         \/ CountProjects(p, row) \/ AddMatched(p, row) \/ CompleteJob(p, row)
         \/ FinishEvent(p, row) \/ FailsToParse(p, row)
         \/ RecordAttempt(p, row) \/ DeadLetter(p, row) \/ MarkUnfiled(p, row)
    \/ MarkProcessedBatch(p)
    \/ Restart(p)

Breaks(p) ==
    \/ \E row \in CurrentRows(p) :
         \/ StatementFails(p, row)
         \/ AttemptNotRecorded(p, row) \/ NoClient(p, row)
         \/ DeadLetterFails(p, row) \/ MarkUnfiledFails(p, row)
    \/ MarkFails(p)
    \/ Stop(p)

Next ==
    \/ \E e \in Events : Record(e)
    \/ \E p \in Pods : Works(p) \/ Breaks(p)

\* The loop of a running pod re-arms its timer after every batch, whatever the
\* batch ended with, and a stopped pod is replaced.
Spec == Init /\ [][Next]_vars /\ \A p \in Pods : WF_vars(Works(p))

-----------------------------------------------------------------------------
\* The pipeline keeps the promise of EventDelivery, liveness included: an event
\* that keeps failing never holds up the ones behind it, whatever the batch size.
Delivery ==
    INSTANCE EventDelivery WITH
        delivered <- dispatched,
        exhausted <- {e \in Events : failures[e] = MaxAttempts},
        settled <- processed

KeepsPromise == Delivery!Spec

Has(e, statement) == \E i \in DOMAIN Statements[Kind[e]] : Statements[Kind[e]][i] = statement

\* An event counts more than once only where a fault or another pod explains it:
\* every pod has an event in flight once, and only a fault makes it start over.
OvercountBounded ==
    \A e \in Events :
        LET bound == faults + Cardinality(Pods) IN
        raised[e] <= bound /\ matched[e] <= bound /\ donorTotal[DonorOf[e]][e] <= bound

\* An event that was processed and not given up is in every total an increment
\* brings it into, whichever statements failed on the way and whatever other
\* pods did at the same time.
NothingUndercounted ==
    \A e \in processed \ deadLettered :
        /\ Has(e, "addRaised") => raised[e] >= 1
        /\ Has(e, "addMatched") => matched[e] >= 1
        /\ Has(e, "completeJob") => e \in completed

\* With one pod, whose read of a donor's total nobody else can invalidate, the
\* event is in the donor's total too.
DonorTotalsComplete ==
    \A e \in processed \ deadLettered :
        Kind[e] = "DonationRecorded" /\ Cardinality(Pods) = 1 => donorTotal[DonorOf[e]][e] >= 1

\* An event that is given up can be found in event_dead_letter, once unless pods
\* gave it up at the same time, and it is missing there only where the
\* transaction that files it failed.
DeadLettersAreFiled ==
    /\ \A e \in Events : filed[e] <= Cardinality(Pods)
    /\ Cardinality({e \in deadLettered : filed[e] = 0}) <= faults

\* With one pod the donors' totals are complete, and with any number of pods what
\* is given up is filed, except where the code's own fallback gives that up too.
NothingGoesUnnoticed == DonorTotalsComplete /\ DeadLettersAreFiled
=============================================================================
