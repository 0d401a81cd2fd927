------------------------ MODULE EventPipelineProofs ------------------------
(***************************************************************************)
(* Theorems about EventPipeline, for any number of events and pods and any *)
(* schedule of faults: the types, and that every step of the pipeline is a *)
(* step of EventDelivery or none, so that an event is settled only after   *)
(* all its projections had it or after it failed MaxAttempts times.        *)
(*                                                                         *)
(* The argument is about stale rows.  A pod decides what to do with a      *)
(* failed event from the attempts its batch was fetched with, which other  *)
(* pods may have passed since; but they never exceed the failures there    *)
(* have been, so what is given up has failed often enough.                 *)
(*                                                                         *)
(* The rest counts: that no event is missing from a total (ProgressInv),   *)
(* how often one can be in it too much (CountInv), that what is given up   *)
(* is filed (FilingInv), and that one pod loses no donor's amount          *)
(* (DonorInv).                                                             *)
(***************************************************************************)
EXTENDS EventPipeline, FiniteSetTheorems, TLAPS

\* The rows of a batch are recorded events, each once, whose attempts were
\* those of a pending event, and did happen; the events a pod takes to be done
\* had their dispatch; and the failure of a row under way has been counted.
PodOK(p) ==
    /\ \A row \in pods[p].rows :
        /\ row.event \in recorded
        /\ row.attempts < MaxAttempts
        /\ row.attempts <= failures[row.event]
        /\ \A other \in pods[p].rows : other.event = row.event => other = row
    /\ pods[p].done \subseteq dispatched
    /\ pods[p].mode \in {"failed", "unfiled"} =>
        \A row \in CurrentRows(p) : Attempt(row) <= failures[row.event]
    /\ pods[p].mode = "unfiled" =>
        \A row \in CurrentRows(p) : Attempt(row) >= MaxAttempts

StreamOK ==
    /\ \A e \in Events : attempts[e] <= failures[e]
    /\ \A e \in Events \ processed : attempts[e] < MaxAttempts
    /\ \A e \in Events \ recorded : failures[e] = 0
    /\ \A e \in processed : e \in dispatched \/ failures[e] = MaxAttempts

IndInv == TypeOK /\ StreamOK /\ \A p \in Pods : PodOK(p)

-----------------------------------------------------------------------------
\* The smaller of two numbers.
LEMMA MinOfTwo ==
    ASSUME NEW a \in Int, NEW b \in Int
    PROVE  Min({a, b}) \in {a, b} /\ Min({a, b}) <= a /\ Min({a, b}) <= b
<1>1. \E x \in {a, b} : \A y \in {a, b} : x <= y
  OBVIOUS
<1> QED
  BY <1>1 DEF Min

\* The larger of two numbers.
LEMMA MaxOfTwo ==
    ASSUME NEW a \in Int, NEW b \in Int
    PROVE  Max({a, b}) \in {a, b} /\ Max({a, b}) >= a /\ Max({a, b}) >= b
<1>1. \E x \in {a, b} : \A y \in {a, b} : x >= y
  OBVIOUS
<1> QED
  BY <1>1 DEF Max

\* The batch size never leaves its bounds, however a batch went.
LEMMA BatchSizeBounded ==
    ASSUME NEW limit \in BaseBatch .. MaxBatch, NEW total, NEW done
    PROVE  NextBatchSize(limit, total, done) \in BaseBatch .. MaxBatch
<1>1. /\ limit \in Int /\ BaseBatch \in Int /\ MaxBatch \in Int
      /\ BaseBatch <= limit /\ limit <= MaxBatch /\ 0 <= limit
  BY PipelineAssumption
<1>2. 2 * limit \in Int /\ limit \div 2 \in Int /\ limit \div 2 <= limit /\ limit <= 2 * limit
  BY <1>1
<1>3. ASSUME NEW double \in Int, limit <= double
      PROVE  Min({MaxBatch, double}) \in BaseBatch .. MaxBatch
  <2> DEFINE m == Min({MaxBatch, double})
  <2>1. m = MaxBatch \/ m = double
    BY <1>1, MinOfTwo
  <2>2. m <= MaxBatch
    BY <1>1, MinOfTwo
  <2> HIDE DEF m
  <2>3. m \in BaseBatch .. MaxBatch
    BY <1>1, <1>3, <2>1, <2>2
  <2> QED
    BY <2>3 DEF m
<1>4. ASSUME NEW half \in Int, half <= limit
      PROVE  Max({BaseBatch, half}) \in BaseBatch .. MaxBatch
  <2> DEFINE m == Max({BaseBatch, half})
  <2>1. m = BaseBatch \/ m = half
    BY <1>1, MaxOfTwo
  <2>2. m >= BaseBatch
    BY <1>1, MaxOfTwo
  <2> HIDE DEF m
  <2>3. m \in BaseBatch .. MaxBatch
    BY <1>1, <1>4, <2>1, <2>2
  <2> QED
    BY <2>3 DEF m
<1>5. /\ Min({MaxBatch, 2 * limit}) \in BaseBatch .. MaxBatch
      /\ Max({BaseBatch, limit \div 2}) \in BaseBatch .. MaxBatch
  BY <1>2, <1>3, <1>4
<1> QED
  BY <1>5 DEF NextBatchSize

\* A pod that holds no total holds zeros.
LEMMA NoneTyped == None \in [Events -> Nat]
BY DEF None

\* A pod at the end of a batch is idle and holds no row.
LEMMA EndOfBatchTyped ==
    ASSUME TypeOK, NEW p \in Pods, NEW total, NEW done
    PROVE  /\ EndOfBatch(p, total, done) \in PodState
           /\ EndOfBatch(p, total, done).mode = "idle"
           /\ EndOfBatch(p, total, done).rows = {}
           /\ EndOfBatch(p, total, done).done = {}
<1>1. pods[p].batchSize \in BaseBatch .. MaxBatch
  BY DEF TypeOK, PodState
<1>2. NextBatchSize(pods[p].batchSize, total, done) \in BaseBatch .. MaxBatch
  BY <1>1, BatchSizeBounded
<1> QED
  BY <1>2, NoneTyped DEF EndOfBatch, Fresh, PodState

\* A pod that starts, or is down, holds no row.
LEMMA FreshTyped ==
    /\ Fresh \in PodState /\ Fresh.rows = {} /\ Fresh.done = {} /\ Fresh.mode = "idle"
    /\ \E down \in PodState : /\ down = [Fresh EXCEPT !.mode = "down"]
                              /\ down.rows = {} /\ down.done = {} /\ down.mode = "down"
<1>1. Fresh \in PodState /\ Fresh.rows = {} /\ Fresh.done = {} /\ Fresh.mode = "idle"
  BY NoneTyped, PipelineAssumption DEF Fresh, PodState
<1> DEFINE down == [Fresh EXCEPT !.mode = "down"]
<1>2. down \in PodState /\ down.rows = {} /\ down.done = {} /\ down.mode = "down"
  BY <1>1 DEF PodState
<1> QED
  BY <1>1, <1>2

\* Turning to the next row drops the current one and keeps the rest.
LEMMA NextRowTyped ==
    ASSUME TypeOK, NEW p \in Pods, NEW row \in pods[p].rows
    PROVE  /\ NextRow(p, row) \in PodState
           /\ NextRow(p, row).mode = "dispatching"
           /\ NextRow(p, row).rows = pods[p].rows \ {row}
           /\ NextRow(p, row).done = pods[p].done
           /\ row \in Row /\ row.event \in Events /\ row.attempts \in Nat
<1>1. pods[p] \in PodState
  BY DEF TypeOK
<1> QED
  BY <1>1, NoneTyped DEF NextRow, PodState, Row

\* Nothing another pod does can make what a pod relies on untrue: the stream,
\* the dispatches and the failures only grow.
LEMMA OtherPods ==
    ASSUME TypeOK, NEW p \in Pods, PodOK(p), pods'[p] = pods[p],
           recorded \subseteq recorded', dispatched \subseteq dispatched',
           failures' \in [Events -> 0 .. MaxAttempts],
           \A e \in Events : failures[e] <= failures'[e]
    PROVE  PodOK(p)'
<1>1. \A row \in pods[p].rows : row.event \in Events /\ row.attempts \in Nat
  BY DEF TypeOK, PodState, Row
<1>2. CurrentRows(p)' = CurrentRows(p) /\ CurrentRows(p) \subseteq pods[p].rows
  BY DEF CurrentRows
<1>3. ASSUME NEW e \in Events, NEW n \in Nat, n <= failures[e]
      PROVE  n <= failures'[e]
  <2>1. failures[e] \in Int /\ failures'[e] \in Int /\ failures[e] <= failures'[e]
    BY PipelineAssumption DEF TypeOK
  <2> QED
    BY <1>3, <2>1
<1>4. \A row \in pods[p].rows : row.attempts <= failures'[row.event]
  BY <1>1, <1>3 DEF PodOK
<1>5. pods[p].mode \in {"failed", "unfiled"} =>
        \A row \in CurrentRows(p) : Attempt(row) <= failures'[row.event]
  <2> SUFFICES ASSUME NEW row \in CurrentRows(p), pods[p].mode \in {"failed", "unfiled"}
               PROVE  Attempt(row) <= failures'[row.event]
    OBVIOUS
  <2>1. row.event \in Events /\ Attempt(row) \in Nat /\ Attempt(row) <= failures[row.event]
    BY <1>1, <1>2 DEF PodOK, Attempt
  <2> QED
    BY <1>3, <2>1
<1> QED
  BY <1>1, <1>2, <1>4, <1>5 DEF PodOK, Attempt

\* A pod that moves on in its batch, or leaves it, takes on no new obligation.
LEMMA Advance ==
    ASSUME IndInv, NEW p \in Pods, NEW X \in PodState,
           pods' = [pods EXCEPT ![p] = X],
           X.rows \subseteq pods[p].rows,
           X.mode \in {"idle", "dispatching", "down"},
           X.done \subseteq dispatched',
           UNCHANGED <<recorded, failures>>,
           dispatched \subseteq dispatched',
           TypeOK', StreamOK'
    PROVE  IndInv'
<1>0. TypeOK /\ pods \in [Pods -> PodState] /\ failures \in [Events -> 0 .. MaxAttempts]
  BY DEF IndInv, TypeOK
<1>1. pods'[p] = X /\ \A q \in Pods \ {p} : pods'[q] = pods[q]
  BY <1>0
<1>2. PodOK(p)'
  <2>1. \A row \in pods'[p].rows :
          /\ row.event \in recorded'
          /\ row.attempts < MaxAttempts
          /\ row.attempts <= failures'[row.event]
          /\ \A other \in pods'[p].rows : other.event = row.event => other = row
    BY <1>1 DEF IndInv, PodOK
  <2>2. pods'[p].mode \notin {"failed", "unfiled"} /\ pods'[p].done \subseteq dispatched'
    BY <1>1
  <2> QED
    BY <2>1, <2>2 DEF PodOK
<1>3. ASSUME NEW q \in Pods \ {p} PROVE PodOK(q)'
  <2>1. \A e \in Events : failures[e] <= failures'[e]
    BY <1>0, PipelineAssumption
  <2>2. PodOK(q) /\ pods'[q] = pods[q]
    BY <1>1 DEF IndInv
  <2> QED
    BY <1>0, <2>1, <2>2, OtherPods
<1> QED
  BY <1>2, <1>3 DEF IndInv

\* An event enters the stream: nobody holds it yet.
LEMMA RecordInv == ASSUME IndInv, NEW e \in Events, Record(e) PROVE IndInv'
<1>0. TypeOK
  BY DEF IndInv
<1>1. TypeOK'
  BY <1>0 DEF Record, TypeOK, readModel, history
<1>2. StreamOK'
  BY DEF IndInv, StreamOK, Record, readModel, history
<1>3. ASSUME NEW q \in Pods PROVE PodOK(q)'
  <2>1. /\ recorded \subseteq recorded' /\ UNCHANGED <<dispatched, failures, pods>>
        /\ \A f \in Events : failures[f] <= failures'[f]
    BY <1>0, PipelineAssumption DEF Record, history, TypeOK
  <2> QED
    BY <1>0, <2>1, OtherPods DEF IndInv, TypeOK
<1> QED
  BY <1>1, <1>2, <1>3 DEF IndInv

\* A pod takes a batch: its rows were recorded and are unprocessed.
LEMMA FetchBatchInv == ASSUME IndInv, NEW p \in Pods, FetchBatch(p) PROVE IndInv'
<1> DEFINE batch == Unprocessed(pods[p].batchSize)
           rows == {[event |-> e, attempts |-> attempts[e]] : e \in batch}
           X == [pods[p] EXCEPT !.mode = "dispatching", !.rows = rows,
                                !.fetched = Cardinality(batch)]
<1>0. /\ TypeOK /\ StreamOK /\ PodOK(p) /\ pods[p] \in PodState
      /\ pods \in [Pods -> PodState] /\ failures \in [Events -> 0 .. MaxAttempts]
  BY DEF IndInv, TypeOK
<1>1. UNCHANGED <<streamVars, readModel, history, faults>>
  BY DEF FetchBatch
<1>2. StreamOK'
  BY <1>0, <1>1 DEF StreamOK, streamVars, history
<1>3. CASE batch = {}
  <2> DEFINE Y == EndOfBatch(p, 0, 0)
  <2>1. pods' = [pods EXCEPT ![p] = Y]
    BY <1>3 DEF FetchBatch
  <2>2. Y \in PodState /\ Y.rows = {} /\ Y.mode = "idle" /\ Y.done = {}
    BY <1>0, EndOfBatchTyped
  <2> HIDE DEF Y
  <2>3. TypeOK'
    BY <1>0, <1>1, <2>1, <2>2 DEF TypeOK, streamVars, readModel, history
  <2> QED
    BY <1>1, <1>2, <2>1, <2>2, <2>3, Advance DEF streamVars, history
<1>4. CASE batch # {}
  <2>1. pods' = [pods EXCEPT ![p] = X]
    BY <1>4 DEF FetchBatch
  <2>2. batch \subseteq Events /\ batch \subseteq recorded \ processed
    BY <1>0 DEF Unprocessed, Pending, TypeOK
  <2>3. Cardinality(batch) \in Nat
    BY <2>2, FS_Subset, FS_CardinalityType, PipelineAssumption
  <2>4. \A e \in batch : attempts[e] \in Nat /\ attempts[e] < MaxAttempts /\ attempts[e] <= failures[e]
    <3> SUFFICES ASSUME NEW e \in batch
                 PROVE  attempts[e] \in Nat /\ attempts[e] < MaxAttempts /\ attempts[e] <= failures[e]
      OBVIOUS
    <3> HIDE DEF batch
    <3>1. e \in Events \ processed
      BY <2>2
    <3>2. attempts[e] \in 0 .. MaxAttempts
      BY <1>0, <3>1 DEF TypeOK
    <3> QED
      BY <1>0, <3>1, <3>2, PipelineAssumption DEF StreamOK
  <2>5. rows \subseteq Row
    BY <2>2, <2>4 DEF Row
  <2>6. /\ X \in PodState
        /\ X.rows = rows /\ X.mode = "dispatching" /\ X.done = pods[p].done
    BY <1>0, <2>3, <2>5 DEF PodState
  <2>7. \A row \in rows :
          /\ row.event \in recorded
          /\ row.attempts < MaxAttempts
          /\ row.attempts <= failures[row.event]
          /\ \A other \in rows : other.event = row.event => other = row
    BY <2>2, <2>4
  <2> HIDE DEF X, rows, batch
  <2>8. pods'[p] = X /\ \A q \in Pods \ {p} : pods'[q] = pods[q]
    BY <1>0, <2>1
  <2>9. TypeOK'
    BY <1>0, <1>1, <2>1, <2>6 DEF TypeOK, streamVars, readModel, history
  <2>10. PodOK(p)'
    BY <1>0, <1>1, <2>6, <2>7, <2>8 DEF PodOK, streamVars, history
  <2>11. ASSUME NEW q \in Pods \ {p} PROVE PodOK(q)'
    <3>1. /\ UNCHANGED <<recorded, dispatched, failures>>
          /\ \A f \in Events : failures[f] <= failures'[f]
      BY <1>0, <1>1, PipelineAssumption DEF streamVars, history
    <3> QED
      BY <1>0, <2>8, <3>1, OtherPods DEF IndInv
  <2> QED
    BY <1>2, <2>9, <2>10, <2>11 DEF IndInv
<1> QED
  BY <1>3, <1>4

-----------------------------------------------------------------------------
\* Steps about the current row.
LEMMA CurrentRowFacts ==
    ASSUME IndInv, NEW p \in Pods, NEW row \in CurrentRows(p)
    PROVE  /\ TypeOK /\ StreamOK /\ PodOK(p)
           /\ pods \in [Pods -> PodState] /\ pods[p] \in PodState
           /\ row \in pods[p].rows /\ row.event \in recorded /\ row.event \in Events
           /\ row.attempts \in Nat /\ row.attempts < MaxAttempts
           /\ row.attempts <= failures[row.event]
           /\ pods[p].done \subseteq dispatched
           /\ \A other \in CurrentRows(p) : other = row
<1>1. TypeOK /\ StreamOK /\ PodOK(p)
  BY DEF IndInv
<1>2. pods \in [Pods -> PodState] /\ pods[p] \in PodState /\ row \in pods[p].rows
  BY <1>1 DEF TypeOK, CurrentRows
<1>3. \A other \in pods[p].rows : other.event \in Int /\ other.attempts \in Nat /\ other.event \in Events
  BY <1>2, PipelineAssumption DEF PodState, Row
<1>4. \A other \in CurrentRows(p) : other.event = row.event
  BY <1>2, <1>3 DEF CurrentRows
<1>5. \A other \in CurrentRows(p) : other = row
  BY <1>1, <1>2, <1>4 DEF PodOK, CurrentRows
<1> QED
  BY <1>1, <1>2, <1>3, <1>5 DEF PodOK

\* A statement of a projection changes the read model only.
LEMMA StatementInv ==
    ASSUME IndInv, NEW p \in Pods, NEW row \in CurrentRows(p),
           \/ AddRaised(p, row) \/ ReadDonor(p, row) \/ WriteDonor(p, row)
           \/ CountProjects(p, row) \/ AddMatched(p, row) \/ CompleteJob(p, row)
    PROVE  IndInv'
<1>0. /\ TypeOK /\ StreamOK /\ pods \in [Pods -> PodState] /\ pods[p] \in PodState
      /\ row.event \in Events /\ pods[p].done \subseteq dispatched
      /\ DonorOf[row.event] \in Donors
  BY CurrentRowFacts DEF Donors
<1>1. UNCHANGED <<streamVars, history, faults>> /\ pods[p].mode = "dispatching"
  BY DEF AddRaised, ReadDonor, WriteDonor, CountProjects, AddMatched, CompleteJob, Executes,
         Unfinished, Dispatches
<1>2. /\ raised' \in [Events -> Nat] /\ matched' \in [Events -> Nat]
      /\ completed' \subseteq Events
  BY <1>0 DEF TypeOK, AddRaised, ReadDonor, WriteDonor, CountProjects, AddMatched, CompleteJob,
         readModel
<1>3. donorTotal' \in [Donors -> [Events -> Nat]]
  <2>1. CASE WriteDonor(p, row)
    <3>1. pods[p].total \in [Events -> Nat]
      BY <1>0 DEF PodState
    <3>2. ASSUME NEW delta \in Nat
          PROVE  [pods[p].total EXCEPT ![row.event] = @ + delta] \in [Events -> Nat]
      BY <1>0, <3>1
    <3> QED
      BY <1>0, <2>1, <3>2 DEF WriteDonor, TypeOK
  <2>2. CASE donorTotal' = donorTotal
    BY <1>0, <2>2 DEF TypeOK
  <2> QED
    BY <2>1, <2>2 DEF AddRaised, ReadDonor, CountProjects, AddMatched, CompleteJob, readModel
<1>4. \E X \in PodState : /\ pods' = [pods EXCEPT ![p] = X]
                          /\ X.rows = pods[p].rows /\ X.mode = "dispatching"
                          /\ X.done = pods[p].done
  <2>1. CASE ReadDonor(p, row)
    <3> DEFINE X == [pods[p] EXCEPT !.at = @ + 1, !.total = donorTotal[DonorOf[row.event]]]
    <3>0. donorTotal[DonorOf[row.event]] \in [Events -> Nat] /\ pods[p].at + 1 \in Nat
      BY <1>0 DEF TypeOK, PodState
    <3>1. X \in PodState /\ X.rows = pods[p].rows /\ X.mode = "dispatching" /\ X.done = pods[p].done
      BY <1>0, <1>1, <3>0 DEF PodState
    <3>2. pods' = [pods EXCEPT ![p] = X]
      BY <1>0, <2>1 DEF ReadDonor
    <3> QED
      BY <3>1, <3>2
  <2>2. CASE pods' = [pods EXCEPT ![p].at = @ + 1]
    <3> DEFINE X == [pods[p] EXCEPT !.at = @ + 1]
    <3>1. X \in PodState /\ X.rows = pods[p].rows /\ X.mode = "dispatching" /\ X.done = pods[p].done
      BY <1>0, <1>1 DEF PodState
    <3>2. pods' = [pods EXCEPT ![p] = X]
      BY <1>0, <2>2
    <3> QED
      BY <3>1, <3>2
  <2> QED
    BY <2>1, <2>2 DEF AddRaised, WriteDonor, CountProjects, AddMatched, CompleteJob, Executes
<1>5. TypeOK'
  BY <1>0, <1>1, <1>2, <1>3, <1>4 DEF TypeOK, streamVars, history
<1>6. StreamOK'
  BY <1>0, <1>1 DEF StreamOK, streamVars, history
<1>7. UNCHANGED <<recorded, failures, dispatched>>
  BY <1>1 DEF streamVars, history
<1> QED
  BY <1>0, <1>4, <1>5, <1>6, <1>7, Advance

\* An event whose last statement ran is dispatched.
LEMMA FinishEventInv ==
    ASSUME IndInv, NEW p \in Pods, NEW row \in CurrentRows(p), FinishEvent(p, row)
    PROVE  IndInv'
<1> DEFINE X == [NextRow(p, row) EXCEPT !.done = @ \union {row.event}]
<1>0. /\ TypeOK /\ StreamOK /\ pods[p] \in PodState
      /\ row \in pods[p].rows /\ row.event \in recorded /\ row.event \in Events
      /\ pods[p].done \subseteq dispatched
  BY CurrentRowFacts
<1>1. /\ NextRow(p, row) \in PodState /\ NextRow(p, row).mode = "dispatching"
      /\ NextRow(p, row).rows = pods[p].rows \ {row}
      /\ NextRow(p, row).done = pods[p].done
  BY <1>0, NextRowTyped
<1>2. /\ X \in PodState /\ X.mode = "dispatching" /\ X.rows = pods[p].rows \ {row}
      /\ X.done = pods[p].done \union {row.event}
  BY <1>0, <1>1 DEF PodState
<1>3. /\ pods' = [pods EXCEPT ![p] = X]
      /\ dispatched' = dispatched \union {row.event}
      /\ UNCHANGED <<streamVars, readModel, failures, faults>>
  BY DEF FinishEvent
<1> HIDE DEF X
<1>4. TypeOK'
  BY <1>0, <1>2, <1>3 DEF TypeOK, streamVars, readModel
<1>5. StreamOK'
  BY <1>0, <1>3 DEF StreamOK, streamVars
<1>6. X.done \subseteq dispatched' /\ UNCHANGED <<recorded, failures>>
  BY <1>0, <1>2, <1>3 DEF streamVars
<1> QED
  BY <1>2, <1>3, <1>4, <1>5, <1>6, Advance

-----------------------------------------------------------------------------
\* A step that leaves the current row in a mode of failure.
LEMMA Failing ==
    ASSUME IndInv, NEW p \in Pods, NEW row \in CurrentRows(p),
           NEW mode \in {"failed", "unfiled"},
           pods' = [pods EXCEPT ![p].mode = mode],
           UNCHANGED <<streamVars, readModel, dispatched>>,
           failures' \in [Events -> 0 .. MaxAttempts],
           \A e \in Events : failures[e] <= failures'[e],
           \A e \in Events \ recorded : failures'[e] = 0,
           Attempt(row) <= failures'[row.event],
           mode = "unfiled" => Attempt(row) >= MaxAttempts,
           faults' \in 0 .. MaxFaults
    PROVE  IndInv'
<1>0. /\ TypeOK /\ StreamOK /\ PodOK(p) /\ pods \in [Pods -> PodState] /\ pods[p] \in PodState
      /\ failures \in [Events -> 0 .. MaxAttempts]
      /\ \A other \in CurrentRows(p) : other = row
  BY CurrentRowFacts DEF TypeOK
<1>1. /\ pods' \in [Pods -> PodState]
      /\ pods'[p].mode = mode /\ pods'[p].rows = pods[p].rows /\ pods'[p].done = pods[p].done
      /\ \A q \in Pods \ {p} : pods'[q] = pods[q]
  BY <1>0 DEF PodState
<1>2. UNCHANGED <<recorded, processed, deadLettered, attempts, filed, dispatched>>
  BY DEF streamVars
<1>3. TypeOK'
  BY <1>0, <1>1, <1>2 DEF TypeOK, readModel
<1>4. ASSUME NEW e \in Events, NEW n \in Nat, n <= failures[e]
      PROVE  n <= failures'[e]
  <2>1. failures[e] \in Int /\ failures'[e] \in Int /\ failures[e] <= failures'[e]
    BY <1>0, PipelineAssumption
  <2> QED
    BY <1>4, <2>1
<1>5. StreamOK'
  <2>1. \A e \in Events : attempts[e] \in Nat /\ attempts[e] <= failures[e]
    BY <1>0, PipelineAssumption DEF TypeOK, StreamOK
  <2>2. \A e \in Events : attempts[e] <= failures'[e]
    BY <1>4, <2>1
  <2>3. \A e \in Events : failures[e] = MaxAttempts => failures'[e] = MaxAttempts
    BY <1>0, <1>4, PipelineAssumption
  <2>4. \A e \in processed : e \in dispatched \/ failures'[e] = MaxAttempts
    BY <1>0, <2>3 DEF StreamOK, TypeOK
  <2>5. /\ \A e \in Events \ processed : attempts[e] < MaxAttempts
        /\ \A e \in Events \ recorded : failures'[e] = 0
    BY <1>0 DEF StreamOK
  <2> QED
    BY <1>2, <2>2, <2>4, <2>5 DEF StreamOK
<1>6. PodOK(p)'
  <2>1. CurrentRows(p)' = CurrentRows(p)
    BY <1>1 DEF CurrentRows
  <2>2. \A r \in pods[p].rows : r.event \in Events /\ r.attempts \in Nat
    BY <1>0 DEF PodState, Row
  <2>3. \A r \in pods[p].rows : r.attempts <= failures'[r.event]
    BY <1>0, <1>4, <2>2 DEF PodOK
  <2>4. \A r \in CurrentRows(p) :
          /\ Attempt(r) <= failures'[r.event]
          /\ mode = "unfiled" => Attempt(r) >= MaxAttempts
    BY <1>0
  <2> QED
    BY <1>0, <1>1, <1>2, <2>1, <2>3, <2>4 DEF PodOK, Attempt
<1>7. ASSUME NEW q \in Pods \ {p} PROVE PodOK(q)'
  BY <1>0, <1>1, <1>2, OtherPods DEF IndInv
<1> QED
  BY <1>3, <1>5, <1>6, <1>7 DEF IndInv

\* The faults stay within their bound.
LEMMA FaultTyped == ASSUME TypeOK, Fault PROVE faults' \in 0 .. MaxFaults
BY PipelineAssumption DEF TypeOK, Fault

\* A failed dispatch is counted, up to the bound.
LEMMA CountFailure ==
    ASSUME TypeOK, NEW e \in Events,
           failures' = [failures EXCEPT ![e] = Min({MaxAttempts, @ + 1})]
    PROVE  /\ failures' \in [Events -> 0 .. MaxAttempts]
           /\ \A f \in Events : failures[f] <= failures'[f]
           /\ \A f \in Events \ {e} : failures'[f] = failures[f]
           /\ \A n \in Nat : n < MaxAttempts /\ n <= failures[e] => n + 1 <= failures'[e]
<1> DEFINE m == Min({MaxAttempts, failures[e] + 1})
<1>1. failures \in [Events -> 0 .. MaxAttempts] /\ failures[e] \in 0 .. MaxAttempts
  BY DEF TypeOK
<1>2. MaxAttempts \in Int /\ failures[e] + 1 \in Int
  BY <1>1, PipelineAssumption
<1>3. m = MaxAttempts \/ m = failures[e] + 1
  BY <1>2, MinOfTwo
<1>4. m <= MaxAttempts
  BY <1>2, MinOfTwo
<1>5. failures' = [failures EXCEPT ![e] = m]
  OBVIOUS
<1> HIDE DEF m
<1>6. m \in 0 .. MaxAttempts /\ failures[e] <= m
  BY <1>1, <1>2, <1>3, <1>4, PipelineAssumption
<1>7. \A n \in Nat : n < MaxAttempts /\ n <= failures[e] => n + 1 <= m
  BY <1>1, <1>2, <1>3, PipelineAssumption
<1>8. \A f \in Events : failures[f] <= failures[f]
  BY <1>1, PipelineAssumption
<1> QED
  BY <1>1, <1>5, <1>6, <1>7, <1>8

\* A dispatch fails: the row is attempted once more than it had been.
LEMMA FailureInv ==
    ASSUME IndInv, NEW p \in Pods, NEW row \in CurrentRows(p),
           FailsToParse(p, row) \/ StatementFails(p, row)
    PROVE  IndInv'
<1>0. /\ TypeOK /\ row.event \in recorded /\ row.event \in Events /\ row.attempts \in Nat
      /\ row.attempts < MaxAttempts /\ row.attempts <= failures[row.event] /\ StreamOK
  BY CurrentRowFacts
<1>1. Fails(p, row) /\ faults' \in 0 .. MaxFaults
  BY <1>0, FaultTyped DEF FailsToParse, StatementFails, TypeOK
<1>2. failures' = [failures EXCEPT ![row.event] = Min({MaxAttempts, @ + 1})]
  BY <1>1 DEF Fails
<1>3. /\ failures' \in [Events -> 0 .. MaxAttempts]
      /\ \A f \in Events : failures[f] <= failures'[f]
      /\ \A f \in Events \ {row.event} : failures'[f] = failures[f]
      /\ row.attempts + 1 <= failures'[row.event]
  BY <1>0, <1>2, CountFailure
<1>4. \A f \in Events \ recorded : failures'[f] = 0
  BY <1>0, <1>3 DEF StreamOK
<1> QED
  BY <1>1, <1>3, <1>4, Failing DEF Fails, Attempt

\* Filing a dead letter fails: the row still has to be marked.
LEMMA DeadLetterFailsInv ==
    ASSUME IndInv, NEW p \in Pods, NEW row \in CurrentRows(p), DeadLetterFails(p, row)
    PROVE  IndInv'
<1>0. TypeOK /\ StreamOK /\ PodOK(p)
  BY CurrentRowFacts
<1>1. faults' \in 0 .. MaxFaults
  BY <1>0, FaultTyped DEF DeadLetterFails
<1>2. Attempt(row) <= failures[row.event] /\ Attempt(row) >= MaxAttempts
  BY <1>0 DEF DeadLetterFails, Failed, PodOK
<1>3. /\ failures' = failures /\ failures \in [Events -> 0 .. MaxAttempts]
      /\ \A f \in Events : failures[f] <= failures'[f]
      /\ \A f \in Events \ recorded : failures'[f] = 0
  BY <1>0, PipelineAssumption DEF DeadLetterFails, history, TypeOK, StreamOK
<1> QED
  BY <1>1, <1>2, <1>3, Failing DEF DeadLetterFails, history

\* The attempt is recorded, or that fails too.
LEMMA RecordAttemptInv ==
    ASSUME IndInv, NEW p \in Pods, NEW row \in CurrentRows(p),
           RecordAttempt(p, row) \/ AttemptNotRecorded(p, row)
    PROVE  IndInv'
<1>0. /\ TypeOK /\ StreamOK /\ PodOK(p) /\ row \in pods[p].rows /\ row.event \in Events
      /\ row.attempts \in Nat /\ pods[p].done \subseteq dispatched
  BY CurrentRowFacts
<1>1. /\ NextRow(p, row) \in PodState /\ NextRow(p, row).mode = "dispatching"
      /\ NextRow(p, row).rows = pods[p].rows \ {row}
      /\ NextRow(p, row).done = pods[p].done
  BY <1>0, NextRowTyped
<1>2. /\ pods' = [pods EXCEPT ![p] = NextRow(p, row)]
      /\ UNCHANGED <<recorded, processed, deadLettered, filed, readModel, history>>
      /\ Attempt(row) < MaxAttempts /\ Attempt(row) \in Nat
      /\ Attempt(row) <= failures[row.event]
  BY <1>0 DEF RecordAttempt, AttemptNotRecorded, streamVars, Failed, PodOK, Attempt
<1>3. faults' \in 0 .. MaxFaults
  BY <1>0, FaultTyped DEF RecordAttempt, AttemptNotRecorded, TypeOK
<1>4. \/ attempts' = attempts
      \/ attempts' = [attempts EXCEPT ![row.event] = Attempt(row)]
  BY DEF RecordAttempt, AttemptNotRecorded, streamVars
<1> DEFINE a == Attempt(row)
<1> HIDE DEF a
<1>5. /\ attempts' \in [Events -> 0 .. MaxAttempts]
      /\ \A e \in Events : attempts'[e] <= failures[e]
      /\ \A e \in Events \ processed : attempts'[e] < MaxAttempts
  <2>1. a \in Nat /\ a < MaxAttempts /\ a <= failures[row.event] /\ a \in 0 .. MaxAttempts
    BY <1>2, PipelineAssumption DEF a
  <2>2. attempts' = attempts \/ attempts' = [attempts EXCEPT ![row.event] = a]
    BY <1>4 DEF a
  <2> QED
    BY <1>0, <2>1, <2>2 DEF TypeOK, StreamOK
<1>6. TypeOK'
  BY <1>0, <1>1, <1>2, <1>3, <1>5 DEF TypeOK, readModel, history
<1>7. StreamOK'
  BY <1>0, <1>2, <1>5 DEF StreamOK, history
<1>8. UNCHANGED <<recorded, failures, dispatched>>
  BY <1>2 DEF history
<1> QED
  BY <1>0, <1>1, <1>2, <1>6, <1>7, <1>8, Advance

\* An event is given up only with as many failures as it may have.
LEMMA GivenUp ==
    ASSUME IndInv, NEW p \in Pods, NEW row \in CurrentRows(p),
           DeadLetter(p, row) \/ MarkUnfiled(p, row)
    PROVE  failures[row.event] = MaxAttempts /\ Attempt(row) = MaxAttempts
<1>0. /\ TypeOK /\ PodOK(p) /\ row.event \in Events /\ row.attempts \in Nat
      /\ row.attempts < MaxAttempts
  BY CurrentRowFacts
<1>1. Attempt(row) >= MaxAttempts /\ Attempt(row) <= failures[row.event]
  BY <1>0 DEF DeadLetter, MarkUnfiled, Failed, Unfiled, PodOK
<1>2. failures[row.event] \in 0 .. MaxAttempts
  BY <1>0 DEF TypeOK
<1>3. Attempt(row) \in Int /\ Attempt(row) <= MaxAttempts
  BY <1>0, PipelineAssumption DEF Attempt
<1> QED
  BY <1>1, <1>2, <1>3, PipelineAssumption

\* An event that was tried often enough is given up.
LEMMA GiveUpInv ==
    ASSUME IndInv, NEW p \in Pods, NEW row \in CurrentRows(p),
           DeadLetter(p, row) \/ MarkUnfiled(p, row)
    PROVE  IndInv'
<1>0. /\ TypeOK /\ StreamOK /\ row \in pods[p].rows /\ row.event \in recorded
      /\ row.event \in Events /\ pods[p].done \subseteq dispatched
  BY CurrentRowFacts
<1>1. /\ NextRow(p, row) \in PodState /\ NextRow(p, row).mode = "dispatching"
      /\ NextRow(p, row).rows = pods[p].rows \ {row}
      /\ NextRow(p, row).done = pods[p].done
  BY <1>0, NextRowTyped
<1>2. failures[row.event] = MaxAttempts /\ Attempt(row) = MaxAttempts
  BY GivenUp
<1>3. /\ pods' = [pods EXCEPT ![p] = NextRow(p, row)]
      /\ processed' = processed \union {row.event}
      /\ deadLettered' = deadLettered \union {row.event}
      /\ attempts' = [attempts EXCEPT ![row.event] = MaxAttempts]
      /\ UNCHANGED <<recorded, readModel, history, faults>>
  BY <1>2 DEF DeadLetter, MarkUnfiled, MarkDeadLettered
<1>4. filed' \in [Events -> Nat]
  BY <1>0 DEF DeadLetter, MarkUnfiled, TypeOK
<1>5. attempts' \in [Events -> 0 .. MaxAttempts]
  BY <1>0, <1>3, PipelineAssumption DEF TypeOK
<1>6. TypeOK'
  BY <1>0, <1>1, <1>3, <1>4, <1>5 DEF TypeOK, readModel, history
<1>7. StreamOK'
  <2>1. \A e \in Events : attempts'[e] <= failures'[e]
    BY <1>0, <1>2, <1>3, PipelineAssumption DEF StreamOK, TypeOK, history
  <2>2. \A e \in Events \ processed' : attempts'[e] < MaxAttempts
    BY <1>0, <1>3 DEF StreamOK, TypeOK
  <2>3. \A e \in processed' : e \in dispatched' \/ failures'[e] = MaxAttempts
    BY <1>0, <1>2, <1>3 DEF StreamOK, history
  <2> QED
    BY <1>0, <1>3, <2>1, <2>2, <2>3 DEF StreamOK, history
<1>8. UNCHANGED <<recorded, failures, dispatched>>
  BY <1>3 DEF history
<1> QED
  BY <1>0, <1>1, <1>3, <1>6, <1>7, <1>8, Advance

\* Marking the given-up event fails, or the batch ends without a client.
LEMMA NotGivenUpInv ==
    ASSUME IndInv, NEW p \in Pods, NEW row \in CurrentRows(p),
           MarkUnfiledFails(p, row) \/ NoClient(p, row)
    PROVE  IndInv'
<1>0. /\ TypeOK /\ StreamOK /\ row \in pods[p].rows /\ pods[p].done \subseteq dispatched
  BY CurrentRowFacts
<1>1. \E X \in PodState : /\ pods' = [pods EXCEPT ![p] = X]
                          /\ X.rows \subseteq pods[p].rows /\ X.done \subseteq dispatched
                          /\ X.mode \in {"idle", "dispatching"}
  <2>1. CASE MarkUnfiledFails(p, row)
    <3>1. NextRow(p, row) \in PodState /\ NextRow(p, row).rows \subseteq pods[p].rows
          /\ NextRow(p, row).done \subseteq dispatched /\ NextRow(p, row).mode = "dispatching"
      BY <1>0, NextRowTyped
    <3> QED
      BY <2>1, <3>1 DEF MarkUnfiledFails
  <2>2. CASE NoClient(p, row)
    <3>1. EndOfBatch(p, 0, 0) \in PodState /\ EndOfBatch(p, 0, 0).rows \subseteq pods[p].rows
          /\ EndOfBatch(p, 0, 0).done \subseteq dispatched /\ EndOfBatch(p, 0, 0).mode = "idle"
      BY <1>0, EndOfBatchTyped
    <3> QED
      BY <2>2, <3>1 DEF NoClient
  <2> QED
    BY <2>1, <2>2
<1>2. UNCHANGED <<streamVars, readModel, history>> /\ faults' \in 0 .. MaxFaults
  BY <1>0, FaultTyped DEF MarkUnfiledFails, NoClient
<1>3. TypeOK'
  BY <1>0, <1>1, <1>2 DEF TypeOK, streamVars, readModel, history
<1>4. StreamOK' /\ UNCHANGED <<recorded, failures, dispatched>>
  BY <1>0, <1>2 DEF StreamOK, streamVars, history
<1> QED
  BY <1>1, <1>3, <1>4, Advance

\* The end of a batch, and the end of a pod.
LEMMA BatchInv ==
    ASSUME IndInv, NEW p \in Pods,
           MarkProcessedBatch(p) \/ MarkFails(p) \/ Stop(p) \/ Restart(p)
    PROVE  IndInv'
<1>0. /\ TypeOK /\ StreamOK /\ pods[p].done \subseteq dispatched
      /\ dispatched \subseteq recorded
  BY DEF IndInv, PodOK, TypeOK
<1>1. \E X \in PodState : /\ pods' = [pods EXCEPT ![p] = X]
                          /\ X.rows = {} /\ X.done = {} /\ X.mode \in {"idle", "down"}
  <2>1. CASE MarkProcessedBatch(p)
    <3> DEFINE X == EndOfBatch(p, pods[p].fetched, Cardinality(pods[p].done))
    <3>1. X \in PodState /\ X.rows = {} /\ X.done = {} /\ X.mode = "idle"
      BY <1>0, EndOfBatchTyped
    <3>2. pods' = [pods EXCEPT ![p] = X]
      BY <2>1 DEF MarkProcessedBatch
    <3> QED
      BY <3>1, <3>2
  <2>2. CASE MarkFails(p)
    <3> DEFINE X == EndOfBatch(p, 0, 0)
    <3>1. X \in PodState /\ X.rows = {} /\ X.done = {} /\ X.mode = "idle"
      BY <1>0, EndOfBatchTyped
    <3>2. pods' = [pods EXCEPT ![p] = X]
      BY <2>2 DEF MarkFails
    <3> QED
      BY <3>1, <3>2
  <2>3. CASE Stop(p)
    BY <2>3, FreshTyped DEF Stop
  <2>4. CASE Restart(p)
    BY <2>4, FreshTyped DEF Restart
  <2> QED
    BY <2>1, <2>2, <2>3, <2>4
<1>2. /\ UNCHANGED <<recorded, deadLettered, attempts, filed, readModel, history>>
      /\ processed' = processed \/ processed' = processed \union pods[p].done
  BY DEF MarkProcessedBatch, MarkFails, Stop, Restart, streamVars
<1>3. faults' \in 0 .. MaxFaults
  BY <1>0, FaultTyped DEF MarkProcessedBatch, MarkFails, Stop, Restart, TypeOK
<1>4. TypeOK'
  BY <1>0, <1>1, <1>2, <1>3 DEF TypeOK, readModel, history
<1>5. StreamOK' /\ UNCHANGED <<recorded, failures, dispatched>>
  BY <1>0, <1>2 DEF StreamOK, history
<1> QED
  BY <1>1, <1>4, <1>5, Advance

\* Nothing recorded, every pod fresh.
LEMMA InitInv == Init => IndInv
<1> SUFFICES ASSUME Init PROVE IndInv
  OBVIOUS
<1>1. TypeOK
  BY FreshTyped, NoneTyped, PipelineAssumption DEF Init, TypeOK, None
<1>2. StreamOK
  BY PipelineAssumption DEF Init, StreamOK, None
<1>3. ASSUME NEW p \in Pods PROVE PodOK(p)
  BY <1>3 DEF Init, Fresh, PodOK
<1> QED
  BY <1>1, <1>2, <1>3 DEF IndInv

\* Every step of every pod keeps the invariant.
LEMMA NextInv == IndInv /\ [Next]_vars => IndInv'
<1> SUFFICES ASSUME IndInv, [Next]_vars PROVE IndInv'
  OBVIOUS
<1>1. ASSUME NEW e \in Events, Record(e) PROVE IndInv'
  BY <1>1, RecordInv
<1>2. ASSUME NEW p \in Pods, Works(p) PROVE IndInv'
  BY <1>2, FetchBatchInv, StatementInv, FinishEventInv, FailureInv, RecordAttemptInv,
     GiveUpInv, BatchInv DEF Works
<1>3. ASSUME NEW p \in Pods, Breaks(p) PROVE IndInv'
  BY <1>3, FailureInv, RecordAttemptInv, NotGivenUpInv, DeadLetterFailsInv, BatchInv DEF Breaks
<1>4. CASE UNCHANGED vars
  <2>1. UNCHANGED <<recorded, processed, deadLettered, attempts, filed, raised, donorTotal,
                    matched, completed, pods, dispatched, failures, faults>>
    BY <1>4 DEF vars, streamVars, readModel, history
  <2>2. TypeOK' /\ StreamOK'
    BY <2>1 DEF IndInv, TypeOK, StreamOK
  <2>3. ASSUME NEW p \in Pods PROVE PodOK(p)'
    BY <2>1 DEF IndInv, PodOK, CurrentRows, Attempt
  <2> QED
    BY <2>2, <2>3 DEF IndInv
<1> QED
  BY <1>1, <1>2, <1>3, <1>4 DEF Next

-----------------------------------------------------------------------------
\* What is known of every reachable state of the pipeline.
THEOREM InvariantHolds == Spec => []IndInv
<1> QED
  BY InitInv, NextInv, PTL DEF Spec

\* The stream, the read model and the state of every pod keep their types: no
\* event is processed that is not recorded, and no attempts exceed the limit.
THEOREM PipelineTypeCorrect == Spec => []TypeOK
<1>1. IndInv => TypeOK
  BY DEF IndInv
<1> QED
  BY <1>1, InvariantHolds, PTL

\* The event store keeps the safety part of its promise: an event is settled
\* only after all projections had it or it failed as often as it may.
THEOREM PipelineImplementsDelivery == Spec => Delivery!Safe
<1> DEFINE Exhausted == {e \in Events : failures[e] = MaxAttempts}
<1>1. Init => Delivery!Init
  BY PipelineAssumption DEF Init, Delivery!Init, None
<1>2. IndInv /\ [Next]_vars => [Delivery!Next]_(Delivery!vars)
  <2> SUFFICES ASSUME IndInv, [Next]_vars PROVE Delivery!Next \/ UNCHANGED Delivery!vars
    OBVIOUS
  <2>0. TypeOK /\ StreamOK
    BY DEF IndInv
  <2>1. CASE UNCHANGED <<recorded, dispatched, failures, processed>>
    BY <2>1 DEF Delivery!vars
  <2>2. ASSUME NEW e \in Events, Record(e) PROVE Delivery!Next
    BY <2>2 DEF Record, Delivery!Next, Delivery!Record, history
  <2>3. ASSUME NEW p \in Pods, NEW row \in CurrentRows(p), FinishEvent(p, row)
        PROVE  Delivery!Next
    <3>1. row.event \in Events /\ row.event \in recorded
      BY CurrentRowFacts
    <3>2. Delivery!Deliver(row.event)
      BY <2>3, <3>1 DEF FinishEvent, Delivery!Deliver, streamVars
    <3> QED
      BY <3>1, <3>2 DEF Delivery!Next
  <2>4. ASSUME NEW p \in Pods, NEW row \in CurrentRows(p),
               FailsToParse(p, row) \/ StatementFails(p, row)
        PROVE  Delivery!Next \/ UNCHANGED Delivery!vars
    <3>1. row.event \in Events /\ row.event \in recorded
      BY CurrentRowFacts
    <3>2. /\ failures' = [failures EXCEPT ![row.event] = Min({MaxAttempts, @ + 1})]
          /\ UNCHANGED <<recorded, processed, dispatched>>
      BY <2>4 DEF FailsToParse, StatementFails, Fails, streamVars
    <3>3. /\ failures' \in [Events -> 0 .. MaxAttempts]
          /\ \A f \in Events : failures[f] <= failures'[f]
          /\ \A f \in Events \ {row.event} : failures'[f] = failures[f]
      BY <2>0, <3>1, <3>2, CountFailure
    <3>4. failures[row.event] = MaxAttempts => failures'[row.event] = MaxAttempts
      <4>1. /\ failures'[row.event] \in 0 .. MaxAttempts
            /\ failures[row.event] <= failures'[row.event]
        BY <3>1, <3>3
      <4> QED
        BY <4>1, PipelineAssumption
    <3>5. Exhausted' = Exhausted \/ Exhausted' = Exhausted \union {row.event}
      BY <3>1, <3>3, <3>4
    <3>6. Exhausted' = Exhausted => UNCHANGED Delivery!vars
      BY <3>2 DEF Delivery!vars
    <3>7. Exhausted' = Exhausted \union {row.event} => Delivery!Exhaust(row.event)
      BY <3>1, <3>2 DEF Delivery!Exhaust
    <3> QED
      BY <3>1, <3>5, <3>6, <3>7 DEF Delivery!Next
  <2>5. ASSUME NEW p \in Pods, NEW row \in CurrentRows(p),
               DeadLetter(p, row) \/ MarkUnfiled(p, row)
        PROVE  Delivery!Next
    <3>1. row.event \in Events /\ failures[row.event] = MaxAttempts
      BY <2>5, GivenUp, CurrentRowFacts
    <3>2. processed' = processed \union {row.event} /\ UNCHANGED <<recorded, dispatched, failures>>
      BY <2>5 DEF DeadLetter, MarkUnfiled, MarkDeadLettered, history
    <3>3. Delivery!Settle({row.event})
      BY <3>1, <3>2 DEF Delivery!Settle
    <3> QED
      BY <3>1, <3>3 DEF Delivery!Next
  <2>6. ASSUME NEW p \in Pods, MarkProcessedBatch(p) PROVE Delivery!Next
    <3>1. pods[p].done \subseteq dispatched /\ pods[p].done \in SUBSET Events
      BY <2>0 DEF IndInv, PodOK, TypeOK
    <3>2. Delivery!Settle(pods[p].done)
      BY <2>6, <3>1 DEF MarkProcessedBatch, Delivery!Settle, history
    <3> QED
      BY <3>1, <3>2 DEF Delivery!Next
  <2>7. ASSUME NEW p \in Pods, Works(p) PROVE Delivery!Next \/ UNCHANGED Delivery!vars
    <3>1. ASSUME NEW row \in CurrentRows(p),
                 \/ AddRaised(p, row) \/ ReadDonor(p, row) \/ WriteDonor(p, row)
                 \/ CountProjects(p, row) \/ AddMatched(p, row) \/ CompleteJob(p, row)
                 \/ RecordAttempt(p, row)
          PROVE  UNCHANGED <<recorded, dispatched, failures, processed>>
      BY <3>1 DEF AddRaised, ReadDonor, WriteDonor, CountProjects, AddMatched, CompleteJob,
                  RecordAttempt, streamVars, history
    <3>2. FetchBatch(p) \/ Restart(p) => UNCHANGED <<recorded, dispatched, failures, processed>>
      BY DEF FetchBatch, Restart, streamVars, history
    <3> QED
      BY <2>1, <2>3, <2>4, <2>5, <2>6, <2>7, <3>1, <3>2 DEF Works
  <2>8. ASSUME NEW p \in Pods, Breaks(p) PROVE Delivery!Next \/ UNCHANGED Delivery!vars
    <3>1. ASSUME NEW row \in CurrentRows(p),
                 \/ AttemptNotRecorded(p, row) \/ NoClient(p, row)
                 \/ DeadLetterFails(p, row) \/ MarkUnfiledFails(p, row)
          PROVE  UNCHANGED <<recorded, dispatched, failures, processed>>
      BY <3>1 DEF AttemptNotRecorded, NoClient, DeadLetterFails, MarkUnfiledFails, streamVars, history
    <3>2. MarkFails(p) \/ Stop(p) => UNCHANGED <<recorded, dispatched, failures, processed>>
      BY DEF MarkFails, Stop, streamVars, history
    <3> QED
      BY <2>1, <2>4, <2>8, <3>1, <3>2 DEF Breaks
  <2>9. UNCHANGED vars => UNCHANGED <<recorded, dispatched, failures, processed>>
    BY DEF vars, streamVars, history
  <2> QED
    BY <2>1, <2>2, <2>7, <2>8, <2>9 DEF Next
<1> QED
  BY <1>1, <1>2, InvariantHolds, PTL DEF Spec, Delivery!Safe

-----------------------------------------------------------------------------
\* No event is missing from the totals: the statements that are behind a pod in
\* the dispatch of its current row did take effect, and nothing undoes them.
Took(e, statement) ==
    /\ statement = "addRaised" => raised[e] >= 1
    /\ statement = "addMatched" => matched[e] >= 1
    /\ statement = "completeJob" => e \in completed

PodProgress(p) ==
    /\ pods[p].mode = "idle" => pods[p].at = 0
    /\ pods[p].mode = "dispatching" =>
        \A row \in CurrentRows(p) : \A i \in 1 .. pods[p].at : Took(row.event, Plan(row)[i])

Arrived(e) == \A i \in DOMAIN Statements[Kind[e]] : Took(e, Statements[Kind[e]][i])

ProgressInv ==
    /\ \A p \in Pods : PodProgress(p)
    /\ \A e \in dispatched : Arrived(e)
    /\ processed \subseteq dispatched \union deadLettered

\* The statements of an event are a finite sequence.
LEMMA PlanTyped ==
    ASSUME NEW e \in Events
    PROVE  DOMAIN Statements[Kind[e]] = 1 .. Len(Statements[Kind[e]])
           /\ Len(Statements[Kind[e]]) \in Nat
<1>1. Kind[e] \in {"DonationRecorded", "MatchApplied", "JobReleased", "ProjectStatusChanged"}
  BY PipelineAssumption DEF Statements
<1>2. /\ Statements["DonationRecorded"] = <<"addRaised", "readDonor", "writeDonor", "countProjects">>
      /\ Statements["MatchApplied"] = <<"addRaised", "readDonor", "writeDonor", "countProjects", "addMatched">>
      /\ Statements["JobReleased"] = <<"completeJob">>
      /\ Statements["ProjectStatusChanged"] = <<>>
  BY DEF Statements
<1>3. ASSUME NEW s \in {<<"addRaised", "readDonor", "writeDonor", "countProjects">>,
                        <<"addRaised", "readDonor", "writeDonor", "countProjects", "addMatched">>,
                        <<"completeJob">>}
      PROVE  DOMAIN s = 1 .. Len(s) /\ Len(s) \in Nat
  OBVIOUS
<1>4. DOMAIN <<>> = 1 .. Len(<<>>) /\ Len(<<>>) \in Nat
  OBVIOUS
<1> QED
  BY <1>1, <1>2, <1>3, <1>4

\* A dispatch that has come to an end has been through its whole plan.
LEMMA FinishedHasArrived ==
    ASSUME IndInv, ProgressInv, NEW p \in Pods, NEW row \in CurrentRows(p), FinishEvent(p, row)
    PROVE  Arrived(row.event)
<1>1. row.event \in Events
  BY CurrentRowFacts
<1>2. \A i \in 1 .. pods[p].at : Took(row.event, Plan(row)[i])
  BY DEF FinishEvent, Dispatches, ProgressInv, PodProgress
<1>3. pods[p].at = Len(Plan(row))
  BY DEF FinishEvent
<1> QED
  BY <1>1, <1>2, <1>3, PlanTyped DEF Arrived, Plan

\* What a statement has written stays written.
LEMMA EffectsLast ==
    ASSUME TypeOK, NEW e \in Events, NEW statement, Took(e, statement),
           \/ UNCHANGED readModel
           \/ \E p \in Pods : \E row \in CurrentRows(p) :
                \/ AddRaised(p, row) \/ ReadDonor(p, row) \/ WriteDonor(p, row)
                \/ CountProjects(p, row) \/ AddMatched(p, row) \/ CompleteJob(p, row)
    PROVE  Took(e, statement)'
<1> DEFINE Grown == /\ raised'[e] \in Nat /\ raised'[e] >= raised[e]
                    /\ matched'[e] \in Nat /\ matched'[e] >= matched[e]
                    /\ completed \subseteq completed'
<1>1. raised[e] \in Nat /\ matched[e] \in Nat
  BY DEF TypeOK
<1>2. Grown
  <2>1. CASE UNCHANGED readModel
    BY <1>1, <2>1 DEF readModel
  <2>2. ASSUME NEW p \in Pods, NEW row \in CurrentRows(p),
               \/ AddRaised(p, row) \/ ReadDonor(p, row) \/ WriteDonor(p, row)
               \/ CountProjects(p, row) \/ AddMatched(p, row) \/ CompleteJob(p, row)
        PROVE  Grown
    BY <1>1, <2>2 DEF TypeOK, AddRaised, ReadDonor, WriteDonor, CountProjects, AddMatched,
                      CompleteJob, readModel
  <2> QED
    BY <2>1, <2>2
<1> QED
  BY <1>1, <1>2 DEF Took

\* A statement takes effect, and moves its pod behind it.
LEMMA StatementProgress ==
    ASSUME IndInv, NEW p \in Pods, PodProgress(p), NEW row \in CurrentRows(p),
           \/ AddRaised(p, row) \/ ReadDonor(p, row) \/ WriteDonor(p, row)
           \/ CountProjects(p, row) \/ AddMatched(p, row) \/ CompleteJob(p, row)
    PROVE  /\ PodProgress(p)'
           /\ \A q \in Pods \ {p} : pods'[q] = pods[q]
           /\ UNCHANGED <<processed, dispatched, deadLettered>>
<1> DEFINE at == pods[p].at
           statement == Plan(row)[at + 1]
<1>0. /\ TypeOK /\ pods \in [Pods -> PodState] /\ pods[p] \in PodState /\ at \in Nat
      /\ row.event \in Events /\ \A other \in CurrentRows(p) : other = row
  BY CurrentRowFacts DEF PodState
<1>1. /\ pods'[p].at = at + 1 /\ pods'[p].mode = "dispatching" /\ pods'[p].rows = pods[p].rows
      /\ \A q \in Pods \ {p} : pods'[q] = pods[q]
      /\ pods[p].mode = "dispatching"
  BY <1>0 DEF AddRaised, ReadDonor, WriteDonor, CountProjects, AddMatched, CompleteJob, Executes,
              Unfinished, Dispatches, PodState
<1>2. ASSUME NEW s, s = statement PROVE Took(row.event, s)'
  <2>1. raised[row.event] \in Nat /\ matched[row.event] \in Nat
    BY <1>0 DEF TypeOK
  <2>2. CASE AddRaised(p, row)
    <3>1. s = "addRaised" /\ raised'[row.event] = raised[row.event] + 1
      BY <1>0, <1>2, <2>2 DEF AddRaised, Executes, TypeOK
    <3> QED
      BY <2>1, <3>1 DEF Took
  <2>3. CASE AddMatched(p, row)
    <3>1. s = "addMatched" /\ matched'[row.event] = matched[row.event] + 1
      BY <1>0, <1>2, <2>3 DEF AddMatched, Executes, TypeOK
    <3> QED
      BY <2>1, <3>1 DEF Took
  <2>4. CASE CompleteJob(p, row)
    BY <1>0, <1>2, <2>4 DEF CompleteJob, Executes, Took, Plan
  <2>5. CASE ReadDonor(p, row) \/ WriteDonor(p, row) \/ CountProjects(p, row)
    <3>1. s \in {"readDonor", "writeDonor", "countProjects"}
      BY <1>2, <2>5 DEF ReadDonor, WriteDonor, CountProjects, Executes
    <3> QED
      BY <3>1 DEF Took
  <2> QED
    BY <2>2, <2>3, <2>4, <2>5
<1>3. \A i \in 1 .. at : Took(row.event, Plan(row)[i])'
  BY <1>0, <1>1, EffectsLast DEF PodProgress, Plan
<1>4. \A i \in 1 .. (at + 1) : Took(row.event, Plan(row)[i])'
  <2> SUFFICES ASSUME NEW i \in 1 .. (at + 1) PROVE Took(row.event, Plan(row)[i])'
    BY DEF Plan
  <2>1. CASE i = at + 1
    BY <1>2, <2>1 DEF Plan
  <2>2. CASE i # at + 1
    <3>1. i \in 1 .. at
      BY <1>0, <2>2
    <3> QED
      BY <1>3, <3>1
  <2> QED
    BY <2>1, <2>2
<1>5. CurrentRows(p)' = CurrentRows(p)
  BY <1>1 DEF CurrentRows
<1>6. PodProgress(p)'
  BY <1>0, <1>1, <1>4, <1>5 DEF PodProgress, Plan
<1>7. UNCHANGED <<processed, dispatched, deadLettered>>
  BY DEF AddRaised, ReadDonor, WriteDonor, CountProjects, AddMatched, CompleteJob, streamVars, history
<1> QED
  BY <1>1, <1>6, <1>7

\* Every other step of a pod starts a dispatch from its first statement, or is
\* in none.
LEMMA OtherProgress ==
    ASSUME IndInv, ProgressInv, NEW p \in Pods,
           \/ FetchBatch(p) \/ MarkProcessedBatch(p) \/ MarkFails(p) \/ Stop(p) \/ Restart(p)
           \/ \E row \in CurrentRows(p) :
                \/ FinishEvent(p, row) \/ FailsToParse(p, row) \/ StatementFails(p, row)
                \/ RecordAttempt(p, row) \/ AttemptNotRecorded(p, row)
                \/ DeadLetter(p, row) \/ DeadLetterFails(p, row)
                \/ MarkUnfiled(p, row) \/ MarkUnfiledFails(p, row) \/ NoClient(p, row)
    PROVE  /\ PodProgress(p)'
           /\ \A q \in Pods \ {p} : pods'[q] = pods[q]
           /\ UNCHANGED readModel
           /\ pods'[p].at = 0 \/ pods'[p].mode # "dispatching"
<1>0. /\ TypeOK /\ pods \in [Pods -> PodState] /\ pods[p] \in PodState /\ PodProgress(p)
  BY DEF IndInv, TypeOK, ProgressInv
<1>1. pods'[p].at = 0 \/ pods'[p].mode \in {"failed", "unfiled", "down"}
  <2>1. CASE FetchBatch(p)
    <3>1. pods[p].at = 0
      BY <1>0, <2>1 DEF FetchBatch, PodProgress
    <3>2. CASE Unprocessed(pods[p].batchSize) = {}
      BY <1>0, <2>1, <3>2 DEF FetchBatch, EndOfBatch, Fresh
    <3>3. CASE Unprocessed(pods[p].batchSize) # {}
      <4> DEFINE batch == Unprocessed(pods[p].batchSize)
                 rows == {[event |-> e, attempts |-> attempts[e]] : e \in batch}
                 n == Cardinality(batch)
      <4>1. pods' = [pods EXCEPT ![p] = [@ EXCEPT !.mode = "dispatching", !.rows = rows, !.fetched = n]]
        BY <2>1, <3>3 DEF FetchBatch
      <4> HIDE DEF batch, rows, n
      <4> QED
        BY <1>0, <3>1, <4>1 DEF PodState
    <3> QED
      BY <3>2, <3>3
  <2>2. CASE MarkProcessedBatch(p) \/ MarkFails(p)
    BY <1>0, <2>2 DEF MarkProcessedBatch, MarkFails, EndOfBatch, Fresh
  <2>3. CASE Stop(p) \/ Restart(p)
    BY <1>0, <2>3 DEF Stop, Restart, Fresh
  <2>4. ASSUME NEW row \in CurrentRows(p),
               FailsToParse(p, row) \/ StatementFails(p, row) \/ DeadLetterFails(p, row)
        PROVE  pods'[p].mode \in {"failed", "unfiled"}
    BY <1>0, <2>4 DEF FailsToParse, StatementFails, DeadLetterFails, Fails, PodState
  <2>5. ASSUME NEW row \in CurrentRows(p),
               \/ RecordAttempt(p, row) \/ AttemptNotRecorded(p, row) \/ DeadLetter(p, row)
               \/ MarkUnfiled(p, row) \/ MarkUnfiledFails(p, row)
        PROVE  pods'[p].at = 0
    <3>1. pods' = [pods EXCEPT ![p] = NextRow(p, row)]
      BY <2>5 DEF RecordAttempt, AttemptNotRecorded, DeadLetter, MarkUnfiled, MarkUnfiledFails,
                  MarkDeadLettered
    <3> QED
      BY <1>0, <3>1 DEF NextRow, PodState
  <2>6. ASSUME NEW row \in CurrentRows(p), FinishEvent(p, row) PROVE pods'[p].at = 0
    BY <1>0, <2>6 DEF FinishEvent, NextRow, PodState
  <2>7. ASSUME NEW row \in CurrentRows(p), NoClient(p, row) PROVE pods'[p].at = 0
    BY <1>0, <2>7 DEF NoClient, EndOfBatch, Fresh
  <2> QED
    BY <2>1, <2>2, <2>3, <2>4, <2>5, <2>6, <2>7
<1>2. /\ \A q \in Pods \ {p} : pods'[q] = pods[q]
      /\ UNCHANGED readModel
  BY <1>0 DEF FetchBatch, MarkProcessedBatch, MarkFails, Stop, Restart, FinishEvent, FailsToParse,
     StatementFails, Fails, RecordAttempt, AttemptNotRecorded, DeadLetter, DeadLetterFails,
     MarkUnfiled, MarkUnfiledFails, MarkDeadLettered, NoClient
<1>3. PodProgress(p)'
  BY <1>1 DEF PodProgress
<1> QED
  BY <1>1, <1>2, <1>3

\* A pod that does not move keeps its progress, whatever others write.
LEMMA SameProgress ==
    ASSUME IndInv, NEW q \in Pods, PodProgress(q), pods'[q] = pods[q],
           \/ UNCHANGED readModel
           \/ \E p \in Pods : \E row \in CurrentRows(p) :
                \/ AddRaised(p, row) \/ ReadDonor(p, row) \/ WriteDonor(p, row)
                \/ CountProjects(p, row) \/ AddMatched(p, row) \/ CompleteJob(p, row)
    PROVE  PodProgress(q)'
<1>1. TypeOK /\ \A row \in CurrentRows(q) : row.event \in Events
  BY CurrentRowFacts DEF IndInv
<1>2. CurrentRows(q)' = CurrentRows(q)
  BY DEF CurrentRows
<1>3. pods[q].mode = "dispatching" =>
        \A row \in CurrentRows(q) : \A i \in 1 .. pods[q].at : Took(row.event, Plan(row)[i])'
  <2> SUFFICES ASSUME pods[q].mode = "dispatching",
                      NEW row \in CurrentRows(q), NEW i \in 1 .. pods[q].at
               PROVE  Took(row.event, Plan(row)[i])'
    BY DEF Plan
  <2>1. Took(row.event, Plan(row)[i]) /\ row.event \in Events
    BY <1>1 DEF PodProgress
  <2> DEFINE s == Statements[Kind[row.event]][i]
  <2>2. Took(row.event, s)
    BY <2>1 DEF Plan
  <2> HIDE DEF s
  <2>3. Took(row.event, s)'
    BY <1>1, <2>1, <2>2, EffectsLast DEF s
  <2> QED
    BY <2>3 DEF Plan, s
<1> QED
  BY <1>2, <1>3 DEF PodProgress, Plan

\* An event that has arrived has arrived for good.
LEMMA ArrivedLasts ==
    ASSUME TypeOK, NEW e \in Events, Arrived(e),
           \/ UNCHANGED readModel
           \/ \E p \in Pods : \E row \in CurrentRows(p) :
                \/ AddRaised(p, row) \/ ReadDonor(p, row) \/ WriteDonor(p, row)
                \/ CountProjects(p, row) \/ AddMatched(p, row) \/ CompleteJob(p, row)
    PROVE  Arrived(e)'
BY EffectsLast DEF Arrived

\* Every step keeps the progress each pod has made.
LEMMA ProgressStep == IndInv /\ ProgressInv /\ [Next]_vars => ProgressInv'
<1> SUFFICES ASSUME IndInv, ProgressInv, [Next]_vars PROVE ProgressInv'
  OBVIOUS
<1>0. TypeOK /\ dispatched \subseteq Events
  BY DEF IndInv, TypeOK
<1>1. CASE UNCHANGED <<pods, readModel, processed, dispatched, deadLettered>>
  <2>1. \A q \in Pods : PodProgress(q)'
    BY <1>1, SameProgress DEF ProgressInv
  <2>2. \A e \in dispatched' : Arrived(e)'
    BY <1>0, <1>1, ArrivedLasts DEF ProgressInv
  <2> QED
    BY <1>1, <2>1, <2>2 DEF ProgressInv
<1>2. ASSUME NEW p \in Pods, NEW row \in CurrentRows(p),
             \/ AddRaised(p, row) \/ ReadDonor(p, row) \/ WriteDonor(p, row)
             \/ CountProjects(p, row) \/ AddMatched(p, row) \/ CompleteJob(p, row)
      PROVE  ProgressInv'
  <2>1. /\ PodProgress(p)' /\ \A q \in Pods \ {p} : pods'[q] = pods[q]
        /\ UNCHANGED <<processed, dispatched, deadLettered>>
    BY <1>2, StatementProgress DEF ProgressInv
  <2>2. \A q \in Pods \ {p} : PodProgress(q)'
    BY <1>2, <2>1, SameProgress DEF ProgressInv
  <2>3. \A e \in dispatched' : Arrived(e)'
    BY <1>0, <1>2, <2>1, ArrivedLasts DEF ProgressInv
  <2> QED
    BY <2>1, <2>2, <2>3 DEF ProgressInv
<1>3. ASSUME NEW p \in Pods,
           \/ FetchBatch(p) \/ MarkProcessedBatch(p) \/ MarkFails(p) \/ Stop(p) \/ Restart(p)
           \/ \E row \in CurrentRows(p) :
                \/ FinishEvent(p, row) \/ FailsToParse(p, row) \/ StatementFails(p, row)
                \/ RecordAttempt(p, row) \/ AttemptNotRecorded(p, row)
                \/ DeadLetter(p, row) \/ DeadLetterFails(p, row)
                \/ MarkUnfiled(p, row) \/ MarkUnfiledFails(p, row) \/ NoClient(p, row)
      PROVE  ProgressInv'
  <2>1. /\ PodProgress(p)' /\ \A q \in Pods \ {p} : pods'[q] = pods[q]
        /\ UNCHANGED readModel
    BY <1>3, OtherProgress
  <2>2. \A q \in Pods \ {p} : PodProgress(q)'
    BY <2>1, SameProgress DEF ProgressInv
  <2>3. \A e \in dispatched : Arrived(e)'
    BY <1>0, <2>1, ArrivedLasts DEF ProgressInv
  <2>4. ASSUME NEW row \in CurrentRows(p), FinishEvent(p, row)
        PROVE  Arrived(row.event)' /\ dispatched' = dispatched \union {row.event}
    <3>1. Arrived(row.event) /\ row.event \in Events
      BY <2>4, FinishedHasArrived, CurrentRowFacts
    <3> QED
      BY <1>0, <2>1, <2>4, <3>1, ArrivedLasts DEF FinishEvent
  <2>5. dispatched' = dispatched \/ \E row \in CurrentRows(p) : FinishEvent(p, row)
    BY <1>3 DEF FetchBatch, MarkProcessedBatch, MarkFails, Stop, Restart, FailsToParse,
       StatementFails, Fails, RecordAttempt, AttemptNotRecorded, DeadLetter, DeadLetterFails,
       MarkUnfiled, MarkUnfiledFails, NoClient, history
  <2>6. \A e \in dispatched' : Arrived(e)'
    BY <2>3, <2>4, <2>5
  <2>7. pods[p].done \subseteq dispatched
    BY DEF IndInv, PodOK
  <2>8. dispatched \subseteq dispatched'
    BY <2>4, <2>5
  <2>9. \/ processed' = processed /\ deadLettered' = deadLettered
        \/ processed' = processed \union pods[p].done /\ deadLettered' = deadLettered
        \/ \E e : processed' = processed \union {e} /\ deadLettered' = deadLettered \union {e}
    BY <1>3 DEF FetchBatch, MarkProcessedBatch, MarkFails, Stop, Restart, FinishEvent, FailsToParse,
       StatementFails, Fails, RecordAttempt, AttemptNotRecorded, DeadLetter, DeadLetterFails,
       MarkUnfiled, MarkUnfiledFails, MarkDeadLettered, NoClient, streamVars
  <2>10. processed' \subseteq dispatched' \union deadLettered'
    BY <2>7, <2>8, <2>9 DEF ProgressInv
  <2> QED
    BY <2>1, <2>2, <2>6, <2>10 DEF ProgressInv
<1>4. ASSUME NEW e \in Events, Record(e) PROVE ProgressInv'
  BY <1>1, <1>4 DEF Record, history
<1>5. ASSUME NEW p \in Pods, Works(p) \/ Breaks(p) PROVE ProgressInv'
  BY <1>2, <1>3, <1>5 DEF Works, Breaks
<1>6. CASE UNCHANGED vars
  BY <1>1, <1>6 DEF vars, streamVars, history
<1> QED
  BY <1>4, <1>5, <1>6 DEF Next

\* Every pod's progress is known in every reachable state.
LEMMA ProgressHolds == Spec => []ProgressInv
<1>1. Init => ProgressInv
  BY DEF Init, ProgressInv, PodProgress, Fresh
<1> QED
  BY <1>1, ProgressStep, InvariantHolds, PTL DEF Spec

\* However many pods dispatch it at the same time and whatever fails, an event
\* that was processed and not given up is in its project's and its match's
\* total, and a released job is completed.
THEOREM NothingIsLost == Spec => []NothingUndercounted
<1>1. IndInv /\ ProgressInv => NothingUndercounted
  <2> SUFFICES ASSUME IndInv, ProgressInv, NEW e \in processed \ deadLettered
               PROVE  /\ Has(e, "addRaised") => raised[e] >= 1
                      /\ Has(e, "addMatched") => matched[e] >= 1
                      /\ Has(e, "completeJob") => e \in completed
    BY DEF NothingUndercounted
  <2>1. Arrived(e)
    BY DEF ProgressInv
  <2> QED
    BY <2>1 DEF Arrived, Has, Took
<1> QED
  BY <1>1, ProgressHolds, InvariantHolds, PTL

-----------------------------------------------------------------------------
(***************************************************************************)
(* How much too high a count can be is a matter of chances.  A pod has one *)
(* chance to execute a statement for an event.  It is spent when the pod   *)
(* does so, and when it lets go of an event that is processed, and only a  *)
(* fault gives it back: a statement that fails, a batch that is given up,  *)
(* a stop.  So the faults and the pods that have spent their chance        *)
(* account for what a count has reached.                                   *)
(***************************************************************************)
Holds(p, e) == \E row \in pods[p].rows : row.event = e

LetGo(p, e) == e \in processed /\ ~ Holds(p, e)

\* The dispatch of e that pod p is in has executed the statement.
Behind(p, e, statement) ==
    /\ pods[p].mode = "dispatching"
    /\ e \notin Poison
    /\ \E row \in CurrentRows(p) :
        row.event = e /\ \E i \in 1 .. pods[p].at : Plan(row)[i] = statement

Spent(e, statement) ==
    {p \in Pods : e \in pods[p].done \/ Behind(p, e, statement) \/ LetGo(p, e)}

Ceiling(e, statement) == faults + Cardinality(Spent(e, statement))

\* What a pod is done with is not in its batch any more, and a pod that waits
\* or is down has no batch.
BatchFits(p) ==
    /\ \A row \in pods[p].rows : row.event \notin pods[p].done
    /\ pods[p].mode \in {"idle", "down"} => pods[p].rows = {} /\ pods[p].done = {}

\* A total that was read for a donor is bounded like the stored one, because
\* the bound never falls.
CountsFit(e) ==
    /\ raised[e] <= Ceiling(e, "addRaised")
    /\ matched[e] <= Ceiling(e, "addMatched")
    /\ \A d \in Donors : donorTotal[d][e] <= Ceiling(e, "writeDonor")
    /\ \A p \in Pods : pods[p].total[e] <= Ceiling(e, "writeDonor")

CountInv == (\A p \in Pods : BatchFits(p)) /\ \A e \in Events : CountsFit(e)

\* A bound is a number.
LEMMA CeilingTyped ==
    ASSUME TypeOK, NEW e, NEW statement
    PROVE  Ceiling(e, statement) \in Nat /\ IsFiniteSet(Spent(e, statement))
<1>1. IsFiniteSet(Spent(e, statement))
  BY PipelineAssumption, FS_Subset DEF Spent
<1>2. Cardinality(Spent(e, statement)) \in Nat
  BY <1>1, FS_CardinalityType
<1>3. faults \in Nat
  BY PipelineAssumption DEF TypeOK
<1> QED
  BY <1>1, <1>2, <1>3 DEF Ceiling

\* It is one after the next step, too.
LEMMA NextCeilingTyped ==
    ASSUME TypeOK', NEW e, NEW statement
    PROVE  Ceiling(e, statement)' \in Nat
<1> DEFINE T == Spent(e, statement)'
<1>1. T \subseteq Pods
  BY DEF Spent
<1>2. Ceiling(e, statement)' = faults' + Cardinality(T)
  BY DEF Ceiling
<1>3. faults' \in Nat
  BY PipelineAssumption DEF TypeOK
<1> HIDE DEF T
<1>4. Cardinality(T) \in Nat
  BY <1>1, PipelineAssumption, FS_Subset, FS_CardinalityType
<1> QED
  BY <1>2, <1>3, <1>4

\* What other pods have spent stays spent.
LEMMA OthersStaySpent ==
    ASSUME NEW p \in Pods, \A q \in Pods \ {p} : pods'[q] = pods[q],
           processed \subseteq processed', NEW e, NEW statement
    PROVE  Spent(e, statement) \ {p} \subseteq Spent(e, statement)'
<1> SUFFICES ASSUME NEW q \in Pods \ {p}, q \in Spent(e, statement)
             PROVE  q \in Spent(e, statement)'
  BY DEF Spent
<1>1. pods'[q] = pods[q]
  OBVIOUS
<1>2. CurrentRows(q)' = CurrentRows(q)
  BY <1>1 DEF CurrentRows
<1>3. Behind(q, e, statement) => Behind(q, e, statement)'
  BY <1>1, <1>2 DEF Behind, Plan
<1>4. LetGo(q, e) => LetGo(q, e)'
  BY <1>1 DEF LetGo, Holds
<1> QED
  BY <1>1, <1>3, <1>4 DEF Spent

\* The bound does not fall: a pod that gets its chance back has met a fault.
LEMMA CeilingStays ==
    ASSUME TypeOK, TypeOK', NEW p \in Pods, NEW e, NEW statement,
           Spent(e, statement) \ {p} \subseteq Spent(e, statement)',
           \/ faults' = faults + 1
           \/ faults' = faults /\ (p \in Spent(e, statement) => p \in Spent(e, statement)')
    PROVE  Ceiling(e, statement) <= Ceiling(e, statement)'
<1> DEFINE S == Spent(e, statement)
           T == Spent(e, statement)'
<1>1. IsFiniteSet(S) /\ IsFiniteSet(T)
  <2>1. S \subseteq Pods /\ T \subseteq Pods
    BY DEF Spent
  <2> QED
    BY <2>1, PipelineAssumption, FS_Subset
<1>2. Cardinality(S) \in Nat /\ Cardinality(T) \in Nat /\ faults \in Nat /\ faults' \in Nat
  BY <1>1, FS_CardinalityType, PipelineAssumption DEF TypeOK
<1>3. Ceiling(e, statement) = faults + Cardinality(S)
  BY DEF Ceiling
<1>4. Ceiling(e, statement)' = faults' + Cardinality(T)
  BY DEF Ceiling
<1> HIDE DEF S, T
<1>5. CASE S \subseteq T
  <2>1. Cardinality(S) <= Cardinality(T)
    BY <1>1, <1>5, FS_Subset
  <2>2. faults <= faults'
    BY <1>2
  <2> QED
    BY <1>2, <1>3, <1>4, <2>1, <2>2
<1>6. CASE ~ (S \subseteq T)
  <2>1. p \in S /\ p \notin T /\ faults' = faults + 1 /\ S \ {p} \subseteq T
    BY <1>6 DEF S, T
  <2>2. IsFiniteSet(S \ {p}) /\ Cardinality(S \ {p}) = Cardinality(S) - 1
    BY <1>1, <2>1, FS_RemoveElement
  <2>3. Cardinality(S \ {p}) <= Cardinality(T)
    BY <1>1, <2>1, FS_Subset
  <2> QED
    BY <1>2, <1>3, <1>4, <2>1, <2>2, <2>3
<1> QED
  BY <1>5, <1>6

\* The bound rises with a pod that spends its chance.
LEMMA CeilingRises ==
    ASSUME TypeOK, TypeOK', NEW p \in Pods, NEW e, NEW statement,
           Spent(e, statement) \ {p} \subseteq Spent(e, statement)',
           p \notin Spent(e, statement), p \in Spent(e, statement)', faults' = faults
    PROVE  Ceiling(e, statement) + 1 <= Ceiling(e, statement)'
<1> DEFINE S == Spent(e, statement)
           T == Spent(e, statement)'
<1>1. IsFiniteSet(S) /\ IsFiniteSet(T)
  <2>1. S \subseteq Pods /\ T \subseteq Pods
    BY DEF Spent
  <2> QED
    BY <2>1, PipelineAssumption, FS_Subset
<1>2. Ceiling(e, statement) = faults + Cardinality(S)
  BY DEF Ceiling
<1>3. Ceiling(e, statement)' = faults' + Cardinality(T)
  BY DEF Ceiling
<1>4. p \notin S /\ S \union {p} \subseteq T
  BY DEF S, T
<1> HIDE DEF S, T
<1>5. IsFiniteSet(S \union {p}) /\ Cardinality(S \union {p}) = Cardinality(S) + 1
  BY <1>1, <1>4, FS_AddElement
<1>6. Cardinality(S \union {p}) <= Cardinality(T)
  BY <1>1, <1>4, FS_Subset
<1>7. Cardinality(S) \in Nat /\ Cardinality(T) \in Nat /\ faults \in Nat
  BY <1>1, FS_CardinalityType, PipelineAssumption DEF TypeOK
<1> QED
  BY <1>2, <1>3, <1>5, <1>6, <1>7

\* A step of a pod is about that pod alone, and what is processed stays so.
LEMMA OnePodMoves ==
    ASSUME TypeOK, NEW p \in Pods, Works(p) \/ Breaks(p)
    PROVE  (\A q \in Pods \ {p} : pods'[q] = pods[q]) /\ processed \subseteq processed'
<1>1. pods \in [Pods -> PodState]
  BY DEF TypeOK
<1>2. FetchBatch(p) \/ MarkProcessedBatch(p) \/ MarkFails(p) \/ Stop(p) \/ Restart(p) =>
        (\A q \in Pods \ {p} : pods'[q] = pods[q]) /\ processed \subseteq processed'
  BY <1>1 DEF FetchBatch, MarkProcessedBatch, MarkFails, Stop, Restart, streamVars
<1>3. ASSUME NEW row \in CurrentRows(p),
             \/ AddRaised(p, row) \/ ReadDonor(p, row) \/ WriteDonor(p, row)
             \/ CountProjects(p, row) \/ AddMatched(p, row) \/ CompleteJob(p, row)
      PROVE  (\A q \in Pods \ {p} : pods'[q] = pods[q]) /\ processed \subseteq processed'
  BY <1>1, <1>3 DEF AddRaised, ReadDonor, WriteDonor, CountProjects, AddMatched, CompleteJob,
     Executes, streamVars
<1>4. ASSUME NEW row \in CurrentRows(p),
             \/ FinishEvent(p, row) \/ FailsToParse(p, row) \/ StatementFails(p, row)
             \/ RecordAttempt(p, row) \/ AttemptNotRecorded(p, row)
             \/ DeadLetter(p, row) \/ DeadLetterFails(p, row)
             \/ MarkUnfiled(p, row) \/ MarkUnfiledFails(p, row) \/ NoClient(p, row)
      PROVE  (\A q \in Pods \ {p} : pods'[q] = pods[q]) /\ processed \subseteq processed'
  BY <1>1, <1>4 DEF FinishEvent, FailsToParse, StatementFails, Fails, RecordAttempt,
     AttemptNotRecorded, DeadLetter, DeadLetterFails, MarkUnfiled, MarkUnfiledFails,
     MarkDeadLettered, NoClient, streamVars
<1> QED
  BY <1>2, <1>3, <1>4 DEF Works, Breaks

\* The pod of a fault-free step keeps its chances spent: a batch is only taken
\* up of events that are not processed, and put down with them processed.
LEMMA StaysSpent ==
    ASSUME IndInv, NEW p \in Pods, BatchFits(p), Works(p), NEW e, NEW statement,
           p \in Spent(e, statement)
    PROVE  p \in Spent(e, statement)' /\ faults' = faults
<1>0. /\ TypeOK /\ pods \in [Pods -> PodState] /\ pods[p] \in PodState
      /\ processed \subseteq processed'
  BY OnePodMoves DEF IndInv, TypeOK
<1>1. e \in pods[p].done \/ Behind(p, e, statement) \/ LetGo(p, e)
  BY DEF Spent
<1>2. SUFFICES ASSUME TRUE
               PROVE  /\ e \in pods'[p].done \/ Behind(p, e, statement)' \/ LetGo(p, e)'
                      /\ faults' = faults
  BY DEF Spent
<1>3. CASE FetchBatch(p)
  <2>1. LetGo(p, e) /\ faults' = faults /\ processed' = processed
    BY <1>1, <1>3 DEF FetchBatch, Behind, BatchFits, streamVars
  <2>2. CASE Unprocessed(pods[p].batchSize) = {}
    <3>1. pods' = [pods EXCEPT ![p] = EndOfBatch(p, 0, 0)]
      BY <1>3, <2>2 DEF FetchBatch
    <3>2. pods'[p].rows = {}
      BY <1>0, <3>1, EndOfBatchTyped
    <3> QED
      BY <2>1, <3>2 DEF LetGo, Holds
  <2>3. CASE Unprocessed(pods[p].batchSize) # {}
    <3> DEFINE batch == Unprocessed(pods[p].batchSize)
               rows == {[event |-> f, attempts |-> attempts[f]] : f \in batch}
               n == Cardinality(batch)
    <3>1. pods' = [pods EXCEPT ![p] = [@ EXCEPT !.mode = "dispatching", !.rows = rows, !.fetched = n]]
      BY <1>3, <2>3 DEF FetchBatch
    <3>2. batch \cap processed = {}
      BY DEF Unprocessed, Pending
    <3> HIDE DEF batch
    <3>4. \A row \in rows : row.event \notin processed
      BY <3>2
    <3> HIDE DEF rows, n
    <3>3. pods'[p].rows = rows
      BY <1>0, <3>1 DEF PodState
    <3> QED
      BY <2>1, <3>3, <3>4 DEF LetGo, Holds
  <2> QED
    BY <2>2, <2>3
<1>4. ASSUME NEW row \in CurrentRows(p),
             \/ AddRaised(p, row) \/ ReadDonor(p, row) \/ WriteDonor(p, row)
             \/ CountProjects(p, row) \/ AddMatched(p, row) \/ CompleteJob(p, row)
      PROVE  /\ e \in pods'[p].done \/ Behind(p, e, statement)' \/ LetGo(p, e)'
             /\ faults' = faults
  <2>1. /\ faults' = faults /\ processed' = processed
        /\ pods'[p].mode = pods[p].mode /\ pods'[p].rows = pods[p].rows
        /\ pods'[p].done = pods[p].done /\ pods'[p].at = pods[p].at + 1
        /\ pods[p].at \in Nat
    BY <1>0, <1>4 DEF AddRaised, ReadDonor, WriteDonor, CountProjects, AddMatched, CompleteJob,
       Executes, streamVars, PodState
  <2>2. CurrentRows(p)' = CurrentRows(p)
    BY <2>1 DEF CurrentRows
  <2>3. \A i \in 1 .. pods[p].at : i \in 1 .. pods'[p].at
    BY <2>1
  <2>4. Behind(p, e, statement) => Behind(p, e, statement)'
    BY <2>1, <2>2, <2>3 DEF Behind, Plan
  <2>5. LetGo(p, e) => LetGo(p, e)'
    BY <2>1 DEF LetGo, Holds
  <2> QED
    BY <1>1, <2>1, <2>4, <2>5
<1>5. ASSUME NEW row \in CurrentRows(p), FinishEvent(p, row)
      PROVE  /\ e \in pods'[p].done \/ Behind(p, e, statement)' \/ LetGo(p, e)'
             /\ faults' = faults
  <2>1. /\ pods'[p].rows \subseteq pods[p].rows /\ pods'[p].done = pods[p].done \union {row.event}
        /\ faults' = faults
    BY <1>0, <1>5 DEF FinishEvent, NextRow, PodState
  <2>2. Behind(p, e, statement) => e = row.event
    BY CurrentRowFacts DEF Behind
  <2>3. LetGo(p, e) => LetGo(p, e)'
    BY <1>0, <2>1 DEF LetGo, Holds
  <2> QED
    BY <1>1, <2>1, <2>2, <2>3
<1>6. ASSUME NEW row \in CurrentRows(p), FailsToParse(p, row)
      PROVE  /\ e \in pods'[p].done \/ Behind(p, e, statement)' \/ LetGo(p, e)'
             /\ faults' = faults
  <2>1. /\ pods'[p].rows = pods[p].rows /\ pods'[p].done = pods[p].done
        /\ faults' = faults /\ row.event \in Poison
    BY <1>0, <1>6 DEF FailsToParse, Fails, PodState
  <2>2. ~ Behind(p, e, statement)
    BY <2>1, CurrentRowFacts DEF Behind
  <2>3. LetGo(p, e) => LetGo(p, e)'
    BY <1>0, <2>1 DEF LetGo, Holds
  <2> QED
    BY <1>1, <2>1, <2>2, <2>3
<1>7. ASSUME NEW row \in CurrentRows(p),
             RecordAttempt(p, row) \/ DeadLetter(p, row) \/ MarkUnfiled(p, row)
      PROVE  /\ e \in pods'[p].done \/ Behind(p, e, statement)' \/ LetGo(p, e)'
             /\ faults' = faults
  <2>1. /\ pods' = [pods EXCEPT ![p] = NextRow(p, row)] /\ faults' = faults
        /\ pods[p].mode # "dispatching"
    BY <1>7 DEF RecordAttempt, DeadLetter, MarkUnfiled, MarkDeadLettered, Failed, Unfiled
  <2>2. pods'[p].rows \subseteq pods[p].rows /\ pods'[p].done = pods[p].done
    BY <1>0, <2>1, CurrentRowFacts, NextRowTyped
  <2>3. ~ Behind(p, e, statement)
    BY <2>1 DEF Behind
  <2>4. LetGo(p, e) => LetGo(p, e)'
    BY <1>0, <2>2 DEF LetGo, Holds
  <2> QED
    BY <1>1, <2>1, <2>2, <2>3, <2>4
<1>8. CASE MarkProcessedBatch(p)
  <2>1. /\ pods[p].rows = {} /\ processed' = processed \union pods[p].done /\ faults' = faults
        /\ pods' = [pods EXCEPT ![p] = EndOfBatch(p, pods[p].fetched, Cardinality(pods[p].done))]
    BY <1>8 DEF MarkProcessedBatch, BatchDone
  <2>2. pods'[p].rows = {}
    BY <1>0, <2>1, EndOfBatchTyped
  <2>3. e \in processed'
    BY <1>1, <2>1 DEF Behind, CurrentRows, LetGo
  <2> QED
    BY <2>1, <2>2, <2>3 DEF LetGo, Holds
<1>9. CASE Restart(p)
  <2>1. LetGo(p, e)
    BY <1>1, <1>9 DEF Restart, Behind, BatchFits
  <2>2. pods'[p].rows = {} /\ faults' = faults /\ processed' = processed
    BY <1>0, <1>9, FreshTyped DEF Restart, streamVars
  <2> QED
    BY <2>1, <2>2 DEF LetGo, Holds
<1> QED
  BY <1>3, <1>4, <1>5, <1>6, <1>7, <1>8, <1>9 DEF Works

\* No step lets a bound fall.
LEMMA CeilingStep ==
    ASSUME IndInv, IndInv', \A p \in Pods : BatchFits(p), [Next]_vars, NEW e, NEW statement
    PROVE  Ceiling(e, statement) <= Ceiling(e, statement)'
<1>0. TypeOK /\ TypeOK' /\ Ceiling(e, statement) \in Nat
  BY CeilingTyped DEF IndInv
<1>1. ASSUME NEW p \in Pods, Works(p) PROVE Ceiling(e, statement) <= Ceiling(e, statement)'
  <2>1. Spent(e, statement) \ {p} \subseteq Spent(e, statement)'
    BY <1>0, <1>1, OnePodMoves, OthersStaySpent
  <2>2. p \in Spent(e, statement) => p \in Spent(e, statement)'
    BY <1>1, StaysSpent
  <2>3. faults' = faults
    BY <1>1 DEF Works, FetchBatch, AddRaised, ReadDonor, WriteDonor, CountProjects, AddMatched,
       CompleteJob, FinishEvent, FailsToParse, RecordAttempt, DeadLetter, MarkUnfiled,
       MarkProcessedBatch, Restart
  <2> QED
    BY <1>0, <2>1, <2>2, <2>3, CeilingStays
<1>2. ASSUME NEW p \in Pods, Breaks(p) PROVE Ceiling(e, statement) <= Ceiling(e, statement)'
  <2>1. Spent(e, statement) \ {p} \subseteq Spent(e, statement)'
    BY <1>0, <1>2, OnePodMoves, OthersStaySpent
  <2>2. faults' = faults + 1
    BY <1>2 DEF Breaks, StatementFails, AttemptNotRecorded, NoClient, DeadLetterFails,
       MarkUnfiledFails, MarkFails, Stop, Fault
  <2> QED
    BY <1>0, <2>1, <2>2, CeilingStays
<1>3. CASE UNCHANGED <<pods, processed, faults>>
  <2>1. Ceiling(e, statement)' = Ceiling(e, statement)
    BY <1>3 DEF Ceiling, Spent, Behind, LetGo, Holds, CurrentRows, Plan
  <2> QED
    BY <1>0, <2>1
<1>4. ASSUME NEW f \in Events, Record(f) PROVE UNCHANGED <<pods, processed, faults>>
  BY <1>4 DEF Record
<1>5. UNCHANGED vars => UNCHANGED <<pods, processed, faults>>
  BY DEF vars, streamVars
<1> QED
  BY <1>1, <1>2, <1>3, <1>4, <1>5 DEF Next

\* Batches stay fit: a pod gets rid of a row when it is done with its event.
LEMMA BatchFitsStep ==
    ASSUME IndInv, \A p \in Pods : BatchFits(p), [Next]_vars, NEW q \in Pods
    PROVE  BatchFits(q)'
<1>0. TypeOK /\ pods \in [Pods -> PodState]
  BY DEF IndInv, TypeOK
<1>1. CASE pods'[q] = pods[q]
  BY <1>1 DEF BatchFits
<1>2. ASSUME pods'[q].rows = {}, pods'[q].done = {} PROVE BatchFits(q)'
  BY <1>2 DEF BatchFits
<1>3. ASSUME pods'[q].rows \subseteq pods[q].rows, pods'[q].done = pods[q].done,
             pods'[q].mode \notin {"idle", "down"}
      PROVE  BatchFits(q)'
  BY <1>3 DEF BatchFits
<1>4. CASE FetchBatch(q)
  <2>1. pods[q].done = {}
    BY <1>4 DEF FetchBatch, BatchFits
  <2>2. CASE Unprocessed(pods[q].batchSize) = {}
    <3>1. pods' = [pods EXCEPT ![q] = EndOfBatch(q, 0, 0)]
      BY <1>4, <2>2 DEF FetchBatch
    <3> QED
      BY <1>0, <1>2, <3>1, EndOfBatchTyped
  <2>3. CASE Unprocessed(pods[q].batchSize) # {}
    <3> DEFINE rows == {[event |-> f, attempts |-> attempts[f]] : f \in Unprocessed(pods[q].batchSize)}
               n == Cardinality(Unprocessed(pods[q].batchSize))
    <3>1. pods' = [pods EXCEPT ![q] = [@ EXCEPT !.mode = "dispatching", !.rows = rows, !.fetched = n]]
      BY <1>4, <2>3 DEF FetchBatch
    <3> HIDE DEF rows, n
    <3>2. pods'[q].mode = "dispatching" /\ pods'[q].done = {}
      BY <1>0, <2>1, <3>1 DEF PodState
    <3> QED
      BY <3>2 DEF BatchFits
  <2> QED
    BY <2>2, <2>3
<1>5. CASE MarkProcessedBatch(q) \/ MarkFails(q)
  <2>1. \E total, done : pods' = [pods EXCEPT ![q] = EndOfBatch(q, total, done)]
    BY <1>5 DEF MarkProcessedBatch, MarkFails
  <2> QED
    BY <1>0, <1>2, <2>1, EndOfBatchTyped
<1>6. CASE Stop(q) \/ Restart(q)
  <2>1. pods'[q].rows = {} /\ pods'[q].done = {}
    BY <1>0, <1>6, FreshTyped DEF Stop, Restart
  <2> QED
    BY <1>2, <2>1
<1>7. ASSUME NEW row \in CurrentRows(q),
             \/ AddRaised(q, row) \/ ReadDonor(q, row) \/ WriteDonor(q, row)
             \/ CountProjects(q, row) \/ AddMatched(q, row) \/ CompleteJob(q, row)
      PROVE  BatchFits(q)'
  <2>1. /\ pods'[q].rows = pods[q].rows /\ pods'[q].done = pods[q].done
        /\ pods'[q].mode = "dispatching"
    BY <1>0, <1>7 DEF AddRaised, ReadDonor, WriteDonor, CountProjects, AddMatched, CompleteJob,
       Executes, Unfinished, Dispatches, PodState
  <2> QED
    BY <1>3, <2>1
<1>8. ASSUME NEW row \in CurrentRows(q), FinishEvent(q, row) PROVE BatchFits(q)'
  <2>1. /\ pods'[q].rows = pods[q].rows \ {row} /\ pods'[q].done = pods[q].done \union {row.event}
        /\ pods'[q].mode = "dispatching"
    BY <1>0, <1>8 DEF FinishEvent, NextRow, PodState
  <2>2. \A other \in pods[q].rows \ {row} : other.event # row.event
    BY CurrentRowFacts DEF PodOK
  <2> QED
    BY <2>1, <2>2 DEF BatchFits
<1>9. ASSUME NEW row \in CurrentRows(q),
             FailsToParse(q, row) \/ StatementFails(q, row) \/ DeadLetterFails(q, row)
      PROVE  BatchFits(q)'
  <2>1. /\ pods'[q].rows = pods[q].rows /\ pods'[q].done = pods[q].done
        /\ pods'[q].mode \in {"failed", "unfiled"}
    BY <1>0, <1>9 DEF FailsToParse, StatementFails, DeadLetterFails, Fails, PodState
  <2> QED
    BY <1>3, <2>1
<1>10. ASSUME NEW row \in CurrentRows(q),
              \/ RecordAttempt(q, row) \/ AttemptNotRecorded(q, row) \/ DeadLetter(q, row)
              \/ MarkUnfiled(q, row) \/ MarkUnfiledFails(q, row)
       PROVE  BatchFits(q)'
  <2>1. pods' = [pods EXCEPT ![q] = NextRow(q, row)]
    BY <1>10 DEF RecordAttempt, AttemptNotRecorded, DeadLetter, MarkUnfiled, MarkUnfiledFails,
       MarkDeadLettered
  <2>2. /\ pods'[q].rows \subseteq pods[q].rows /\ pods'[q].done = pods[q].done
        /\ pods'[q].mode = "dispatching"
    BY <1>0, <2>1, CurrentRowFacts, NextRowTyped
  <2> QED
    BY <1>3, <2>2
<1>11. ASSUME NEW row \in CurrentRows(q), NoClient(q, row) PROVE BatchFits(q)'
  <2>1. pods' = [pods EXCEPT ![q] = EndOfBatch(q, 0, 0)]
    BY <1>11 DEF NoClient
  <2> QED
    BY <1>0, <1>2, <2>1, EndOfBatchTyped
<1>12. Works(q) \/ Breaks(q) => BatchFits(q)'
  BY <1>4, <1>5, <1>6, <1>7, <1>8, <1>9, <1>10, <1>11 DEF Works, Breaks
<1>13. ASSUME NEW p \in Pods, p # q, Works(p) \/ Breaks(p) PROVE pods'[q] = pods[q]
  BY <1>0, <1>13, OnePodMoves
<1>14. ASSUME NEW e \in Events, Record(e) PROVE pods'[q] = pods[q]
  BY <1>14 DEF Record
<1>15. UNCHANGED vars => pods'[q] = pods[q]
  BY DEF vars
<1> QED
  BY <1>1, <1>12, <1>13, <1>14, <1>15 DEF Next

\* No projection executes a statement twice for an event.
LEMMA StatementsDiffer ==
    ASSUME NEW e \in Events, NEW i \in DOMAIN Statements[Kind[e]], NEW j \in DOMAIN Statements[Kind[e]],
           Statements[Kind[e]][i] = Statements[Kind[e]][j]
    PROVE  i = j
<1>1. Kind[e] \in {"DonationRecorded", "MatchApplied", "JobReleased", "ProjectStatusChanged"}
  BY PipelineAssumption DEF Statements
<1>2. /\ Statements["DonationRecorded"] = <<"addRaised", "readDonor", "writeDonor", "countProjects">>
      /\ Statements["MatchApplied"] = <<"addRaised", "readDonor", "writeDonor", "countProjects", "addMatched">>
      /\ Statements["JobReleased"] = <<"completeJob">>
      /\ Statements["ProjectStatusChanged"] = <<>>
  BY DEF Statements
<1>3. ASSUME NEW s \in {<<"addRaised", "readDonor", "writeDonor", "countProjects">>,
                        <<"addRaised", "readDonor", "writeDonor", "countProjects", "addMatched">>,
                        <<"completeJob">>},
             NEW k \in DOMAIN s, NEW l \in DOMAIN s, s[k] = s[l]
      PROVE  k = l
  BY <1>3
<1>4. DOMAIN <<>> = {}
  OBVIOUS
<1> QED
  BY <1>1, <1>2, <1>3, <1>4

\* A pod that executes a statement spends its chance, which it had.
LEMMA ExecutionSpends ==
    ASSUME IndInv, NEW p \in Pods, BatchFits(p), NEW row \in CurrentRows(p), NEW statement,
           Executes(p, row, statement), UNCHANGED processed
    PROVE  p \notin Spent(row.event, statement) /\ p \in Spent(row.event, statement)'
<1>0. /\ TypeOK /\ pods \in [Pods -> PodState] /\ pods[p] \in PodState
      /\ row \in pods[p].rows /\ row.event \in Events /\ \A other \in CurrentRows(p) : other = row
  BY CurrentRowFacts
<1>1. /\ pods[p].mode = "dispatching" /\ row.event \notin Poison
      /\ pods[p].at \in Nat /\ pods[p].at < Len(Plan(row))
      /\ Plan(row)[pods[p].at + 1] = statement
  BY <1>0 DEF Executes, Unfinished, Dispatches, PodState
<1>2. /\ pods'[p].mode = "dispatching" /\ pods'[p].rows = pods[p].rows
      /\ pods'[p].at = pods[p].at + 1
  BY <1>0, <1>1 DEF Executes, PodState
<1>3. row.event \notin pods[p].done /\ ~ LetGo(p, row.event)
  BY <1>0 DEF BatchFits, LetGo, Holds
<1>4. ~ Behind(p, row.event, statement)
  <2> SUFFICES ASSUME NEW i \in 1 .. pods[p].at, Plan(row)[i] = statement PROVE FALSE
    BY <1>0 DEF Behind
  <2>1. DOMAIN Plan(row) = 1 .. Len(Plan(row)) /\ Len(Plan(row)) \in Nat
    BY <1>0, PlanTyped DEF Plan
  <2>2. i \in DOMAIN Plan(row) /\ pods[p].at + 1 \in DOMAIN Plan(row) /\ i # pods[p].at + 1
    BY <1>1, <2>1
  <2> QED
    BY <1>0, <1>1, <2>2, StatementsDiffer DEF Plan
<1>5. CurrentRows(p)' = CurrentRows(p)
  BY <1>2 DEF CurrentRows
<1>6. pods[p].at + 1 \in 1 .. pods'[p].at
  BY <1>1, <1>2
<1>7. Behind(p, row.event, statement)'
  BY <1>1, <1>2, <1>5, <1>6 DEF Behind, Plan
<1> QED
  BY <1>3, <1>4, <1>7 DEF Spent

\* A total a pod holds is the one it held, or none, or one that is stored.
LEMMA TotalsAreRead ==
    ASSUME IndInv, [Next]_vars, NEW q \in Pods
    PROVE  \/ pods'[q].total = pods[q].total
           \/ pods'[q].total = None
           \/ \E d \in Donors : pods'[q].total = donorTotal[d]
<1> DEFINE Goal == \/ pods'[q].total = pods[q].total
                   \/ pods'[q].total = None
                   \/ \E d \in Donors : pods'[q].total = donorTotal[d]
<1>0. TypeOK /\ pods \in [Pods -> PodState]
  BY DEF IndInv, TypeOK
<1>1. CASE FetchBatch(q)
  <2>1. CASE Unprocessed(pods[q].batchSize) = {}
    BY <1>0, <1>1, <2>1 DEF FetchBatch, EndOfBatch, Fresh
  <2>2. CASE Unprocessed(pods[q].batchSize) # {}
    <3> DEFINE rows == {[event |-> f, attempts |-> attempts[f]] : f \in Unprocessed(pods[q].batchSize)}
               n == Cardinality(Unprocessed(pods[q].batchSize))
    <3>1. pods' = [pods EXCEPT ![q] = [@ EXCEPT !.mode = "dispatching", !.rows = rows, !.fetched = n]]
      BY <1>1, <2>2 DEF FetchBatch
    <3> HIDE DEF rows, n
    <3> QED
      BY <1>0, <3>1 DEF PodState
  <2> QED
    BY <2>1, <2>2
<1>2. CASE MarkProcessedBatch(q) \/ MarkFails(q) \/ Stop(q) \/ Restart(q)
  BY <1>0, <1>2 DEF MarkProcessedBatch, MarkFails, Stop, Restart, EndOfBatch, Fresh
<1>3. ASSUME NEW row \in CurrentRows(q),
             \/ AddRaised(q, row) \/ WriteDonor(q, row)
             \/ CountProjects(q, row) \/ AddMatched(q, row) \/ CompleteJob(q, row)
             \/ FailsToParse(q, row) \/ StatementFails(q, row) \/ DeadLetterFails(q, row)
      PROVE  Goal
  BY <1>0, <1>3 DEF AddRaised, WriteDonor, CountProjects, AddMatched, CompleteJob, Executes,
     FailsToParse, StatementFails, DeadLetterFails, Fails, PodState
<1>4. ASSUME NEW row \in CurrentRows(q), ReadDonor(q, row) PROVE Goal
  <2>1. pods'[q].total = donorTotal[DonorOf[row.event]]
    BY <1>0, <1>4 DEF ReadDonor, PodState
  <2>2. DonorOf[row.event] \in Donors
    BY CurrentRowFacts DEF Donors
  <2> QED
    BY <2>1, <2>2
<1>5. ASSUME NEW row \in CurrentRows(q),
             \/ FinishEvent(q, row) \/ RecordAttempt(q, row) \/ AttemptNotRecorded(q, row)
             \/ DeadLetter(q, row) \/ MarkUnfiled(q, row) \/ MarkUnfiledFails(q, row)
      PROVE  Goal
  <2>1. NextRow(q, row).total = None
    BY <1>0 DEF NextRow, PodState
  <2>2. \/ pods' = [pods EXCEPT ![q] = NextRow(q, row)]
        \/ pods' = [pods EXCEPT ![q] = [NextRow(q, row) EXCEPT !.done = @ \union {row.event}]]
    BY <1>5 DEF FinishEvent, RecordAttempt, AttemptNotRecorded, DeadLetter, MarkUnfiled,
       MarkUnfiledFails, MarkDeadLettered
  <2>3. NextRow(q, row) \in PodState
    BY <1>0, CurrentRowFacts, NextRowTyped
  <2> HIDE DEF Goal
  <2>4. pods'[q].total = None
    BY <1>0, <2>1, <2>2, <2>3 DEF PodState
  <2> QED
    BY <2>4 DEF Goal
<1>6. ASSUME NEW row \in CurrentRows(q), NoClient(q, row) PROVE Goal
  BY <1>0, <1>6 DEF NoClient, EndOfBatch, Fresh
<1>7. Works(q) \/ Breaks(q) => Goal
  BY <1>1, <1>2, <1>3, <1>4, <1>5, <1>6 DEF Works, Breaks
<1>8. ASSUME NEW p \in Pods, p # q, Works(p) \/ Breaks(p) PROVE pods'[q] = pods[q]
  BY <1>0, <1>8, OnePodMoves
<1>9. ASSUME NEW e \in Events, Record(e) PROVE pods'[q] = pods[q]
  BY <1>9 DEF Record
<1>10. UNCHANGED vars => pods'[q] = pods[q]
  BY DEF vars
<1> QED
  BY <1>7, <1>8, <1>9, <1>10 DEF Next

\* Only three statements add to a count, each of them for the event whose
\* chance its pod spends.
LEMMA CountsGrow ==
    ASSUME IndInv, [Next]_vars
    PROVE  \/ UNCHANGED <<raised, matched, donorTotal>>
           \/ \E p \in Pods : \E row \in CurrentRows(p) :
                \/ AddRaised(p, row) \/ AddMatched(p, row) \/ WriteDonor(p, row)
<1>1. ASSUME NEW p \in Pods, NEW row \in CurrentRows(p),
             \/ ReadDonor(p, row) \/ CountProjects(p, row) \/ CompleteJob(p, row)
             \/ FinishEvent(p, row) \/ FailsToParse(p, row) \/ StatementFails(p, row)
             \/ RecordAttempt(p, row) \/ AttemptNotRecorded(p, row)
             \/ DeadLetter(p, row) \/ DeadLetterFails(p, row)
             \/ MarkUnfiled(p, row) \/ MarkUnfiledFails(p, row) \/ NoClient(p, row)
      PROVE  UNCHANGED <<raised, matched, donorTotal>>
  BY <1>1 DEF ReadDonor, CountProjects, CompleteJob, FinishEvent, FailsToParse, StatementFails,
     Fails, RecordAttempt, AttemptNotRecorded, DeadLetter, DeadLetterFails, MarkUnfiled,
     MarkUnfiledFails, NoClient, readModel
<1>2. ASSUME NEW p \in Pods,
             FetchBatch(p) \/ MarkProcessedBatch(p) \/ MarkFails(p) \/ Stop(p) \/ Restart(p)
      PROVE  UNCHANGED <<raised, matched, donorTotal>>
  BY <1>2 DEF FetchBatch, MarkProcessedBatch, MarkFails, Stop, Restart, readModel
<1>3. ASSUME NEW e \in Events, Record(e) PROVE UNCHANGED <<raised, matched, donorTotal>>
  BY <1>3 DEF Record, readModel
<1>4. UNCHANGED vars => UNCHANGED <<raised, matched, donorTotal>>
  BY DEF vars, readModel
<1> QED
  BY <1>1, <1>2, <1>3, <1>4 DEF Next, Works, Breaks

\* No count exceeds its bound after a step.
LEMMA CountStep == IndInv /\ IndInv' /\ CountInv /\ [Next]_vars => CountInv'
<1> SUFFICES ASSUME IndInv, IndInv', CountInv, [Next]_vars PROVE CountInv'
  OBVIOUS
<1>0. TypeOK /\ TypeOK' /\ \A p \in Pods : BatchFits(p)
  BY DEF IndInv, CountInv
<1>1. \A p \in Pods : BatchFits(p)'
  BY <1>0, BatchFitsStep
<1>2. ASSUME NEW e \in Events PROVE CountsFit(e)'
  <2>1. /\ Ceiling(e, "addRaised") \in Nat /\ Ceiling(e, "addRaised")' \in Nat
        /\ Ceiling(e, "addMatched") \in Nat /\ Ceiling(e, "addMatched")' \in Nat
        /\ Ceiling(e, "writeDonor") \in Nat /\ Ceiling(e, "writeDonor")' \in Nat
    BY <1>0, CeilingTyped, NextCeilingTyped
  <2>2. /\ Ceiling(e, "addRaised") <= Ceiling(e, "addRaised")'
        /\ Ceiling(e, "addMatched") <= Ceiling(e, "addMatched")'
        /\ Ceiling(e, "writeDonor") <= Ceiling(e, "writeDonor")'
    BY <1>0, CeilingStep
  <2>3. /\ raised[e] \in Nat /\ matched[e] \in Nat /\ raised'[e] \in Nat /\ matched'[e] \in Nat
        /\ \A d \in Donors : donorTotal[d][e] \in Nat /\ donorTotal'[d][e] \in Nat
        /\ \A p \in Pods : pods[p].total[e] \in Nat /\ pods'[p].total[e] \in Nat
    BY <1>0 DEF TypeOK, PodState
  <2>4. CountsFit(e)
    BY DEF CountInv
  <2>5. ASSUME NEW p \in Pods, NEW row \in CurrentRows(p), row.event = e, NEW statement,
               Executes(p, row, statement), UNCHANGED <<processed, faults>>
        PROVE  Ceiling(e, statement) + 1 <= Ceiling(e, statement)'
    <3>1. p \notin Spent(e, statement) /\ p \in Spent(e, statement)'
      BY <1>0, <2>5, ExecutionSpends
    <3>2. pods \in [Pods -> PodState]
      BY <1>0 DEF TypeOK
    <3>3. \A q \in Pods \ {p} : pods'[q] = pods[q]
      BY <2>5, <3>2 DEF Executes
    <3>4. Spent(e, statement) \ {p} \subseteq Spent(e, statement)'
      BY <2>5, <3>3, OthersStaySpent
    <3> QED
      BY <1>0, <2>5, <3>1, <3>4, CeilingRises
  <2>6. ASSUME NEW q \in Pods PROVE pods'[q].total[e] <= Ceiling(e, "writeDonor")'
    <3>1. CASE pods'[q].total = pods[q].total
      BY <2>1, <2>2, <2>3, <2>4, <3>1 DEF CountsFit
    <3>2. CASE pods'[q].total = None
      BY <2>1, <3>2 DEF None
    <3>3. ASSUME NEW d \in Donors, pods'[q].total = donorTotal[d]
          PROVE  pods'[q].total[e] <= Ceiling(e, "writeDonor")'
      BY <2>1, <2>2, <2>3, <2>4, <3>3 DEF CountsFit
    <3> QED
      BY <3>1, <3>2, <3>3, TotalsAreRead
  <2>7. CASE UNCHANGED <<raised, matched, donorTotal>>
    BY <2>1, <2>2, <2>3, <2>4, <2>6, <2>7 DEF CountsFit
  <2>8. ASSUME NEW p \in Pods, NEW row \in CurrentRows(p), AddRaised(p, row)
        PROVE  CountsFit(e)'
    <3>1. /\ Executes(p, row, "addRaised") /\ UNCHANGED <<processed, faults, matched, donorTotal>>
          /\ raised' = [raised EXCEPT ![row.event] = @ + 1]
      BY <2>8 DEF AddRaised, streamVars
    <3>2. raised'[e] <= Ceiling(e, "addRaised")'
      <4>1. CASE row.event = e
        <5>1. raised'[e] = raised[e] + 1
          BY <1>0, <3>1, <4>1 DEF TypeOK
        <5>2. Ceiling(e, "addRaised") + 1 <= Ceiling(e, "addRaised")'
          BY <2>5, <3>1, <4>1
        <5>3. raised[e] <= Ceiling(e, "addRaised")
          BY <2>4 DEF CountsFit
        <5> QED
          BY <2>1, <2>3, <5>1, <5>2, <5>3
      <4>2. CASE row.event # e
        <5>1. raised'[e] = raised[e]
          BY <1>0, <3>1, <4>2 DEF TypeOK
        <5> QED
          BY <2>1, <2>2, <2>3, <2>4, <5>1 DEF CountsFit
      <4> QED
        BY <4>1, <4>2
    <3> QED
      BY <2>1, <2>2, <2>3, <2>4, <2>6, <3>1, <3>2 DEF CountsFit
  <2>9. ASSUME NEW p \in Pods, NEW row \in CurrentRows(p), AddMatched(p, row)
        PROVE  CountsFit(e)'
    <3>1. /\ Executes(p, row, "addMatched") /\ UNCHANGED <<processed, faults, raised, donorTotal>>
          /\ matched' = [matched EXCEPT ![row.event] = @ + 1]
      BY <2>9 DEF AddMatched, streamVars
    <3>2. matched'[e] <= Ceiling(e, "addMatched")'
      <4>1. CASE row.event = e
        <5>1. matched'[e] = matched[e] + 1
          BY <1>0, <3>1, <4>1 DEF TypeOK
        <5>2. Ceiling(e, "addMatched") + 1 <= Ceiling(e, "addMatched")'
          BY <2>5, <3>1, <4>1
        <5>3. matched[e] <= Ceiling(e, "addMatched")
          BY <2>4 DEF CountsFit
        <5> QED
          BY <2>1, <2>3, <5>1, <5>2, <5>3
      <4>2. CASE row.event # e
        <5>1. matched'[e] = matched[e]
          BY <1>0, <3>1, <4>2 DEF TypeOK
        <5> QED
          BY <2>1, <2>2, <2>3, <2>4, <5>1 DEF CountsFit
      <4> QED
        BY <4>1, <4>2
    <3> QED
      BY <2>1, <2>2, <2>3, <2>4, <2>6, <3>1, <3>2 DEF CountsFit
  <2>10. ASSUME NEW p \in Pods, NEW row \in CurrentRows(p), WriteDonor(p, row)
         PROVE  CountsFit(e)'
    <3> DEFINE delta == IF Kind[row.event] = "DonationRecorded" THEN 1 ELSE 0
               own == DonorOf[row.event]
    <3>1. /\ Executes(p, row, "writeDonor") /\ UNCHANGED <<processed, faults, raised, matched>>
          /\ donorTotal' = [donorTotal EXCEPT ![own] = [pods[p].total EXCEPT ![row.event] = @ + delta]]
      BY <2>10 DEF WriteDonor, streamVars
    <3>2. delta \in {0, 1}
      OBVIOUS
    <3>3. own \in Donors /\ pods[p].total \in [Events -> Nat] /\ row.event \in Events
      BY <1>0, CurrentRowFacts DEF Donors, TypeOK, PodState
    <3> HIDE DEF delta, own
    <3>4. pods[p].total[e] <= Ceiling(e, "writeDonor")
      BY <2>4 DEF CountsFit
    <3>5. donorTotal'[own] = [pods[p].total EXCEPT ![row.event] = @ + delta]
      BY <1>0, <3>1, <3>3 DEF TypeOK
    <3>6. donorTotal'[own][e] <= Ceiling(e, "writeDonor")'
      <4>1. CASE row.event = e
        <5>1. donorTotal'[own][e] = pods[p].total[e] + delta
          BY <3>3, <3>5, <4>1
        <5>2. Ceiling(e, "writeDonor") + 1 <= Ceiling(e, "writeDonor")'
          BY <2>5, <3>1, <4>1
        <5> QED
          BY <2>1, <2>3, <3>2, <3>4, <5>1, <5>2
      <4>2. CASE row.event # e
        <5>1. donorTotal'[own][e] = pods[p].total[e]
          BY <3>3, <3>5, <4>2
        <5> QED
          BY <2>1, <2>2, <2>3, <3>4, <5>1
      <4> QED
        BY <4>1, <4>2
    <3>7. ASSUME NEW d \in Donors PROVE donorTotal'[d][e] <= Ceiling(e, "writeDonor")'
      <4>1. CASE d = own
        BY <3>6, <4>1
      <4>2. CASE d # own
        <5>1. donorTotal'[d] = donorTotal[d]
          BY <1>0, <3>1, <4>2 DEF TypeOK
        <5> QED
          BY <2>1, <2>2, <2>3, <2>4, <5>1 DEF CountsFit
      <4> QED
        BY <4>1, <4>2
    <3> QED
      BY <2>1, <2>2, <2>3, <2>4, <2>6, <3>1, <3>7 DEF CountsFit
  <2> QED
    BY <2>7, <2>8, <2>9, <2>10, CountsGrow
<1> QED
  BY <1>1, <1>2 DEF CountInv

\* What every count is bounded by, in every reachable state.
THEOREM CountInvariantHolds == Spec => []CountInv
<1>1. Init => CountInv
  <2> SUFFICES ASSUME Init PROVE CountInv
    OBVIOUS
  <2>1. TypeOK
    BY InitInv DEF IndInv
  <2>2. \A p \in Pods : BatchFits(p) /\ pods[p].total = None
    BY FreshTyped DEF Init, BatchFits, Fresh
  <2>3. ASSUME NEW e \in Events PROVE CountsFit(e)
    <3>1. /\ Ceiling(e, "addRaised") \in Nat /\ Ceiling(e, "addMatched") \in Nat
          /\ Ceiling(e, "writeDonor") \in Nat
      BY <2>1, CeilingTyped
    <3>2. /\ raised[e] = 0 /\ matched[e] = 0
          /\ \A d \in Donors : donorTotal[d][e] = 0
          /\ \A p \in Pods : pods[p].total[e] = 0
      BY <2>2 DEF Init, None
    <3> QED
      BY <3>1, <3>2 DEF CountsFit
  <2> QED
    BY <2>2, <2>3 DEF CountInv
<1> QED
  BY <1>1, CountStep, InvariantHolds, PTL DEF Spec

\* However pods and faults interleave, an event is in a total at most once for
\* every fault and once for every pod.
THEOREM OvercountsAreBounded == Spec => []OvercountBounded
<1>1. IndInv /\ CountInv => OvercountBounded
  <2> SUFFICES ASSUME IndInv, CountInv, NEW e \in Events
               PROVE  /\ raised[e] <= faults + Cardinality(Pods)
                      /\ matched[e] <= faults + Cardinality(Pods)
                      /\ donorTotal[DonorOf[e]][e] <= faults + Cardinality(Pods)
    BY DEF OvercountBounded
  <2>1. TypeOK /\ CountsFit(e) /\ DonorOf[e] \in Donors
    BY DEF IndInv, CountInv, Donors
  <2>2. ASSUME NEW statement, NEW n \in Nat, n <= Ceiling(e, statement)
        PROVE  n <= faults + Cardinality(Pods)
    <3> DEFINE S == Spent(e, statement)
    <3>1. S \subseteq Pods
      BY DEF Spent
    <3> HIDE DEF S
    <3>2. Cardinality(S) <= Cardinality(Pods) /\ IsFiniteSet(S)
      BY <3>1, PipelineAssumption, FS_Subset
    <3>3. Cardinality(S) \in Nat /\ Cardinality(Pods) \in Nat /\ faults \in Nat
      BY <2>1, <3>2, FS_CardinalityType, PipelineAssumption DEF TypeOK
    <3>4. n <= faults + Cardinality(S)
      BY <2>2 DEF Ceiling, S
    <3> QED
      BY <3>2, <3>3, <3>4
  <2>3. raised[e] \in Nat /\ matched[e] \in Nat /\ donorTotal[DonorOf[e]][e] \in Nat
    BY <2>1 DEF TypeOK
  <2>4. raised[e] <= faults + Cardinality(Pods)
    BY <2>1, <2>2, <2>3 DEF CountsFit
  <2>5. matched[e] <= faults + Cardinality(Pods)
    BY <2>1, <2>2, <2>3 DEF CountsFit
  <2>6. donorTotal[DonorOf[e]][e] <= faults + Cardinality(Pods)
    BY <2>1, <2>2, <2>3 DEF CountsFit
  <2> QED
    BY <2>4, <2>5, <2>6
<1> QED
  BY <1>1, CountInvariantHolds, InvariantHolds, PTL

-----------------------------------------------------------------------------
(***************************************************************************)
(* What is given up.  A pod files an event at most once, because it lets   *)
(* go of it then and never takes it up again.  An event given up without a *)
(* row in event_dead_letter, or about to be, is accounted for by the fault *)
(* that rolled back the transaction.                                       *)
(***************************************************************************)
Parted(e) == {p \in Pods : LetGo(p, e)}

NotFiled == {e \in deadLettered : filed[e] = 0}

GivingUp == {p \in Pods : pods[p].mode = "unfiled"}

FilingInv ==
    /\ \A e \in Events : filed[e] <= Cardinality(Parted(e))
    /\ Cardinality(NotFiled) + Cardinality(GivingUp) <= faults

\* These sets are finite, so that their sizes are numbers.
LEMMA FilingTyped ==
    ASSUME TypeOK
    PROVE  /\ IsFiniteSet(NotFiled) /\ Cardinality(NotFiled) \in Nat
           /\ IsFiniteSet(GivingUp) /\ Cardinality(GivingUp) \in Nat
           /\ \A e \in Events : IsFiniteSet(Parted(e)) /\ Cardinality(Parted(e)) \in Nat
<1>1. NotFiled \subseteq Events
  BY DEF NotFiled, TypeOK
<1>2. GivingUp \subseteq Pods /\ \A e \in Events : Parted(e) \subseteq Pods
  BY DEF GivingUp, Parted
<1>3. IsFiniteSet(NotFiled) /\ IsFiniteSet(GivingUp) /\ \A e \in Events : IsFiniteSet(Parted(e))
  BY <1>1, <1>2, PipelineAssumption, FS_Subset
<1> QED
  BY <1>3, FS_CardinalityType

\* A batch only loses rows, but for one that is fetched, of pending events.
LEMMA RowsShrink ==
    ASSUME IndInv, [Next]_vars, NEW q \in Pods
    PROVE  \/ pods'[q].rows \subseteq pods[q].rows
           \/ processed' = processed /\ \A row \in pods'[q].rows : row.event \notin processed
<1> DEFINE Goal == \/ pods'[q].rows \subseteq pods[q].rows
                   \/ processed' = processed /\ \A row \in pods'[q].rows : row.event \notin processed
<1>0. TypeOK /\ pods \in [Pods -> PodState]
  BY DEF IndInv, TypeOK
<1>1. CASE FetchBatch(q)
  <2>1. CASE Unprocessed(pods[q].batchSize) = {}
    BY <1>0, <1>1, <2>1 DEF FetchBatch, EndOfBatch, Fresh
  <2>2. CASE Unprocessed(pods[q].batchSize) # {}
    <3> DEFINE batch == Unprocessed(pods[q].batchSize)
               rows == {[event |-> f, attempts |-> attempts[f]] : f \in batch}
               n == Cardinality(batch)
    <3>1. /\ pods' = [pods EXCEPT ![q] = [@ EXCEPT !.mode = "dispatching", !.rows = rows, !.fetched = n]]
          /\ processed' = processed
      BY <1>1, <2>2 DEF FetchBatch, streamVars
    <3>2. batch \cap processed = {}
      BY DEF Unprocessed, Pending
    <3> HIDE DEF batch
    <3>3. \A row \in rows : row.event \notin processed
      BY <3>2
    <3> HIDE DEF rows, n
    <3>4. pods'[q].rows = rows
      BY <1>0, <3>1 DEF PodState
    <3> QED
      BY <3>1, <3>3, <3>4
  <2> QED
    BY <2>1, <2>2
<1>2. CASE MarkProcessedBatch(q) \/ MarkFails(q) \/ Stop(q) \/ Restart(q)
  BY <1>0, <1>2 DEF MarkProcessedBatch, MarkFails, Stop, Restart, EndOfBatch, Fresh
<1>3. ASSUME NEW row \in CurrentRows(q),
             \/ AddRaised(q, row) \/ ReadDonor(q, row) \/ WriteDonor(q, row)
             \/ CountProjects(q, row) \/ AddMatched(q, row) \/ CompleteJob(q, row)
             \/ FailsToParse(q, row) \/ StatementFails(q, row) \/ DeadLetterFails(q, row)
      PROVE  Goal
  BY <1>0, <1>3 DEF AddRaised, ReadDonor, WriteDonor, CountProjects, AddMatched, CompleteJob,
     Executes, FailsToParse, StatementFails, DeadLetterFails, Fails, PodState
<1>4. ASSUME NEW row \in CurrentRows(q),
             \/ RecordAttempt(q, row) \/ AttemptNotRecorded(q, row)
             \/ DeadLetter(q, row) \/ MarkUnfiled(q, row) \/ MarkUnfiledFails(q, row)
      PROVE  Goal
  <2>1. pods' = [pods EXCEPT ![q] = NextRow(q, row)]
    BY <1>4 DEF RecordAttempt, AttemptNotRecorded, DeadLetter, MarkUnfiled, MarkUnfiledFails,
       MarkDeadLettered
  <2>2. pods'[q].rows \subseteq pods[q].rows
    BY <1>0, <2>1, CurrentRowFacts, NextRowTyped
  <2> QED
    BY <2>2
<1>5. ASSUME NEW row \in CurrentRows(q), FinishEvent(q, row) PROVE Goal
  BY <1>0, <1>5 DEF FinishEvent, NextRow, PodState
<1>6. ASSUME NEW row \in CurrentRows(q), NoClient(q, row) PROVE Goal
  BY <1>0, <1>6 DEF NoClient, EndOfBatch, Fresh
<1>7. Works(q) \/ Breaks(q) => Goal
  BY <1>1, <1>2, <1>3, <1>4, <1>5, <1>6 DEF Works, Breaks
<1>8. ASSUME NEW p \in Pods, p # q, Works(p) \/ Breaks(p) PROVE pods'[q] = pods[q]
  BY <1>0, <1>8, OnePodMoves
<1>9. ASSUME NEW e \in Events, Record(e) PROVE pods'[q] = pods[q]
  BY <1>9 DEF Record
<1>10. UNCHANGED vars => pods'[q] = pods[q]
  BY DEF vars
<1> QED
  BY <1>7, <1>8, <1>9, <1>10 DEF Next

\* What is processed stays processed.
LEMMA ProcessedGrows == ASSUME IndInv, [Next]_vars PROVE processed \subseteq processed'
<1>1. ASSUME NEW p \in Pods, Works(p) \/ Breaks(p) PROVE processed \subseteq processed'
  BY <1>1, OnePodMoves DEF IndInv
<1>2. ASSUME NEW e \in Events, Record(e) PROVE processed \subseteq processed'
  BY <1>2 DEF Record
<1>3. UNCHANGED vars => processed \subseteq processed'
  BY DEF vars, streamVars
<1> QED
  BY <1>1, <1>2, <1>3 DEF Next

\* A pod that has parted with an event never takes it up again.
LEMMA PartedForGood ==
    ASSUME IndInv, [Next]_vars, NEW e \in Events
    PROVE  Parted(e) \subseteq Parted(e)'
<1> SUFFICES ASSUME NEW q \in Pods, LetGo(q, e) PROVE LetGo(q, e)'
  BY DEF Parted
<1>1. processed \subseteq processed'
  BY ProcessedGrows
<1>2. \/ pods'[q].rows \subseteq pods[q].rows
      \/ \A row \in pods'[q].rows : row.event \notin processed
  BY RowsShrink
<1> QED
  BY <1>1, <1>2 DEF LetGo, Holds

\* Only the transaction that files an event adds to its rows, and its pod parts
\* with the event.
LEMMA FiledOnce ==
    ASSUME IndInv, IndInv', FilingInv, [Next]_vars, NEW e \in Events
    PROVE  filed'[e] <= Cardinality(Parted(e)')
<1>0. TypeOK /\ TypeOK'
  BY DEF IndInv
<1>1. filed[e] \in Nat /\ filed[e] <= Cardinality(Parted(e)) /\ Parted(e) \subseteq Parted(e)'
  BY <1>0, PartedForGood DEF FilingInv, TypeOK
<1> DEFINE S == Parted(e)
           T == Parted(e)'
<1>2. IsFiniteSet(S) /\ IsFiniteSet(T) /\ Cardinality(S) \in Nat /\ Cardinality(T) \in Nat
  <2>1. S \subseteq Pods /\ T \subseteq Pods
    BY DEF Parted
  <2> HIDE DEF S, T
  <2> QED
    BY <2>1, PipelineAssumption, FS_Subset, FS_CardinalityType
<1>3. filed[e] <= Cardinality(S) /\ S \subseteq T
  BY <1>1
<1>4. SUFFICES filed'[e] <= Cardinality(T)
  OBVIOUS
<1> HIDE DEF S, T
<1>5. Cardinality(S) <= Cardinality(T)
  BY <1>2, <1>3, FS_Subset
<1>6. CASE filed'[e] = filed[e]
  BY <1>1, <1>2, <1>3, <1>5, <1>6
<1>7. ASSUME NEW p \in Pods, NEW row \in CurrentRows(p), DeadLetter(p, row), row.event = e
      PROVE  filed'[e] <= Cardinality(T)
  <2>1. /\ filed' = [filed EXCEPT ![e] = @ + 1] /\ processed' = processed \union {e}
        /\ pods' = [pods EXCEPT ![p] = NextRow(p, row)]
    BY <1>7 DEF DeadLetter, MarkDeadLettered
  <2>2. filed'[e] = filed[e] + 1
    BY <1>0, <2>1 DEF TypeOK
  <2>3. /\ row \in pods[p].rows
        /\ \A other \in pods[p].rows : other.event = row.event => other = row
        /\ pods \in [Pods -> PodState]
    BY CurrentRowFacts DEF PodOK
  <2>4. pods'[p].rows = pods[p].rows \ {row}
    BY <1>0, <2>1, <2>3, NextRowTyped
  <2>5. p \notin S
    BY <1>7, <2>3 DEF S, Parted, LetGo, Holds
  <2>6. p \in T
    BY <1>7, <2>1, <2>3, <2>4 DEF T, Parted, LetGo, Holds
  <2>7. S \union {p} \subseteq T
    BY <1>3, <2>6
  <2>8. IsFiniteSet(S \union {p}) /\ Cardinality(S \union {p}) = Cardinality(S) + 1
    BY <1>2, <2>5, FS_AddElement
  <2>9. Cardinality(S \union {p}) <= Cardinality(T)
    BY <1>2, <2>7, FS_Subset
  <2> QED
    BY <1>1, <1>2, <1>3, <2>2, <2>8, <2>9
<1>8. \/ filed'[e] = filed[e]
      \/ \E p \in Pods : \E row \in CurrentRows(p) : DeadLetter(p, row) /\ row.event = e
  <2>1. ASSUME NEW p \in Pods, NEW row \in CurrentRows(p), DeadLetter(p, row), row.event # e
        PROVE  filed'[e] = filed[e]
    BY <1>0, <2>1 DEF DeadLetter, TypeOK
  <2>2. ASSUME NEW p \in Pods, NEW row \in CurrentRows(p),
               \/ AddRaised(p, row) \/ ReadDonor(p, row) \/ WriteDonor(p, row)
               \/ CountProjects(p, row) \/ AddMatched(p, row) \/ CompleteJob(p, row)
               \/ FinishEvent(p, row) \/ FailsToParse(p, row) \/ StatementFails(p, row)
               \/ RecordAttempt(p, row) \/ AttemptNotRecorded(p, row) \/ DeadLetterFails(p, row)
               \/ MarkUnfiled(p, row) \/ MarkUnfiledFails(p, row) \/ NoClient(p, row)
        PROVE  filed' = filed
    BY <2>2 DEF AddRaised, ReadDonor, WriteDonor, CountProjects, AddMatched, CompleteJob,
       FinishEvent, FailsToParse, StatementFails, Fails, RecordAttempt, AttemptNotRecorded,
       DeadLetterFails, MarkUnfiled, MarkUnfiledFails, NoClient, streamVars
  <2>3. ASSUME NEW p \in Pods,
               FetchBatch(p) \/ MarkProcessedBatch(p) \/ MarkFails(p) \/ Stop(p) \/ Restart(p)
        PROVE  filed' = filed
    BY <2>3 DEF FetchBatch, MarkProcessedBatch, MarkFails, Stop, Restart, streamVars
  <2>4. ASSUME NEW f \in Events, Record(f) PROVE filed' = filed
    BY <2>4 DEF Record
  <2>5. UNCHANGED vars => filed' = filed
    BY DEF vars, streamVars
  <2> QED
    BY <2>1, <2>2, <2>3, <2>4, <2>5 DEF Next, Works, Breaks
<1> QED
  BY <1>6, <1>7, <1>8

\* A pod comes to give up an event unfiled by a fault, and the fallback of the
\* code then marks the event; no other step adds to either set.
LEMMA UnfiledSteps ==
    ASSUME IndInv, IndInv', [Next]_vars
    PROVE  \/ NotFiled' \subseteq NotFiled /\ GivingUp' \subseteq GivingUp /\ faults <= faults'
           \/ \E p \in Pods : /\ NotFiled' \subseteq NotFiled /\ GivingUp' \subseteq GivingUp \union {p}
                              /\ faults' = faults + 1
           \/ \E p \in Pods, e \in Events :
                /\ NotFiled' \subseteq NotFiled \union {e}
                /\ p \in GivingUp /\ GivingUp' \subseteq GivingUp \ {p}
                /\ faults' = faults
<1> DEFINE Less == NotFiled' \subseteq NotFiled /\ GivingUp' \subseteq GivingUp /\ faults <= faults'
<1>0. /\ TypeOK /\ TypeOK' /\ pods \in [Pods -> PodState] /\ faults \in Int /\ faults' \in Int
  BY PipelineAssumption DEF IndInv, TypeOK
<1>1. ASSUME UNCHANGED <<deadLettered, filed>> PROVE NotFiled' = NotFiled
  BY <1>1 DEF NotFiled
<1>2. ASSUME NEW p \in Pods, \A q \in Pods \ {p} : pods'[q] = pods[q],
             pods'[p].mode # "unfiled"
      PROVE  GivingUp' \subseteq GivingUp \ {p}
  BY <1>2 DEF GivingUp
<1>3. ASSUME NEW p \in Pods, NEW row \in CurrentRows(p), DeadLetterFails(p, row)
      PROVE  /\ NotFiled' \subseteq NotFiled /\ GivingUp' \subseteq GivingUp \union {p}
             /\ faults' = faults + 1
  <2>1. UNCHANGED <<deadLettered, filed>> /\ faults' = faults + 1
        /\ pods' = [pods EXCEPT ![p].mode = "unfiled"]
    BY <1>3 DEF DeadLetterFails, Fault, streamVars
  <2>2. \A q \in Pods \ {p} : pods'[q] = pods[q]
    BY <1>0, <2>1
  <2> QED
    BY <1>1, <2>1, <2>2 DEF GivingUp
<1>4. ASSUME NEW p \in Pods, NEW row \in CurrentRows(p), MarkUnfiled(p, row)
      PROVE  /\ NotFiled' \subseteq NotFiled \union {row.event} /\ row.event \in Events
             /\ p \in GivingUp /\ GivingUp' \subseteq GivingUp \ {p}
             /\ faults' = faults
  <2>1. /\ deadLettered' = deadLettered \union {row.event} /\ filed' = filed /\ faults' = faults
        /\ pods' = [pods EXCEPT ![p] = NextRow(p, row)] /\ pods[p].mode = "unfiled"
    BY <1>4 DEF MarkUnfiled, MarkDeadLettered, Unfiled
  <2>2. row \in pods[p].rows /\ row.event \in Events
    BY CurrentRowFacts
  <2>3. /\ \A q \in Pods \ {p} : pods'[q] = pods[q]
        /\ pods'[p].mode = "dispatching"
    BY <1>0, <2>1, <2>2, NextRowTyped
  <2> QED
    BY <1>2, <2>1, <2>2, <2>3 DEF NotFiled, GivingUp
<1>5. ASSUME NEW p \in Pods, NEW row \in CurrentRows(p), DeadLetter(p, row) PROVE Less
  <2>1. /\ deadLettered' = deadLettered \union {row.event} /\ faults' = faults
        /\ filed' = [filed EXCEPT ![row.event] = @ + 1]
        /\ pods' = [pods EXCEPT ![p] = NextRow(p, row)]
    BY <1>5 DEF DeadLetter, MarkDeadLettered
  <2>2. row \in pods[p].rows /\ row.event \in Events
    BY CurrentRowFacts
  <2>3. /\ \A q \in Pods \ {p} : pods'[q] = pods[q]
        /\ pods'[p].mode = "dispatching"
    BY <1>0, <2>1, <2>2, NextRowTyped
  <2>4. filed'[row.event] # 0 /\ \A f \in Events \ {row.event} : filed'[f] = filed[f]
    BY <1>0, <2>1, <2>2 DEF TypeOK
  <2>5. deadLettered' \subseteq Events
    BY <1>0 DEF TypeOK
  <2>6. NotFiled' \subseteq NotFiled
    BY <2>1, <2>4, <2>5 DEF NotFiled
  <2> QED
    BY <1>0, <1>2, <2>1, <2>3, <2>6
<1>6. ASSUME NEW p \in Pods, NEW row \in CurrentRows(p),
             \/ AddRaised(p, row) \/ ReadDonor(p, row) \/ WriteDonor(p, row)
             \/ CountProjects(p, row) \/ AddMatched(p, row) \/ CompleteJob(p, row)
      PROVE  Less
  <2>1. /\ UNCHANGED <<deadLettered, filed>> /\ faults' = faults
        /\ pods'[p].mode = "dispatching" /\ \A q \in Pods \ {p} : pods'[q] = pods[q]
    BY <1>0, <1>6 DEF AddRaised, ReadDonor, WriteDonor, CountProjects, AddMatched, CompleteJob,
       Executes, Unfinished, Dispatches, streamVars, PodState
  <2> QED
    BY <1>0, <1>1, <1>2, <2>1
<1>7. ASSUME NEW p \in Pods, NEW row \in CurrentRows(p),
             FinishEvent(p, row) \/ FailsToParse(p, row) \/ StatementFails(p, row)
      PROVE  Less
  <2>1. /\ UNCHANGED <<deadLettered, filed>> /\ faults' \in {faults, faults + 1}
        /\ pods'[p].mode \in {"dispatching", "failed"} /\ \A q \in Pods \ {p} : pods'[q] = pods[q]
    <3>1. CASE FinishEvent(p, row)
      BY <1>0, <3>1 DEF FinishEvent, NextRow, streamVars, PodState
    <3>2. CASE FailsToParse(p, row) \/ StatementFails(p, row)
      <4>1. pods' = [pods EXCEPT ![p].mode = "failed"] /\ UNCHANGED <<deadLettered, filed>>
        BY <3>2 DEF FailsToParse, StatementFails, Fails, streamVars
      <4>2. faults' \in {faults, faults + 1}
        BY <3>2 DEF FailsToParse, StatementFails, Fault
      <4> QED
        BY <1>0, <4>1, <4>2 DEF PodState
    <3> QED
      BY <1>7, <3>1, <3>2
  <2> QED
    BY <1>0, <1>1, <1>2, <2>1
<1>8. ASSUME NEW p \in Pods, NEW row \in CurrentRows(p),
             RecordAttempt(p, row) \/ AttemptNotRecorded(p, row) \/ MarkUnfiledFails(p, row)
      PROVE  Less
  <2>1. /\ UNCHANGED <<deadLettered, filed>> /\ faults' \in {faults, faults + 1}
        /\ pods' = [pods EXCEPT ![p] = NextRow(p, row)]
    BY <1>8 DEF RecordAttempt, AttemptNotRecorded, MarkUnfiledFails, Fault, streamVars
  <2>2. /\ \A q \in Pods \ {p} : pods'[q] = pods[q]
        /\ pods'[p].mode = "dispatching"
    BY <1>0, <2>1, CurrentRowFacts, NextRowTyped
  <2> QED
    BY <1>0, <1>1, <1>2, <2>1, <2>2
<1>9. ASSUME NEW p \in Pods,
             \/ \E row \in CurrentRows(p) : NoClient(p, row)
             \/ MarkProcessedBatch(p) \/ MarkFails(p)
      PROVE  Less
  <2>1. /\ UNCHANGED <<deadLettered, filed>> /\ faults' \in {faults, faults + 1}
        /\ \E total, done : pods' = [pods EXCEPT ![p] = EndOfBatch(p, total, done)]
    BY <1>9 DEF NoClient, MarkProcessedBatch, MarkFails, Fault, streamVars
  <2>2. /\ \A q \in Pods \ {p} : pods'[q] = pods[q]
        /\ pods'[p].mode = "idle"
    BY <1>0, <2>1, EndOfBatchTyped
  <2> QED
    BY <1>0, <1>1, <1>2, <2>1, <2>2
<1>10. ASSUME NEW p \in Pods, Stop(p) \/ Restart(p) PROVE Less
  <2>1. /\ UNCHANGED <<deadLettered, filed>> /\ faults' \in {faults, faults + 1}
        /\ pods'[p].mode \in {"idle", "down"} /\ \A q \in Pods \ {p} : pods'[q] = pods[q]
    BY <1>0, <1>10, FreshTyped DEF Stop, Restart, Fault, streamVars
  <2> QED
    BY <1>0, <1>1, <1>2, <2>1
<1>11. ASSUME NEW p \in Pods, FetchBatch(p) PROVE Less
  <2>1. UNCHANGED <<deadLettered, filed>> /\ faults' = faults
    BY <1>11 DEF FetchBatch, streamVars
  <2>2. /\ \A q \in Pods \ {p} : pods'[q] = pods[q]
        /\ pods'[p].mode # "unfiled"
    <3>1. CASE Unprocessed(pods[p].batchSize) = {}
      BY <1>0, <1>11, <3>1, EndOfBatchTyped DEF FetchBatch
    <3>2. CASE Unprocessed(pods[p].batchSize) # {}
      <4> DEFINE rows == {[event |-> f, attempts |-> attempts[f]] : f \in Unprocessed(pods[p].batchSize)}
                 n == Cardinality(Unprocessed(pods[p].batchSize))
      <4>1. pods' = [pods EXCEPT ![p] = [@ EXCEPT !.mode = "dispatching", !.rows = rows, !.fetched = n]]
        BY <1>11, <3>2 DEF FetchBatch
      <4> HIDE DEF rows, n
      <4> QED
        BY <1>0, <4>1 DEF PodState
    <3> QED
      BY <3>1, <3>2
  <2> QED
    BY <1>0, <1>1, <1>2, <2>1, <2>2
<1>12. CASE UNCHANGED <<pods, deadLettered, filed, faults>>
  <2>1. NotFiled' = NotFiled /\ GivingUp' = GivingUp
    BY <1>12 DEF NotFiled, GivingUp
  <2> QED
    BY <1>0, <1>12, <2>1
<1>13. ASSUME NEW f \in Events, Record(f) PROVE UNCHANGED <<pods, deadLettered, filed, faults>>
  BY <1>13 DEF Record
<1>14. UNCHANGED vars => UNCHANGED <<pods, deadLettered, filed, faults>>
  BY DEF vars, streamVars
<1> HIDE DEF Less
<1>15. ASSUME NEW p \in Pods, Works(p) \/ Breaks(p)
       PROVE  \/ Less
              \/ \E row \in CurrentRows(p) : DeadLetterFails(p, row) \/ MarkUnfiled(p, row)
  BY <1>5, <1>6, <1>7, <1>8, <1>9, <1>10, <1>11, <1>15 DEF Works, Breaks
<1> QED
  BY <1>3, <1>4, <1>12, <1>13, <1>14, <1>15 DEF Next, Less

\* A set grows by one at most when an element is added.
LEMMA OneMore ==
    ASSUME NEW S, IsFiniteSet(S), NEW x
    PROVE  IsFiniteSet(S \union {x}) /\ Cardinality(S \union {x}) <= Cardinality(S) + 1
<1>1. Cardinality(S) \in Nat
  BY FS_CardinalityType
<1>2. CASE x \in S
  <2> DEFINE T == S \union {x}
  <2>1. T = S
    BY <1>2
  <2> HIDE DEF T
  <2>2. IsFiniteSet(T) /\ Cardinality(T) = Cardinality(S)
    BY <2>1
  <2>3. Cardinality(T) <= Cardinality(S) + 1
    BY <1>1, <2>2
  <2> QED
    BY <2>2, <2>3 DEF T
<1>3. CASE x \notin S
  BY <1>1, <1>3, FS_AddElement
<1> QED
  BY <1>2, <1>3

\* The sizes of the two sets never exceed the faults.
LEMMA FilingStep == IndInv /\ IndInv' /\ FilingInv /\ [Next]_vars => FilingInv'
<1> SUFFICES ASSUME IndInv, IndInv', FilingInv, [Next]_vars PROVE FilingInv'
  OBVIOUS
<1>1. \A e \in Events : filed'[e] <= Cardinality(Parted(e)')
  BY FiledOnce
<1>2. TypeOK /\ TypeOK' /\ faults \in Nat /\ faults' \in Nat
  BY PipelineAssumption DEF IndInv, TypeOK
<1> DEFINE N == NotFiled
           M == NotFiled'
           G == GivingUp
           H == GivingUp'
<1>3. /\ IsFiniteSet(N) /\ Cardinality(N) \in Nat /\ IsFiniteSet(G) /\ Cardinality(G) \in Nat
      /\ Cardinality(N) + Cardinality(G) <= faults
  BY <1>2, FilingTyped DEF FilingInv
<1>4. IsFiniteSet(M) /\ Cardinality(M) \in Nat /\ IsFiniteSet(H) /\ Cardinality(H) \in Nat
  <2>1. M \subseteq Events /\ H \subseteq Pods
    BY <1>2 DEF NotFiled, GivingUp, TypeOK
  <2> HIDE DEF M, H
  <2> QED
    BY <2>1, PipelineAssumption, FS_Subset, FS_CardinalityType
<1>5. \/ M \subseteq N /\ H \subseteq G /\ faults <= faults'
      \/ \E p \in Pods : M \subseteq N /\ H \subseteq G \union {p} /\ faults' = faults + 1
      \/ \E p \in Pods, e \in Events :
           M \subseteq N \union {e} /\ p \in G /\ H \subseteq G \ {p} /\ faults' = faults
  BY UnfiledSteps
<1>6. SUFFICES Cardinality(M) + Cardinality(H) <= faults'
  BY <1>1 DEF FilingInv
<1> HIDE DEF M, N, G, H
<1>7. CASE M \subseteq N /\ H \subseteq G /\ faults <= faults'
  <2>1. Cardinality(M) <= Cardinality(N)
    BY <1>3, <1>7, FS_Subset
  <2>2. Cardinality(H) <= Cardinality(G)
    BY <1>3, <1>7, FS_Subset
  <2> QED
    BY <1>2, <1>3, <1>4, <1>7, <2>1, <2>2
<1>8. ASSUME NEW p \in Pods, M \subseteq N, H \subseteq G \union {p}, faults' = faults + 1
      PROVE  Cardinality(M) + Cardinality(H) <= faults'
  <2>1. Cardinality(M) <= Cardinality(N)
    BY <1>3, <1>8, FS_Subset
  <2>2. IsFiniteSet(G \union {p}) /\ Cardinality(G \union {p}) <= Cardinality(G) + 1
    BY <1>3, OneMore
  <2>3. Cardinality(H) <= Cardinality(G \union {p}) /\ Cardinality(G \union {p}) \in Nat
    BY <1>8, <2>2, FS_Subset, FS_CardinalityType
  <2> QED
    BY <1>2, <1>3, <1>4, <1>8, <2>1, <2>2, <2>3
<1>9. ASSUME NEW p \in Pods, NEW e \in Events, M \subseteq N \union {e}, p \in G,
             H \subseteq G \ {p}, faults' = faults
      PROVE  Cardinality(M) + Cardinality(H) <= faults'
  <2>1. IsFiniteSet(N \union {e}) /\ Cardinality(N \union {e}) <= Cardinality(N) + 1
    BY <1>3, OneMore
  <2>2. Cardinality(M) <= Cardinality(N \union {e}) /\ Cardinality(N \union {e}) \in Nat
    BY <1>9, <2>1, FS_Subset, FS_CardinalityType
  <2>3. IsFiniteSet(G \ {p}) /\ Cardinality(G \ {p}) = Cardinality(G) - 1
    BY <1>3, <1>9, FS_RemoveElement
  <2>4. Cardinality(H) <= Cardinality(G \ {p})
    BY <1>9, <2>3, FS_Subset
  <2> QED
    BY <1>2, <1>3, <1>4, <1>9, <2>1, <2>2, <2>3, <2>4
<1> QED
  BY <1>5, <1>7, <1>8, <1>9

\* What is given up is filed or accounted for, in every reachable state.
LEMMA FilingHolds == Spec => []FilingInv
<1>1. Init => FilingInv
  <2> SUFFICES ASSUME Init PROVE FilingInv
    OBVIOUS
  <2>1. TypeOK
    BY InitInv DEF IndInv
  <2>2. NotFiled = {} /\ GivingUp = {} /\ faults = 0 /\ \A e \in Events : filed[e] = 0
    BY FreshTyped DEF Init, NotFiled, GivingUp, None
  <2>3. \A e \in Events : Cardinality(Parted(e)) \in Nat
    BY <2>1, FilingTyped
  <2> QED
    BY <2>2, <2>3, FS_EmptySet DEF FilingInv
<1> QED
  BY <1>1, FilingStep, InvariantHolds, PTL DEF Spec

-----------------------------------------------------------------------------
(***************************************************************************)
(* With one pod the donors' totals are complete: what the pod has read is  *)
(* still what is stored when it writes, so that a write takes nothing away *)
(* from a total and adds the event to its own.                             *)
(***************************************************************************)
Wrote(e) == Kind[e] = "DonationRecorded" => donorTotal[DonorOf[e]][e] >= 1

\* The pod is about to write the total of the donor of the row.
WritesNext(p, row) ==
    /\ row \in CurrentRows(p)
    /\ pods[p].mode = "dispatching"
    /\ pods[p].at + 1 \in DOMAIN Plan(row)
    /\ Plan(row)[pods[p].at + 1] = "writeDonor"

DonorInv ==
    /\ \A p \in Pods : \A row \in CurrentRows(p) :
        WritesNext(p, row) => pods[p].total = donorTotal[DonorOf[row.event]]
    /\ \A p \in Pods, e \in Events : Behind(p, e, "writeDonor") => Wrote(e)
    /\ \A e \in dispatched : Wrote(e)

OnePod == Cardinality(Pods) = 1

\* A total is written right after it was read, and a plan that has a donation's
\* type writes one.
LEMMA WriteFollowsRead ==
    ASSUME NEW e \in Events
    PROVE  /\ \A i \in DOMAIN Statements[Kind[e]] :
                 Statements[Kind[e]][i] = "writeDonor" =>
                    /\ i - 1 \in DOMAIN Statements[Kind[e]]
                    /\ Statements[Kind[e]][i - 1] = "readDonor"
           /\ Kind[e] = "DonationRecorded" =>
                \E i \in 1 .. Len(Statements[Kind[e]]) : Statements[Kind[e]][i] = "writeDonor"
<1>1. Kind[e] \in {"DonationRecorded", "MatchApplied", "JobReleased", "ProjectStatusChanged"}
  BY PipelineAssumption DEF Statements
<1>2. /\ Statements["DonationRecorded"] = <<"addRaised", "readDonor", "writeDonor", "countProjects">>
      /\ Statements["MatchApplied"] = <<"addRaised", "readDonor", "writeDonor", "countProjects", "addMatched">>
      /\ Statements["JobReleased"] = <<"completeJob">>
      /\ Statements["ProjectStatusChanged"] = <<>>
  BY DEF Statements
<1>3. ASSUME NEW s \in {<<"addRaised", "readDonor", "writeDonor", "countProjects">>,
                        <<"addRaised", "readDonor", "writeDonor", "countProjects", "addMatched">>,
                        <<"completeJob">>},
             NEW i \in DOMAIN s, s[i] = "writeDonor"
      PROVE  i - 1 \in DOMAIN s /\ s[i - 1] = "readDonor"
  BY <1>3
<1>4. DOMAIN <<>> = {}
  OBVIOUS
<1>5. 3 \in 1 .. Len(Statements["DonationRecorded"]) /\ Statements["DonationRecorded"][3] = "writeDonor"
  BY <1>2
<1> QED
  BY <1>1, <1>2, <1>3, <1>4, <1>5

\* With one pod a write takes nothing away.
LEMMA DonorTotalsGrow ==
    ASSUME IndInv, DonorInv, [Next]_vars, NEW d \in Donors, NEW e \in Events
    PROVE  donorTotal'[d][e] \in Nat /\ donorTotal[d][e] <= donorTotal'[d][e]
<1>0. TypeOK /\ donorTotal[d][e] \in Nat /\ donorTotal[d] \in [Events -> Nat]
  BY DEF IndInv, TypeOK
<1>1. CASE donorTotal' = donorTotal
  BY <1>0, <1>1
<1>2. ASSUME NEW p \in Pods, NEW row \in CurrentRows(p), WriteDonor(p, row)
      PROVE  donorTotal'[d][e] \in Nat /\ donorTotal[d][e] <= donorTotal'[d][e]
  <2> DEFINE delta == IF Kind[row.event] = "DonationRecorded" THEN 1 ELSE 0
             own == DonorOf[row.event]
  <2>1. /\ Executes(p, row, "writeDonor")
        /\ donorTotal' = [donorTotal EXCEPT ![own] = [pods[p].total EXCEPT ![row.event] = @ + delta]]
    BY <1>2 DEF WriteDonor
  <2>2. delta \in {0, 1}
    OBVIOUS
  <2>3. own \in Donors /\ row.event \in Events /\ pods[p].at \in Nat
    BY <1>0, CurrentRowFacts DEF Donors, TypeOK, PodState
  <2>4. WritesNext(p, row)
    <3>1. pods[p].at < Len(Plan(row)) /\ DOMAIN Plan(row) = 1 .. Len(Plan(row)) /\ Len(Plan(row)) \in Nat
      BY <2>1, <2>3, PlanTyped DEF Executes, Unfinished, Plan
    <3>2. pods[p].at + 1 \in DOMAIN Plan(row)
      BY <2>3, <3>1
    <3> QED
      BY <2>1, <3>2 DEF WritesNext, Executes, Unfinished, Dispatches
  <2>5. pods[p].total = donorTotal[own]
    BY <2>4 DEF DonorInv
  <2> HIDE DEF delta, own
  <2>6. CASE d = own
    <3>1. donorTotal'[d] = [donorTotal[d] EXCEPT ![row.event] = @ + delta]
      BY <1>0, <2>1, <2>3, <2>5, <2>6 DEF TypeOK
    <3>2. CASE row.event = e
      <4>1. donorTotal'[d][e] = donorTotal[d][e] + delta
        BY <1>0, <3>1, <3>2
      <4> QED
        BY <1>0, <2>2, <4>1
    <3>3. CASE row.event # e
      <4>1. donorTotal'[d][e] = donorTotal[d][e]
        BY <1>0, <3>1, <3>3
      <4> QED
        BY <1>0, <4>1
    <3> QED
      BY <3>2, <3>3
  <2>7. CASE d # own
    <3>1. donorTotal'[d] = donorTotal[d]
      BY <1>0, <2>1, <2>7 DEF TypeOK
    <3> QED
      BY <1>0, <3>1
  <2> QED
    BY <2>6, <2>7
<1>3. ASSUME NEW p \in Pods, NEW row \in CurrentRows(p), AddRaised(p, row) \/ AddMatched(p, row)
      PROVE  donorTotal' = donorTotal
  BY <1>3 DEF AddRaised, AddMatched
<1> QED
  BY <1>1, <1>2, <1>3, CountsGrow

\* A statement of the only pod: it reads what is stored, or writes what it read.
LEMMA DonorStatement ==
    ASSUME IndInv, IndInv', DonorInv, [Next]_vars, NEW p \in Pods, Pods = {p},
           NEW row \in CurrentRows(p),
           \/ AddRaised(p, row) \/ ReadDonor(p, row) \/ WriteDonor(p, row)
           \/ CountProjects(p, row) \/ AddMatched(p, row) \/ CompleteJob(p, row)
    PROVE  DonorInv'
<1>0. /\ TypeOK /\ TypeOK' /\ pods \in [Pods -> PodState] /\ pods[p] \in PodState
      /\ pods[p].at \in Nat /\ row.event \in Events /\ DonorOf[row.event] \in Donors
      /\ \A other \in CurrentRows(p) : other = row
  BY CurrentRowFacts DEF IndInv, PodState, Donors
<1>1. /\ pods'[p].at = pods[p].at + 1 /\ pods'[p].mode = "dispatching" /\ pods[p].mode = "dispatching"
      /\ pods'[p].rows = pods[p].rows /\ dispatched' = dispatched
      /\ row.event \notin Poison /\ pods[p].at < Len(Plan(row))
  BY <1>0 DEF AddRaised, ReadDonor, WriteDonor, CountProjects, AddMatched, CompleteJob, Executes,
     Unfinished, Dispatches, PodState, history
<1>2. CurrentRows(p)' = CurrentRows(p)
  BY <1>1 DEF CurrentRows
<1>3. \A e \in Events : Wrote(e) => Wrote(e)'
  <2> SUFFICES ASSUME NEW e \in Events, Wrote(e), Kind[e] = "DonationRecorded"
               PROVE  donorTotal'[DonorOf[e]][e] >= 1
    BY DEF Wrote
  <2>1. DonorOf[e] \in Donors
    BY DEF Donors
  <2>2. /\ donorTotal'[DonorOf[e]][e] \in Nat
        /\ donorTotal[DonorOf[e]][e] <= donorTotal'[DonorOf[e]][e]
    BY <2>1, DonorTotalsGrow
  <2>3. donorTotal[DonorOf[e]][e] \in Nat /\ donorTotal[DonorOf[e]][e] >= 1
    BY <1>0, <2>1 DEF Wrote, TypeOK
  <2> QED
    BY <2>2, <2>3
<1>4. ASSUME WritesNext(p, row)' PROVE pods'[p].total = donorTotal'[DonorOf[row.event]]
  <2>1. /\ pods[p].at + 1 + 1 \in DOMAIN Statements[Kind[row.event]]
        /\ Statements[Kind[row.event]][pods[p].at + 1 + 1] = "writeDonor"
    BY <1>1, <1>4 DEF WritesNext, Plan
  <2>2. (pods[p].at + 1 + 1) - 1 = pods[p].at + 1
    BY <1>0
  <2>3. Statements[Kind[row.event]][pods[p].at + 1] = "readDonor"
    BY <1>0, <2>1, <2>2, WriteFollowsRead
  <2>4. ReadDonor(p, row)
    BY <2>3 DEF AddRaised, WriteDonor, CountProjects, AddMatched, CompleteJob, Executes, Plan
  <2>5. pods'[p].total = donorTotal[DonorOf[row.event]] /\ donorTotal' = donorTotal
    BY <1>0, <2>4 DEF ReadDonor, PodState, readModel
  <2> QED
    BY <2>5
<1>5. ASSUME NEW e \in Events, Behind(p, e, "writeDonor")' PROVE Wrote(e)'
  <2>1. e = row.event
    BY <1>0, <1>2, <1>5 DEF Behind
  <2>2. PICK i \in 1 .. (pods[p].at + 1) : Plan(row)[i] = "writeDonor"
    BY <1>0, <1>1, <1>2, <1>5 DEF Behind, Plan
  <2>3. CASE i \in 1 .. pods[p].at
    <3>1. Behind(p, e, "writeDonor")
      BY <1>1, <2>1, <2>2, <2>3 DEF Behind
    <3> QED
      BY <1>3, <3>1 DEF DonorInv
  <2>4. CASE i = pods[p].at + 1
    <3>1. Plan(row)[pods[p].at + 1] = "writeDonor"
      BY <2>2, <2>4
    <3>2. WriteDonor(p, row)
      BY <3>1 DEF AddRaised, ReadDonor, CountProjects, AddMatched, CompleteJob, Executes
    <3>3. ASSUME Kind[e] = "DonationRecorded" PROVE donorTotal'[DonorOf[e]][e] >= 1
      <4>1. donorTotal' = [donorTotal EXCEPT ![DonorOf[e]] = [pods[p].total EXCEPT ![e] = @ + 1]]
        BY <2>1, <3>2, <3>3 DEF WriteDonor
      <4>2. pods[p].total \in [Events -> Nat] /\ pods[p].total[e] \in Nat
        BY <1>0 DEF PodState
      <4>3. donorTotal'[DonorOf[e]][e] = pods[p].total[e] + 1
        BY <1>0, <2>1, <4>1, <4>2 DEF TypeOK
      <4> QED
        BY <4>2, <4>3
    <3> QED
      BY <3>3 DEF Wrote
  <2> QED
    BY <1>0, <2>2, <2>3, <2>4
<1>6. \A q \in Pods : q = p
  OBVIOUS
<1>7. \A other \in CurrentRows(p)' : other = row
  BY <1>0, <1>2
<1>8. \A e \in dispatched' : Wrote(e)'
  BY <1>0, <1>1, <1>3 DEF DonorInv, TypeOK
<1>9. \A q \in Pods, e \in Events : Behind(q, e, "writeDonor")' => Wrote(e)'
  BY <1>5, <1>6
<1>10. \A q \in Pods : \A other \in CurrentRows(q)' :
          WritesNext(q, other)' => pods'[q].total = donorTotal'[DonorOf[other.event]]
  BY <1>4, <1>6, <1>7
<1> QED
  BY <1>8, <1>9, <1>10 DEF DonorInv

\* Any other step of the only pod writes no total, and leaves it before the
\* first statement of a row or in none.
LEMMA DonorOther ==
    ASSUME IndInv, IndInv', ProgressInv, DonorInv, NEW p \in Pods, Pods = {p},
           \/ FetchBatch(p) \/ MarkProcessedBatch(p) \/ MarkFails(p) \/ Stop(p) \/ Restart(p)
           \/ \E row \in CurrentRows(p) :
                \/ FinishEvent(p, row) \/ FailsToParse(p, row) \/ StatementFails(p, row)
                \/ RecordAttempt(p, row) \/ AttemptNotRecorded(p, row)
                \/ DeadLetter(p, row) \/ DeadLetterFails(p, row)
                \/ MarkUnfiled(p, row) \/ MarkUnfiledFails(p, row) \/ NoClient(p, row)
    PROVE  DonorInv'
<1>0. TypeOK /\ TypeOK'
  BY DEF IndInv
<1>1. UNCHANGED readModel /\ (pods'[p].at = 0 \/ pods'[p].mode # "dispatching")
  BY OtherProgress
<1>2. donorTotal' = donorTotal
  BY <1>1 DEF readModel
<1>3. \A e \in Events : Wrote(e)' <=> Wrote(e)
  BY <1>2 DEF Wrote
<1>4. ASSUME NEW e \in Events PROVE ~ Behind(p, e, "writeDonor")'
  BY <1>1 DEF Behind
<1>5. ASSUME NEW row \in CurrentRows(p)' PROVE ~ WritesNext(p, row)'
  <2>1. row.event \in Events
    BY <1>0 DEF TypeOK, CurrentRows, PodState, Row
  <2>2. DOMAIN Plan(row) = 1 .. Len(Plan(row)) /\ Len(Plan(row)) \in Nat
    BY <2>1, PlanTyped DEF Plan
  <2>3. SUFFICES ASSUME pods'[p].at = 0, 1 \in DOMAIN Plan(row), Plan(row)[1] = "writeDonor"
                 PROVE  FALSE
    BY <1>1 DEF WritesNext, Plan
  <2>4. 1 - 1 \in DOMAIN Plan(row)
    BY <2>1, <2>3, WriteFollowsRead DEF Plan
  <2> QED
    BY <2>2, <2>4
<1>6. \A e \in dispatched' : Wrote(e)'
  <2>1. ASSUME NEW row \in CurrentRows(p), FinishEvent(p, row) PROVE Wrote(row.event)
    <3>1. row.event \in Events /\ pods[p].mode = "dispatching" /\ row.event \notin Poison
          /\ pods[p].at = Len(Plan(row))
      BY <2>1, CurrentRowFacts DEF FinishEvent, Dispatches
    <3>2. ASSUME Kind[row.event] = "DonationRecorded" PROVE Behind(p, row.event, "writeDonor")
      <4>1. \E i \in 1 .. Len(Plan(row)) : Plan(row)[i] = "writeDonor"
        BY <3>1, <3>2, WriteFollowsRead DEF Plan
      <4> QED
        BY <3>1, <4>1 DEF Behind
    <3>3. CASE Kind[row.event] = "DonationRecorded"
      BY <3>1, <3>2, <3>3 DEF DonorInv
    <3>4. CASE Kind[row.event] # "DonationRecorded"
      BY <3>4 DEF Wrote
    <3> QED
      BY <3>3, <3>4
  <2>2. \/ dispatched' = dispatched
        \/ \E row \in CurrentRows(p) : FinishEvent(p, row) /\ dispatched' = dispatched \union {row.event}
    BY DEF FetchBatch, MarkProcessedBatch, MarkFails, Stop, Restart, FinishEvent, FailsToParse,
       StatementFails, Fails, RecordAttempt, AttemptNotRecorded, DeadLetter, DeadLetterFails,
       MarkUnfiled, MarkUnfiledFails, NoClient, history
  <2>3. dispatched \subseteq Events /\ \A row \in CurrentRows(p) : row.event \in Events
    BY <1>0, CurrentRowFacts DEF TypeOK
  <2>4. \A e \in dispatched : Wrote(e)'
    BY <1>3, <2>3 DEF DonorInv
  <2> QED
    BY <1>3, <2>1, <2>2, <2>3, <2>4
<1>7. \A q \in Pods : q = p
  OBVIOUS
<1> QED
  BY <1>4, <1>5, <1>6, <1>7 DEF DonorInv

\* Every step of one pod keeps the donors' totals complete.
LEMMA DonorStep ==
    OnePod /\ IndInv /\ IndInv' /\ ProgressInv /\ DonorInv /\ [Next]_vars => DonorInv'
<1> SUFFICES ASSUME OnePod, IndInv, IndInv', ProgressInv, DonorInv, [Next]_vars PROVE DonorInv'
  OBVIOUS
<1>1. ASSUME NEW p \in Pods, Works(p) \/ Breaks(p) PROVE DonorInv'
  <2>1. \E x : Pods = {x}
    BY PipelineAssumption, FS_Singleton DEF OnePod
  <2>2. Pods = {p}
    BY <2>1
  <2> QED
    BY <1>1, <2>2, DonorStatement, DonorOther DEF Works, Breaks
<1>2. CASE UNCHANGED <<pods, donorTotal, dispatched>>
  BY <1>2 DEF DonorInv, WritesNext, Behind, CurrentRows, Plan, Wrote
<1>3. ASSUME NEW e \in Events, Record(e) PROVE UNCHANGED <<pods, donorTotal, dispatched>>
  BY <1>3 DEF Record, readModel, history
<1>4. UNCHANGED vars => UNCHANGED <<pods, donorTotal, dispatched>>
  BY DEF vars, readModel, history
<1> QED
  BY <1>1, <1>2, <1>3, <1>4 DEF Next

\* One pod's donors' totals are complete in every reachable state.
LEMMA DonorHolds == Spec => [](OnePod => DonorInv)
<1>1. Init => DonorInv
  BY FreshTyped DEF Init, DonorInv, CurrentRows, WritesNext, Behind, Fresh
<1>2. IndInv /\ IndInv' /\ ProgressInv /\ (OnePod => DonorInv) /\ [Next]_vars => (OnePod => DonorInv)'
  BY DonorStep DEF OnePod
<1> QED
  BY <1>1, <1>2, ProgressHolds, InvariantHolds, PTL DEF Spec

\* An event that was processed and not given up is in its donor's total if one
\* pod works; one that was given up is filed, once for a pod at most, unless a
\* fault of the transaction that files it explains why it is not.
THEOREM NothingUnnoticed == Spec => []NothingGoesUnnoticed
<1>1. IndInv /\ ProgressInv /\ FilingInv /\ (OnePod => DonorInv) => NothingGoesUnnoticed
  <2> SUFFICES ASSUME IndInv, ProgressInv, FilingInv, OnePod => DonorInv
               PROVE  DonorTotalsComplete /\ DeadLettersAreFiled
    BY DEF NothingGoesUnnoticed
  <2>0. TypeOK
    BY DEF IndInv
  <2>1. DonorTotalsComplete
    <3> SUFFICES ASSUME NEW e \in processed \ deadLettered, Kind[e] = "DonationRecorded",
                        Cardinality(Pods) = 1
                 PROVE  donorTotal[DonorOf[e]][e] >= 1
      BY DEF DonorTotalsComplete
    <3>1. e \in dispatched /\ DonorInv
      BY DEF ProgressInv, OnePod
    <3> QED
      BY <3>1 DEF DonorInv, Wrote
  <2>2. ASSUME NEW e \in Events PROVE filed[e] <= Cardinality(Pods)
    <3> DEFINE S == Parted(e)
    <3>1. S \subseteq Pods /\ filed[e] \in Nat /\ filed[e] <= Cardinality(S)
      BY <2>0 DEF Parted, FilingInv, TypeOK
    <3> HIDE DEF S
    <3>2. Cardinality(S) <= Cardinality(Pods) /\ IsFiniteSet(S)
      BY <3>1, PipelineAssumption, FS_Subset
    <3>3. Cardinality(S) \in Nat /\ Cardinality(Pods) \in Nat
      BY <3>2, FS_CardinalityType, PipelineAssumption
    <3> QED
      BY <3>1, <3>2, <3>3
  <2>3. Cardinality(NotFiled) <= faults
    <3> DEFINE n == Cardinality(NotFiled)
               g == Cardinality(GivingUp)
    <3>1. n \in Nat /\ g \in Nat /\ faults \in Nat /\ n + g <= faults
      BY <2>0, FilingTyped, PipelineAssumption DEF FilingInv, TypeOK
    <3> HIDE DEF n, g
    <3>2. n <= faults
      BY <3>1
    <3> QED
      BY <3>2 DEF n
  <2> QED
    BY <2>1, <2>2, <2>3 DEF DeadLettersAreFiled, NotFiled
<1> QED
  BY <1>1, ProgressHolds, FilingHolds, DonorHolds, InvariantHolds, PTL
=============================================================================
