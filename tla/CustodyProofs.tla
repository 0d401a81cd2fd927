--------------------------- MODULE CustodyProofs ---------------------------
(***************************************************************************)
(* Proofs about what is kept for others.                                   *)
(*                                                                         *)
(* The first part is about the escrow contract, for every set of accounts, *)
(* tokens and jobs, every amount and every timeout.  The second is about   *)
(* the accounts the platform sponsors, for any number of calls, rows and   *)
(* keys, whatever the donors, the ledger and the timers do between two     *)
(* awaits of a call.                                                       *)
(***************************************************************************)
EXTENDS Escrow, Sponsorship, Sums

\* The type invariant and the books of every job, together inductive: that a
\* payment leaves a natural number of stroops needs both.
Inv == TypeOK /\ JobAccounting

OpenJob(j) == InStatus(j, "Escrowed") \/ InStatus(j, "Disputed")

\* A call that pays c and f out of an open job and leaves the rest in it keeps
\* the types and the books.
LEMMA PayoutKeepsInv ==
    ASSUME Inv, NEW j \in JobIds, OpenJob(j),
           NEW c \in Nat, NEW f \in Nat, NEW left \in Nat, NEW s \in Status,
           c + f + left = jobs[j].remaining,
           left = 0 <=> s \in {"Released", "Refunded"},
           Update(j, left, s), Transfer(j, c, f), UNCHANGED Env
    PROVE  Inv'
<1>1. jobs[j] \in Job
  BY DEF Inv, TypeOK, OpenJob, InStatus, Exists
<1> DEFINE job == jobs[j]
<1>2. jobs' = [jobs EXCEPT ![j] = [job EXCEPT !.remaining = left, !.status = s]]
  BY DEF Update, Inv, TypeOK
<1>3. jobs'[j] \in Job /\ jobs'[j] = [job EXCEPT !.remaining = left, !.status = s]
  BY <1>1, <1>2 DEF Inv, TypeOK, Job
<1>4. TypeOK'
  <2>1. jobs' \in [JobIds -> Job \union {NoJob}]
    BY <1>2, <1>3 DEF Inv, TypeOK
  <2>2. held' \in [Tokens -> Nat]
    BY <1>1 DEF Transfer, Inv, TypeOK, Job
  <2>3. wallet' \in [Tokens -> [Accounts -> Nat]]
    BY <1>1 DEF Transfer, Inv, TypeOK, Job
  <2>4. paid' \in [JobIds -> [client: Nat, freelancer: Nat]]
    BY DEF Transfer, Inv, TypeOK
  <2>5. QED
    BY <2>1, <2>2, <2>3, <2>4 DEF TypeOK, Env, Inv
<1>5. JobAccounting'
  <2> SUFFICES ASSUME NEW i \in JobIds
               PROVE  IF Exists(i)'
                      THEN /\ paid'[i].client + paid'[i].freelancer + jobs'[i].remaining
                                = jobs'[i].amount
                           /\ Terminal(i)' <=> jobs'[i].remaining = 0
                      ELSE paid'[i] = [client |-> 0, freelancer |-> 0]
    BY DEF JobAccounting
  <2>1. CASE i # j
    <3>1. jobs'[i] = jobs[i] /\ paid'[i] = paid[i]
      BY <2>1, <1>2 DEF Transfer, Inv, TypeOK
    <3>2. QED
      BY <3>1 DEF Inv, JobAccounting, Exists, Terminal, InStatus
  <2>2. CASE i = j
    <3>1. /\ paid'[j].client = paid[j].client + c
          /\ paid'[j].freelancer = paid[j].freelancer + f
      BY DEF Transfer, Inv, TypeOK
    <3>2. /\ jobs'[j].remaining = left
          /\ jobs'[j].amount = job.amount
          /\ jobs'[j].status = s
          /\ jobs'[j] # NoJob
      BY <1>1, <1>3, EscrowAssumption DEF Job
    <3>3. paid[j].client + paid[j].freelancer + job.remaining = job.amount
      BY <1>1, EscrowAssumption DEF Inv, JobAccounting, Exists
    <3>4. /\ paid[j].client \in Nat /\ paid[j].freelancer \in Nat
          /\ job.remaining \in Nat /\ job.amount \in Nat
      BY <1>1 DEF Inv, TypeOK, Job
    <3>5. QED
      BY <2>2, <3>1, <3>2, <3>3, <3>4 DEF Exists, Terminal, InStatus
  <2>3. QED
    BY <2>1, <2>2
<1>6. QED
  BY <1>4, <1>5 DEF Inv

-----------------------------------------------------------------------------
\* What an open job still holds is positive, which is why a call that pays it
\* out pays something.
LEMMA OpenJobHolds ==
    ASSUME Inv, NEW j \in JobIds, OpenJob(j)
    PROVE  /\ jobs[j] \in Job
           /\ jobs[j].remaining \in Nat \ {0}
BY EscrowAssumption
   DEF Inv, TypeOK, JobAccounting, OpenJob, InStatus, Exists, Terminal, Job, Status

\* With no job, the contract owns nothing.
LEMMA InitInv == Init => Inv
BY EscrowAssumption
   DEF Init, Inv, TypeOK, JobAccounting, Exists, Ledgers

\* create_job: the whole amount is deposited and remains.
LEMMA CreateKeepsInv ==
    ASSUME Inv, NEW j \in JobIds, Create(j)
    PROVE  Inv'
<1>1. PICK c \in Accounts, f \in Accounts, t \in Tokens, e \in Ledgers :
        \E amount \in 1 .. wallet[t][c] : CreateJob(j, c, f, t, amount, e)
  BY DEF Create
<1>2. PICK amount \in 1 .. wallet[t][c] : CreateJob(j, c, f, t, amount, e)
  BY <1>1
<1>3. wallet[t][c] \in Nat /\ amount \in Nat \ {0} /\ amount <= wallet[t][c]
  BY DEF Inv, TypeOK
<1> DEFINE new == [client |-> c, freelancer |-> f, token |-> t,
                   amount |-> amount, remaining |-> amount,
                   status |-> "Escrowed", expiry |-> e, disputeExpiry |-> 0]
<1>4. new \in Job /\ new # NoJob
  BY <1>3, EscrowAssumption DEF Job, Status, Ledgers
<1>5. jobs' = [jobs EXCEPT ![j] = new] /\ UNCHANGED <<Env, paid>> /\ ~Exists(j)
  BY <1>2 DEF CreateJob
<1>6. TypeOK'
  <2>1. jobs' \in [JobIds -> Job \union {NoJob}]
    BY <1>4, <1>5 DEF Inv, TypeOK
  <2>2. held' \in [Tokens -> Nat]
    BY <1>2, <1>3 DEF CreateJob, Inv, TypeOK
  <2>3. wallet' \in [Tokens -> [Accounts -> Nat]]
    BY <1>2, <1>3 DEF CreateJob, Inv, TypeOK
  <2>4. QED
    BY <1>5, <2>1, <2>2, <2>3 DEF TypeOK, Env, Inv
<1>7. JobAccounting'
  <2> SUFFICES ASSUME NEW i \in JobIds
               PROVE  IF Exists(i)'
                      THEN /\ paid'[i].client + paid'[i].freelancer + jobs'[i].remaining
                                = jobs'[i].amount
                           /\ Terminal(i)' <=> jobs'[i].remaining = 0
                      ELSE paid'[i] = [client |-> 0, freelancer |-> 0]
    BY DEF JobAccounting
  <2>1. CASE i # j
    <3>1. jobs'[i] = jobs[i] /\ paid'[i] = paid[i]
      BY <2>1, <1>5 DEF Inv, TypeOK
    <3>2. QED
      BY <3>1 DEF Inv, JobAccounting, Exists, Terminal, InStatus
  <2>2. CASE i = j
    <3>1. jobs'[j] = new
      BY <1>5 DEF Inv, TypeOK
    <3>2. paid'[j] = [client |-> 0, freelancer |-> 0]
      BY <1>5 DEF Inv, JobAccounting
    <3>3. QED
      BY <2>2, <3>1, <3>2, <1>3, <1>4 DEF Exists, Terminal, InStatus
  <2>3. QED
    BY <2>1, <2>2
<1>8. QED
  BY <1>6, <1>7 DEF Inv

\* A job in dispute is still a job.
LEMMA DisputedJob ==
    ASSUME Inv, NEW j \in JobIds, Dispute(j)
    PROVE  jobs'[j] \in Job
<1>1. jobs[j] \in Job
  BY OpenJobHolds DEF Dispute, OpenJob
<1>2. now + DisputeTimeout \in Ledgers
  BY EscrowAssumption DEF Dispute, Ledgers, Inv, TypeOK
<1>3. [jobs[j] EXCEPT !.status = "Disputed", !.disputeExpiry = now + DisputeTimeout] \in Job
  BY <1>1, <1>2 DEF Job, Status
<1>4. QED
  BY <1>3 DEF Dispute, Inv, TypeOK

\* dispute moves no money.
LEMMA DisputeKeepsInv ==
    ASSUME Inv, NEW j \in JobIds, Dispute(j)
    PROVE  Inv'
<1>1. jobs[j] \in Job /\ jobs[j].remaining \in Nat \ {0}
  BY OpenJobHolds DEF Dispute, OpenJob
<1> DEFINE new == [jobs[j] EXCEPT !.status = "Disputed",
                                  !.disputeExpiry = now + DisputeTimeout]
<1>2. new \in Job /\ new # NoJob
  <2>1. now + DisputeTimeout \in Ledgers
    BY EscrowAssumption DEF Dispute, Ledgers, Inv, TypeOK
  <2>2. "Disputed" \in Status
    BY DEF Status
  <2>3. new \in Job
    BY <1>1, <2>1, <2>2 DEF Job
  <2>4. QED
    BY <2>3, EscrowAssumption
<1>3. jobs' = [jobs EXCEPT ![j] = new]
  BY DEF Dispute, Inv, TypeOK
<1>4. TypeOK'
  BY <1>2, <1>3 DEF Inv, TypeOK, Dispute, Env
<1>5. JobAccounting'
  <2> SUFFICES ASSUME NEW i \in JobIds
               PROVE  IF Exists(i)'
                      THEN /\ paid'[i].client + paid'[i].freelancer + jobs'[i].remaining
                                = jobs'[i].amount
                           /\ Terminal(i)' <=> jobs'[i].remaining = 0
                      ELSE paid'[i] = [client |-> 0, freelancer |-> 0]
    BY DEF JobAccounting
  <2>1. paid' = paid
    BY DEF Dispute
  <2>2. CASE i # j
    <3>1. jobs'[i] = jobs[i]
      BY <2>2, <1>3 DEF Inv, TypeOK
    <3>2. QED
      BY <2>1, <3>1 DEF Inv, JobAccounting, Exists, Terminal, InStatus
  <2>3. CASE i = j
    <3>1. jobs'[j] = new
      BY <1>3 DEF Inv, TypeOK
    <3>2. /\ paid[j].client + paid[j].freelancer + jobs[j].remaining = jobs[j].amount
          /\ Exists(j)
      BY DEF Dispute, InStatus, Inv, JobAccounting
    <3>3. QED
      BY <1>1, <1>2, <2>1, <2>3, <3>1, <3>2
         DEF Exists, Terminal, InStatus, Job, Status
  <2>4. QED
    BY <2>2, <2>3
<1>6. QED
  BY <1>4, <1>5 DEF Inv

\* A payout is what every step that pays out of an open job does: which parts
\* of the remainder it pays to whom, and what status it leaves.
Payout(j) ==
    /\ OpenJob(j)
    /\ \E c, f, left \in Nat, s \in Status :
        /\ c + f > 0
        /\ c + f + left = jobs[j].remaining
        /\ left = 0 <=> s \in {"Released", "Refunded"}
        /\ Update(j, left, s)
        /\ Transfer(j, c, f)
        /\ UNCHANGED Env

\* Every call on an existing job other than dispute is a payout.
LEMMA CallsArePayouts ==
    ASSUME Inv, NEW j \in JobIds,
           \/ ReleaseEscrow(j)
           \/ Partial(j)
           \/ \E toFreelancer \in BOOLEAN : ResolveDispute(j, toFreelancer)
           \/ ResolveStaleDispute(j)
           \/ CancelJob(j)
    PROVE  Payout(j)
<1>1. CASE ReleaseEscrow(j)
  <2>1. OpenJob(j) /\ jobs[j].remaining \in Nat \ {0}
    BY <1>1, OpenJobHolds DEF ReleaseEscrow, OpenJob
  <2>2. QED
    BY <1>1, <2>1 DEF ReleaseEscrow, Payout, Status
<1>2. CASE Partial(j)
  <2>1. PICK amount \in 1 .. jobs[j].amount : ReleasePartial(j, amount)
    BY <1>2 DEF Partial
  <2>2. OpenJob(j) /\ jobs[j] \in Job /\ jobs[j].remaining \in Nat \ {0}
    BY <2>1, OpenJobHolds DEF ReleasePartial, OpenJob
  <2> DEFINE left == jobs[j].remaining - amount
             s == IF left = 0 THEN "Released" ELSE "Escrowed"
  <2>3. /\ left \in Nat /\ amount \in Nat /\ s \in Status
        /\ 0 + amount > 0
        /\ 0 + amount + left = jobs[j].remaining
        /\ left = 0 <=> s \in {"Released", "Refunded"}
    BY <2>1, <2>2 DEF Status, Job, ReleasePartial
  <2>4. Update(j, left, s) /\ Transfer(j, 0, amount) /\ UNCHANGED Env
    BY <2>1 DEF ReleasePartial
  <2>5. QED
    BY <2>2, <2>3, <2>4 DEF Payout
<1>3. ASSUME NEW toFreelancer \in BOOLEAN, ResolveDispute(j, toFreelancer)
      PROVE  Payout(j)
  <2>1. OpenJob(j) /\ jobs[j].remaining \in Nat \ {0}
    BY <1>3, OpenJobHolds DEF ResolveDispute, OpenJob
  <2>2. QED
    BY <1>3, <2>1 DEF ResolveDispute, Payout, Status
<1>4. CASE ResolveStaleDispute(j)
  <2>1. OpenJob(j) /\ jobs[j].remaining \in Nat \ {0}
    BY <1>4, OpenJobHolds DEF ResolveStaleDispute, OpenJob
  <2> DEFINE share == jobs[j].remaining \div 2
             rest == jobs[j].remaining - share
  <2>2. /\ share \in Nat /\ rest \in Nat
        /\ rest + share > 0
        /\ rest + share + 0 = jobs[j].remaining
    <3>1. \A n \in Nat \ {0} : n \div 2 \in 0 .. n
      OBVIOUS
    <3>2. share \in 0 .. jobs[j].remaining
      BY <2>1, <3>1
    <3> HIDE DEF share
    <3>3. QED
      BY <2>1, <3>2
  <2>3. Update(j, 0, "Refunded") /\ Transfer(j, rest, share) /\ UNCHANGED Env
    BY <1>4 DEF ResolveStaleDispute
  <2>4. QED
    BY <2>1, <2>2, <2>3 DEF Payout, Status
<1>5. CASE CancelJob(j)
  <2>1. OpenJob(j) /\ jobs[j].remaining \in Nat \ {0}
    BY <1>5, OpenJobHolds DEF CancelJob, OpenJob
  <2>2. QED
    BY <1>5, <2>1 DEF CancelJob, Payout, Status
<1>6. QED
  BY <1>1, <1>2, <1>3, <1>4, <1>5

\* Every step keeps the types and the books.
LEMMA NextKeepsInv == Inv /\ [Next]_vars => Inv'
<1> SUFFICES ASSUME Inv, [Next]_vars
             PROVE  Inv'
  OBVIOUS
<1>1. CASE AdminStep
  BY <1>1 DEF AdminStep, Initialize, AllowToken, RemoveToken, Inv, TypeOK,
              JobAccounting, Exists, Terminal, InStatus
<1>2. ASSUME NEW j \in JobIds, JobStep(j)
      PROVE  Inv'
  <2>1. CASE Create(j)
    BY <2>1, CreateKeepsInv
  <2>2. CASE Dispute(j)
    BY <2>2, DisputeKeepsInv
  <2>3. CASE Payout(j)
    BY <2>3, PayoutKeepsInv DEF Payout
  <2>4. QED
    BY <1>2, <2>1, <2>2, <2>3, CallsArePayouts DEF JobStep
<1>3. CASE CloseLedger
  BY <1>3, EscrowAssumption DEF CloseLedger, Inv, TypeOK, JobAccounting, Exists, Terminal, InStatus,
              Ledgers
<1>4. ASSUME NEW b \in Blockable, SetBlocked(b[1], b[2])
      PROVE  Inv'
  BY <1>4, EscrowAssumption
     DEF SetBlocked, Inv, TypeOK, JobAccounting, Exists, Terminal, InStatus
<1>5. CASE UNCHANGED vars
  BY <1>5 DEF vars, Inv, TypeOK, JobAccounting, Exists, Terminal, InStatus
<1>6. QED
  BY <1>1, <1>2, <1>3, <1>4, <1>5 DEF Next

\* The inductive invariant of the contract holds in every reachable state.
THEOREM SpecInv == Spec => []Inv
<1>1. QED
  BY InitInv, NextKeepsInv, PTL DEF Spec

\* Whatever is called in whatever order, every variable of the contract has its
\* type: no balance and no remainder ever goes negative.
THEOREM TypeCorrect == Spec => []TypeOK
<1>1. Inv => TypeOK
  BY DEF Inv
<1>2. QED
  BY <1>1, SpecInv, PTL

\* The books of every job balance in every reachable state.
THEOREM JobsBalance == Spec => []JobAccounting
<1>1. Inv => JobAccounting
  BY DEF Inv
<1>2. QED
  BY <1>1, SpecInv, PTL

-----------------------------------------------------------------------------
\* Creating a job fills its pot.
LEMMA CreateFills ==
    ASSUME Inv, NEW j \in JobIds, Create(j)
    PROVE  Abstract!Fill(j)
<1>1. PICK c \in Accounts, f \in Accounts, t \in Tokens, e \in Ledgers :
        \E amount \in 1 .. wallet[t][c] : CreateJob(j, c, f, t, amount, e)
  BY DEF Create
<1>2. PICK amount \in 1 .. wallet[t][c] : CreateJob(j, c, f, t, amount, e)
  BY <1>1
<1>3. amount \in Nat \ {0}
  BY DEF Inv, TypeOK
<1> DEFINE new == [client |-> c, freelancer |-> f, token |-> t,
                   amount |-> amount, remaining |-> amount,
                   status |-> "Escrowed", expiry |-> e, disputeExpiry |-> 0]
<1>4. new # NoJob
  BY <1>3, EscrowAssumption DEF CreateJob, Job, Status, Ledgers
<1>5. jobs' = [jobs EXCEPT ![j] = new] /\ paid' = paid /\ ~Exists(j)
  BY <1>2 DEF CreateJob
<1>6. \A i \in JobIds : jobs'[i] = IF i = j THEN new ELSE jobs[i]
  BY <1>5 DEF Inv, TypeOK
<1>7. /\ Exists(j)'
      /\ ~Terminal(j)' /\ ~Terminal(j)
      /\ \A i \in JobIds \ {j} : /\ Exists(i)' <=> Exists(i)
                                 /\ Terminal(i)' <=> Terminal(i)
                                 /\ jobs'[i] = jobs[i]
  BY <1>4, <1>5, <1>6 DEF Exists, Terminal, InStatus
<1>8. new.amount = amount /\ new.remaining = amount
  OBVIOUS
<1> HIDE DEF new
<1>9. [i \in JobIds |-> IF Exists(i) THEN jobs[i].amount ELSE 0]'
        = [[i \in JobIds |-> IF Exists(i) THEN jobs[i].amount ELSE 0]
             EXCEPT ![j] = amount]
  BY <1>6, <1>7, <1>8
<1>10. [i \in JobIds |-> IF Exists(i) THEN jobs[i].remaining ELSE 0]'
         = [[i \in JobIds |-> IF Exists(i) THEN jobs[i].remaining ELSE 0]
              EXCEPT ![j] = amount]
  BY <1>6, <1>7, <1>8
<1>11. {i \in JobIds : Terminal(i)}' = {i \in JobIds : Terminal(i)}
  BY <1>7
<1>12. QED
  BY <1>3, <1>5, <1>9, <1>10, <1>11 DEF Abstract!Fill

\* Every payout pays from the pot, and closes the job when it empties it.
LEMMA PayoutPays ==
    ASSUME Inv, NEW j \in JobIds, Payout(j)
    PROVE  \E c, f \in 0 .. jobs[j].remaining : Exists(j) /\ Abstract!Pay(j, c, f)
<1>1. PICK c \in Nat, f \in Nat, left \in Nat, s \in Status :
        /\ c + f > 0
        /\ c + f + left = jobs[j].remaining
        /\ left = 0 <=> s \in {"Released", "Refunded"}
        /\ Update(j, left, s)
        /\ Transfer(j, c, f)
        /\ UNCHANGED Env
  BY DEF Payout
<1>2. OpenJob(j) /\ jobs[j] \in Job /\ jobs[j].remaining \in Nat \ {0} /\ Exists(j)
  BY OpenJobHolds DEF Payout, OpenJob, InStatus
<1> DEFINE new == [jobs[j] EXCEPT !.remaining = left, !.status = s]
<1>3. /\ new \in Job /\ new # NoJob
      /\ new.remaining = left /\ new.status = s /\ new.amount = jobs[j].amount
  BY <1>2, EscrowAssumption DEF Job
<1>4. \A i \in JobIds : jobs'[i] = IF i = j THEN new ELSE jobs[i]
  BY <1>1, <1>2 DEF Update, Inv, TypeOK
<1>5. /\ \A i \in JobIds : Exists(i)' <=> Exists(i)
      /\ \A i \in JobIds \ {j} : Terminal(i)' <=> Terminal(i)
      /\ ~Terminal(j)
      /\ Terminal(j)' <=> left = 0
  <2> HIDE DEF new
  <2>1. QED
    BY <1>1, <1>2, <1>3, <1>4 DEF Exists, Terminal, InStatus, OpenJob
<1>6. \A i \in JobIds :
        /\ paid'[i].client = IF i = j THEN paid[i].client + c ELSE paid[i].client
        /\ paid'[i].freelancer =
             IF i = j THEN paid[i].freelancer + f ELSE paid[i].freelancer
  BY <1>1 DEF Transfer, Inv, TypeOK
<1>7. c \in 0 .. jobs[j].remaining /\ f \in 0 .. jobs[j].remaining
  BY <1>1, <1>2
<1>8. Abstract!Pay(j, c, f)
  <2> HIDE DEF new
  <2>1. c + f \in 1 .. jobs[j].remaining /\ (c + f = jobs[j].remaining <=> left = 0)
        /\ left = jobs[j].remaining - (c + f)
    BY <1>1, <1>2
  <2> QED
    BY <1>2, <1>3, <1>4, <1>5, <1>6, <2>1 DEF Abstract!Pay
<1>9. QED
  BY <1>2, <1>7, <1>8

\* Steps that touch neither a job's money nor its status are stuttering steps.
LEMMA OtherStepsStutter ==
    ASSUME Inv, paid' = paid,
           \A j \in JobIds : /\ Exists(j)' <=> Exists(j)
                             /\ Terminal(j)' <=> Terminal(j)
                             /\ jobs'[j].amount = jobs[j].amount
                             /\ jobs'[j].remaining = jobs[j].remaining
    PROVE  UNCHANGED Abstract!vars
BY DEF Abstract!vars

\* The contract implements the pots: a job is paid for once, everything paid
\* out of it goes to its two parties, and it is final exactly when it is empty.
THEOREM RefinesCustody == Spec => ImplementsCustody
<1>1. Init => Abstract!Init
  BY DEF Init, Abstract!Init, Exists, Terminal, InStatus
<1>2. Inv /\ [Next]_vars => [Abstract!Next]_(Abstract!vars)
  <2> SUFFICES ASSUME Inv, [Next]_vars
               PROVE  Abstract!Next \/ UNCHANGED Abstract!vars
    BY DEF Abstract!vars
  <2>1. ASSUME NEW j \in JobIds, Create(j)
        PROVE  Abstract!Next
    BY <2>1, CreateFills DEF Abstract!Next
  <2>2. ASSUME NEW j \in JobIds, Payout(j)
        PROVE  Abstract!Next
    BY <2>2, PayoutPays DEF Abstract!Next
  <2>3. ASSUME NEW j \in JobIds, Dispute(j)
        PROVE  UNCHANGED Abstract!vars
    <3>1. jobs[j] \in Job /\ Exists(j) /\ ~Terminal(j)
      BY <2>3, OpenJobHolds DEF Dispute, OpenJob, Exists, InStatus, Terminal
    <3> DEFINE new == [jobs[j] EXCEPT !.status = "Disputed",
                                      !.disputeExpiry = now + DisputeTimeout]
    <3>2. new # NoJob
      <4>1. now + DisputeTimeout \in Ledgers
        BY <2>3, EscrowAssumption DEF Dispute, Ledgers, Inv, TypeOK
      <4>2. new \in Job
        BY <3>1, <4>1 DEF Job, Status
      <4>3. QED
        BY <4>2, EscrowAssumption
    <3>3. \A i \in JobIds : jobs'[i] = IF i = j THEN new ELSE jobs[i]
      BY <2>3 DEF Dispute, Inv, TypeOK
    <3>4. new.amount = jobs[j].amount /\ new.remaining = jobs[j].remaining
          /\ new.status = "Disputed"
      BY <3>1 DEF Job
    <3> HIDE DEF new
    <3>5. \A i \in JobIds : /\ Exists(i)' <=> Exists(i)
                            /\ Terminal(i)' <=> Terminal(i)
                            /\ jobs'[i].amount = jobs[i].amount
                            /\ jobs'[i].remaining = jobs[i].remaining
      BY <3>1, <3>2, <3>3, <3>4 DEF Exists, Terminal, InStatus
    <3>6. QED
      BY <2>3, <3>5, OtherStepsStutter DEF Dispute
  <2>4. CASE jobs' = jobs /\ paid' = paid
    BY <2>4, OtherStepsStutter DEF Exists, Terminal, InStatus
  <2>5. QED
    BY <2>1, <2>2, <2>3, <2>4, CallsArePayouts
       DEF Next, JobStep, AdminStep, Initialize, AllowToken, RemoveToken,
           CloseLedger, SetBlocked, vars
<1>3. QED
  BY <1>1, <1>2, SpecInv, PTL DEF Spec, Abstract!Spec, ImplementsCustody

-----------------------------------------------------------------------------
\* A released or refunded job never changes again and pays nothing more.
THEOREM SettledJobsAreFinal == Spec => TerminalIsFinal
<1> DEFINE Final == \A j \in JobIds :
                      Terminal(j) => jobs'[j] = jobs[j] /\ paid'[j] = paid[j]
<1>1. Inv /\ [Next]_vars => [Final]_vars
  <2> SUFFICES ASSUME Inv, [Next]_vars, NEW j \in JobIds, Terminal(j)
               PROVE  jobs'[j] = jobs[j] /\ paid'[j] = paid[j]
    OBVIOUS
  <2>1. ASSUME NEW i \in JobIds, JobStep(i)
        PROVE  jobs'[j] = jobs[j] /\ paid'[j] = paid[j]
    <3>1. CASE Create(i)
      <4>1. i # j
        BY <3>1 DEF Create, CreateJob, Terminal, InStatus
      <4>2. QED
        BY <3>1, <4>1 DEF Create, CreateJob, Inv, TypeOK
    <3>2. CASE Dispute(i)
      BY <3>2 DEF Dispute, Terminal, InStatus, Inv, TypeOK
    <3>3. CASE Payout(i)
      <4>1. i # j
        BY <3>3 DEF Payout, OpenJob, Terminal, InStatus
      <4>2. QED
        BY <3>3, <4>1 DEF Payout, Update, Transfer, Inv, TypeOK
    <3>4. QED
      BY <2>1, <3>1, <3>2, <3>3, CallsArePayouts DEF JobStep
  <2>2. CASE jobs' = jobs /\ paid' = paid
    BY <2>2
  <2>3. QED
    BY <2>1, <2>2
       DEF Next, AdminStep, Initialize, AllowToken, RemoveToken,
           CloseLedger, SetBlocked, vars
<1>2. QED
  BY <1>1, SpecInv, PTL DEF Spec, TerminalIsFinal

-----------------------------------------------------------------------------
\* What the contract holds adds up job by job only if the jobs are finitely
\* many, which they are because every one of them was created by a call.
JobsAreFinite == IsFiniteSet({j \in JobIds : Exists(j)})

CustodyInv == Inv /\ JobsAreFinite /\ Custody

\* The jobs of a token are finitely many, and their remainders integers.
LEMMA JobsInAToken ==
    ASSUME Inv, JobsAreFinite, NEW t \in Tokens
    PROVE  /\ IsFiniteSet(JobsIn(t))
           /\ \A j \in JobsIn(t) : jobs[j] \in Job /\ jobs[j].remaining \in Nat
<1>1. JobsIn(t) \in SUBSET {j \in JobIds : Exists(j)}
  BY DEF JobsIn
<1>2. IsFiniteSet(JobsIn(t))
  BY <1>1, FS_Subset DEF JobsAreFinite
<1>3. \A j \in JobsIn(t) : jobs[j] \in Job
  BY DEF JobsIn, Exists, Inv, TypeOK
<1>4. QED
  BY <1>2, <1>3 DEF Job

\* What a token owes is a sum over a function of its jobs.
LEMMA OwedIsSum ==
    ASSUME NEW t
    PROVE  Owed(t) = SumFunctionOnSet([j \in JobsIn(t) |-> jobs[j].remaining], JobsIn(t))
BY DEF Owed, SumFunction

\* A payment lowers what its token owes by what is paid, and no other token.
LEMMA PayoutKeepsCustody ==
    ASSUME CustodyInv, NEW j \in JobIds, Payout(j)
    PROVE  JobsAreFinite' /\ Custody'
<1>1. PICK c \in Nat, f \in Nat, left \in Nat, s \in Status :
        /\ c + f + left = jobs[j].remaining
        /\ Update(j, left, s)
        /\ Transfer(j, c, f)
  BY DEF Payout
<1>2. /\ Inv /\ OpenJob(j)
      /\ jobs[j] \in Job /\ jobs[j].remaining \in Nat \ {0} /\ Exists(j)
  BY OpenJobHolds DEF Payout, OpenJob, InStatus, CustodyInv
<1> DEFINE new == [jobs[j] EXCEPT !.remaining = left, !.status = s]
<1>3. new # NoJob /\ new.remaining = left /\ new.token = jobs[j].token
  BY <1>2, EscrowAssumption DEF Job
<1>4. \A i \in JobIds : jobs'[i] = IF i = j THEN new ELSE jobs[i]
  BY <1>1, <1>2 DEF Update, Inv, TypeOK
<1> HIDE DEF new
<1>5. \A i \in JobIds : Exists(i)' <=> Exists(i)
  BY <1>2, <1>3, <1>4 DEF Exists
<1>6. JobsAreFinite'
  <2>1. {i \in JobIds : Exists(i)}' = {i \in JobIds : Exists(i)}
    BY <1>5
  <2>2. QED
    BY <2>1 DEF JobsAreFinite, CustodyInv
<1>7. \A t : JobsIn(t)' = JobsIn(t)
  BY <1>2, <1>3, <1>4, <1>5 DEF JobsIn
<1>8. held' = [held EXCEPT ![jobs[j].token] = @ - (c + f)]
  BY <1>1 DEF Transfer
<1>9. ASSUME NEW t \in Tokens
      PROVE  held'[t] = Owed(t)'
  <2> DEFINE S == JobsIn(t)
             old == [i \in S |-> jobs[i].remaining]
             next == [i \in S |-> jobs'[i].remaining]
  <2>1. IsFiniteSet(S) /\ \A i \in S : old[i] \in Int
    BY <1>2, JobsInAToken DEF CustodyInv
  <2>2. held[t] = SumFunctionOnSet(old, S) /\ held[t] \in Nat
    BY OwedIsSum DEF CustodyInv, Custody, Inv, TypeOK
  <2>3. Owed(t)' = SumFunctionOnSet(next, S)
    <3>1. Owed(t)' = SumFunctionOnSet([i \in S |-> jobs[i].remaining]', S')
      BY DEF Owed, SumFunction
    <3>2. QED
      BY <3>1, <1>7
  <2>4. \A i \in S : next[i] = IF i = j THEN left ELSE old[i]
    BY <1>3, <1>4 DEF JobsIn
  <2>5. \A i \in S : next[i] \in Int
    BY <2>1, <2>4
  <2>6. CASE t = jobs[j].token
    <3>1. j \in S /\ old[j] = c + f + left
      BY <1>1, <1>2, <2>6 DEF JobsIn
    <3>2. next[j] = left
      BY <2>4, <3>1
    <3> HIDE DEF S, old, next
    <3>3. SumFunctionOnSet(next, S) = SumFunctionOnSet(old, S) + next[j] - old[j]
      <4>1. \A i \in S \ {j} : old[i] = next[i]
        BY <2>4
      <4>2. IsFiniteSet(S) /\ j \in S /\ \A i \in S : old[i] \in Int /\ next[i] \in Int
        BY <2>1, <2>5, <3>1
      <4>3. QED
        BY ONLY <4>1, <4>2, SumOfChanged
    <3>4. held'[t] = held[t] - (c + f)
      <4>1. held \in [Tokens -> Nat]
        BY DEF CustodyInv, Inv, TypeOK
      <4>2. QED
        BY <1>8, <2>6, <4>1
    <3>5. QED
      BY <2>2, <2>3, <3>1, <3>2, <3>3, <3>4
  <2>7. CASE t # jobs[j].token
    <3>1. j \notin S
      BY <2>7 DEF JobsIn
    <3>2. \A i \in S : next[i] = old[i]
      BY <2>4, <3>1
    <3>3. held'[t] = held[t]
      BY <1>8, <2>7 DEF CustodyInv, Inv, TypeOK
    <3> HIDE DEF S, old, next
    <3>4. SumFunctionOnSet(next, S) = SumFunctionOnSet(old, S)
      BY <2>1, <3>2, SumOfEqual
    <3>5. QED
      BY <2>2, <2>3, <3>3, <3>4
  <2>8. QED
    BY <2>6, <2>7
<1>10. QED
  BY <1>6, <1>9 DEF Custody

\* A new job raises what its token owes by its amount.
LEMMA CreateKeepsCustody ==
    ASSUME CustodyInv, NEW j \in JobIds, Create(j)
    PROVE  JobsAreFinite' /\ Custody'
<1>1. PICK c \in Accounts, f \in Accounts, tok \in Tokens, e \in Ledgers :
        \E amount \in 1 .. wallet[tok][c] : CreateJob(j, c, f, tok, amount, e)
  BY DEF Create
<1>2. PICK amount \in 1 .. wallet[tok][c] : CreateJob(j, c, f, tok, amount, e)
  BY <1>1
<1>3. amount \in Nat \ {0}
  BY DEF Inv, TypeOK, CustodyInv
<1> DEFINE new == [client |-> c, freelancer |-> f, token |-> tok,
                   amount |-> amount, remaining |-> amount,
                   status |-> "Escrowed", expiry |-> e, disputeExpiry |-> 0]
<1>4. new # NoJob /\ new.remaining = amount /\ new.token = tok
  BY <1>3, EscrowAssumption DEF Job, Status, Ledgers
<1>5. jobs' = [jobs EXCEPT ![j] = new] /\ held' = [held EXCEPT ![tok] = @ + amount] /\ ~Exists(j)
  BY <1>2 DEF CreateJob
<1> HIDE DEF new
<1>6. \A i \in JobIds : jobs'[i] = IF i = j THEN new ELSE jobs[i]
  BY <1>5 DEF Inv, TypeOK, CustodyInv
<1>7. JobsAreFinite'
  <2>1. {i \in JobIds : Exists(i)}' = {i \in JobIds : Exists(i)} \union {j}
    BY <1>4, <1>6 DEF Exists
  <2>2. QED
    BY <2>1, FS_AddElement DEF JobsAreFinite, CustodyInv
<1>8. \A t : JobsIn(t)' = IF t = tok THEN JobsIn(t) \union {j} ELSE JobsIn(t)
  BY <1>4, <1>5, <1>6 DEF JobsIn, Exists
<1>9. ASSUME NEW t \in Tokens
      PROVE  held'[t] = Owed(t)'
  <2> DEFINE S == JobsIn(t)
             old == [i \in S |-> jobs[i].remaining]
             T == JobsIn(t)'
             next == [i \in T |-> jobs'[i].remaining]
  <2>0. j \notin S
    BY <1>5 DEF JobsIn
  <2>1. IsFiniteSet(S) /\ j \notin S /\ \A i \in S : old[i] \in Int
    BY <2>0, JobsInAToken DEF CustodyInv
  <2>2. held[t] = SumFunctionOnSet(old, S) /\ held[t] \in Nat
    BY OwedIsSum DEF CustodyInv, Custody, Inv, TypeOK
  <2>3. Owed(t)' = SumFunctionOnSet(next, T)
    BY DEF Owed, SumFunction
  <2>4. T \subseteq S \union {j} /\ S \subseteq T
    BY <1>8
  <2>5. \A i \in S : next[i] = old[i]
    BY <1>6, <2>1, <2>4 DEF JobsIn
  <2>6. SumFunctionOnSet(next, S) = SumFunctionOnSet(old, S)
    <3> HIDE DEF S, old, next
    <3>1. QED
      BY <2>1, <2>5, SumOfEqual
  <2>7. CASE t = tok
    <3>1. T = S \union {j} /\ next[j] = amount
      BY <1>4, <1>6, <1>8, <2>7
    <3>2. \A i \in S \union {j} : next[i] \in Int
      BY <1>3, <2>1, <2>5, <3>1
    <3>3. held'[t] = held[t] + amount
      BY <1>5, <2>7 DEF CustodyInv, Inv, TypeOK
    <3> HIDE DEF S, T, old, next
    <3>4. SumFunctionOnSet(next, S \union {j}) = next[j] + SumFunctionOnSet(next, S)
      BY <2>1, <3>2, SumWith
    <3>5. QED
      BY <1>3, <2>2, <2>3, <2>6, <3>1, <3>3, <3>4
  <2>8. CASE t # tok
    <3>1. T = S
      BY <1>8, <2>8
    <3>2. held'[t] = held[t]
      BY <1>5, <2>8 DEF CustodyInv, Inv, TypeOK
    <3>3. QED
      BY <2>2, <2>3, <2>6, <3>1, <3>2
  <2>9. QED
    BY <2>7, <2>8
<1>10. QED
  BY <1>7, <1>9 DEF Custody

\* A step that moves no money and changes no remainder, token or existence of a
\* job leaves what is owed as it is.
LEMMA QuietStepKeepsCustody ==
    ASSUME CustodyInv, held' = held,
           \A j \in JobIds : /\ Exists(j)' <=> Exists(j)
                             /\ Exists(j) => /\ jobs'[j].token = jobs[j].token
                                             /\ jobs'[j].remaining = jobs[j].remaining
    PROVE  JobsAreFinite' /\ Custody'
<1>1. {j \in JobIds : Exists(j)}' = {j \in JobIds : Exists(j)}
  OBVIOUS
<1>2. JobsAreFinite'
  BY <1>1 DEF JobsAreFinite, CustodyInv
<1>3. \A t : JobsIn(t)' = JobsIn(t)
  BY DEF JobsIn
<1>4. ASSUME NEW t \in Tokens
      PROVE  Owed(t)' = Owed(t)
  <2>1. [j \in JobsIn(t) |-> jobs[j].remaining]' = [j \in JobsIn(t) |-> jobs[j].remaining]
    BY <1>3 DEF JobsIn
  <2>2. QED
    BY <2>1 DEF Owed
<1>5. QED
  BY <1>2, <1>4 DEF Custody, CustodyInv

\* With no job, nothing is owed and nothing is held.
LEMMA InitCustody == Init => CustodyInv
<1> SUFFICES ASSUME Init PROVE CustodyInv
  OBVIOUS
<1>1. {j \in JobIds : Exists(j)} = {}
  BY DEF Init, Exists
<1>2. JobsAreFinite
  BY <1>1, FS_EmptySet DEF JobsAreFinite
<1>3. ASSUME NEW t \in Tokens
      PROVE  held[t] = Owed(t)
  <2>1. JobsIn(t) = {}
    BY <1>1 DEF JobsIn
  <2>2. Owed(t) = 0
    BY <2>1, OwedIsSum, SumEmpty
  <2>3. QED
    BY <2>2 DEF Init
<1>4. QED
  BY <1>2, <1>3, InitInv DEF CustodyInv, Custody

\* Every step keeps what is held and what is owed the same.
LEMMA NextKeepsCustody == CustodyInv /\ [Next]_vars => CustodyInv'
<1> SUFFICES ASSUME CustodyInv, [Next]_vars
             PROVE  CustodyInv'
  OBVIOUS
<1>1. Inv /\ Inv'
  BY NextKeepsInv DEF CustodyInv
<1>2. ASSUME NEW j \in JobIds, JobStep(j)
      PROVE  JobsAreFinite' /\ Custody'
  <2>1. CASE Create(j)
    BY <2>1, CreateKeepsCustody
  <2>2. CASE Payout(j)
    BY <2>2, PayoutKeepsCustody
  <2>3. CASE Dispute(j)
    <3>1. jobs[j] \in Job /\ Exists(j)
      BY <1>1, <2>3, OpenJobHolds DEF Dispute, OpenJob, InStatus
    <3> DEFINE new == [jobs[j] EXCEPT !.status = "Disputed",
                                      !.disputeExpiry = now + DisputeTimeout]
    <3>2. \A i \in JobIds : jobs'[i] = IF i = j THEN new ELSE jobs[i]
      BY <1>1, <2>3 DEF Dispute, Inv, TypeOK
    <3>3. new.token = jobs[j].token /\ new.remaining = jobs[j].remaining
      BY <3>1 DEF Job
    <3>4. new # NoJob
      <4>1. jobs'[j] \in Job
        BY <1>1, <2>3, DisputedJob
      <4>2. QED
        BY <3>2, <4>1, EscrowAssumption
    <3> HIDE DEF new
    <3>5. \A i \in JobIds : /\ Exists(i)' <=> Exists(i)
                            /\ Exists(i) => /\ jobs'[i].token = jobs[i].token
                                            /\ jobs'[i].remaining = jobs[i].remaining
      BY <3>1, <3>2, <3>3, <3>4 DEF Exists
    <3>6. QED
      BY <2>3, <3>5, QuietStepKeepsCustody DEF Dispute
  <2>4. QED
    BY <1>1, <1>2, <2>1, <2>2, <2>3, CallsArePayouts DEF JobStep
<1>3. ASSUME jobs' = jobs, held' = held
      PROVE  JobsAreFinite' /\ Custody'
  BY <1>3, QuietStepKeepsCustody DEF Exists
<1>4. JobsAreFinite' /\ Custody'
  BY <1>2, <1>3 DEF Next, AdminStep, Initialize, AllowToken, RemoveToken,
                    CloseLedger, SetBlocked, vars
<1>5. QED
  BY <1>1, <1>4 DEF CustodyInv

\* On every token, the contract holds exactly what its open jobs are still
\* owed: no call pays one job out of another's money or leaves any behind.
THEOREM HoldsWhatItOwes == Spec => []Custody
<1>1. Spec => []CustodyInv
  BY InitCustody, NextKeepsCustody, PTL DEF Spec
<1>2. CustodyInv => Custody
  BY DEF CustodyInv
<1>3. QED
  BY <1>1, <1>2, PTL

-----------------------------------------------------------------------------
\* A call on another job leaves a job and its payments as they are.
LEMMA OtherJobsStay ==
    ASSUME Inv, NEW i \in JobIds, JobStep(i), NEW j \in JobIds, i # j
    PROVE  jobs'[j] = jobs[j] /\ paid'[j] = paid[j]
<1>1. CASE Create(i)
  BY <1>1 DEF Create, CreateJob, Inv, TypeOK
<1>2. CASE Dispute(i)
  BY <1>2 DEF Dispute, Inv, TypeOK
<1>3. CASE Payout(i)
  BY <1>3 DEF Payout, Update, Transfer, Inv, TypeOK
<1>4. QED
  BY <1>1, <1>2, <1>3, CallsArePayouts DEF JobStep

\* What the write and the transfers of a payout leave of the job itself.
LEMMA PaidJob ==
    ASSUME Inv, NEW j \in JobIds, jobs[j] \in Job, NEW c \in Nat, NEW f \in Nat,
           NEW left, NEW s, Update(j, left, s), Transfer(j, c, f)
    PROVE  /\ jobs'[j].remaining = left
           /\ jobs'[j].status = s
           /\ paid'[j].client = paid[j].client + c
           /\ paid'[j].freelancer = paid[j].freelancer + f
BY DEF Update, Transfer, Inv, TypeOK, Job

\* A job in dispute stays as it is, its deadline included, until the admin's
\* decision pays all of it to one party or, strictly after the deadline, the
\* fallback splits it without favouring the freelancer.
THEOREM DisputedJobsAreFrozen == Spec => DisputeFreeze
<1> DEFINE Frozen(j) ==
      InStatus(j, "Disputed") /\ <<jobs'[j], paid'[j]>> # <<jobs[j], paid[j]>> =>
        LET c == paid'[j].client - paid[j].client
            f == paid'[j].freelancer - paid[j].freelancer
        IN  /\ jobs'[j].status \in {"Released", "Refunded"} /\ jobs'[j].remaining = 0
            /\ \/ \E toFreelancer \in BOOLEAN : ResolveDispute(j, toFreelancer)
               \/ now > jobs[j].disputeExpiry /\ f <= c /\ c <= f + 1
<1>1. ASSUME Inv, [Next]_vars, NEW j \in JobIds
      PROVE  Frozen(j)
  <2> SUFFICES ASSUME InStatus(j, "Disputed"),
                      <<jobs'[j], paid'[j]>> # <<jobs[j], paid[j]>>
               PROVE  Frozen(j)
    OBVIOUS
  <2>1. /\ jobs[j] \in Job /\ jobs[j].remaining \in Nat
        /\ paid[j].client \in Nat /\ paid[j].freelancer \in Nat
        /\ jobs[j].status = "Disputed" /\ Exists(j)
    BY <1>1, OpenJobHolds DEF OpenJob, InStatus, Inv, TypeOK
  <2>2. JobStep(j)
    <3>1. CASE \E i \in JobIds : JobStep(i)
      BY <1>1, <3>1, OtherJobsStay
    <3>2. CASE jobs' = jobs /\ paid' = paid
      BY <3>2
    <3>3. QED
      BY <1>1, <3>1, <3>2 DEF Next, AdminStep, Initialize, AllowToken, RemoveToken,
                              CloseLedger, SetBlocked, vars
  <2>3. ASSUME NEW toFreelancer \in BOOLEAN, ResolveDispute(j, toFreelancer)
        PROVE  Frozen(j)
    <3> DEFINE left == jobs[j].remaining
    <3>1. CASE toFreelancer
      <4>1. Update(j, 0, "Released") /\ Transfer(j, 0, left)
        BY <2>3, <3>1 DEF ResolveDispute
      <4>2. jobs'[j].remaining = 0 /\ jobs'[j].status = "Released"
        BY <1>1, <2>1, <4>1, PaidJob
      <4>3. QED
        BY <2>3, <4>2
    <3>2. CASE ~toFreelancer
      <4>1. Update(j, 0, "Refunded") /\ Transfer(j, left, 0)
        BY <2>3, <3>2 DEF ResolveDispute
      <4>2. jobs'[j].remaining = 0 /\ jobs'[j].status = "Refunded"
        BY <1>1, <2>1, <4>1, PaidJob
      <4>3. QED
        BY <2>3, <4>2
    <3>3. QED
      BY <3>1, <3>2
  <2>4. CASE ResolveStaleDispute(j)
    <3> DEFINE share == jobs[j].remaining \div 2
               rest == jobs[j].remaining - share
    <3>1. share \in Nat /\ rest \in Nat /\ share <= rest /\ rest <= share + 1
      <4>1. \A n \in Nat : LET h == n \div 2 IN h \in Nat /\ h <= n - h /\ n - h <= h + 1
        OBVIOUS
      <4>2. QED
        BY <2>1, <4>1
    <3>2. Update(j, 0, "Refunded") /\ Transfer(j, rest, share) /\ now > jobs[j].disputeExpiry
      BY <2>4 DEF ResolveStaleDispute
    <3> HIDE DEF share, rest
    <3>3. /\ jobs'[j].remaining = 0 /\ jobs'[j].status = "Refunded"
          /\ paid'[j].client = paid[j].client + rest
          /\ paid'[j].freelancer = paid[j].freelancer + share
      BY <1>1, <2>1, <3>1, <3>2, PaidJob
    <3>4. QED
      BY <2>1, <3>1, <3>2, <3>3
  <2>5. QED
    BY <2>1, <2>2, <2>3, <2>4
       DEF JobStep, Create, CreateJob, Partial, ReleasePartial, ReleaseEscrow, Dispute,
           CancelJob, InStatus
<1>2. Inv /\ [Next]_vars => [\A j \in JobIds : Frozen(j)]_vars
  <2> HIDE DEF Frozen
  <2>1. QED
    BY <1>1
<1>3. QED
  BY <1>2, SpecInv, PTL DEF Spec, DisputeFreeze

-----------------------------------------------------------------------------
(* Sponsored accounts *)

\* The offer of a row can still create its account.
Alive(r) == r \notin lapsed /\ rows[r].tx > sequence

\* A row that keeps track of the reserve of its account, or was closed as the
\* property allows.
Kept(r) == rows[r].state \in Holding \/ r \in guessed \/ (r \in direct /\ rows[r].state = "closed")

\* What a row says of its own past: closed rows were released, and one whose
\* transaction may be with the ledger is submitted, or was closed on a guess.
\* What the donor submits past the backend, no row tells of.
RowFits(r) ==
    /\ rows[r].state \in TerminalStates => r \in released
    /\ rows[r].state # "none" => rows[r].reserved = 1 \/ r \in released
    /\ rows[r].state = "none" => rows[r].tx = NoTx
    /\ rows[r].tx <= sequence + 1
    /\ rows[r].state = "reclaimed" => r \in applied
    /\ r \in applied \union limbo => rows[r].tx # NoTx
    /\ r \in limbo \union (applied \ direct) => rows[r].state \notin Pending
    /\ r \in limbo \ applied /\ Alive(r) => rows[r].state = "submitted" \/ r \in guessed

\* A request owns its row until it has stored the offer; while it holds the
\* lock there is room for the row it will insert.
RequestFits(c) ==
    /\ calls[c].at \in {"start", "asked", "locked", "inserted", "built", "done", "stopped"}
    /\ calls[c].at \in {"start", "asked", "locked"} => rows[c].state = "none"
    /\ calls[c].at \in {"start", "asked", "locked", "inserted", "built"} => rows[c].tx = NoTx
    /\ calls[c].at \in {"inserted", "built"} => rows[c].state # "none"
    /\ calls[c].at = "built" => calls[c].tx \in 1 .. sequence + 1
    /\ calls[c].at = "locked" => Cardinality(Held \ released) < Limit

OneLock == \A c, d \in Requests : calls[c].at = "locked" /\ calls[d].at = "locked" => c = d

\* What a submission knows of the row it read: the ledger created the account,
\* or will never do so, or the row shows that it still can.
SubmitFits(c) ==
    LET r == calls[c].row IN
    /\ calls[c].at \in {"start", "late", "read", "marked", "created", "unanswered", "refused", "done", "stopped"}
    /\ calls[c].at \in {"read", "marked", "created", "unanswered", "refused"} => rows[r].tx # NoTx
    /\ calls[c].at \in {"marked", "created", "unanswered", "refused"} => rows[r].state \notin Pending
    /\ calls[c].at = "marked" /\ r \notin applied /\ Alive(r) => rows[r].state = "submitted" \/ r \in guessed
    /\ calls[c].at = "created" => r \in applied
    /\ calls[c].at = "refused" => r \notin applied /\ ~Alive(r)

\* A reclaim is about an account that was created, and once it has revoked the
\* sponsorship the account is the donor's for good.
ReclaimFits(c) ==
    LET r == calls[c].row IN
    /\ calls[c].at \in {"start", "read", "funded", "loaded", "revoked", "refused", "done", "stopped"}
    /\ calls[c].at \in {"read", "funded", "loaded", "revoked", "refused"} => r \in applied
    /\ calls[c].at = "revoked" => account[rows[r].key] = "own"

CallsFit ==
    /\ \A c \in Requests : RequestFits(c)
    /\ OneLock
    /\ \A c \in Submits : SubmitFits(c)
    /\ \A c \in Reclaims : ReclaimFits(c)

ReservesInv == RowsFollowLedger /\ (\A r \in Requests : RowFits(r)) /\ CallsFit

\* Types of the parts.
LEMMA RowTypes ==
    ASSUME SponsorshipTypes
    PROVE  /\ \A r \in Requests : /\ rows[r] \in Row /\ rows[r].key \in Keys /\ rows[r].tx \in Nat
                                  /\ rows[r].reserved \in 0 .. 1 /\ rows[r].locked \in 0 .. 1
                                  /\ rows[r].state \in Holding \union TerminalStates \union {"none"}
           /\ \A c \in Calls : calls[c] \in Call /\ calls[c].row \in Requests /\ calls[c].tx \in Nat
           /\ sequence \in Nat
<1>1. ASSUME NEW r \in Requests
      PROVE  /\ rows[r] \in Row /\ rows[r].key \in Keys /\ rows[r].tx \in Nat
             /\ rows[r].reserved \in 0 .. 1 /\ rows[r].locked \in 0 .. 1
             /\ rows[r].state \in Holding \union TerminalStates \union {"none"}
  BY DEF SponsorshipTypes, Row
<1>2. ASSUME NEW c \in Calls PROVE calls[c] \in Call /\ calls[c].row \in Requests /\ calls[c].tx \in Nat
  BY DEF SponsorshipTypes, Call
<1>3. sequence \in Nat
  BY DEF SponsorshipTypes
<1> QED
  BY <1>1, <1>2, <1>3

\* The rows that hold capacity and were never released are finitely many, and
\* a subset of them is no more.
LEMMA FewHeld ==
    /\ IsFiniteSet(Held \ released) /\ Cardinality(Held \ released) \in Nat
    /\ IsFiniteSet((Held \ released)') /\ Cardinality((Held \ released)') \in Nat
    /\ (Held \ released)' \subseteq Held \ released =>
           Cardinality((Held \ released)') <= Cardinality(Held \ released)
<1>1. IsFiniteSet(Requests) /\ Held \ released \subseteq Requests /\ (Held \ released)' \subseteq Requests
  BY SponsorshipAssumption DEF Held
<1>2. IsFiniteSet(Held \ released) /\ IsFiniteSet((Held \ released)')
  BY <1>1, FS_Subset
<1> QED
  BY <1>2, FS_Subset, FS_CardinalityType

\* The three kinds of calls are apart.
LEMMA Kinds ==
    /\ \A c \in Requests : c \in Calls /\ c \notin Submits /\ c \notin Reclaims
    /\ \A c \in Submits : c \in Calls /\ c \notin Requests /\ c \notin Reclaims
    /\ \A c \in Reclaims : c \in Calls /\ c \notin Requests /\ c \notin Submits
  BY SponsorshipAssumption DEF Calls

\* Where a call goes.
LEMMA GoesTo ==
    ASSUME SponsorshipTypes, NEW c \in Calls, NEW at, Goes(c, at),
           at \in {"locked", "inserted", "marked", "created", "unanswered", "funded", "revoked",
                   "refused", "done", "stopped"}
    PROVE  /\ calls' \in [Calls -> Call]
           /\ calls'[c].at = at
           /\ at # "done" => calls'[c].row = calls[c].row
           /\ \A d \in Calls : d # c => calls'[d] = calls[d]
<1>1. Idle \in Call /\ Done \in Call /\ Done.at = "done"
  <2>1. (CHOOSE r \in Requests : TRUE) \in Requests /\ (CHOOSE k \in Keys : TRUE) \in Keys
    BY SponsorshipAssumption
  <2>2. Idle \in Call
    BY <2>1 DEF Idle, Call, NoTx
  <2> QED
    BY <2>2 DEF Done, Call
<1>2. PICK m \in Call : m = calls[c]
  BY DEF SponsorshipTypes
<1>3. [m EXCEPT !.at = at] \in Call
  BY DEF Call
<1>4. calls' = [calls EXCEPT ![c] = IF at = "done" THEN Done ELSE [m EXCEPT !.at = at]]
  BY <1>2 DEF Goes
<1>5. calls \in [Calls -> Call]
  BY DEF SponsorshipTypes
<1>6. calls'[c] = IF at = "done" THEN Done ELSE [m EXCEPT !.at = at]
  BY <1>4, <1>5
<1>7. calls'[c].at = at /\ (at # "done" => calls'[c].row = calls[c].row)
  BY <1>1, <1>2, <1>6 DEF Call
<1> QED
  BY <1>1, <1>3, <1>4, <1>5, <1>7

\* A step that changes nothing but where one call is.
LEMMA CallMoves ==
    ASSUME ReservesInv, NEW c \in Calls, calls' \in [Calls -> Call],
           \A d \in Calls : d # c => calls'[d] = calls[d],
           UNCHANGED <<rows, ledger, clock, history, faults>>,
           c \in Requests => RequestFits(c)',
           c \in Requests /\ calls'[c].at = "locked" => \A d \in Requests : calls[d].at # "locked",
           c \in Submits => SubmitFits(c)',
           c \in Reclaims => ReclaimFits(c)'
    PROVE  ReservesInv'
<1>0. RowsFollowLedger /\ (\A r \in Requests : RowFits(r)) /\ CallsFit
  BY DEF ReservesInv
<1>1. /\ rows' = rows /\ account' = account /\ sequence' = sequence /\ applied' = applied /\ limbo' = limbo /\ direct' = direct
      /\ expired' = expired /\ lapsed' = lapsed /\ guessed' = guessed /\ released' = released /\ faults' = faults
  BY DEF ledger, clock, history
<1>2. RowsFollowLedger'
  BY <1>0, <1>1 DEF RowsFollowLedger, SponsorshipTypes, ReserveIsTracked, ActiveIsCreated, WithinLimits, Held, Sponsored
<1>3. \A r \in Requests : RowFits(r)'
  BY <1>0, <1>1 DEF RowFits, Alive
<1>4. ASSUME NEW d \in Requests PROVE RequestFits(d)'
  <2>1. CASE d # c
    <3>1. calls'[d] = calls[d] /\ RequestFits(d)
      BY <1>0, <2>1, Kinds DEF CallsFit
    <3> QED
      BY <1>1, <3>1 DEF RequestFits, Held
  <2> QED
    BY <2>1
<1>5. OneLock'
  <2>1. \A d \in Requests : d # c => calls'[d] = calls[d]
    BY Kinds
  <2> QED
    BY <1>0, <2>1 DEF CallsFit, OneLock
<1>6. ASSUME NEW d \in Submits PROVE SubmitFits(d)'
  <2>1. CASE d # c
    <3>1. calls'[d] = calls[d] /\ SubmitFits(d)
      BY <1>0, <2>1, Kinds DEF CallsFit
    <3> QED
      BY <1>1, <3>1 DEF SubmitFits, Alive
  <2> QED
    BY <2>1
<1>7. ASSUME NEW d \in Reclaims PROVE ReclaimFits(d)'
  <2>1. CASE d # c
    <3>1. calls'[d] = calls[d] /\ ReclaimFits(d)
      BY <1>0, <2>1, Kinds DEF CallsFit
    <3> QED
      BY <1>1, <3>1 DEF ReclaimFits
  <2> QED
    BY <2>1
<1> QED
  BY <1>2, <1>3, <1>4, <1>5, <1>6, <1>7 DEF ReservesInv, CallsFit

\* A row is closed: while it was only an offer, without knowing what the
\* ledger did, after the ledger can no longer create the account, or after the
\* ledger no longer charges the sponsor for it.
Closes(r) ==
    /\ rows[r].state # "none" /\ rows'[r].state \in TerminalStates /\ r \in released'
    /\ rows'[r].key = rows[r].key /\ rows'[r].tx = rows[r].tx
    /\ rows'[r].state = "reclaimed" => r \in applied
    /\ \/ rows[r].state \in Pending \union TerminalStates /\ rows'[r].state = "closed"
       \/ r \in guessed'
       \/ r \notin applied /\ ~Alive(r)
       \/ r \in applied /\ ~Sponsored(rows[r].key)

\* A step that only closes rows of requests and ends calls keeps ReservesInv.
LEMMA ClosingKeeps ==
    ASSUME ReservesInv,
           rows' \in [Requests -> Row], \A r \in Requests : rows'[r] = rows[r] \/ Closes(r),
           calls' \in [Calls -> Call],
           \A c \in Calls : calls'[c] = calls[c] \/ calls'[c].at \in {"done", "stopped"},
           UNCHANGED <<account, sequence, applied, limbo, direct>>, faults' \in 0 .. MaxFaults,
           lapsed \subseteq lapsed', lapsed' \subseteq expired', expired' \subseteq Requests,
           guessed \subseteq guessed', guessed' \subseteq Requests,
           released \subseteq released', released' \subseteq Requests
    PROVE  ReservesInv'
<1>0. /\ SponsorshipTypes /\ ReserveIsTracked /\ ActiveIsCreated /\ WithinLimits
      /\ \A r \in Requests : RowFits(r)
      /\ CallsFit
  BY DEF ReservesInv, RowsFollowLedger
<1>1. SponsorshipTypes'
  BY <1>0 DEF SponsorshipTypes
<1>2. ASSUME NEW r \in Requests
      PROVE  /\ rows'[r].key = rows[r].key /\ rows'[r].tx = rows[r].tx
             /\ rows'[r] # rows[r] => Closes(r)
             /\ Alive(r)' => Alive(r)
  BY <1>2 DEF Closes, Alive
<1>3. ReserveIsTracked'
  <2> SUFFICES ASSUME NEW k \in Keys, Sponsored(k)'
               PROVE  \E r \in applied' : rows'[r].key = k /\ Kept(r)'
    BY DEF ReserveIsTracked, Kept
  <2>1. Sponsored(k)
    BY DEF Sponsored
  <2>2. PICK r \in applied : rows[r].key = k /\ Kept(r)
    BY <1>0, <2>1 DEF ReserveIsTracked, Kept
  <2>3. r \in Requests /\ RowFits(r)
    BY <1>0 DEF SponsorshipTypes
  <2>4. CASE Closes(r)
    <3>1. rows[r].state \in Pending \union TerminalStates => r \in guessed \/ r \in direct
      BY <2>2, <2>3 DEF RowFits, Kept, TerminalStates, Holding, Pending
    <3>2. r \in guessed' \/ (r \in direct' /\ rows'[r].state = "closed")
      BY <2>1, <2>2, <2>4, <3>1 DEF Closes
    <3> QED
      BY <1>2, <2>2, <2>3, <3>2 DEF Kept
  <2>5. CASE rows'[r] = rows[r]
    BY <2>2, <2>5 DEF Kept
  <2> QED
    BY <1>2, <2>2, <2>3, <2>4, <2>5
<1>4. ActiveIsCreated'
  <2> SUFFICES ASSUME NEW r \in Requests, rows'[r].state = "active"
               PROVE  r \in applied' /\ (rows'[r].locked = 1 \/ r \in released')
    BY DEF ActiveIsCreated
  <2>1. ~Closes(r)
    BY DEF Closes, TerminalStates
  <2> QED
    BY <1>0, <1>2, <2>1 DEF ActiveIsCreated
<1>5. (Held \ released)' \subseteq Held \ released
  <2>1. ASSUME NEW r \in Requests, rows'[r].state \in Holding, r \notin released'
        PROVE  rows[r].state \in Holding
    BY <1>2, <2>1 DEF Closes
  <2> QED
    BY <2>1 DEF Held
<1>6. WithinLimits'
  BY <1>0, <1>5, FewHeld, SponsorshipAssumption DEF WithinLimits
<1>7. ASSUME NEW r \in Requests PROVE RowFits(r)'
  <2>1. RowFits(r)
    BY <1>0
  <2>2. CASE Closes(r)
    <3>1. rows'[r].state \notin Pending \union {"none"} /\ rows'[r].state \in TerminalStates
      BY <2>2 DEF Closes, TerminalStates, Pending
    <3>2. r \in limbo \ applied /\ Alive(r) => r \in guessed'
      <4> SUFFICES ASSUME r \in limbo \ applied, Alive(r) PROVE r \in guessed'
        OBVIOUS
      <4>1. rows[r].state = "submitted" \/ r \in guessed
        BY <2>1 DEF RowFits
      <4>2. rows[r].state \in Pending \union TerminalStates => r \in guessed
        BY <2>1, <4>1 DEF RowFits, Pending, TerminalStates
      <4> QED
        BY <2>2, <4>2 DEF Closes
    <3> QED
      BY <1>2, <2>1, <2>2, <3>1, <3>2 DEF RowFits, Closes
  <2> QED
    BY <1>2, <2>1, <2>2 DEF RowFits
<1>8. ASSUME NEW c \in Requests PROVE RequestFits(c)'
  <2>1. RequestFits(c) /\ c \in Calls
    BY <1>0, Kinds DEF CallsFit
  <2>2. CASE calls'[c].at \in {"done", "stopped"}
    BY <2>2 DEF RequestFits
  <2>3. CASE calls'[c] = calls[c]
    <3>1. rows[c].state = "none" => rows'[c].state = "none"
      BY <1>2 DEF Closes
    <3>2. rows[c].state # "none" => rows'[c].state # "none"
      BY <1>2 DEF Closes, TerminalStates
    <3>3. Cardinality(Held \ released) < Limit => Cardinality((Held \ released)') < Limit
      BY <1>5, FewHeld, SponsorshipAssumption
    <3> QED
      BY <1>2, <2>1, <2>3, <3>1, <3>2, <3>3 DEF RequestFits
  <2> QED
    BY <2>1, <2>2, <2>3
<1>9. OneLock'
  BY <1>0, Kinds DEF CallsFit, OneLock
<1>10. ASSUME NEW c \in Submits PROVE SubmitFits(c)'
  <2>1. SubmitFits(c) /\ c \in Calls
    BY <1>0, Kinds DEF CallsFit
  <2>2. CASE calls'[c].at \in {"done", "stopped"}
    BY <2>2 DEF SubmitFits
  <2>3. CASE calls'[c] = calls[c]
    <3> DEFINE r == calls[c].row
    <3>1. r \in Requests /\ calls'[c].row = r
      BY <1>0, <2>1, <2>3, RowTypes
    <3> HIDE DEF r
    <3>2. rows[r].state \notin Pending => rows'[r].state \notin Pending
      BY <1>2, <3>1 DEF Closes, TerminalStates, Pending
    <3>3. ASSUME calls[c].at = "marked", r \notin applied, Alive(r)
          PROVE  rows'[r].state = "submitted" \/ r \in guessed'
      <4>1. (rows[r].state = "submitted" \/ r \in guessed) /\ RowFits(r)
        BY <1>0, <2>1, <3>1, <3>3 DEF SubmitFits, r
      <4>2. rows[r].state \in Pending \union TerminalStates => r \in guessed
        BY <4>1 DEF Pending, TerminalStates
      <4>3. Closes(r) => r \in guessed'
        BY <3>3, <4>2 DEF Closes
      <4> QED
        BY <1>2, <3>1, <4>1, <4>3
    <3> QED
      BY <1>2, <2>1, <2>3, <3>1, <3>2, <3>3 DEF SubmitFits, r
  <2> QED
    BY <2>1, <2>2, <2>3
<1>11. ASSUME NEW c \in Reclaims PROVE ReclaimFits(c)'
  <2>1. ReclaimFits(c) /\ c \in Calls /\ calls[c].row \in Requests
    BY <1>0, Kinds, RowTypes DEF CallsFit
  <2>2. CASE calls'[c].at \in {"done", "stopped"}
    BY <2>2 DEF ReclaimFits
  <2>3. CASE calls'[c] = calls[c]
    BY <1>2, <2>1, <2>3 DEF ReclaimFits
  <2> QED
    BY <2>1, <2>2, <2>3
<1> QED
  BY <1>1, <1>3, <1>4, <1>6, <1>7, <1>8, <1>9, <1>10, <1>11 DEF ReservesInv, RowsFollowLedger, CallsFit

\* A row whose transaction is known becomes submitted or active, whatever it
\* was: it may have been closed, and holds capacity again.
LEMMA ReopeningKeeps ==
    ASSUME ReservesInv, NEW r \in Requests, NEW new \in Row, rows' = [rows EXCEPT ![r] = new],
           rows[r].tx # NoTx, new.tx = rows[r].tx, new.key = rows[r].key, new.reserved = rows[r].reserved,
           \/ new.state = "submitted"
           \/ new.state = "active" /\ r \in applied /\ new.locked = new.reserved,
           calls' \in [Calls -> Call],
           \A c \in Calls : \/ calls'[c] = calls[c]
                            \/ calls'[c].at \in {"done", "stopped"}
                            \/ c \in Submits /\ calls'[c].at = "marked" /\ calls'[c].row = r,
           UNCHANGED <<ledger, clock, history, faults>>
    PROVE  ReservesInv'
<1>0. /\ SponsorshipTypes /\ ReserveIsTracked /\ ActiveIsCreated /\ WithinLimits
      /\ \A q \in Requests : RowFits(q)
      /\ CallsFit
  BY DEF ReservesInv, RowsFollowLedger
<1>1. /\ account' = account /\ sequence' = sequence /\ applied' = applied /\ limbo' = limbo /\ direct' = direct
      /\ expired' = expired /\ lapsed' = lapsed /\ guessed' = guessed /\ released' = released /\ faults' = faults
  BY DEF ledger, clock, history
<1>2. SponsorshipTypes'
  BY <1>0, <1>1 DEF SponsorshipTypes
<1>3. /\ rows'[r] = new /\ \A q \in Requests : q # r => rows'[q] = rows[q]
      /\ \A q \in Requests : /\ rows'[q].key = rows[q].key /\ rows'[q].tx = rows[q].tx
                             /\ rows'[q].reserved = rows[q].reserved /\ (Alive(q)' <=> Alive(q))
  <2>1. rows'[r] = new /\ \A q \in Requests : q # r => rows'[q] = rows[q]
    BY <1>0 DEF SponsorshipTypes
  <2> QED
    BY <1>1, <2>1 DEF Alive
<1>4. /\ new.state \in Holding /\ new.state \notin Pending \union TerminalStates \union {"none"}
      /\ rows[r].state # "none"
  BY <1>0 DEF Holding, Pending, TerminalStates, RowFits
<1>5. ReserveIsTracked'
  <2> SUFFICES ASSUME NEW k \in Keys, Sponsored(k)'
               PROVE  \E q \in applied' : rows'[q].key = k /\ Kept(q)'
    BY DEF ReserveIsTracked, Kept
  <2>1. PICK q \in applied : rows[q].key = k /\ Kept(q)
    BY <1>0, <1>1 DEF ReserveIsTracked, Kept, Sponsored
  <2>2. q \in Requests
    BY <1>0 DEF SponsorshipTypes
  <2>3. Kept(q)'
    BY <1>1, <1>3, <1>4, <2>1, <2>2 DEF Kept
  <2> QED
    BY <1>1, <1>3, <2>1, <2>2, <2>3
<1>6. rows[r].reserved = 1 \/ r \in released
  BY <1>0, <1>4 DEF RowFits
<1>7. ActiveIsCreated'
  BY <1>0, <1>1, <1>3, <1>6 DEF ActiveIsCreated
<1>8. (Held \ released)' \subseteq Held \ released
  <2>1. r \notin released => rows[r].state \in Holding
    BY <1>0, <1>4, RowTypes DEF RowFits
  <2> QED
    BY <1>1, <1>3, <2>1 DEF Held
<1>9. WithinLimits'
  BY <1>0, <1>8, FewHeld, SponsorshipAssumption DEF WithinLimits
<1>10. ASSUME NEW q \in Requests PROVE RowFits(q)'
  <2>1. RowFits(q)
    BY <1>0
  <2>2. CASE q = r
    <3>1. r \in limbo \ applied /\ Alive(r) => new.state = "submitted"
      OBVIOUS
    <3> QED
      BY <1>1, <1>3, <1>4, <2>1, <2>2, <3>1 DEF RowFits
  <2>3. CASE q # r
    BY <1>1, <1>3, <2>1, <2>3 DEF RowFits
  <2> QED
    BY <2>2, <2>3
<1>11. ASSUME NEW c \in Requests PROVE RequestFits(c)'
  <2>1. RequestFits(c) /\ c \in Calls /\ c \notin Submits
    BY <1>0, Kinds DEF CallsFit
  <2>2. CASE calls'[c].at \in {"done", "stopped"}
    BY <2>2 DEF RequestFits
  <2>3. CASE calls'[c] = calls[c]
    <3>1. rows'[c].state = "none" <=> rows[c].state = "none"
      BY <1>3, <1>4
    <3>2. Cardinality(Held \ released) < Limit => Cardinality((Held \ released)') < Limit
      BY <1>8, FewHeld, SponsorshipAssumption
    <3> QED
      BY <1>1, <1>3, <2>1, <2>3, <3>1, <3>2 DEF RequestFits
  <2> QED
    BY <2>1, <2>2, <2>3
<1>12. OneLock'
  BY <1>0, Kinds DEF CallsFit, OneLock
<1>13. ASSUME NEW c \in Submits PROVE SubmitFits(c)'
  <2>1. SubmitFits(c) /\ c \in Calls
    BY <1>0, Kinds DEF CallsFit
  <2>2. CASE calls'[c].at \in {"done", "stopped"}
    BY <2>2 DEF SubmitFits
  <2>3. CASE calls'[c] = calls[c]
    <3> DEFINE q == calls[c].row
    <3>1. q \in Requests /\ calls'[c].row = q
      BY <1>0, <2>1, <2>3, RowTypes
    <3> HIDE DEF q
    <3>2. rows[q].state \notin Pending => rows'[q].state \notin Pending
      BY <1>3, <1>4, <3>1
    <3>3. ASSUME calls[c].at = "marked", q \notin applied, Alive(q)
          PROVE  rows'[q].state = "submitted" \/ q \in guessed'
      <4>1. rows[q].state = "submitted" \/ q \in guessed
        BY <2>1, <3>3 DEF SubmitFits, q
      <4> QED
        BY <1>1, <1>3, <3>1, <3>3, <4>1
    <3> QED
      BY <1>1, <1>3, <2>1, <2>3, <3>1, <3>2, <3>3 DEF SubmitFits, q
  <2>4. CASE calls'[c].at = "marked" /\ calls'[c].row = r
    BY <1>1, <1>3, <1>4, <2>4 DEF SubmitFits
  <2> QED
    BY <2>1, <2>2, <2>3, <2>4
<1>14. ASSUME NEW c \in Reclaims PROVE ReclaimFits(c)'
  <2>1. ReclaimFits(c) /\ c \in Calls /\ calls[c].row \in Requests /\ c \notin Submits
    BY <1>0, Kinds, RowTypes DEF CallsFit
  <2>2. CASE calls'[c].at \in {"done", "stopped"}
    BY <2>2 DEF ReclaimFits
  <2>3. CASE calls'[c] = calls[c]
    BY <1>1, <1>3, <2>1, <2>3 DEF ReclaimFits
  <2> QED
    BY <2>1, <2>2, <2>3
<1> QED
  BY <1>2, <1>5, <1>7, <1>9, <1>10, <1>11, <1>12, <1>13, <1>14 DEF ReservesInv, RowsFollowLedger, CallsFit

\* The ledger takes a transaction.  Afterwards it has created the account, or
\* never will; and the row of an account it creates holds capacity, or was
\* closed on a guess, unless it was the donor who submitted it.
LEMMA SettlingKeeps ==
    ASSUME ReservesInv, NEW r \in Requests, r \notin applied, Settles(r), rows[r].tx # NoTx,
           \/ /\ direct' = direct /\ rows[r].state \notin Pending
              /\ Alive(r) => rows[r].state = "submitted" \/ r \in guessed
           \/ direct' = direct \union ({r} \intersect applied'),
           UNCHANGED <<rows, clock, history, faults>>, limbo' \subseteq limbo,
           calls' \in [Calls -> Call],
           \A c \in Calls :
               \/ calls'[c] = calls[c]
               \/ /\ c \in Submits /\ calls'[c].row = r /\ rows[r].state \notin Pending
                  /\ calls'[c].at = IF r \in applied' THEN "created" ELSE "refused"
    PROVE  ReservesInv'
<1>0. /\ SponsorshipTypes /\ ReserveIsTracked /\ ActiveIsCreated /\ WithinLimits
      /\ \A q \in Requests : RowFits(q)
      /\ CallsFit
  BY DEF ReservesInv, RowsFollowLedger
<1>1. /\ rows' = rows
      /\ expired' = expired /\ lapsed' = lapsed /\ guessed' = guessed /\ released' = released /\ faults' = faults
  BY DEF clock, history
<1> DEFINE works == r \notin lapsed /\ rows[r].tx = sequence + 1 /\ account[rows[r].key] = "absent"
<1>2. /\ account' = IF works THEN [account EXCEPT ![rows[r].key] = "sponsored"] ELSE account
      /\ applied' = IF works THEN applied \union {r} ELSE applied
      /\ sequence' = IF r \notin lapsed /\ rows[r].tx = sequence + 1 THEN sequence + 1 ELSE sequence
      /\ sequence \in Nat /\ rows[r].key \in Keys /\ \A q \in Requests : rows[q].tx \in Nat
  BY <1>0, RowTypes DEF Settles
<1>3. SponsorshipTypes'
  <2>1. account' \in [Keys -> {"absent", "sponsored", "funded", "own"}]
    BY <1>0, <1>2 DEF SponsorshipTypes
  <2>2. sequence' \in Nat /\ applied' \subseteq Requests /\ limbo' \subseteq Requests
    BY <1>0, <1>2 DEF SponsorshipTypes
  <2>3. direct' \subseteq applied'
    BY <1>0, <1>2 DEF SponsorshipTypes
  <2> QED
    BY <1>0, <1>1, <2>1, <2>2, <2>3 DEF SponsorshipTypes
<1>4. /\ sequence' \in Nat /\ sequence <= sequence' /\ sequence' <= sequence + 1
      /\ applied \subseteq applied' /\ applied' \subseteq applied \union {r}
      /\ \A q \in Requests : Alive(q)' => Alive(q)
      /\ ~Alive(r)' /\ (r \in applied' => Alive(r))
  <2>1. rows[r].tx <= sequence + 1
    BY <1>0 DEF RowFits
  <2> QED
    BY <1>1, <1>2, <2>1 DEF Alive
<1>5. \A k \in Keys : /\ account[k] = "own" => account'[k] = "own"
                      /\ Sponsored(k)' => Sponsored(k) \/ (r \in applied' /\ rows[r].key = k)
  BY <1>0, <1>2 DEF Sponsored, SponsorshipTypes
<1>6. ReserveIsTracked'
  <2> SUFFICES ASSUME NEW k \in Keys, Sponsored(k)'
               PROVE  \E q \in applied' : rows'[q].key = k /\ Kept(q)'
    BY DEF ReserveIsTracked, Kept
  <2>1. CASE Sponsored(k)
    <3>1. direct \subseteq direct'
      OBVIOUS
    <3> QED
      BY <1>0, <1>1, <1>4, <2>1, <3>1 DEF ReserveIsTracked, Kept
  <2>2. CASE r \in applied' /\ rows[r].key = k
    <3>1. rows[r].state \notin {"none", "reclaimed"}
      BY <1>0 DEF RowFits
    <3>2. rows[r].state \in Holding \/ rows[r].state = "closed"
      BY <1>0, <3>1, RowTypes DEF TerminalStates
    <3>3. rows[r].state \in Holding \/ r \in guessed \/ r \in direct'
      BY <1>4, <2>2 DEF Holding
    <3>4. Kept(r)'
      BY <1>1, <3>2, <3>3 DEF Kept
    <3> QED
      BY <1>1, <2>2, <3>4
  <2> QED
    BY <1>5, <2>1, <2>2
<1>7. ActiveIsCreated' /\ WithinLimits' /\ (Held \ released)' = Held \ released
  BY <1>0, <1>1, <1>4 DEF ActiveIsCreated, WithinLimits, Held
<1>8. ASSUME NEW q \in Requests PROVE RowFits(q)'
  <2>1. RowFits(q) /\ rows[q].tx \in Nat
    BY <1>0, <1>2
  <2>2. rows[q].tx <= sequence' + 1
    BY <1>2, <1>4, <2>1 DEF RowFits
  <2>3. /\ q \in applied' \union limbo' => rows[q].tx # NoTx
        /\ q \in limbo' \union (applied' \ direct') => rows[q].state \notin Pending
        /\ rows[q].state = "reclaimed" => q \in applied'
    BY <1>4, <2>1 DEF RowFits
  <2>4. q \in limbo' \ applied' /\ Alive(q)' => rows[q].state = "submitted" \/ q \in guessed
    BY <1>4, <2>1 DEF RowFits
  <2> QED
    BY <1>1, <2>1, <2>2, <2>3, <2>4 DEF RowFits
<1>9. ASSUME NEW c \in Requests PROVE RequestFits(c)'
  <2>1. RequestFits(c) /\ c \in Calls /\ c \notin Submits
    BY <1>0, Kinds DEF CallsFit
  <2>2. calls'[c] = calls[c] /\ calls[c].tx \in Nat
    BY <1>0, <2>1, RowTypes
  <2>3. calls[c].at = "built" => calls[c].tx \in 1 .. sequence' + 1
    BY <1>2, <1>4, <2>1, <2>2 DEF RequestFits
  <2> QED
    BY <1>1, <1>7, <2>1, <2>2, <2>3 DEF RequestFits
<1>10. OneLock'
  BY <1>0, Kinds DEF CallsFit, OneLock
<1>11. ASSUME NEW c \in Submits PROVE SubmitFits(c)'
  <2>1. SubmitFits(c) /\ c \in Calls
    BY <1>0, Kinds DEF CallsFit
  <2>2. CASE calls'[c] = calls[c]
    <3>1. PICK q \in Requests : q = calls[c].row /\ q = calls'[c].row
      BY <1>0, <2>1, <2>2, RowTypes
    <3>2. calls[c].at = "refused" => q \notin applied' /\ ~Alive(q)'
      <4>1. calls[c].at = "refused" => q \notin applied /\ ~Alive(q)
        BY <2>1, <3>1 DEF SubmitFits
      <4>2. CASE q = r
        <5>1. ~Alive(r)' /\ (r \in applied' => Alive(r))
          BY <1>4
        <5> QED
          BY <4>1, <4>2, <5>1
      <4>3. CASE q # r
        BY <1>4, <4>1, <4>3
      <4> QED
        BY <4>2, <4>3
    <3>3. calls[c].at = "marked" /\ q \notin applied' /\ Alive(q)' => rows[q].state = "submitted" \/ q \in guessed
      BY <1>4, <2>1, <3>1 DEF SubmitFits
    <3> QED
      BY <1>1, <1>4, <2>1, <2>2, <3>1, <3>2, <3>3 DEF SubmitFits
  <2>3. CASE /\ calls'[c].row = r /\ rows[r].state \notin Pending
             /\ calls'[c].at = IF r \in applied' THEN "created" ELSE "refused"
    BY <1>1, <1>4, <2>3 DEF SubmitFits
  <2> QED
    BY <2>1, <2>2, <2>3
<1>12. ASSUME NEW c \in Reclaims PROVE ReclaimFits(c)'
  <2>1. ReclaimFits(c) /\ c \in Calls /\ calls[c].row \in Requests /\ c \notin Submits
    BY <1>0, Kinds, RowTypes DEF CallsFit
  <2>2. calls'[c] = calls[c] /\ rows[calls[c].row].key \in Keys
    BY <1>0, <2>1, RowTypes
  <2> QED
    BY <1>1, <1>4, <1>5, <2>1, <2>2 DEF ReclaimFits
<1> QED
  BY <1>3, <1>6, <1>7, <1>8, <1>9, <1>10, <1>11, <1>12 DEF ReservesInv, RowsFollowLedger, CallsFit

\* The ledger changes accounts otherwise: nobody's reserve is charged to the
\* sponsor anew, and an account the donor has of its own stays so.
LEMMA AccountsKeep ==
    ASSUME ReservesInv, account' \in [Keys -> {"absent", "sponsored", "funded", "own"}],
           \A k \in Keys : /\ Sponsored(k)' => Sponsored(k)
                           /\ account[k] = "own" => account'[k] = "own",
           sequence' \in Nat, sequence <= sequence',
           UNCHANGED <<rows, applied, limbo, direct, clock, history, faults>>,
           calls' \in [Calls -> Call],
           \A c \in Calls : calls'[c] = calls[c] \/ (c \in Reclaims /\ ReclaimFits(c)')
    PROVE  ReservesInv'
<1>0. /\ SponsorshipTypes /\ ReserveIsTracked /\ ActiveIsCreated /\ WithinLimits
      /\ \A q \in Requests : RowFits(q)
      /\ CallsFit
  BY DEF ReservesInv, RowsFollowLedger
<1>1. /\ rows' = rows /\ applied' = applied /\ limbo' = limbo /\ direct' = direct
      /\ expired' = expired /\ lapsed' = lapsed /\ guessed' = guessed /\ released' = released /\ faults' = faults
  BY DEF clock, history
<1>2. SponsorshipTypes'
  BY <1>0, <1>1 DEF SponsorshipTypes
<1>3. ReserveIsTracked' /\ ActiveIsCreated' /\ WithinLimits' /\ (Held \ released)' = Held \ released
  BY <1>0, <1>1 DEF ReserveIsTracked, ActiveIsCreated, WithinLimits, Held
<1>4. \A q \in Requests : (Alive(q)' => Alive(q)) /\ rows[q].tx \in Nat /\ sequence \in Nat
  BY <1>0, <1>1, RowTypes DEF Alive
<1>5. ASSUME NEW q \in Requests PROVE RowFits(q)'
  <2>1. RowFits(q) /\ rows[q].tx <= sequence' + 1
    BY <1>0, <1>4 DEF RowFits
  <2> QED
    BY <1>1, <1>4, <2>1 DEF RowFits
<1>6. ASSUME NEW c \in Requests PROVE RequestFits(c)'
  <2>1. RequestFits(c) /\ c \in Calls /\ c \notin Reclaims
    BY <1>0, Kinds DEF CallsFit
  <2>2. calls'[c] = calls[c] /\ calls[c].tx \in Nat
    BY <1>0, <2>1, RowTypes
  <2>3. calls[c].at = "built" => calls[c].tx \in 1 .. sequence' + 1
    BY <1>0, <2>1, <2>2, RowTypes DEF RequestFits
  <2> QED
    BY <1>1, <1>3, <2>1, <2>2, <2>3 DEF RequestFits
<1>7. OneLock'
  BY <1>0, Kinds DEF CallsFit, OneLock
<1>8. ASSUME NEW c \in Submits PROVE SubmitFits(c)'
  <2>1. SubmitFits(c) /\ c \in Calls /\ c \notin Reclaims
    BY <1>0, Kinds DEF CallsFit
  <2>2. calls'[c] = calls[c] /\ calls[c].row \in Requests
    BY <1>0, <2>1, RowTypes
  <2> QED
    BY <1>1, <1>4, <2>1, <2>2 DEF SubmitFits
<1>9. ASSUME NEW c \in Reclaims PROVE ReclaimFits(c)'
  <2>1. ReclaimFits(c) /\ c \in Calls /\ calls[c].row \in Requests
    BY <1>0, Kinds, RowTypes DEF CallsFit
  <2>2. CASE calls'[c] = calls[c]
    <3>1. rows[calls[c].row].key \in Keys
      BY <1>0, <2>1, RowTypes
    <3> QED
      BY <1>1, <2>1, <2>2, <3>1 DEF ReclaimFits
  <2> QED
    BY <2>1, <2>2
<1> QED
  BY <1>2, <1>3, <1>5, <1>6, <1>7, <1>8, <1>9 DEF ReservesInv, RowsFollowLedger, CallsFit

-----------------------------------------------------------------------------

\* A row is inserted by the call that holds the lock, within the limits.
LEMMA InsertKeeps ==
    ASSUME ReservesInv, NEW c \in Requests, InsertRow(c)
    PROVE  ReservesInv'
<1>0. /\ SponsorshipTypes /\ ReserveIsTracked /\ ActiveIsCreated /\ WithinLimits
      /\ \A q \in Requests : RowFits(q)
      /\ CallsFit
  BY DEF ReservesInv, RowsFollowLedger
<1>1. /\ account' = account /\ sequence' = sequence /\ applied' = applied /\ limbo' = limbo /\ direct' = direct
      /\ expired' = expired /\ lapsed' = lapsed /\ guessed' = guessed /\ released' = released /\ faults' = faults
  BY DEF InsertRow, ledger, clock, history
<1>2. /\ c \in Calls /\ c \notin Submits /\ c \notin Reclaims
      /\ calls[c].at = "locked" /\ RequestFits(c) /\ RowFits(c)
  BY <1>0, Kinds DEF InsertRow, CallsFit
<1>3. ASSUME rows' = rows, Goes(c, "done") PROVE ReservesInv'
  <2>1. calls' \in [Calls -> Call] /\ calls'[c].at = "done" /\ \A d \in Calls : d # c => calls'[d] = calls[d]
    BY <1>0, <1>2, <1>3, GoesTo
  <2>2. RequestFits(c)'
    BY <2>1 DEF RequestFits
  <2> QED
    BY <1>1, <1>2, <1>3, <2>1, <2>2, CallMoves DEF InsertRow
<1>4. ASSUME Goes(c, "inserted"),
             rows' = [rows EXCEPT ![c] = [rows[c] EXCEPT !.key = calls[c].key, !.reserved = 1, !.state = "requested"]]
      PROVE  ReservesInv'
  <2>1. /\ calls' \in [Calls -> Call] /\ calls'[c].at = "inserted"
        /\ \A d \in Calls : d # c => calls'[d] = calls[d]
    BY <1>0, <1>2, <1>4, GoesTo
  <2>2. /\ rows' \in [Requests -> Row] /\ \A q \in Requests : q # c => rows'[q] = rows[q]
        /\ rows'[c].state = "requested" /\ rows'[c].reserved = 1 /\ rows'[c].tx = rows[c].tx
    <3>1. PICK r \in Row : r = rows[c]
      BY <1>0, RowTypes
    <3>2. calls[c].key \in Keys
      BY <1>0, <1>2, RowTypes DEF Call
    <3>3. [r EXCEPT !.key = calls[c].key, !.reserved = 1, !.state = "requested"] \in Row
      <4>1. "requested" \in Holding \union TerminalStates \union {"none"}
        BY DEF Holding, Pending
      <4>2. 1 \in 0 .. 1
        OBVIOUS
      <4> QED
        BY <3>2, <4>1, <4>2 DEF Row
    <3>4. rows' = [rows EXCEPT ![c] = [r EXCEPT !.key = calls[c].key, !.reserved = 1, !.state = "requested"]]
      BY <1>4, <3>1
    <3>5. rows \in [Requests -> Row]
      BY <1>0 DEF SponsorshipTypes
    <3>6. rows' \in [Requests -> Row]
      BY <3>3, <3>4, <3>5
    <3> QED
      BY <3>1, <3>4, <3>5, <3>6 DEF Row
  <2>3. rows[c].state = "none" /\ rows[c].tx = NoTx /\ c \notin applied /\ c \notin limbo
    BY <1>2 DEF RequestFits, RowFits
  <2>4. "requested" \in Holding /\ "requested" \notin TerminalStates /\ "requested" \notin {"none", "active"}
    BY DEF Holding, Pending, TerminalStates
  <2>5. SponsorshipTypes'
    BY <1>0, <1>1, <2>1, <2>2 DEF SponsorshipTypes
  <2>6. ReserveIsTracked' /\ ActiveIsCreated'
    <3>1. \A q \in applied : q # c /\ rows'[q] = rows[q]
      BY <1>0, <2>2, <2>3 DEF SponsorshipTypes
    <3>2. ReserveIsTracked'
      BY <1>0, <1>1, <3>1 DEF ReserveIsTracked, Sponsored
    <3>3. ActiveIsCreated'
      BY <1>0, <1>1, <2>2, <2>4 DEF ActiveIsCreated
    <3> QED
      BY <3>2, <3>3
  <2>7. WithinLimits'
    <3>1. (Held \ released)' \subseteq (Held \ released) \union {c}
      BY <1>1, <2>2 DEF Held
    <3>0. IsFiniteSet(Held \ released) /\ Cardinality(Held \ released) \in Nat
      BY FewHeld
    <3>2. IsFiniteSet((Held \ released) \union {c})
      BY <3>0, FS_AddElement
    <3>3. Cardinality((Held \ released) \union {c}) <= Cardinality(Held \ released) + 1
      <4>1. \/ Cardinality((Held \ released) \union {c}) = Cardinality(Held \ released) + 1
            \/ Cardinality((Held \ released) \union {c}) = Cardinality(Held \ released)
        BY <3>0, FS_AddElement
      <4> QED
        BY <3>0, <4>1
    <3>4. Cardinality((Held \ released)') <= Cardinality((Held \ released) \union {c})
      BY <3>1, <3>2, FS_Subset
    <3>5. Cardinality(Held \ released) < Limit /\ Limit \in Nat
      BY <1>2, SponsorshipAssumption DEF RequestFits
    <3>6. Cardinality((Held \ released) \union {c}) \in Nat
      BY <3>2, FS_CardinalityType
    <3>7. Cardinality((Held \ released)') <= Limit
      BY <3>3, <3>4, <3>5, <3>6, FewHeld
    <3> QED
      BY <3>7 DEF WithinLimits
  <2>8. ASSUME NEW q \in Requests PROVE RowFits(q)'
    <3>1. CASE q = c
      BY <1>1, <1>2, <2>2, <2>3, <2>4, <3>1 DEF RowFits
    <3>2. CASE q # c
      BY <1>0, <1>1, <2>2, <3>2 DEF RowFits, Alive
    <3> QED
      BY <3>1, <3>2
  <2>9. ASSUME NEW d \in Requests PROVE RequestFits(d)'
    <3>1. CASE d = c
      BY <2>1, <2>2, <2>3, <2>4, <3>1 DEF RequestFits
    <3>2. CASE d # c
      <4>1. calls'[d] = calls[d] /\ rows'[d] = rows[d] /\ RequestFits(d)
        BY <1>0, <2>1, <2>2, <3>2, Kinds DEF CallsFit
      <4>2. calls[d].at # "locked"
        BY <1>0, <1>2, <3>2 DEF CallsFit, OneLock
      <4> QED
        BY <1>1, <4>1, <4>2 DEF RequestFits
    <3> QED
      BY <3>1, <3>2
  <2>10. OneLock'
    <3>1. \A d \in Requests : d # c => calls'[d] = calls[d]
      BY <2>1, Kinds
    <3> QED
      BY <1>0, <2>1, <3>1 DEF CallsFit, OneLock
  <2>11. ASSUME NEW d \in Submits PROVE SubmitFits(d)'
    <3>1. SubmitFits(d) /\ d \in Calls /\ calls'[d] = calls[d]
      BY <1>0, <1>2, <2>1, Kinds DEF CallsFit
    <3>2. PICK q \in Requests : q = calls[d].row
      BY <1>0, <3>1, RowTypes
    <3>3. CASE q = c
      <4>1. calls[d].at \notin {"read", "marked", "created", "unanswered", "refused"}
        BY <2>3, <3>1, <3>2, <3>3 DEF SubmitFits
      <4> QED
        BY <3>1, <4>1 DEF SubmitFits
    <3>4. CASE q # c
      <4>1. rows'[q] = rows[q]
        BY <2>2, <3>4
      <4> QED
        BY <1>1, <3>1, <3>2, <4>1 DEF SubmitFits, Alive
    <3> QED
      BY <3>3, <3>4
  <2>12. ASSUME NEW d \in Reclaims PROVE ReclaimFits(d)'
    <3>1. ReclaimFits(d) /\ d \in Calls /\ calls'[d] = calls[d]
      BY <1>0, <1>2, <2>1, Kinds DEF CallsFit
    <3>2. PICK q \in Requests : q = calls[d].row
      BY <1>0, <3>1, RowTypes
    <3>3. q \in applied => rows'[q] = rows[q]
      BY <2>2, <2>3, <3>2
    <3> QED
      BY <1>1, <3>1, <3>2, <3>3 DEF ReclaimFits
  <2> QED
    BY <2>5, <2>6, <2>7, <2>8, <2>9, <2>10, <2>11, <2>12 DEF ReservesInv, RowsFollowLedger, CallsFit
<1> QED
  BY <1>3, <1>4 DEF InsertRow

\* The offer is stored in a row nobody has acted on but to close it.
LEMMA StoreKeeps ==
    ASSUME ReservesInv, NEW c \in Requests, calls[c].at = "built", Goes(c, "done"),
           rows' = [rows EXCEPT ![c] = [rows[c] EXCEPT !.state = "awaiting_signature", !.tx = calls[c].tx]],
           UNCHANGED <<ledger, clock, history, faults>>
    PROVE  ReservesInv'
<1>0. /\ SponsorshipTypes /\ ReserveIsTracked /\ ActiveIsCreated /\ WithinLimits
      /\ \A q \in Requests : RowFits(q)
      /\ CallsFit
  BY DEF ReservesInv, RowsFollowLedger
<1>1. /\ account' = account /\ sequence' = sequence /\ applied' = applied /\ limbo' = limbo /\ direct' = direct
      /\ expired' = expired /\ lapsed' = lapsed /\ guessed' = guessed /\ released' = released /\ faults' = faults
  BY DEF ledger, clock, history
<1>2. /\ c \in Calls /\ c \notin Submits /\ c \notin Reclaims /\ RequestFits(c) /\ RowFits(c)
  BY <1>0, Kinds DEF CallsFit
<1>3. calls' \in [Calls -> Call] /\ calls'[c].at = "done" /\ \A d \in Calls : d # c => calls'[d] = calls[d]
  BY <1>0, <1>2, GoesTo
<1>4. rows[c].state # "none" /\ rows[c].tx = NoTx /\ c \notin applied /\ c \notin limbo
  BY <1>2 DEF RequestFits, RowFits
<1>5. /\ rows' \in [Requests -> Row] /\ \A q \in Requests : q # c => rows'[q] = rows[q]
      /\ rows'[c].state = "awaiting_signature" /\ rows'[c].reserved = rows[c].reserved
      /\ rows'[c].tx = calls[c].tx /\ calls[c].tx <= sequence + 1
  <2>1. PICK r \in Row : r = rows[c]
    BY <1>0, RowTypes
  <2>2. calls[c].tx \in Nat /\ calls[c].tx \in 1 .. sequence + 1 /\ sequence \in Nat
    BY <1>0, <1>2, RowTypes DEF RequestFits
  <2>3. [r EXCEPT !.state = "awaiting_signature", !.tx = calls[c].tx] \in Row
    BY <2>2 DEF Row, Holding, Pending
  <2>4. rows' = [rows EXCEPT ![c] = [r EXCEPT !.state = "awaiting_signature", !.tx = calls[c].tx]]
    BY <2>1
  <2>5. rows \in [Requests -> Row]
    BY <1>0 DEF SponsorshipTypes
  <2>6. rows' \in [Requests -> Row]
    BY <2>3, <2>4, <2>5
  <2> QED
    BY <2>1, <2>2, <2>4, <2>5, <2>6 DEF Row
<1>6. /\ "awaiting_signature" \in Holding
      /\ "awaiting_signature" \notin TerminalStates \union {"none", "active"}
  BY DEF Holding, Pending, TerminalStates
<1>7. SponsorshipTypes'
  BY <1>0, <1>1, <1>3, <1>5 DEF SponsorshipTypes
<1>8. ReserveIsTracked' /\ ActiveIsCreated'
  <2>1. \A q \in applied : q # c /\ rows'[q] = rows[q]
    BY <1>0, <1>4, <1>5 DEF SponsorshipTypes
  <2>2. ReserveIsTracked'
    BY <1>0, <1>1, <2>1 DEF ReserveIsTracked, Sponsored
  <2>3. ActiveIsCreated'
    BY <1>0, <1>1, <1>5, <1>6 DEF ActiveIsCreated
  <2> QED
    BY <2>2, <2>3
<1>9. (Held \ released)' \subseteq Held \ released
  <2>1. c \notin released => rows[c].state \in Holding
    BY <1>0, <1>2, <1>4, RowTypes DEF RowFits
  <2> QED
    BY <1>1, <1>5, <2>1 DEF Held
<1>10. WithinLimits'
  BY <1>0, <1>9, FewHeld, SponsorshipAssumption DEF WithinLimits
<1>11. ASSUME NEW q \in Requests PROVE RowFits(q)'
  <2>1. CASE q = c
    BY <1>1, <1>2, <1>4, <1>5, <1>6, <2>1 DEF RowFits
  <2>2. CASE q # c
    BY <1>0, <1>1, <1>5, <2>2 DEF RowFits, Alive
  <2> QED
    BY <2>1, <2>2
<1>12. ASSUME NEW d \in Requests PROVE RequestFits(d)'
  <2>1. CASE d = c
    BY <1>3, <2>1 DEF RequestFits
  <2>2. CASE d # c
    <3>1. calls'[d] = calls[d] /\ rows'[d] = rows[d] /\ RequestFits(d)
      BY <1>0, <1>3, <1>5, <2>2, Kinds DEF CallsFit
    <3>2. Cardinality(Held \ released) < Limit => Cardinality((Held \ released)') < Limit
      BY <1>9, FewHeld, SponsorshipAssumption
    <3> QED
      BY <1>1, <3>1, <3>2 DEF RequestFits
  <2> QED
    BY <2>1, <2>2
<1>13. OneLock'
  <2>1. \A d \in Requests : d # c => calls'[d] = calls[d]
    BY <1>3, Kinds
  <2> QED
    BY <1>0, <1>3, <2>1 DEF CallsFit, OneLock
<1>14. ASSUME NEW d \in Submits PROVE SubmitFits(d)'
  <2>1. SubmitFits(d) /\ d \in Calls /\ calls'[d] = calls[d]
    BY <1>0, <1>2, <1>3, Kinds DEF CallsFit
  <2>2. PICK q \in Requests : q = calls[d].row
    BY <1>0, <2>1, RowTypes
  <2>3. CASE q = c
    <3>1. calls[d].at \notin {"read", "marked", "created", "unanswered", "refused"}
      BY <1>4, <2>1, <2>2, <2>3 DEF SubmitFits
    <3> QED
      BY <2>1, <3>1 DEF SubmitFits
  <2>4. CASE q # c
    <3>1. rows'[q] = rows[q]
      BY <1>5, <2>4
    <3> QED
      BY <1>1, <2>1, <2>2, <3>1 DEF SubmitFits, Alive
  <2> QED
    BY <2>3, <2>4
<1>15. ASSUME NEW d \in Reclaims PROVE ReclaimFits(d)'
  <2>1. ReclaimFits(d) /\ d \in Calls /\ calls'[d] = calls[d]
    BY <1>0, <1>2, <1>3, Kinds DEF CallsFit
  <2>2. PICK q \in Requests : q = calls[d].row
    BY <1>0, <2>1, RowTypes
  <2>3. q \in applied => rows'[q] = rows[q]
    BY <1>4, <1>5, <2>2
  <2> QED
    BY <1>1, <2>1, <2>2, <2>3 DEF ReclaimFits
<1> QED
  BY <1>7, <1>8, <1>10, <1>11, <1>12, <1>13, <1>14, <1>15 DEF ReservesInv, RowsFollowLedger, CallsFit

\* A call that ends changes nothing else of what is known.
LEMMA EndingKeeps ==
    ASSUME ReservesInv, NEW c \in Calls, NEW at \in {"done", "stopped"}, Goes(c, at),
           UNCHANGED <<rows, ledger, clock, history>>, faults' \in 0 .. MaxFaults
    PROVE  ReservesInv'
<1>0. SponsorshipTypes
  BY DEF ReservesInv, RowsFollowLedger
<1>1. calls' \in [Calls -> Call] /\ calls'[c].at = at /\ \A d \in Calls : d # c => calls'[d] = calls[d]
  BY <1>0, GoesTo
<1>2. \A d \in Calls : calls'[d] = calls[d] \/ calls'[d].at \in {"done", "stopped"}
  BY <1>1
<1>3. rows' \in [Requests -> Row] /\ \A r \in Requests : rows'[r] = rows[r] \/ Closes(r)
  BY <1>0 DEF SponsorshipTypes
<1>4. /\ UNCHANGED <<account, sequence, applied, limbo, direct>>
      /\ lapsed \subseteq lapsed' /\ lapsed' \subseteq expired' /\ expired' \subseteq Requests
      /\ guessed \subseteq guessed' /\ guessed' \subseteq Requests
      /\ released \subseteq released' /\ released' \subseteq Requests
  BY <1>0 DEF SponsorshipTypes, ledger, clock, history
<1> QED
  BY <1>1, <1>2, <1>3, <1>4, ClosingKeeps

\* releaseCapacity closes a row as it may be closed, if it is told that the
\* network answered only when the network will never create the account.
LEMMA ReleaseCloses ==
    ASSUME SponsorshipTypes, NEW r \in Requests, NEW answered \in BOOLEAN, ReleaseCapacity(r, answered),
           answered => r \notin applied /\ ~Alive(r)
    PROVE  /\ rows' \in [Requests -> Row] /\ \A q \in Requests : rows'[q] = rows[q] \/ Closes(q)
           /\ guessed \subseteq guessed' /\ guessed' \subseteq Requests
           /\ released \subseteq released' /\ released' \subseteq Requests
<1>0. rows \in [Requests -> Row] /\ guessed \subseteq Requests /\ released \subseteq Requests
  BY DEF SponsorshipTypes
<1>1. CASE rows[r].state \in {"active", "none"}
  BY <1>0, <1>1 DEF ReleaseCapacity, history
<1>2. CASE rows[r].state \notin {"active", "none"}
  <2>1. PICK m \in Row : m = rows[r]
    BY <1>0
  <2>2. /\ rows' = [rows EXCEPT ![r] = [m EXCEPT !.state = "closed", !.reserved = 0, !.locked = 0]]
        /\ released' = released \union {r}
        /\ guessed' = IF rows[r].state = "submitted" /\ ~answered THEN guessed \union {r} ELSE guessed
    BY <1>2, <2>1 DEF ReleaseCapacity
  <2>3. [m EXCEPT !.state = "closed", !.reserved = 0, !.locked = 0] \in Row
    <3>1. "closed" \in Holding \union TerminalStates \union {"none"}
      BY DEF TerminalStates
    <3>2. 0 \in 0 .. 1
      OBVIOUS
    <3> QED
      BY <3>1, <3>2 DEF Row
  <2>4. rows' \in [Requests -> Row] /\ \A q \in Requests : q # r => rows'[q] = rows[q]
    BY <1>0, <2>2, <2>3
  <2>5. rows'[r].state = "closed" /\ rows'[r].key = rows[r].key /\ rows'[r].tx = rows[r].tx
    BY <1>0, <2>1, <2>2 DEF Row
  <2>6. rows[r].state \in Pending \union TerminalStates \/ rows[r].state = "submitted"
    BY <1>2, RowTypes DEF Holding
  <2>7. Closes(r)
    BY <1>2, <2>2, <2>5, <2>6 DEF Closes, TerminalStates
  <2> QED
    BY <1>0, <2>2, <2>4, <2>7
<1> QED
  BY <1>1, <1>2

\* A call that releases a row and ends, or a release on its own.
LEMMA ReleasingKeeps ==
    ASSUME ReservesInv, NEW r \in Requests, NEW answered \in BOOLEAN, ReleaseCapacity(r, answered),
           answered => r \notin applied /\ ~Alive(r),
           calls' \in [Calls -> Call],
           \A c \in Calls : calls'[c] = calls[c] \/ calls'[c].at \in {"done", "stopped"},
           UNCHANGED <<ledger, clock>>, faults' \in 0 .. MaxFaults
    PROVE  ReservesInv'
<1>0. SponsorshipTypes
  BY DEF ReservesInv, RowsFollowLedger
<1>1. /\ rows' \in [Requests -> Row] /\ \A q \in Requests : rows'[q] = rows[q] \/ Closes(q)
      /\ guessed \subseteq guessed' /\ guessed' \subseteq Requests
      /\ released \subseteq released' /\ released' \subseteq Requests
  BY <1>0, ReleaseCloses
<1>2. /\ UNCHANGED <<account, sequence, applied, limbo, direct>>
      /\ lapsed \subseteq lapsed' /\ lapsed' \subseteq expired' /\ expired' \subseteq Requests
  BY <1>0 DEF SponsorshipTypes, ledger, clock
<1> QED
  BY <1>1, <1>2, ClosingKeeps

\* The steps of a request.
LEMMA RequestKeeps ==
    ASSUME ReservesInv, NEW c \in Requests, RequestStep(c) \/ \E k \in Wants[c] : AskLedger(c, k)
    PROVE  ReservesInv'
<1>0. /\ SponsorshipTypes /\ CallsFit /\ c \in Calls /\ c \notin Submits /\ c \notin Reclaims
      /\ RequestFits(c) /\ faults \in 0 .. MaxFaults /\ MaxFaults \in Nat
  BY Kinds, SponsorshipAssumption DEF ReservesInv, RowsFollowLedger, CallsFit, SponsorshipTypes
<1>1. PICK m \in Call : m = calls[c]
  BY <1>0, RowTypes
<1>2. ASSUME NEW k \in Wants[c], AskLedger(c, k) PROVE ReservesInv'
  <2>1. k \in Keys
    BY SponsorshipAssumption
  <2>2. PICK e \in BOOLEAN : e = (account[k] # "absent")
    BY Zenon
  <2>3. calls' = [calls EXCEPT ![c] = [m EXCEPT !.at = "asked", !.row = c, !.key = k, !.exists = e]]
    BY <1>1, <1>2, <2>2 DEF AskLedger
  <2>4. [m EXCEPT !.at = "asked", !.row = c, !.key = k, !.exists = e] \in Call
    BY <2>1 DEF Call
  <2>5. /\ calls' \in [Calls -> Call] /\ calls'[c].at = "asked" /\ \A d \in Calls : d # c => calls'[d] = calls[d]
    BY <1>0, <1>1, <2>3, <2>4 DEF SponsorshipTypes, Call
  <2>6. RequestFits(c)'
    BY <1>0, <1>2, <2>5 DEF RequestFits, AskLedger
  <2>7. calls'[c].at # "locked"
    BY <2>5
  <2> QED
    BY <1>0, <1>2, <2>5, <2>6, <2>7, CallMoves DEF AskLedger
<1>3. ASSUME Assess(c) PROVE ReservesInv'
  <2>1. CASE Goes(c, "done")
    BY <1>0, <1>3, <2>1, EndingKeeps DEF Assess
  <2>2. CASE Goes(c, "locked") /\ ~(Cardinality(Held) >= Limit)
    <3>1. /\ calls' \in [Calls -> Call] /\ calls'[c].at = "locked" /\ \A d \in Calls : d # c => calls'[d] = calls[d]
      BY <1>0, <2>2, GoesTo
    <3>2. Cardinality(Held \ released) < Limit
      <4>1. IsFiniteSet(Held)
        <5>1. Held \subseteq Requests /\ IsFiniteSet(Requests)
          BY SponsorshipAssumption DEF Held
        <5> QED
          BY <5>1, FS_Subset
      <4>2. Cardinality(Held \ released) <= Cardinality(Held)
        BY <4>1, FS_Subset
      <4>3. Cardinality(Held) \in Nat /\ Limit \in Nat
        BY <4>1, FS_CardinalityType, SponsorshipAssumption
      <4>4. Cardinality(Held \ released) \in Nat
        BY FewHeld
      <4> QED
        BY <2>2, <4>2, <4>3, <4>4
    <3>3. UNCHANGED <<rows, ledger, clock, history, faults>> /\ \A d \in Requests : calls[d].at # "locked"
      BY <1>3 DEF Assess
    <3>4. (Held \ released)' = Held \ released
      BY <3>3 DEF Held, history
    <3>5. RequestFits(c)'
      BY <1>0, <1>3, <3>1, <3>2, <3>3, <3>4 DEF RequestFits, Assess
    <3> QED
      BY <1>0, <3>1, <3>3, <3>5, CallMoves
  <2> QED
    BY <1>3, <2>1, <2>2 DEF Assess
<1>4. ASSUME BuildOffer(c) PROVE ReservesInv'
  <2>1. PICK n \in Nat : n = sequence + 1 /\ n \in 1 .. sequence + 1
    BY <1>0, RowTypes
  <2>2. calls' = [calls EXCEPT ![c] = [m EXCEPT !.at = "built", !.tx = n]]
    BY <1>1, <1>4, <2>1 DEF BuildOffer
  <2>3. [m EXCEPT !.at = "built", !.tx = n] \in Call
    BY DEF Call
  <2>4. /\ calls' \in [Calls -> Call] /\ calls'[c].at = "built" /\ calls'[c].tx = n
        /\ \A d \in Calls : d # c => calls'[d] = calls[d]
    BY <1>0, <1>1, <2>2, <2>3 DEF SponsorshipTypes, Call
  <2>5. RequestFits(c)'
    BY <1>0, <1>4, <2>1, <2>4 DEF RequestFits, BuildOffer, ledger
  <2>6. calls'[c].at # "locked"
    BY <2>4
  <2> QED
    BY <1>0, <1>4, <2>4, <2>5, <2>6, CallMoves DEF BuildOffer
<1>5. ASSUME BuildFails(c) PROVE ReservesInv'
  <2>1. calls' \in [Calls -> Call] /\ \A d \in Calls : calls'[d] = calls[d] \/ calls'[d].at \in {"done", "stopped"}
    BY <1>0, <1>5, GoesTo DEF BuildFails
  <2>2. faults' \in 0 .. MaxFaults
    BY <1>0, <1>5 DEF BuildFails
  <2> QED
    BY <1>5, <2>1, <2>2, ReleasingKeeps DEF BuildFails
<1>6. ASSUME StoreOffer(c) PROVE ReservesInv'
  <2>1. CASE KeyIsFree(c)
    BY <1>6, <2>1, StoreKeeps DEF StoreOffer
  <2>2. CASE ~KeyIsFree(c)
    <3>1. calls' \in [Calls -> Call] /\ \A d \in Calls : calls'[d] = calls[d] \/ calls'[d].at \in {"done", "stopped"}
      BY <1>0, <1>6, GoesTo DEF StoreOffer
    <3>2. faults' \in 0 .. MaxFaults
      BY <1>0, <1>6 DEF StoreOffer
    <3> QED
      BY <1>6, <2>2, <3>1, <3>2, ReleasingKeeps DEF StoreOffer
  <2> QED
    BY <2>1, <2>2
<1> QED
  BY <1>2, <1>3, <1>4, <1>5, <1>6, InsertKeeps DEF RequestStep

\* The steps of a submission.
LEMMA SubmitKeeps ==
    ASSUME ReservesInv, NEW c \in Submits, SubmitStep(c) \/ \E r \in Signs[c] : ReadRow(c, r)
    PROVE  ReservesInv'
<1>0. /\ SponsorshipTypes /\ CallsFit /\ c \in Calls /\ c \notin Requests /\ c \notin Reclaims
      /\ SubmitFits(c) /\ faults \in 0 .. MaxFaults /\ MaxFaults \in Nat
      /\ \A r \in Requests : RowFits(r)
  BY Kinds, SponsorshipAssumption DEF ReservesInv, RowsFollowLedger, CallsFit, SponsorshipTypes
<1>1. PICK m \in Call : m = calls[c]
  BY <1>0, RowTypes
<1>2. PICK r \in Requests : r = calls[c].row
  BY <1>0, RowTypes
<1>3. PICK row \in Row : row = rows[r]
  BY <1>0, RowTypes
<1>4. rows \in [Requests -> Row] /\ calls \in [Calls -> Call]
  BY <1>0 DEF SponsorshipTypes
<1>5. ASSUME NEW q \in Signs[c], ReadRow(c, q) PROVE ReservesInv'
  <2>1. q \in Requests
    BY SponsorshipAssumption
  <2>2. CASE calls' = [calls EXCEPT ![c] = Done]
    <3>1. Goes(c, "done")
      BY <2>2 DEF Goes
    <3> QED
      BY <1>0, <1>5, <3>1, EndingKeeps DEF ReadRow
  <2>3. ASSUME NEW at \in {"late", "read"}, at = "read" => rows[q].tx # NoTx,
               calls' = [calls EXCEPT ![c] = [m EXCEPT !.at = at, !.row = q]]
        PROVE  ReservesInv'
    <3>1. [m EXCEPT !.at = at, !.row = q] \in Call
      BY <2>1 DEF Call
    <3>2. /\ calls' \in [Calls -> Call] /\ calls'[c].at = at /\ calls'[c].row = q
          /\ \A d \in Calls : d # c => calls'[d] = calls[d]
      BY <1>0, <1>1, <1>4, <2>3, <3>1 DEF Call
    <3>3. SubmitFits(c)'
      BY <1>5, <2>3, <3>2 DEF SubmitFits, ReadRow
    <3> QED
      BY <1>0, <1>5, <3>2, <3>3, CallMoves DEF ReadRow
  <2> QED
    BY <1>1, <1>5, <2>2, <2>3 DEF ReadRow
<1>6. ASSUME GiveUp(c) PROVE ReservesInv'
  <2>1. calls' \in [Calls -> Call] /\ \A d \in Calls : calls'[d] = calls[d] \/ calls'[d].at \in {"done", "stopped"}
    BY <1>0, <1>6, GoesTo DEF GiveUp
  <2>2. faults' \in 0 .. MaxFaults
    BY <1>0, <1>6 DEF GiveUp
  <2> QED
    BY <1>2, <1>6, <2>1, <2>2, ReleasingKeeps DEF GiveUp
<1>7. ASSUME MarkSubmitted(c) PROVE ReservesInv'
  <2>1. CASE ~KeyIsFree(r)
    BY <1>0, <1>2, <1>7, <2>1, EndingKeeps DEF MarkSubmitted
  <2>2. CASE KeyIsFree(r)
    <3>1. calls' \in [Calls -> Call] /\ calls'[c].at = "marked" /\ calls'[c].row = r
          /\ \A d \in Calls : d # c => calls'[d] = calls[d]
      BY <1>0, <1>2, <1>7, <2>2, GoesTo DEF MarkSubmitted
    <3>2. rows' = [rows EXCEPT ![r] = [row EXCEPT !.state = "submitted"]] /\ UNCHANGED <<ledger, clock, history, faults>>
      BY <1>2, <1>3, <1>7, <2>2 DEF MarkSubmitted
    <3>3. rows[r].tx # NoTx
      BY <1>0, <1>2, <1>7 DEF MarkSubmitted, SubmitFits
    <3> DEFINE new == [row EXCEPT !.state = "submitted"]
    <3>4. /\ new \in Row /\ new.tx = rows[r].tx /\ new.key = rows[r].key /\ new.reserved = rows[r].reserved
          /\ new.state = "submitted"
      BY <1>3 DEF Row, Holding
    <3> HIDE DEF new
    <3>5. \A d \in Calls : \/ calls'[d] = calls[d]
                           \/ calls'[d].at \in {"done", "stopped"}
                           \/ d \in Submits /\ calls'[d].at = "marked" /\ calls'[d].row = r
      BY <3>1
    <3>6. rows' = [rows EXCEPT ![r] = new]
      BY <3>2 DEF new
    <3> QED
      BY <3>1, <3>2, <3>3, <3>4, <3>5, <3>6, ReopeningKeeps
  <2> QED
    BY <2>1, <2>2
<1>8. ASSUME Send(c) PROVE ReservesInv'
  <2>0. calls[c].at = "marked" /\ UNCHANGED <<rows, limbo, direct, clock, history, faults>>
    BY <1>8 DEF Send
  <2>1. /\ calls' \in [Calls -> Call] /\ calls'[c].row = r
        /\ calls'[c].at = IF r \in applied' THEN "created" ELSE "refused"
        /\ \A d \in Calls : d # c => calls'[d] = calls[d]
    <3>1. Goes(c, IF r \in applied' THEN "created" ELSE "refused")
      BY <1>2, <1>8 DEF Send
    <3> DEFINE at == IF r \in applied' THEN "created" ELSE "refused"
    <3>2. PICK x : x = at /\ x \in {"created", "refused"}
      OBVIOUS
    <3> HIDE DEF at
    <3>3. calls' \in [Calls -> Call] /\ calls'[c].at = x /\ calls'[c].row = r /\ \A d \in Calls : d # c => calls'[d] = calls[d]
      BY <1>0, <1>2, <3>1, <3>2, GoesTo DEF at
    <3> QED
      BY <3>2, <3>3 DEF at
  <2>2. CASE r \in applied
    <3>1. UNCHANGED <<rows, ledger, clock, history, faults>>
      BY <1>2, <1>8, <2>0, <2>2 DEF Send, ledger
    <3>2. applied' = applied /\ rows' = rows
      BY <3>1 DEF ledger
    <3>3. SubmitFits(c)'
      BY <1>0, <1>2, <2>0, <2>1, <2>2, <3>2 DEF SubmitFits
    <3> QED
      BY <1>0, <2>1, <3>1, <3>3, CallMoves
  <2>3. CASE r \notin applied
    <3>1. Settles(r)
      BY <1>2, <1>8, <2>3 DEF Send
    <3>2. /\ rows[r].tx # NoTx /\ rows[r].state \notin Pending
          /\ Alive(r) => rows[r].state = "submitted" \/ r \in guessed
      BY <1>0, <1>2, <2>0, <2>3 DEF SubmitFits
    <3>3. \A d \in Calls :
               \/ calls'[d] = calls[d]
               \/ /\ d \in Submits /\ calls'[d].row = r /\ rows[r].state \notin Pending
                  /\ calls'[d].at = IF r \in applied' THEN "created" ELSE "refused"
      BY <2>1, <3>2
    <3>4. limbo' \subseteq limbo /\ direct' = direct /\ UNCHANGED <<rows, clock, history, faults>>
      BY <2>0
    <3> QED
      BY <2>1, <2>3, <3>1, <3>2, <3>3, <3>4, SettlingKeeps
  <2> QED
    BY <2>2, <2>3
<1>9. ASSUME SendUnanswered(c) PROVE ReservesInv'
  <2>0. /\ calls[c].at = "marked" /\ limbo' = limbo \union {r} /\ faults' = faults + 1 /\ faults < MaxFaults
        /\ rows' = rows /\ account' = account /\ sequence' = sequence /\ applied' = applied /\ direct' = direct
        /\ expired' = expired /\ lapsed' = lapsed /\ guessed' = guessed /\ released' = released
    BY <1>2, <1>9 DEF SendUnanswered, clock, history
  <2>1. /\ calls' \in [Calls -> Call] /\ calls'[c].row = r /\ calls'[c].at = "unanswered"
        /\ \A d \in Calls : d # c => calls'[d] = calls[d]
    BY <1>0, <1>2, <1>9, GoesTo DEF SendUnanswered
  <2>2. faults' \in 0 .. MaxFaults
    BY <1>0, <2>0
  <2>3. SponsorshipTypes'
    BY <1>0, <2>0, <2>1, <2>2 DEF SponsorshipTypes
  <2>4. RowsFollowLedger'
    BY <2>0, <2>3 DEF ReservesInv, RowsFollowLedger, ReserveIsTracked, ActiveIsCreated, WithinLimits, Held, Sponsored
  <2>5. ASSUME NEW q \in Requests PROVE RowFits(q)'
    <3>1. RowFits(q) /\ (Alive(q)' <=> Alive(q))
      BY <1>0, <2>0 DEF Alive
    <3>2. CASE q = r
      <4>1. /\ rows[r].tx # NoTx /\ rows[r].state \notin Pending
            /\ r \notin applied /\ Alive(r) => rows[r].state = "submitted" \/ r \in guessed
        BY <1>0, <1>2, <2>0 DEF SubmitFits
      <4> QED
        BY <2>0, <3>1, <3>2, <4>1 DEF RowFits
    <3>3. CASE q # r
      BY <2>0, <3>1, <3>3 DEF RowFits
    <3> QED
      BY <3>2, <3>3
  <2>6. ASSUME NEW d \in Requests PROVE RequestFits(d)'
    <3>1. RequestFits(d) /\ calls'[d] = calls[d]
      BY <1>0, <2>1, Kinds DEF CallsFit
    <3>2. (Held \ released)' = Held \ released
      BY <2>0 DEF Held
    <3> QED
      BY <2>0, <3>1, <3>2 DEF RequestFits
  <2>7. OneLock'
    <3>1. \A d \in Requests : calls'[d] = calls[d]
      BY <1>0, <2>1, Kinds
    <3> QED
      BY <1>0, <3>1 DEF CallsFit, OneLock
  <2>8. ASSUME NEW d \in Submits PROVE SubmitFits(d)'
    <3>1. CASE d = c
      BY <1>0, <1>2, <2>0, <2>1, <3>1 DEF SubmitFits
    <3>2. CASE d # c
      <4>1. calls'[d] = calls[d] /\ SubmitFits(d)
        BY <1>0, <2>1, <3>2, Kinds DEF CallsFit
      <4> QED
        BY <2>0, <4>1 DEF SubmitFits, Alive
    <3> QED
      BY <3>1, <3>2
  <2>9. ASSUME NEW d \in Reclaims PROVE ReclaimFits(d)'
    <3>1. calls'[d] = calls[d] /\ ReclaimFits(d)
      BY <1>0, <2>1, Kinds DEF CallsFit
    <3> QED
      BY <2>0, <3>1 DEF ReclaimFits
  <2> QED
    BY <2>4, <2>5, <2>6, <2>7, <2>8, <2>9 DEF ReservesInv, CallsFit
<1>10. ASSUME RecordActive(c) PROVE ReservesInv'
  <2>0. calls[c].at = "created" /\ Goes(c, "done") /\ UNCHANGED <<ledger, clock, history, faults>>
    BY <1>10 DEF RecordActive
  <2>1. CASE ~KeyIsFree(r)
    BY <1>0, <1>2, <1>10, <2>0, <2>1, EndingKeeps DEF RecordActive
  <2>2. CASE KeyIsFree(r)
    <3>1. calls' \in [Calls -> Call] /\ calls'[c].at = "done" /\ \A d \in Calls : d # c => calls'[d] = calls[d]
      BY <1>0, <2>0, GoesTo
    <3> DEFINE new == [row EXCEPT !.state = "active", !.locked = row.reserved]
    <3>2. rows' = [rows EXCEPT ![r] = new]
      BY <1>2, <1>3, <1>10, <2>2 DEF RecordActive
    <3>3. rows[r].tx # NoTx /\ r \in applied
      BY <1>0, <1>2, <2>0 DEF SubmitFits
    <3>4. /\ new \in Row /\ new.tx = rows[r].tx /\ new.key = rows[r].key /\ new.reserved = rows[r].reserved
          /\ new.state = "active" /\ new.locked = new.reserved
      BY <1>3 DEF Row, Holding
    <3> HIDE DEF new
    <3>5. \A d \in Calls : \/ calls'[d] = calls[d]
                           \/ calls'[d].at \in {"done", "stopped"}
                           \/ d \in Submits /\ calls'[d].at = "marked" /\ calls'[d].row = r
      BY <3>1
    <3> QED
      BY <2>0, <3>1, <3>2, <3>3, <3>4, <3>5, ReopeningKeeps
  <2> QED
    BY <2>1, <2>2
<1>11. ASSUME RecordFailure(c) PROVE ReservesInv'
  <2>1. calls' \in [Calls -> Call] /\ \A d \in Calls : calls'[d] = calls[d] \/ calls'[d].at \in {"done", "stopped"}
    BY <1>0, <1>11, GoesTo DEF RecordFailure
  <2>2. faults' \in 0 .. MaxFaults
    BY <1>0, <1>11 DEF RecordFailure
  <2>3. PICK answered \in BOOLEAN : answered = (calls[c].at = "refused")
    BY Zenon
  <2>4. answered => r \notin applied /\ ~Alive(r)
    BY <1>0, <1>2, <2>3 DEF SubmitFits
  <2>5. ReleaseCapacity(r, answered) /\ UNCHANGED <<ledger, clock>>
    BY <1>2, <1>11, <2>3 DEF RecordFailure
  <2> QED
    BY <2>1, <2>2, <2>4, <2>5, ReleasingKeeps
<1> QED
  BY <1>5, <1>6, <1>7, <1>8, <1>9, <1>10, <1>11 DEF SubmitStep

\* The row a reclaim closes, whose account is not charged to the sponsor or
\* could not be looked up.
LEMMA ReclaimingKeeps ==
    ASSUME ReservesInv, NEW c \in Reclaims, NEW r \in Requests, r = calls[c].row,
           calls[c].at \in {"read", "revoked"}, Goes(c, "done"), Reclaim(r),
           ~Sponsored(rows[r].key) \/ r \in guessed',
           guessed \subseteq guessed', guessed' \subseteq Requests,
           UNCHANGED <<ledger, clock>>, faults' \in 0 .. MaxFaults
    PROVE  /\ ReservesInv'
           /\ \A q \in Requests : q # r => rows'[q] = rows[q]
<1>0. /\ SponsorshipTypes /\ CallsFit /\ c \in Calls /\ ReclaimFits(c) /\ RowFits(r)
      /\ rows \in [Requests -> Row] /\ released \subseteq Requests
  BY Kinds DEF ReservesInv, RowsFollowLedger, CallsFit, SponsorshipTypes
<1>1. calls' \in [Calls -> Call] /\ \A d \in Calls : calls'[d] = calls[d] \/ calls'[d].at \in {"done", "stopped"}
  BY <1>0, GoesTo
<1>2. PICK row \in Row : row = rows[r]
  BY <1>0
<1>3. /\ rows' = [rows EXCEPT ![r] = [row EXCEPT !.state = "reclaimed", !.locked = 0]]
      /\ released' = released \union {r}
  BY <1>2 DEF Reclaim
<1>4. [row EXCEPT !.state = "reclaimed", !.locked = 0] \in Row
  <2>1. "reclaimed" \in Holding \union TerminalStates \union {"none"}
    BY DEF TerminalStates
  <2>2. 0 \in 0 .. 1
    OBVIOUS
  <2> QED
    BY <2>1, <2>2 DEF Row
<1>5. rows' \in [Requests -> Row] /\ \A q \in Requests : q # r => rows'[q] = rows[q]
  BY <1>0, <1>3, <1>4
<1>6. rows'[r].state = "reclaimed" /\ rows'[r].key = rows[r].key /\ rows'[r].tx = rows[r].tx
  BY <1>0, <1>2, <1>3 DEF Row
<1>7. r \in applied /\ rows[r].state # "none"
  BY <1>0 DEF ReclaimFits, RowFits
<1>8. Closes(r)
  BY <1>3, <1>6, <1>7 DEF Closes, TerminalStates
<1>9. /\ UNCHANGED <<account, sequence, applied, limbo, direct>>
      /\ lapsed \subseteq lapsed' /\ lapsed' \subseteq expired' /\ expired' \subseteq Requests
      /\ released \subseteq released' /\ released' \subseteq Requests
  BY <1>0, <1>3 DEF SponsorshipTypes, ledger, clock
<1>10. ReservesInv'
  BY <1>1, <1>5, <1>8, <1>9, ClosingKeeps
<1> QED
  BY <1>5, <1>10

\* A row becomes reclaimed only as the property allows.
Returned ==
    \A r \in Requests : rows'[r].state = "reclaimed" /\ rows[r].state # "reclaimed" =>
          ~Sponsored(rows[r].key) \/ r \in guessed'

\* The steps of a reclaim.
LEMMA ReclaimKeeps ==
    ASSUME ReservesInv, NEW c \in Reclaims, ReclaimStep(c) \/ \E r \in Requests : ReadActive(c, r)
    PROVE  ReservesInv' /\ Returned
<1>0. /\ SponsorshipTypes /\ CallsFit /\ c \in Calls /\ c \notin Requests /\ c \notin Submits
      /\ ReclaimFits(c) /\ faults \in 0 .. MaxFaults /\ MaxFaults \in Nat
      /\ ActiveIsCreated /\ guessed \subseteq Requests /\ calls \in [Calls -> Call]
  BY Kinds, SponsorshipAssumption DEF ReservesInv, RowsFollowLedger, CallsFit, SponsorshipTypes
<1>1. PICK m \in Call : m = calls[c]
  BY <1>0, RowTypes
<1>2. PICK r \in Requests : r = calls[c].row
  BY <1>0, RowTypes
<1>3. rows' = rows => Returned
  BY DEF Returned
<1>4. ASSUME NEW q \in Requests, ReadActive(c, q) PROVE ReservesInv' /\ Returned
  <2>1. calls' = [calls EXCEPT ![c] = [m EXCEPT !.at = "read", !.row = q]]
    BY <1>1, <1>4 DEF ReadActive
  <2>2. [m EXCEPT !.at = "read", !.row = q] \in Call
    BY DEF Call
  <2>3. /\ calls' \in [Calls -> Call] /\ calls'[c].at = "read" /\ calls'[c].row = q
        /\ \A d \in Calls : d # c => calls'[d] = calls[d]
    BY <1>0, <1>1, <2>1, <2>2 DEF Call
  <2>4. q \in applied /\ UNCHANGED <<rows, ledger, clock, history, faults>>
    BY <1>0, <1>4 DEF ReadActive, ActiveIsCreated
  <2>5. ReclaimFits(c)'
    BY <2>3, <2>4 DEF ReclaimFits, ledger
  <2>6. ReservesInv'
    BY <1>0, <2>3, <2>4, <2>5, CallMoves
  <2> QED
    BY <1>3, <2>4, <2>6
<1>5. ASSUME LookUp(c) PROVE ReservesInv' /\ Returned
  <2>1. CASE account[rows[r].key] = "absent"
    <3>1. /\ Reclaim(r) /\ Goes(c, "done") /\ guessed' = guessed /\ UNCHANGED <<ledger, clock, faults>>
          /\ calls[c].at = "read" /\ ~Sponsored(rows[r].key)
      BY <1>2, <1>5, <2>1 DEF LookUp, Sponsored
    <3>2. guessed \subseteq guessed' /\ guessed' \subseteq Requests /\ faults' \in 0 .. MaxFaults
      BY <1>0, <3>1
    <3>3. ReservesInv' /\ \A q \in Requests : q # r => rows'[q] = rows[q]
      BY <1>2, <3>1, <3>2, ReclaimingKeeps
    <3> QED
      BY <3>1, <3>3 DEF Returned
  <2>2. CASE account[rows[r].key] # "absent"
    <3>1. UNCHANGED <<rows, ledger, clock, history, faults>>
      BY <1>2, <1>5, <2>2 DEF LookUp, history
    <3>2. CASE Goes(c, "done")
      BY <1>0, <1>3, <3>1, <3>2, EndingKeeps
    <3>3. CASE Goes(c, "funded")
      <4>1. /\ calls' \in [Calls -> Call] /\ calls'[c].at = "funded" /\ calls'[c].row = calls[c].row
            /\ \A d \in Calls : d # c => calls'[d] = calls[d]
        BY <1>0, <3>3, GoesTo
      <4>2. ReclaimFits(c)'
        BY <1>0, <1>5, <3>1, <4>1 DEF ReclaimFits, LookUp, ledger
      <4> QED
        BY <1>0, <1>3, <3>1, <4>1, <4>2, CallMoves
    <3> QED
      BY <1>5, <3>2, <3>3 DEF LookUp
  <2> QED
    BY <2>1, <2>2
<1>6. ASSUME LookUpFails(c) PROVE ReservesInv' /\ Returned
  <2>1. /\ Reclaim(r) /\ Goes(c, "done") /\ guessed' = guessed \union {r} /\ UNCHANGED <<ledger, clock>>
        /\ calls[c].at = "read" /\ faults < MaxFaults /\ faults' = faults + 1
    BY <1>2, <1>6 DEF LookUpFails
  <2>2. faults' \in 0 .. MaxFaults
    BY <1>0, <2>1
  <2>3. guessed \subseteq guessed' /\ guessed' \subseteq Requests /\ r \in guessed'
    BY <1>0, <2>1
  <2>4. ReservesInv' /\ \A q \in Requests : q # r => rows'[q] = rows[q]
    BY <1>2, <2>1, <2>2, <2>3, ReclaimingKeeps
  <2> QED
    BY <2>3, <2>4 DEF Returned
<1>7. ASSUME LoadSponsor(c) PROVE ReservesInv' /\ Returned
  <2>1. PICK n \in Nat : n = sequence + 1
    BY <1>0, RowTypes
  <2>2. calls' = [calls EXCEPT ![c] = [m EXCEPT !.at = "loaded", !.tx = n]]
    BY <1>1, <1>7, <2>1 DEF LoadSponsor
  <2>3. [m EXCEPT !.at = "loaded", !.tx = n] \in Call
    BY DEF Call
  <2>4. /\ calls' \in [Calls -> Call] /\ calls'[c].at = "loaded" /\ calls'[c].row = calls[c].row
        /\ \A d \in Calls : d # c => calls'[d] = calls[d]
    BY <1>0, <1>1, <2>2, <2>3 DEF Call
  <2>5. calls[c].at = "funded" /\ UNCHANGED <<rows, ledger, clock, history, faults>>
    BY <1>7 DEF LoadSponsor
  <2>6. ReclaimFits(c)'
    BY <1>0, <2>4, <2>5 DEF ReclaimFits, ledger
  <2> QED
    BY <1>0, <1>3, <2>4, <2>5, <2>6, CallMoves
<1>8. ASSUME Revoke(c) PROVE ReservesInv' /\ Returned
  <2> DEFINE k == rows[r].key
             works == calls[c].tx = sequence + 1 /\ account[k] = "funded"
  <2>0. PICK key \in Keys : key = k
    BY <1>0, RowTypes
  <2>1. /\ calls[c].at = "loaded" /\ UNCHANGED <<rows, applied, limbo, direct, clock, history, faults>>
        /\ account' = IF works THEN [account EXCEPT ![key] = "own"] ELSE account
        /\ sequence' = IF calls[c].tx = sequence + 1 THEN sequence + 1 ELSE sequence
        /\ Goes(c, IF works THEN "revoked" ELSE "refused")
    BY <1>2, <1>8, <2>0 DEF Revoke
  <2>2. PICK x \in {"revoked", "refused"} : x = IF works THEN "revoked" ELSE "refused"
    OBVIOUS
  <2>3. /\ calls' \in [Calls -> Call] /\ calls'[c].at = x /\ calls'[c].row = r
        /\ \A d \in Calls : d # c => calls'[d] = calls[d]
    BY <1>0, <1>2, <2>1, <2>2, GoesTo
  <2>4. account \in [Keys -> {"absent", "sponsored", "funded", "own"}] /\ sequence \in Nat
    BY <1>0 DEF SponsorshipTypes
  <2>5. /\ account' \in [Keys -> {"absent", "sponsored", "funded", "own"}]
        /\ \A j \in Keys : /\ Sponsored(j)' => Sponsored(j)
                           /\ account[j] = "own" => account'[j] = "own"
        /\ works => account'[key] = "own"
    <3> HIDE DEF works
    <3> QED
      BY <2>1, <2>4 DEF Sponsored
  <2>6. sequence' \in Nat /\ sequence <= sequence'
    BY <2>1, <2>4
  <2>7. ReclaimFits(c)'
    <3>1. x = "revoked" => works
      BY <2>2
    <3>2. r \in applied
      BY <1>0, <1>2, <2>1 DEF ReclaimFits
    <3>3. rows' = rows /\ applied' = applied
      BY <2>1
    <3> HIDE DEF works
    <3> QED
      BY <2>0, <2>2, <2>3, <2>5, <3>1, <3>2, <3>3 DEF ReclaimFits
  <2>8. \A d \in Calls : calls'[d] = calls[d] \/ (d \in Reclaims /\ ReclaimFits(d)')
    BY <2>3, <2>7
  <2>9. ReservesInv'
    BY <2>1, <2>3, <2>5, <2>6, <2>8, AccountsKeep
  <2> QED
    BY <1>3, <2>1, <2>9
<1>9. ASSUME RecordReclaimed(c) PROVE ReservesInv' /\ Returned
  <2>1. /\ Reclaim(r) /\ Goes(c, "done") /\ guessed' = guessed /\ UNCHANGED <<ledger, clock, faults>>
        /\ calls[c].at = "revoked"
    BY <1>2, <1>9 DEF RecordReclaimed
  <2>2. ~Sponsored(rows[r].key)
    BY <1>0, <1>2, <2>1 DEF ReclaimFits, Sponsored
  <2>3. guessed \subseteq guessed' /\ guessed' \subseteq Requests /\ faults' \in 0 .. MaxFaults
    BY <1>0, <2>1
  <2>4. ReservesInv' /\ \A q \in Requests : q # r => rows'[q] = rows[q]
    BY <1>2, <2>1, <2>2, <2>3, ReclaimingKeeps
  <2> QED
    BY <2>2, <2>4 DEF Returned
<1>10. ASSUME RecordReclaimFailure(c) PROVE ReservesInv' /\ Returned
  BY <1>0, <1>3, <1>10, EndingKeeps DEF RecordReclaimFailure
<1> QED
  BY <1>4, <1>5, <1>6, <1>7, <1>8, <1>9, <1>10 DEF ReclaimStep

\* The donor, the ledger, the clock, the sweep and processes that stop.
LEMMA SurroundingsKeep ==
    ASSUME ReservesInv,
           \/ \E r \in Requests : Abandon(r) \/ AppliesLate(r) \/ DonorSubmits(r) \/ Expire(r) \/ Lapse(r)
           \/ Sweep
           \/ \E k \in Keys : Donor(k)
           \/ \E c \in Submits : Stop(c)
    PROVE  ReservesInv'
<1>0. /\ SponsorshipTypes /\ faults \in 0 .. MaxFaults /\ MaxFaults \in Nat
      /\ calls \in [Calls -> Call] /\ rows \in [Requests -> Row] /\ \A r \in Requests : RowFits(r)
      /\ lapsed \subseteq expired /\ expired \subseteq Requests
      /\ guessed \subseteq Requests /\ released \subseteq Requests
  BY SponsorshipAssumption DEF ReservesInv, RowsFollowLedger, SponsorshipTypes
<1>1. ASSUME NEW r \in Requests, Abandon(r) PROVE ReservesInv'
  <2>1. calls' \in [Calls -> Call] /\ (\A c \in Calls : calls'[c] = calls[c]) /\ faults' \in 0 .. MaxFaults
    BY <1>0, <1>1 DEF Abandon
  <2> QED
    BY <1>1, <2>1, ReleasingKeeps DEF Abandon
<1>2. ASSUME NEW r \in Requests, AppliesLate(r) PROVE ReservesInv'
  <2>1. r \in limbo /\ r \notin applied /\ Settles(r) /\ limbo' \subseteq limbo /\ direct' = direct
        /\ UNCHANGED <<rows, clock, history, faults>>
    BY <1>2 DEF AppliesLate
  <2>2. calls' \in [Calls -> Call] /\ \A c \in Calls : calls'[c] = calls[c]
    BY <1>0, <1>2 DEF AppliesLate
  <2>3. /\ rows[r].tx # NoTx /\ rows[r].state \notin Pending
        /\ Alive(r) => rows[r].state = "submitted" \/ r \in guessed
    BY <1>0, <2>1 DEF RowFits
  <2> QED
    BY <2>1, <2>2, <2>3, SettlingKeeps
<1>3. ASSUME UNCHANGED <<rows, calls, ledger, history, faults>>,
             lapsed \subseteq lapsed', lapsed' \subseteq expired', expired' \subseteq Requests
      PROVE  ReservesInv'
  <2>1. /\ rows' \in [Requests -> Row] /\ \A r \in Requests : rows'[r] = rows[r] \/ Closes(r)
        /\ calls' \in [Calls -> Call] /\ (\A c \in Calls : calls'[c] = calls[c] \/ calls'[c].at \in {"done", "stopped"})
        /\ UNCHANGED <<account, sequence, applied, limbo, direct>> /\ faults' \in 0 .. MaxFaults
        /\ guessed \subseteq guessed' /\ guessed' \subseteq Requests
        /\ released \subseteq released' /\ released' \subseteq Requests
    BY <1>0, <1>3 DEF ledger, history
  <2> QED
    BY <1>3, <2>1, ClosingKeeps
<1>4. ASSUME NEW r \in Requests, Expire(r) \/ Lapse(r) PROVE ReservesInv'
  BY <1>0, <1>3, <1>4 DEF Expire, Lapse
<1>5. ASSUME Sweep PROVE ReservesInv'
  <2> DEFINE swept == {r \in expired : rows[r].state \in Pending}
  <2>1. /\ rows' = [r \in Requests |-> IF r \in swept THEN [rows[r] EXCEPT !.state = "closed", !.reserved = 0] ELSE rows[r]]
        /\ released' = released \union swept
        /\ UNCHANGED <<calls, ledger, clock, guessed, faults>>
    BY <1>5 DEF Sweep
  <2>2. ASSUME NEW r \in Requests PROVE rows'[r] \in Row /\ (rows'[r] = rows[r] \/ Closes(r))
    <3>1. CASE r \in swept
      <4>1. PICK row \in Row : row = rows[r]
        BY <1>0
      <4>2. rows'[r] = [row EXCEPT !.state = "closed", !.reserved = 0]
        BY <2>1, <3>1, <4>1
      <4>3. [row EXCEPT !.state = "closed", !.reserved = 0] \in Row
        <5>1. "closed" \in Holding \union TerminalStates \union {"none"}
          BY DEF TerminalStates
        <5>2. 0 \in 0 .. 1
          OBVIOUS
        <5> QED
          BY <5>1, <5>2 DEF Row
      <4>4. rows'[r].state = "closed" /\ rows'[r].key = rows[r].key /\ rows'[r].tx = rows[r].tx
        BY <4>1, <4>2 DEF Row
      <4>5. rows[r].state \in Pending /\ rows[r].state # "none" /\ r \in released'
        BY <2>1, <3>1 DEF Pending
      <4> QED
        BY <4>2, <4>3, <4>4, <4>5 DEF Closes, TerminalStates
    <3>2. CASE r \notin swept
      BY <1>0, <2>1, <3>2
    <3> QED
      BY <3>1, <3>2
  <2>3. rows' \in [Requests -> Row]
    <3>1. DOMAIN rows' = Requests /\ rows' = [r \in Requests |-> rows'[r]]
      BY <2>1
    <3> QED
      BY <2>2, <3>1
  <2>4. /\ calls' \in [Calls -> Call] /\ (\A c \in Calls : calls'[c] = calls[c] \/ calls'[c].at \in {"done", "stopped"})
        /\ UNCHANGED <<account, sequence, applied, limbo, direct>> /\ faults' \in 0 .. MaxFaults
        /\ guessed \subseteq guessed' /\ guessed' \subseteq Requests
        /\ released \subseteq released' /\ released' \subseteq Requests
        /\ lapsed \subseteq lapsed' /\ lapsed' \subseteq expired' /\ expired' \subseteq Requests
    BY <1>0, <2>1 DEF ledger, clock
  <2> QED
    BY <2>2, <2>3, <2>4, ClosingKeeps
<1>6. ASSUME NEW k \in Keys, Donor(k) PROVE ReservesInv'
  <2>1. PICK to \in {"funded", "absent", "own"} :
          /\ <<account[k], to>> \in {<<"sponsored", "funded">>, <<"funded", "absent">>, <<"absent", "own">>}
          /\ account' = [account EXCEPT ![k] = to]
    BY <1>6 DEF Donor
  <2>2. account \in [Keys -> {"absent", "sponsored", "funded", "own"}] /\ sequence \in Nat
    BY <1>0 DEF SponsorshipTypes
  <2>3. account[k] # "own" /\ (to = "funded" => account[k] = "sponsored")
    BY <2>1
  <2>4. /\ account' \in [Keys -> {"absent", "sponsored", "funded", "own"}]
        /\ account'[k] = to /\ \A j \in Keys : j # k => account'[j] = account[j]
    BY <2>1, <2>2
  <2>7. ASSUME NEW j \in Keys
        PROVE  (Sponsored(j)' => Sponsored(j)) /\ (account[j] = "own" => account'[j] = "own")
    <3>1. CASE j = k
      BY <2>3, <2>4, <3>1 DEF Sponsored
    <3>2. CASE j # k
      BY <2>4, <3>2 DEF Sponsored
    <3> QED
      BY <3>1, <3>2
  <2>5. UNCHANGED <<rows, applied, limbo, direct, clock, history, faults>> /\ calls' = calls /\ sequence' = sequence
    BY <1>6 DEF Donor
  <2>6. sequence' \in Nat /\ sequence <= sequence' /\ calls' \in [Calls -> Call]
    BY <1>0, <2>2, <2>5
  <2> QED
    BY <2>4, <2>5, <2>6, <2>7, AccountsKeep
<1>7. ASSUME NEW c \in Submits, Stop(c) PROVE ReservesInv'
  <2>1. faults' \in 0 .. MaxFaults /\ c \in Calls
    BY <1>0, <1>7, Kinds DEF Stop
  <2> QED
    BY <1>7, <2>1, EndingKeeps DEF Stop
<1>8. ASSUME NEW r \in Requests, DonorSubmits(r) PROVE ReservesInv'
  <2>1. /\ r \notin applied /\ rows[r].tx # NoTx /\ Settles(r) /\ limbo' \subseteq limbo
        /\ direct' = direct \union ({r} \intersect applied')
        /\ UNCHANGED <<rows, clock, history, faults>>
    BY <1>8 DEF DonorSubmits
  <2>2. calls' \in [Calls -> Call] /\ \A c \in Calls : calls'[c] = calls[c]
    BY <1>0, <1>8 DEF DonorSubmits
  <2> QED
    BY <2>1, <2>2, SettlingKeeps
<1> QED
  BY <1>1, <1>2, <1>4, <1>5, <1>6, <1>7, <1>8

\* The invariant holds at the start.
LEMMA InitReserves == SponsorshipInit => ReservesInv
<1> SUFFICES ASSUME SponsorshipInit PROVE ReservesInv
  OBVIOUS
<1>1. PICK key \in Keys : key = CHOOSE k \in Keys : TRUE
  BY SponsorshipAssumption
<1>2. PICK req \in Requests : req = CHOOSE r \in Requests : TRUE
  BY SponsorshipAssumption
<1>3. /\ rows = [r \in Requests |-> [key |-> key, state |-> "none", reserved |-> 0, locked |-> 0, tx |-> 0]]
      /\ calls = [c \in Calls |-> [at |-> "start", row |-> req, key |-> key, exists |-> FALSE, tx |-> 0]]
      /\ account = [k \in Keys |-> "absent"] /\ sequence = 0 /\ applied = {} /\ limbo = {} /\ direct = {} /\ expired = {} /\ lapsed = {}
      /\ guessed = {} /\ released = {} /\ faults = 0
  BY <1>1, <1>2 DEF SponsorshipInit, Idle, NoTx
<1>4. rows \in [Requests -> Row]
  <2>1. 0 \in 0 .. 1 /\ 0 \in Nat
    OBVIOUS
  <2> QED
    BY <1>3, <2>1 DEF Row
<1>5. calls \in [Calls -> Call]
  <2>1. 0 \in Nat
    OBVIOUS
  <2>2. [at |-> "start", row |-> req, key |-> key, exists |-> FALSE, tx |-> 0] \in Call
    BY <2>1 DEF Call
  <2> QED
    BY <1>3, <2>2
<1>6. faults \in 0 .. MaxFaults /\ sequence \in Nat
  <2>1. faults = 0 /\ sequence = 0 /\ MaxFaults \in Nat
    BY <1>3, SponsorshipAssumption
  <2> QED
    BY <2>1
<1>7. SponsorshipTypes
  <2>1. account \in [Keys -> {"absent", "sponsored", "funded", "own"}]
    BY <1>3
  <2>2. /\ applied \subseteq Requests /\ limbo \subseteq Requests /\ direct \subseteq applied /\ lapsed \subseteq expired /\ expired \subseteq Requests
        /\ guessed \subseteq Requests /\ released \subseteq Requests
    BY <1>3
  <2> QED
    BY <1>4, <1>5, <1>6, <2>1, <2>2 DEF SponsorshipTypes
<1>8. \A r \in Requests : rows[r].state = "none" /\ rows[r].tx = NoTx
  BY <1>3 DEF NoTx
<1>9. \A c \in Calls : calls[c].at = "start"
  BY <1>3
<1>10. ReserveIsTracked /\ ActiveIsCreated
  BY <1>3, <1>8 DEF ReserveIsTracked, ActiveIsCreated, Sponsored
<1>11. WithinLimits
  <2>1. Held \ released = {}
    BY <1>8 DEF Held, Holding, Pending
  <2>2. Cardinality({}) = 0
    BY FS_EmptySet
  <2> QED
    BY <2>1, <2>2, SponsorshipAssumption DEF WithinLimits
<1>12. \A r \in Requests : RowFits(r)
  BY <1>3, <1>8 DEF RowFits, TerminalStates, NoTx
<1>13. CallsFit
  <2>1. \A c \in Requests : RequestFits(c)
    BY <1>8, <1>9, Kinds DEF RequestFits
  <2>2. OneLock
    BY <1>9, Kinds DEF OneLock
  <2>3. \A c \in Submits : SubmitFits(c)
    BY <1>9, Kinds DEF SubmitFits
  <2>4. \A c \in Reclaims : ReclaimFits(c)
    BY <1>9, Kinds DEF ReclaimFits
  <2> QED
    BY <2>1, <2>2, <2>3, <2>4 DEF CallsFit
<1> QED
  BY <1>7, <1>10, <1>11, <1>12, <1>13 DEF ReservesInv, RowsFollowLedger

\* Every step keeps it.
LEMMA NextReserves == ReservesInv /\ [SponsorshipNext]_sponsorshipVars => ReservesInv'
<1> SUFFICES ASSUME ReservesInv, [SponsorshipNext]_sponsorshipVars PROVE ReservesInv'
  OBVIOUS
<1>1. ASSUME UNCHANGED sponsorshipVars PROVE ReservesInv'
  <2>1. /\ SponsorshipTypes
        /\ rows' = rows /\ calls' = calls /\ UNCHANGED <<account, sequence, applied, limbo, direct, expired, lapsed, guessed, released, faults>>
    BY <1>1 DEF sponsorshipVars, ledger, clock, history, ReservesInv, RowsFollowLedger
  <2>2. /\ rows' \in [Requests -> Row] /\ \A r \in Requests : rows'[r] = rows[r] \/ Closes(r)
        /\ calls' \in [Calls -> Call] /\ (\A c \in Calls : calls'[c] = calls[c] \/ calls'[c].at \in {"done", "stopped"})
        /\ faults' \in 0 .. MaxFaults
        /\ lapsed \subseteq lapsed' /\ lapsed' \subseteq expired' /\ expired' \subseteq Requests
        /\ guessed \subseteq guessed' /\ guessed' \subseteq Requests
        /\ released \subseteq released' /\ released' \subseteq Requests
    BY <2>1 DEF SponsorshipTypes
  <2> QED
    BY <2>1, <2>2, ClosingKeeps
<1> QED
  BY <1>1, RequestKeeps, SubmitKeeps, ReclaimKeeps, SurroundingsKeep DEF SponsorshipNext

\* Whatever the calls, the donors, the ledger and the timers do between two
\* awaits: the platform loses track of a reserve it is charged for only by
\* closing a row on a guess, a row is active only for an account its own
\* transaction created, and the rows never exceed the limits but by rows that
\* were released and came back.
THEOREM ReservesAreTracked == SponsorshipSpec => []RowsFollowLedger
<1>1. ReservesInv => RowsFollowLedger
  BY DEF ReservesInv
<1> QED
  BY <1>1, InitReserves, NextReserves, PTL DEF SponsorshipSpec

\* A row becomes reclaimed only when the ledger no longer charges the sponsor
\* for its account, or the look-up of the account failed: once a reclaim has
\* revoked the sponsorship, the account never becomes the sponsor's again.
THEOREM ReclaimsAreReturned == SponsorshipSpec => ReclaimedIsReturned
<1>1. ReservesInv /\ [SponsorshipNext]_sponsorshipVars => [Returned]_sponsorshipVars
  <2> SUFFICES ASSUME ReservesInv, SponsorshipNext PROVE Returned
    OBVIOUS
  <2>0. SponsorshipTypes /\ rows \in [Requests -> Row]
    BY DEF ReservesInv, RowsFollowLedger, SponsorshipTypes
  <2>1. ASSUME rows' = rows PROVE Returned
    BY <2>1 DEF Returned
  <2>2. ASSUME NEW r \in Requests, NEW new, new.state # "reclaimed", rows' = [rows EXCEPT ![r] = new] PROVE Returned
    BY <2>0, <2>2 DEF Returned
  <2>3. ASSUME NEW r \in Requests, NEW answered, ReleaseCapacity(r, answered) PROVE Returned
    <3>1. PICK row \in Row : row = rows[r]
      BY <2>0
    <3>2. CASE rows' = rows
      BY <2>1, <3>2
    <3>3. CASE rows' = [rows EXCEPT ![r] = [row EXCEPT !.state = "closed", !.reserved = 0, !.locked = 0]]
      <4>1. [row EXCEPT !.state = "closed", !.reserved = 0, !.locked = 0].state # "reclaimed"
        BY DEF Row
      <4> QED
        BY <2>2, <3>3, <4>1
    <3> QED
      BY <2>3, <3>1, <3>2, <3>3 DEF ReleaseCapacity
  <2>4. ASSUME NEW c \in Requests, RequestStep(c) \/ \E k \in Wants[c] : AskLedger(c, k) PROVE Returned
    <3>1. PICK row \in Row : row = rows[c]
      BY <2>0
    <3>2. ASSUME InsertRow(c) PROVE Returned
      <4>1. [row EXCEPT !.key = calls[c].key, !.reserved = 1, !.state = "requested"].state # "reclaimed"
        BY DEF Row
      <4> QED
        BY <2>1, <2>2, <3>1, <3>2, <4>1 DEF InsertRow
    <3>3. ASSUME StoreOffer(c) PROVE Returned
      <4>1. [row EXCEPT !.state = "awaiting_signature", !.tx = calls[c].tx].state # "reclaimed"
        BY DEF Row
      <4> QED
        BY <2>2, <2>3, <3>1, <3>3, <4>1 DEF StoreOffer
    <3> QED
      BY <2>1, <2>3, <2>4, <3>2, <3>3 DEF RequestStep, AskLedger, Assess, BuildOffer, BuildFails
  <2>5. ASSUME NEW c \in Submits, SubmitStep(c) \/ \E r \in Signs[c] : ReadRow(c, r) PROVE Returned
    <3>1. PICK r \in Requests : r = calls[c].row
      BY <2>0, Kinds, RowTypes
    <3>2. PICK row \in Row : row = rows[r]
      BY <2>0
    <3>3. ASSUME MarkSubmitted(c) PROVE Returned
      <4>1. [row EXCEPT !.state = "submitted"].state # "reclaimed"
        BY DEF Row
      <4> QED
        BY <2>1, <2>2, <3>1, <3>2, <3>3, <4>1 DEF MarkSubmitted
    <3>4. ASSUME RecordActive(c) PROVE Returned
      <4>1. [row EXCEPT !.state = "active", !.locked = row.reserved].state # "reclaimed"
        BY DEF Row
      <4> QED
        BY <2>1, <2>2, <3>1, <3>2, <3>4, <4>1 DEF RecordActive
    <3>5. ASSUME GiveUp(c) \/ RecordFailure(c) PROVE Returned
      BY <2>3, <3>1, <3>5 DEF GiveUp, RecordFailure
    <3> QED
      BY <2>1, <2>5, <3>3, <3>4, <3>5 DEF SubmitStep, ReadRow, Send, SendUnanswered
  <2>6. ASSUME Sweep PROVE Returned
    <3>1. ASSUME NEW r \in Requests PROVE rows'[r] = rows[r] \/ rows'[r].state = "closed"
      <4>1. PICK row \in Row : row = rows[r]
        BY <2>0
      <4>2. rows'[r] = row \/ rows'[r] = [row EXCEPT !.state = "closed", !.reserved = 0]
        BY <2>6, <4>1 DEF Sweep
      <4> QED
        BY <4>1, <4>2 DEF Row
    <3> QED
      BY <3>1 DEF Returned
  <2>7. ASSUME NEW r \in Requests, Abandon(r) PROVE Returned
    BY <2>3, <2>7 DEF Abandon
  <2>8. ASSUME NEW r \in Requests, AppliesLate(r) \/ DonorSubmits(r) \/ Expire(r) \/ Lapse(r) PROVE Returned
    BY <2>1, <2>8 DEF AppliesLate, DonorSubmits, Expire, Lapse
  <2>9. ASSUME NEW k \in Keys, Donor(k) PROVE Returned
    BY <2>1, <2>9 DEF Donor
  <2>10. ASSUME NEW c \in Submits, Stop(c) PROVE Returned
    BY <2>1, <2>10 DEF Stop
  <2> QED
    BY <2>4, <2>5, <2>6, <2>7, <2>8, <2>9, <2>10, ReclaimKeeps DEF SponsorshipNext
<1> QED
  BY <1>1, InitReserves, NextReserves, PTL DEF SponsorshipSpec, ReclaimedIsReturned, Returned
=============================================================================
