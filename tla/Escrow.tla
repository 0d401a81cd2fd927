------------------------------- MODULE Escrow -------------------------------
(***************************************************************************)
(* The escrow contract (contracts/escrow-contract/src/lib.rs): a client    *)
(* locks tokens for a job, releases them to the freelancer in one or       *)
(* several payments, and a stalled job is settled by the admin, by expiry  *)
(* or, once a dispute has timed out, by an even split.                     *)
(*                                                                         *)
(* A contract call is one atomic action: a panic anywhere in the call,     *)
(* the token transfer included, reverts all of it, so every panic of the   *)
(* code is a guard here.  Calls that need the client's authorisation are   *)
(* made by the client of the job; who of the two parties disputes, or      *)
(* triggers the fallback, makes no difference to the state.                *)
(***************************************************************************)
EXTENDS Integers, Functions

CONSTANTS
    Accounts,       \* addresses that act as client or freelancer
    Admins,         \* addresses initialize() may be called with
    NoAdmin,        \* "Not initialized"
    Tokens,         \* token contracts
    JobIds,
    NoJob,          \* no entry under DataKey::Job(id)
    Funds,          \* what every account owns of every token initially
    DisputeTimeout, \* DISPUTE_TIMEOUT_LEDGERS
    MaxLedger,      \* the largest ledger sequence number, u32::MAX
    Blockable       \* the <<token, account>> pairs that may refuse a payment

Status == {"Escrowed", "Released", "Disputed", "Refunded"}

Ledgers == 0 .. MaxLedger

Job == [client: Accounts, freelancer: Accounts, token: Tokens,
        amount: Nat, remaining: Nat, status: Status,
        expiry: Ledgers, disputeExpiry: Ledgers]

ASSUME EscrowAssumption ==
    /\ Funds \in Nat
    /\ MaxLedger \in Nat \ {0}
    /\ DisputeTimeout \in Nat \ {0}
    /\ NoJob \notin Job
    /\ NoAdmin \notin Admins
    /\ Blockable \subseteq Tokens \X Accounts

VARIABLES
    now,        \* env.ledger().sequence()
    admin,      \* DataKey::Admin
    allowed,    \* the tokens with an entry DataKey::AllowedToken
    jobs,       \* DataKey::Job(id)
    held,       \* balance of the contract on each token contract
    wallet,     \* balance of every account on each token contract
    blocked,    \* <<token, account>> pairs a transfer to which fails now
    paid        \* history: what was transferred out of the contract per job

vars == <<now, admin, allowed, jobs, held, wallet, blocked, paid>>

TypeOK ==
    /\ now \in Ledgers
    /\ admin \in Admins \union {NoAdmin}
    /\ allowed \subseteq Tokens
    /\ jobs \in [JobIds -> Job \union {NoJob}]
    /\ held \in [Tokens -> Nat]
    /\ wallet \in [Tokens -> [Accounts -> Nat]]
    /\ blocked \subseteq Tokens \X Accounts
    /\ paid \in [JobIds -> [client: Nat, freelancer: Nat]]

Init ==
    /\ now = 1
    /\ admin = NoAdmin
    /\ allowed = {}
    /\ jobs = [j \in JobIds |-> NoJob]
    /\ held = [t \in Tokens |-> 0]
    /\ wallet = [t \in Tokens |-> [a \in Accounts |-> Funds]]
    /\ blocked = {}
    /\ paid = [j \in JobIds |-> [client |-> 0, freelancer |-> 0]]

-----------------------------------------------------------------------------
Exists(j) == jobs[j] # NoJob

InStatus(j, s) == Exists(j) /\ jobs[j].status = s

Terminal(j) == InStatus(j, "Released") \/ InStatus(j, "Refunded")

\* The token transfers that end a call, c to the client and f to the
\* freelancer of job j.  They fail, and the whole call with them, when the
\* contract does not own that much or a payee cannot receive the token.
Transfer(j, c, f) ==
    LET job == jobs[j] IN
    /\ c + f <= held[job.token]
    /\ c > 0 => <<job.token, job.client>> \notin blocked
    /\ f > 0 => <<job.token, job.freelancer>> \notin blocked
    /\ held' = [held EXCEPT ![job.token] = @ - (c + f)]
    /\ wallet' = [wallet EXCEPT ![job.token][job.client] = @ + c,
                                ![job.token][job.freelancer] = @ + f]
    /\ paid' = [paid EXCEPT ![j] = [client |-> @.client + c,
                                     freelancer |-> @.freelancer + f]]

\* The write of the job that precedes the transfers.
Update(j, remaining, status) ==
    jobs' = [jobs EXCEPT ![j].remaining = remaining, ![j].status = status]

Env == <<now, admin, allowed, blocked>>

-----------------------------------------------------------------------------
Initialize(a) ==
    /\ admin = NoAdmin
    /\ admin' = a
    /\ UNCHANGED <<now, allowed, jobs, held, wallet, blocked, paid>>

AllowToken(t) ==
    /\ admin # NoAdmin
    /\ allowed' = allowed \union {t}
    /\ UNCHANGED <<now, admin, jobs, held, wallet, blocked, paid>>

RemoveToken(t) ==
    /\ admin # NoAdmin
    /\ allowed' = allowed \ {t}
    /\ UNCHANGED <<now, admin, jobs, held, wallet, blocked, paid>>

\* The amount moves from the client to the contract before the job is
\* stored; the transfer fails when the client does not own it.
CreateJob(j, c, f, t, amount, expiry) ==
    /\ amount > 0
    /\ expiry > now
    /\ ~Exists(j)
    /\ t \in allowed
    /\ amount <= wallet[t][c]
    /\ wallet' = [wallet EXCEPT ![t][c] = @ - amount]
    /\ held' = [held EXCEPT ![t] = @ + amount]
    /\ jobs' = [jobs EXCEPT ![j] =
         [client |-> c, freelancer |-> f, token |-> t, amount |-> amount,
          remaining |-> amount, status |-> "Escrowed",
          expiry |-> expiry, disputeExpiry |-> 0]]
    /\ UNCHANGED <<Env, paid>>

\* Mutated: the full escrow is paid, whatever was released before.
ReleaseEscrow_WholeAmount(j) ==
    /\ InStatus(j, "Escrowed")
    /\ Update(j, 0, "Released")
    /\ Transfer(j, 0, jobs[j].amount)
    /\ UNCHANGED Env

ReleaseEscrow(j) ==
    /\ InStatus(j, "Escrowed")
    /\ Update(j, 0, "Released")
    /\ Transfer(j, 0, jobs[j].remaining)
    /\ UNCHANGED Env

\* Mutated: the job stays Escrowed when the last stroop has been released.
ReleasePartial_NeverCloses(j, amount) ==
    /\ amount > 0
    /\ InStatus(j, "Escrowed")
    /\ amount <= jobs[j].remaining
    /\ Update(j, jobs[j].remaining - amount, "Escrowed")
    /\ Transfer(j, 0, amount)
    /\ UNCHANGED Env

\* Mutated: a payment can still be released while the job is in dispute.
ReleasePartial_InDispute(j, amount) ==
    LET left == jobs[j].remaining - amount IN
    /\ amount > 0
    /\ Exists(j) /\ ~Terminal(j)
    /\ amount <= jobs[j].remaining
    /\ Update(j, left, IF left = 0 THEN "Released" ELSE jobs[j].status)
    /\ Transfer(j, 0, amount)
    /\ UNCHANGED Env

ReleasePartial(j, amount) ==
    LET left == jobs[j].remaining - amount IN
    /\ amount > 0
    /\ InStatus(j, "Escrowed")
    /\ amount <= jobs[j].remaining
    /\ Update(j, left, IF left = 0 THEN "Released" ELSE "Escrowed")
    /\ Transfer(j, 0, amount)
    /\ UNCHANGED Env

\* Mutated: a job in dispute can be disputed again.
Dispute_Again(j) ==
    /\ InStatus(j, "Escrowed") \/ InStatus(j, "Disputed")
    /\ now + DisputeTimeout <= MaxLedger
    /\ jobs' = [jobs EXCEPT ![j].status = "Disputed",
                            ![j].disputeExpiry = now + DisputeTimeout]
    /\ UNCHANGED <<Env, held, wallet, paid>>

\* checked_add: a dispute whose timeout does not fit in a u32 is refused.
Dispute(j) ==
    /\ InStatus(j, "Escrowed")
    /\ now + DisputeTimeout <= MaxLedger
    /\ jobs' = [jobs EXCEPT ![j].status = "Disputed",
                            ![j].disputeExpiry = now + DisputeTimeout]
    /\ UNCHANGED <<Env, held, wallet, paid>>

ResolveDispute(j, releaseToFreelancer) ==
    LET left == jobs[j].remaining IN
    /\ admin # NoAdmin
    /\ InStatus(j, "Disputed")
    /\ \/ /\ releaseToFreelancer
          /\ Update(j, 0, "Released")
          /\ Transfer(j, 0, left)
       \/ /\ ~releaseToFreelancer
          /\ Update(j, 0, "Refunded")
          /\ Transfer(j, left, 0)
    /\ UNCHANGED Env

ResolveStaleDispute(j) ==
    LET left == jobs[j].remaining  share == left \div 2 IN
    /\ InStatus(j, "Disputed")
    /\ now > jobs[j].disputeExpiry
    /\ Update(j, 0, "Refunded")
    /\ Transfer(j, left - share, share)
    /\ UNCHANGED Env

CancelJob(j) ==
    /\ InStatus(j, "Escrowed")
    /\ now > jobs[j].expiry
    /\ Update(j, 0, "Refunded")
    /\ Transfer(j, jobs[j].remaining, 0)
    /\ UNCHANGED Env

\* The network closes a ledger.
CloseLedger ==
    /\ now < MaxLedger
    /\ now' = now + 1
    /\ UNCHANGED <<admin, allowed, jobs, held, wallet, blocked, paid>>

\* An account stops being able to receive a token (no trustline, not
\* authorised, limit reached), or is able to again.
SetBlocked(t, a) ==
    /\ blocked' = IF <<t, a>> \in blocked THEN blocked \ {<<t, a>>}
                                          ELSE blocked \union {<<t, a>>}
    /\ UNCHANGED <<now, admin, allowed, jobs, held, wallet, paid>>

-----------------------------------------------------------------------------
AdminStep ==
    \/ \E a \in Admins : Initialize(a)
    \/ \E t \in Tokens : AllowToken(t) \/ RemoveToken(t)

Create(j) ==
    \E c, f \in Accounts, t \in Tokens, e \in Ledgers :
        \E amount \in 1 .. wallet[t][c] : CreateJob(j, c, f, t, amount, e)

Partial(j) ==
    Exists(j) /\ \E amount \in 1 .. jobs[j].amount : ReleasePartial(j, amount)

JobStep(j) ==
    \/ Create(j)
    \/ ReleaseEscrow(j)
    \/ Partial(j)
    \/ Dispute(j)
    \/ \E toFreelancer \in BOOLEAN : ResolveDispute(j, toFreelancer)
    \/ ResolveStaleDispute(j)
    \/ CancelJob(j)

Next ==
    \/ AdminStep
    \/ \E j \in JobIds : JobStep(j)
    \/ CloseLedger
    \/ \E b \in Blockable : SetBlocked(b[1], b[2])

Spec == Init /\ [][Next]_vars

\* Ledgers keep closing and a party of a disputed job keeps trying the
\* fallback.  Nothing is asked of the admin or of the client.
FairSpec ==
    /\ Spec
    /\ WF_vars(CloseLedger)
    /\ \A j \in JobIds : SF_vars(ResolveStaleDispute(j))

-----------------------------------------------------------------------------
\* What the contract owes on token t: the unpaid remainder of its jobs.
JobsIn(t) == {j \in JobIds : Exists(j) /\ jobs[j].token = t}
Owed(t) == SumFunction([j \in JobsIn(t) |-> jobs[j].remaining])

\* The tokens the contract holds are exactly what its jobs are still owed:
\* no path of the code pays a job out of another job's money or strands any.
Custody == \A t \in Tokens : held[t] = Owed(t)

\* The books of one job balance: what was deposited is what was paid out and
\* what remains, and a job is open exactly as long as something remains.
JobAccounting ==
    \A j \in JobIds :
        IF Exists(j)
        THEN /\ paid[j].client + paid[j].freelancer + jobs[j].remaining
                  = jobs[j].amount
             /\ Terminal(j) <=> jobs[j].remaining = 0
        ELSE paid[j] = [client |-> 0, freelancer |-> 0]

\* A job in dispute stays as it is, its deadline included, until it is settled
\* for good: all of the remainder to one party, as an admin's decision moves it,
\* or, strictly after the deadline, by a split that never favours the
\* freelancer.  No payment in part and no second dispute gets in between.
DisputeFreeze ==
    [][\A j \in JobIds :
         InStatus(j, "Disputed") /\ <<jobs'[j], paid'[j]>> # <<jobs[j], paid[j]>> =>
            LET c == paid'[j].client - paid[j].client
                f == paid'[j].freelancer - paid[j].freelancer
            IN  /\ jobs'[j].status \in {"Released", "Refunded"} /\ jobs'[j].remaining = 0
                /\ \/ \E toFreelancer \in BOOLEAN : ResolveDispute(j, toFreelancer)
                   \/ now > jobs[j].disputeExpiry /\ f <= c /\ c <= f + 1]_vars

\* Released and Refunded are final: the job and its payments never change.
TerminalIsFinal ==
    [][\A j \in JobIds : Terminal(j) => jobs'[j] = jobs[j] /\ paid'[j] = paid[j]]_vars

Payable(j) ==
    Exists(j) =>
        {<<jobs[j].token, jobs[j].client>>,
         <<jobs[j].token, jobs[j].freelancer>>} \intersect blocked = {}

\* A job in dispute is settled without the admin once its deadline has
\* passed, provided both parties can receive the token again and again.
DisputeSettles ==
    \A j \in JobIds :
        []<>Payable(j) =>
            ((InStatus(j, "Disputed") /\ jobs[j].disputeExpiry < MaxLedger)
                ~> Terminal(j))

\* The contract implements the abstract pots.
Abstract == INSTANCE EscrowCustody WITH
    deposited <- [j \in JobIds |-> IF Exists(j) THEN jobs[j].amount ELSE 0],
    pot <- [j \in JobIds |-> IF Exists(j) THEN jobs[j].remaining ELSE 0],
    toClient <- [j \in JobIds |-> paid[j].client],
    toFreelancer <- [j \in JobIds |-> paid[j].freelancer],
    closed <- {j \in JobIds : Terminal(j)}

\* Every behaviour of the contract is a behaviour of the abstract pots.
ImplementsCustody == Abstract!Spec
=============================================================================
