------------------------------ MODULE VoteLocks ------------------------------
(***************************************************************************)
(* Token locking and voting power of the DAO governance contract           *)
(* (contracts/dao-governance-contract/src/lib.rs).  Voters lock GP tokens  *)
(* for a number of ledgers; the longer the remaining lock, the greater the *)
(* voting power.  Power is asked for at past ledgers, so every change of a *)
(* lock appends a checkpoint that says from which ledger on it counts.     *)
(*                                                                         *)
(* A contract call is one atomic action; a panic reverts it and is a guard *)
(* here.  The contract is initialised: Config is constant, because         *)
(* set_config needs the contract's own authorisation.                      *)
(***************************************************************************)
EXTENDS Integers, Sequences, FiniteSetsExt, Functions

CONSTANTS
    Voters,
    Funds,          \* GP tokens every voter owns initially
    MinLock,        \* MIN_LOCK_LEDGERS
    MaxLock,        \* MAX_LOCK_LEDGERS
    U32Max,         \* the largest ledger sequence number
    LastLedger,     \* bound: the model stops closing ledgers here
    NoLock          \* no entry under DataKey::Lock(voter)

\* An address is a key of fixed length.
ASSUME VotersAssumption == IsFiniteSet(Voters)

ASSUME LocksAssumption ==
    /\ Funds \in Nat
    /\ MinLock \in Nat \ {0}
    /\ MaxLock \in Nat \ {0}
    /\ MinLock <= MaxLock
    /\ U32Max \in Nat
    /\ LastLedger \in 1 .. U32Max

VARIABLES
    now,            \* env.ledger().sequence()
    locks,          \* DataKey::Lock(voter)
    checkpoints,    \* DataKey::LockCheckpoint(voter, 0 .. count - 1)
    totalLocked,    \* DataKey::TotalLocked
    held,           \* GP tokens the contract owns
    stranded,       \* history: tokens of the locks replaced without a withdrawal
    wallet          \* GP tokens the voters own

lockVars == <<locks, checkpoints, totalLocked, held, stranded, wallet>>

Ledgers == 0 .. U32Max

Lock == [amount: Nat \ {0}, unlock: Ledgers, created: Ledgers]

LockCheckpoint ==
    [effectiveFrom: Ledgers, amount: Nat \ {0}, unlock: Ledgers, created: Ledgers]

ASSUME NoLockAssumption == NoLock \notin Lock

LocksTypeOK ==
    /\ now \in Ledgers
    /\ locks \in [Voters -> Lock \union {NoLock}]
    /\ checkpoints \in [Voters -> Seq(LockCheckpoint)]
    /\ totalLocked \in Nat
    /\ held \in Nat
    /\ stranded \in Nat
    /\ wallet \in [Voters -> Nat]

LocksInit ==
    /\ now = 1
    /\ locks = [v \in Voters |-> NoLock]
    /\ checkpoints = [v \in Voters |-> <<>>]
    /\ totalLocked = 0
    /\ held = 0
    /\ stranded = 0
    /\ wallet = [v \in Voters |-> Funds]

-----------------------------------------------------------------------------
HasLock(v) == locks[v] # NoLock

\* The power a lock record r gives at a ledger, truncated as i128 division is.
PowerOf(r, at) ==
    IF at >= r.unlock \/ at < r.created
    THEN 0
    ELSE (r.amount * (r.unlock - at)) \div MaxLock

\* get_voting_power: the newest checkpoint that was effective at the ledger
\* decides; the live lock counts only for a voter without any checkpoint.
VotingPower(v, at) ==
    LET cps == checkpoints[v]
        effective == {i \in DOMAIN cps : cps[i].effectiveFrom <= at}
    IN  IF cps = <<>>
        THEN IF HasLock(v) THEN PowerOf(locks[v], at) ELSE 0
        ELSE IF effective = {} THEN 0 ELSE PowerOf(cps[Max(effective)], at)

\* Mutated: an extension counts from the ledger it is made in.
WriteLockCheckpoint_SameLedger(v, lock, effectiveFrom) ==
    checkpoints' = [checkpoints EXCEPT ![v] = Append(@,
        [effectiveFrom |-> now, amount |-> lock.amount,
         unlock |-> lock.unlock, created |-> lock.created])]

WriteLockCheckpoint(v, lock, effectiveFrom) ==
    checkpoints' = [checkpoints EXCEPT ![v] = Append(@,
        [effectiveFrom |-> effectiveFrom, amount |-> lock.amount,
         unlock |-> lock.unlock, created |-> lock.created])]

\* Mutated: the amount of a replaced lock stays in the total.
LockTokens_KeepsReplaced(v, amount, duration) ==
    LET lock == [amount |-> amount, unlock |-> now + duration, created |-> now]
        replaced == IF HasLock(v) THEN locks[v].amount ELSE 0
    IN
    /\ amount > 0
    /\ duration \in MinLock .. MaxLock
    /\ HasLock(v) => locks[v].unlock <= now
    /\ now + duration <= U32Max
    /\ amount <= wallet[v]
    /\ locks' = [locks EXCEPT ![v] = lock]
    /\ WriteLockCheckpoint(v, lock, now)
    /\ totalLocked' = totalLocked + amount
    /\ wallet' = [wallet EXCEPT ![v] = @ - amount]
    /\ held' = held + amount
    /\ stranded' = stranded + replaced
    /\ UNCHANGED now

\* A lock that has expired may be replaced without having been withdrawn: its
\* amount leaves the total, its record is overwritten, and its tokens stay.
LockTokens(v, amount, duration) ==
    LET lock == [amount |-> amount, unlock |-> now + duration, created |-> now]
        replaced == IF HasLock(v) THEN locks[v].amount ELSE 0
    IN
    /\ amount > 0
    /\ duration \in MinLock .. MaxLock
    /\ HasLock(v) => locks[v].unlock <= now
    /\ now + duration <= U32Max
    /\ amount <= wallet[v]
    /\ locks' = [locks EXCEPT ![v] = lock]
    /\ WriteLockCheckpoint(v, lock, now)
    /\ totalLocked' = totalLocked - replaced + amount
    /\ wallet' = [wallet EXCEPT ![v] = @ - amount]
    /\ held' = held + amount
    /\ stranded' = stranded + replaced
    /\ UNCHANGED now

\* An expired lock can be extended too.
ExtendLock(v, newUnlock) ==
    LET lock == [locks[v] EXCEPT !.unlock = newUnlock] IN
    /\ HasLock(v)
    /\ newUnlock > locks[v].unlock
    /\ now + MaxLock <= U32Max
    /\ newUnlock <= now + MaxLock
    /\ locks' = [locks EXCEPT ![v] = lock]
    /\ WriteLockCheckpoint(v, lock, now + 1)
    /\ UNCHANGED <<now, totalLocked, held, stranded, wallet>>

\* Mutated: a lock can be withdrawn before it has expired.
Withdraw_Early(v) ==
    /\ HasLock(v)
    /\ locks' = [locks EXCEPT ![v] = NoLock]
    /\ totalLocked' = totalLocked - locks[v].amount
    /\ locks[v].amount <= held
    /\ held' = held - locks[v].amount
    /\ wallet' = [wallet EXCEPT ![v] = @ + locks[v].amount]
    /\ UNCHANGED <<now, checkpoints, stranded>>

Withdraw(v) ==
    /\ HasLock(v)
    /\ now >= locks[v].unlock
    /\ locks' = [locks EXCEPT ![v] = NoLock]
    /\ totalLocked' = totalLocked - locks[v].amount
    /\ locks[v].amount <= held
    /\ held' = held - locks[v].amount
    /\ wallet' = [wallet EXCEPT ![v] = @ + locks[v].amount]
    /\ UNCHANGED <<now, checkpoints, stranded>>

\* GP tokens change hands outside the contract.
TransferGP(v, w, amount) ==
    /\ v # w
    /\ amount \in 1 .. wallet[v]
    /\ wallet' = [wallet EXCEPT ![v] = @ - amount, ![w] = @ + amount]
    /\ UNCHANGED <<now, locks, checkpoints, totalLocked, held, stranded>>

\* The network closes a ledger.
CloseLedger ==
    /\ now < LastLedger
    /\ now' = now + 1
    /\ UNCHANGED lockVars

\* Everything a holder of GP tokens can do without a proposal.
VoterStep(v) ==
    \/ \E amount \in 1 .. wallet[v], d \in MinLock .. MaxLock : LockTokens(v, amount, d)
    \/ \E u \in Ledgers : ExtendLock(v, u)
    \/ Withdraw(v)
    \/ \E w \in Voters : \E amount \in 1 .. wallet[v] : TransferGP(v, w, amount)

LocksNext == CloseLedger \/ \E v \in Voters : VoterStep(v)

LocksSpec == LocksInit /\ [][LocksNext]_<<now, lockVars>>

-----------------------------------------------------------------------------
LockedBy(v) == IF HasLock(v) THEN locks[v].amount ELSE 0

\* The accumulator is the sum of the lock records: replacing, extending and
\* withdrawing locks in any order never makes it drift.  Expired locks count
\* until they are withdrawn or replaced, where INVARIANTS.md:94-95 has it the
\* sum of the locks that have not expired.
TotalMatchesLocks == totalLocked = SumFunction([v \in Voters |-> LockedBy(v)])

\* The contract owns exactly what can still be withdrawn, and the tokens of the
\* expired locks that lock_tokens overwrote: nothing ever gives these back,
\* against INVARIANTS.md:97, nor are they in the total that property_tests.rs:146
\* has the contract's balance equal.
Solvent == held = totalLocked + stranded

\* What the voters together can vote with at a ledger.
TotalPower(l) == SumFunction([v \in Voters |-> VotingPower(v, l)])

\* At every moment the voters' current power fits in the locked total that a
\* quorum is a share of, although power comes from the checkpoints and the
\* total from the live locks.
PowerWithinTotal == TotalPower(now) <= totalLocked

\* At no ledger, past or present, do the voters together have more power than
\* there are tokens: a token that was withdrawn, moved and locked again never
\* counts for two voters at the same ledger.
PowerWithinSupply == \A l \in 0 .. now : TotalPower(l) <= held + SumFunction(wallet)

\* The past is immutable: no step changes a voter's power at an earlier ledger,
\* and at the current one only a voter who had none can gain some.
PowerHistoryFixed ==
    [][\A v \in Voters : \A l \in 0 .. now :
         VotingPower(v, l)' # VotingPower(v, l) => l = now /\ VotingPower(v, l) = 0
      ]_<<now, lockVars>>
=============================================================================
