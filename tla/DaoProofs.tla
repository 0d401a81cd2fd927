----------------------------- MODULE DaoProofs -----------------------------
(***************************************************************************)
(* Theorems about VoteLocks and DaoGovernance, for any number of voters,   *)
(* proposals, locks and ledgers.                                           *)
(*                                                                         *)
(* Voting power at a past ledger never changes.  It is read from a list of *)
(* checkpoints that only grows, and an entry appended now is effective now *)
(* at the earliest; what makes the current ledger safe is that a voter     *)
(* whose lock may be replaced has no power left in any checkpoint.         *)
(*                                                                         *)
(* Votes count with the power of the snapshot, only a majority with quorum *)
(* can be executed, and what was decided is final.  The first rests on the *)
(* part about locks: power at a ledger only ever changes from zero, and a  *)
(* vote is only accepted with power above zero.                            *)
(*                                                                         *)
(* The books: the locked total is the sum of the locks, the tallies are    *)
(* the sums of the votes, and the power of all voters, at any ledger, is   *)
(* within the tokens there are.  Present power is bounded by the locks a   *)
(* checkpoint at a time; past power cannot change, nor can the supply.     *)
(***************************************************************************)
EXTENDS DaoGovernance, Sums

-----------------------------------------------------------------------------
(* Locks and voting power *)

\* The types the argument about power needs; that the total is not negative
\* follows from its being a sum, further down.
LockTypes ==
    /\ now \in Ledgers
    /\ locks \in [Voters -> Lock \union {NoLock}]
    /\ checkpoints \in [Voters -> Seq(LockCheckpoint)]
    /\ totalLocked \in Int
    /\ held \in Nat
    /\ stranded \in Nat
    /\ wallet \in [Voters -> Nat]

\* Checkpoints are written with the lock they describe, and no checkpoint ends
\* later than the lock there is, or than now if there is none.
CheckpointsExpire ==
    \A v \in Voters :
        /\ checkpoints[v] = <<>> => ~HasLock(v)
        /\ \A i \in DOMAIN checkpoints[v] :
             checkpoints[v][i].unlock <= IF HasLock(v) THEN locks[v].unlock ELSE now

LocksInv == LockTypes /\ CheckpointsExpire

\* A bounded set of numbers has a largest one.
LEMMA MaxIsMember ==
    ASSUME NEW S \in SUBSET Nat, S # {}, NEW n \in Nat, \A i \in S : i <= n
    PROVE  Max(S) \in S
<1> DEFINE T == {n - i : i \in S}
<1>0. \A i \in S : i \in Nat /\ n - i \in Nat
  OBVIOUS
<1>1. T \subseteq Nat /\ T # {}
  BY <1>0
<1>2. PICK x \in T : \A y \in T : ~ (<<y, x>> \in OpToRel(<, Nat))
  BY <1>1, NatLessThanWellFounded, WFMin
<1>3. \A y \in T : ~(y < x)
  BY <1>1, <1>2 DEF OpToRel
<1>4. PICK m \in S : x = n - m
  BY <1>2
<1>5. ASSUME NEW i \in S PROVE m >= i
  <2>1. ~(n - i < n - m)
    BY <1>3, <1>4
  <2> QED
    BY <1>0, <2>1
<1> QED
  BY <1>4, <1>5 DEF Max

\* The newest of some checkpoints is one of them.
LEMMA NewestIsMember ==
    ASSUME NEW cps \in Seq(LockCheckpoint), NEW S \in SUBSET DOMAIN cps, S # {}
    PROVE  Max(S) \in DOMAIN cps
<1>1. DOMAIN cps = 1 .. Len(cps) /\ Len(cps) \in Nat
  OBVIOUS
<1>2. S \in SUBSET Nat /\ \A i \in S : i <= Len(cps)
  BY <1>1
<1> QED
  BY <1>1, <1>2, MaxIsMember

\* A checkpoint that is not effective at a ledger decides nothing there.
LEMMA AppendLater ==
    ASSUME NEW cps \in Seq(LockCheckpoint), NEW e \in LockCheckpoint, NEW at \in Nat,
           e.effectiveFrom > at
    PROVE  LET next == Append(cps, e)
               effective == {i \in DOMAIN cps : cps[i].effectiveFrom <= at}
           IN  /\ {i \in DOMAIN next : next[i].effectiveFrom <= at} = effective
               /\ \A i \in effective : next[i] = cps[i]
<1> DEFINE next == Append(cps, e)
<1>1. /\ Len(cps) \in Nat /\ DOMAIN cps = 1 .. Len(cps)
      /\ DOMAIN next = 1 .. (Len(cps) + 1)
      /\ next[Len(cps) + 1] = e
      /\ \A i \in 1 .. Len(cps) : next[i] = cps[i]
  OBVIOUS
<1>2. ~(e.effectiveFrom <= at)
  BY DEF LockCheckpoint, Ledgers
<1> QED
  BY <1>1, <1>2

\* What a voter's power is read from, as one fact about two states.
LEMMA SamePower ==
    ASSUME LocksInv, NEW v \in Voters, NEW at,
           checkpoints'[v] = checkpoints[v],
           checkpoints[v] = <<>> => ~HasLock(v)'
    PROVE  VotingPower(v, at)' = VotingPower(v, at)
BY DEF LocksInv, CheckpointsExpire, VotingPower

\* Appending a checkpoint for later leaves the power at a ledger alone.
LEMMA PowerBeforeCheckpoint ==
    ASSUME LocksInv, NEW v \in Voters, NEW at \in Nat, NEW e \in LockCheckpoint,
           checkpoints'[v] = Append(checkpoints[v], e),
           e.effectiveFrom > at
    PROVE  VotingPower(v, at)' = VotingPower(v, at)
<1> DEFINE cps == checkpoints[v]
           next == Append(cps, e)
           effective == {i \in DOMAIN cps : cps[i].effectiveFrom <= at}
<1>1. cps \in Seq(LockCheckpoint)
  BY DEF LocksInv, LockTypes
<1>2. /\ {i \in DOMAIN next : next[i].effectiveFrom <= at} = effective
      /\ \A i \in effective : next[i] = cps[i]
  BY <1>1, AppendLater
<1>3. next # <<>>
  BY <1>1
<1>4. VotingPower(v, at)' = IF effective = {} THEN 0 ELSE PowerOf(next[Max(effective)], at)
  BY <1>2, <1>3 DEF VotingPower
<1>5. CASE cps = <<>>
  <2>1. effective = {} /\ ~HasLock(v)
    BY <1>5 DEF LocksInv, CheckpointsExpire
  <2> QED
    BY <1>4, <1>5, <2>1 DEF VotingPower
<1>6. CASE cps # <<>>
  <2>1. VotingPower(v, at) = IF effective = {} THEN 0 ELSE PowerOf(cps[Max(effective)], at)
    BY <1>6 DEF VotingPower
  <2>2. CASE effective = {}
    BY <1>4, <2>1, <2>2
  <2>3. CASE effective # {}
    <3>1. Max(effective) \in effective
      <4>1. effective \in SUBSET Nat /\ Len(cps) \in Nat /\ \A i \in effective : i <= Len(cps)
        BY <1>1
      <4> QED
        BY <2>3, <4>1, MaxIsMember
    <3> QED
      BY <1>2, <1>4, <2>1, <2>3, <3>1
  <2> QED
    BY <2>2, <2>3
<1> QED
  BY <1>5, <1>6

\* A voter whose lock has expired, or who has none, has no power now.
LEMMA ExpiredHasNoPower ==
    ASSUME LocksInv, NEW v \in Voters, HasLock(v) => locks[v].unlock <= now
    PROVE  VotingPower(v, now) = 0
<1> DEFINE cps == checkpoints[v]
           effective == {i \in DOMAIN cps : cps[i].effectiveFrom <= now}
<1>1. cps \in Seq(LockCheckpoint) /\ now \in Nat
  BY DEF LocksInv, LockTypes, Ledgers
<1>2. CASE cps = <<>>
  BY <1>2 DEF LocksInv, CheckpointsExpire, VotingPower
<1>3. CASE cps # <<>> /\ effective = {}
  BY <1>3 DEF VotingPower
<1>4. CASE cps # <<>> /\ effective # {}
  <2> DEFINE newest == cps[Max(effective)]
  <2>1. Max(effective) \in DOMAIN cps
    BY <1>1, <1>4, NewestIsMember
  <2>2. VotingPower(v, now) = PowerOf(newest, now)
    BY <1>4 DEF VotingPower
  <2>3. newest.unlock <= IF HasLock(v) THEN locks[v].unlock ELSE now
    BY <2>1 DEF LocksInv, CheckpointsExpire
  <2>4. newest \in LockCheckpoint
    <3>1. \A i \in DOMAIN cps : cps[i] \in LockCheckpoint
      BY <1>1
    <3> HIDE DEF cps, effective
    <3> QED
      BY <2>1, <3>1
  <2> HIDE DEF newest
  <2>5. newest.unlock \in Int
    BY <2>4 DEF LockCheckpoint, Ledgers
  <2>6. HasLock(v) => locks[v].unlock \in Int
    BY DEF LocksInv, LockTypes, HasLock, Lock, Ledgers
  <2>7. now >= newest.unlock
    BY <1>1, <2>3, <2>5, <2>6
  <2> QED
    BY <2>2, <2>7 DEF PowerOf
<1> QED
  BY <1>2, <1>3, <1>4

\* Before the first lock there are no checkpoints.
LEMMA InitInv == LocksInit => LocksInv
<1> SUFFICES ASSUME LocksInit PROVE LocksInv
  OBVIOUS
<1>1. \A v \in Voters : checkpoints[v] = <<>> /\ locks[v] = NoLock
  BY DEF LocksInit
<1>2. LockTypes
  BY LocksAssumption, NoLockAssumption DEF LocksInit, LockTypes, Ledgers
<1>3. CheckpointsExpire
  BY <1>1 DEF CheckpointsExpire, HasLock
<1> QED
  BY <1>2, <1>3 DEF LocksInv

\* Writing a lock and its checkpoint together keeps the invariant, if the new
\* lock ends no earlier than the old one, or than now if there was none.
LEMMA WriteInv ==
    ASSUME LocksInv, NEW v \in Voters, NEW lock \in Lock, NEW from \in Ledgers,
           now' = now,
           locks' = [locks EXCEPT ![v] = lock],
           WriteLockCheckpoint(v, lock, from),
           lock.unlock >= IF HasLock(v) THEN locks[v].unlock ELSE now
    PROVE  /\ locks' \in [Voters -> Lock \union {NoLock}]
           /\ checkpoints' \in [Voters -> Seq(LockCheckpoint)]
           /\ CheckpointsExpire'
<1> DEFINE e == [effectiveFrom |-> from, amount |-> lock.amount,
                 unlock |-> lock.unlock, created |-> lock.created]
<1>1. e \in LockCheckpoint /\ e.unlock = lock.unlock
  BY DEF Lock, LockCheckpoint
<1>2. /\ locks'[v] = lock
      /\ checkpoints'[v] = Append(checkpoints[v], e)
      /\ \A w \in Voters \ {v} : locks'[w] = locks[w] /\ checkpoints'[w] = checkpoints[w]
      /\ checkpoints[v] \in Seq(LockCheckpoint)
  BY DEF LocksInv, LockTypes, WriteLockCheckpoint
<1>3. checkpoints' = [checkpoints EXCEPT ![v] = Append(checkpoints[v], e)]
  BY DEF LocksInv, LockTypes, WriteLockCheckpoint
<1> HIDE DEF e
<1>4. Append(checkpoints[v], e) \in Seq(LockCheckpoint)
  BY <1>1, <1>2
<1>5. ASSUME NEW w \in Voters, NEW i \in DOMAIN checkpoints'[w]
      PROVE  checkpoints'[w][i].unlock <= IF HasLock(w)' THEN locks'[w].unlock ELSE now'
  <2>1. CASE w # v
    BY <1>2, <1>5, <2>1 DEF LocksInv, CheckpointsExpire, HasLock
  <2>2. CASE w = v
    <3>1. HasLock(w)'
      BY <1>2, <2>2, NoLockAssumption DEF HasLock
    <3>2. lock.unlock \in Int /\ now \in Int /\ (HasLock(v) => locks[v].unlock \in Int)
      BY DEF LocksInv, LockTypes, HasLock, Lock, Ledgers
    <3>3. CASE i = Len(checkpoints[v]) + 1
      BY <1>1, <1>2, <2>2, <3>1, <3>2, <3>3
    <3>4. CASE i # Len(checkpoints[v]) + 1
      <4>1. i \in DOMAIN checkpoints[v] /\ checkpoints'[v][i] = checkpoints[v][i]
        BY <1>2, <1>5, <2>2, <3>4
      <4>2. checkpoints[v][i].unlock <= IF HasLock(v) THEN locks[v].unlock ELSE now
        BY <4>1 DEF LocksInv, CheckpointsExpire
      <4>3. checkpoints[v][i].unlock \in Int
        <5>1. checkpoints[v][i] \in LockCheckpoint
          BY <1>2, <4>1
        <5> QED
          BY <5>1 DEF LockCheckpoint, Ledgers
      <4>4. checkpoints[v][i].unlock <= lock.unlock
        BY <3>2, <4>2, <4>3
      <4> QED
        BY <1>2, <2>2, <3>1, <4>1, <4>4
    <3> QED
      BY <3>3, <3>4
  <2> QED
    BY <2>1, <2>2
<1>6. ASSUME NEW w \in Voters PROVE checkpoints'[w] = <<>> => ~HasLock(w)'
  <2>1. Append(checkpoints[v], e) # <<>>
    BY <1>2
  <2> QED
    BY <1>2, <2>1 DEF LocksInv, CheckpointsExpire, HasLock
<1>7. /\ locks' \in [Voters -> Lock \union {NoLock}]
      /\ checkpoints' \in [Voters -> Seq(LockCheckpoint)]
  BY <1>3, <1>4 DEF LocksInv, LockTypes
<1> QED
  BY <1>5, <1>6, <1>7 DEF CheckpointsExpire

\* lock_tokens writes a lock and its checkpoint.
LEMMA LockTokensInv ==
    ASSUME LocksInv, NEW v \in Voters, NEW amount \in 1 .. wallet[v],
           NEW d \in MinLock .. MaxLock, LockTokens(v, amount, d)
    PROVE  LocksInv'
<1> DEFINE lock == [amount |-> amount, unlock |-> now + d, created |-> now]
<1>1. now \in Nat /\ d \in Nat /\ now + d \in Ledgers /\ wallet[v] \in Nat
  BY LocksAssumption DEF LocksInv, LockTypes, Ledgers, LockTokens
<1>2. lock \in Lock
  BY <1>1 DEF Lock, LocksInv, LockTypes
<1>3. lock.unlock >= IF HasLock(v) THEN locks[v].unlock ELSE now
  <2>1. HasLock(v) => locks[v].unlock \in Int /\ locks[v].unlock <= now
    BY DEF LocksInv, LockTypes, HasLock, Lock, Ledgers, LockTokens
  <2> QED
    BY <1>1, <2>1
<1>4. /\ now' = now /\ locks' = [locks EXCEPT ![v] = lock]
      /\ WriteLockCheckpoint(v, lock, now) /\ now \in Ledgers
  BY DEF LockTokens, LocksInv, LockTypes
<1> HIDE DEF lock
<1>5. /\ locks' \in [Voters -> Lock \union {NoLock}]
      /\ checkpoints' \in [Voters -> Seq(LockCheckpoint)]
      /\ CheckpointsExpire'
  BY <1>2, <1>3, <1>4, WriteInv
<1>6. (IF HasLock(v) THEN locks[v].amount ELSE 0) \in Nat
  BY DEF LocksInv, LockTypes, HasLock, Lock
<1>7. totalLocked' \in Int /\ held' \in Nat /\ stranded' \in Nat
  BY <1>1, <1>6 DEF LocksInv, LockTypes, LockTokens
<1>8. wallet' \in [Voters -> Nat]
  BY <1>1 DEF LocksInv, LockTypes, LockTokens
<1> QED
  BY <1>4, <1>5, <1>7, <1>8 DEF LocksInv, LockTypes

\* extend_lock writes a later end and a checkpoint for the next ledger.
LEMMA ExtendLockInv ==
    ASSUME LocksInv, NEW v \in Voters, NEW u \in Ledgers, ExtendLock(v, u)
    PROVE  LocksInv'
<1> DEFINE lock == [locks[v] EXCEPT !.unlock = u]
<1>1. locks[v] \in Lock /\ now \in Nat /\ now + 1 \in Ledgers
  BY LocksAssumption DEF LocksInv, LockTypes, HasLock, Ledgers, ExtendLock
<1>2. lock \in Lock /\ lock.unlock = u
  BY <1>1 DEF Lock
<1>3. lock.unlock >= IF HasLock(v) THEN locks[v].unlock ELSE now
  <2>1. locks[v].unlock \in Int /\ u \in Int
    BY <1>1 DEF Lock, Ledgers
  <2> QED
    BY <1>2, <2>1 DEF ExtendLock
<1>4. /\ now' = now /\ locks' = [locks EXCEPT ![v] = lock]
      /\ WriteLockCheckpoint(v, lock, now + 1)
      /\ UNCHANGED <<totalLocked, held, stranded, wallet>>
  BY DEF ExtendLock
<1> HIDE DEF lock
<1>5. /\ locks' \in [Voters -> Lock \union {NoLock}]
      /\ checkpoints' \in [Voters -> Seq(LockCheckpoint)]
      /\ CheckpointsExpire'
  BY <1>1, <1>2, <1>3, <1>4, WriteInv
<1> QED
  BY <1>4, <1>5 DEF LocksInv, LockTypes

\* withdraw removes a lock that has expired, so no checkpoint outlives now.
LEMMA WithdrawInv ==
    ASSUME LocksInv, NEW v \in Voters, Withdraw(v)
    PROVE  LocksInv'
<1>1. locks[v] \in Lock
  BY DEF LocksInv, LockTypes, HasLock, Withdraw
<1>2. locks[v].amount \in Nat /\ locks[v].unlock \in Int /\ now \in Int
  BY <1>1 DEF Lock, Ledgers, LocksInv, LockTypes
<1>3. LockTypes'
  <2>1. LockTypes /\ locks[v].amount <= held
    BY DEF LocksInv, Withdraw
  <2>2. /\ locks' = [locks EXCEPT ![v] = NoLock] /\ held' = held - locks[v].amount
        /\ totalLocked' = totalLocked - locks[v].amount
        /\ wallet' = [wallet EXCEPT ![v] = @ + locks[v].amount]
        /\ now' = now /\ checkpoints' = checkpoints /\ stranded' = stranded
    BY DEF Withdraw
  <2>3. locks' \in [Voters -> Lock \union {NoLock}]
    BY <2>1, <2>2 DEF LockTypes
  <2>4. held' \in Nat /\ totalLocked' \in Int /\ wallet' \in [Voters -> Nat]
    BY <1>2, <2>1, <2>2 DEF LockTypes
  <2> QED
    BY <2>1, <2>2, <2>3, <2>4 DEF LockTypes
<1>4. ASSUME NEW w \in Voters, NEW i \in DOMAIN checkpoints[w]
      PROVE  checkpoints[w][i].unlock <= IF HasLock(w)' THEN locks'[w].unlock ELSE now
  <2>1. CASE w = v
    <3>1. ~HasLock(v)' /\ now >= locks[v].unlock /\ HasLock(v)
      BY DEF Withdraw, HasLock, LocksInv, LockTypes
    <3>2. checkpoints[v][i] \in LockCheckpoint
      <4>1. checkpoints[v] \in Seq(LockCheckpoint)
        BY DEF LocksInv, LockTypes
      <4> QED
        BY <1>4, <2>1, <4>1
    <3>3. checkpoints[v][i].unlock \in Int
      BY <3>2 DEF LockCheckpoint, Ledgers
    <3>4. checkpoints[v][i].unlock <= locks[v].unlock
      BY <1>4, <2>1, <3>1 DEF LocksInv, CheckpointsExpire
    <3> QED
      BY <1>2, <2>1, <3>1, <3>3, <3>4
  <2>2. CASE w # v
    BY <1>4, <2>2 DEF LocksInv, LockTypes, CheckpointsExpire, HasLock, Withdraw
  <2> QED
    BY <2>1, <2>2
<1>5. ASSUME NEW w \in Voters PROVE checkpoints[w] = <<>> => ~HasLock(w)'
  BY DEF LocksInv, LockTypes, CheckpointsExpire, HasLock, Withdraw
<1>6. CheckpointsExpire'
  BY <1>4, <1>5 DEF CheckpointsExpire, Withdraw
<1> QED
  BY <1>3, <1>6 DEF LocksInv

\* Every step keeps the invariant.
LEMMA NextInv == LocksInv /\ [LocksNext]_<<now, lockVars>> => LocksInv'
<1> SUFFICES ASSUME LocksInv, [LocksNext]_<<now, lockVars>> PROVE LocksInv'
  OBVIOUS
<1>1. ASSUME NEW v \in Voters, VoterStep(v) PROVE LocksInv'
  <2>1. ASSUME NEW amount \in 1 .. wallet[v], NEW d \in MinLock .. MaxLock,
               LockTokens(v, amount, d)
        PROVE  LocksInv'
    BY <2>1, LockTokensInv
  <2>2. ASSUME NEW u \in Ledgers, ExtendLock(v, u) PROVE LocksInv'
    BY <2>2, ExtendLockInv
  <2>3. CASE Withdraw(v)
    BY <2>3, WithdrawInv
  <2>4. ASSUME NEW w \in Voters, NEW amount \in 1 .. wallet[v], TransferGP(v, w, amount)
        PROVE  LocksInv'
    <3>1. wallet' \in [Voters -> Nat]
      <4>1. wallet[v] \in Nat /\ wallet[w] \in Nat /\ v # w
        BY <2>4 DEF LocksInv, LockTypes, TransferGP
      <4>2. wallet[v] - amount \in Nat /\ wallet[w] + amount \in Nat
        BY <2>4, <4>1
      <4>3. wallet' = [wallet EXCEPT ![v] = wallet[v] - amount, ![w] = wallet[w] + amount]
        BY <2>4, <4>1 DEF LocksInv, LockTypes, TransferGP
      <4>4. wallet \in [Voters -> Nat]
        BY DEF LocksInv, LockTypes
      <4> QED
        BY <4>2, <4>3, <4>4
    <3>2. UNCHANGED <<now, locks, checkpoints, totalLocked, held, stranded>>
      BY <2>4 DEF TransferGP
    <3> QED
      BY <3>1, <3>2 DEF LocksInv, LockTypes, CheckpointsExpire, HasLock
  <2> QED
    BY <1>1, <2>1, <2>2, <2>3, <2>4 DEF VoterStep
<1>2. CASE CloseLedger
  <2>1. now \in Nat /\ now' = now + 1 /\ now' \in Ledgers
    BY <1>2, LocksAssumption DEF LocksInv, LockTypes, CloseLedger, Ledgers
  <2>2. UNCHANGED lockVars
    BY <1>2 DEF CloseLedger
  <2>3. LockTypes'
    BY <2>1, <2>2 DEF LocksInv, LockTypes, lockVars
  <2>4. ASSUME NEW w \in Voters, NEW i \in DOMAIN checkpoints[w]
        PROVE  checkpoints[w][i].unlock <= IF HasLock(w) THEN locks[w].unlock ELSE now'
    <3>1. checkpoints[w][i] \in LockCheckpoint
      <4>1. checkpoints[w] \in Seq(LockCheckpoint)
        BY DEF LocksInv, LockTypes
      <4> QED
        BY <2>4, <4>1
    <3>2. checkpoints[w][i].unlock \in Int
      BY <3>1 DEF LockCheckpoint, Ledgers
    <3>3. checkpoints[w][i].unlock <= IF HasLock(w) THEN locks[w].unlock ELSE now
      BY <2>4 DEF LocksInv, CheckpointsExpire
    <3> QED
      BY <2>1, <3>2, <3>3
  <2>5. CheckpointsExpire'
    BY <2>2, <2>4 DEF LocksInv, CheckpointsExpire, HasLock, lockVars
  <2> QED
    BY <2>3, <2>5 DEF LocksInv
<1>3. CASE UNCHANGED <<now, lockVars>>
  BY <1>3 DEF LocksInv, LockTypes, CheckpointsExpire, HasLock, lockVars
<1> QED
  BY <1>1, <1>2, <1>3 DEF LocksNext

\* The locks the contract keeps are always well formed, and no checkpoint
\* outlives the lock it was written with.
THEOREM LocksInvariantHolds == LocksSpec => []LocksInv
BY InitInv, NextInv, PTL DEF LocksSpec

-----------------------------------------------------------------------------
\* A step that writes no checkpoint for a voter, and no lock for a voter
\* without any, leaves the voter's power alone at every ledger.
LEMMA PowerKept ==
    ASSUME LocksInv, NEW v \in Voters, NEW at,
           checkpoints'[v] = checkpoints[v],
           locks'[v] \in {locks[v], NoLock}
    PROVE  VotingPower(v, at)' = VotingPower(v, at)
<1>1. checkpoints[v] = <<>> => ~HasLock(v)'
  BY DEF LocksInv, CheckpointsExpire, HasLock
<1> QED
  BY <1>1, SamePower

\* The step fact behind PowerHistoryFixed, for whatever else the step does.
LEMMA PowerStep ==
    ASSUME LocksInv, [LocksNext]_<<now, lockVars>>, NEW v \in Voters, NEW l \in 0 .. now
    PROVE  VotingPower(v, l)' = VotingPower(v, l) \/ (l = now /\ VotingPower(v, l) = 0)
<1>1. now \in Nat /\ l \in Nat /\ l <= now
  BY DEF LocksInv, LockTypes, Ledgers
<1>2. /\ locks \in [Voters -> Lock \union {NoLock}]
      /\ checkpoints \in [Voters -> Seq(LockCheckpoint)]
  BY DEF LocksInv, LockTypes
<1>3. CASE CloseLedger \/ UNCHANGED <<now, lockVars>>
  <2>1. checkpoints'[v] = checkpoints[v] /\ locks'[v] = locks[v]
    BY <1>3 DEF CloseLedger, lockVars
  <2> QED
    BY <2>1, PowerKept
<1>4. ASSUME NEW w \in Voters, NEW amount \in 1 .. wallet[w],
             NEW d \in MinLock .. MaxLock, LockTokens(w, amount, d)
      PROVE  VotingPower(v, l)' = VotingPower(v, l) \/ (l = now /\ VotingPower(v, l) = 0)
  <2>1. CASE v # w
    <3>1. checkpoints'[v] = checkpoints[v] /\ locks'[v] = locks[v]
      BY <1>2, <1>4, <2>1 DEF LockTokens, WriteLockCheckpoint
    <3> QED
      BY <3>1, PowerKept
  <2>2. CASE v = w /\ l < now
    <3> DEFINE e == [effectiveFrom |-> now, amount |-> amount,
                     unlock |-> now + d, created |-> now]
    <3>1. checkpoints'[v] = Append(checkpoints[v], e)
      BY <1>2, <1>4, <2>2 DEF LockTokens, WriteLockCheckpoint
    <3>2. e \in LockCheckpoint
      <4>1. wallet[w] \in Nat /\ now \in Ledgers /\ d \in Nat
        BY LocksAssumption DEF LocksInv, LockTypes
      <4>2. amount \in Nat \ {0} /\ now + d \in Ledgers
        BY <1>1, <1>4, <4>1, LocksAssumption DEF LockTokens, Ledgers
      <4> QED
        BY <4>1, <4>2 DEF LockCheckpoint
    <3>3. e.effectiveFrom > l
      BY <2>2
    <3> HIDE DEF e
    <3> QED
      BY <1>1, <3>1, <3>2, <3>3, PowerBeforeCheckpoint
  <2>3. CASE v = w /\ l = now
    <3>1. HasLock(v) => locks[v].unlock <= now
      BY <1>4, <2>3 DEF LockTokens
    <3> QED
      BY <2>3, <3>1, ExpiredHasNoPower
  <2> QED
    BY <1>1, <2>1, <2>2, <2>3
<1>5. ASSUME NEW w \in Voters, NEW u \in Ledgers, ExtendLock(w, u)
      PROVE  VotingPower(v, l)' = VotingPower(v, l)
  <2>1. CASE v # w
    <3>1. checkpoints'[v] = checkpoints[v] /\ locks'[v] = locks[v]
      BY <1>2, <1>5, <2>1 DEF ExtendLock, WriteLockCheckpoint
    <3> QED
      BY <3>1, PowerKept
  <2>2. CASE v = w
    <3> DEFINE lock == [locks[v] EXCEPT !.unlock = u]
               e == [effectiveFrom |-> now + 1, amount |-> lock.amount,
                     unlock |-> lock.unlock, created |-> lock.created]
    <3>1. checkpoints'[v] = Append(checkpoints[v], e)
      BY <1>2, <1>5, <2>2 DEF ExtendLock, WriteLockCheckpoint
    <3>2. e \in LockCheckpoint
      <4>1. locks[v] \in Lock /\ now + 1 \in Ledgers
        BY <1>1, <1>2, <1>5, <2>2, LocksAssumption DEF ExtendLock, HasLock, Ledgers
      <4>2. lock \in Lock
        BY <4>1 DEF Lock
      <4> HIDE DEF lock
      <4> QED
        BY <4>1, <4>2 DEF Lock, LockCheckpoint
    <3>3. e.effectiveFrom > l
      BY <1>1
    <3> HIDE DEF e
    <3> QED
      BY <1>1, <3>1, <3>2, <3>3, PowerBeforeCheckpoint
  <2> QED
    BY <2>1, <2>2
<1>6. ASSUME NEW w \in Voters, Withdraw(w) PROVE VotingPower(v, l)' = VotingPower(v, l)
  <2>1. checkpoints'[v] = checkpoints[v] /\ locks'[v] \in {locks[v], NoLock}
    BY <1>2, <1>6 DEF Withdraw
  <2> QED
    BY <2>1, PowerKept
<1>7. ASSUME NEW w \in Voters, NEW x \in Voters, NEW amount \in 1 .. wallet[w],
             TransferGP(w, x, amount)
      PROVE  VotingPower(v, l)' = VotingPower(v, l)
  <2>1. checkpoints'[v] = checkpoints[v] /\ locks'[v] = locks[v]
    BY <1>7 DEF TransferGP
  <2> QED
    BY <2>1, PowerKept
<1> QED
  BY <1>3, <1>4, <1>5, <1>6, <1>7 DEF LocksNext, VoterStep

\* PowerHistoryFixed: a voter's power at a past ledger never changes, and at
\* the current one only a voter without power can gain some (get_voting_power
\* over write_lock_checkpoint, for any number of locks and ledgers).
THEOREM PowerHistoryIsFixed == LocksSpec => PowerHistoryFixed
<1>1. LocksInv /\ [LocksNext]_<<now, lockVars>>
      => [\A v \in Voters : \A l \in 0 .. now :
            VotingPower(v, l)' # VotingPower(v, l) => l = now /\ VotingPower(v, l) = 0
         ]_<<now, lockVars>>
  BY PowerStep
<1> QED
  BY <1>1, LocksInvariantHolds, PTL DEF LocksSpec, PowerHistoryFixed

\* Voting power is an integer.
LEMMA PowerIsInt ==
    ASSUME LocksInv, NEW v \in Voters, NEW at \in Nat
    PROVE  VotingPower(v, at) \in Int
<1>1. ASSUME NEW r, r.amount \in Int, r.unlock \in Int PROVE PowerOf(r, at) \in Int
  <2>1. r.amount * (r.unlock - at) \in Int
    BY <1>1
  <2>2. (r.amount * (r.unlock - at)) \div MaxLock \in Int
    BY <2>1, LocksAssumption
  <2> QED
    BY <2>2 DEF PowerOf
<1>2. HasLock(v) => locks[v].amount \in Int /\ locks[v].unlock \in Int
  BY DEF LocksInv, LockTypes, HasLock, Lock, Ledgers
<1>3. checkpoints[v] \in Seq(LockCheckpoint)
  BY DEF LocksInv, LockTypes
<1>4. \A i \in DOMAIN checkpoints[v] :
        checkpoints[v][i].amount \in Int /\ checkpoints[v][i].unlock \in Int
  <2>1. \A i \in DOMAIN checkpoints[v] : checkpoints[v][i] \in LockCheckpoint
    BY <1>3
  <2> QED
    BY <2>1 DEF LockCheckpoint, Ledgers
<1> DEFINE effective == {i \in DOMAIN checkpoints[v] : checkpoints[v][i].effectiveFrom <= at}
<1>5. CASE checkpoints[v] = <<>>
  <2>1. HasLock(v) => PowerOf(locks[v], at) \in Int
    BY <1>1, <1>2
  <2> QED
    BY <1>5, <2>1 DEF VotingPower
<1>6. CASE checkpoints[v] # <<>> /\ effective = {}
  BY <1>6 DEF VotingPower
<1>7. CASE checkpoints[v] # <<>> /\ effective # {}
  <2>1. Max(effective) \in DOMAIN checkpoints[v]
    BY <1>3, <1>7, NewestIsMember
  <2>2. PowerOf(checkpoints[v][Max(effective)], at) \in Int
    BY <1>1, <1>4, <2>1
  <2> QED
    BY <1>7, <2>2 DEF VotingPower
<1> QED
  BY <1>5, <1>6, <1>7

-----------------------------------------------------------------------------
(* The sums of the locks *)

\* A checkpoint gives power for no longer than a lock may last, and as long as
\* it gives any, there is a lock of at least its amount.
CheckpointsFit ==
    \A v \in Voters : \A i \in DOMAIN checkpoints[v] :
        LET cp == checkpoints[v][i] IN
        /\ cp.unlock <= cp.effectiveFrom + MaxLock
        /\ cp.unlock > now => HasLock(v) /\ cp.amount <= locks[v].amount

SumsInv == CheckpointsFit /\ TotalMatchesLocks /\ Solvent /\ PowerWithinSupply

Supply == held + SumFunction(wallet)

\* A sum over the voters is one over a finite set.
LEMMA SumOverVoters ==
    ASSUME NEW f, DOMAIN f = Voters
    PROVE  SumFunction(f) = SumFunctionOnSet(f, Voters)
BY DEF SumFunction

\* What voters have locked is a number.
LEMMA LockedIsInt ==
    ASSUME LocksInv, NEW v \in Voters
    PROVE  LockedBy(v) \in Nat /\ LockedBy(v)' = IF HasLock(v)' THEN locks'[v].amount ELSE 0
BY DEF LocksInv, LockTypes, LockedBy, HasLock, Lock

\* The last of a list with one more entry is that entry, the others stay.
LEMMA AppendedEntry ==
    ASSUME NEW S, NEW s \in Seq(S), NEW e \in S, NEW i \in DOMAIN Append(s, e)
    PROVE  \/ Append(s, e)[i] = e
           \/ i \in DOMAIN s /\ Append(s, e)[i] = s[i]
OBVIOUS

\* Writing a lock and its checkpoint: what still gives power is of the amount
\* of the new lock or less.
LEMMA WriteFits ==
    ASSUME LocksInv, CheckpointsFit, NEW v \in Voters, NEW lock \in Lock, NEW from \in Ledgers,
           now' = now,
           locks' = [locks EXCEPT ![v] = lock],
           WriteLockCheckpoint(v, lock, from),
           lock.unlock <= from + MaxLock,
           \/ HasLock(v) => locks[v].unlock <= now
           \/ HasLock(v) /\ lock.amount = locks[v].amount
    PROVE  CheckpointsFit'
<1> DEFINE e == [effectiveFrom |-> from, amount |-> lock.amount,
                 unlock |-> lock.unlock, created |-> lock.created]
<1>1. /\ e \in LockCheckpoint /\ e.unlock = lock.unlock /\ e.amount = lock.amount
      /\ e.effectiveFrom = from
  BY DEF Lock, LockCheckpoint
<1>2. /\ locks'[v] = lock
      /\ checkpoints'[v] = Append(checkpoints[v], e)
      /\ \A w \in Voters \ {v} : locks'[w] = locks[w] /\ checkpoints'[w] = checkpoints[w]
      /\ checkpoints[v] \in Seq(LockCheckpoint)
  BY DEF LocksInv, LockTypes, WriteLockCheckpoint
<1> HIDE DEF e
<1>3. HasLock(v)' /\ lock.amount \in Nat
  BY <1>2, NoLockAssumption DEF HasLock, Lock
<1> SUFFICES ASSUME NEW w \in Voters, NEW i \in DOMAIN checkpoints'[w]
             PROVE  /\ checkpoints'[w][i].unlock <= checkpoints'[w][i].effectiveFrom + MaxLock
                    /\ checkpoints'[w][i].unlock > now' =>
                         HasLock(w)' /\ checkpoints'[w][i].amount <= locks'[w].amount
  BY DEF CheckpointsFit
<1>4. CASE w # v
  BY <1>2, <1>4 DEF CheckpointsFit, HasLock
<1>5. CASE w = v /\ checkpoints'[v][i] = e
  BY <1>1, <1>2, <1>3, <1>5
<1>6. CASE w = v /\ i \in DOMAIN checkpoints[v] /\ checkpoints'[v][i] = checkpoints[v][i]
  <2> DEFINE cp == checkpoints[v][i]
  <2>1. /\ cp.unlock <= cp.effectiveFrom + MaxLock
        /\ cp.unlock > now => HasLock(v) /\ cp.amount <= locks[v].amount
        /\ cp.unlock <= IF HasLock(v) THEN locks[v].unlock ELSE now
    BY <1>6 DEF CheckpointsFit, LocksInv, CheckpointsExpire
  <2>2. cp \in LockCheckpoint
    BY <1>2, <1>6
  <2> HIDE DEF cp
  <2>3. cp.unlock \in Int
    BY <2>2 DEF LockCheckpoint, Ledgers
  <2>4. now \in Int /\ (HasLock(v) => locks[v].unlock \in Int)
    BY DEF Ledgers, LocksInv, LockTypes, HasLock, Lock
  <2>5. cp.unlock > now => cp.amount <= lock.amount
    BY <2>1, <2>3, <2>4
  <2> QED
    BY <1>2, <1>3, <1>6, <2>1, <2>5 DEF cp
<1> QED
  BY <1>1, <1>2, <1>4, <1>5, <1>6, AppendedEntry

\* Every step keeps the checkpoints within the locks.
LEMMA CheckpointsFitStep ==
    ASSUME LocksInv, CheckpointsFit, [LocksNext]_<<now, lockVars>>
    PROVE  CheckpointsFit'
<1>0. now \in Nat /\ \A v \in Voters : locks[v] \in Lock \union {NoLock}
  BY DEF LocksInv, LockTypes, Ledgers
<1>1. ASSUME NEW v \in Voters, NEW amount \in 1 .. wallet[v], NEW d \in MinLock .. MaxLock,
             LockTokens(v, amount, d)
      PROVE  CheckpointsFit'
  <2> DEFINE lock == [amount |-> amount, unlock |-> now + d, created |-> now]
  <2>1. d \in Nat /\ d <= MaxLock /\ now + d \in Ledgers /\ wallet[v] \in Nat
    BY <1>0, <1>1, LocksAssumption DEF LocksInv, LockTypes, Ledgers, LockTokens
  <2>2. lock \in Lock /\ lock.unlock <= now + MaxLock
    BY <1>0, <2>1, LocksAssumption DEF Lock, LocksInv, LockTypes
  <2>3. /\ now' = now /\ locks' = [locks EXCEPT ![v] = lock]
        /\ WriteLockCheckpoint(v, lock, now) /\ now \in Ledgers
        /\ HasLock(v) => locks[v].unlock <= now
    BY <1>1 DEF LockTokens, LocksInv, LockTypes
  <2> HIDE DEF lock
  <2> QED
    BY <2>2, <2>3, WriteFits
<1>2. ASSUME NEW v \in Voters, NEW u \in Ledgers, ExtendLock(v, u)
      PROVE  CheckpointsFit'
  <2> DEFINE lock == [locks[v] EXCEPT !.unlock = u]
  <2>1. locks[v] \in Lock /\ now + 1 \in Ledgers /\ HasLock(v) /\ u \in Nat /\ u <= now + MaxLock
    BY <1>0, <1>2, LocksAssumption DEF HasLock, Ledgers, ExtendLock
  <2>2. lock \in Lock /\ lock.unlock <= now + 1 + MaxLock /\ lock.amount = locks[v].amount
    BY <1>0, <2>1, LocksAssumption DEF Lock
  <2>3. /\ now' = now /\ locks' = [locks EXCEPT ![v] = lock]
        /\ WriteLockCheckpoint(v, lock, now + 1)
    BY <1>2 DEF ExtendLock
  <2> HIDE DEF lock
  <2> QED
    BY <2>1, <2>2, <2>3, WriteFits
<1>3. ASSUME NEW v \in Voters, Withdraw(v)
      PROVE  CheckpointsFit'
  <2>1. /\ locks' = [locks EXCEPT ![v] = NoLock] /\ now' = now /\ checkpoints' = checkpoints
        /\ HasLock(v) /\ now >= locks[v].unlock
    BY <1>3 DEF Withdraw
  <2> SUFFICES ASSUME NEW w \in Voters, NEW i \in DOMAIN checkpoints[w]
               PROVE  /\ checkpoints[w][i].unlock <= checkpoints[w][i].effectiveFrom + MaxLock
                      /\ checkpoints[w][i].unlock > now =>
                           HasLock(w)' /\ checkpoints[w][i].amount <= locks'[w].amount
    BY <2>1 DEF CheckpointsFit
  <2>2. CASE w = v
    <3>1. checkpoints[v][i].unlock <= locks[v].unlock
      BY <2>1, <2>2 DEF LocksInv, CheckpointsExpire
    <3>2. checkpoints[v][i] \in LockCheckpoint /\ locks[v] \in Lock
      <4>1. checkpoints[v] \in Seq(LockCheckpoint)
        BY DEF LocksInv, LockTypes
      <4> QED
        BY <1>0, <2>1, <2>2, <4>1 DEF HasLock
    <3>3. checkpoints[v][i].unlock \in Int /\ locks[v].unlock \in Int
      BY <3>2 DEF LockCheckpoint, Lock, Ledgers
    <3> QED
      BY <1>0, <2>1, <2>2, <3>1, <3>3 DEF CheckpointsFit
  <2>3. CASE w # v
    BY <2>1, <2>3 DEF CheckpointsFit, HasLock, LocksInv, LockTypes
  <2> QED
    BY <2>2, <2>3
<1>4. ASSUME NEW v \in Voters, NEW w \in Voters, NEW amount \in 1 .. wallet[v], TransferGP(v, w, amount)
      PROVE  CheckpointsFit'
  BY <1>4 DEF TransferGP, CheckpointsFit, HasLock
<1>5. ASSUME CloseLedger
      PROVE  CheckpointsFit'
  <2>1. now' = now + 1 /\ checkpoints' = checkpoints /\ locks' = locks
    BY <1>5 DEF CloseLedger, lockVars
  <2> SUFFICES ASSUME NEW w \in Voters, NEW i \in DOMAIN checkpoints[w]
               PROVE  checkpoints[w][i].unlock > now + 1 => checkpoints[w][i].unlock > now
    BY <2>1 DEF CheckpointsFit, HasLock
  <2>2. checkpoints[w][i] \in LockCheckpoint
    <3>1. checkpoints[w] \in Seq(LockCheckpoint)
      BY DEF LocksInv, LockTypes
    <3> QED
      BY <3>1
  <2>3. checkpoints[w][i].unlock \in Int
    BY <2>2 DEF LockCheckpoint, Ledgers
  <2> QED
    BY <1>0, <2>3
<1>6. ASSUME UNCHANGED <<now, lockVars>>
      PROVE  CheckpointsFit'
  BY <1>6 DEF lockVars, CheckpointsFit, HasLock
<1> QED
  BY <1>1, <1>2, <1>3, <1>4, <1>5, <1>6 DEF LocksNext, VoterStep

\* Every step keeps the locked total the sum of the locks, and pays for it.
LEMMA TotalsStep ==
    ASSUME LocksInv, TotalMatchesLocks, Solvent, [LocksNext]_<<now, lockVars>>
    PROVE  TotalMatchesLocks' /\ Solvent'
<1> DEFINE f == [v \in Voters |-> LockedBy(v)]
           g == [v \in Voters |-> LockedBy(v)']
<1>1. LocksInv'
  BY NextInv
<1>2. /\ \A v \in Voters : f[v] = LockedBy(v) /\ f[v] \in Int
      /\ \A v \in Voters : g[v] = LockedBy(v)' /\ g[v] \in Int
  <2>1. \A v \in Voters : LockedBy(v) \in Nat
    BY LockedIsInt
  <2>2. \A v \in Voters : LockedBy(v)' \in Nat
    BY <1>1 DEF LocksInv, LockTypes, LockedBy, HasLock, Lock
  <2> QED
    BY <2>1, <2>2
<1>3. /\ totalLocked = SumFunctionOnSet(f, Voters)
      /\ TotalMatchesLocks' <=> totalLocked' = SumFunctionOnSet(g, Voters)
  <2>1. SumFunction(f) = SumFunctionOnSet(f, Voters) /\ SumFunction(g) = SumFunctionOnSet(g, Voters)
    BY SumOverVoters
  <2> QED
    BY <2>1 DEF TotalMatchesLocks
<1>4. totalLocked \in Int /\ totalLocked' \in Int /\ held \in Nat /\ stranded \in Nat /\ held = totalLocked + stranded
      /\ \A v \in Voters : locks[v] \in Lock \union {NoLock}
      /\ locks \in [Voters -> Lock \union {NoLock}]
  BY <1>1 DEF LocksInv, LockTypes, Solvent
<1>5. ASSUME NEW v \in Voters, \A w \in Voters \ {v} : locks'[w] = locks[w]
      PROVE  SumFunctionOnSet(g, Voters) = SumFunctionOnSet(f, Voters) + LockedBy(v)' - LockedBy(v)
  <2>1. \A w \in Voters \ {v} : f[w] = g[w]
    BY <1>2, <1>5 DEF LockedBy, HasLock
  <2>2. f[v] = LockedBy(v) /\ g[v] = LockedBy(v)'
    OBVIOUS
  <2>3. \A w \in Voters : f[w] \in Int /\ g[w] \in Int
    BY <1>2
  <2> HIDE DEF f, g
  <2>4. SumFunctionOnSet(g, Voters) = SumFunctionOnSet(f, Voters) + g[v] - f[v]
    BY <2>1, <2>3, SumOfChanged, VotersAssumption
  <2> QED
    BY <2>2, <2>4
<1>6. ASSUME \A v \in Voters : LockedBy(v)' = LockedBy(v), totalLocked' = totalLocked, held' = held, stranded' = stranded
      PROVE  TotalMatchesLocks' /\ Solvent'
  <2>1. f = g
    BY <1>6
  <2> QED
    BY <1>3, <1>6, <2>1 DEF Solvent
<1>7. ASSUME NEW v \in Voters, NEW amount \in 1 .. wallet[v], NEW d \in MinLock .. MaxLock,
             LockTokens(v, amount, d)
      PROVE  TotalMatchesLocks' /\ Solvent'
  <2>0. amount \in Nat
    BY DEF LocksInv, LockTypes
  <2>1. \A w \in Voters \ {v} : locks'[w] = locks[w]
    BY <1>7 DEF LockTokens
  <2>2. LockedBy(v)' = amount /\ totalLocked' = totalLocked - LockedBy(v) + amount /\ held' = held + amount
        /\ stranded' = stranded + LockedBy(v)
    <3>1. locks'[v] = [amount |-> amount, unlock |-> now + d, created |-> now]
      BY <1>4, <1>7 DEF LockTokens
    <3>2. locks'[v] \in Lock
      <4>1. now \in Nat /\ d \in Nat /\ now + d \in Ledgers /\ wallet[v] \in Nat
        BY <1>7, LocksAssumption DEF LocksInv, LockTypes, Ledgers, LockTokens
      <4> QED
        BY <3>1, <4>1 DEF Lock, LocksInv, LockTypes
    <3> QED
      BY <1>7, <3>1, <3>2, NoLockAssumption DEF LockTokens, LockedBy, HasLock
  <2>3. LockedBy(v) \in Nat
    BY LockedIsInt
  <2>4. totalLocked' = SumFunctionOnSet(g, Voters)
    <3>1. SumFunctionOnSet(g, Voters) = SumFunctionOnSet(f, Voters) + LockedBy(v)' - LockedBy(v)
      BY <1>5, <2>1
    <3> HIDE DEF f, g
    <3> QED
      BY <1>3, <1>4, <2>0, <2>2, <2>3, <3>1
  <2> QED
    BY <1>3, <1>4, <2>0, <2>2, <2>3, <2>4 DEF Solvent
<1>8. ASSUME NEW v \in Voters, NEW u \in Ledgers, ExtendLock(v, u)
      PROVE  TotalMatchesLocks' /\ Solvent'
  <2>1. locks[v] \in Lock /\ locks' = [locks EXCEPT ![v] = [locks[v] EXCEPT !.unlock = u]]
        /\ totalLocked' = totalLocked /\ held' = held /\ stranded' = stranded
    BY <1>4, <1>8 DEF ExtendLock, HasLock
  <2>2. LockedBy(v)' = LockedBy(v)
    <3>1. [locks[v] EXCEPT !.unlock = u] \in Lock
          /\ [locks[v] EXCEPT !.unlock = u].amount = locks[v].amount
      BY <2>1 DEF Lock
    <3> QED
      BY <1>4, <2>1, <3>1, NoLockAssumption DEF LockedBy, HasLock
  <2>3. \A w \in Voters : LockedBy(w)' = LockedBy(w)
    BY <1>4, <2>1, <2>2 DEF LockedBy, HasLock
  <2> QED
    BY <1>6, <2>1, <2>3
<1>9. ASSUME NEW v \in Voters, Withdraw(v)
      PROVE  TotalMatchesLocks' /\ Solvent'
  <2>1. /\ locks' = [locks EXCEPT ![v] = NoLock] /\ HasLock(v)
        /\ totalLocked' = totalLocked - locks[v].amount /\ held' = held - locks[v].amount
        /\ stranded' = stranded
    BY <1>9 DEF Withdraw
  <2>2. LockedBy(v)' = 0 /\ LockedBy(v) = locks[v].amount
    BY <1>4, <2>1 DEF LockedBy, HasLock
  <2>3. \A w \in Voters \ {v} : locks'[w] = locks[w]
    BY <2>1
  <2>4. LockedBy(v) \in Nat
    BY LockedIsInt
  <2>5. totalLocked' = SumFunctionOnSet(g, Voters)
    <3>1. SumFunctionOnSet(g, Voters) = SumFunctionOnSet(f, Voters) + LockedBy(v)' - LockedBy(v)
      BY <1>5, <2>3
    <3> HIDE DEF f, g
    <3> QED
      BY <1>3, <1>4, <2>1, <2>2, <2>4, <3>1
  <2> QED
    BY <1>3, <1>4, <2>1, <2>2, <2>4, <2>5 DEF Solvent
<1>10. ASSUME UNCHANGED <<locks, totalLocked, held, stranded>>
       PROVE  TotalMatchesLocks' /\ Solvent'
  BY <1>6, <1>10 DEF LockedBy, HasLock
<1> QED
  BY <1>7, <1>8, <1>9, <1>10 DEF LocksNext, VoterStep, CloseLedger, TransferGP, lockVars

\* Tokens move between the voters and the contract, and none appears or is lost.
LEMMA SupplyStep ==
    ASSUME LocksInv, [LocksNext]_<<now, lockVars>>
    PROVE  Supply' = Supply /\ Supply \in Nat
<1>1. LocksInv'
  BY NextInv
<1>2. wallet \in [Voters -> Nat] /\ wallet' \in [Voters -> Nat] /\ held \in Nat /\ held' \in Nat
  BY <1>1 DEF LocksInv, LockTypes
<1>3. /\ SumFunction(wallet) = SumFunctionOnSet(wallet, Voters)
      /\ SumFunction(wallet') = SumFunctionOnSet(wallet', Voters)
  BY <1>2, SumOverVoters
<1>4. SumFunctionOnSet(wallet, Voters) \in Nat
  BY <1>2, SumIsNatural, VotersAssumption
<1>5. Supply = held + SumFunctionOnSet(wallet, Voters) /\ Supply' = held' + SumFunctionOnSet(wallet', Voters)
  BY <1>3 DEF Supply
<1>6. ASSUME NEW v \in Voters, \A w \in Voters \ {v} : wallet'[w] = wallet[w]
      PROVE  SumFunctionOnSet(wallet', Voters) = SumFunctionOnSet(wallet, Voters) + wallet'[v] - wallet[v]
  <2>1. \A w \in Voters : wallet[w] \in Int /\ wallet'[w] \in Int
    BY <1>2
  <2> QED
    BY <1>6, <2>1, SumOfChanged, VotersAssumption
<1>7. ASSUME NEW v \in Voters, NEW amount \in 1 .. wallet[v], NEW d \in MinLock .. MaxLock,
             LockTokens(v, amount, d)
      PROVE  Supply' = Supply
  <2>1. wallet' = [wallet EXCEPT ![v] = @ - amount] /\ held' = held + amount /\ amount \in Nat
    BY <1>2, <1>7 DEF LockTokens
  <2>2. wallet'[v] = wallet[v] - amount /\ wallet[v] \in Nat /\ \A w \in Voters \ {v} : wallet'[w] = wallet[w]
    BY <1>2, <2>1
  <2>3. SumFunctionOnSet(wallet', Voters) = SumFunctionOnSet(wallet, Voters) + wallet'[v] - wallet[v]
    BY <1>6, <2>2
  <2> QED
    BY <1>2, <1>4, <1>5, <2>1, <2>2, <2>3
<1>8. ASSUME NEW v \in Voters, Withdraw(v)
      PROVE  Supply' = Supply
  <2>1. /\ wallet' = [wallet EXCEPT ![v] = @ + locks[v].amount] /\ held' = held - locks[v].amount
        /\ locks[v].amount \in Nat
    BY <1>8 DEF Withdraw, LocksInv, LockTypes, HasLock, Lock
  <2>2. /\ wallet'[v] = wallet[v] + locks[v].amount /\ wallet[v] \in Nat
        /\ \A w \in Voters \ {v} : wallet'[w] = wallet[w]
    BY <1>2, <2>1
  <2>3. SumFunctionOnSet(wallet', Voters) = SumFunctionOnSet(wallet, Voters) + wallet'[v] - wallet[v]
    BY <1>6, <2>2
  <2> QED
    BY <1>2, <1>4, <1>5, <2>1, <2>2, <2>3
<1>9. ASSUME NEW v \in Voters, NEW x \in Voters, NEW amount \in 1 .. wallet[v], TransferGP(v, x, amount)
      PROVE  Supply' = Supply
  <2> DEFINE between == [wallet EXCEPT ![v] = @ - amount]
  <2>1. /\ v # x /\ held' = held /\ amount \in Nat /\ wallet[v] \in Nat /\ wallet[x] \in Nat
        /\ wallet' = [wallet EXCEPT ![v] = @ - amount, ![x] = @ + amount]
    BY <1>2, <1>9 DEF TransferGP
  <2>2. /\ \A w \in Voters \ {v} : wallet[w] = between[w]
        /\ between[v] = wallet[v] - amount
        /\ \A w \in Voters : between[w] \in Int
    BY <1>2, <2>1
  <2>3. /\ \A w \in Voters \ {x} : between[w] = wallet'[w]
        /\ wallet'[x] = wallet[x] + amount
        /\ between[x] = wallet[x]
        /\ \A w \in Voters : wallet[w] \in Int /\ wallet'[w] \in Int
    BY <1>2, <2>1
  <2> HIDE DEF between
  <2>4. SumFunctionOnSet(between, Voters) = SumFunctionOnSet(wallet, Voters) + between[v] - wallet[v]
    <3>1. \A w \in Voters : wallet[w] \in Int /\ between[w] \in Int
      BY <2>2, <2>3
    <3>2. \A w \in Voters \ {v} : wallet[w] = between[w]
      BY <2>2
    <3> QED
      BY <3>1, <3>2, SumOfChanged, VotersAssumption
  <2>5. SumFunctionOnSet(wallet', Voters) = SumFunctionOnSet(between, Voters) + wallet'[x] - between[x]
    <3>1. \A w \in Voters : between[w] \in Int /\ wallet'[w] \in Int
      BY <2>2, <2>3
    <3>2. \A w \in Voters \ {x} : between[w] = wallet'[w]
      BY <2>3
    <3> QED
      BY <3>1, <3>2, SumOfChanged, VotersAssumption
  <2> QED
    BY <1>2, <1>4, <1>5, <2>1, <2>2, <2>3, <2>4, <2>5
<1>10. ASSUME UNCHANGED <<held, wallet>>
       PROVE  Supply' = Supply
  BY <1>10 DEF Supply
<1>11. Supply' = Supply
  BY <1>7, <1>8, <1>9, <1>10 DEF LocksNext, VoterStep, CloseLedger, ExtendLock, lockVars
<1>12. Supply \in Nat
  BY <1>2, <1>4, <1>5
<1> QED
  BY <1>11, <1>12

\* A share of at most the whole, truncated, is at most the whole.
LEMMA ShareIsPart ==
    ASSUME NEW a \in Nat, NEW k \in Nat, NEW m \in Nat \ {0}, k <= m
    PROVE  (a * k) \div m <= a
<1> DEFINE q == (a * k) \div m
<1>1. a * k \in Nat /\ a * k <= a * m
  OBVIOUS
<1>2. q \in Int /\ m * q <= a * k
  BY <1>1
<1>3. m * q <= m * a
  BY <1>1, <1>2
<1>4. q > a => m * q >= m * (a + 1)
  BY <1>2
<1>5. m * (a + 1) = m * a + m
  OBVIOUS
<1> HIDE DEF q
<1>6. q <= a
  BY <1>2, <1>3, <1>4, <1>5
<1> QED
  BY <1>6 DEF q

\* No voter has more power now than there are tokens in the lock.
LEMMA PowerBelowLock ==
    ASSUME LocksInv, CheckpointsFit, NEW v \in Voters
    PROVE  VotingPower(v, now) <= LockedBy(v)
<1> DEFINE cps == checkpoints[v]
           effective == {i \in DOMAIN cps : cps[i].effectiveFrom <= now}
<1>1. cps \in Seq(LockCheckpoint) /\ now \in Nat /\ LockedBy(v) \in Nat
  BY LockedIsInt DEF LocksInv, LockTypes, Ledgers
<1>2. CASE cps = <<>>
  <2>1. ~HasLock(v)
    BY <1>2 DEF LocksInv, CheckpointsExpire
  <2> QED
    BY <1>1, <1>2, <2>1 DEF VotingPower
<1>3. CASE cps # <<>> /\ effective = {}
  BY <1>1, <1>3 DEF VotingPower
<1>4. CASE cps # <<>> /\ effective # {}
  <2> DEFINE i == Max(effective)
             newest == cps[i]
  <2>1. i \in effective
    <3>1. effective \in SUBSET Nat /\ Len(cps) \in Nat /\ \A n \in effective : n <= Len(cps)
      BY <1>1
    <3> QED
      BY <1>4, <3>1, MaxIsMember
  <2>2. VotingPower(v, now) = PowerOf(newest, now)
    BY <1>4 DEF VotingPower
  <2>3. newest \in LockCheckpoint /\ newest.effectiveFrom <= now
    <3>1. \A n \in DOMAIN cps : cps[n] \in LockCheckpoint
      BY <1>1
    <3> HIDE DEF cps
    <3> QED
      BY <2>1, <3>1
  <2>4. /\ newest.unlock <= newest.effectiveFrom + MaxLock
        /\ newest.unlock > now => HasLock(v) /\ newest.amount <= locks[v].amount
    BY <2>1 DEF CheckpointsFit
  <2> HIDE DEF newest, i
  <2>5. newest.unlock \in Nat /\ newest.amount \in Nat /\ newest.effectiveFrom \in Nat
    BY <2>3 DEF LockCheckpoint, Ledgers
  <2>6. CASE now >= newest.unlock \/ now < newest.created
    BY <1>1, <2>2, <2>6 DEF PowerOf
  <2>7. CASE ~(now >= newest.unlock \/ now < newest.created)
    <3>1. VotingPower(v, now) = (newest.amount * (newest.unlock - now)) \div MaxLock
      BY <2>2, <2>7 DEF PowerOf
    <3>2. newest.unlock - now \in Nat /\ newest.unlock - now <= MaxLock /\ MaxLock \in Nat \ {0}
      BY <1>1, <2>3, <2>4, <2>5, <2>7, LocksAssumption
    <3>3. (newest.amount * (newest.unlock - now)) \div MaxLock <= newest.amount
      BY <2>5, <3>2, ShareIsPart
    <3>4. newest.amount <= LockedBy(v)
      BY <1>1, <2>4, <2>5, <2>7 DEF LockedBy
    <3>5. VotingPower(v, now) \in Int
      BY <1>1, PowerIsInt
    <3> QED
      BY <1>1, <2>5, <3>1, <3>3, <3>4, <3>5
  <2> QED
    BY <2>6, <2>7
<1> QED
  BY <1>2, <1>3, <1>4

\* Together, the voters have no more power now than is locked.
LEMMA PowerBelowTotal ==
    ASSUME LocksInv, CheckpointsFit, TotalMatchesLocks
    PROVE  PowerWithinTotal
<1> DEFINE f == [v \in Voters |-> VotingPower(v, now)]
           g == [v \in Voters |-> LockedBy(v)]
<1>1. now \in Nat
  BY DEF LocksInv, LockTypes, Ledgers
<1>2. \A v \in Voters : f[v] \in Int /\ g[v] \in Int /\ f[v] <= g[v]
  BY <1>1, PowerIsInt, PowerBelowLock, LockedIsInt
<1>3. /\ TotalPower(now) = SumFunctionOnSet(f, Voters)
      /\ totalLocked = SumFunctionOnSet(g, Voters)
  <2>1. SumFunction(f) = SumFunctionOnSet(f, Voters) /\ SumFunction(g) = SumFunctionOnSet(g, Voters)
    BY SumOverVoters
  <2> QED
    BY <2>1 DEF TotalPower, TotalMatchesLocks
<1> HIDE DEF f, g
<1>4. SumFunctionOnSet(f, Voters) <= SumFunctionOnSet(g, Voters)
  BY <1>2, SumIsMonotone, VotersAssumption
<1> QED
  BY <1>3, <1>4 DEF PowerWithinTotal

\* The power at a ledger is an integer.
LEMMA TotalPowerIsInt ==
    ASSUME LocksInv, NEW l \in Nat
    PROVE  TotalPower(l) \in Int
<1> DEFINE f == [v \in Voters |-> VotingPower(v, l)]
<1>1. \A v \in Voters : f[v] \in Int
  BY PowerIsInt
<1>2. TotalPower(l) = SumFunctionOnSet(f, Voters)
  BY SumOverVoters DEF TotalPower
<1> HIDE DEF f
<1> QED
  BY <1>1, <1>2, SumIsInteger, VotersAssumption

\* The power now never exceeds the tokens there are: it is within the locked
\* total, which the contract owns.
LEMMA PowerNowBelowSupply ==
    ASSUME LocksInv, CheckpointsFit, TotalMatchesLocks, Solvent
    PROVE  TotalPower(now) <= Supply
<1>1. TotalPower(now) <= totalLocked
  BY PowerBelowTotal DEF PowerWithinTotal
<1>2. totalLocked \in Int /\ held \in Nat /\ stranded \in Nat /\ totalLocked <= held /\ now \in Nat
  BY DEF LocksInv, LockTypes, Solvent, Ledgers
<1>3. TotalPower(now) \in Int
  BY <1>2, TotalPowerIsInt
<1>4. Supply = held + SumFunction(wallet) /\ SumFunction(wallet) \in Nat
  <2>1. wallet \in [Voters -> Nat]
    BY DEF LocksInv, LockTypes
  <2>2. SumFunction(wallet) = SumFunctionOnSet(wallet, Voters)
    BY <2>1, SumOverVoters
  <2> QED
    BY <2>1, <2>2, SumIsNatural, VotersAssumption DEF Supply
<1> QED
  BY <1>1, <1>2, <1>3, <1>4

\* The same, in a form that can be said of the next state.
LEMMA PowerAtNowFits ==
    LocksInv /\ CheckpointsFit /\ TotalMatchesLocks /\ Solvent
      => \A l : l = now => TotalPower(l) <= Supply
BY PowerNowBelowSupply

\* Every step keeps the sums: past power stays what it was, and present power is
\* within what is locked.
LEMMA SumsStep ==
    ASSUME LocksInv, SumsInv, [LocksNext]_<<now, lockVars>>
    PROVE  SumsInv'
<1>1. LocksInv' /\ CheckpointsFit' /\ TotalMatchesLocks' /\ Solvent'
  BY NextInv, CheckpointsFitStep, TotalsStep DEF SumsInv
<1>2. Supply' = Supply /\ Supply \in Nat
  BY SupplyStep
<1>3. now \in Nat /\ now' \in {now, now + 1}
  <2>1. now \in Nat
    BY DEF LocksInv, LockTypes, Ledgers
  <2>2. now' \in {now, now + 1}
    BY DEF LocksNext, VoterStep, LockTokens, ExtendLock, Withdraw, TransferGP, CloseLedger, lockVars
  <2> QED
    BY <2>1, <2>2
<1>4. \A l : l = now' => TotalPower(l)' <= Supply'
  <2>1. (LocksInv /\ CheckpointsFit /\ TotalMatchesLocks /\ Solvent
           => \A l : l = now => TotalPower(l) <= Supply)'
    BY PowerAtNowFits, PTL
  <2> QED
    BY <1>1, <2>1
<1>5. ASSUME NEW l \in 0 .. now', l # now'
      PROVE  TotalPower(l)' <= Supply'
  <2>1. l \in 0 .. now /\ TotalPower(l) <= Supply
    BY <1>3, <1>5 DEF SumsInv, PowerWithinSupply, Supply
  <2>2. CASE \A v \in Voters : VotingPower(v, l)' = VotingPower(v, l)
    <3>1. TotalPower(l)' = TotalPower(l)
      BY <2>2 DEF TotalPower
    <3> QED
      BY <1>2, <2>1, <3>1
  <2>3. CASE \E v \in Voters : VotingPower(v, l)' # VotingPower(v, l)
    <3>1. l = now
      BY <2>1, <2>3, PowerStep
    <3>2. now' = now + 1
      BY <1>3, <1>5, <3>1
    <3>3. CloseLedger
      <4>1. now' # now
        BY <1>3, <3>2
      <4>2. LocksNext
        BY <4>1
      <4> QED
        BY <4>1, <4>2 DEF LocksNext, VoterStep, LockTokens, ExtendLock, Withdraw, TransferGP, lockVars
    <3>4. \A v \in Voters : VotingPower(v, l)' = VotingPower(v, l)
      <4>1. \A v \in Voters : checkpoints'[v] = checkpoints[v] /\ locks'[v] = locks[v]
        BY <3>3 DEF CloseLedger, lockVars
      <4> QED
        BY <4>1, PowerKept
    <3> QED
      BY <2>3, <3>4
  <2> QED
    BY <2>2, <2>3
<1>6. PowerWithinSupply'
  BY <1>4, <1>5 DEF PowerWithinSupply, Supply
<1> QED
  BY <1>1, <1>6 DEF SumsInv

\* With nothing locked, all sums are zero.
LEMMA SumsInit == LocksInit => SumsInv
<1> SUFFICES ASSUME LocksInit PROVE SumsInv
  OBVIOUS
<1>1. \A v \in Voters : checkpoints[v] = <<>> /\ locks[v] = NoLock
  BY DEF LocksInit
<1>2. CheckpointsFit
  BY <1>1 DEF CheckpointsFit
<1>3. TotalMatchesLocks
  <2> DEFINE f == [v \in Voters |-> LockedBy(v)]
  <2>1. \A v \in Voters : f[v] = 0
    BY <1>1 DEF LockedBy, HasLock
  <2>2. SumFunction(f) = SumFunctionOnSet(f, Voters)
    BY SumOverVoters
  <2>3. SumFunctionOnSet(f, Voters) = 0
    <3> HIDE DEF f
    <3> QED
      BY <2>1, SumOfZeros, VotersAssumption
  <2> QED
    BY <2>2, <2>3 DEF TotalMatchesLocks, LocksInit
<1>4. Solvent
  BY DEF Solvent, LocksInit
<1>5. LocksInv
  BY InitInv
<1>6. ASSUME NEW l \in 0 .. now PROVE TotalPower(l) <= Supply
  <2> DEFINE f == [v \in Voters |-> VotingPower(v, l)]
  <2>1. \A v \in Voters : f[v] = 0
    BY <1>1 DEF VotingPower, HasLock
  <2>2. TotalPower(l) = SumFunctionOnSet(f, Voters)
    BY SumOverVoters DEF TotalPower
  <2>3. SumFunctionOnSet(f, Voters) = 0
    <3> HIDE DEF f
    <3> QED
      BY <2>1, SumOfZeros, VotersAssumption
  <2>4. Supply \in Nat
    <3>1. wallet \in [Voters -> Nat] /\ held \in Nat
      BY <1>5 DEF LocksInv, LockTypes
    <3>2. SumFunction(wallet) = SumFunctionOnSet(wallet, Voters)
      BY <3>1, SumOverVoters
    <3> QED
      BY <3>1, <3>2, SumIsNatural, VotersAssumption DEF Supply
  <2> QED
    BY <2>2, <2>3, <2>4
<1> QED
  BY <1>2, <1>3, <1>4, <1>6 DEF SumsInv, PowerWithinSupply, Supply

-----------------------------------------------------------------------------
(* Proposals and votes *)

\* Proposals as far as their types can be told without knowing that the locked
\* total is not negative: the quorum is an integer.
LooseProposal ==
    [target: Targets, stage: Stage, snapshot: Ledgers, voteEnd: Ledgers,
     for: Nat, against: Nat, quorum: Int, executableFrom: Ledgers]

GovTypes ==
    /\ proposals \in Seq(LooseProposal)
    /\ Len(proposals) <= MaxProposals
    /\ snapshots \in [1 .. MaxProposals -> [Voters -> Nat \union {NoVote}]]
    /\ allowlist \subseteq Targets

\* The vote of v on p, while q is the proposal, is the power of the snapshot.
VoteFits(p, v, q) ==
    Voted(p, v) =>
        /\ q.stage # "Discussion"
        /\ snapshots[p][v] = VotingPower(v, q.snapshot)
        /\ VotingPower(v, q.snapshot) > 0

SoundApproval(q) ==
    q.stage \in {"Execution", "Executed"} =>
        /\ q.for > q.against
        /\ q.for + q.against >= q.quorum
        /\ q.executableFrom > q.voteEnd + Timelock

\* Nobody has voted on a proposal that is still discussed, or does not exist.
VotesFit ==
    /\ \A p \in DOMAIN proposals, v \in Voters : VoteFits(p, v, proposals[p])
    /\ \A p \in (1 .. MaxProposals) \ DOMAIN proposals, v \in Voters : ~Voted(p, v)

ProposalsFit ==
    \A p \in DOMAIN proposals :
        /\ proposals[p].snapshot <= now
        /\ SoundApproval(proposals[p])

DaoInv == LocksInv /\ GovTypes /\ VotesFit /\ ProposalsFit

\* A freshly initialised contract has no proposals and no votes.
LEMMA DaoInitInv == Init => DaoInv
<1> SUFFICES ASSUME Init PROVE DaoInv
  OBVIOUS
<1>1. LocksInv
  BY InitInv DEF Init
<1>2. /\ proposals = <<>> /\ DOMAIN proposals = {} /\ Len(proposals) = 0
      /\ \A p \in 1 .. MaxProposals, v \in Voters : snapshots[p][v] = NoVote
  BY DEF Init
<1>3. GovTypes
  BY <1>2, ConfigAssumption DEF Init, GovTypes
<1>4. VotesFit /\ ProposalsFit
  BY <1>2 DEF VotesFit, ProposalsFit, Voted
<1> QED
  BY <1>1, <1>3, <1>4 DEF DaoInv

-----------------------------------------------------------------------------
\* While proposals stay, voters lock, extend, withdraw and exchange tokens.
LEMMA LocksStepInv ==
    ASSUME DaoInv, [LocksNext]_<<now, lockVars>>, UNCHANGED govVars
    PROVE  DaoInv'
<1>1. LocksInv'
  BY NextInv DEF DaoInv
<1>2. GovTypes'
  BY DEF DaoInv, GovTypes, govVars
<1>3. now \in Nat /\ now' \in Nat /\ now <= now'
  <2>1. now \in Nat /\ now' \in Nat
    BY <1>1 DEF DaoInv, LocksInv, LockTypes, Ledgers
  <2>2. ASSUME NEW v \in Voters, VoterStep(v) PROVE now' = now
    BY <2>2 DEF VoterStep, LockTokens, ExtendLock, Withdraw, TransferGP
  <2>3. CASE CloseLedger
    BY <2>1, <2>3 DEF CloseLedger
  <2> QED
    BY <2>1, <2>2, <2>3 DEF LocksNext
<1>4. \A p \in DOMAIN proposals : proposals[p] \in LooseProposal
  BY DEF DaoInv, GovTypes
<1>5. ASSUME NEW p \in DOMAIN proposals PROVE proposals[p].snapshot \in 0 .. now
  BY <1>3, <1>4 DEF DaoInv, ProposalsFit, LooseProposal, Ledgers
<1>6. ASSUME NEW p \in DOMAIN proposals, NEW v \in Voters
      PROVE  VoteFits(p, v, proposals[p])'
  <2>1. VoteFits(p, v, proposals[p])
    BY DEF DaoInv, VotesFit
  <2>2. VotingPower(v, proposals[p].snapshot) \in Int
    BY <1>5, <1>3, PowerIsInt DEF DaoInv
  <2>3. \A l \in 0 .. now :
          VotingPower(v, l)' = VotingPower(v, l) \/ (l = now /\ VotingPower(v, l) = 0)
    BY PowerStep DEF DaoInv
  <2>4. proposals' = proposals /\ snapshots' = snapshots
    BY DEF govVars
  <2>5. \/ VotingPower(v, proposals[p].snapshot)' = VotingPower(v, proposals[p].snapshot)
        \/ VotingPower(v, proposals[p].snapshot) = 0
    <3> DEFINE l == proposals[p].snapshot
    <3>1. l' = l
      BY <2>4
    <3>2. PICK k \in 0 .. now : k = l
      BY <1>5
    <3>3. VotingPower(v, k)' = VotingPower(v, k) \/ VotingPower(v, k) = 0
      BY <2>3
    <3>4. VotingPower(v, l)' = VotingPower(v, k)'
      BY <3>1, <3>2 DEF VotingPower
    <3> QED
      BY <3>2, <3>3, <3>4
  <2> QED
    BY <2>1, <2>2, <2>4, <2>5 DEF VoteFits, Voted
<1>7. VotesFit'
  BY <1>6 DEF DaoInv, VotesFit, Voted, govVars
<1>8. ProposalsFit'
  <2>1. \A p \in DOMAIN proposals : proposals[p].snapshot <= now'
    BY <1>3, <1>5
  <2> QED
    BY <2>1 DEF DaoInv, ProposalsFit, SoundApproval, govVars
<1> QED
  BY <1>1, <1>2, <1>7, <1>8 DEF DaoInv

-----------------------------------------------------------------------------
\* Replacing an element of a sequence.
LEMMA ReplaceAt ==
    ASSUME NEW S, NEW s \in Seq(S), NEW i \in DOMAIN s, NEW e \in S
    PROVE  LET r == [s EXCEPT ![i] = e] IN
           /\ r \in Seq(S) /\ DOMAIN r = DOMAIN s /\ Len(r) = Len(s)
           /\ r[i] = e
           /\ \A j \in DOMAIN s \ {i} : r[j] = s[j]
OBVIOUS

\* A step of one proposal keeps the invariant if its new record and the votes
\* on it fit.
LEMMA ReplaceInv ==
    ASSUME DaoInv, UNCHANGED <<now, lockVars, allowlist>>,
           NEW p \in DOMAIN proposals, NEW q \in LooseProposal,
           proposals' = [proposals EXCEPT ![p] = q],
           snapshots' \in [1 .. MaxProposals -> [Voters -> Nat \union {NoVote}]],
           \A r \in 1 .. MaxProposals : r # p => snapshots'[r] = snapshots[r],
           \A v \in Voters : snapshots'[p][v] # NoVote =>
               /\ q.stage # "Discussion"
               /\ snapshots'[p][v] = VotingPower(v, q.snapshot)
               /\ VotingPower(v, q.snapshot) > 0,
           q.snapshot <= now, SoundApproval(q)
    PROVE  DaoInv'
<1>1. LocksInv'
  BY NextInv DEF DaoInv
<1>2. \A v \in Voters : \A at : VotingPower(v, at)' = VotingPower(v, at)
  <2>1. now' = now /\ locks' = locks /\ checkpoints' = checkpoints
    BY DEF lockVars
  <2>2. \A v \in Voters : \A at : PowerOf(locks[v], at)' = PowerOf(locks[v], at)
    BY <2>1 DEF PowerOf
  <2> QED
    BY <2>1 DEF VotingPower, HasLock, PowerOf
<1>3. proposals \in Seq(LooseProposal)
  BY DEF DaoInv, GovTypes
<1>4. /\ proposals' \in Seq(LooseProposal)
      /\ DOMAIN proposals' = DOMAIN proposals /\ Len(proposals') = Len(proposals)
      /\ proposals'[p] = q
      /\ \A r \in DOMAIN proposals \ {p} : proposals'[r] = proposals[r]
  BY <1>3, ReplaceAt
<1>5. GovTypes'
  BY <1>4 DEF DaoInv, GovTypes
<1>6. DOMAIN proposals \subseteq 1 .. MaxProposals
  BY <1>3, ConfigAssumption DEF DaoInv, GovTypes
<1>7. ASSUME NEW r \in DOMAIN proposals, NEW v \in Voters
      PROVE  VoteFits(r, v, proposals[r])'
  <2>1. CASE r = p
    BY <1>2, <1>4, <2>1 DEF VoteFits, Voted
  <2>2. CASE r # p
    <3>1. VoteFits(r, v, proposals[r])
      BY DEF DaoInv, VotesFit
    <3>2. proposals'[r] = proposals[r] /\ snapshots'[r] = snapshots[r]
      BY <1>4, <1>6, <2>2
    <3> QED
      BY <1>2, <3>1, <3>2 DEF VoteFits, Voted
  <2> QED
    BY <2>1, <2>2
<1>8. VotesFit'
  <2>1. ASSUME NEW r \in (1 .. MaxProposals) \ DOMAIN proposals', NEW v \in Voters
        PROVE  ~Voted(r, v)'
    <3>1. r # p /\ r \notin DOMAIN proposals
      BY <1>4
    <3>2. snapshots'[r] = snapshots[r]
      BY <3>1
    <3> QED
      BY <3>1, <3>2 DEF DaoInv, VotesFit, Voted
  <2> QED
    BY <1>4, <1>7, <2>1 DEF VotesFit
<1>9. ProposalsFit'
  <2>1. ASSUME NEW r \in DOMAIN proposals
        PROVE  (proposals[r].snapshot <= now /\ SoundApproval(proposals[r]))'
    <3>1. CASE r = p
      BY <1>4, <3>1 DEF SoundApproval
    <3>2. CASE r # p
      BY <1>4, <3>2 DEF DaoInv, ProposalsFit, SoundApproval
    <3> QED
      BY <3>1, <3>2
  <2> QED
    BY <1>4, <2>1 DEF ProposalsFit
<1> QED
  BY <1>1, <1>5, <1>8, <1>9 DEF DaoInv

\* What the record of a proposal and its votes say before any step of it.
LEMMA ProposalFacts ==
    ASSUME DaoInv, NEW p \in DOMAIN proposals
    PROVE  /\ p \in 1 .. MaxProposals
           /\ proposals[p] \in LooseProposal
           /\ proposals[p].snapshot \in Ledgers /\ proposals[p].snapshot <= now
           /\ SoundApproval(proposals[p])
           /\ \A v \in Voters : VoteFits(p, v, proposals[p])
           /\ now \in Ledgers /\ now \in Nat
           /\ snapshots \in [1 .. MaxProposals -> [Voters -> Nat \union {NoVote}]]
           /\ proposals \in Seq(LooseProposal)
<1>1. proposals \in Seq(LooseProposal) /\ Len(proposals) <= MaxProposals
  BY DEF DaoInv, GovTypes
<1>2. proposals[p] \in LooseProposal /\ p \in 1 .. MaxProposals
  BY <1>1, ConfigAssumption
<1>3. proposals[p].snapshot \in Ledgers
  BY <1>2 DEF LooseProposal
<1> QED
  BY <1>1, <1>2, <1>3 DEF DaoInv, GovTypes, VotesFit, ProposalsFit, LocksInv, LockTypes, Ledgers

\* Counting a vote changes nothing but the tallies.
LEMMA VoteRecord ==
    ASSUME NEW r \in LooseProposal, NEW n \in Nat, NEW approve \in BOOLEAN
    PROVE  LET q == IF approve THEN [r EXCEPT !.for = @ + n] ELSE [r EXCEPT !.against = @ + n]
           IN  /\ q \in LooseProposal /\ q.stage = r.stage /\ q.snapshot = r.snapshot
               /\ q.voteEnd = r.voteEnd /\ q.quorum = r.quorum
BY DEF LooseProposal

\* advance_to_snapshot: nobody has voted yet, and the snapshot is now.
LEMMA AdvanceInv ==
    ASSUME DaoInv, NEW p \in DOMAIN proposals, NEW caller, AdvanceToSnapshot(caller, p)
    PROVE  DaoInv'
<1> DEFINE quorum == (totalLocked * QuorumBps) \div 10000
           end == now + VotingPeriod
           q == [proposals[p] EXCEPT !.stage = "SnapshotVote", !.snapshot = now,
                   !.voteEnd = end, !.for = 0, !.against = 0,
                   !.quorum = quorum]
<1>1. /\ p \in 1 .. MaxProposals /\ proposals[p] \in LooseProposal
      /\ now \in Ledgers /\ now \in Nat
      /\ snapshots \in [1 .. MaxProposals -> [Voters -> Nat \union {NoVote}]]
      /\ \A v \in Voters : VoteFits(p, v, proposals[p])
      /\ proposals \in Seq(LooseProposal)
  BY ProposalFacts
<1>2. end \in Ledgers /\ quorum \in Int
  <2>1. totalLocked \in Int
    BY DEF DaoInv, LocksInv, LockTypes
  <2>2. totalLocked * QuorumBps \in Int
    BY <2>1, ConfigAssumption
  <2>3. now + VotingPeriod \in Ledgers
    BY <1>1, ConfigAssumption, LocksAssumption DEF AdvanceToSnapshot, Ledgers
  <2> QED
    BY <2>2, <2>3
<1>3. proposals' = [proposals EXCEPT ![p] = q]
  BY <1>1 DEF AdvanceToSnapshot
<1> HIDE DEF quorum, end
<1>4. q \in LooseProposal /\ q.stage = "SnapshotVote" /\ q.snapshot = now
  <2>1. PICK r \in LooseProposal : r = proposals[p]
    BY <1>1
  <2>2. q = [r EXCEPT !.stage = "SnapshotVote", !.snapshot = now, !.voteEnd = end,
                      !.for = 0, !.against = 0, !.quorum = quorum]
    BY <2>1
  <2> QED
    BY <1>1, <1>2, <2>2 DEF LooseProposal, Stage
<1>5. /\ UNCHANGED <<now, lockVars, allowlist>> /\ snapshots' = snapshots
      /\ proposals[p].stage = "Discussion"
  BY DEF AdvanceToSnapshot
<1> HIDE DEF q
<1>6. \A v \in Voters : snapshots'[p][v] = NoVote
  BY <1>1, <1>5 DEF VoteFits, Voted
<1>7. SoundApproval(q) /\ q.snapshot <= now
  BY <1>1, <1>4 DEF SoundApproval
<1> QED
  BY <1>1, <1>3, <1>4, <1>5, <1>6, <1>7, ReplaceInv

\* cast_vote: the recorded power is positive and is that of the snapshot.
LEMMA CastVoteInv ==
    ASSUME DaoInv, NEW p \in DOMAIN proposals, NEW w \in Voters, NEW approve \in BOOLEAN,
           CastVote(w, p, approve)
    PROVE  DaoInv'
<1> DEFINE power == VotingPower(w, proposals[p].snapshot)
           q == IF approve THEN [proposals[p] EXCEPT !.for = @ + power]
                           ELSE [proposals[p] EXCEPT !.against = @ + power]
<1>1. /\ p \in 1 .. MaxProposals /\ proposals[p] \in LooseProposal
      /\ proposals[p].snapshot \in Nat /\ proposals[p].snapshot <= now
      /\ snapshots \in [1 .. MaxProposals -> [Voters -> Nat \union {NoVote}]]
      /\ \A v \in Voters : VoteFits(p, v, proposals[p])
      /\ proposals \in Seq(LooseProposal)
  BY ProposalFacts DEF Ledgers
<1>2. power \in Nat /\ power > 0
  <2>1. power \in Int
    BY <1>1, PowerIsInt DEF DaoInv
  <2>2. power > 0
    BY DEF CastVote
  <2> QED
    BY <2>1, <2>2
<1>3. /\ proposals[p].stage = "SnapshotVote"
      /\ snapshots' = [snapshots EXCEPT ![p][w] = power]
      /\ UNCHANGED <<now, lockVars, allowlist>>
  BY DEF CastVote
<1>4. proposals' = [proposals EXCEPT ![p] = q]
  BY <1>1 DEF CastVote
<1> HIDE DEF power
<1>5. /\ q \in LooseProposal /\ q.stage = "SnapshotVote"
      /\ q.snapshot = proposals[p].snapshot
  BY <1>1, <1>2, <1>3, VoteRecord
<1>6. /\ snapshots' \in [1 .. MaxProposals -> [Voters -> Nat \union {NoVote}]]
      /\ \A r \in 1 .. MaxProposals : r # p => snapshots'[r] = snapshots[r]
      /\ snapshots'[p][w] = power
      /\ \A v \in Voters \ {w} : snapshots'[p][v] = snapshots[p][v]
  BY <1>1, <1>2, <1>3
<1> HIDE DEF q
<1>7. ASSUME NEW v \in Voters, snapshots'[p][v] # NoVote
      PROVE  /\ q.stage # "Discussion"
             /\ snapshots'[p][v] = VotingPower(v, q.snapshot)
             /\ VotingPower(v, q.snapshot) > 0
  <2>1. CASE v = w
    BY <1>2, <1>5, <1>6, <2>1 DEF power
  <2>2. CASE v # w
    BY <1>1, <1>5, <1>6, <1>7, <2>2 DEF VoteFits, Voted
  <2> QED
    BY <2>1, <2>2
<1>8. SoundApproval(q) /\ q.snapshot <= now
  BY <1>1, <1>5 DEF SoundApproval
<1> QED
  BY <1>3, <1>4, <1>5, <1>6, <1>7, <1>8, ReplaceInv

\* finalise_vote: the decision is Approved, after the deadline.
LEMMA FinaliseInv ==
    ASSUME DaoInv, NEW p \in DOMAIN proposals, FinaliseVote(p)
    PROVE  DaoInv'
<1>1. /\ p \in 1 .. MaxProposals /\ proposals[p] \in LooseProposal
      /\ proposals[p].snapshot <= now /\ now \in Nat
      /\ snapshots \in [1 .. MaxProposals -> [Voters -> Nat \union {NoVote}]]
      /\ \A v \in Voters : VoteFits(p, v, proposals[p])
      /\ proposals \in Seq(LooseProposal)
  BY ProposalFacts
<1>2. /\ UNCHANGED <<now, lockVars, allowlist, snapshots>>
      /\ proposals[p].stage = "SnapshotVote" /\ now > proposals[p].voteEnd
  BY DEF FinaliseVote
<1>3. CASE /\ Approved(p) /\ now + Timelock <= U32Max
           /\ proposals' = [proposals EXCEPT ![p] =
                [@ EXCEPT !.stage = "Execution", !.executableFrom = now + Timelock]]
  <2> DEFINE q == [proposals[p] EXCEPT !.stage = "Execution",
                                       !.executableFrom = now + Timelock]
  <2>1. proposals' = [proposals EXCEPT ![p] = q]
    BY <1>1, <1>3
  <2>2. now + Timelock \in Ledgers
    BY <1>1, <1>3, ConfigAssumption, LocksAssumption DEF Ledgers
  <2>3. /\ q \in LooseProposal /\ q.stage = "Execution"
        /\ q.snapshot = proposals[p].snapshot /\ q.voteEnd = proposals[p].voteEnd
        /\ q.for = proposals[p].for /\ q.against = proposals[p].against
        /\ q.quorum = proposals[p].quorum /\ q.executableFrom = now + Timelock
    BY <1>1, <2>2 DEF LooseProposal, Stage
  <2> HIDE DEF q
  <2>4. proposals[p].voteEnd \in Int
    BY <1>1 DEF LooseProposal, Ledgers
  <2>5. SoundApproval(q)
    <3>1. now + Timelock > proposals[p].voteEnd + Timelock
      BY <1>1, <1>2, <2>4, ConfigAssumption
    <3> QED
      BY <1>3, <2>3, <3>1 DEF SoundApproval, Approved
  <2>6. \A v \in Voters : snapshots'[p][v] # NoVote =>
          /\ q.stage # "Discussion"
          /\ snapshots'[p][v] = VotingPower(v, q.snapshot)
          /\ VotingPower(v, q.snapshot) > 0
    BY <1>1, <1>2, <2>3 DEF VoteFits, Voted
  <2> QED
    BY <1>1, <1>2, <2>1, <2>3, <2>5, <2>6, ReplaceInv
<1>4. CASE proposals' = [proposals EXCEPT ![p].stage = "Defeated"]
  <2> DEFINE q == [proposals[p] EXCEPT !.stage = "Defeated"]
  <2>1. proposals' = [proposals EXCEPT ![p] = q]
    BY <1>1, <1>4
  <2>2. /\ q \in LooseProposal /\ q.stage = "Defeated"
        /\ q.snapshot = proposals[p].snapshot
    BY <1>1 DEF LooseProposal, Stage
  <2> HIDE DEF q
  <2>3. SoundApproval(q)
    BY <2>2 DEF SoundApproval
  <2>4. \A v \in Voters : snapshots'[p][v] # NoVote =>
          /\ q.stage # "Discussion"
          /\ snapshots'[p][v] = VotingPower(v, q.snapshot)
          /\ VotingPower(v, q.snapshot) > 0
    BY <1>1, <1>2, <2>2 DEF VoteFits, Voted
  <2> QED
    BY <1>1, <1>2, <2>1, <2>2, <2>3, <2>4, ReplaceInv
<1> QED
  BY <1>3, <1>4 DEF FinaliseVote

\* execute_proposal changes the stage and nothing the approval rests on.
LEMMA ExecuteInv ==
    ASSUME DaoInv, NEW p \in DOMAIN proposals, ExecuteProposal(p)
    PROVE  DaoInv'
<1> DEFINE q == [proposals[p] EXCEPT !.stage = "Executed"]
<1>1. /\ p \in 1 .. MaxProposals /\ proposals[p] \in LooseProposal
      /\ proposals[p].snapshot <= now
      /\ snapshots \in [1 .. MaxProposals -> [Voters -> Nat \union {NoVote}]]
      /\ \A v \in Voters : VoteFits(p, v, proposals[p])
      /\ SoundApproval(proposals[p])
      /\ proposals \in Seq(LooseProposal)
  BY ProposalFacts
<1>2. /\ UNCHANGED <<now, lockVars, allowlist, snapshots>>
      /\ proposals[p].stage = "Execution"
      /\ proposals' = [proposals EXCEPT ![p] = q]
  BY <1>1 DEF ExecuteProposal
<1>3. /\ q \in LooseProposal /\ q.stage = "Executed"
      /\ q.snapshot = proposals[p].snapshot /\ q.voteEnd = proposals[p].voteEnd
      /\ q.for = proposals[p].for /\ q.against = proposals[p].against
      /\ q.quorum = proposals[p].quorum /\ q.executableFrom = proposals[p].executableFrom
  BY <1>1 DEF LooseProposal, Stage
<1> HIDE DEF q
<1>4. SoundApproval(q)
  BY <1>1, <1>2, <1>3 DEF SoundApproval
<1>5. \A v \in Voters : snapshots'[p][v] # NoVote =>
        /\ q.stage # "Discussion"
        /\ snapshots'[p][v] = VotingPower(v, q.snapshot)
        /\ VotingPower(v, q.snapshot) > 0
  BY <1>1, <1>2, <1>3 DEF VoteFits, Voted
<1> QED
  BY <1>1, <1>2, <1>3, <1>4, <1>5, ReplaceInv

\* create_proposal appends a proposal nobody has voted on.
LEMMA CreateInv ==
    ASSUME DaoInv, NEW v \in Voters, NEW t \in Targets, CreateProposal(v, t)
    PROVE  DaoInv'
<1> DEFINE q == [target |-> t, stage |-> "Discussion", snapshot |-> 0, voteEnd |-> 0,
                 for |-> 0, against |-> 0, quorum |-> 0, executableFrom |-> 0]
<1>1. /\ proposals \in Seq(LooseProposal) /\ Len(proposals) < MaxProposals
      /\ UNCHANGED <<now, lockVars, snapshots, allowlist>>
      /\ proposals' = Append(proposals, q)
  BY DEF CreateProposal, DaoInv, GovTypes
<1>2. /\ q \in LooseProposal /\ q.stage = "Discussion" /\ q.snapshot = 0
  BY LocksAssumption DEF LooseProposal, Stage, Ledgers
<1>0. PICK n \in 1 .. MaxProposals : n = Len(proposals) + 1
  BY <1>1, ConfigAssumption
<1> HIDE DEF q
<1>3. /\ proposals' \in Seq(LooseProposal) /\ Len(proposals') = n
      /\ DOMAIN proposals' = DOMAIN proposals \union {n}
      /\ n \notin DOMAIN proposals
      /\ proposals'[n] = q
      /\ \A r \in DOMAIN proposals : proposals'[r] = proposals[r]
  BY <1>0, <1>1, <1>2, ConfigAssumption
<1>4. LocksInv'
  BY <1>1, NextInv DEF DaoInv
<1>5. GovTypes'
  BY <1>0, <1>1, <1>3, ConfigAssumption DEF DaoInv, GovTypes
<1>6. \A w \in Voters : \A at : VotingPower(w, at)' = VotingPower(w, at)
  BY <1>1 DEF VotingPower, HasLock, PowerOf, lockVars
<1>7. VotesFit'
  <2>1. ASSUME NEW r \in DOMAIN proposals, NEW w \in Voters
        PROVE  VoteFits(r, w, proposals[r])'
    <3>1. VoteFits(r, w, proposals[r])
      BY DEF DaoInv, VotesFit
    <3> QED
      BY <1>1, <1>3, <1>6, <3>1 DEF VoteFits, Voted
  <2>2. ASSUME NEW r \in (1 .. MaxProposals) \ DOMAIN proposals, NEW w \in Voters
        PROVE  ~Voted(r, w)'
    <3>1. ~Voted(r, w)
      BY DEF DaoInv, VotesFit
    <3> QED
      BY <1>1, <3>1 DEF Voted
  <2>3. \A w \in Voters : VoteFits(n, w, proposals[n])'
    <3>1. ASSUME NEW w \in Voters PROVE ~Voted(n, w)'
      BY <1>3, <2>2
    <3> QED
      BY <3>1 DEF VoteFits
  <2> QED
    BY <1>3, <2>1, <2>2, <2>3 DEF VotesFit
<1>8. ProposalsFit'
  <2>1. (proposals[n].snapshot <= now /\ SoundApproval(proposals[n]))'
    BY <1>1, <1>2, <1>3 DEF DaoInv, LocksInv, LockTypes, Ledgers, SoundApproval
  <2>2. ASSUME NEW r \in DOMAIN proposals
        PROVE  (proposals[r].snapshot <= now /\ SoundApproval(proposals[r]))'
    BY <1>1, <1>3 DEF DaoInv, ProposalsFit, SoundApproval
  <2> QED
    BY <1>3, <2>1, <2>2 DEF ProposalsFit
<1> QED
  BY <1>4, <1>5, <1>7, <1>8 DEF DaoInv

\* Every step keeps the invariant.
LEMMA DaoNextInv == DaoInv /\ [Next]_vars => DaoInv'
<1> SUFFICES ASSUME DaoInv, [Next]_vars PROVE DaoInv'
  OBVIOUS
<1>1. CASE CloseLedger /\ UNCHANGED govVars
  BY <1>1, LocksStepInv DEF LocksNext
<1>2. ASSUME NEW v \in Voters, VoterStep(v), UNCHANGED govVars PROVE DaoInv'
  BY <1>2, LocksStepInv DEF LocksNext
<1>3. ASSUME NEW t \in Targets, AddAllowedTarget(t) \/ RemoveAllowedTarget(t) PROVE DaoInv'
  <2>1. UNCHANGED <<now, lockVars, proposals, snapshots>>
    BY <1>3 DEF AddAllowedTarget, RemoveAllowedTarget
  <2>2. LocksInv'
    BY <2>1, NextInv DEF DaoInv
  <2>3. GovTypes'
    BY <1>3, <2>1 DEF DaoInv, GovTypes, AddAllowedTarget, RemoveAllowedTarget
  <2>4. VotesFit'
    <3>1. \A w \in Voters : \A at : VotingPower(w, at)' = VotingPower(w, at)
      BY <2>1 DEF VotingPower, HasLock, PowerOf, lockVars
    <3> QED
      BY <2>1, <3>1 DEF DaoInv, VotesFit, VoteFits, Voted
  <2>5. ProposalsFit'
    BY <2>1 DEF DaoInv, ProposalsFit, SoundApproval
  <2> QED
    BY <2>2, <2>3, <2>4, <2>5 DEF DaoInv
<1>4. ASSUME NEW v \in Voters, NEW t \in Targets, CreateProposal(v, t) PROVE DaoInv'
  BY <1>4, CreateInv
<1>5. ASSUME NEW p \in DOMAIN proposals, ProposalStep(p) PROVE DaoInv'
  BY <1>5, AdvanceInv, CastVoteInv, FinaliseInv, ExecuteInv DEF ProposalStep
<1>6. CASE UNCHANGED vars
  BY <1>6, LocksStepInv DEF vars
<1> QED
  BY <1>1, <1>2, <1>3, <1>4, <1>5, <1>6 DEF Next

\* The inductive invariant of the contract holds in every reachable state.
THEOREM DaoInvariantHolds == Spec => []DaoInv
BY DaoInitInv, DaoNextInv, PTL DEF Spec

\* VotesAreSnapshotPower: a vote, whenever it was cast (cast_vote), is and stays
\* the power its voter had at the snapshot ledger.
THEOREM VotesCountSnapshotPower == Spec => []VotesAreSnapshotPower
<1>1. DaoInv => VotesAreSnapshotPower
  BY DEF DaoInv, VotesFit, VoteFits, VotesAreSnapshotPower
<1> QED
  BY <1>1, DaoInvariantHolds, PTL

\* ApprovalIsSound: what finalise_vote lets through had the majority and the
\* quorum of its snapshot, and execute_proposal waits for the timelock.
THEOREM ApprovalsAreSound == Spec => []ApprovalIsSound
<1>1. DaoInv => ApprovalIsSound
  BY DEF DaoInv, ProposalsFit, SoundApproval, ApprovalIsSound
<1> QED
  BY <1>1, DaoInvariantHolds, PTL

-----------------------------------------------------------------------------
\* What may become of a proposal's record q: r.
Settled(q, r) ==
    /\ q.stage # "Discussion" =>
         /\ r.snapshot = q.snapshot
         /\ r.voteEnd = q.voteEnd
         /\ r.quorum = q.quorum
    /\ q.stage \in {"Execution", "Defeated", "Executed"} =>
         \/ r = q
         \/ q.stage = "Execution" /\ r = [q EXCEPT !.stage = "Executed"]

\* A step of one proposal, seen from any of them.
LEMMA ProposalStepSettles ==
    ASSUME DaoInv, NEW o \in DOMAIN proposals, ProposalStep(o), NEW p \in DOMAIN proposals
    PROVE  Settled(proposals[p], proposals'[p])
<1>1. proposals \in Seq(LooseProposal) /\ proposals[p] \in LooseProposal
  BY ProposalFacts
<1>2. ASSUME NEW q, proposals' = [proposals EXCEPT ![o] = q], Settled(proposals[o], q)
      PROVE  Settled(proposals[p], proposals'[p])
  <2>1. CASE o = p
    BY <1>1, <1>2, <2>1
  <2>2. CASE o # p
    <3>1. proposals'[p] = proposals[p]
      BY <1>1, <1>2, <2>2
    <3> QED
      BY <3>1 DEF Settled
  <2> QED
    BY <2>1, <2>2
<1>3. PICK r \in LooseProposal : r = proposals[o]
  BY ProposalFacts
<1>4. ASSUME NEW caller, AdvanceToSnapshot(caller, o)
      PROVE  Settled(proposals[p], proposals'[p])
  <2> DEFINE q == [proposals[o] EXCEPT !.stage = "SnapshotVote", !.snapshot = now,
                     !.voteEnd = now + VotingPeriod, !.for = 0, !.against = 0,
                     !.quorum = (totalLocked * QuorumBps) \div 10000]
  <2>1. proposals' = [proposals EXCEPT ![o] = q] /\ proposals[o].stage = "Discussion"
    BY <1>1, <1>4 DEF AdvanceToSnapshot
  <2> HIDE DEF q
  <2>2. Settled(proposals[o], q)
    BY <2>1 DEF Settled
  <2> QED
    BY <1>2, <2>1, <2>2
<1>5. ASSUME NEW v \in Voters, NEW approve \in BOOLEAN, CastVote(v, o, approve)
      PROVE  Settled(proposals[p], proposals'[p])
  <2> DEFINE power == VotingPower(v, proposals[o].snapshot)
             q == IF approve THEN [r EXCEPT !.for = @ + power]
                             ELSE [r EXCEPT !.against = @ + power]
  <2>1. r.stage = "SnapshotVote" /\ proposals' = [proposals EXCEPT ![o] = q]
    BY <1>1, <1>3, <1>5 DEF CastVote
  <2> HIDE DEF power
  <2>2. q.snapshot = r.snapshot /\ q.voteEnd = r.voteEnd /\ q.quorum = r.quorum
    BY <1>3 DEF LooseProposal
  <2> HIDE DEF q
  <2>3. Settled(proposals[o], q)
    BY <1>3, <2>1, <2>2 DEF Settled
  <2> QED
    BY <1>2, <2>1, <2>3
<1>6. CASE FinaliseVote(o)
  <2>1. r.stage = "SnapshotVote"
    BY <1>3, <1>6 DEF FinaliseVote
  <2>2. CASE proposals' = [proposals EXCEPT ![o] =
               [@ EXCEPT !.stage = "Execution", !.executableFrom = now + Timelock]]
    <3> DEFINE q == [r EXCEPT !.stage = "Execution", !.executableFrom = now + Timelock]
    <3>1. proposals' = [proposals EXCEPT ![o] = q]
      BY <1>1, <1>3, <2>2
    <3>2. q.snapshot = r.snapshot /\ q.voteEnd = r.voteEnd /\ q.quorum = r.quorum
      BY <1>3 DEF LooseProposal
    <3> HIDE DEF q
    <3>3. Settled(proposals[o], q)
      BY <1>3, <2>1, <3>2 DEF Settled
    <3> QED
      BY <1>2, <3>1, <3>3
  <2>3. CASE proposals' = [proposals EXCEPT ![o].stage = "Defeated"]
    <3> DEFINE q == [r EXCEPT !.stage = "Defeated"]
    <3>1. proposals' = [proposals EXCEPT ![o] = q]
      BY <1>1, <1>3, <2>3
    <3>2. q.snapshot = r.snapshot /\ q.voteEnd = r.voteEnd /\ q.quorum = r.quorum
      BY <1>3 DEF LooseProposal
    <3> HIDE DEF q
    <3>3. Settled(proposals[o], q)
      BY <1>3, <2>1, <3>2 DEF Settled
    <3> QED
      BY <1>2, <3>1, <3>3
  <2> QED
    BY <1>6, <2>2, <2>3 DEF FinaliseVote
<1>7. CASE ExecuteProposal(o)
  <2> DEFINE q == [r EXCEPT !.stage = "Executed"]
  <2>1. r.stage = "Execution" /\ proposals' = [proposals EXCEPT ![o] = q]
    BY <1>1, <1>3, <1>7 DEF ExecuteProposal
  <2>2. q.snapshot = r.snapshot /\ q.voteEnd = r.voteEnd /\ q.quorum = r.quorum
    BY <1>3 DEF LooseProposal
  <2>3. Settled(proposals[o], q)
    BY <1>3, <2>1, <2>2 DEF Settled
  <2> HIDE DEF q
  <2> QED
    BY <1>2, <2>1, <2>3
<1> QED
  BY <1>4, <1>5, <1>6, <1>7 DEF ProposalStep

\* Any step, seen from any proposal.
LEMMA StepSettles ==
    ASSUME DaoInv, [Next]_vars, NEW p \in DOMAIN proposals
    PROVE  Settled(proposals[p], proposals'[p])
<1>1. proposals'[p] = proposals[p] => Settled(proposals[p], proposals'[p])
  BY DEF Settled
<1>2. CASE UNCHANGED proposals
  BY <1>1, <1>2
<1>3. ASSUME NEW v \in Voters, NEW t \in Targets, CreateProposal(v, t)
      PROVE  Settled(proposals[p], proposals'[p])
  <2>1. proposals \in Seq(LooseProposal)
    BY DEF DaoInv, GovTypes
  <2>2. \E q : proposals' = Append(proposals, q)
    BY <1>3 DEF CreateProposal
  <2>3. proposals'[p] = proposals[p]
    BY <2>1, <2>2
  <2> QED
    BY <1>1, <2>3
<1>4. ASSUME NEW o \in DOMAIN proposals, ProposalStep(o)
      PROVE  Settled(proposals[p], proposals'[p])
  BY <1>4, ProposalStepSettles
<1>5. ASSUME NEW t \in Targets, AddAllowedTarget(t) \/ RemoveAllowedTarget(t)
      PROVE  UNCHANGED proposals
  BY <1>5 DEF AddAllowedTarget, RemoveAllowedTarget
<1> QED
  BY <1>2, <1>3, <1>4, <1>5 DEF Next, vars, govVars

\* OutcomeIsFinal: no call moves the snapshot, the deadline or the quorum of a
\* vote that has started, and nothing but its execution happens to a decision.
THEOREM OutcomesAreFinal == Spec => OutcomeIsFinal
<1>1. DaoInv /\ [Next]_vars
      => [\A p \in DOMAIN proposals :
            LET q == proposals[p]  r == proposals'[p] IN
            /\ q.stage # "Discussion" =>
                 /\ r.snapshot = q.snapshot
                 /\ r.voteEnd = q.voteEnd
                 /\ r.quorum = q.quorum
            /\ q.stage \in {"Execution", "Defeated", "Executed"} =>
                 \/ r = q
                 \/ q.stage = "Execution" /\ r = [q EXCEPT !.stage = "Executed"]]_vars
  BY StepSettles DEF Settled
<1> QED
  BY <1>1, DaoInvariantHolds, PTL DEF Spec, OutcomeIsFinal

-----------------------------------------------------------------------------
(* The books *)

\* A quorum is a share of a total that is not negative.
QuorumsFit == \A p \in DOMAIN proposals : proposals[p].quorum \in Nat

BooksInv == DaoInv /\ SumsInv /\ TalliesMatchVotes /\ QuorumsFit

\* The voters with a recorded vote, among the votes of one proposal.
WhoVoted(votes) == {v \in Voters : votes[v] # NoVote}

\* The locked total is a sum of amounts, so it is not negative.
LEMMA TotalIsNatural ==
    ASSUME LocksInv, TotalMatchesLocks
    PROVE  totalLocked \in Nat
<1> DEFINE f == [v \in Voters |-> LockedBy(v)]
<1>1. \A v \in Voters : f[v] \in Nat
  BY LockedIsInt
<1>2. totalLocked = SumFunctionOnSet(f, Voters)
  BY SumOverVoters DEF TotalMatchesLocks
<1> HIDE DEF f
<1> QED
  BY <1>1, <1>2, SumIsNatural, VotersAssumption

\* When one proposal gets a new record or votes, the books of the others stay.
LEMMA ReplaceTally ==
    ASSUME BooksInv, NEW p \in DOMAIN proposals, NEW q \in LooseProposal,
           proposals' = [proposals EXCEPT ![p] = q],
           \A r \in 1 .. MaxProposals : r # p => snapshots'[r] = snapshots[r],
           q.quorum \in Nat,
           q.for + q.against = SumFunctionOnSet(snapshots'[p], WhoVoted(snapshots'[p]))
    PROVE  TalliesMatchVotes' /\ QuorumsFit'
<1>1. proposals \in Seq(LooseProposal) /\ DOMAIN proposals \subseteq 1 .. MaxProposals
  BY ProposalFacts DEF BooksInv
<1>2. /\ DOMAIN proposals' = DOMAIN proposals
      /\ proposals'[p] = q
      /\ \A r \in DOMAIN proposals \ {p} : proposals'[r] = proposals[r]
  BY <1>1, ReplaceAt
<1>3. ASSUME NEW r \in DOMAIN proposals
      PROVE  /\ proposals'[r].quorum \in Nat
             /\ proposals'[r].for + proposals'[r].against =
                  SumFunctionOnSet(snapshots'[r], WhoVoted(snapshots'[r]))
  <2>1. CASE r = p
    BY <1>2, <2>1
  <2>2. CASE r # p
    <3>1. snapshots'[r] = snapshots[r] /\ proposals'[r] = proposals[r]
      BY <1>1, <1>2, <2>2
    <3> QED
      BY <3>1 DEF BooksInv, TalliesMatchVotes, QuorumsFit, WhoVoted, Voted
  <2> QED
    BY <2>1, <2>2
<1> QED
  BY <1>2, <1>3 DEF TalliesMatchVotes, QuorumsFit, WhoVoted, Voted

\* advance_to_snapshot: there are no votes, and the quorum is a share of what
\* is locked.
LEMMA AdvanceBooks ==
    ASSUME BooksInv, NEW p \in DOMAIN proposals, NEW caller, AdvanceToSnapshot(caller, p)
    PROVE  TalliesMatchVotes' /\ QuorumsFit'
<1> DEFINE quorum == (totalLocked * QuorumBps) \div 10000
           end == now + VotingPeriod
           q == [proposals[p] EXCEPT !.stage = "SnapshotVote", !.snapshot = now,
                   !.voteEnd = end, !.for = 0, !.against = 0,
                   !.quorum = quorum]
<1>1. /\ p \in 1 .. MaxProposals /\ proposals[p] \in LooseProposal
      /\ now \in Ledgers /\ now \in Nat
      /\ \A v \in Voters : VoteFits(p, v, proposals[p])
      /\ proposals \in Seq(LooseProposal)
  BY ProposalFacts DEF BooksInv
<1>2. end \in Ledgers /\ quorum \in Nat
  <2>1. totalLocked \in Nat
    BY TotalIsNatural DEF BooksInv, DaoInv, SumsInv
  <2>2. totalLocked * QuorumBps \in Nat
    BY <2>1, ConfigAssumption
  <2>3. now + VotingPeriod \in Ledgers
    BY <1>1, ConfigAssumption, LocksAssumption DEF AdvanceToSnapshot, Ledgers
  <2> QED
    BY <2>2, <2>3
<1>3. /\ proposals' = [proposals EXCEPT ![p] = q]
      /\ snapshots' = snapshots /\ proposals[p].stage = "Discussion"
  BY <1>1 DEF AdvanceToSnapshot
<1> HIDE DEF quorum, end
<1>4. q \in LooseProposal /\ q.quorum = quorum /\ q.for + q.against = 0
  <2>1. PICK r \in LooseProposal : r = proposals[p]
    BY <1>1
  <2>2. q = [r EXCEPT !.stage = "SnapshotVote", !.snapshot = now, !.voteEnd = end,
                      !.for = 0, !.against = 0, !.quorum = quorum]
    BY <2>1
  <2> HIDE DEF q
  <2>3. q \in LooseProposal
    <3>1. quorum \in Int
      BY <1>2
    <3> QED
      BY <1>1, <1>2, <2>2, <3>1 DEF LooseProposal, Stage
  <2>4. q.quorum = quorum /\ q.for = 0 /\ q.against = 0
    BY <2>2 DEF LooseProposal
  <2> QED
    BY <2>3, <2>4
<1> HIDE DEF q
<1>5. WhoVoted(snapshots'[p]) = {}
  BY <1>1, <1>3 DEF VoteFits, Voted, WhoVoted
<1>6. SumFunctionOnSet(snapshots'[p], WhoVoted(snapshots'[p])) = 0
  BY <1>5, SumEmpty
<1> QED
  BY <1>1, <1>2, <1>3, <1>4, <1>6, ReplaceTally

\* cast_vote: one more vote is recorded, and its power is added to one tally.
LEMMA CastVoteBooks ==
    ASSUME BooksInv, NEW p \in DOMAIN proposals, NEW w \in Voters, NEW approve \in BOOLEAN,
           CastVote(w, p, approve)
    PROVE  TalliesMatchVotes' /\ QuorumsFit'
<1> DEFINE power == VotingPower(w, proposals[p].snapshot)
           q == IF approve THEN [proposals[p] EXCEPT !.for = @ + power]
                           ELSE [proposals[p] EXCEPT !.against = @ + power]
           before == snapshots[p]
           after == snapshots'[p]
<1>1. /\ p \in 1 .. MaxProposals /\ proposals[p] \in LooseProposal
      /\ proposals[p].snapshot \in Nat
      /\ snapshots \in [1 .. MaxProposals -> [Voters -> Nat \union {NoVote}]]
      /\ proposals \in Seq(LooseProposal)
  BY ProposalFacts DEF Ledgers, BooksInv
<1>2. power \in Nat
  <2>1. power \in Int
    BY <1>1, PowerIsInt DEF DaoInv, BooksInv
  <2>2. power > 0
    BY DEF CastVote
  <2> QED
    BY <2>1, <2>2
<1>3. /\ snapshots' = [snapshots EXCEPT ![p][w] = power]
      /\ snapshots[p][w] = NoVote
  BY DEF CastVote
<1>4. proposals' = [proposals EXCEPT ![p] = q]
  BY <1>1 DEF CastVote
<1> HIDE DEF power
<1>5. /\ q \in LooseProposal /\ q.quorum = proposals[p].quorum
      /\ q.for + q.against = proposals[p].for + proposals[p].against + power
  <2>1. PICK r \in LooseProposal : r = proposals[p]
    BY <1>1
  <2>2. r.for \in Nat /\ r.against \in Nat
    BY <2>1 DEF LooseProposal
  <2>3. q = IF approve THEN [r EXCEPT !.for = @ + power] ELSE [r EXCEPT !.against = @ + power]
    BY <2>1
  <2>4. q \in LooseProposal /\ q.quorum = r.quorum
    <3> HIDE DEF q
    <3>1. power \in Nat
      BY <1>2
    <3>2. LET v == IF approve THEN [r EXCEPT !.for = @ + power] ELSE [r EXCEPT !.against = @ + power]
          IN  v \in LooseProposal /\ v.quorum = r.quorum
      BY <3>1, VoteRecord
    <3> QED
      BY <2>3, <3>2
  <2>5. q.for + q.against = r.for + r.against + power
    <3>1. /\ q.for = IF approve THEN r.for + power ELSE r.for
          /\ q.against = IF approve THEN r.against ELSE r.against + power
      BY <2>3 DEF LooseProposal
    <3>2. power \in Nat
      BY <1>2
    <3> QED
      BY <2>2, <3>1, <3>2
  <2> QED
    BY <2>1, <2>4, <2>5
<1> HIDE DEF q
<1>6. /\ \A r \in 1 .. MaxProposals : r # p => snapshots'[r] = snapshots[r]
      /\ after[w] = power
      /\ before \in [Voters -> Nat \union {NoVote}]
      /\ before[w] = NoVote
      /\ \A v \in Voters \ {w} : after[v] = before[v]
  BY <1>1, <1>2, <1>3
<1>7. proposals[p].for + proposals[p].against = SumFunctionOnSet(before, WhoVoted(before))
  BY DEF BooksInv, TalliesMatchVotes, WhoVoted, Voted
<1>8. proposals[p].quorum \in Nat
  BY DEF BooksInv, QuorumsFit
<1> HIDE DEF before, after
<1>9. /\ w \notin WhoVoted(before)
      /\ WhoVoted(after) = WhoVoted(before) \cup {w}
      /\ \A v \in WhoVoted(before) : before[v] = after[v] /\ after[v] \in Int
  BY <1>2, <1>6, ConfigAssumption DEF WhoVoted
<1>10. IsFiniteSet(WhoVoted(before))
  <2>1. WhoVoted(before) \subseteq Voters
    BY DEF WhoVoted
  <2> QED
    BY <2>1, VotersAssumption, FS_Subset
<1>11. SumFunctionOnSet(after, WhoVoted(before) \cup {w}) = after[w] + SumFunctionOnSet(after, WhoVoted(before))
  <2>1. \A v \in WhoVoted(before) \cup {w} : after[v] \in Int
    BY <1>2, <1>6, <1>9
  <2>2. w \notin WhoVoted(before)
    BY <1>9
  <2> QED
    BY <1>10, <2>1, <2>2, SumWith
<1>12. SumFunctionOnSet(before, WhoVoted(before)) = SumFunctionOnSet(after, WhoVoted(before))
  <2>1. \A v \in WhoVoted(before) : before[v] = after[v]
    BY <1>9
  <2> QED
    BY <1>10, <2>1, SumOfEqual
<1>13. SumFunctionOnSet(after, WhoVoted(before)) \in Int
  <2>1. \A v \in WhoVoted(before) : after[v] \in Int
    BY <1>9
  <2> QED
    BY <1>10, <2>1, SumIsInteger
<1>14. q.for + q.against = SumFunctionOnSet(after, WhoVoted(after))
  BY <1>2, <1>5, <1>6, <1>7, <1>9, <1>11, <1>12, <1>13
<1> QED
  BY <1>4, <1>5, <1>6, <1>8, <1>14, ReplaceTally DEF after

\* finalise_vote and execute_proposal change no tally.
LEMMA DecisionBooks ==
    ASSUME BooksInv, NEW p \in DOMAIN proposals, FinaliseVote(p) \/ ExecuteProposal(p)
    PROVE  TalliesMatchVotes' /\ QuorumsFit'
<1>1. /\ p \in 1 .. MaxProposals /\ proposals[p] \in LooseProposal
      /\ now \in Nat /\ proposals \in Seq(LooseProposal)
  BY ProposalFacts DEF BooksInv
<1>2. snapshots' = snapshots
  BY DEF FinaliseVote, ExecuteProposal
<1>3. ASSUME NEW q \in LooseProposal, proposals' = [proposals EXCEPT ![p] = q],
             q.for = proposals[p].for, q.against = proposals[p].against,
             q.quorum = proposals[p].quorum
      PROVE  TalliesMatchVotes' /\ QuorumsFit'
  <2>1. /\ q.quorum \in Nat
        /\ q.for + q.against = SumFunctionOnSet(snapshots'[p], WhoVoted(snapshots'[p]))
    BY <1>2, <1>3 DEF BooksInv, TalliesMatchVotes, QuorumsFit, WhoVoted, Voted
  <2> QED
    BY <1>2, <1>3, <2>1, ReplaceTally
<1>4. PICK r \in LooseProposal : r = proposals[p]
  BY <1>1
<1>5. ASSUME NEW stage \in Stage, proposals' = [proposals EXCEPT ![p].stage = stage]
      PROVE  TalliesMatchVotes' /\ QuorumsFit'
  <2> DEFINE q == [r EXCEPT !.stage = stage]
  <2>1. proposals' = [proposals EXCEPT ![p] = q]
    BY <1>1, <1>4, <1>5
  <2>2. q \in LooseProposal /\ q.for = r.for /\ q.against = r.against /\ q.quorum = r.quorum
    BY DEF LooseProposal
  <2> HIDE DEF q
  <2> QED
    BY <1>3, <1>4, <2>1, <2>2
<1>6. ASSUME now + Timelock <= U32Max,
             proposals' = [proposals EXCEPT ![p] =
               [@ EXCEPT !.stage = "Execution", !.executableFrom = now + Timelock]]
      PROVE  TalliesMatchVotes' /\ QuorumsFit'
  <2> DEFINE from == now + Timelock
             q == [r EXCEPT !.stage = "Execution", !.executableFrom = from]
  <2>1. from \in Ledgers
    BY <1>1, <1>6, ConfigAssumption, LocksAssumption DEF Ledgers
  <2>2. proposals' = [proposals EXCEPT ![p] = q]
    BY <1>1, <1>4, <1>6
  <2> HIDE DEF from
  <2>3. q \in LooseProposal /\ q.for = r.for /\ q.against = r.against /\ q.quorum = r.quorum
    BY <2>1 DEF LooseProposal, Stage
  <2> HIDE DEF q
  <2> QED
    BY <1>3, <1>4, <2>2, <2>3
<1>7. "Defeated" \in Stage /\ "Executed" \in Stage
  BY DEF Stage
<1> QED
  BY <1>5, <1>6, <1>7 DEF FinaliseVote, ExecuteProposal

\* create_proposal: nobody has voted on the new proposal.
LEMMA CreateBooks ==
    ASSUME BooksInv, NEW v \in Voters, NEW t \in Targets, CreateProposal(v, t)
    PROVE  TalliesMatchVotes' /\ QuorumsFit'
<1> DEFINE q == [target |-> t, stage |-> "Discussion", snapshot |-> 0, voteEnd |-> 0,
                 for |-> 0, against |-> 0, quorum |-> 0, executableFrom |-> 0]
<1>1. /\ proposals \in Seq(LooseProposal) /\ Len(proposals) < MaxProposals
      /\ snapshots' = snapshots
      /\ proposals' = Append(proposals, q)
  BY DEF CreateProposal, BooksInv, DaoInv, GovTypes
<1>2. q.for + q.against = 0 /\ q.quorum = 0
  OBVIOUS
<1>3. PICK n \in 1 .. MaxProposals : n = Len(proposals) + 1
  BY <1>1, ConfigAssumption
<1> HIDE DEF q
<1>4. /\ DOMAIN proposals' = DOMAIN proposals \union {n}
      /\ n \notin DOMAIN proposals
      /\ proposals'[n] = q
      /\ \A r \in DOMAIN proposals : proposals'[r] = proposals[r]
  BY <1>1, <1>3
<1>5. \A w \in Voters : ~Voted(n, w)
  BY <1>4 DEF BooksInv, DaoInv, VotesFit
<1>6. SumFunctionOnSet(snapshots'[n], WhoVoted(snapshots'[n])) = 0
  <2>1. WhoVoted(snapshots'[n]) = {}
    BY <1>1, <1>5 DEF Voted, WhoVoted
  <2> QED
    BY <2>1, SumEmpty
<1>7. ASSUME NEW r \in DOMAIN proposals
      PROVE  /\ proposals'[r].quorum \in Nat
             /\ proposals'[r].for + proposals'[r].against =
                  SumFunctionOnSet(snapshots'[r], WhoVoted(snapshots'[r]))
  BY <1>1, <1>4 DEF BooksInv, TalliesMatchVotes, QuorumsFit, Voted, WhoVoted
<1>8. ASSUME NEW r \in DOMAIN proposals'
      PROVE  /\ proposals'[r].quorum \in Nat
             /\ proposals'[r].for + proposals'[r].against =
                  SumFunctionOnSet(snapshots'[r], WhoVoted(snapshots'[r]))
  BY <1>2, <1>4, <1>6, <1>7
<1> QED
  BY <1>8 DEF TalliesMatchVotes, QuorumsFit, Voted, WhoVoted

\* Every step keeps the books.
LEMMA BooksNextInv == BooksInv /\ [Next]_vars => BooksInv'
<1> SUFFICES ASSUME BooksInv, [Next]_vars PROVE BooksInv'
  OBVIOUS
<1>1. DaoInv'
  BY DaoNextInv DEF BooksInv
<1>2. [LocksNext]_<<now, lockVars>>
  <2>1. CASE CloseLedger \/ \E v \in Voters : VoterStep(v)
    BY <2>1 DEF LocksNext
  <2>2. ASSUME NEW p \in DOMAIN proposals, ProposalStep(p) PROVE UNCHANGED <<now, lockVars>>
    BY <2>2 DEF ProposalStep, AdvanceToSnapshot, CastVote, FinaliseVote, ExecuteProposal
  <2>3. ASSUME NEW t \in Targets,
               AddAllowedTarget(t) \/ RemoveAllowedTarget(t) \/ \E v \in Voters : CreateProposal(v, t)
        PROVE  UNCHANGED <<now, lockVars>>
    BY <2>3 DEF AddAllowedTarget, RemoveAllowedTarget, CreateProposal
  <2> QED
    BY <2>1, <2>2, <2>3 DEF Next, vars
<1>3. SumsInv'
  BY <1>2, SumsStep DEF BooksInv, DaoInv
<1>4. ASSUME UNCHANGED <<proposals, snapshots>>
      PROVE  TalliesMatchVotes' /\ QuorumsFit'
  BY <1>4 DEF BooksInv, TalliesMatchVotes, QuorumsFit, Voted
<1>5. ASSUME NEW t \in Targets, AddAllowedTarget(t) \/ RemoveAllowedTarget(t)
      PROVE  UNCHANGED <<proposals, snapshots>>
  BY <1>5 DEF AddAllowedTarget, RemoveAllowedTarget
<1>6. ASSUME NEW p \in DOMAIN proposals, ProposalStep(p)
      PROVE  TalliesMatchVotes' /\ QuorumsFit'
  BY <1>6, AdvanceBooks, CastVoteBooks, DecisionBooks DEF ProposalStep
<1>7. TalliesMatchVotes' /\ QuorumsFit'
  BY <1>4, <1>5, <1>6, CreateBooks DEF Next, vars, govVars
<1> QED
  BY <1>1, <1>3, <1>7 DEF BooksInv

\* The inductive invariant with the sums holds in every reachable state.
THEOREM BooksInvariantHolds == Spec => []BooksInv
<1>1. Init => BooksInv
  <2> SUFFICES ASSUME Init PROVE BooksInv
    OBVIOUS
  <2>1. DOMAIN proposals = {}
    BY DEF Init
  <2> QED
    BY <2>1, DaoInitInv, SumsInit DEF Init, BooksInv, TalliesMatchVotes, QuorumsFit
<1> QED
  BY <1>1, BooksNextInv, PTL DEF Spec

\* PowerWithinSupply: at no ledger do the voters together have more power
\* (get_voting_power) than there are GP tokens, whatever was locked, extended,
\* withdrawn (withdraw), moved and locked again (lock_tokens) since.
THEOREM PowerIsWithinSupply == Spec => []PowerWithinSupply
<1>1. BooksInv => PowerWithinSupply
  BY DEF BooksInv, SumsInv
<1> QED
  BY <1>1, BooksInvariantHolds, PTL

\* BooksBalance: types, and the sums of the contract: the accumulator of
\* lock_tokens and withdraw is the sum of the locks and can be paid back, the
\* power of now is within it, and the tallies of cast_vote are the votes.
THEOREM BooksAlwaysBalance == Spec => []BooksBalance
<1>1. BooksInv => BooksBalance
  <2> SUFFICES ASSUME BooksInv PROVE BooksBalance
    OBVIOUS
  <2>1. totalLocked \in Nat /\ PowerWithinTotal
    BY TotalIsNatural, PowerBelowTotal DEF BooksInv, DaoInv, SumsInv
  <2>2. proposals \in Seq(Proposal)
    <3>1. proposals \in Seq(LooseProposal)
      BY DEF BooksInv, DaoInv, GovTypes
    <3>2. ASSUME NEW i \in 1 .. Len(proposals) PROVE proposals[i] \in Proposal
      <4>1. proposals[i] \in LooseProposal /\ proposals[i].quorum \in Nat
        BY <3>1 DEF BooksInv, QuorumsFit
      <4> QED
        BY <4>1 DEF LooseProposal, Proposal
    <3> QED
      BY <3>1, <3>2
  <2>3. TypeOK
    BY <2>1, <2>2 DEF BooksInv, DaoInv, LocksInv, LockTypes, GovTypes, TypeOK, LocksTypeOK
  <2> QED
    BY <2>1, <2>3 DEF BooksInv, SumsInv, BooksBalance
<1> QED
  BY <1>1, BooksInvariantHolds, PTL
=============================================================================
