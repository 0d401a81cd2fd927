---------------------------- MODULE DaoGovernance ----------------------------
(***************************************************************************)
(* Proposals of the DAO governance contract                                *)
(* (contracts/dao-governance-contract/src/lib.rs): Discussion, a vote on   *)
(* the power voters had at the snapshot ledger, a timelock and execution.  *)
(* The locks the power comes from are those of VoteLocks.                  *)
(***************************************************************************)
EXTENDS VoteLocks

CONSTANTS
    Admin,          \* Config.dao_admin
    Targets,        \* <<target_contract, function>> pairs
    QuorumBps,      \* Config.quorum_bps
    VotingPeriod,   \* Config.voting_period_ledgers
    Timelock,       \* Config.timelock_ledgers
    MaxProposals,   \* bound on the number of proposals
    NoVote          \* no entry under DataKey::Snapshot(proposal, voter)

ASSUME ConfigAssumption ==
    /\ QuorumBps \in Nat \ {0}
    /\ VotingPeriod \in Nat \ {0}
    /\ Timelock \in Nat \ {0}
    /\ MaxProposals \in Nat
    /\ NoVote \notin Nat
    /\ Admin \notin Voters

VARIABLES
    proposals,      \* DataKey::Proposal(1 .. ProposalCount)
    snapshots,      \* DataKey::Snapshot(proposal, voter): the power voted with
    allowlist       \* DataKey::AllowedTarget

govVars == <<proposals, snapshots, allowlist>>
vars == <<now, lockVars, govVars>>

Stage == {"Discussion", "SnapshotVote", "Execution", "Defeated", "Executed"}

Proposal ==
    [target: Targets, stage: Stage, snapshot: Ledgers, voteEnd: Ledgers,
     for: Nat, against: Nat, quorum: Nat, executableFrom: Ledgers]

TypeOK ==
    /\ LocksTypeOK
    /\ proposals \in Seq(Proposal)
    /\ snapshots \in [1 .. MaxProposals -> [Voters -> Nat \union {NoVote}]]
    /\ allowlist \subseteq Targets

Init ==
    /\ LocksInit
    /\ proposals = <<>>
    /\ snapshots = [p \in 1 .. MaxProposals |-> [v \in Voters |-> NoVote]]
    /\ allowlist = {}

-----------------------------------------------------------------------------
AddAllowedTarget(t) ==
    /\ allowlist' = allowlist \union {t}
    /\ UNCHANGED <<now, lockVars, proposals, snapshots>>

RemoveAllowedTarget(t) ==
    /\ allowlist' = allowlist \ {t}
    /\ UNCHANGED <<now, lockVars, proposals, snapshots>>

CreateProposal(v, t) ==
    /\ Len(proposals) < MaxProposals
    /\ VotingPower(v, now) > 0
    /\ t \in allowlist
    /\ proposals' = Append(proposals,
         [target |-> t, stage |-> "Discussion", snapshot |-> 0, voteEnd |-> 0,
          for |-> 0, against |-> 0, quorum |-> 0, executableFrom |-> 0])
    /\ UNCHANGED <<now, lockVars, snapshots, allowlist>>

\* The quorum is frozen here: a share of what is locked now.
AdvanceToSnapshot(caller, p) ==
    /\ proposals[p].stage = "Discussion"
    /\ caller # Admin => VotingPower(caller, now) > 0
    /\ now + VotingPeriod <= U32Max
    /\ proposals' = [proposals EXCEPT ![p] = [@ EXCEPT
         !.stage = "SnapshotVote",
         !.snapshot = now,
         !.voteEnd = now + VotingPeriod,
         !.for = 0,
         !.against = 0,
         !.quorum = (totalLocked * QuorumBps) \div 10000]]
    /\ UNCHANGED <<now, lockVars, snapshots, allowlist>>

\* Mutated: a vote counts with the power the voter has when casting it.
CastVote_CurrentPower(v, p, approve) ==
    LET power == VotingPower(v, now) IN
    /\ proposals[p].stage = "SnapshotVote"
    /\ now <= proposals[p].voteEnd
    /\ snapshots[p][v] = NoVote
    /\ power > 0
    /\ snapshots' = [snapshots EXCEPT ![p][v] = power]
    /\ proposals' = IF approve THEN [proposals EXCEPT ![p].for = @ + power]
                               ELSE [proposals EXCEPT ![p].against = @ + power]
    /\ UNCHANGED <<now, lockVars, allowlist>>

CastVote(v, p, approve) ==
    LET power == VotingPower(v, proposals[p].snapshot) IN
    /\ proposals[p].stage = "SnapshotVote"
    /\ now <= proposals[p].voteEnd
    /\ snapshots[p][v] = NoVote
    /\ power > 0
    /\ snapshots' = [snapshots EXCEPT ![p][v] = power]
    /\ proposals' = IF approve THEN [proposals EXCEPT ![p].for = @ + power]
                               ELSE [proposals EXCEPT ![p].against = @ + power]
    /\ UNCHANGED <<now, lockVars, allowlist>>

\* Mutated: the quorum is a share of what is locked when the vote ends.
Approved_LiveQuorum(p) ==
    /\ proposals[p].for + proposals[p].against >= (totalLocked * QuorumBps) \div 10000
    /\ proposals[p].for > proposals[p].against

Approved(p) ==
    /\ proposals[p].for + proposals[p].against >= proposals[p].quorum
    /\ proposals[p].for > proposals[p].against

\* Mutated: only an approved proposal can be finalised.
FinaliseVote_OnlyApproved(p) ==
    /\ proposals[p].stage = "SnapshotVote"
    /\ now > proposals[p].voteEnd
    /\ Approved(p)
    /\ now + Timelock <= U32Max
    /\ proposals' = [proposals EXCEPT ![p] =
         [@ EXCEPT !.stage = "Execution", !.executableFrom = now + Timelock]]
    /\ UNCHANGED <<now, lockVars, snapshots, allowlist>>

\* Anybody may finalise.  An approved proposal whose timelock does not fit in a
\* u32 cannot be finalised.
FinaliseVote(p) ==
    /\ proposals[p].stage = "SnapshotVote"
    /\ now > proposals[p].voteEnd
    /\ \/ /\ Approved(p)
          /\ now + Timelock <= U32Max
          /\ proposals' = [proposals EXCEPT ![p] =
               [@ EXCEPT !.stage = "Execution", !.executableFrom = now + Timelock]]
       \/ /\ ~Approved(p)
          /\ proposals' = [proposals EXCEPT ![p].stage = "Defeated"]
    /\ UNCHANGED <<now, lockVars, snapshots, allowlist>>

\* The target is invoked in between; when it panics, the call reverts.
ExecuteProposal(p) ==
    /\ proposals[p].stage = "Execution"
    /\ now >= proposals[p].executableFrom
    /\ proposals[p].target \in allowlist
    /\ proposals' = [proposals EXCEPT ![p].stage = "Executed"]
    /\ UNCHANGED <<now, lockVars, snapshots, allowlist>>

ProposalStep(p) ==
    \/ \E caller \in Voters \union {Admin} : AdvanceToSnapshot(caller, p)
    \/ \E v \in Voters, approve \in BOOLEAN : CastVote(v, p, approve)
    \/ FinaliseVote(p)
    \/ ExecuteProposal(p)

Next ==
    \/ CloseLedger /\ UNCHANGED govVars
    \/ \E v \in Voters : VoterStep(v) /\ UNCHANGED govVars
    \/ \E t \in Targets : AddAllowedTarget(t) \/ RemoveAllowedTarget(t)
    \/ \E v \in Voters, t \in Targets : CreateProposal(v, t)
    \/ \E p \in DOMAIN proposals : ProposalStep(p)

Spec == Init /\ [][Next]_vars

\* Ledgers keep closing and somebody finalises a vote that has ended.
FairSpec ==
    /\ Spec
    /\ WF_vars(CloseLedger /\ UNCHANGED govVars)
    /\ \A p \in 1 .. MaxProposals :
         WF_vars(p \in DOMAIN proposals /\ FinaliseVote(p))

-----------------------------------------------------------------------------
Voted(p, v) == snapshots[p][v] # NoVote

\* Whenever it was cast, a vote counts with exactly the power the voter had at
\* the snapshot ledger, and still has there: extending, withdrawing or moving
\* the tokens after the snapshot neither adds to it nor takes from it.
VotesAreSnapshotPower ==
    \A p \in DOMAIN proposals, v \in Voters :
        Voted(p, v) => snapshots[p][v] = VotingPower(v, proposals[p].snapshot)

\* The tallies are the recorded votes, each voter once.
TalliesMatchVotes ==
    \A p \in DOMAIN proposals :
        proposals[p].for + proposals[p].against =
            SumFunctionOnSet(snapshots[p], {v \in Voters : Voted(p, v)})

\* The sums the contract keeps are those of its records: the locked total, the
\* tokens it owns, what a quorum is a share of, and the tallies.
BooksBalance ==
    TypeOK /\ TotalMatchesLocks /\ Solvent /\ PowerWithinTotal /\ TalliesMatchVotes

\* A proposal that may be executed, or was, had the majority and the quorum of
\* its snapshot behind it, and its timelock started after its vote had ended.
ApprovalIsSound ==
    \A p \in DOMAIN proposals :
        LET q == proposals[p] IN
        q.stage \in {"Execution", "Executed"} =>
            /\ q.for > q.against
            /\ q.for + q.against >= q.quorum
            /\ q.executableFrom > q.voteEnd + Timelock

\* What a vote decides is decided: once it has started, its snapshot, deadline
\* and quorum stay, and once it has ended nothing but execution happens to it.
OutcomeIsFinal ==
    [][\A p \in DOMAIN proposals :
         LET q == proposals[p]  r == proposals'[p] IN
         /\ q.stage # "Discussion" =>
              /\ r.snapshot = q.snapshot
              /\ r.voteEnd = q.voteEnd
              /\ r.quorum = q.quorum
         /\ q.stage \in {"Execution", "Defeated", "Executed"} =>
              \/ r = q
              \/ q.stage = "Execution" /\ r = [q EXCEPT !.stage = "Executed"]]_vars

InStage(p, S) == p \in DOMAIN proposals /\ proposals[p].stage \in S

\* A vote comes to an end: whoever finalises it, and whether or not anybody
\* voted, nothing can keep a proposal in its voting stage for ever.
VotesConclude ==
    \A p \in 1 .. MaxProposals :
        (InStage(p, {"SnapshotVote"}) /\ proposals[p].voteEnd < LastLedger)
            ~> InStage(p, {"Execution", "Defeated", "Executed"})
=============================================================================
