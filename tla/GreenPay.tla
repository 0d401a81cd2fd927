------------------------------ MODULE GreenPay ------------------------------
(***************************************************************************)
(* contracts/greenpay-contract: donations, badges as tokens, the older     *)
(* project votes and the migration of the schema.  A call is one atomic    *)
(* step; one that panics changes nothing.                                  *)
(*                                                                         *)
(* Badges issued before the token registry existed are markers only, and   *)
(* become tokens the first time somebody asks for them.                    *)
(*                                                                         *)
(* Amounts are in units of which the tiers are multiples.  Not modelled:   *)
(* attestations, the move of entries from instance to persistent storage,  *)
(* the lifetime of entries, verify_project and upgrade (neither changes    *)
(* anything that is modelled here), and the admin, who may call anything.  *)
(***************************************************************************)
EXTENDS Integers, Sequences, FiniteSetsExt, Functions

CONSTANTS
    Donors,
    Projects,
    First,          \* the project registered from the start
    Before,         \* what each donor gave to it before badges were tokens
    Amounts,        \* bound: amounts donated
    Thresholds,     \* of the four tiers
    I128Max,        \* checked additions fail beyond it
    LastToken,      \* the last token id, u32::MAX
    LastLedger,     \* bound: the last ledger
    Windows,        \* bound: voting periods, in ledgers
    MaxProposals,   \* bound: number of proposals
    LastVersion     \* bound: version of the schema

Tiers == 1 .. 4
Tree == 2

ASSUME GreenPayAssumption ==
    /\ First \in Projects /\ IsFiniteSet(Donors) /\ Before \in [Donors -> Nat]
    /\ Amounts \subseteq Nat \ {0} /\ Windows \subseteq Nat \ {0}
    /\ Thresholds \in [Tiers -> Nat \ {0}] /\ \A t \in 1 .. 3 : Thresholds[t] < Thresholds[t + 1]
    /\ I128Max \in Nat /\ LastToken \in Nat /\ LastLedger \in Nat /\ LastVersion \in Nat \ {0} /\ MaxProposals \in Nat

VARIABLES
    projects,   \* of each project: registered, active, raised, donor_count
    stats,      \* of each donor: total_donated, donation_count, badge
    donated,    \* HasDonated
    totals,     \* GlobalTotalRaised, DonationCount, ProjectCount
    nft,        \* the registry of badges
    proposals,
    voted,      \* HasVoted
    dao,        \* a DAO contract is registered
    ledger,
    schema      \* Version and MigrationState

vars == <<projects, stats, donated, totals, nft, proposals, voted, dao, ledger, schema>>

\* calculate_badge: 0 below the first threshold.
Badge(total) == Cardinality({t \in Tiers : Thresholds[t] <= total})

Token == [owner: Donors, tier: Tiers, first: Donors]
Registry == [tokens: Seq(Token), owned: [Donors -> SUBSET Nat], markers: SUBSET (Donors \X Tiers),
             sent: SUBSET (Donors \X Tiers)]
Project == [registered: BOOLEAN, active: BOOLEAN, raised: Nat, donors: Nat]
Stats == [total: Nat, count: Nat, badge: 0 .. 4]
Proposal == [state: {"none", "open", "resolved"}, for: Nat, against: Nat, deadline: Nat]
Schema == [version: Nat, target: Nat, cursor: Nat, items: Nat, state: {"none", "pending", "completed"}]

TypeOK ==
    /\ projects \in [Projects -> Project]
    /\ stats \in [Donors -> Stats]
    /\ donated \subseteq Projects \X Donors
    /\ totals \in [raised: Nat, donations: Nat, projects: Nat]
    /\ nft \in Registry
    /\ proposals \in [Projects -> Proposal]
    /\ voted \subseteq Projects \X Donors
    /\ dao \in BOOLEAN
    /\ ledger \in 0 .. LastLedger
    /\ schema \in Schema

Givers == {d \in Donors : Before[d] > 0}
Given == SumFunctionOnSet(Before, Donors)
Legacy == {<<d, Badge(Before[d])>> : d \in {e \in Donors : Badge(Before[e]) > 0}}

\* initialize, and the history of a contract that is already in use.
Init ==
    /\ projects = [p \in Projects |->
           IF p = First THEN [registered |-> TRUE, active |-> TRUE, raised |-> Given, donors |-> Cardinality(Givers)]
           ELSE [registered |-> FALSE, active |-> FALSE, raised |-> 0, donors |-> 0]]
    /\ stats = [d \in Donors |-> [total |-> Before[d], count |-> IF Before[d] > 0 THEN 1 ELSE 0,
                                  badge |-> Badge(Before[d])]]
    /\ donated = {First} \X Givers
    /\ totals = [raised |-> Given, donations |-> Cardinality(Givers), projects |-> 1]
    /\ nft = [tokens |-> <<>>, owned |-> [d \in Donors |-> {}], markers |-> Legacy, sent |-> {}]
    /\ proposals = [p \in Projects |-> [state |-> "none", for |-> 0, against |-> 0, deadline |-> 0]]
    /\ voted = {}
    /\ dao = FALSE
    /\ ledger = 0
    /\ schema = [version |-> 1, target |-> 1, cursor |-> 0, items |-> 0, state |-> "none"]

-----------------------------------------------------------------------------
(* The registry of badges *)

Holds(reg, d, t) == \E id \in reg.owned[d] : reg.tokens[id].tier = t

MintBadgeToken(reg, d, t) ==
    [tokens |-> Append(reg.tokens, [owner |-> d, tier |-> t, first |-> d]),
     owned |-> [reg.owned EXCEPT ![d] = @ \union {Len(reg.tokens) + 1}],
     markers |-> reg.markers \union {<<d, t>>}, sent |-> reg.sent]

\* A badge that is only a marker becomes a token when it is looked for.
FindTokenId(reg, d, t) ==
    IF ~Holds(reg, d, t) /\ <<d, t>> \in reg.markers THEN MintBadgeToken(reg, d, t) ELSE reg

BackfillLegacyBadges(reg, d) ==
    FindTokenId(FindTokenId(FindTokenId(FindTokenId(reg, d, 1), d, 2), d, 3), d, 4)

\* The id of a token is a checked addition too.
Registers(reg) == Len(reg.tokens) <= LastToken /\ nft' = reg

\* Mutated: the recipient's own badges are not looked up first.
Received_Blind(reg, to) == reg
Received(reg, to) == BackfillLegacyBadges(reg, to)

\* transfer: the marker follows the token.
Transfer(from, to, id) ==
    LET reg == Received(nft, to)  t == reg.tokens[id].tier IN
    /\ from # to
    /\ id \in DOMAIN nft.tokens /\ nft.tokens[id].owner = from
    /\ Registers([tokens |-> [reg.tokens EXCEPT ![id].owner = to],
                  owned |-> [reg.owned EXCEPT ![from] = @ \ {id}, ![to] = @ \union {id}],
                  markers |-> (reg.markers \ {<<from, t>>}) \union {<<to, t>>},
                  sent |-> reg.sent \union {<<from, t>>}])
    /\ UNCHANGED <<projects, stats, donated, totals, proposals, voted, dao, ledger, schema>>

\* balance_of and tokens_of, has_nft and get_token_id: reading may mint.
Balance(d) ==
    /\ Registers(BackfillLegacyBadges(nft, d))
    /\ UNCHANGED <<projects, stats, donated, totals, proposals, voted, dao, ledger, schema>>

HasNft(d, t) ==
    /\ Registers(FindTokenId(nft, d, t))
    /\ UNCHANGED <<projects, stats, donated, totals, proposals, voted, dao, ledger, schema>>

\* Mutated: a second token of a tier is not refused.
MintImpactNft_Again(d) ==
    LET t == stats[d].badge IN
    /\ t > 0
    /\ Registers(MintBadgeToken(nft, d, t))
    /\ UNCHANGED <<projects, stats, donated, totals, proposals, voted, dao, ledger, schema>>

\* A badge of the current tier that the donor holds, or has as a marker, is
\* refused; one that was given away is minted again.
MintImpactNft(d) ==
    LET t == stats[d].badge IN
    /\ t > 0
    /\ ~Holds(nft, d, t) /\ <<d, t>> \notin nft.markers
    /\ Registers(MintBadgeToken(nft, d, t))
    /\ UNCHANGED <<projects, stats, donated, totals, proposals, voted, dao, ledger, schema>>

-----------------------------------------------------------------------------
(* Projects and donations *)

RegisterProject(p) ==
    /\ ~projects[p].registered
    /\ projects' = [projects EXCEPT ![p] = [registered |-> TRUE, active |-> TRUE, raised |-> 0, donors |-> 0]]
    /\ totals' = [totals EXCEPT !.projects = @ + 1]
    /\ UNCHANGED <<stats, donated, nft, proposals, voted, dao, ledger, schema>>

DeactivateProject(p) ==
    /\ projects[p].registered
    /\ projects' = [projects EXCEPT ![p].active = FALSE]
    /\ UNCHANGED <<stats, donated, totals, nft, proposals, voted, dao, ledger, schema>>

\* Mutated: every donation counts a donor.
CountsDonor_Always(p, d) == 1
CountsDonor(p, d) == IF <<p, d>> \in donated THEN 0 ELSE 1

\* The total of the contract is the largest of the four sums that are checked.
\* The badge of a tier just reached is minted unless the donor holds one;
\* looking for it turns a marker into a token, which comes to the same.
Donate(d, p, amount) ==
    LET badge == Badge(stats[d].total + amount) IN
    /\ projects[p].active
    /\ totals.raised + amount <= I128Max
    /\ projects' = [projects EXCEPT ![p].raised = @ + amount, ![p].donors = @ + CountsDonor(p, d)]
    /\ donated' = donated \union {<<p, d>>}
    /\ stats' = [stats EXCEPT ![d] = [total |-> @.total + amount, count |-> @.count + 1, badge |-> badge]]
    /\ Registers(IF badge > 0 /\ badge # stats[d].badge /\ ~Holds(nft, d, badge)
                 THEN MintBadgeToken(nft, d, badge) ELSE nft)
    /\ totals' = [totals EXCEPT !.raised = @ + amount, !.donations = @ + 1]
    /\ UNCHANGED <<proposals, voted, dao, ledger, schema>>

-----------------------------------------------------------------------------
(* The votes of badge holders, until a DAO is registered *)

SetDaoContract ==
    /\ dao' \in BOOLEAN
    /\ UNCHANGED <<projects, stats, donated, totals, nft, proposals, voted, ledger, schema>>

CreateProposal(p, window) ==
    /\ ~dao /\ projects[p].registered /\ proposals[p].state = "none"
    /\ Cardinality({q \in Projects : proposals[q].state # "none"}) < MaxProposals
    /\ proposals' = [proposals EXCEPT ![p] = [state |-> "open", for |-> 0, against |-> 0,
                                              deadline |-> ledger + window]]
    /\ UNCHANGED <<projects, stats, donated, totals, nft, voted, dao, ledger, schema>>

\* vote_weight_for_donor
Weight(d) == IF stats[d].total < Thresholds[Tree] THEN 0 ELSE stats[d].total

MayVote(p, d) == <<p, d>> \notin voted

VoteVerifyProject(d, p, approve) ==
    /\ ~dao /\ Weight(d) > 0
    /\ proposals[p].state = "open" /\ ledger <= proposals[p].deadline
    /\ MayVote(p, d)
    /\ voted' = voted \union {<<p, d>>}
    /\ proposals' = IF approve THEN [proposals EXCEPT ![p].for = @ + Weight(d)]
                               ELSE [proposals EXCEPT ![p].against = @ + Weight(d)]
    /\ UNCHANGED <<projects, stats, donated, totals, nft, dao, ledger, schema>>

\* Votes cast before a DAO was registered are still settled.
ResolveProposal(p) ==
    /\ proposals[p].state = "open" /\ ledger > proposals[p].deadline
    /\ proposals[p].for + proposals[p].against >= Thresholds[Tree]
    /\ proposals' = [proposals EXCEPT ![p].state = "resolved"]
    /\ UNCHANGED <<projects, stats, donated, totals, nft, voted, dao, ledger, schema>>

CloseLedger ==
    /\ ledger < LastLedger
    /\ ledger' = ledger + 1
    /\ UNCHANGED <<projects, stats, donated, totals, nft, proposals, voted, dao, schema>>

-----------------------------------------------------------------------------
(* The migration of the schema, the same in the three contracts *)

\* Mutated: the version moves when the migration starts.
Migrated_Early(s, batch) ==
    LET cursor == Min({s.cursor + Max({batch, 1}), s.items}) IN
    [s EXCEPT !.cursor = cursor, !.state = IF cursor = s.items THEN "completed" ELSE @, !.version = s.target]

\* execute_migration_batch
Migrated(s, batch) ==
    LET cursor == Min({s.cursor + Max({batch, 1}), s.items}) IN
    [s EXCEPT !.cursor = cursor,
              !.state = IF cursor = s.items THEN "completed" ELSE @,
              !.version = IF cursor = s.items THEN s.target ELSE @]

\* A migration under way is replaced by the one that starts.
UpgradeAndMigrate(version, batch) ==
    /\ version > schema.version
    /\ schema' = Migrated([version |-> schema.version, target |-> version, cursor |-> 0,
                           items |-> totals.projects, state |-> "pending"], batch)
    /\ UNCHANGED <<projects, stats, donated, totals, nft, proposals, voted, dao, ledger>>

MigrateSchema(batch) ==
    /\ schema.state = "pending"
    /\ schema' = Migrated(schema, batch)
    /\ UNCHANGED <<projects, stats, donated, totals, nft, proposals, voted, dao, ledger>>

Next ==
    \/ \E d, e \in Donors, id \in DOMAIN nft.tokens : Transfer(d, e, id)
    \/ \E d \in Donors :
         \/ Balance(d) \/ MintImpactNft(d)
         \/ \E t \in Tiers : HasNft(d, t)
         \/ \E p \in Projects, amount \in Amounts : Donate(d, p, amount)
         \/ \E p \in Projects, approve \in BOOLEAN : VoteVerifyProject(d, p, approve)
    \/ \E p \in Projects :
         \/ RegisterProject(p) \/ DeactivateProject(p) \/ ResolveProposal(p)
         \/ \E window \in Windows : CreateProposal(p, window)
    \/ SetDaoContract \/ CloseLedger
    \/ \E batch \in 0 .. 1 : MigrateSchema(batch) \/ \E v \in 2 .. LastVersion : UpgradeAndMigrate(v, batch)

Spec == Init /\ [][Next]_vars

-----------------------------------------------------------------------------
(* Properties *)

Registered == {p \in Projects : projects[p].registered}
DonorsOf(p) == {d \in Donors : <<p, d>> \in donated}
Raised == [p \in Projects |-> projects[p].raised]
Donated == [d \in Donors |-> stats[d].total]
Donations == [d \in Donors |-> stats[d].count]

\* What the contract, its projects and its donors say was given is the same
\* sum, and every project counts each of its donors once.
BooksAgree ==
    /\ totals.projects = Cardinality(Registered)
    /\ totals.raised = SumFunctionOnSet(Raised, Registered)
    /\ totals.raised = SumFunctionOnSet(Donated, Donors)
    /\ totals.donations = SumFunctionOnSet(Donations, Donors)
    /\ \A p \in Projects : projects[p].donors = Cardinality(DonorsOf(p))

\* The index of a holder lists exactly the tokens it owns.
IndexIsOwnership ==
    \A d \in Donors :
        nft.owned[d] = {id \in DOMAIN nft.tokens : nft.tokens[id].owner = d}

\* A badge from before the registry is a marker that its donor can still claim,
\* or one that has become a token: never both, so that it does not become two,
\* and never neither.  No other marker is left to be claimed.
Unclaimed(reg) == {m \in reg.markers : ~Holds(reg, m[1], m[2])}
MintedFor(reg, m) == \E id \in DOMAIN reg.tokens : reg.tokens[id].first = m[1] /\ reg.tokens[id].tier = m[2]
LegacyBadgeIsOneToken ==
    /\ Unclaimed(nft) \subseteq Legacy
    /\ \A m \in Legacy : m \in Unclaimed(nft) <=> ~MintedFor(nft, m)

\* No badge is lost, doubled or listed with the wrong holder on its way from a
\* marker to a token and from one holder to the next.
BadgesAreKept == IndexIsOwnership /\ LegacyBadgeIsOneToken

\* A donor gets a second token of a tier only after giving one away.
SecondBadgeAfterTransfer ==
    \A d \in Donors, t \in Tiers :
        Cardinality({id \in DOMAIN nft.tokens : nft.tokens[id].first = d /\ nft.tokens[id].tier = t}) > 1
            => <<d, t>> \in nft.sent

VotersOn(p) == {d \in Donors : <<p, d>> \in voted}

\* The votes on a project weigh no more than its voters have given, and no
\* less than the threshold each of them had to reach.
VotesAreDonations ==
    \A p \in Projects :
        LET votes == proposals[p].for + proposals[p].against IN
        /\ votes <= SumFunctionOnSet(Donated, VotersOn(p))
        /\ votes >= Thresholds[Tree] * Cardinality(VotersOn(p))

\* What is counted more than once, in whatever order, is the same everywhere.
SumsAgree == TypeOK /\ BooksAgree /\ VotesAreDonations

\* The version moves up only, to that of a migration which has gone through
\* all the projects there were when it started.
VersionIsMigrated ==
    [][schema'.version # schema.version =>
           /\ schema'.version > schema.version
           /\ schema'.state = "completed" /\ schema'.cursor = schema'.items]_vars
=============================================================================
