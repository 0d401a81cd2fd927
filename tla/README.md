# GreenPay in TLA+

GreenPay collects donations to climate projects on the Stellar network. This
directory holds TLA+ specifications of the parts of it that move money, count it,
judge it or report it, configurations that check them with TLC on small instances,
and proofs of their main properties for instances of any size, checked by TLAPS.

1. [The system](#the-system)
2. [What is specified](#what-is-specified)
3. [The contracts](#the-contracts)
4. [The backend](#the-backend)
5. [The clients](#the-clients)
6. [The runs](#the-runs)
7. [What the runs found](#what-the-runs-found)
8. [Fairness](#fairness)
9. [What is proved](#what-is-proved)
10. [Not modelled](#not-modelled)

Run everything inside this directory:

    tlc -config MCEscrow.cfg MCEscrow        one run of the table below
    tlapm CustodyProofs.tla                  the proofs of one module

## The system

**Contracts** (Rust, Soroban, `contracts/`). A call is atomic: it runs to its end
or a panic reverts it. What is hard here is the order of calls, by different
accounts and across ledgers.

| component | state | operations | correct when |
|---|---|---|---|
| escrow | jobs, admin, token allowlist, the tokens it holds | create, release, release in part, dispute, resolve, resolve a stale dispute, cancel | every deposit is paid out exactly once, to the parties of its job, and no dispute lasts for ever |
| DAO governance | locks, lock checkpoints, locked total, proposals, votes, allowlist | lock, extend, withdraw; propose, take the snapshot, vote, finalise, execute | power at a past ledger never changes, no token votes twice, a decision had its majority and quorum and is final, locks can be paid back |
| GreenPay | donors, projects, badges and their tokens, attestations, votes | donate, mint, look up and transfer badges, attest, vote on a project | totals equal the donations, a badge is neither lost nor doubled on its way from a marker to a token |
| upgrade and migration | schema version, migration cursor | upgrade, migrate a batch; the same code in all three | the version moves when everything was migrated |

**Backend** (Node, PostgreSQL, `backend/src/`), two or more pods (helm's
`minReplicas` is 2). What is hard is everything between two `await`s.

| component | state | operations | correct when |
|---|---|---|---|
| donation commands | `event_stream` with its unique indexes, `projects`, `match_state` | RecordDonation from the API and the indexers, ApplyMatch | a transaction is recorded once, every report of it gets a fitting answer, a match goes with its donation |
| event dispatch, projections | `processed`, `attempts`, `dead_lettered`, read models | fetch a batch, dispatch, retry, dead-letter, mark | every event ends in every total, or in the dead letters |
| indexers | cursors, watched wallets | poll Horizon and Soroban, hand over payments | no payment is skipped |
| sponsorship | one row per request, the sponsor's account | request, co-sign, submit, abandon, sweep, reclaim | reserved capacity is what is on the ledger or in flight |
| turrets matching | `donation_matches`, processed matches | pay a match and record it | one match per payment, within the cap |
| realtime feed | Redis stream, a local buffer per pod, a cursor per client | record, emit, trim, replay from a cursor | a client misses nothing without being told |
| donation integrity | queue, assessments, appeals, the enforcement switch | assess, rescore, decide, appeal, hear, enforce | a reviewer's decision stands, an exclusion follows it, everything is assessed |
| project updates | the update, its revisions, appeals, reports; a row per recipient and channel | edit, moderate, appeal, report; claim recipients, queue jobs, mark a channel | subscribers are sent what a moderator published, once, and a correction if it is removed |
| throttling, summary jobs, caches, shutdown | per process | | |

**Clients**: the web front end, a browser extension, and a mobile app with an
offline queue of donations, which a donate screen and a synchronisation work on.
No donation may be paid twice or forgotten there. **Scheduler** (Go, `scheduler/`): filter, score and
preemption plugins for GPU workloads.

How they interact: a client pays on Stellar and reports the transaction to the
API; both indexers see the same payment and report it as well. All three append to
`event_stream` through the same command, and the unique index on the transaction
hash decides who was first. Schedulers in every pod then read unprocessed events
and update the read models; commands in turn read `match_state`, which is one of
those, so they decide on a state that lags behind. A recorded donation is queued for
the integrity detector and published on the realtime feed, and the turrets service
matches it on the ledger. The contracts do not call each
other, except that the DAO invokes the target of an executed proposal.

`PROJECT.json` lists every component with its status, and the hazards of the code,
each at its line.

## What is specified

| module | models | lines of the source |
|---|---|---|
| `EscrowCustody` | what the escrow contract promises about money | abstract |
| `Escrow` | the escrow contract | `contracts/escrow-contract/src/lib.rs` |
| `VoteLocks` | locks, checkpoints and voting power | `contracts/dao-governance-contract/src/lib.rs` |
| `DaoGovernance` | proposals and votes; extends `VoteLocks` with the same state | the same file |
| `GreenPay` | donations, badges, project votes; `upgrade_and_migrate` and `migrate_schema` | `contracts/greenpay-contract/src/lib.rs` |
| `EventDelivery` | what the event store promises its commands | abstract |
| `EventPipeline` | batches, projections, retries, dead letters, pods | `backend/src/eventSourcing/eventStore.js`, `projections.js` |
| `DonationCommands` | concurrent reports of donations, matches | `commandBus.js`, `aggregates.js`, `services/indexerService.js`, `services/sorobanEventIndexer.js` |
| `Sponsorship` | sponsored account creation and its reserve | `services/onboarding/sponsoredAccounts.js` |
| `TurretsMatching` | matching payments on the ledger | `services/turrets.js` |
| `RealtimeFeed` | the live feed and the recovery of what was missed | `backend/src/realtime/`, `frontend/hooks/useDonationSocket.ts` |
| `DonationIntegrity` | the review of suspicious donations | `services/donationIntegrity.js`, `routes/integrity.js` |
| `ProjectUpdates` | moderation of an update and the messages about it | `routes/updates.js`, `services/updateNotifications.js`, `email.js`, `push.js` |
| `OfflineQueue` | the donation queue of the mobile app | `mobile/app/donate/[id].tsx`, `hooks/useDonationSync.ts`, `utils/donationQueue.ts` |
| `MC...` | constants of the runs | |
| `CustodyProofs` | theorems about `Escrow` and `Sponsorship` | |
| `DaoProofs` | theorems about `VoteLocks` and `DaoGovernance` | |
| `GreenPayProofs` | theorems about `GreenPay` | |
| `EventPipelineProofs` | theorems about `EventPipeline` and that it implements `EventDelivery` | |
| `DonationProofs` | theorems about `DonationCommands`, `DonationIntegrity` and `TurretsMatching` | |
| `UpdatesProofs` | theorems about `ProjectUpdates` | |
| `ClientProofs` | theorems about `RealtimeFeed` and `OfflineQueue` | |
| `Sums` | facts about sums over finite sets, for the proofs | |

An operator with a suffix after an underscore, introduced by a comment that
begins with "Mutated", is the definition after it with a plausible bug. Such
operators are used by nothing; replacing the definition by one shows that a
property is able to fail.

Some properties are conjunctions of named parts, so that a run checks one name:

| property | parts |
|---|---|
| `BooksBalance` | `TypeOK`, `TotalMatchesLocks`, `Solvent`, `PowerWithinTotal`, `TalliesMatchVotes` |
| `NothingGoesUnnoticed` | `DonorTotalsComplete`, `DeadLettersAreFiled` |
| `RowsFollowLedger` | `SponsorshipTypes`, `ReserveIsTracked`, `ActiveIsCreated`, `WithinLimits` |
| `BooksMatchLedger` | `TurretsTypes`, `RecordedIsPaid`, `PaidIsRecorded`, `CounterIsSum` |
| `FeedIsSound` | `FeedTypes`, `NoOtherGap` |
| `SumsAgree`, `BadgesAreKept` | `TypeOK`, `BooksAgree`, `VotesAreDonations`; `IndexIsOwnership`, `LegacyBadgeIsOneToken` |
| `NothingIsLost` | `TypeOK`, `HashIsKept`, `NothingIsDropped` |
| `AppealsAreHeard` | `AppealIsHeard`, `AppealIsIndependent` |
| `ModerationIsSound` | `TypeOK`, `AppealIsPending`, `ReportsAreSettled`, `ShownIsKept`, `OnlyApprovedIsSent` |

Where the code has a flaw that a sound property would trip over, the property
names it: a *history* variable records that the harmful order of steps took place, or what it
left behind, and the property says that nothing else leads to the harm. `PaidTwiceByOverlapOnly`
is of this kind. Such variables are written by actions and read by properties only.

## The contracts

A contract call is one action, and each of its panics is a guard. Time is the
ledger sequence number, which `CloseLedger` advances; any number of calls fit in a
ledger. Token contracts are external: a transfer needs the balance, and a payee can
become unable to receive a token (`blocked`, toggled by `SetBlocked`).

**Escrow.** `jobs` is the storage, `held` and `wallet` are token balances, `paid`
is a history of what left the contract for whom. One action per entry point:
`Initialize`, `AllowToken`, `RemoveToken`, `CreateJob`, `ReleaseEscrow`,
`ReleasePartial`, `Dispute`, `ResolveDispute`, `ResolveStaleDispute`, `CancelJob`.
All payments share `Transfer`. Deadlines are compared as in the code: a job can be
cancelled, and a dispute settled by the fallback, strictly after its ledger.
`EscrowCustody` sees a job as a pot that is filled once, emptied to two parties and
closed when empty.

**Locks and votes.** `checkpoints[v]` is the list `write_lock_checkpoint` appends
to; `VotingPower` scans it as `get_voting_power` does. A lock counts from the
ledger it is made in and an extension from the next one. Amounts are integers
without bound, as i128 is never near its limit with the token's supply; ledger
numbers are bounded by `U32Max`, and the `checked_add`s are guards.
`DaoGovernance` adds proposals. Its configuration is constant: `set_config`
requires the authorisation of the contract itself, and no function of the contract
calls it, so it cannot be executed.

**GreenPay.** `stats`, `projects` and `totals` are what `donate` updates in one call;
`nft` is the registry of badges, in which a badge from before the registry is a
marker until a transfer, a read, a mint or a donation turns it into a token
(`BackfillLegacyBadges`). Tiers are multiples of a unit, and
additions are checked against `I128Max`, token ids against `LastToken`.
`UpgradeAndMigrate` and `MigrateSchema` are the migration code that the three
contracts share; its batch walks over the projects there were when it started.

Not specified: events the contracts publish, the lifetime of storage entries,
impact attestations, and `upgrade` itself, which replaces the code of a contract.

## The backend

**Dispatch.** A pod's scheduler takes the oldest unprocessed events without
claiming them, hands them one after another to their projections, and marks the
batch at its end. A projection is a list of SQL statements (`Statements`), each of
which is a step, so that a pod can be stopped, a statement can fail and another pod
can work between any two. `failed` is the branch of `processBatch` after an
exception: `RecordAttempt`, or for the last attempt `DeadLetter` with its two
fallbacks, and `NoClient` for the `connect` outside its `try`. The batch size
doubles and halves as in `recordBatchOutcome`.

A total is represented by how often each event has gone into it (`raised`,
`donorTotal`, `matched`), which is finer than a sum of amounts. `upsertDonorStats`
reads the donor's total in one step and writes it in another.

**Commands.** Every report of a donation is a process in `reqs`. Those from the API
execute `Precheck`, `ReadProject`, `StoreProject`, `InsertApi` and `FindWinner` on
the pool; those from an indexer (`Indexed`) execute the same statements in a
transaction that also applies a match and ends in `Commit` or `Releases`.
PostgreSQL is modelled by what the code relies on: committed reads, a row lock held
from an update to the end of the transaction, an insert that waits for an
uncommitted one with the same key, and a transaction that is of no use after an
error. `Stop` is a pod that stops, after which the report is made again. The Soroban poller
hands over its events in order (`ItsTurn`) and again until they succeed (`Retry`);
those it cannot decode (`DecodeFails`) and those whose project has no row
(`ReadProject`) are in `Refused`.
The module has one offer worth `Cap` donations of one unit. `MatchRow` says whether
the offer has a row in `match_state`; those created through the API have none.

Left out of both: validation and formatting, statistics for logging, the
milestone events (one absolute write, like the completion of a job), and the
commands that no route executes (ChangeProjectStatus, ReachMilestone,
ReleaseEscrow, CreateMatchOffer).

**Sponsorship.** A call of `requestSponsorship`, `submitSponsorship` or
`reclaimSponsorship` is a process whose awaited calls are steps: look at the ledger,
insert the row under the advisory lock, build and store the offer; read the row,
mark it submitted, `Send`, record the outcome; look up, load, `Revoke`, record.
`Abandon` and `Sweep` are single updates between them. The UPDATEs
of the code name a row and not the state it must be in, and so do the actions. The
ledger is external: the sponsor's sequence number orders what it has signed, a
transaction applies once, and one that Horizon did not answer for may still apply
(`limbo`, `AppliesLate`). The offer a donor gets carries the sponsor's signature, so he
can submit it to the ledger himself, whatever has become of the row
(`DonorSubmits`); `direct` remembers whose was applied that way. The limits per session, address and day are one number.

**Turrets matching.** A delivery reads the open offers and the processed matches,
then for every offer loads the matcher's account, pays (`Pay`, `PayRefused`,
`PayUnanswered`) and records match and counter in one transaction (`RecordMatch`).
`CutOff` is a call that ends anywhere. A payment with a sequence number
that is gone is refused, and the same transaction again is answered with success.

**Realtime feed.** `AppendEvent` records an event in the shared stream, which trims it to
`Retained`, or, if that fails, in the pod's own buffer; `Emit` sends it with its
cursor to the connected clients, in any order. A client that reconnects asks any
pod for what follows its cursor (`Replay`, at most `Batch` events) and applies the
answer as `useDonationSocket` does. Redis is deployed without persistence
(`k8s/redis.yaml`), so it comes back with or without its stream (`RedisRecovers`). `seen`, `told`, `base` and `excused` are the client's
view; each place where the code may lose an event without a word adds it to
`excused`, and `NoOtherGap` says there is no other.

**Donation integrity.** `ProcessQueue` assesses a donation in a transaction that holds
its row. A rescore executes the same statements on the pool, as three steps
(`SelectCandidate`, `ReadCase`, `WriteCase`). A decision is one step; the decision
on an appeal is two (`HearAppeal`, `DecideAppeal`), because the enforcement setting
is read without a lock. The score is left open, as is whether it reaches the
boundary of a review.

**Project updates.** The decisions, edits and appeals of `routes/updates.js` are one
step each, as each is a transaction that holds the row of the update. Each dispatch
that follows one is a process: it reads which channels to serve, selects a chunk of
recipients, claims them, sends one job per chunk to pg-boss, releases them if that
fails, and marks the channel. The claim is an insert or update that ignores
conflicts (`Claimable`). A report is inserted by another statement than the one that
checks it (`CheckReport`, `InsertReport`).

## The clients

**Offline queue.** A visit is a donate screen, `queue` the list on the device. The
steps of a visit are the calls `handleDonate` awaits: pay, stamp the hash into the
entry, confirm with the backend, remove the entry, or put it (back) into the queue.
A second tap, before the first has locked the button, makes a second call on the same
screen, and that is a visit of its own (`TapAgain`). `listQueuedDonations` answers a
read that failed with an empty list (`Reads`), which the mutation at hand then saves
(`Saves`, `Wiped`); writes fail in `Unsaved` and `PreflightUnsaved`. What the backend refuses for
good, a project that is not there or an amount above the cap of a sponsored account,
is `Barred`.
A pass of `syncNow` decides every entry by the list it read first (`SyncNow`,
`PreflightCheck`). On the screen of conflicts the user removes an entry or edits its
amount. `Stop` closes the app at any point. A *wish* is a donation the user means to make
once; that is what `PaidTwiceHasCause` counts by. The live feed's client half is part
of `RealtimeFeed`.

## The runs

| run | instance | what it shows |
|---|---|---|
| `escrow` | two jobs, two accounts with 2 tokens, one token contract, 3 ledgers, timeout of 1; one account may be blocked | custody, freeze and deadline of disputes, refinement of `EscrowCustody`, and that disputes end |
| `dao` | two voters with 1 token, locks of 1 or 2 ledgers, 4 ledgers, one proposal, one target, full quorum | the locked total is the sum of the locks, the contract holds it and what overwritten locks left behind, power is bounded by the total and by the supply, the past does not change; snapshot power, tallies, sound approval, votes end |
| `pipeline_faults` | one pod, four events of one donor (match, poisoned donation, donation, job release), 3 attempts, batches of 1 or 2, 2 faults | complete donor totals, dead letters, refinement of `EventDelivery` with liveness |
| `pipeline_pods` | two pods, three events, 2 attempts, 1 fault | bounds of over- and undercounting with concurrent dispatch |
| `donations` | a client, the Horizon and the Soroban indexer; three reports of one transaction, one of them with other details; two more events of the poller, the last of which is refused for good; one stop, one status change | answers fit together, matches follow donations, nobody waits for ever, the contract's donations get through unless a refused one is ahead |
| `sponsorship` | two requests for one or two addresses, one slot of capacity, one submission of each and by the donor himself, one reclaim, one fault | rows follow the ledger and the limits, a reclaimed reserve was returned, rows settle |
| `turrets` | two payments, one delivered twice, two offers of one matcher, one fault | records, counters and ledger agree; the causes of a double payment and of an exceeded cap |
| `realtime` | two pods, one client, four events, a stream and an answer of two, one fault, among them a restart of Redis | every unannounced gap has a named cause |
| `greenpay` | two donors, one with an older badge, two projects, amounts of 1 and 2, 3 ledgers, versions up to 3 | sums agree, no badge is lost or doubled, the version moves with completed migrations |
| `offline` | two wishes of the same amount, one of them barred, two screens or taps, one hook, two entries, two payments, one fault | nothing is forgotten, causes of a double payment and of a wrong record, every entry is checked by passes that are started and come through |
| `integrity` | one donation, two reviewers, two pods, two appeals | decisions stand, exclusions follow them, appeals are heard by another, everything is assessed |
| `updates` | one update with two revisions, two administrators, one reporter, two dispatches, three recipients in chunks of one, one fault | only published revisions are sent, once; channels, recipients and corrections agree |

Why the bounds are enough for the questions asked:

- `escrow`: two jobs on one token are what it takes to pay one from the other's
  money; two tokens allow an odd remainder, a partial release and a split with an
  empty share; three ledgers reach every deadline and the one after it, including
  a dispute whose timeout no longer fits.
- `dao`: four ledgers let a lock expire, be replaced without withdrawal, be
  extended after it expired, and a token be moved and locked again by the other
  voter, and let one proposal pass all its stages with any of these in between.
  Proposals share nothing but the locks.
- `pipeline_faults`: the events of a batch meet in the same rows; the poisoned one
  is given up while others are pending; two faults are enough to fail a dispatch
  and then the bookkeeping about it. It has one pod: that several keep the safety of
  `EventDelivery` is proved (`PipelineImplementsDelivery`), its liveness with
  several is not checked.
- `donations`: three reports of one transaction let one win, one lose the insert
  and one arrive later; the second transaction contends for the row lock and the
  offer, and waits behind the first in the poller; the third is never recorded.
- `sponsorship`: one slot for two requests is the least over which they compete; their
  submissions race for the sponsor's sequence number, and each with its donor. Two
  submissions of one row are left to the proof, which has any number of them. One fault is a timeout, a
  stop, or an error of the look-up, each of which is enough to lose track of a row.
- `turrets`: two deliveries of one payment can overlap or follow each other; the
  first offer has room for one of the payments only; one matcher serialises both
  offers by its sequence number.
- `realtime`: four events against a stream and an answer of two let a cursor be
  trimmed, an answer be cut short, and both happen to one client.
- `greenpay`: a second badge of one tier needs two donors to hand one over, and the
  third token would exceed `LastToken`; two versions are one migration that is
  replaced while it is pending and one that completes.
- `offline`: two wishes of the same amount are what makes one entry look like the
  duplicate of another; two screens, or two taps, can work on one entry. With two hooks the same
  safety properties were checked without the liveness property, on fewer visits.
- `integrity`: cases share the enforcement setting and nothing else; two pods can
  rescore one case around two decisions and an appeal.
- `updates`: two recipients of one channel and chunks of one make a dispatch return to
  the queue, so that another can pass between two chunks; two dispatches are an
  approval and a removal, two approvals, or an approval and its retry.

Bounds of the models that the code does not have are `LastLedger`, `MaxProposals`,
`MaxFaults`, `MaxStops`, `MaxChanges`, `LastVersion`, `Amounts`, `Windows`,
`Events`, `MaxEntries`, `MaxPayments`, `Visits`, `MaxAppeals`, `MaxOpen`,
`Processes` and `MaxRevision`. `MaxLedger` and `U32Max` stand for the limit of a u32,
`I128Max` and `LastToken` for those of an amount and a token id, with the checks the
code makes at them. The runs allow deadlock where the system stops: no ledger is
left, every event is processed, every request has its answer. Symmetry is used where
a run has no liveness property: the pods of the feed, and the administrators and
the dispatches of an update.

## What the runs found

All runs pass: the properties say what holds of the code as it is. In many places that
is less than one would wish, and the property names the exception. These are the
exceptions, and what else was seen while modelling:

*Contracts*

- Locking again over an expired lock that was not withdrawn overwrites its record
  (`lib.rs:240`). The old tokens stay in the contract and no call returns them, against
  `INVARIANTS.md:97` and against `property_tests.rs:146`, where the balance is the
  total. `Solvent` says what is true instead: the contract holds the total and exactly
  these tokens (`stranded`).
- A lock made after the snapshot but in the same ledger votes on the proposal, over a
  quorum frozen without it.
- Expired locks that were not withdrawn count in `TotalLocked`, against
  `INVARIANTS.md:94-95`, so they raise the quorum although they carry no power.
  `TotalMatchesLocks` is about all records.
- `resolve_stale_dispute` pays both parties in one call: as long as one of them
  cannot receive the token, neither is paid. `DisputeSettles` therefore assumes
  that both can, again and again.
- A badge that was given away can be minted again (`SecondBadgeAfterTransfer`), and a
  donor who was given a badge of a tier before reaching it does not get his own. A second
  `upgrade_and_migrate` replaces a pending migration, and a project registered
  during a migration is not among what it counts.

*Events and donations*

- A dispatch cut off after the first projection is done again from the start, and
  the project's total counts the event twice. `OvercountBounded` says how far that can
  go: once per fault and per pod.
- With two pods, one of two amounts can be missing in a donor's total, as both pods
  write what they read plus their own. `DonorTotalsComplete` holds for one pod.
- When the dead-letter transaction fails, the fallback settles the event without a
  dead-letter row (`DeadLettersAreFiled` counts these by faults).
- An indexer that loses the insert race cannot read the winner's row, because its
  transaction is aborted, and reports a failure, where `commandBus.js:212-213` says
  it is never told of an error.
- The Soroban poller does not move its cursor past an event that fails. One that fails
  for ever, as it cannot be decoded or names a project without a row, holds up every
  later donation to the contract; `SorobanGetsThrough` is about the donations ahead of it.
- A donation writes back the project status it has read (`commandBus.js:203`), and
  undoes a change an administrator made in between.
- While an offer without `match_state` row is open, the match is refused and the
  donation with it.
- Two donations recorded before the pipeline has caught up are both matched against
  a `match_state` that has seen neither, so the cap of an offer can be exceeded. And
  `donation_matches.matched_xlm`, which turrets counts in, is another counter than
  `match_state`: each of the two allows the full cap.

*Sponsorship*

- A submission that times out is recorded as failed and its capacity released, while
  the transaction can still apply; the donor is told that no reserve was locked
  (`sponsoredAccounts.js:496`), which is then not so. `ReserveIsTracked` allows
  exactly these guesses.
- The offer is signed by the sponsor before it is handed out (`sponsoredAccounts.js:367`), so
  its donor can submit it to Horizon without the backend. If the row is then abandoned
  or swept, or was before, it is closed and its capacity released, while the
  sponsor carries the reserve. `ReserveIsTracked` names these rows (`direct`).
- The updates of a row do not look at its state: an abandonment or the sweep can close a row
  that was submitted, and the submission then makes it active again with nothing
  locked, beyond the limits (`WithinLimits` leaves such rows out).
- The look-up of a reclaim takes every error of Horizon for an account that is gone.
- A row marked submitted by a process that then stops is never swept.
- Offers are signed with the sponsor's next sequence number when they are made, so two
  offers conflict, and only one of them can be submitted.

*Turrets*

- The ledger payment comes before the record of it: overlapping deliveries and a
  delivery after one that was cut off pay twice, and overlapping ones of different
  donations exceed a cap. `turrets.js:13-14` and `73-75` call a repeated delivery a
  provable and guaranteed no-op without a Horizon transaction, and `schema.sql:1021` the
  unique index a hard guarantee of it even when the pre-checks race: the index guards
  the record, which is written after the payment.

*Realtime feed*

- A cursor that was trimmed is only noticed when nothing follows it
  (`eventLog.js:168`), so a client that is too far behind gets `reset: false` and a
  gap, against the comment at lines 124–126.
- Redis keeps its stream in memory only. A client that was away during a restart, and
  resumes on a stream without the events it missed, is answered with no events and
  `reset: false`, against `docs/realtime.md:243`. A client that stays connected sees the
  degraded state and is told.
- An answer holds one batch of 100 and the client asks once. Events are emitted in
  another order than they were recorded in. A buffer local to a pod is unknown to the
  others, and its cursor misses what the stream recorded. A reconnection while a replay is
  under way skips the recovery, and a client without a cursor recovers nothing.
  `DonationFeed.tsx:121` passes no `onGap`, so a reset is ignored there.

*Offline queue*

- A crash or a lost answer between the payment and the note of its hash, a donation
  queued again while offline, and two screens on one entry each pay twice. So do two
  taps on one button, which is locked at `[id].tsx:251`, after the connection was looked
  up and the user has authenticated (offline they make two entries), a screen used
  before its entry is loaded, and a hash whose write failed. `mobile/README.md:90-95` says
  that the hash is always persisted and nothing is resubmitted.
- A read of the list that fails looks like an empty list, and the next change saves it: all
  entries are lost, with the hashes of payments the backend has not heard of
  (`donationQueue.ts:63-65`, `95-96`), against "never silently dropped" of
  `mobile/docs/offline-donation-sync.md:76`.
- A payment to a project that is gone, or above the cap of a sponsored account, is
  posted again at every pass and stays pending for ever: the screen of conflicts offers to
  remove or edit conflicts only.
- An entry that gets its hash while it is `ready` is never sent by the
  synchronisation. Two entries of the same amount that are pending in one pass both
  become ready. When the amount was changed after queueing, the backend is told
  the wrong one, or refuses the payment for ever.

*Donation integrity*

- A rescore writes back a status it read before a reviewer decided, and so
  overwrites the decision (`donationIntegrity.js:371`), against
  `docs/donation-integrity.md`. After that, the same reviewer may decide the appeal.
- The decision on an appeal reads the enforcement setting without a lock, so a switch
  in between leaves the exclusion at odds with it.

*Project updates*

- An approval names no revision: a moderator may publish an edit that was made after
  he read the update, against `docs/project-update-moderation.md`. `OnlyApprovedIsSent`
  holds in that a revision is not sent before somebody approved the update in it.
- A removal looks once at which channels carried the update. A channel whose
  dispatch is still under way gets no correction, and no route repeats a removal. The
  same goes for a channel some of whose recipients were sent before a failure.
  `docs/project-update-moderation.md:116-124` promises a correction to every channel that
  carried the update, and that it can be retried.
- A process that stops between claim and job leaves the recipients claimed for good. A
  failed call to the queue that took effect is repeated. A refused one can leave a
  channel marked whose recipients were released after another dispatch had
  passed them by, and the release deletes their correction.
- A reinstated update is not announced again. Appeal decisions do not settle reports,
  and a report that passed its check before the decision stays open until the next.

## Fairness

- `Escrow!FairSpec`: ledgers close, and a party of a disputed job keeps calling
  `resolve_stale_dispute`. Strong fairness of that call is the assumption that
  a party who tries again and again hits one of the moments at which both parties
  can be paid. Nothing is assumed of the admin or of the client's will to pay.
- `DaoGovernance!FairSpec`: ledgers close, and somebody finalises a vote that has
  ended; `finalise_vote` needs no authorisation.
- `EventPipeline!Spec`: the loop of a pod continues, because `runSchedulerTick`
  arms the next timer in a `finally`, and a stopped pod is replaced by Kubernetes.
  Which step it takes is up to the code; faults are never fair, and there are at
  most `MaxFaults`. Commands are not obliged to record anything.
- `DonationCommands!Spec`: a request continues with its next statement.
  Statements that can wait for another transaction (`Waits`) are strongly fair,
  since PostgreSQL queues the waiters of a lock. Offers end, because every offer
  has an `expires_at`, and recorded matches reach their projection, which is what
  `EventPipeline` shows. A report from the Soroban indexer that failed is made
  again, because the poll does not move its cursor past it; those behind it wait.
- `Sponsorship!SponsorshipSpec`: time passes (`Expire`), the timer of `maintenance.js` fires
  (`Sweep`), and a submission that is not stopped goes on, as its awaits return or
  fail. Donors, requests and administrators are not obliged to do anything.
- `OfflineQueue!Spec`: a pass that was started goes on, as every call it awaits returns or
  fails. Nothing obliges one to start: it takes a connection that comes back while a screen
  with the hook is mounted, or a pull on the list. That such passes are started while
  something is pending, and do not fail at an entry every time, is the
  premise of `EntriesAreChecked` (`PassesComeThrough`) and no fairness of the specification.
  The user is not obliged to do anything.
- `DonationIntegrity!IntegritySpec`: the sweep of the worker runs, a queue entry does not fail for
  ever (strong fairness, as its row may be locked again and again), and a transaction
  that began on an appeal ends.
- `TurretsMatching`, `RealtimeFeed`, `GreenPay` and `ProjectUpdates` state safety only: a
  delivery, a reconnection, a donation or a retried dispatch is never bound to come.

## What is proved

Every safety property of the runs, invariants and action properties alike, is also
a theorem, for all values of the constants that meet the assumptions of the modules.
These ask for non-negative bounds, deadlines of at least one ledger, rising tiers,
null values that are not values, and processes of different kinds that are not the
same (`EscrowAssumption`, `LocksAssumption`, `NoLockAssumption`, `ConfigAssumption`,
`PipelineAssumption`, `CommandsAssumption`, `TurretsAssumption`, `GreenPayAssumption`,
`IntegrityAssumption`, `UpdatesAssumption`, `SponsorshipAssumption`, `FeedAssumption`,
`OfflineQueueAssumption`). Where something is added up or counted, the set it ranges
over is finite: the voters (`VotersAssumption`), the donors, the events and the pods,
the requests for sponsorship, the recipients of a channel. That there are finitely many
jobs and matching records at any time is proved.

**`Sums`.** `SumFunctionOnSet` is a fold that takes the elements of a finite set in the
order `CHOOSE` picks them. That it changes by what one term changes, in any order, is an
induction on the size of the set. The induction theorems of the library take a
predicate as an operator, which the provers here cannot instantiate; `Sums` therefore
does the induction over the *set* of those subsets for which something holds
(`WholeSet`), down to a least counterexample (`Smallest`).

**`CustodyProofs`.** *Escrow*: `Inv` is types and `JobAccounting` together: types alone
are not inductive, because a remainder stays a natural number only while the books
balance. All payouts are one lemma (`PayoutKeepsInv`) that the calls instantiate
(`CallsArePayouts`). From it follow `TypeCorrect`, `JobsBalance`, `SettledJobsAreFinal`,
and `RefinesCustody`, that the contract implements `EscrowCustody`. `HoldsWhatItOwes`
is `Custody`, for any number of jobs: a call changes what one job has left and
what the contract holds of its token by the same amount. `DisputedJobsAreFrozen` is
`DisputeFreeze`. *Sponsorship*: `ReservesInv` says of every row what its place in the life
of a request allows (`RowFits`) and of every call under way what it still knows
(`RequestFits`, `SubmitFits`, `ReclaimFits`): a row whose transaction can still apply is
submitted unless it was closed on a guess, and while a request holds the advisory lock
there stays room for the row it is about to insert, as nobody else can hold it (`OneLock`).
The row of an account that is on the ledger holds capacity, was closed on a guess, or was
closed and its donor submitted himself (`Kept`). `ReservesAreTracked`, `ReclaimsAreReturned`.

**`DaoProofs`.** `PowerHistoryIsFixed` needs one fact that the code does not
state: no checkpoint ends later than the lock, or than now if there is none
(`CheckpointsExpire`). So a voter who may replace a lock has no power left, and
the new checkpoint can only add power at the current ledger. The rest is about
which checkpoint is newest after an append. For the proposals, the invariant `DaoInv`
adds that a vote is the positive power of the snapshot (`VotesFit`) and that approvals
are sound (`ProposalsFit`). A vote stays right because power at a ledger that is not in
the future changes only if it was zero, and zero power does not vote.
`VotesCountSnapshotPower`, `ApprovalsAreSound`, `OutcomesAreFinal`. The books (`BooksInv`)
add the sums: the total of the locks, which the contract holds (`SumsInv`), and the
tallies. That no ledger has more power than there are tokens
(`PowerIsWithinSupply`) is bounded by the locks where the ledger is the
present one, and where it is past it stays, as neither that power nor the
supply changes. That `totalLocked` and a quorum are not negative, the missing
part of the type invariants, follows from the sums. `BooksAlwaysBalance`.

**`GreenPayProofs`.** The registry is *good* (`GoodRegistry`) if its index is the
ownership, the older badges are kept, and only giving a token away explains a second
one of a tier (`TokensFit`). Every mint, wherever it happens, finds that its donor
holds no token of the tier; a transfer needs in addition that the recipient's
markers have become tokens first, which is what the backfill in `transfer` is for.
`BadgesStayKept`, `SecondBadgesNeedATransfer`, and, from `SchemaFits`,
`VersionsAreMigrated`. A donation adds one amount to the contract's, the donor's and
the project's total, and one to `donor_count` the first time only (`BooksInv`):
`SumsAlwaysAgree`.

**`EventPipelineProofs`.** The pods decide on rows they fetched earlier. What saves
them is `PodOK`: the attempts in a row never exceed the failures there have been.
`PipelineTypeCorrect` and `PipelineImplementsDelivery`, the safety half of the
refinement of `EventDelivery`, follow. `NothingIsLost`, which proves
`NothingUndercounted`, needs in addition (`ProgressInv`) that the statements a pod has
executed for its current row have left their effect, which no other pod can take back:
`raised` and `matched` only grow. `OvercountsAreBounded` counts chances (`CountInv`):
every pod has one to execute a statement for an event, spent when it executes it, or
when it lets go of an event that is processed; only a fault gives one back.
`NothingUnnoticed` counts in the same way how often an event is filed: a pod files
an event and parts with it, and an event given up without being filed is counted
together with the pods about to give one up, by faults (`FilingInv`). With one
pod, a donor's total that was read is still the stored one when it is written back
(`DonorInv`).

**`DonationProofs`.** *Commands*: `IndInv` ties the uncommitted entry of the unique
index to the transaction that is between its insert and its commit, and says that such
an entry and a committed record exclude each other. `AnswersFitTogether`,
`MatchesHaveDonations` and `RecordsAreFinal` follow, for any number of requests.
*Integrity*: a rescore that has read a decision still finds one, or has been
overtaken already (`RescoresFit`); a hearing under way holds a pending appeal that its
reviewer may decide (`HearingsFit`); only confirmed cases are excluded, also after a
race with the setting (`ExclusionFits`). `ExclusionsAreEnforced`,
`AppealsGetTheirHearing`, `ReviewersDecisionsStand`. *Turrets*: while no other delivery is
about the same donation (`OneAtATime`), a call knows of every payment made for it before
(`SeesPaid`): each was recorded when the call read the records, unless a call was cut off.
What a call has paid is what it is about to record (`PaymentFits`), and a record is new
to the sum of its offer when it is added (`CounterInv`). `CapsExceededByRacesOnly`,
`PaidTwiceByOverlapsOnly`, `BooksAlwaysMatchLedger`.

**`UpdatesProofs`.** The moderation rests on what a revision has been through
(`UpdateFits`): nothing pending was ever shown, and what is published is approved. For
the messages, a recipient whose claim is in the hands of a dispatch has no job yet,
no two dispatches hold the same one, and one with a job keeps the claim
(`ClaimsFit`). The same holds of corrections (`CorrectionsFit`) unless a dispatch of
the publication undoes the claim under one, and then the recipient is among the
named mishaps, since only what a channel in `carried` had claimed is ever corrected.
`ModerationStaysSound`, `RecipientsAreNotifiedOnce`. `RecipientsAlwaysAgree` follows how far a
dispatch is: whom it has gone by is settled, claimed, or on record as outrun
(`ProgressFits`), because a chunk is the first part of what was found, and one that is not
full is all of it (`ChunkIsFirst`). While a removal that nobody raced is in force,
no dispatch of the publication runs, and what it still owes is on its list (`RecallFits`).

**`ClientProofs`.** *Feed*: a client that goes on from a cursor knows every event up to
it, or the event has been overtaken by later ones and will be excused when it is emitted
(`Past`). What is not in the stream has been excused (`StreamFits`), a restart of Redis without its stream included, so an answer that leads
from one cursor to a later one shows or excuses everything between (`ReplayFits`).
`GapsAreNoticed`. *Queue*: but for the named causes, a wish has one visit that is not
settled (`Alone`), which works on the only entry there is for it (`OneEntry`); an entry keeps the hash its visit knows (`HashFits`), and once a
wish is paid nobody is in a position to pay it again (`PaidFits`). What a pass has read of an
entry stays true of it but for the named causes (`TodoFits`). Every change of the queue goes
through `Saves`, so that one lemma (`SavesIs`) says what a failed read does to it, and one
(`GoneStep`) what an entry that leaves it takes along. `PaymentsAreNotForgotten`,
`SecondPaymentsHaveCause`, `AmountsAreRecorded`.

Only model-checked is liveness, as liveness under fairness and `ENABLED` are out of the
prover's reach: `DisputeSettles`, `VotesConclude`, `ClientsAreAnswered`,
`SorobanGetsThrough`, `RowsSettle`, `EntriesAreChecked`, `DonationsAreAssessed`, and the
fairness half of `KeepsPromise`, the refinement of `EventDelivery`.

## Not modelled

What is left out of a modelled component is said in its section above and in the notes of
`PROJECT.json`. Whole components without a module:

- **Indexer cursors and watch lists.** What a stream delivers after it resumed at a
  stored cursor is decided by Horizon; the handling of what it delivers is in
  `DonationCommands`. The hazard of a cursor that moves before the operation was
  handled is listed without a property.
- **Other onboarding paths**: claimable balances, on-ramp sessions, key upgrade. Single
  rows moved along by single statements.
- **Legacy migration** runs once in the life of an installation, at start-up.
- **Summary jobs** keep their state in pg-boss.
- **Request throttling**: counters of one process, each read and written in one step.
- **Subscriptions**: charge dates by calendar month, a function of dates.
- **Cluster scheduler plugins**: pure functions of a snapshot of the nodes.
- **Shutdown**: what it interrupts is the stop of a process in the modules above.
- **HTTP API, caches, search**: validation, reads and writes of one statement,
  formatting, text ranking.
- **Web front end, extension, mobile app**: presentation, apart from the two
  protocols specified above.
- **Deployment**: configuration and tooling. That there are two or more pods is taken
  from it.

Donor addresses that were replaced by a key upgrade are resolved through one link only
(`accountUpgrade.js`), which no module is about.
