------------------------- MODULE DonationCommands -------------------------
(***************************************************************************)
(* Concurrent requests to record donations to one project                  *)
(* (backend/src/eventSourcing/commandBus.js).  The API route executes the  *)
(* command on the connection pool, so every statement commits on its own;  *)
(* the indexers (backend/src/services/indexerService.js) execute it, and   *)
(* the matches it triggers, inside one transaction.  A step is one         *)
(* statement, what is between two awaits.  Meanwhile administrators change *)
(* the project's status, the projection worker folds match events into     *)
(* match_state, and a pod may stop with a request in flight, after which   *)
(* the request is made again.                                              *)
(*                                                                         *)
(* PostgreSQL is modelled by what the code relies on: committed reads, the *)
(* row lock an UPDATE holds until its transaction ends, the unique index   *)
(* on the transaction hash (an insert waits for an uncommitted one), and a *)
(* transaction that accepts no statement after one has failed.             *)
(*                                                                         *)
(* Every donation is of one unit, and so is its match: there is one offer, *)
(* worth Cap units, until it expires.  Not modelled: donor_count, which is *)
(* written together with the status and meets the same hazards.            *)
(***************************************************************************)
EXTENDS Integers, FiniteSets

CONSTANTS
    Requests,
    HashOf,         \* transaction hash of a request
    DetailsOf,      \* project, donor, currency and amount of a request
    Indexed,        \* the requests that come from an indexer
    Soroban,        \* ... from the Soroban event indexer
    Before,         \* the events its poller hands over before one
    Refused,        \* events that cannot be decoded, or whose project has no row
    Statuses,
    DefaultStatus,  \* what projects.status starts as
    Cap,            \* cap_xlm of the offer in donation_matches
    MatchRow,       \* whether the offer has a row in match_state
    MaxStops,       \* bound: pods that stop
    MaxChanges,     \* bound: status changes by administrators
    Nobody

ASSUME CommandsAssumption ==
    /\ DOMAIN HashOf = Requests
    /\ DOMAIN DetailsOf = Requests
    /\ Indexed \subseteq Requests
    /\ Soroban \subseteq Indexed
    /\ Before \in [Soroban -> SUBSET Soroban]
    /\ Refused \subseteq Soroban
    /\ DefaultStatus \in Statuses
    /\ Cap \in Nat
    /\ MatchRow \in BOOLEAN
    /\ MaxStops \in Nat
    /\ MaxChanges \in Nat
    /\ Nobody \notin Requests

VARIABLES
    stored,         \* by hash: the request whose DonationRecorded is committed
    inserting,      \* by hash: the transaction with an uncommitted one
    rowLock,        \* the transaction that has updated the project
    status,         \* projects.status
    offerOpen,      \* the offer has not expired
    applied,        \* hashes with a committed MatchApplied event
    projected,      \* those already in match_state.matched_xlm
    reqs,
    stops,
    changes

database == <<stored, inserting, rowLock, status, offerOpen, applied, projected>>
vars == <<database, reqs, stops, changes>>

Hashes == {HashOf[r] : r \in Requests}
Answers == {"created", "replayed", "conflict", "failed"}

RequestState ==
    [at: {"new", "begun", "checked", "read", "stored", "lost", "inserted", "matched"} \union Answers,
     saw: Statuses,             \* the status read with the project
     match: BOOLEAN]            \* there is an offer to match it

TypeOK ==
    /\ stored \in [Hashes -> Requests \union {Nobody}]
    /\ inserting \in [Hashes -> Indexed \union {Nobody}]
    /\ rowLock \in Indexed \union {Nobody}
    /\ status \in Statuses
    /\ offerOpen \in BOOLEAN
    /\ projected \subseteq applied
    /\ applied \subseteq Hashes
    /\ reqs \in [Requests -> RequestState]
    /\ stops \in 0 .. MaxStops
    /\ changes \in 0 .. MaxChanges
    /\ \A r \in Requests : reqs[r].at \in {"begun", "inserted", "matched", "failed"} => r \in Indexed

Init ==
    /\ stored = [h \in Hashes |-> Nobody]
    /\ inserting = [h \in Hashes |-> Nobody]
    /\ rowLock = Nobody
    /\ status = DefaultStatus
    /\ offerOpen = TRUE
    /\ applied = {}
    /\ projected = {}
    /\ reqs = [r \in Requests |-> [at |-> "new", saw |-> status, match |-> FALSE]]
    /\ stops = 0
    /\ changes = 0

-----------------------------------------------------------------------------
Winner(r) == stored[HashOf[r]]

Recorded(r) == Winner(r) # Nobody

Agrees(r) == DetailsOf[Winner(r)] = DetailsOf[r]

Moves(r, at) == reqs' = [reqs EXCEPT ![r].at = at]

\* Mutated: the connection goes back to the pool in its transaction.
Releases_KeepsLock(r) ==
    /\ inserting' = [inserting EXCEPT ![HashOf[r]] = IF @ = r THEN Nobody ELSE @]
    /\ UNCHANGED <<stored, rowLock, status, offerOpen, applied, projected>>

\* ROLLBACK, when r has a transaction.
Releases(r) ==
    /\ rowLock' = IF rowLock = r THEN Nobody ELSE rowLock
    /\ inserting' = [inserting EXCEPT ![HashOf[r]] = IF @ = r THEN Nobody ELSE @]
    /\ UNCHANGED <<stored, status, offerOpen, applied, projected>>

\* Mutated: whatever is stored answers the request.
ResolveReplay_Lenient(r) == Moves(r, "replayed")

\* resolveReplay: the stored record, or a typed conflict, which an indexer
\* reports as a failure.
ResolveReplay(r) ==
    Moves(r, IF Agrees(r) THEN "replayed" ELSE IF r \in Indexed THEN "failed" ELSE "conflict")

\* pollOnce hands its events over in order, and stops at one that fails.  Those
\* before it come again with it: they are found recorded.
ItsTurn(r) == r \in Soroban => \A e \in Before[r] : reqs[e].at \in {"created", "replayed"}

\* decodeDonationEvent throws.
DecodeFails(r) ==
    /\ r \in Refused
    /\ reqs[r].at = "new" /\ ItsTurn(r)
    /\ Moves(r, "failed")
    /\ UNCHANGED <<database, stops, changes>>

\* handleDonation looks for the hash, whatever the details, then begins its
\* transaction and reads the offers.
HandleDonation(r) ==
    /\ r \in Indexed
    /\ reqs[r].at = "new" /\ ItsTurn(r)
    /\ reqs' = [reqs EXCEPT ![r].at = IF Recorded(r) THEN "replayed" ELSE "begun",
                            ![r].match = offerOpen /\ Cap > 0]
    /\ UNCHANGED <<database, stops, changes>>

Precheck(r) ==
    /\ reqs[r].at = IF r \in Indexed THEN "begun" ELSE "new"
    /\ IF Recorded(r) THEN ResolveReplay(r) ELSE Moves(r, "checked")
    /\ UNCHANGED <<database, stops, changes>>

\* Only an event may name a project that has no row: the route looks for it
\* before, and the Horizon indexer takes its projects from the table.
ReadProject(r) ==
    /\ reqs[r].at = "checked"
    /\ IF r \in Refused
       THEN Moves(r, "failed") /\ Releases(r)
       ELSE /\ reqs' = [reqs EXCEPT ![r].at = "read", ![r].saw = status]
            /\ UNCHANGED database
    /\ UNCHANGED <<stops, changes>>

\* storeProjectAggregate writes the status that was read.  In a transaction it
\* takes the row lock, and the write shows when it commits.
StoreProject(r) ==
    /\ reqs[r].at = "read"
    /\ rowLock = Nobody
    /\ IF r \in Indexed
       THEN rowLock' = r /\ UNCHANGED status
       ELSE status' = reqs[r].saw /\ UNCHANGED rowLock
    /\ Moves(r, "stored")
    /\ UNCHANGED <<stored, inserting, offerOpen, applied, projected, stops, changes>>

InsertApi(r) ==
    /\ r \notin Indexed
    /\ reqs[r].at = "stored"
    /\ inserting[HashOf[r]] = Nobody
    /\ IF Recorded(r)
       THEN Moves(r, "lost") /\ UNCHANGED stored
       ELSE Moves(r, "created") /\ stored' = [stored EXCEPT ![HashOf[r]] = r]
    /\ UNCHANGED <<inserting, rowLock, status, offerOpen, applied, projected, stops, changes>>

\* The loser of the race reads the winner's row.
FindWinner(r) ==
    /\ reqs[r].at = "lost"
    /\ ResolveReplay(r)
    /\ UNCHANGED <<database, stops, changes>>

InsertIndexed(r) ==
    /\ r \in Indexed
    /\ reqs[r].at = "stored"
    /\ inserting[HashOf[r]] = Nobody
    /\ ~Recorded(r)
    /\ inserting' = [inserting EXCEPT ![HashOf[r]] = r]
    /\ Moves(r, "inserted")
    /\ UNCHANGED <<stored, rowLock, status, offerOpen, applied, projected, stops, changes>>

\* In a transaction the winner cannot be looked up after the violation.
LoseIndexed(r) ==
    /\ r \in Indexed
    /\ reqs[r].at = "stored"
    /\ inserting[HashOf[r]] = Nobody
    /\ Recorded(r)
    /\ Moves(r, "failed")
    /\ Releases(r)
    /\ UNCHANGED <<stops, changes>>

-----------------------------------------------------------------------------
\* The match is sized from donation_matches, whose matched_xlm no event changes,
\* and validated against match_state, where an offer without a row has no cap.
Room == MatchRow /\ Cardinality(projected) < Cap

\* Mutated: the match is recorded outside the transaction.
ApplyMatch_OnPool(r) ==
    /\ reqs[r].at = "inserted"
    /\ reqs[r].match => Room
    /\ Moves(r, "matched")
    /\ applied' = IF reqs[r].match THEN applied \union {HashOf[r]} ELSE applied
    /\ UNCHANGED <<stored, inserting, rowLock, status, offerOpen, projected, stops, changes>>

ApplyMatch(r) ==
    /\ reqs[r].at = "inserted"
    /\ reqs[r].match => Room
    /\ Moves(r, "matched")
    /\ UNCHANGED <<database, stops, changes>>

\* The match is refused, and with it the donation.
RefuseMatch(r) ==
    /\ reqs[r].at = "inserted"
    /\ reqs[r].match /\ ~Room
    /\ Moves(r, "failed")
    /\ Releases(r)
    /\ UNCHANGED <<stops, changes>>

Commit(r) ==
    /\ reqs[r].at = "matched"
    /\ stored' = [stored EXCEPT ![HashOf[r]] = r]
    /\ inserting' = [inserting EXCEPT ![HashOf[r]] = Nobody]
    /\ status' = reqs[r].saw
    /\ applied' = IF reqs[r].match THEN applied \union {HashOf[r]} ELSE applied
    /\ rowLock' = Nobody
    /\ Moves(r, "created")
    /\ UNCHANGED <<offerOpen, projected, stops, changes>>

\* Mutated: a failed event is not handed over again.
Retry_Never(r) == FALSE

\* The Soroban indexer keeps its cursor and hands the event over again, however
\* often it fails; the Horizon stream has moved on.
Retry(r) ==
    /\ r \in Soroban
    /\ reqs[r].at = "failed"
    /\ Moves(r, "new")
    /\ UNCHANGED <<database, stops, changes>>

-----------------------------------------------------------------------------
\* PATCH /api/projects/:id/status
SetStatus(s) ==
    /\ rowLock = Nobody
    /\ changes < MaxChanges
    /\ s # status
    /\ status' = s
    /\ changes' = changes + 1
    /\ UNCHANGED <<stored, inserting, rowLock, offerOpen, applied, projected, reqs, stops>>

ExpireOffer ==
    /\ offerOpen
    /\ offerOpen' = FALSE
    /\ UNCHANGED <<stored, inserting, rowLock, status, applied, projected, reqs, stops, changes>>

\* The event pipeline dispatches a MatchApplied event.
ProjectMatch(h) ==
    /\ h \in applied \ projected
    /\ projected' = projected \union {h}
    /\ UNCHANGED <<stored, inserting, rowLock, status, offerOpen, applied, reqs, stops, changes>>

Stop(r) ==
    /\ stops < MaxStops
    /\ reqs[r].at \notin Answers \union {"new"}
    /\ Moves(r, "new")
    /\ Releases(r)
    /\ stops' = stops + 1
    /\ UNCHANGED <<changes>>

\* The statements that may wait for another transaction.
Waits(r) == StoreProject(r) \/ InsertApi(r) \/ InsertIndexed(r) \/ LoseIndexed(r)

Step(r) ==
    \/ DecodeFails(r) \/ HandleDonation(r) \/ Precheck(r) \/ ReadProject(r)
    \/ FindWinner(r)
    \/ ApplyMatch(r) \/ RefuseMatch(r) \/ Commit(r)
    \/ Retry(r)

Next ==
    \/ \E r \in Requests : Step(r) \/ Waits(r) \/ Stop(r)
    \/ \E s \in Statuses : SetStatus(s)
    \/ ExpireOffer
    \/ \E h \in Hashes : ProjectMatch(h)

\* PostgreSQL serves the transactions waiting for a row lock, or for the end of
\* another one's insert, in turn.
Spec ==
    /\ Init /\ [][Next]_vars
    /\ \A r \in Requests : WF_vars(Step(r)) /\ SF_vars(Waits(r))
    /\ \A h \in Hashes : WF_vars(ProjectMatch(h))
    /\ WF_vars(ExpireOffer)

-----------------------------------------------------------------------------
\* However requests for the same transaction overlap, crash and are repeated,
\* their answers fit together: one of them created the record, a replay found
\* a record (the same one, for a client), and a conflict is real.  A client that
\* loses the race is never told of an error; an indexer is, in its transaction,
\* where commandBus.js:212-213 says the loser never sees one.
AnswersAgree ==
    \A r \in Requests :
        /\ reqs[r].at = "created" => Winner(r) = r
        /\ reqs[r].at = "replayed" => Recorded(r) /\ (r \notin Indexed => Agrees(r))
        /\ reqs[r].at = "conflict" => Recorded(r) /\ ~Agrees(r)

\* Whoever recorded a donation first, nothing ever takes its record away.
RecordIsFinal ==
    [][\A h \in Hashes : stored[h] # Nobody => stored'[h] = stored[h]]_vars

\* A match stands and falls with the donation it doubles: there is none for a
\* donation that was rolled back, or that its client recorded without one.
MatchesFollowDonations ==
    \A h \in applied : stored[h] \in Indexed /\ reqs[stored[h]].match

\* Waiting for row locks and index entries always ends: a client gets an answer.
ClientsAreAnswered ==
    \A r \in Requests \ Indexed : <>(reqs[r].at \in Answers)

\* A donation to the contract is recorded, at the latest when the offers that
\* stood in the way of it, and of those before it, have expired, unless one of
\* them is refused for good: the cursor never passes that one.
SorobanGetsThrough ==
    \A r \in Soroban : (Before[r] \union {r}) \intersect Refused = {} => <>Recorded(r)
=============================================================================
