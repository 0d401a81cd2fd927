--------------------------- MODULE DonationProofs ---------------------------
(***************************************************************************)
(* Theorems about the life of a donation on the server: the commands that  *)
(* record it (DonationCommands), for any number of requests, hashes and    *)
(* indexers, and whatever the administrators and the pods do; the review   *)
(* of its integrity (DonationIntegrity); and its matching by Turrets       *)
(* (TurretsMatching), each in a part of its own.                           *)
(*                                                                         *)
(* The safety properties of the commands follow from which uncommitted     *)
(* insert belongs to whom.                                                 *)
(***************************************************************************)
EXTENDS DonationCommands, DonationIntegrity, TurretsMatching, Sums

\* A committed record belongs to the request that was told so ...
RecordsAreOwned ==
    \A h \in Hashes : stored[h] # Nobody =>
        /\ HashOf[stored[h]] = h
        /\ reqs[stored[h]].at = "created"

\* ... and every request that was told so has one.
CreatorsAreStored == \A r \in Requests : reqs[r].at = "created" => stored[HashOf[r]] = r

\* A transaction is between its insert and its commit exactly as long as the
\* index has its uncommitted entry, and then nobody's record is committed.
InsertsAreHeld ==
    /\ \A r \in Requests : reqs[r].at \in {"inserted", "matched"} => inserting[HashOf[r]] = r
    /\ \A h \in Hashes : inserting[h] # Nobody =>
        /\ HashOf[inserting[h]] = h
        /\ reqs[inserting[h]].at \in {"inserted", "matched"}
        /\ stored[h] = Nobody

\* A client only lost the race to a record that is there.
LosersHaveAWinner == \A r \in Requests : reqs[r].at = "lost" => stored[HashOf[r]] # Nobody

IndInv ==
    /\ TypeOK
    /\ RecordsAreOwned
    /\ CreatorsAreStored
    /\ InsertsAreHeld
    /\ LosersHaveAWinner
    /\ AnswersAgree
    /\ MatchesFollowDonations

\* Every request carries a transaction hash.
LEMMA HashTyped == ASSUME NEW r \in Requests PROVE HashOf[r] \in Hashes
BY DEF Hashes

\* With no request begun, the database is empty and everything fits.
LEMMA InitInv == Init => IndInv
BY CommandsAssumption DEF Init, IndInv, TypeOK, RequestState, RecordsAreOwned,
   CreatorsAreStored, InsertsAreHeld, LosersHaveAWinner, AnswersAgree, MatchesFollowDonations,
   Hashes


\* What the invariants see of a request, and nothing else of it.
LEMMA RequestFields ==
    ASSUME reqs \in [Requests -> RequestState], NEW r \in Requests
    PROVE  /\ reqs[r].match \in BOOLEAN
           /\ reqs[r].saw \in Statuses
           /\ \A at \in {"new", "begun", "checked", "read", "stored", "lost",
                         "inserted", "matched"} \union Answers :
                Moves(r, at) =>
                    /\ reqs' \in [Requests -> RequestState]
                    /\ reqs'[r].at = at /\ reqs'[r].match = reqs[r].match
                    /\ \A q \in Requests \ {r} : reqs'[q] = reqs[q]
BY DEF RequestState, Moves

\* A request that neither opens nor ends an insert leaves every record, and
\* every uncommitted insert, with its owner: what remains to be looked at is
\* its own answer.
LEMMA LocalStep ==
    ASSUME IndInv, NEW r \in Requests,
           UNCHANGED <<stored, inserting, offerOpen, applied, projected, stops, changes>>,
           rowLock' \in Indexed \union {Nobody},
           status' \in Statuses,
           reqs' \in [Requests -> RequestState],
           \A q \in Requests \ {r} : reqs'[q] = reqs[q],
           reqs[r].at \notin {"created", "inserted", "matched"},
           reqs'[r].at \notin {"created", "inserted", "matched"},
           reqs'[r].at \in {"begun", "failed"} => r \in Indexed,
           reqs'[r].at = "replayed" => Recorded(r) /\ (r \notin Indexed => Agrees(r)),
           reqs'[r].at = "conflict" => Recorded(r) /\ ~Agrees(r),
           reqs'[r].at = "lost" => Recorded(r)
    PROVE  IndInv'
<1>1. TypeOK'
  BY DEF IndInv, TypeOK
<1>2. RecordsAreOwned'
  BY DEF IndInv, TypeOK, RecordsAreOwned
<1>3. CreatorsAreStored'
  BY DEF IndInv, CreatorsAreStored
<1>4. InsertsAreHeld'
  <2>1. ASSUME NEW q \in Requests, reqs'[q].at \in {"inserted", "matched"}
        PROVE  inserting'[HashOf[q]] = q
    BY <2>1 DEF IndInv, InsertsAreHeld
  <2>2. ASSUME NEW h \in Hashes, inserting'[h] # Nobody
        PROVE  /\ HashOf[inserting'[h]] = h
               /\ reqs'[inserting'[h]].at \in {"inserted", "matched"}
               /\ stored'[h] = Nobody
    BY <2>2, CommandsAssumption DEF IndInv, TypeOK, InsertsAreHeld
  <2> QED
    BY <2>1, <2>2 DEF InsertsAreHeld
<1>7. LosersHaveAWinner'
  BY DEF IndInv, LosersHaveAWinner, Recorded, Winner
<1>5. AnswersAgree'
  BY DEF IndInv, AnswersAgree, Recorded, Winner, Agrees
<1>6. MatchesFollowDonations'
  BY CommandsAssumption DEF IndInv, TypeOK, MatchesFollowDonations, RecordsAreOwned
<1> QED
  BY <1>1, <1>2, <1>3, <1>4, <1>5, <1>6, <1>7 DEF IndInv

\* The steps that write at most the projects row, and no donation.
LEMMA LocalActions ==
    ASSUME IndInv, NEW r \in Requests,
           \/ DecodeFails(r) \/ HandleDonation(r) \/ Precheck(r) \/ StoreProject(r)
           \/ ReadProject(r) /\ r \notin Refused
           \/ FindWinner(r) \/ LoseIndexed(r) \/ Retry(r)
    PROVE  IndInv'
<1> USE DEF Answers
<1>0. TypeOK /\ reqs \in [Requests -> RequestState]
  BY DEF IndInv, TypeOK
<1>1. CASE HandleDonation(r)
  <2>1. /\ reqs' \in [Requests -> RequestState]
        /\ \A q \in Requests \ {r} : reqs'[q] = reqs[q]
        /\ reqs'[r].at = IF Recorded(r) THEN "replayed" ELSE "begun"
    BY <1>0, <1>1 DEF HandleDonation, RequestState
  <2> QED
    BY <1>0, <1>1, <2>1, LocalStep DEF HandleDonation, database, TypeOK
<1>2. CASE Precheck(r)
  <2>1. CASE Recorded(r)
    <3>1. \E at \in Answers : Moves(r, at) /\ ResolveReplay(r)
      BY <1>2, <2>1 DEF Precheck, ResolveReplay
    <3> QED
      BY <1>0, <1>2, <2>1, <3>1, RequestFields, LocalStep
      DEF Precheck, ResolveReplay, database, TypeOK
  <2>2. CASE ~Recorded(r)
    BY <1>0, <1>2, <2>2, RequestFields, LocalStep DEF Precheck, database, TypeOK
  <2> QED
    BY <2>1, <2>2
<1>3. CASE ReadProject(r) /\ r \notin Refused
  <2>1. /\ reqs' \in [Requests -> RequestState]
        /\ \A q \in Requests \ {r} : reqs'[q] = reqs[q]
        /\ reqs'[r].at = "read"
    BY <1>0, <1>3 DEF ReadProject, RequestState, TypeOK
  <2> QED
    BY <1>0, <1>3, <2>1, LocalStep DEF ReadProject, database, TypeOK
<1>4. CASE StoreProject(r)
  BY <1>0, <1>4, RequestFields, LocalStep DEF StoreProject, TypeOK
<1>5. CASE FindWinner(r)
  <2>1. Recorded(r)
    BY <1>5 DEF FindWinner, IndInv, LosersHaveAWinner, Recorded, Winner
  <2> QED
    BY <1>0, <1>5, <2>1, RequestFields, LocalStep DEF FindWinner, ResolveReplay, database, TypeOK
<1>6. CASE LoseIndexed(r)
  <2>1. inserting' = inserting
    BY <1>0, <1>6, HashTyped, CommandsAssumption DEF LoseIndexed, Releases, TypeOK
  <2> QED
    BY <1>0, <1>6, <2>1, RequestFields, LocalStep DEF LoseIndexed, Releases, TypeOK
<1>7. CASE Retry(r)
  BY <1>0, <1>7, RequestFields, LocalStep DEF Retry, database, TypeOK
<1>8. CASE DecodeFails(r)
  <2>1. r \in Indexed
    BY <1>8, CommandsAssumption DEF DecodeFails
  <2> QED
    BY <1>0, <1>8, <2>1, RequestFields, LocalStep DEF DecodeFails, database, TypeOK
<1> QED
  BY <1>1, <1>2, <1>3, <1>4, <1>5, <1>6, <1>7, <1>8

-----------------------------------------------------------------------------
\* The database changes hands only in what follows: a client's insert, and the
\* steps of a transaction that has inserted.
LEMMA InsertApiInv ==
    ASSUME IndInv, NEW r \in Requests, InsertApi(r) PROVE IndInv'
<1> USE DEF Answers
<1>0. TypeOK /\ reqs \in [Requests -> RequestState] /\ HashOf[r] \in Hashes
  BY HashTyped DEF IndInv, TypeOK
<1>1. CASE Recorded(r)
  BY <1>0, <1>1, RequestFields, LocalStep DEF InsertApi, TypeOK
<1>2. CASE ~Recorded(r)
  <2>0. /\ Moves(r, "created")
        /\ stored[HashOf[r]] = Nobody /\ inserting[HashOf[r]] = Nobody
        /\ stored' = [stored EXCEPT ![HashOf[r]] = r]
        /\ UNCHANGED <<inserting, rowLock, status, offerOpen, applied, projected, stops, changes>>
    BY <1>2 DEF InsertApi, Recorded, Winner
  <2>1. /\ reqs' \in [Requests -> RequestState]
        /\ reqs'[r].at = "created" /\ reqs'[r].match = reqs[r].match
        /\ \A q \in Requests \ {r} : reqs'[q] = reqs[q]
    BY <1>0, <2>0, RequestFields
  <2>2. /\ stored'[HashOf[r]] = r
        /\ \A h \in Hashes \ {HashOf[r]} : stored'[h] = stored[h]
    BY <1>0, <2>0 DEF TypeOK
  <2>3. reqs[r].at = "stored" /\ r \notin Indexed
    BY <1>0 DEF InsertApi
  <2>4. TypeOK'
    BY <1>0, <2>0, <2>1, <2>3 DEF TypeOK
  <2>5. RecordsAreOwned'
    <3> SUFFICES ASSUME NEW h \in Hashes, stored'[h] # Nobody
                 PROVE  HashOf[stored'[h]] = h /\ reqs'[stored'[h]].at = "created"
      BY DEF RecordsAreOwned
    <3>1. CASE h = HashOf[r]
      BY <2>1, <2>2, <3>1
    <3>2. CASE h # HashOf[r]
      <4>1. stored'[h] = stored[h] /\ stored[h] \in Requests
        BY <1>0, <2>2, <3>2 DEF TypeOK
      <4>2. HashOf[stored[h]] = h /\ reqs[stored[h]].at = "created"
        BY <4>1 DEF IndInv, RecordsAreOwned
      <4> QED
        BY <2>1, <2>3, <4>1, <4>2
    <3> QED
      BY <3>1, <3>2
  <2>6. CreatorsAreStored'
    BY <2>0, <2>1, <2>2, HashTyped, CommandsAssumption DEF IndInv, CreatorsAreStored
  <2>7. InsertsAreHeld'
    <3>1. ASSUME NEW q \in Requests, reqs'[q].at \in {"inserted", "matched"}
          PROVE  inserting'[HashOf[q]] = q
      BY <2>0, <2>1, <3>1 DEF IndInv, InsertsAreHeld
    <3>2. ASSUME NEW h \in Hashes, inserting'[h] # Nobody
          PROVE  /\ HashOf[inserting'[h]] = h
                 /\ reqs'[inserting'[h]].at \in {"inserted", "matched"}
                 /\ stored'[h] = Nobody
      BY <1>0, <2>0, <2>1, <2>2, <2>3, <3>2, CommandsAssumption DEF IndInv, TypeOK, InsertsAreHeld
    <3> QED
      BY <3>1, <3>2 DEF InsertsAreHeld
  <2>8. LosersHaveAWinner'
    BY <1>0, <2>0, <2>1, <2>2, HashTyped, CommandsAssumption DEF IndInv, LosersHaveAWinner
  <2>9. AnswersAgree'
    BY <1>0, <2>0, <2>1, <2>2, HashTyped, CommandsAssumption
    DEF IndInv, AnswersAgree, Recorded, Winner, Agrees
  <2>10. MatchesFollowDonations'
    BY <1>0, <2>0, <2>1, <2>2, <2>3, CommandsAssumption
    DEF IndInv, TypeOK, MatchesFollowDonations, RecordsAreOwned
  <2> QED
    BY <2>4, <2>5, <2>6, <2>7, <2>8, <2>9, <2>10 DEF IndInv
<1> QED
  BY <1>1, <1>2

\* The indexer's insert: the record is its own, and still needs its match.
LEMMA InsertIndexedInv ==
    ASSUME IndInv, NEW r \in Requests, InsertIndexed(r) PROVE IndInv'
<1> USE DEF Answers
<1>0. TypeOK /\ reqs \in [Requests -> RequestState] /\ HashOf[r] \in Hashes
  BY HashTyped DEF IndInv, TypeOK
<1>1. /\ reqs' \in [Requests -> RequestState]
      /\ reqs'[r].at = "inserted" /\ reqs'[r].match = reqs[r].match
      /\ \A q \in Requests \ {r} : reqs'[q] = reqs[q]
  BY <1>0, RequestFields DEF InsertIndexed
<1>2. /\ inserting'[HashOf[r]] = r
      /\ \A h \in Hashes \ {HashOf[r]} : inserting'[h] = inserting[h]
  BY <1>0 DEF InsertIndexed, TypeOK
<1>3. /\ reqs[r].at = "stored" /\ r \in Indexed /\ r # Nobody
      /\ inserting[HashOf[r]] = Nobody /\ stored[HashOf[r]] = Nobody
      /\ UNCHANGED <<stored, rowLock, status, offerOpen, applied, projected, stops, changes>>
  BY CommandsAssumption DEF InsertIndexed, Recorded, Winner
<1>4. TypeOK'
  BY <1>0, <1>1, <1>3 DEF TypeOK, InsertIndexed
<1>5. RecordsAreOwned'
  BY <1>0, <1>1, <1>3 DEF IndInv, TypeOK, RecordsAreOwned
<1>6. CreatorsAreStored'
  BY <1>1, <1>3 DEF IndInv, CreatorsAreStored
<1>7. InsertsAreHeld'
  <2>1. ASSUME NEW q \in Requests, reqs'[q].at \in {"inserted", "matched"}
        PROVE  inserting'[HashOf[q]] = q
    BY <1>1, <1>2, <1>3, <2>1, HashTyped, CommandsAssumption DEF IndInv, InsertsAreHeld
  <2>2. ASSUME NEW h \in Hashes, inserting'[h] # Nobody
        PROVE  /\ HashOf[inserting'[h]] = h
               /\ reqs'[inserting'[h]].at \in {"inserted", "matched"}
               /\ stored'[h] = Nobody
    BY <1>0, <1>1, <1>2, <1>3, <2>2, CommandsAssumption DEF IndInv, TypeOK, InsertsAreHeld
  <2> QED
    BY <2>1, <2>2 DEF InsertsAreHeld
<1>8. LosersHaveAWinner'
  BY <1>1, <1>3 DEF IndInv, LosersHaveAWinner
<1>9. AnswersAgree'
  BY <1>1, <1>3 DEF IndInv, AnswersAgree, Recorded, Winner, Agrees
<1>10. MatchesFollowDonations'
  BY <1>0, <1>1, <1>3, CommandsAssumption DEF IndInv, TypeOK, MatchesFollowDonations, RecordsAreOwned
<1> QED
  BY <1>4, <1>5, <1>6, <1>7, <1>8, <1>9, <1>10 DEF IndInv

\* A request that leaves its transaction without committing: its insert, if it
\* had made one, is gone with it.
LEMMA RollbackInv ==
    ASSUME IndInv, NEW r \in Requests, NEW at \in {"new", "failed"},
           Moves(r, at), Releases(r),
           reqs[r].at # "created",
           at = "failed" => r \in Indexed,
           UNCHANGED <<changes>>,
           stops' \in 0 .. MaxStops
    PROVE  IndInv'
<1> USE DEF Answers
<1>0. TypeOK /\ reqs \in [Requests -> RequestState] /\ HashOf[r] \in Hashes
  BY HashTyped DEF IndInv, TypeOK
<1>1. /\ reqs' \in [Requests -> RequestState]
      /\ reqs'[r].at = at /\ reqs'[r].match = reqs[r].match
      /\ \A q \in Requests \ {r} : reqs'[q] = reqs[q]
  BY <1>0, RequestFields
<1>2. /\ inserting' \in [Hashes -> Indexed \union {Nobody}]
      /\ \A h \in Hashes : inserting'[h] = IF inserting[h] = r /\ h = HashOf[r] THEN Nobody ELSE inserting[h]
  BY <1>0 DEF Releases, TypeOK
<1>3. /\ UNCHANGED <<stored, status, offerOpen, applied, projected>>
      /\ rowLock' \in Indexed \union {Nobody}
  BY <1>0 DEF Releases, TypeOK
<1>4. TypeOK'
  BY <1>0, <1>1, <1>2, <1>3 DEF TypeOK
<1>5. RecordsAreOwned'
  BY <1>0, <1>1, <1>3 DEF IndInv, TypeOK, RecordsAreOwned
<1>6. CreatorsAreStored'
  BY <1>1, <1>3 DEF IndInv, CreatorsAreStored
<1>7. InsertsAreHeld'
  <2>1. ASSUME NEW q \in Requests, reqs'[q].at \in {"inserted", "matched"}
        PROVE  inserting'[HashOf[q]] = q
    BY <1>1, <1>2, <2>1, HashTyped DEF IndInv, InsertsAreHeld
  <2>2. ASSUME NEW h \in Hashes, inserting'[h] # Nobody
        PROVE  /\ HashOf[inserting'[h]] = h
               /\ reqs'[inserting'[h]].at \in {"inserted", "matched"}
               /\ stored'[h] = Nobody
    <3>1. inserting'[h] = inserting[h] /\ HashOf[inserting[h]] = h
      BY <1>2, <2>2 DEF IndInv, InsertsAreHeld
    <3>2. inserting[h] \in Requests \ {r}
      BY <1>0, <1>2, <2>2, <3>1, CommandsAssumption DEF TypeOK
    <3> QED
      BY <1>1, <1>3, <2>2, <3>1, <3>2 DEF IndInv, InsertsAreHeld
  <2> QED
    BY <2>1, <2>2 DEF InsertsAreHeld
<1>8. LosersHaveAWinner'
  BY <1>1, <1>3 DEF IndInv, LosersHaveAWinner
<1>9. AnswersAgree'
  BY <1>1, <1>3 DEF IndInv, AnswersAgree, Recorded, Winner, Agrees
<1>10. MatchesFollowDonations'
  BY <1>0, <1>1, <1>3, CommandsAssumption DEF IndInv, TypeOK, MatchesFollowDonations, RecordsAreOwned
<1> QED
  BY <1>4, <1>5, <1>6, <1>7, <1>8, <1>9, <1>10 DEF IndInv

\* Matches are added for a donation that is in the table.
LEMMA ApplyMatchInv ==
    ASSUME IndInv, NEW r \in Requests, ApplyMatch(r) PROVE IndInv'
<1> USE DEF Answers
<1>0. TypeOK /\ reqs \in [Requests -> RequestState]
  BY DEF IndInv, TypeOK
<1>1. /\ reqs' \in [Requests -> RequestState]
      /\ reqs'[r].at = "matched" /\ reqs'[r].match = reqs[r].match
      /\ \A q \in Requests \ {r} : reqs'[q] = reqs[q]
  BY <1>0, RequestFields DEF ApplyMatch
<1>2. /\ UNCHANGED <<database, stops, changes>>
      /\ reqs[r].at = "inserted" /\ r \in Indexed
  BY <1>0 DEF ApplyMatch, TypeOK
<1>3. TypeOK'
  BY <1>0, <1>1, <1>2 DEF TypeOK, database
<1>4. RecordsAreOwned'
  BY <1>0, <1>1, <1>2 DEF IndInv, TypeOK, RecordsAreOwned, database
<1>5. CreatorsAreStored'
  BY <1>1, <1>2 DEF IndInv, CreatorsAreStored, database
<1>6. InsertsAreHeld'
  <2>1. ASSUME NEW q \in Requests, reqs'[q].at \in {"inserted", "matched"}
        PROVE  inserting'[HashOf[q]] = q
    BY <1>1, <1>2, <2>1 DEF IndInv, InsertsAreHeld, database
  <2>2. ASSUME NEW h \in Hashes, inserting'[h] # Nobody
        PROVE  /\ HashOf[inserting'[h]] = h
               /\ reqs'[inserting'[h]].at \in {"inserted", "matched"}
               /\ stored'[h] = Nobody
    BY <1>0, <1>1, <1>2, <2>2, CommandsAssumption DEF IndInv, TypeOK, InsertsAreHeld, database
  <2> QED
    BY <2>1, <2>2 DEF InsertsAreHeld
<1>7. LosersHaveAWinner'
  BY <1>1, <1>2 DEF IndInv, LosersHaveAWinner, database
<1>8. AnswersAgree'
  BY <1>1, <1>2 DEF IndInv, AnswersAgree, Recorded, Winner, Agrees, database
<1>9. MatchesFollowDonations'
  BY <1>0, <1>1, <1>2, CommandsAssumption
  DEF IndInv, TypeOK, MatchesFollowDonations, RecordsAreOwned, database
<1> QED
  BY <1>3, <1>4, <1>5, <1>6, <1>7, <1>8, <1>9 DEF IndInv

\* A commit publishes a record where there was none, and its match with it.
LEMMA CommitInv ==
    ASSUME IndInv, NEW r \in Requests, Commit(r) PROVE IndInv'
<1> USE DEF Answers
<1>0. TypeOK /\ reqs \in [Requests -> RequestState] /\ HashOf[r] \in Hashes
  BY HashTyped DEF IndInv, TypeOK
<1>1. /\ reqs' \in [Requests -> RequestState]
      /\ reqs'[r].at = "created" /\ reqs'[r].match = reqs[r].match
      /\ \A q \in Requests \ {r} : reqs'[q] = reqs[q]
  BY <1>0, RequestFields DEF Commit
<1>2. /\ stored'[HashOf[r]] = r /\ inserting'[HashOf[r]] = Nobody
      /\ \A h \in Hashes \ {HashOf[r]} : stored'[h] = stored[h] /\ inserting'[h] = inserting[h]
  BY <1>0 DEF Commit, TypeOK
<1>3. /\ reqs[r].at = "matched" /\ r \in Indexed /\ r # Nobody
      /\ inserting[HashOf[r]] = r /\ stored[HashOf[r]] = Nobody
  BY <1>0, CommandsAssumption DEF Commit, TypeOK, IndInv, InsertsAreHeld
<1>4. TypeOK'
  <2>1. /\ stored' \in [Hashes -> Requests \union {Nobody}]
        /\ inserting' \in [Hashes -> Indexed \union {Nobody}]
    BY <1>0 DEF Commit, TypeOK
  <2>2. reqs[r].saw \in Statuses
    BY <1>0, RequestFields
  <2>3. applied \subseteq applied' /\ applied' \subseteq Hashes
    BY <1>0 DEF Commit, TypeOK
  <2> QED
    BY <1>0, <1>1, <1>3, <2>1, <2>2, <2>3 DEF Commit, TypeOK
<1>5. RecordsAreOwned'
  <2> SUFFICES ASSUME NEW h \in Hashes, stored'[h] # Nobody
               PROVE  HashOf[stored'[h]] = h /\ reqs'[stored'[h]].at = "created"
    BY DEF RecordsAreOwned
  <2>1. CASE h = HashOf[r]
    BY <1>1, <1>2, <2>1
  <2>2. CASE h # HashOf[r]
    <3>1. stored'[h] = stored[h] /\ stored[h] \in Requests
      BY <1>0, <1>2, <2>2 DEF TypeOK
    <3>2. HashOf[stored[h]] = h /\ reqs[stored[h]].at = "created"
      BY <3>1 DEF IndInv, RecordsAreOwned
    <3> QED
      BY <1>1, <1>3, <3>1, <3>2
  <2> QED
    BY <2>1, <2>2
<1>6. CreatorsAreStored'
  BY <1>1, <1>2, <1>3, HashTyped, CommandsAssumption DEF IndInv, CreatorsAreStored
<1>7. InsertsAreHeld'
  <2>1. ASSUME NEW q \in Requests, reqs'[q].at \in {"inserted", "matched"}
        PROVE  inserting'[HashOf[q]] = q
    BY <1>1, <1>2, <1>3, <2>1, HashTyped, CommandsAssumption DEF IndInv, InsertsAreHeld
  <2>2. ASSUME NEW h \in Hashes, inserting'[h] # Nobody
        PROVE  /\ HashOf[inserting'[h]] = h
               /\ reqs'[inserting'[h]].at \in {"inserted", "matched"}
               /\ stored'[h] = Nobody
    <3>1. h # HashOf[r]
      BY <1>2, <2>2
    <3>2. inserting'[h] = inserting[h] /\ HashOf[inserting[h]] = h /\ inserting[h] \in Requests
      BY <1>0, <1>2, <2>2, <3>1, CommandsAssumption DEF TypeOK, IndInv, InsertsAreHeld
    <3> QED
      BY <1>1, <1>2, <2>2, <3>1, <3>2 DEF IndInv, InsertsAreHeld
  <2> QED
    BY <2>1, <2>2 DEF InsertsAreHeld
<1>8. LosersHaveAWinner'
  BY <1>1, <1>2, <1>3, HashTyped DEF IndInv, LosersHaveAWinner
<1>9. AnswersAgree'
  BY <1>1, <1>2, <1>3, HashTyped, CommandsAssumption
  DEF IndInv, AnswersAgree, Recorded, Winner, Agrees
<1>10. MatchesFollowDonations'
  <2> SUFFICES ASSUME NEW h \in applied'
               PROVE  stored'[h] \in Indexed /\ reqs'[stored'[h]].match
    BY DEF MatchesFollowDonations
  <2>1. CASE h = HashOf[r]
    <3>1. h \notin applied
      BY <1>3, <2>1, CommandsAssumption DEF IndInv, MatchesFollowDonations
    <3> QED
      BY <1>1, <1>2, <1>3, <2>1, <3>1 DEF Commit
  <2>2. CASE h # HashOf[r]
    <3>1. h \in applied /\ h \in Hashes
      BY <1>0, <2>2 DEF Commit, TypeOK
    <3>2. stored[h] \in Indexed /\ reqs[stored[h]].match /\ stored'[h] = stored[h]
      BY <1>2, <2>2, <3>1 DEF IndInv, MatchesFollowDonations
    <3>3. reqs[stored[h]].at = "created"
      BY <3>1, <3>2, CommandsAssumption DEF IndInv, RecordsAreOwned
    <3> QED
      BY <1>1, <1>3, <3>2, <3>3, CommandsAssumption
  <2> QED
    BY <2>1, <2>2
<1> QED
  BY <1>4, <1>5, <1>6, <1>7, <1>8, <1>9, <1>10 DEF IndInv

\* What happens around the requests touches no record and no request.
LEMMA SurroundingsInv ==
    ASSUME IndInv,
           \/ \E s \in Statuses : SetStatus(s)
           \/ ExpireOffer
           \/ \E h \in Hashes : ProjectMatch(h)
           \/ UNCHANGED vars
    PROVE  IndInv'
<1>1. UNCHANGED <<stored, inserting, rowLock, applied, reqs, stops>>
  BY DEF SetStatus, ExpireOffer, ProjectMatch, vars, database
<1>2. TypeOK'
  <2>1. /\ status' \in Statuses
        /\ offerOpen' \in BOOLEAN /\ projected' \subseteq applied
    BY DEF IndInv, TypeOK, SetStatus, ExpireOffer, ProjectMatch, vars, database
  <2>2. changes' \in 0 .. MaxChanges
    BY CommandsAssumption DEF IndInv, TypeOK, SetStatus, ExpireOffer, ProjectMatch, vars, database
  <2> QED
    BY <1>1, <2>1, <2>2 DEF IndInv, TypeOK
<1>3. RecordsAreOwned' /\ CreatorsAreStored' /\ InsertsAreHeld' /\ LosersHaveAWinner'
  BY <1>1 DEF IndInv, RecordsAreOwned, CreatorsAreStored, InsertsAreHeld, LosersHaveAWinner
<1>4. AnswersAgree'
  BY <1>1 DEF IndInv, AnswersAgree, Recorded, Winner, Agrees
<1>5. MatchesFollowDonations'
  BY <1>1 DEF IndInv, MatchesFollowDonations
<1> QED
  BY <1>2, <1>3, <1>4, <1>5 DEF IndInv

\* Every step of every request keeps the invariant.
LEMMA NextInv == IndInv /\ [Next]_vars => IndInv'
<1> SUFFICES ASSUME IndInv, [Next]_vars PROVE IndInv'
  OBVIOUS
<1>1. ASSUME NEW r \in Requests, Step(r) \/ Waits(r) \/ Stop(r) PROVE IndInv'
  <2>0. TypeOK
    BY DEF IndInv
  <2>1. CASE RefuseMatch(r)
    BY <2>0, <2>1, RollbackInv DEF RefuseMatch, TypeOK
  <2>2. CASE Stop(r)
    BY <2>0, <2>2, RollbackInv, CommandsAssumption DEF Stop, Answers, TypeOK
  <2>3. CASE ReadProject(r) /\ r \in Refused
    <3>1. r \in Indexed
      BY <2>3, CommandsAssumption
    <3> QED
      BY <2>0, <2>3, <3>1, RollbackInv DEF ReadProject, TypeOK
  <2> QED
    BY <1>1, <2>1, <2>2, <2>3, LocalActions, InsertApiInv, InsertIndexedInv, ApplyMatchInv, CommitInv
    DEF Step, Waits
<1> QED
  BY <1>1, SurroundingsInv DEF Next

\* What is promised of every state of the database and every answer, however
\* many clients, indexers and stops there are.
THEOREM InvariantHolds == Spec => []IndInv
<1> QED
  BY InitInv, NextInv, PTL DEF Spec

\* The variables of DonationCommands keep their types.
THEOREM CommandsTypeCorrect == Spec => []TypeOK
<1>1. IndInv => TypeOK
  BY DEF IndInv
<1> QED
  BY <1>1, InvariantHolds, PTL

\* The answers of commandBus.js to overlapping reports of a transaction fit
\* together, whatever the interleaving.
THEOREM AnswersFitTogether == Spec => []AnswersAgree
<1>1. IndInv => AnswersAgree
  BY DEF IndInv
<1> QED
  BY <1>1, InvariantHolds, PTL

\* A match of indexerService.js exists only with the donation it doubles.
THEOREM MatchesHaveDonations == Spec => []MatchesFollowDonations
<1>1. IndInv => MatchesFollowDonations
  BY DEF IndInv
<1> QED
  BY <1>1, InvariantHolds, PTL

\* No later insert or commit replaces a committed donation: a transaction only
\* commits what the unique index had no record of.
THEOREM RecordsAreFinal == Spec => RecordIsFinal
<1> DEFINE Final == \A h \in Hashes : stored[h] # Nobody => stored'[h] = stored[h]
<1>1. IndInv /\ [Next]_vars => [Final]_vars
  <2> SUFFICES ASSUME IndInv, Next PROVE Final
    OBVIOUS
  <2>0. TypeOK
    BY DEF IndInv
  <2>1. ASSUME NEW r \in Requests, InsertApi(r) PROVE Final
    BY <2>0, <2>1, HashTyped DEF InsertApi, TypeOK, Recorded, Winner
  <2>2. ASSUME NEW r \in Requests, Commit(r) PROVE Final
    <3>1. inserting[HashOf[r]] = r /\ r # Nobody
      BY <2>2, CommandsAssumption DEF Commit, IndInv, InsertsAreHeld
    <3>2. stored[HashOf[r]] = Nobody
      BY <3>1, HashTyped DEF IndInv, InsertsAreHeld
    <3> QED
      BY <2>0, <2>2, <3>2 DEF Commit, TypeOK
  <2>3. CASE UNCHANGED stored
    BY <2>3
  <2> QED
    BY <2>1, <2>2, <2>3
    DEF Next, Step, Waits, DecodeFails, HandleDonation, Precheck, ReadProject, StoreProject, InsertIndexed,
        FindWinner, LoseIndexed, ApplyMatch, RefuseMatch, Retry, SetStatus, ExpireOffer,
        ProjectMatch, Stop, Releases, database
<1> QED
  BY <1>1, InvariantHolds, PTL DEF Spec, RecordIsFinal

-----------------------------------------------------------------------------
(***************************************************************************)
(* Proofs about DonationIntegrity, for any number of donations, reviewers, *)
(* processes and appeals.                                                  *)
(*                                                                         *)
(* The invariants of the specification are not inductive.  What they need  *)
(* in addition: a rescore that has read a decision either still finds one  *)
(* or has been overtaken already (RescoresFit); a hearing under way holds  *)
(* a pending appeal that its reviewer may decide (HearingsFit); a case     *)
(* that was decided names its reviewer, and a pending appeal is against    *)
(* that reviewer (DecidedBySomebody, AppealsFit); and only confirmed cases *)
(* are excluded, even after a race with the setting (ExclusionFits).       *)
(***************************************************************************)

RescoresFit ==
    \A p \in Pods :
        /\ rescores[p].at # "idle" => rescores[p].case \in recorded
        /\ rescores[p].at = "read" /\ rescores[p].seen \in Protected =>
               /\ cases[rescores[p].case].decided_by # "none"
               /\ rescores[p].case \in overtaken \/ cases[rescores[p].case].status \in Protected

HearingsFit ==
    \A r \in Reviewers :
        /\ hearings[r].outcome = "grant" => ~hearings[r].enforced
        /\ hearings[r].case # "none" =>
               Pending(hearings[r].case) /\ cases[hearings[r].case].decided_by # r

DecidedBySomebody ==
    \A d \in Donations : cases[d].status \in Protected => cases[d].decided_by # "none"

AppealsFit ==
    \A d \in Donations : \A i \in DOMAIN appeals[d] :
        /\ d \in recorded /\ cases[d].decided_by # "none"
        /\ appeals[d][i].status = "pending" <=> appeals[d][i].decided_by = "none"
        /\ d \notin overtaken /\ appeals[d][i].status = "pending" =>
               appeals[d][i].against = cases[d].decided_by

ExclusionFits ==
    \A d \in Donations \ overtaken : cases[d].excluded => cases[d].status = "confirmed"

IntegrityInv ==
    /\ IntegrityTypes /\ RescoresFit /\ HearingsFit /\ DecidedBySomebody /\ AppealsFit /\ ExclusionFits
    /\ ExclusionIsEnforced /\ AppealIsHeard /\ AppealIsIndependent

-----------------------------------------------------------------------------
(* Steps that leave cases, appeals and hearings alone *)

\* No donation is recorded, decided or appealed initially: IntegrityInv holds.
THEOREM IntegrityInitInv == IntegrityInit => IntegrityInv
<1> SUFFICES ASSUME IntegrityInit PROVE IntegrityInv
  OBVIOUS
<1> USE DEF IntegrityInit
<1>1. IntegrityTypes
  <2>1. [status |-> "none", excluded |-> FALSE, decided_by |-> "none"] \in Case
    BY DEF Case, Status
  <2>2. NoRescore \in Rescore /\ NoHearing \in Hearing /\ NoHearing.case = "none"
    BY DEF NoRescore, Rescore, NoHearing, Hearing, Status
  <2>3. cases \in [Donations -> Case] /\ \A d \in Donations : cases[d].status = "none"
    BY <2>1
  <2>4. appeals \in [Donations -> Seq(AnAppeal)]
    OBVIOUS
  <2>5. challenges \in [Donations -> 0 .. MaxOpen]
    BY IntegrityAssumption
  <2>6. rescores \in [Pods -> Rescore] /\ hearings \in [Reviewers -> Hearing]
    BY <2>2
  <2>7. \A r, q \in Reviewers : hearings[r].case = hearings[q].case /\ hearings[r].case # "none" => r = q
    BY <2>2
  <2> QED
    BY <2>3, <2>4, <2>5, <2>6, <2>7 DEF IntegrityTypes
<1>2. \A d \in Donations : cases[d].status = "none" /\ ~cases[d].excluded /\ appeals[d] = <<>>
  OBVIOUS
<1>3. "none" \notin Protected
  BY DEF Protected
<1>4. RescoresFit /\ HearingsFit /\ DecidedBySomebody
  BY <1>2, <1>3 DEF RescoresFit, HearingsFit, DecidedBySomebody, NoRescore, NoHearing
<1>5. AppealsFit /\ ExclusionFits /\ ExclusionIsEnforced /\ AppealIsHeard /\ AppealIsIndependent
  BY <1>2 DEF AppealsFit, ExclusionFits, ExclusionIsEnforced, AppealIsHeard, AppealIsIndependent, Pending
<1> QED
  BY <1>1, <1>4, <1>5 DEF IntegrityInv

\* What is recorded or queued, and who may appeal, decides nothing.
LEMMA IntegrityQuietStep ==
    ASSUME IntegrityInv, IntegrityTypes', recorded \subseteq recorded',
           UNCHANGED <<cases, appeals, enforcement, rescores, hearings, overtaken, raced>>
    PROVE  IntegrityInv'
<1>1. (RescoresFit /\ HearingsFit)'
  BY DEF IntegrityInv, RescoresFit, HearingsFit, Pending
<1>2. (DecidedBySomebody /\ AppealsFit /\ ExclusionFits)'
  BY DEF IntegrityInv, DecidedBySomebody, AppealsFit, ExclusionFits
<1>3. (ExclusionIsEnforced /\ AppealIsHeard /\ AppealIsIndependent)'
  BY DEF IntegrityInv, ExclusionIsEnforced, AppealIsHeard, AppealIsIndependent, Pending
<1> QED
  BY <1>1, <1>2, <1>3 DEF IntegrityInv

\* A rescore that only reads.
LEMMA RescoreStep ==
    ASSUME IntegrityInv, IntegrityTypes', RescoresFit',
           UNCHANGED <<recorded, cases, appeals, enforcement, hearings, overtaken, raced>>
    PROVE  IntegrityInv'
<1>1. (HearingsFit /\ DecidedBySomebody /\ AppealsFit /\ ExclusionFits)'
  BY DEF IntegrityInv, HearingsFit, DecidedBySomebody, AppealsFit, ExclusionFits, Pending
<1>2. (ExclusionIsEnforced /\ AppealIsHeard /\ AppealIsIndependent)'
  BY DEF IntegrityInv, ExclusionIsEnforced, AppealIsHeard, AppealIsIndependent, Pending
<1> QED
  BY <1>1, <1>2 DEF IntegrityInv

-----------------------------------------------------------------------------
(* Types *)

\* The status of a case, and nothing else of it, changes.
LEMMA StatusUpdate ==
    ASSUME IntegrityTypes, NEW d \in Donations, NEW s \in Status,
           cases' = [cases EXCEPT ![d].status = s]
    PROVE  /\ cases' \in [Donations -> Case]
           /\ cases'[d].status = s
           /\ \A e \in Donations :
                /\ cases'[e].excluded = cases[e].excluded
                /\ cases'[e].decided_by = cases[e].decided_by
                /\ e # d => cases'[e].status = cases[e].status
<1> DEFINE c == [cases[d] EXCEPT !.status = s]
<1>1. PICK k \in Case : k = cases[d]
  BY DEF IntegrityTypes
<1>2. c \in Case /\ c.status = s /\ c.excluded = k.excluded /\ c.decided_by = k.decided_by
  BY <1>1 DEF Case
<1>3. cases \in [Donations -> Case] /\ cases' = [cases EXCEPT ![d] = c]
  BY DEF IntegrityTypes
<1> HIDE DEF c
<1>4. cases' \in [Donations -> Case] /\ cases'[d] = c /\ \A e \in Donations : e # d => cases'[e] = cases[e]
  BY <1>2, <1>3
<1> QED
  BY <1>1, <1>2, <1>4

-----------------------------------------------------------------------------
(* Recording, queueing and challenges *)

\* Recording and queueing donations and issuing challenges leave every case as it is.
LEMMA RecordingKeepsInv ==
    ASSUME IntegrityInv, NEW d \in Donations,
           \/ RecordDonation(d) \/ QueueDonationAssessment(d) \/ SweepHistoricalDonations
           \/ AppealChallenge(d) \/ Expire(d)
    PROVE  IntegrityInv'
<1>0. IntegrityTypes
  BY DEF IntegrityInv
<1>1. CASE RecordDonation(d)
  <2>1. IntegrityTypes'
    BY <1>0, <1>1 DEF IntegrityTypes, RecordDonation
  <2> QED
    BY <1>1, <2>1, IntegrityQuietStep DEF RecordDonation
<1>2. CASE QueueDonationAssessment(d)
  <2>1. IntegrityTypes'
    BY <1>0, <1>2 DEF IntegrityTypes, QueueDonationAssessment
  <2> QED
    BY <1>2, <2>1, IntegrityQuietStep DEF QueueDonationAssessment
<1>3. CASE SweepHistoricalDonations
  <2>1. IntegrityTypes'
    BY <1>0, <1>3 DEF IntegrityTypes, SweepHistoricalDonations
  <2> QED
    BY <1>3, <2>1, IntegrityQuietStep DEF SweepHistoricalDonations
<1>4. CASE AppealChallenge(d)
  <2>1. challenges' \in [Donations -> 0 .. MaxOpen]
    BY <1>0, <1>4, IntegrityAssumption DEF IntegrityTypes, AppealChallenge
  <2>2. IntegrityTypes'
    BY <1>0, <1>4, <2>1 DEF IntegrityTypes, AppealChallenge
  <2> QED
    BY <1>4, <2>2, IntegrityQuietStep DEF AppealChallenge
<1>5. CASE Expire(d)
  <2>1. challenges' \in [Donations -> 0 .. MaxOpen]
    BY <1>0, <1>5, IntegrityAssumption DEF IntegrityTypes, Expire
  <2>2. IntegrityTypes'
    BY <1>0, <1>5, <2>1 DEF IntegrityTypes, Expire
  <2> QED
    BY <1>5, <2>2, IntegrityQuietStep DEF Expire
<1> QED
  BY <1>1, <1>2, <1>3, <1>4, <1>5

-----------------------------------------------------------------------------
(* Assessment *)

\* A status that the score was free to write, whoever wrote it.
LEMMA AssessmentStep ==
    ASSUME IntegrityInv, NEW d \in recorded, NEW s \in NextStatus(cases[d].status),
           cases' = [cases EXCEPT ![d].status = s],
           queue' \subseteq queue, rescores' \in [Pods -> Rescore],
           \A p \in Pods : rescores'[p] \in {rescores[p], NoRescore},
           UNCHANGED <<recorded, appeals, challenges, enforcement, hearings, overtaken, raced>>
    PROVE  IntegrityInv'
<1>0. IntegrityTypes /\ d \in Donations
  BY DEF IntegrityInv, IntegrityTypes
<1>1. s \in Status /\ s # "none" /\ (s \in Protected => s = cases[d].status)
  BY DEF NextStatus, Status, Undecided, Protected
<1>2. /\ cases' \in [Donations -> Case] /\ cases'[d].status = s
      /\ \A e \in Donations :
           /\ cases'[e].excluded = cases[e].excluded
           /\ cases'[e].decided_by = cases[e].decided_by
           /\ e # d => cases'[e].status = cases[e].status
  BY <1>0, <1>1, StatusUpdate
<1>3. \A e \in Donations : cases[e].status \in Protected => cases'[e].status = cases[e].status
  BY <1>2 DEF NextStatus
<1>4. \A e \in Donations : cases'[e].status \in Protected => cases'[e].status = cases[e].status
  BY <1>1, <1>2
<1>5. IntegrityTypes'
  BY <1>0, <1>2 DEF IntegrityTypes
<1>6. RescoresFit'
  <2> SUFFICES ASSUME NEW p \in Pods
               PROVE  /\ rescores'[p].at # "idle" => rescores'[p].case \in recorded'
                      /\ rescores'[p].at = "read" /\ rescores'[p].seen \in Protected =>
                             /\ cases'[rescores'[p].case].decided_by # "none"
                             /\ rescores'[p].case \in overtaken' \/ cases'[rescores'[p].case].status \in Protected
    BY DEF RescoresFit
  <2>1. CASE rescores'[p] = NoRescore
    BY <2>1 DEF NoRescore
  <2>2. CASE rescores'[p] = rescores[p]
    <3>1. RescoresFit /\ recorded \subseteq Donations
      BY <1>0 DEF IntegrityInv, IntegrityTypes
    <3> QED
      BY <1>2, <1>3, <2>2, <3>1 DEF RescoresFit
  <2> QED
    BY <2>1, <2>2
<1>7. HearingsFit'
  <2>1. \A r \in Reviewers : hearings[r].case # "none" => hearings[r].case \in Donations
    BY <1>0 DEF IntegrityTypes, Hearing
  <2> QED
    BY <1>2, <2>1 DEF IntegrityInv, HearingsFit, Pending
<1>8. (DecidedBySomebody /\ AppealsFit /\ ExclusionFits)'
  <2>1. DecidedBySomebody'
    BY <1>2, <1>4 DEF IntegrityInv, DecidedBySomebody
  <2>2. AppealsFit'
    BY <1>2 DEF IntegrityInv, AppealsFit
  <2>3. ExclusionFits'
    BY <1>2, <1>3 DEF IntegrityInv, ExclusionFits, Protected
  <2> QED
    BY <2>1, <2>2, <2>3
<1>9. (ExclusionIsEnforced /\ AppealIsHeard /\ AppealIsIndependent)'
  <2>1. \A e \in Donations : \A t \in Protected : cases'[e].status = t <=> cases[e].status = t
    BY <1>3, <1>4
  <2>2. ExclusionIsEnforced'
    BY <1>2, <2>1 DEF IntegrityInv, ExclusionIsEnforced, Protected
  <2>3. AppealIsHeard'
    BY <2>1 DEF IntegrityInv, AppealIsHeard, Pending, Protected
  <2>4. AppealIsIndependent'
    BY DEF IntegrityInv, AppealIsIndependent
  <2> QED
    BY <2>2, <2>3, <2>4
<1> QED
  BY <1>5, <1>6, <1>7, <1>8, <1>9 DEF IntegrityInv

\* The assessment of a queued donation keeps a status that is protected.
LEMMA ProcessQueueKeepsInv ==
    ASSUME IntegrityInv, NEW d \in Donations, ProcessQueue(d)
    PROVE  IntegrityInv'
<1>1. PICK s \in NextStatus(cases[d].status) : cases' = [cases EXCEPT ![d].status = s]
  BY DEF ProcessQueue
<1>2. d \in recorded /\ rescores \in [Pods -> Rescore]
  BY DEF ProcessQueue, IntegrityInv, IntegrityTypes
<1> QED
  BY <1>1, <1>2, AssessmentStep DEF ProcessQueue

\* A pod that selects a case and reads it fits what it read.
LEMMA ReadingKeepsInv ==
    ASSUME IntegrityInv, NEW p \in Pods, NEW d \in Donations, SelectCandidate(p, d) \/ ReadCase(p)
    PROVE  IntegrityInv'
<1>0. IntegrityTypes /\ RescoresFit /\ DecidedBySomebody
  BY DEF IntegrityInv
<1>1. CASE SelectCandidate(p, d)
  <2> DEFINE new == [at |-> "selected", case |-> d, seen |-> "none"]
  <2>1. new \in Rescore /\ new.at = "selected" /\ new.case = d
    BY DEF Rescore, Status
  <2>2. d \in recorded
    BY <1>0, <1>1 DEF IntegrityTypes, SelectCandidate, Undecided
  <2>3. rescores' = [rescores EXCEPT ![p] = new]
    BY <1>1 DEF SelectCandidate
  <2> HIDE DEF new
  <2>4. rescores' \in [Pods -> Rescore] /\ rescores'[p] = new /\ \A q \in Pods : q # p => rescores'[q] = rescores[q]
    BY <1>0, <2>1, <2>3 DEF IntegrityTypes
  <2>5. IntegrityTypes'
    BY <1>0, <1>1, <2>4 DEF IntegrityTypes, SelectCandidate
  <2>6. RescoresFit'
    BY <1>0, <1>1, <2>1, <2>2, <2>4 DEF RescoresFit, SelectCandidate
  <2> QED
    BY <1>1, <2>5, <2>6, RescoreStep DEF SelectCandidate
<1>2. CASE ReadCase(p)
  <2> DEFINE c == rescores[p].case
             new == [rescores[p] EXCEPT !.at = "read", !.seen = cases[c].status]
  <2>1. c \in recorded /\ c \in Donations /\ cases[c].status \in Status
    BY <1>0, <1>2 DEF IntegrityTypes, RescoresFit, ReadCase, Case
  <2>2. new \in Rescore /\ new.case = c /\ new.seen = cases[c].status
    <3>1. PICK k \in Rescore : k = rescores[p]
      BY <1>0 DEF IntegrityTypes
    <3> QED
      BY <2>1, <3>1 DEF Rescore
  <2>3. rescores' = [rescores EXCEPT ![p] = new]
    BY <1>2 DEF ReadCase
  <2> HIDE DEF new
  <2>4. rescores' \in [Pods -> Rescore] /\ rescores'[p] = new /\ \A q \in Pods : q # p => rescores'[q] = rescores[q]
    BY <1>0, <2>2, <2>3 DEF IntegrityTypes
  <2>5. IntegrityTypes'
    BY <1>0, <1>2, <2>4 DEF IntegrityTypes, ReadCase
  <2>6. cases[c].status \in Protected => cases[c].decided_by # "none"
    BY <1>0, <2>1 DEF DecidedBySomebody
  <2>7. RescoresFit'
    BY <1>0, <1>2, <2>1, <2>2, <2>4, <2>6 DEF RescoresFit, ReadCase
  <2> QED
    BY <1>2, <2>5, <2>7, RescoreStep DEF ReadCase
<1> QED
  BY <1>1, <1>2

\* A rescore that writes back what it read either finds nothing decided since,
\* and is like any other assessment, or overtakes the case.
LEMMA WritingKeepsInv ==
    ASSUME IntegrityInv, NEW p \in Pods, WriteCase(p)
    PROVE  IntegrityInv'
<1> DEFINE d == rescores[p].case
           seen == rescores[p].seen
<1>0. IntegrityTypes /\ RescoresFit
  BY DEF IntegrityInv
<1>1. d \in recorded /\ d \in Donations
  BY <1>0 DEF IntegrityTypes, RescoresFit, WriteCase
<1>2. PICK s \in NextStatus(seen) :
        /\ cases' = [cases EXCEPT ![d].status = s]
        /\ overtaken' = IF cases[d].status \in Protected \ {s} THEN overtaken \union {d} ELSE overtaken
  BY DEF WriteCase
<1>3. seen \in Status /\ s \in Status /\ s # "none" /\ (s \in Protected => s = seen)
  <2>1. seen \in Status
    BY <1>0 DEF IntegrityTypes, Rescore
  <2> QED
    BY <2>1, <1>2 DEF NextStatus, Status, Undecided, Protected
<1>4. /\ cases' \in [Donations -> Case] /\ cases'[d].status = s
      /\ \A e \in Donations :
           /\ cases'[e].excluded = cases[e].excluded
           /\ cases'[e].decided_by = cases[e].decided_by
           /\ e # d => cases'[e].status = cases[e].status
  BY <1>0, <1>1, <1>2, <1>3, StatusUpdate
<1>5. rescores' \in [Pods -> Rescore] /\ \A q \in Pods : rescores'[q] \in {rescores[q], NoRescore}
  <2>1. NoRescore \in Rescore
    BY DEF NoRescore, Rescore, Status
  <2> QED
    BY <1>0, <2>1 DEF IntegrityTypes, WriteCase
<1>6. /\ UNCHANGED <<recorded, queue, appeals, challenges, enforcement, hearings, raced>>
      /\ overtaken \subseteq overtaken'
  BY <1>2 DEF WriteCase
<1> HIDE DEF d, seen
<1>7. CASE d \notin overtaken'
  <2>1. UNCHANGED overtaken /\ d \notin overtaken /\ (cases[d].status \in Protected => cases[d].status = s)
    BY <1>2, <1>7
  <2>2. seen \in Protected => cases[d].status \in Protected
    BY <1>0, <2>1 DEF RescoresFit, WriteCase, d, seen
  <2>3. s \in NextStatus(cases[d].status)
    BY <1>2, <1>3, <2>1, <2>2 DEF NextStatus
  <2> QED
    BY <1>1, <1>2, <1>5, <1>6, <2>1, <2>3, AssessmentStep
<1>8. CASE d \in overtaken'
  <2>1. IntegrityTypes'
    BY <1>0, <1>1, <1>4, <1>5, <1>6, <1>2 DEF IntegrityTypes
  <2>2. RescoresFit'
    <3> SUFFICES ASSUME NEW q \in Pods
                 PROVE  /\ rescores'[q].at # "idle" => rescores'[q].case \in recorded'
                        /\ rescores'[q].at = "read" /\ rescores'[q].seen \in Protected =>
                               /\ cases'[rescores'[q].case].decided_by # "none"
                               /\ \/ rescores'[q].case \in overtaken'
                                  \/ cases'[rescores'[q].case].status \in Protected
      BY DEF RescoresFit
    <3>1. CASE rescores'[q] = NoRescore
      BY <3>1 DEF NoRescore
    <3>2. CASE rescores'[q] = rescores[q]
      <4>1. rescores[q].at # "idle" => rescores[q].case \in recorded /\ rescores[q].case \in Donations
        BY <1>0 DEF RescoresFit, IntegrityTypes
      <4> QED
        BY <1>0, <1>4, <1>6, <1>8, <3>2, <4>1 DEF RescoresFit
    <3> QED
      BY <1>5, <3>1, <3>2
  <2>3. HearingsFit'
    <3>1. \A r \in Reviewers : hearings[r].case # "none" => hearings[r].case \in Donations
      BY <1>0 DEF IntegrityTypes, Hearing
    <3> QED
      BY <1>4, <1>6, <3>1 DEF IntegrityInv, HearingsFit, Pending
  <2>4. DecidedBySomebody'
    <3>1. s \in Protected => cases[d].decided_by # "none"
      BY <1>0, <1>3 DEF RescoresFit, WriteCase, d, seen
    <3> QED
      BY <1>4, <3>1 DEF IntegrityInv, DecidedBySomebody
  <2>5. (AppealsFit /\ ExclusionFits)'
    BY <1>4, <1>6, <1>8 DEF IntegrityInv, AppealsFit, ExclusionFits
  <2>6. (ExclusionIsEnforced /\ AppealIsHeard /\ AppealIsIndependent)'
    BY <1>4, <1>6, <1>8 DEF IntegrityInv, ExclusionIsEnforced, AppealIsHeard, AppealIsIndependent, Pending
  <2> QED
    BY <2>1, <2>2, <2>3, <2>4, <2>5, <2>6 DEF IntegrityInv
<1> QED
  BY <1>7, <1>8

-----------------------------------------------------------------------------
(* Review *)

\* A whole case is written while nobody else holds its row.
LEMMA CaseUpdate ==
    ASSUME IntegrityTypes, NEW d \in Donations, NEW c \in Case, cases' = [cases EXCEPT ![d] = c]
    PROVE  /\ cases' \in [Donations -> Case] /\ cases'[d] = c
           /\ \A e \in Donations : e # d => cases'[e] = cases[e]
BY DEF IntegrityTypes

\* A decided case fits every rescore.
LEMMA DecidedFitsRescores ==
    ASSUME IntegrityInv, NEW d \in Donations, cases'[d].status \in Protected, cases'[d].decided_by # "none",
           \A e \in Donations : e # d => cases'[e] = cases[e],
           UNCHANGED <<recorded, rescores, overtaken>>
    PROVE  RescoresFit'
<1>1. RescoresFit /\ \A p \in Pods : rescores[p].at # "idle" => rescores[p].case \in Donations
  BY DEF IntegrityInv, RescoresFit, IntegrityTypes
<1> QED
  BY <1>1 DEF RescoresFit

\* A decision names its reviewer, and excludes when it confirms under enforcement.
LEMMA DecideKeepsInv ==
    ASSUME IntegrityInv, NEW r \in Reviewers, NEW d \in Donations,
           NEW action \in {"confirm", "dismiss"}, Decide(r, d, action)
    PROVE  IntegrityInv'
<1> DEFINE c == [status |-> IF action = "confirm" THEN "confirmed" ELSE "dismissed",
                 excluded |-> action = "confirm" /\ enforcement, decided_by |-> r]
<1>0. IntegrityTypes /\ r # "none" /\ d \notin {"none"}
  BY IntegrityAssumption DEF IntegrityInv
<1>1. /\ c \in Case /\ c.status \in Protected \ {"appealed"} /\ c.decided_by = r
      /\ c.excluded <=> c.status = "confirmed" /\ enforcement
  BY DEF Case, Status, Protected
<1>2. cases' = [cases EXCEPT ![d] = c]
  BY DEF Decide
<1> HIDE DEF c
<1>3. cases' \in [Donations -> Case] /\ cases'[d] = c /\ \A e \in Donations : e # d => cases'[e] = cases[e]
  BY <1>0, <1>1, <1>2, CaseUpdate
<1>4. UNCHANGED <<recorded, queue, appeals, challenges, enforcement, rescores, hearings, overtaken, raced>>
  BY DEF Decide
<1>5. cases[d].status \in Undecided /\ cases[d].status # "none" /\ cases[d].status # "appealed" /\ ~Locked(d)
  BY DEF Decide, Undecided
<1>6. IntegrityTypes'
  BY <1>0, <1>3, <1>4, <1>5 DEF IntegrityTypes
<1>7. RescoresFit'
  BY <1>0, <1>1, <1>3, <1>4, DecidedFitsRescores
<1>8. HearingsFit'
  <2>1. \A q \in Reviewers : hearings[q].case # "none" => hearings[q].case \in Donations /\ hearings[q].case # d
    BY <1>0, <1>5 DEF IntegrityTypes, Hearing, Locked
  <2> QED
    BY <1>3, <1>4, <2>1 DEF IntegrityInv, HearingsFit, Pending
<1>9. DecidedBySomebody'
  BY <1>0, <1>1, <1>3 DEF IntegrityInv, DecidedBySomebody
<1>10. AppealsFit'
  <2>1. d \notin overtaken => ~Pending(d)
    BY <1>5 DEF IntegrityInv, AppealIsHeard
  <2> QED
    BY <1>0, <1>1, <1>3, <1>4, <2>1 DEF IntegrityInv, AppealsFit, Pending
<1>11. (ExclusionFits /\ ExclusionIsEnforced)'
  BY <1>1, <1>3, <1>4 DEF IntegrityInv, ExclusionFits, ExclusionIsEnforced
<1>12. (AppealIsHeard /\ AppealIsIndependent)'
  BY <1>1, <1>3, <1>4, <1>5 DEF IntegrityInv, AppealIsHeard, AppealIsIndependent, Pending
<1> QED
  BY <1>6, <1>7, <1>8, <1>9, <1>10, <1>11, <1>12 DEF IntegrityInv

\* An appeal is pending against the reviewer who decided the case.
LEMMA AppealKeepsInv ==
    ASSUME IntegrityInv, NEW d \in Donations, Appeal(d)
    PROVE  IntegrityInv'
<1> DEFINE c == Suspended(cases[d])
           a == [status |-> "pending", against |-> cases[d].decided_by, decided_by |-> "none"]
<1>0. IntegrityTypes /\ cases[d].status = "confirmed" /\ ~Locked(d) /\ ~Pending(d)
  BY DEF IntegrityInv, Appeal
<1>1. /\ c \in Case /\ c.status = "appealed" /\ ~c.excluded
      /\ c.decided_by = cases[d].decided_by /\ c.decided_by # "none" /\ d \in recorded
  <2>1. PICK k \in Case : k = cases[d]
    BY <1>0 DEF IntegrityTypes
  <2>2. k.decided_by # "none" /\ d \in recorded
    BY <1>0, <2>1 DEF IntegrityInv, DecidedBySomebody, IntegrityTypes, Protected
  <2> QED
    BY <2>1, <2>2 DEF Suspended, Case, Status, Protected
<1>2. /\ a \in AnAppeal /\ a.status = "pending" /\ a.decided_by = "none"
      /\ a.against = cases[d].decided_by /\ a.against \in Reviewers
  BY <1>0, <1>1 DEF IntegrityTypes, Case, AnAppeal
<1>3. /\ cases' = [cases EXCEPT ![d] = c]
      /\ appeals' = [appeals EXCEPT ![d] = Append(appeals[d], a)]
      /\ challenges' = [challenges EXCEPT ![d] = @ - 1] /\ challenges[d] > 0
      /\ UNCHANGED <<recorded, queue, enforcement, rescores, hearings, overtaken, raced>>
  BY DEF Appeal, Challenged
<1> HIDE DEF c, a
<1>4. cases' \in [Donations -> Case] /\ cases'[d] = c /\ \A e \in Donations : e # d => cases'[e] = cases[e]
  BY <1>0, <1>1, <1>3, CaseUpdate
<1>5. /\ appeals' \in [Donations -> Seq(AnAppeal)]
      /\ \A e \in Donations : e # d => appeals'[e] = appeals[e]
      /\ appeals[d] \in Seq(AnAppeal) /\ appeals'[d] = Append(appeals[d], a)
  BY <1>0, <1>2, <1>3 DEF IntegrityTypes
<1>6. /\ Len(appeals[d]) \in Nat
      /\ DOMAIN appeals'[d] = 1 .. Len(appeals[d]) + 1 /\ DOMAIN appeals[d] = 1 .. Len(appeals[d])
      /\ appeals'[d][Len(appeals[d]) + 1] = a
      /\ \A i \in 1 .. Len(appeals[d]) : appeals'[d][i] = appeals[d][i]
  BY <1>2, <1>5
<1>7. /\ \A i \in DOMAIN appeals'[d] : appeals'[d][i] = a \/ (i \in DOMAIN appeals[d] /\ appeals'[d][i] = appeals[d][i])
      /\ Len(appeals[d]) + 1 \in DOMAIN appeals'[d]
  BY <1>6
<1>8. IntegrityTypes'
  <2>1. challenges' \in [Donations -> 0 .. MaxOpen]
    BY <1>0, <1>3, IntegrityAssumption DEF IntegrityTypes
  <2> QED
    BY <1>0, <1>1, <1>3, <1>4, <1>5, <2>1 DEF IntegrityTypes
<1>9. RescoresFit'
  BY <1>1, <1>3, <1>4, DecidedFitsRescores DEF Protected
<1>10. HearingsFit'
  <2>1. \A q \in Reviewers : hearings[q].case # "none" => hearings[q].case \in Donations /\ hearings[q].case # d
    BY <1>0 DEF IntegrityTypes, Hearing, Locked
  <2> QED
    BY <1>3, <1>4, <1>5, <2>1 DEF IntegrityInv, HearingsFit, Pending
<1>11. DecidedBySomebody'
  BY <1>1, <1>4 DEF IntegrityInv, DecidedBySomebody
<1>12. AppealsFit'
  BY <1>1, <1>2, <1>3, <1>4, <1>5, <1>7 DEF IntegrityInv, AppealsFit
<1>13. (ExclusionFits /\ ExclusionIsEnforced)'
  BY <1>1, <1>3, <1>4 DEF IntegrityInv, ExclusionFits, ExclusionIsEnforced
<1>14. AppealIsHeard'
  <2>1. Pending(d)'
    BY <1>2, <1>6, <1>7 DEF Pending
  <2> QED
    BY <1>1, <1>3, <1>4, <1>5, <2>1 DEF IntegrityInv, AppealIsHeard, Pending
<1>15. AppealIsIndependent'
  BY <1>1, <1>2, <1>3, <1>5, <1>7 DEF IntegrityInv, AppealIsIndependent
<1> QED
  BY <1>8, <1>9, <1>10, <1>11, <1>12, <1>13, <1>14, <1>15 DEF IntegrityInv

\* A hearing is held on a pending appeal, by another reviewer than decided the case.
LEMMA HearAppealKeepsInv ==
    ASSUME IntegrityInv, NEW r \in Reviewers, NEW d \in Donations,
           NEW outcome \in {"grant", "deny"}, HearAppeal(r, d, outcome)
    PROVE  IntegrityInv'
<1> DEFINE h == [case |-> d, outcome |-> outcome, enforced |-> outcome = "deny" /\ enforcement]
<1>0. IntegrityTypes /\ Pending(d) /\ ~Locked(d) /\ cases[d].decided_by # r
  BY DEF IntegrityInv, HearAppeal, MayHear
<1>1. h \in Hearing /\ h.case = d /\ (h.outcome = "grant" => ~h.enforced)
  BY DEF Hearing
<1>2. hearings' = [hearings EXCEPT ![r] = h]
  BY DEF HearAppeal
<1>3. UNCHANGED <<recorded, queue, cases, appeals, challenges, enforcement, rescores, overtaken, raced>>
  BY DEF HearAppeal
<1> HIDE DEF h
<1>4. hearings' \in [Reviewers -> Hearing] /\ hearings'[r] = h /\ \A q \in Reviewers : q # r => hearings'[q] = hearings[q]
  BY <1>0, <1>1, <1>2 DEF IntegrityTypes
<1>5. IntegrityTypes'
  <2>1. \A q \in Reviewers : hearings[q].case # d
    BY <1>0 DEF Locked
  <2> QED
    BY <1>0, <1>1, <1>3, <1>4, <2>1 DEF IntegrityTypes
<1>6. HearingsFit'
  BY <1>0, <1>1, <1>3, <1>4 DEF IntegrityInv, HearingsFit, Pending
<1>7. (RescoresFit /\ DecidedBySomebody /\ AppealsFit /\ ExclusionFits)'
  BY <1>3 DEF IntegrityInv, RescoresFit, DecidedBySomebody, AppealsFit, ExclusionFits
<1>8. (ExclusionIsEnforced /\ AppealIsHeard /\ AppealIsIndependent)'
  BY <1>3 DEF IntegrityInv, ExclusionIsEnforced, AppealIsHeard, AppealIsIndependent, Pending
<1> QED
  BY <1>5, <1>6, <1>7, <1>8 DEF IntegrityInv

\* The pending appeal gets its outcome and the reviewer's name.
LEMMA SettledAppeals ==
    ASSUME IntegrityTypes, NEW d \in Donations, NEW r \in Reviewers, NEW outcome \in {"grant", "deny"}
    PROVE  /\ Settled(d, r, outcome) \in Seq(AnAppeal)
           /\ DOMAIN Settled(d, r, outcome) = DOMAIN appeals[d]
           /\ \A i \in DOMAIN appeals[d] :
                LET new == Settled(d, r, outcome)[i]  old == appeals[d][i] IN
                /\ new.status # "pending" /\ new.against = old.against
                /\ new.decided_by = IF old.status = "pending" THEN r ELSE old.decided_by
<1> DEFINE new(i) == IF appeals[d][i].status # "pending" THEN appeals[d][i]
                     ELSE [appeals[d][i] EXCEPT !.status = IF outcome = "grant" THEN "granted" ELSE "denied", !.decided_by = r]
<1>1. appeals[d] \in Seq(AnAppeal) /\ Len(appeals[d]) \in Nat /\ DOMAIN appeals[d] = 1 .. Len(appeals[d])
  BY DEF IntegrityTypes
<1>2. ASSUME NEW i \in DOMAIN appeals[d]
      PROVE  /\ new(i) \in AnAppeal /\ new(i).status # "pending" /\ new(i).against = appeals[d][i].against
             /\ new(i).decided_by = IF appeals[d][i].status = "pending" THEN r ELSE appeals[d][i].decided_by
  <2>1. PICK a \in AnAppeal : a = appeals[d][i]
    BY <1>1, <1>2
  <2>2. CASE a.status # "pending"
    BY <2>1, <2>2
  <2>3. CASE a.status = "pending"
    BY <2>1, <2>3 DEF AnAppeal
  <2> QED
    BY <2>2, <2>3
<1>3. Settled(d, r, outcome) = [i \in DOMAIN appeals[d] |-> new(i)]
  BY DEF Settled
<1> HIDE DEF new
<1> QED
  BY <1>1, <1>2, <1>3

\* The outcome of a hearing decides both the appeal and the case.
LEMMA DecideAppealKeepsInv ==
    ASSUME IntegrityInv, NEW r \in Reviewers, DecideAppeal(r)
    PROVE  IntegrityInv'
<1> DEFINE h == hearings[r]
           d == h.case
           c == [cases[d] EXCEPT !.status = IF h.outcome = "grant" THEN "dismissed" ELSE "confirmed",
                                 !.excluded = h.enforced]
           s == Settled(d, r, h.outcome)
<1>0. IntegrityTypes /\ h \in Hearing /\ d # "none"
  BY DEF IntegrityInv, IntegrityTypes, DecideAppeal
<1>1. /\ d \in Donations /\ h.outcome \in {"grant", "deny"} /\ h.enforced \in BOOLEAN
      /\ Pending(d) /\ cases[d].decided_by # r /\ (h.outcome = "grant" => ~h.enforced)
  BY <1>0 DEF Hearing, IntegrityInv, HearingsFit
<1>2. d \in recorded /\ cases[d].decided_by # "none" /\ (d \notin overtaken => cases[d].status = "appealed")
  BY <1>1 DEF IntegrityInv, AppealsFit, AppealIsHeard, Pending
<1>3. /\ c \in Case /\ c.status = (IF h.outcome = "grant" THEN "dismissed" ELSE "confirmed")
      /\ c.excluded = h.enforced /\ c.decided_by = cases[d].decided_by
  <2>1. PICK k \in Case : k = cases[d]
    BY <1>0, <1>1 DEF IntegrityTypes
  <2> QED
    BY <1>1, <2>1 DEF Case, Status, Protected
<1>4. /\ appeals' = [appeals EXCEPT ![d] = s]
      /\ cases' = [cases EXCEPT ![d] = c]
      /\ hearings' = [hearings EXCEPT ![r] = NoHearing]
      /\ raced' = IF h.outcome = "deny" /\ h.enforced # enforcement THEN raced \union {d} ELSE raced
      /\ UNCHANGED <<recorded, queue, challenges, enforcement, rescores, overtaken>>
  BY DEF DecideAppeal
<1>5. /\ s \in Seq(AnAppeal) /\ DOMAIN s = DOMAIN appeals[d]
      /\ \A i \in DOMAIN appeals[d] :
           /\ s[i].status # "pending" /\ s[i].against = appeals[d][i].against
           /\ s[i].decided_by = IF appeals[d][i].status = "pending" THEN r ELSE appeals[d][i].decided_by
  BY <1>0, <1>1, SettledAppeals
<1> HIDE DEF c, s
<1>6. cases' \in [Donations -> Case] /\ cases'[d] = c /\ \A e \in Donations : e # d => cases'[e] = cases[e]
  BY <1>0, <1>1, <1>3, <1>4, CaseUpdate
<1>7. /\ appeals' \in [Donations -> Seq(AnAppeal)] /\ appeals'[d] = s
      /\ \A e \in Donations : e # d => appeals'[e] = appeals[e]
  BY <1>0, <1>1, <1>4, <1>5 DEF IntegrityTypes
<1>8. /\ hearings' \in [Reviewers -> Hearing] /\ hearings'[r].case = "none" /\ hearings'[r].outcome = "grant" /\ ~hearings'[r].enforced
      /\ \A q \in Reviewers : q # r => hearings'[q] = hearings[q]
  BY <1>0, <1>4 DEF IntegrityTypes, NoHearing, Hearing
<1>9. raced \subseteq raced' /\ raced' \subseteq Donations /\ (h.outcome = "deny" /\ h.enforced # enforcement => d \in raced')
  BY <1>0, <1>1, <1>4 DEF IntegrityTypes
<1>10. IntegrityTypes'
  BY <1>0, <1>2, <1>4, <1>6, <1>7, <1>8, <1>9 DEF IntegrityTypes
<1>11. c.status \in Protected \ {"appealed"} /\ c.decided_by # "none"
  BY <1>2, <1>3 DEF Protected
<1>12. RescoresFit'
  BY <1>1, <1>4, <1>6, <1>11, DecidedFitsRescores
<1>13. HearingsFit'
  <2>1. \A q \in Reviewers : q # r /\ hearings[q].case # "none" => hearings[q].case \in Donations /\ hearings[q].case # d
    BY <1>0 DEF IntegrityTypes, Hearing
  <2> QED
    BY <1>6, <1>7, <1>8, <2>1 DEF IntegrityInv, HearingsFit, Pending
<1>14. DecidedBySomebody'
  BY <1>6, <1>11 DEF IntegrityInv, DecidedBySomebody
<1>15. AppealsFit'
  <2>1. \A i \in DOMAIN s : s[i].decided_by # "none"
    BY <1>1, <1>5, IntegrityAssumption DEF IntegrityInv, AppealsFit
  <2> QED
    BY <1>2, <1>3, <1>4, <1>5, <1>6, <1>7, <2>1 DEF IntegrityInv, AppealsFit
<1>16. ExclusionFits'
  BY <1>1, <1>3, <1>4, <1>6 DEF IntegrityInv, ExclusionFits
<1>17. ExclusionIsEnforced'
  <2>1. d \notin raced' => (c.excluded <=> c.status = "confirmed" /\ enforcement)
    BY <1>0, <1>1, <1>3, <1>9 DEF IntegrityTypes
  <2> QED
    BY <1>4, <1>6, <1>9, <2>1 DEF IntegrityInv, ExclusionIsEnforced
<1>18. AppealIsHeard'
  BY <1>4, <1>5, <1>6, <1>7, <1>11 DEF IntegrityInv, AppealIsHeard, Pending
<1>19. AppealIsIndependent'
  <2>1. \A i \in DOMAIN s : d \notin overtaken => s[i].decided_by # s[i].against
    BY <1>1, <1>5 DEF IntegrityInv, AppealsFit, AppealIsIndependent
  <2> QED
    BY <1>4, <1>7, <2>1 DEF IntegrityInv, AppealIsIndependent
<1> QED
  BY <1>10, <1>12, <1>13, <1>14, <1>15, <1>16, <1>17, <1>18, <1>19 DEF IntegrityInv

-----------------------------------------------------------------------------
(* Enforcement *)

\* Enforcement switched on excludes what is confirmed, switched off readmits everything.
LEMMA SwitchKeepsInv ==
    ASSUME IntegrityInv, EnableEnforcement \/ DisableEnforcement
    PROVE  IntegrityInv'
<1>0. IntegrityTypes
  BY DEF IntegrityInv
<1>1. /\ cases' \in [Donations -> Case] /\ enforcement' \in BOOLEAN /\ raced' = {}
      /\ \A d \in Donations :
           /\ cases'[d].status = cases[d].status /\ cases'[d].decided_by = cases[d].decided_by
           /\ cases'[d].excluded <=> enforcement' /\ (cases[d].excluded \/ cases[d].status = "confirmed")
  <2>1. CASE EnableEnforcement
    <3> DEFINE new(d) == IF cases[d].status = "confirmed" THEN [cases[d] EXCEPT !.excluded = TRUE] ELSE cases[d]
    <3>1. ASSUME NEW d \in Donations
          PROVE  /\ new(d) \in Case /\ new(d).status = cases[d].status /\ new(d).decided_by = cases[d].decided_by
                 /\ new(d).excluded <=> cases[d].excluded \/ cases[d].status = "confirmed"
      <4>1. PICK k \in Case : k = cases[d]
        BY <1>0, <3>1 DEF IntegrityTypes
      <4> QED
        BY <4>1 DEF Case
    <3>2. cases' = [d \in Donations |-> new(d)] /\ enforcement' = TRUE /\ raced' = {}
      BY <2>1 DEF EnableEnforcement
    <3> HIDE DEF new
    <3> QED
      BY <3>1, <3>2
  <2>2. CASE DisableEnforcement
    <3> DEFINE new(d) == [cases[d] EXCEPT !.excluded = FALSE]
    <3>1. ASSUME NEW d \in Donations
          PROVE  /\ new(d) \in Case /\ new(d).status = cases[d].status /\ new(d).decided_by = cases[d].decided_by
                 /\ ~new(d).excluded
      <4>1. PICK k \in Case : k = cases[d]
        BY <1>0, <3>1 DEF IntegrityTypes
      <4> QED
        BY <4>1 DEF Case
    <3>2. cases' = [d \in Donations |-> new(d)] /\ enforcement' = FALSE /\ raced' = {}
      BY <2>2 DEF DisableEnforcement
    <3> HIDE DEF new
    <3> QED
      BY <3>1, <3>2
  <2> QED
    BY <2>1, <2>2
<1>2. UNCHANGED <<recorded, queue, appeals, challenges, rescores, hearings, overtaken>>
  BY DEF EnableEnforcement, DisableEnforcement
<1>3. IntegrityTypes'
  BY <1>0, <1>1, <1>2 DEF IntegrityTypes
<1>4. RescoresFit'
  <2>1. RescoresFit /\ \A p \in Pods : rescores[p].at # "idle" => rescores[p].case \in Donations
    BY DEF IntegrityInv, RescoresFit, IntegrityTypes
  <2> QED
    BY <1>1, <1>2, <2>1 DEF RescoresFit
<1>5. HearingsFit'
  <2>1. \A r \in Reviewers : hearings[r].case # "none" => hearings[r].case \in Donations
    BY <1>0 DEF IntegrityTypes, Hearing
  <2> QED
    BY <1>1, <1>2, <2>1 DEF IntegrityInv, HearingsFit, Pending
<1>6. (DecidedBySomebody /\ AppealsFit)'
  BY <1>1, <1>2 DEF IntegrityInv, DecidedBySomebody, AppealsFit
<1>7. (ExclusionFits /\ ExclusionIsEnforced)'
  BY <1>1, <1>2 DEF IntegrityInv, ExclusionFits, ExclusionIsEnforced
<1>8. (AppealIsHeard /\ AppealIsIndependent)'
  BY <1>1, <1>2 DEF IntegrityInv, AppealIsHeard, AppealIsIndependent, Pending
<1> QED
  BY <1>3, <1>4, <1>5, <1>6, <1>7, <1>8 DEF IntegrityInv

-----------------------------------------------------------------------------
(* The specification *)

\* Every step of DonationIntegrity keeps IntegrityInv.
THEOREM IntegrityNextInv == IntegrityInv /\ [IntegrityNext]_integrityVars => IntegrityInv'
<1> SUFFICES ASSUME IntegrityInv, [IntegrityNext]_integrityVars PROVE IntegrityInv'
  OBVIOUS
<1>1. CASE UNCHANGED integrityVars
  <2>1. IntegrityTypes'
    BY <1>1 DEF IntegrityInv, IntegrityTypes, integrityVars
  <2> QED
    BY <1>1, <2>1, IntegrityQuietStep DEF integrityVars
<1>2. ASSUME NEW d \in Donations, ProcessQueue(d) PROVE IntegrityInv'
  BY <1>2, ProcessQueueKeepsInv
<1>3. ASSUME NEW d \in Donations,
             \/ RecordDonation(d) \/ QueueDonationAssessment(d) \/ AppealChallenge(d) \/ Expire(d)
      PROVE  IntegrityInv'
  BY <1>3, RecordingKeepsInv
<1>4. ASSUME NEW d \in Donations, NEW p \in Pods, SelectCandidate(p, d) PROVE IntegrityInv'
  BY <1>4, ReadingKeepsInv
<1>5. ASSUME NEW d \in Donations, Appeal(d) PROVE IntegrityInv'
  BY <1>5, AppealKeepsInv
<1>6. ASSUME NEW d \in Donations, NEW r \in Reviewers, NEW action \in {"confirm", "dismiss"}, Decide(r, d, action)
      PROVE  IntegrityInv'
  BY <1>6, DecideKeepsInv
<1>7. ASSUME NEW d \in Donations, NEW r \in Reviewers, NEW outcome \in {"grant", "deny"}, HearAppeal(r, d, outcome)
      PROVE  IntegrityInv'
  BY <1>7, HearAppealKeepsInv
<1>8. ASSUME NEW p \in Pods, ReadCase(p) PROVE IntegrityInv'
  <2>1. rescores[p].case \in Donations
    BY <1>8 DEF IntegrityInv, IntegrityTypes, RescoresFit, ReadCase
  <2> QED
    BY <1>8, <2>1, ReadingKeepsInv
<1>9. ASSUME NEW p \in Pods, WriteCase(p) PROVE IntegrityInv'
  BY <1>9, WritingKeepsInv
<1>10. ASSUME NEW r \in Reviewers, DecideAppeal(r) PROVE IntegrityInv'
  BY <1>10, DecideAppealKeepsInv
<1>11. CASE SweepHistoricalDonations
  <2>1. IntegrityTypes'
    BY <1>11 DEF IntegrityInv, IntegrityTypes, SweepHistoricalDonations
  <2> QED
    BY <1>11, <2>1, IntegrityQuietStep DEF SweepHistoricalDonations
<1>12. CASE EnableEnforcement \/ DisableEnforcement
  BY <1>12, SwitchKeepsInv
<1> QED
  BY <1>1, <1>2, <1>3, <1>4, <1>5, <1>6, <1>7, <1>8, <1>9, <1>10, <1>11, <1>12 DEF IntegrityNext

\* The inductive invariant of DonationIntegrity holds in every behaviour.
THEOREM IntegrityInvariantHolds == IntegritySpec => []IntegrityInv
BY IntegrityInitInv, IntegrityNextInv, PTL DEF IntegritySpec

\* Whoever is excluded is confirmed while enforcement is enabled, and the other
\* way round, for any number of donations, processes and reviewers, outside the
\* two races: a rescore that overwrites a decision, and a denial of an appeal
\* (routes/integrity.js) that read the setting before it changed.
THEOREM ExclusionsAreEnforced == IntegritySpec => []ExclusionIsEnforced
<1>1. IntegrityInv => ExclusionIsEnforced
  BY DEF IntegrityInv
<1> QED
  BY <1>1, IntegrityInvariantHolds, PTL

\* However decisions, appeals and hearings of any number of reviewers overlap,
\* an appeal is pending exactly while its case is appealed, and is decided by
\* somebody else than the reviewer it is against.
THEOREM AppealsGetTheirHearing == IntegritySpec => []AppealsAreHeard
<1>1. IntegrityInv => AppealsAreHeard
  BY DEF IntegrityInv, AppealsAreHeard
<1> QED
  BY <1>1, IntegrityInvariantHolds, PTL

\* A step changes a decision of a reviewer only by an appeal, by the decision
\* on it, or by a rescore outside a transaction (donationIntegrity.js).
LEMMA DecisionStands ==
    ASSUME IntegrityInv, [IntegrityNext]_integrityVars, NEW d \in Donations,
           cases[d].status \in Protected, cases[d].status # cases'[d].status
    PROVE  \/ cases[d].status = "confirmed" /\ cases'[d].status = "appealed" /\ Len(appeals'[d]) > Len(appeals[d])
           \/ /\ cases[d].status = "appealed" /\ cases'[d].status \in {"confirmed", "dismissed"}
              /\ \E r \in Reviewers : hearings[r].case = d
           \/ d \in overtaken'
<1>0. IntegrityTypes /\ cases \in [Donations -> Case]
  BY DEF IntegrityInv, IntegrityTypes
<1>1. ASSUME NEW e \in Donations, ProcessQueue(e) PROVE FALSE
  <2>1. PICK s \in NextStatus(cases[e].status) : cases' = [cases EXCEPT ![e].status = s]
    BY <1>1 DEF ProcessQueue
  <2>2. s \in Status
    BY <2>1 DEF NextStatus, Status, Undecided, Protected
  <2>3. cases'[e].status = s /\ (e # d => cases'[d].status = cases[d].status)
    BY <1>0, <2>1, <2>2, StatusUpdate
  <2> QED
    BY <2>1, <2>3 DEF NextStatus
<1>2. ASSUME NEW p \in Pods, WriteCase(p) PROVE d \in overtaken'
  <2> DEFINE e == rescores[p].case
  <2>1. PICK s \in NextStatus(rescores[p].seen) :
          /\ cases' = [cases EXCEPT ![e].status = s]
          /\ overtaken' = IF cases[e].status \in Protected \ {s} THEN overtaken \union {e} ELSE overtaken
    BY <1>2 DEF WriteCase
  <2>2. e \in Donations /\ rescores[p].seen \in Status
    BY <1>2 DEF IntegrityInv, IntegrityTypes, RescoresFit, Rescore, WriteCase
  <2>3. s \in Status
    BY <2>1, <2>2 DEF NextStatus, Status, Undecided, Protected
  <2>4. cases'[e].status = s /\ (e # d => cases'[d].status = cases[d].status)
    BY <1>0, <2>1, <2>2, <2>3, StatusUpdate
  <2> QED
    BY <2>1, <2>4
<1>3. ASSUME NEW e \in Donations, NEW r \in Reviewers, NEW action \in {"confirm", "dismiss"}, Decide(r, e, action)
      PROVE  FALSE
  <2>1. cases[e].status \notin Protected
    BY <1>3 DEF Decide, Undecided, Protected
  <2> QED
    BY <1>0, <1>3, <2>1 DEF Decide
<1>4. ASSUME NEW e \in Donations, Appeal(e)
      PROVE  cases[d].status = "confirmed" /\ cases'[d].status = "appealed" /\ Len(appeals'[d]) > Len(appeals[d])
  <2>1. e = d
    BY <1>0, <1>4 DEF Appeal
  <2>2. cases'[d].status = "appealed"
    <3>1. PICK k \in Case : k = cases[d]
      BY <1>0
    <3>2. cases'[d] = Suspended(k)
      BY <1>0, <1>4, <2>1, <3>1 DEF Appeal
    <3> QED
      BY <3>1, <3>2 DEF Suspended, Case
  <2>3. Len(appeals'[d]) > Len(appeals[d])
    <3> DEFINE a == [status |-> "pending", against |-> cases[d].decided_by, decided_by |-> "none"]
    <3>1. appeals' = [appeals EXCEPT ![d] = Append(appeals[d], a)]
      BY <1>4, <2>1 DEF Appeal
    <3> HIDE DEF a
    <3>2. appeals'[d] = Append(appeals[d], a) /\ appeals[d] \in Seq(AnAppeal)
      BY <1>0, <3>1 DEF IntegrityTypes
    <3> QED
      BY <3>2
  <2> QED
    BY <1>4, <2>1, <2>2, <2>3 DEF Appeal
<1>5. ASSUME NEW r \in Reviewers, DecideAppeal(r)
      PROVE  \/ /\ cases[d].status = "appealed" /\ cases'[d].status \in {"confirmed", "dismissed"}
                /\ \E q \in Reviewers : hearings[q].case = d
             \/ d \in overtaken'
  <2> DEFINE h == hearings[r]
             c == [cases[d] EXCEPT !.status = IF h.outcome = "grant" THEN "dismissed" ELSE "confirmed",
                                   !.excluded = h.enforced]
  <2>1. h.case = d
    BY <1>0, <1>5 DEF DecideAppeal
  <2>2. Pending(d) /\ overtaken' = overtaken /\ cases' = [cases EXCEPT ![d] = c]
    BY <1>5, <2>1 DEF IntegrityInv, HearingsFit, DecideAppeal
  <2>3. c.status \in {"confirmed", "dismissed"}
    <3>1. PICK k \in Case : k = cases[d]
      BY <1>0
    <3> QED
      BY <3>1 DEF Case
  <2> HIDE DEF c
  <2>4. cases'[d] = c
    BY <1>0, <2>2
  <2>5. d \notin overtaken => cases[d].status = "appealed"
    BY <2>2 DEF IntegrityInv, AppealIsHeard
  <2> QED
    BY <2>1, <2>2, <2>3, <2>4, <2>5
<1>6. ASSUME EnableEnforcement \/ DisableEnforcement PROVE FALSE
  <2>1. PICK k \in Case : k = cases[d]
    BY <1>0
  <2>2. cases'[d] = cases[d] \/ cases'[d] = [cases[d] EXCEPT !.excluded = TRUE] \/ cases'[d] = [cases[d] EXCEPT !.excluded = FALSE]
    BY <1>6 DEF EnableEnforcement, DisableEnforcement
  <2> QED
    BY <2>1, <2>2 DEF Case
<1>7. ASSUME UNCHANGED cases PROVE FALSE
  BY <1>7
<1> QED
  BY <1>1, <1>2, <1>3, <1>4, <1>5, <1>6, <1>7
     DEF IntegrityNext, integrityVars, RecordDonation, QueueDonationAssessment, SweepHistoricalDonations,
         AppealChallenge, Expire, SelectCandidate, ReadCase, HearAppeal

\* Reviewers' decisions stand: DecisionsStand holds of every behaviour.
THEOREM ReviewersDecisionsStand == IntegritySpec => DecisionsStand
<1>1. IntegrityInv /\ [IntegrityNext]_integrityVars =>
        [\A d \in Donations :
           LET from == cases[d].status  to == cases'[d].status IN
           from \in Protected /\ from # to =>
               \/ from = "confirmed" /\ to = "appealed" /\ Len(appeals'[d]) > Len(appeals[d])
               \/ from = "appealed" /\ to \in {"confirmed", "dismissed"} /\ \E r \in Reviewers : hearings[r].case = d
               \/ d \in overtaken']_integrityVars
  BY DecisionStands
<1> QED
  BY <1>1, IntegrityInvariantHolds, PTL DEF IntegritySpec, DecisionsStand

-----------------------------------------------------------------------------
(* The matching of donations by Turrets (TurretsMatching).                 *)
(*                                                                         *)
(* While nobody else is about the same donation (OneAtATime), a call knows *)
(* of every payment made for it before (SeesPaid): each was recorded when  *)
(* the call read the records, so it is not among what the call still has   *)
(* to pay, except the one it has just paid itself.  That each was recorded *)
(* is PaidIsRecorded, which in turn needs that a call records what it      *)
(* paid.  A counter is a sum over records, and a record is new when it is  *)
(* added: the transaction that adds it has found none of its match.        *)

Active(c) == calls[c].at \notin {"start", "done"}

\* What a call still has to pay are positive amounts,
CallFits(c) ==
    calls[c].at \in {"loop", "loaded", "paid"} =>
        \A o \in calls[c].todo : Amount(<<About[c], o>>, calls[c].seen[o]) > 0

\* and what it has paid is what it is about to record.
PaymentFits(c) ==
    calls[c].at = "paid" => \E p \in paid : p.match = Now(c) /\ p.amount = Intended(c).amount

OneAtATime ==
    \A c, d \in Calls : c # d /\ About[c] = About[d] /\ Active(c) /\ Active(d) => About[c] \in overlapped

SeesPaid(c) ==
    Active(c) /\ About[c] \notin overlapped =>
        \A p \in paid : p.match[1] = About[c] /\ p.match \notin lost =>
            /\ calls[c].at = "read" => IsRecorded(p.match)
            /\ calls[c].at \in {"loop", "loaded"} => p.match[2] \notin calls[c].todo
            /\ calls[c].at = "paid" /\ p.match[2] \in calls[c].todo => p.match[2] = Current(c)

CallsFit == \A c \in Calls : CallFits(c) /\ PaymentFits(c) /\ SeesPaid(c)

TurretsInv ==
    /\ TurretsTypes /\ CallsFit /\ OneAtATime
    /\ RecordedIsPaid /\ PaidIsRecorded
    /\ CapExceededByRaceOnly /\ PaidTwiceByOverlapOnly

-----------------------------------------------------------------------------
(* The parts of a call *)

\* The minimum of a set of naturals that is not empty is in the set.
LEMMA MinIsMember ==
    ASSUME NEW S \in SUBSET Nat, S # {}
    PROVE  Min(S) \in S
<1>1. PICK x \in S : \A y \in S : ~ (<<y, x>> \in OpToRel(<, Nat))
  BY NatLessThanWellFounded, WFMin
<1>2. \A y \in S : ~(y < x)
  BY <1>1 DEF OpToRel
<1>3. \A y \in S : x <= y
  BY <1>2
<1> QED
  BY <1>3 DEF Min

\* The amount of a match is a number that fits under the cap as it was read.
LEMMA AmountFits ==
    ASSUME NEW m \in Match, NEW n \in Nat
    PROVE  Amount(m, n) \in Int /\ Amount(m, n) <= CapOf[m[2]] - n
<1> DEFINE a == Share[m]
           b == CapOf[m[2]] - n
<1>1. a \in Nat /\ b \in Int
  <2>1. m \in Payments \X Offers /\ m[2] \in Offers
    BY DEF Match
  <2>2. Share[m] \in Nat /\ CapOf[m[2]] \in Nat
    BY <2>1, TurretsAssumption
  <2> QED
    BY <2>2
<1> HIDE DEF a, b
<1>2. \E x \in {a, b} : \A y \in {a, b} : x <= y
  BY <1>1
<1>3. Min({a, b}) \in {a, b} /\ \A y \in {a, b} : Min({a, b}) <= y
  BY <1>2 DEF Min
<1>4. Amount(m, n) = Min({a, b})
  BY DEF Amount, a, b
<1>5. Min({a, b}) \in Int /\ Min({a, b}) <= b
  BY <1>1, <1>3
<1> QED
  BY <1>4, <1>5 DEF b

\* The offer a call works on is one it still has to do.
LEMMA CurrentIsToDo ==
    ASSUME TurretsTypes, NEW c \in Calls, calls[c].todo # {}
    PROVE  /\ Current(c) \in calls[c].todo /\ Current(c) \in Offers /\ Now(c) \in Match
           /\ MatcherOf[Current(c)] \in Matchers
<1>1. calls[c].todo \subseteq Offers
  BY DEF TurretsTypes, Call
<1>2. Current(c) \in calls[c].todo
  BY <1>1, TurretsAssumption, MinIsMember DEF Current
<1> QED
  BY <1>1, <1>2, TurretsAssumption DEF Now, Match, Matchers

\* A call that is ready and one that is done have the type of a call.
LEMMA DoneIsCall == Done \in Call /\ Ready \in Call /\ Done.at = "done"
BY DEF Done, Ready, Call

\* The rest of the loop is about fewer offers, all with something left to give.
LEMMA LoopFits ==
    ASSUME TurretsTypes, NEW c \in Calls, NEW todo \in SUBSET Offers
    PROVE  LET next == Loop(c, todo) IN
           /\ next \in Call /\ next.at \in {"loop", "done"}
           /\ next.at = "loop" =>
                /\ next.todo # {} /\ next.todo \subseteq todo
                /\ \A o \in next.todo : Amount(<<About[c], o>>, next.seen[o]) > 0
<1> DEFINE rest == {o \in todo : Amount(<<About[c], o>>, calls[c].seen[o]) > 0}
           seen == [o \in Offers |-> IF o \in rest THEN calls[c].seen[o] ELSE 0]
           next == [at |-> "loop", todo |-> rest, sequence |-> 0, seen |-> seen]
<1>1. CASE rest = {}
  BY <1>1, DoneIsCall DEF Loop
<1>2. CASE rest # {}
  <2>1. Loop(c, todo) = next
    BY <1>2 DEF Loop
  <2>2. rest \subseteq todo /\ \A o \in rest : Amount(<<About[c], o>>, seen[o]) > 0
    OBVIOUS
  <2>3. seen \in [Offers -> Nat]
    BY DEF TurretsTypes, Call
  <2> HIDE DEF rest, seen
  <2>4. next \in Call
    BY <2>2, <2>3 DEF Call
  <2>5. next.at = "loop" /\ next.todo = rest /\ next.seen = seen
    OBVIOUS
  <2> HIDE DEF next
  <2> QED
    BY <1>2, <2>1, <2>2, <2>4, <2>5
<1> QED
  BY <1>1, <1>2

\* A call that goes on leaves every other call alone.
LEMMA GoesTo ==
    ASSUME TurretsTypes, NEW c \in Calls, NEW x \in Call, Goes(c, x)
    PROVE  /\ calls' \in [Calls -> Call] /\ calls'[c] = x
           /\ \A d \in Calls : d # c => calls'[d] = calls[d]
BY DEF TurretsTypes, Goes

-----------------------------------------------------------------------------
(* A step of a call *)

\* Nothing of another call changes with a step of c, and what it relies on
\* only grows: a payment c makes is about its own donation, where others are
\* in progress only if that is noted.
LEMMA CallStep ==
    ASSUME TurretsInv, NEW c \in Calls, TurretsTypes',
           \A d \in Calls : d # c => calls'[d] = calls[d],
           processed \subseteq processed', paid \subseteq paid',
           overlapped \subseteq overlapped', lost \subseteq lost',
           Active(c)' => Active(c) \/ \A d \in Calls : d # c /\ About[d] = About[c] /\ Active(d) => About[c] \in overlapped',
           \A p \in paid' \ paid : Active(c) /\ p.match = Now(c) /\ (p.match \in lost' \/ (calls'[c].at = "paid" /\ Now(c)' = Now(c))),
           calls[c].at = "paid" =>
               \E r \in {Now(c)} : IsRecorded(r)' \/ r \in lost',
           CallFits(c)', PaymentFits(c)', SeesPaid(c)',
           RecordedIsPaid', CapExceededByRaceOnly', PaidTwiceByOverlapOnly'
    PROVE  TurretsInv'
<1>0. TurretsTypes /\ CallsFit /\ OneAtATime /\ PaidIsRecorded
  BY DEF TurretsInv
<1>1. ASSUME NEW d \in Calls, d # c PROVE (CallFits(d) /\ PaymentFits(d) /\ SeesPaid(d))'
  <2>1. calls'[d] = calls[d] /\ CallFits(d) /\ PaymentFits(d) /\ SeesPaid(d)
    BY <1>0, <1>1 DEF CallsFit
  <2>2. CallFits(d)'
    BY <2>1 DEF CallFits
  <2>3. PaymentFits(d)'
    BY <2>1 DEF PaymentFits, Now, Intended, Current
  <2>4. SeesPaid(d)'
    <3> SUFFICES ASSUME Active(d)', About[d] \notin overlapped',
                        NEW p \in paid', p.match[1] = About[d], p.match \notin lost'
                 PROVE  /\ calls'[d].at = "read" => IsRecorded(p.match)'
                        /\ calls'[d].at \in {"loop", "loaded"} => p.match[2] \notin calls'[d].todo
                        /\ calls'[d].at = "paid" /\ p.match[2] \in calls'[d].todo => p.match[2] = Current(d)'
      BY DEF SeesPaid
    <3>1. Active(d) /\ About[d] \notin overlapped /\ p.match \notin lost
      BY <2>1 DEF Active
    <3>2. p \in paid
      <4> SUFFICES ASSUME p \notin paid PROVE FALSE
        OBVIOUS
      <4>1. Active(c) /\ p.match = Now(c)
        OBVIOUS
      <4>2. About[c] = About[d]
        BY <4>1 DEF Now
      <4> QED
        BY <1>0, <1>1, <3>1, <4>1, <4>2 DEF OneAtATime
    <3>3. IsRecorded(p.match) => IsRecorded(p.match)'
      BY DEF IsRecorded
    <3> QED
      BY <2>1, <3>1, <3>2, <3>3 DEF SeesPaid, Current
  <2> QED
    BY <2>2, <2>3, <2>4
<1>2. CallsFit'
  BY <1>1 DEF CallsFit
<1>3. OneAtATime'
  <2> SUFFICES ASSUME NEW a \in Calls, NEW b \in Calls, a # b, About[a] = About[b], Active(a)', Active(b)'
               PROVE  About[a] \in overlapped'
    BY DEF OneAtATime
  <2>1. \A d \in Calls : d # c => (Active(d)' <=> Active(d))
    BY DEF Active
  <2> QED
    BY <1>0, <2>1 DEF OneAtATime
<1>4. PaidIsRecorded'
  <2> SUFFICES ASSUME NEW p \in paid'
               PROVE  \/ IsRecorded(p.match)' \/ p.match \in lost'
                      \/ \E d \in Calls : calls'[d].at = "paid" /\ Now(d)' = p.match
    BY DEF PaidIsRecorded
  <2>1. CASE p \notin paid
    BY <2>1
  <2>2. CASE p \in paid
    <3>1. IsRecorded(p.match) => IsRecorded(p.match)'
      BY DEF IsRecorded
    <3>2. ASSUME NEW d \in Calls, d # c, calls[d].at = "paid", Now(d) = p.match
          PROVE  calls'[d].at = "paid" /\ Now(d)' = p.match
      BY <3>2 DEF Now, Current
    <3> QED
      BY <1>0, <2>2, <3>1, <3>2 DEF PaidIsRecorded
  <2> QED
    BY <2>1, <2>2
<1> QED
  BY <1>2, <1>3, <1>4 DEF TurretsInv

\* A step that pays nothing and records nothing.
LEMMA QuietStep ==
    ASSUME TurretsInv, NEW c \in Calls, NEW x \in Call, Goes(c, x),
           UNCHANGED <<matched, processed, paid, contended>>,
           sequence' \in [Matchers -> Nat], faults' \in 0 .. MaxFaults,
           overlapped \subseteq overlapped', overlapped' \subseteq Payments,
           lost \subseteq lost', lost' \subseteq Match,
           x.at \in {"loop", "loaded", "paid"} => x.todo # {},
           x.at \notin {"start", "done"} =>
               Active(c) \/ \A d \in Calls : d # c /\ About[d] = About[c] /\ Active(d) => About[c] \in overlapped',
           calls[c].at = "paid" => Now(c) \in lost',
           CallFits(c)', PaymentFits(c)', SeesPaid(c)'
    PROVE  TurretsInv'
<1>0. /\ TurretsTypes /\ RecordedIsPaid /\ CapExceededByRaceOnly /\ PaidTwiceByOverlapOnly
  BY DEF TurretsInv
<1>1. /\ calls' \in [Calls -> Call] /\ calls'[c] = x
      /\ \A d \in Calls : d # c => calls'[d] = calls[d]
  BY <1>0, GoesTo
<1>2. TurretsTypes'
  BY <1>0, <1>1 DEF TurretsTypes
<1>3. RecordedIsPaid' /\ CapExceededByRaceOnly' /\ PaidTwiceByOverlapOnly'
  BY <1>0 DEF RecordedIsPaid, CapExceededByRaceOnly, PaidTwiceByOverlapOnly
<1>4. Active(c)' => x.at \notin {"start", "done"}
  BY <1>1 DEF Active
<1> QED
  BY <1>1, <1>2, <1>3, <1>4, CallStep

-----------------------------------------------------------------------------
(* The steps *)

\* Whatever was paid for a donation that nobody else is about is recorded.
LEMMA ReadOffersKeepsInv == ASSUME TurretsInv, NEW c \in Calls, ReadOffers(c) PROVE TurretsInv'
<1> DEFINE x == [Ready EXCEPT !.at = "read", !.todo = Offers, !.seen = matched]
<1>0. TurretsTypes /\ PaidIsRecorded
  BY DEF TurretsInv
<1>1. x \in Call /\ x.at = "read"
  <2>1. PICK k \in Call : k = Ready
    BY DoneIsCall
  <2>2. matched \in [Offers -> Nat]
    BY <1>0 DEF TurretsTypes
  <2> QED
    BY <2>1, <2>2 DEF Call
<1>2. Goes(c, x) /\ calls[c].at = "start" /\ UNCHANGED <<matched, processed, paid, sequence, contended, lost, faults>>
  BY DEF ReadOffers
<1> HIDE DEF x
<1>3. /\ overlapped \subseteq overlapped' /\ overlapped' \subseteq Payments
      /\ \A d \in Calls : d # c /\ About[d] = About[c] /\ Active(d) => About[c] \in overlapped'
  BY <1>0, TurretsAssumption DEF ReadOffers, TurretsTypes, Active
<1>4. calls'[c] = x
  BY <1>0, <1>1, <1>2, GoesTo
<1>5. CallFits(c)' /\ PaymentFits(c)'
  BY <1>1, <1>4 DEF CallFits, PaymentFits
<1>6. SeesPaid(c)'
  <2> SUFFICES ASSUME About[c] \notin overlapped', NEW p \in paid, p.match[1] = About[c], p.match \notin lost
               PROVE  IsRecorded(p.match)
    BY <1>1, <1>2, <1>4 DEF SeesPaid, IsRecorded
  <2>1. ASSUME NEW d \in Calls, calls[d].at = "paid", Now(d) = p.match PROVE FALSE
    <3>1. About[d] = About[c] /\ Active(d) /\ d # c
      BY <1>2, <2>1 DEF Now, Active
    <3> QED
      BY <1>3, <3>1
  <2> QED
    BY <1>0, <2>1 DEF PaidIsRecorded
<1> QED
  BY <1>0, <1>1, <1>2, <1>3, <1>5, <1>6, QuietStep DEF TurretsTypes

\* What is left to pay was not recorded.
LEMMA ReadProcessedKeepsInv == ASSUME TurretsInv, NEW c \in Calls, ReadProcessed(c) PROVE TurretsInv'
<1> DEFINE todo == {o \in calls[c].todo : ~IsRecorded(<<About[c], o>>)}
           x == Loop(c, todo)
<1>0. TurretsTypes /\ SeesPaid(c)
  BY DEF TurretsInv, CallsFit
<1>1. todo \subseteq Offers
  BY <1>0 DEF TurretsTypes, Call
<1>2. /\ x \in Call /\ x.at \in {"loop", "done"}
      /\ x.at = "loop" =>
            /\ x.todo # {} /\ x.todo \subseteq todo
            /\ \A o \in x.todo : Amount(<<About[c], o>>, x.seen[o]) > 0
  BY <1>0, <1>1, LoopFits
<1>3. Goes(c, x) /\ calls[c].at = "read" /\ UNCHANGED <<matched, processed, paid, sequence, history, faults>>
  BY DEF ReadProcessed
<1>4. \A o \in todo : ~IsRecorded(<<About[c], o>>)
  OBVIOUS
<1> HIDE DEF x, todo
<1>5. calls'[c] = x
  BY <1>0, <1>2, <1>3, GoesTo
<1>6. CallFits(c)' /\ PaymentFits(c)'
  BY <1>2, <1>5 DEF CallFits, PaymentFits
<1>7. SeesPaid(c)'
  <2> SUFFICES ASSUME x.at = "loop", About[c] \notin overlapped, NEW p \in paid, p.match[1] = About[c], p.match \notin lost
               PROVE  p.match[2] \notin x.todo
    BY <1>2, <1>3, <1>5 DEF SeesPaid, Active, history
  <2>1. IsRecorded(p.match)
    BY <1>0, <1>3 DEF SeesPaid, Active
  <2>2. p.match = <<About[c], p.match[2]>>
    <3>1. p.match \in Payments \X Offers
      BY <1>0 DEF TurretsTypes, Payment, Match
    <3> QED
      BY <3>1
  <2> QED
    BY <1>2, <1>4, <2>1, <2>2
<1> QED
  BY <1>0, <1>2, <1>3, <1>6, <1>7, QuietStep DEF TurretsTypes, history, Active

\* A call that goes on to its next offer leaves behind what it paid last.
LEMMA NextOfferFits ==
    ASSUME TurretsTypes, NEW c \in Calls, SeesPaid(c), calls[c].at \in {"loaded", "paid"}, NextOffer(c),
           overlapped \subseteq overlapped', lost \subseteq lost', \A p \in paid' \ paid : p.match \in lost'
    PROVE  LET x == Loop(c, calls[c].todo \ {Current(c)}) IN
           /\ Goes(c, x) /\ x \in Call /\ (x.at \in {"loop", "loaded", "paid"} => x.todo # {})
           /\ x.at \in {"loop", "done"}
           /\ CallFits(c)' /\ PaymentFits(c)' /\ SeesPaid(c)'
<1> DEFINE todo == calls[c].todo \ {Current(c)}
           x == Loop(c, todo)
<1>1. todo \subseteq Offers
  BY DEF TurretsTypes, Call
<1>2. /\ x \in Call /\ x.at \in {"loop", "done"}
      /\ x.at = "loop" =>
            /\ x.todo # {} /\ x.todo \subseteq todo
            /\ \A o \in x.todo : Amount(<<About[c], o>>, x.seen[o]) > 0
  BY <1>1, LoopFits
<1>3. Goes(c, x)
  BY DEF NextOffer
<1> HIDE DEF x
<1>4. calls'[c] = x
  BY <1>2, <1>3, GoesTo
<1>5. CallFits(c)' /\ PaymentFits(c)'
  BY <1>2, <1>4 DEF CallFits, PaymentFits
<1>6. SeesPaid(c)'
  <2> SUFFICES ASSUME x.at = "loop", About[c] \notin overlapped',
                      NEW p \in paid', p.match[1] = About[c], p.match \notin lost'
               PROVE  p.match[2] \notin x.todo
    BY <1>2, <1>4 DEF SeesPaid, Active
  <2>1. p \in paid /\ p.match \notin lost /\ About[c] \notin overlapped
    OBVIOUS
  <2>2. p.match[2] \notin calls[c].todo \/ p.match[2] = Current(c)
    BY <2>1 DEF SeesPaid, Active
  <2> QED
    BY <1>2, <2>2
<1> QED
  BY <1>2, <1>3, <1>5, <1>6 DEF x

\* A call that only moves within its round for an offer.
LEMMA SameOffer ==
    ASSUME TurretsTypes, NEW c \in Calls, NEW x \in Call, Goes(c, x), x.todo = calls[c].todo, x.seen = calls[c].seen
    PROVE  Current(c)' = Current(c) /\ Now(c)' = Now(c) /\ Intended(c).amount' = Intended(c).amount
<1>1. calls'[c] = x
  BY GoesTo
<1>2. Current(c)' = Current(c)
  BY <1>1 DEF Current
<1>3. Now(c)' = Now(c)
  BY <1>2 DEF Now
<1>4. Intended(c).amount = Amount(Now(c), calls[c].seen[Current(c)])
  BY DEF Intended
<1>5. Intended(c).amount' = Amount(Now(c)', calls'[c].seen[Current(c)'])
  BY DEF Intended
<1> QED
  BY <1>1, <1>2, <1>3, <1>4, <1>5

\* A call that loads its offers keeps the invariant.
LEMMA LoadKeepsInv == ASSUME TurretsInv, NEW c \in Calls, Load(c) PROVE TurretsInv'
<1> DEFINE m == MatcherOf[Current(c)]
           x == [calls[c] EXCEPT !.at = "loaded", !.sequence = sequence[m] + 1]
<1>0. TurretsTypes /\ SeesPaid(c) /\ CallFits(c)
  BY DEF TurretsInv, CallsFit
<1>1. Goes(c, x) /\ calls[c].at = "loop" /\ UNCHANGED <<matched, processed, paid, sequence, history, faults>>
  BY DEF Load
<1>2. calls[c].todo # {} /\ sequence[m] \in Nat
  <2>1. calls[c].todo # {}
    BY <1>0, <1>1 DEF TurretsTypes
  <2> QED
    BY <1>0, <2>1, CurrentIsToDo DEF TurretsTypes
<1> HIDE DEF m
<1>3. x \in Call /\ x.at = "loaded" /\ x.todo = calls[c].todo /\ x.seen = calls[c].seen
  <2>1. PICK k \in Call : k = calls[c]
    BY <1>0 DEF TurretsTypes
  <2>2. sequence[m] + 1 \in Nat
    BY <1>2
  <2> QED
    BY <2>1, <2>2 DEF Call
<1> HIDE DEF x
<1>4. calls'[c] = x
  BY <1>0, <1>1, <1>3, GoesTo
<1>5. CallFits(c)' /\ PaymentFits(c)'
  BY <1>0, <1>1, <1>3, <1>4 DEF CallFits, PaymentFits
<1>6. SeesPaid(c)'
  BY <1>0, <1>1, <1>3, <1>4 DEF SeesPaid, Active, history
<1> QED
  BY <1>0, <1>1, <1>2, <1>3, <1>5, <1>6, QuietStep DEF TurretsTypes, history, Active

\* Submitting a transaction the ledger already has changes no balance.
LEMMA PaysTheSameKeepsInv == ASSUME TurretsInv, NEW c \in Calls, PaysTheSame(c) PROVE TurretsInv'
<1> DEFINE x == [calls[c] EXCEPT !.at = "paid"]
<1>0. TurretsTypes /\ SeesPaid(c) /\ CallFits(c)
  BY DEF TurretsInv, CallsFit
<1>1. /\ Goes(c, x) /\ calls[c].at = "loaded" /\ Intended(c) \in paid
      /\ UNCHANGED <<matched, processed, paid, sequence, history, faults>>
  BY DEF PaysTheSame
<1>2. x \in Call /\ x.at = "paid" /\ x.todo = calls[c].todo /\ x.seen = calls[c].seen /\ x.todo # {}
  <2>1. PICK k \in Call : k = calls[c]
    BY <1>0 DEF TurretsTypes
  <2>2. k.todo # {}
    BY <1>0, <1>1, <2>1 DEF TurretsTypes
  <2> QED
    BY <2>1, <2>2 DEF Call
<1> HIDE DEF x
<1>3. calls'[c] = x
  BY <1>0, <1>1, <1>2, GoesTo
<1>4. Current(c)' = Current(c) /\ Now(c)' = Now(c) /\ Intended(c).amount' = Intended(c).amount
  BY <1>0, <1>1, <1>2, SameOffer
<1>5. CallFits(c)'
  BY <1>0, <1>1, <1>2, <1>3 DEF CallFits
<1>6. PaymentFits(c)'
  <2>1. Intended(c).match = Now(c)
    BY DEF Intended
  <2> QED
    BY <1>1, <1>4, <2>1 DEF PaymentFits
<1>7. SeesPaid(c)'
  BY <1>0, <1>1, <1>2, <1>3 DEF SeesPaid, Active, history
<1> QED
  BY <1>0, <1>1, <1>2, <1>5, <1>6, <1>7, QuietStep DEF TurretsTypes, history, Active

\* A payment the ledger refuses changes no balance.
LEMMA PayRefusedKeepsInv == ASSUME TurretsInv, NEW c \in Calls, PayRefused(c) PROVE TurretsInv'
<1>0. TurretsTypes /\ SeesPaid(c)
  BY DEF TurretsInv, CallsFit
<1>1. NextOffer(c) /\ calls[c].at = "loaded" /\ UNCHANGED <<matched, processed, paid, sequence, history, faults>>
  BY DEF PayRefused
<1> DEFINE x == Loop(c, calls[c].todo \ {Current(c)})
<1>2. /\ Goes(c, x) /\ x \in Call /\ (x.at \in {"loop", "loaded", "paid"} => x.todo # {})
      /\ CallFits(c)' /\ PaymentFits(c)' /\ SeesPaid(c)'
  BY <1>0, <1>1, NextOfferFits DEF history
<1> HIDE DEF x
<1> QED
  BY <1>0, <1>1, <1>2, QuietStep DEF TurretsTypes, history, Active

\* A call whose time is up keeps the invariant.
LEMMA CutOffKeepsInv == ASSUME TurretsInv, NEW c \in Calls, CutOff(c) PROVE TurretsInv'
<1>0. TurretsTypes
  BY DEF TurretsInv
<1>1. /\ Goes(c, Done) /\ Active(c) /\ faults' = faults + 1 /\ faults < MaxFaults
      /\ lost' = IF calls[c].at = "paid" THEN lost \union {Now(c)} ELSE lost
      /\ UNCHANGED <<matched, processed, paid, sequence, contended, overlapped>>
  BY DEF CutOff, Active
<1>2. faults' \in 0 .. MaxFaults
  BY <1>0, <1>1, TurretsAssumption DEF TurretsTypes
<1>3. lost' \subseteq Match
  BY <1>0, <1>1, CurrentIsToDo DEF TurretsTypes
<1>4. calls'[c].at = "done"
  BY <1>0, <1>1, GoesTo, DoneIsCall
<1>5. CallFits(c)' /\ PaymentFits(c)' /\ SeesPaid(c)'
  BY <1>4 DEF CallFits, PaymentFits, SeesPaid, Active
<1> QED
  BY <1>0, <1>1, <1>2, <1>3, <1>5, DoneIsCall, QuietStep DEF TurretsTypes

\* The payment a call builds is of its current match, and within the cap as read.
LEMMA IntendedFits ==
    ASSUME TurretsTypes, NEW c \in Calls, CallFits(c), calls[c].at \in {"loop", "loaded", "paid"}
    PROVE  LET o == Current(c) IN
           /\ Intended(c) \in Payment /\ Intended(c).match = Now(c)
           /\ Intended(c).amount \in Nat /\ Intended(c).amount <= CapOf[o] - calls[c].seen[o]
           /\ Now(c) \in Match /\ Now(c)[1] = About[c] /\ Now(c)[2] = o
           /\ o \in calls[c].todo /\ o \in Offers /\ MatcherOf[o] \in Matchers
<1> DEFINE o == Current(c)
           n == calls[c].seen[o]
<1>1. calls[c].todo # {}
  BY DEF TurretsTypes
<1>2. /\ o \in calls[c].todo /\ o \in Offers /\ Now(c) \in Match
      /\ MatcherOf[o] \in Matchers
  BY <1>1, CurrentIsToDo
<1>3. Now(c) = <<About[c], o>>
  BY DEF Now
<1>4. n \in Nat /\ calls[c].sequence \in Nat
  BY <1>2 DEF TurretsTypes, Call
<1>5. Amount(Now(c), n) > 0
  BY <1>2, <1>3 DEF CallFits
<1>6. Amount(Now(c), n) \in Int /\ Amount(Now(c), n) <= CapOf[o] - n
  BY <1>2, <1>3, <1>4, AmountFits
<1>7. Intended(c) = [match |-> Now(c), sequence |-> calls[c].sequence, amount |-> Amount(Now(c), n)]
  BY DEF Intended
<1> HIDE DEF o, n
<1>8. Amount(Now(c), n) \in Nat
  BY <1>5, <1>6
<1>9. Intended(c) \in Payment /\ Intended(c).match = Now(c) /\ Intended(c).amount = Amount(Now(c), n)
  BY <1>2, <1>4, <1>7, <1>8 DEF Payment
<1> QED
  BY <1>2, <1>3, <1>6, <1>8, <1>9 DEF o, n

\* A call that pays has seen every earlier payment for its donation.
LEMMA PaymentIsFirst ==
    ASSUME TurretsInv, NEW c \in Calls, calls[c].at = "loaded",
           paid' \subseteq paid \union {Intended(c)}, overlapped \subseteq overlapped', lost \subseteq lost'
    PROVE  PaidTwiceByOverlapOnly'
<1>0. TurretsTypes /\ CallFits(c) /\ SeesPaid(c) /\ PaidTwiceByOverlapOnly
  BY DEF TurretsInv, CallsFit
<1>1. /\ Intended(c).match = Now(c) /\ Now(c)[1] = About[c] /\ Now(c)[2] = Current(c)
      /\ Current(c) \in calls[c].todo
  BY <1>0, IntendedFits
<1>2. ASSUME NEW p \in paid, p.match = Now(c)
      PROVE  p.match[1] \in overlapped \/ p.match \in lost
  BY <1>0, <1>1, <1>2 DEF SeesPaid, Active
<1> SUFFICES ASSUME NEW p \in paid', NEW q \in paid', p.match = q.match, p # q
             PROVE  p.match[1] \in overlapped' \/ p.match \in lost'
  BY DEF PaidTwiceByOverlapOnly
<1>3. CASE p \in paid /\ q \in paid
  BY <1>0, <1>3 DEF PaidTwiceByOverlapOnly
<1>4. CASE p = Intended(c) /\ q \in paid
  BY <1>1, <1>2, <1>4
<1>5. CASE q = Intended(c) /\ p \in paid
  BY <1>1, <1>2, <1>5
<1> QED
  BY <1>3, <1>4, <1>5

\* A payment the ledger applies is counted once.
LEMMA PayKeepsInv == ASSUME TurretsInv, NEW c \in Calls, Pay(c) PROVE TurretsInv'
<1> DEFINE x == [calls[c] EXCEPT !.at = "paid"]
           m == MatcherOf[Current(c)]
<1>0. TurretsTypes /\ SeesPaid(c) /\ CallFits(c) /\ RecordedIsPaid /\ CapExceededByRaceOnly
  BY DEF TurretsInv, CallsFit
<1>1. /\ Goes(c, x) /\ calls[c].at = "loaded" /\ paid' = paid \union {Intended(c)}
      /\ sequence' = [sequence EXCEPT ![m] = @ + 1]
      /\ UNCHANGED <<matched, processed, contended, overlapped, lost, faults>>
  BY DEF Pay, Applies, history
<1>2. x \in Call /\ x.at = "paid" /\ x.todo = calls[c].todo /\ x.seen = calls[c].seen /\ x.todo # {}
  <2>1. PICK k \in Call : k = calls[c]
    BY <1>0 DEF TurretsTypes
  <2>2. k.todo # {}
    BY <1>0, <1>1, <2>1 DEF TurretsTypes
  <2> QED
    BY <2>1, <2>2 DEF Call
<1> HIDE DEF x
<1>3. /\ calls' \in [Calls -> Call] /\ calls'[c] = x
      /\ \A d \in Calls : d # c => calls'[d] = calls[d]
  BY <1>0, <1>1, <1>2, GoesTo
<1>4. Current(c)' = Current(c) /\ Now(c)' = Now(c) /\ Intended(c).amount' = Intended(c).amount
  BY <1>0, <1>1, <1>2, SameOffer
<1>5. /\ Intended(c) \in Payment /\ Intended(c).match = Now(c)
      /\ Now(c)[1] = About[c] /\ Now(c)[2] = Current(c) /\ m \in Matchers
  BY <1>0, <1>1, IntendedFits
<1>6. TurretsTypes'
  <2>1. sequence' \in [Matchers -> Nat]
    BY <1>0, <1>1, <1>5 DEF TurretsTypes
  <2> QED
    BY <1>0, <1>1, <1>2, <1>3, <1>5, <2>1 DEF TurretsTypes
<1>7. CallFits(c)'
  BY <1>0, <1>1, <1>2, <1>3 DEF CallFits
<1>8. PaymentFits(c)'
  BY <1>1, <1>4, <1>5 DEF PaymentFits
<1>9. SeesPaid(c)'
  <2> SUFFICES ASSUME About[c] \notin overlapped, NEW p \in paid', p.match[1] = About[c], p.match \notin lost,
                      p.match[2] \in x.todo
               PROVE  p.match[2] = Current(c)
    BY <1>1, <1>2, <1>3, <1>4 DEF SeesPaid, Active
  <2>1. CASE p \in paid
    BY <1>0, <1>1, <1>2, <2>1 DEF SeesPaid, Active
  <2>2. CASE p = Intended(c)
    BY <1>5, <2>2
  <2> QED
    BY <1>1, <2>1, <2>2
<1>10. RecordedIsPaid' /\ CapExceededByRaceOnly'
  BY <1>0, <1>1 DEF RecordedIsPaid, CapExceededByRaceOnly
<1>11. PaidTwiceByOverlapOnly'
  BY <1>1, PaymentIsFirst
<1>12. \A p \in paid' \ paid : Active(c) /\ p.match = Now(c) /\ calls'[c].at = "paid" /\ Now(c)' = Now(c)
  BY <1>1, <1>2, <1>3, <1>4, <1>5 DEF Active
<1> QED
  BY <1>1, <1>3, <1>6, <1>7, <1>8, <1>9, <1>10, <1>11, <1>12, CallStep DEF Active

\* A payment that may have applied is lost sight of.
LEMMA PayUnansweredKeepsInv == ASSUME TurretsInv, NEW c \in Calls, PayUnanswered(c) PROVE TurretsInv'
<1> DEFINE x == Loop(c, calls[c].todo \ {Current(c)})
           m == MatcherOf[Current(c)]
<1>0. TurretsTypes /\ SeesPaid(c) /\ CallFits(c) /\ RecordedIsPaid /\ CapExceededByRaceOnly
  BY DEF TurretsInv, CallsFit
<1>1. /\ NextOffer(c) /\ calls[c].at = "loaded" /\ faults' = faults + 1 /\ faults < MaxFaults
      /\ lost' = lost \union {Now(c)}
      /\ paid \subseteq paid' /\ paid' \subseteq paid \union {Intended(c)}
      /\ sequence' = [sequence EXCEPT ![m] = @ + 1] \/ sequence' = sequence
      /\ UNCHANGED <<matched, processed, contended, overlapped>>
  BY DEF PayUnanswered, Applies
<1>2. /\ Intended(c) \in Payment /\ Intended(c).match = Now(c) /\ Now(c) \in Match /\ m \in Matchers
  BY <1>0, <1>1, IntendedFits
<1>3. \A p \in paid' \ paid : p.match = Now(c) /\ p.match \in lost'
  BY <1>1, <1>2
<1>4. /\ Goes(c, x) /\ x \in Call /\ (x.at \in {"loop", "loaded", "paid"} => x.todo # {})
      /\ CallFits(c)' /\ PaymentFits(c)' /\ SeesPaid(c)'
  BY <1>0, <1>1, <1>3, NextOfferFits
<1> HIDE DEF x
<1>5. /\ calls' \in [Calls -> Call] /\ calls'[c] = x
      /\ \A d \in Calls : d # c => calls'[d] = calls[d]
  BY <1>0, <1>4, GoesTo
<1>6. TurretsTypes'
  <2>1. faults' \in 0 .. MaxFaults
    BY <1>0, <1>1, TurretsAssumption DEF TurretsTypes
  <2>2. sequence' \in [Matchers -> Nat]
    BY <1>0, <1>1, <1>2 DEF TurretsTypes
  <2>3. paid' \subseteq Payment /\ lost' \subseteq Match
    BY <1>0, <1>1, <1>2 DEF TurretsTypes
  <2> QED
    BY <1>0, <1>1, <1>4, <1>5, <2>1, <2>2, <2>3 DEF TurretsTypes
<1>7. RecordedIsPaid' /\ CapExceededByRaceOnly'
  BY <1>0, <1>1 DEF RecordedIsPaid, CapExceededByRaceOnly
<1>8. PaidTwiceByOverlapOnly'
  BY <1>1, PaymentIsFirst
<1> QED
  BY <1>1, <1>3, <1>4, <1>5, <1>6, <1>7, <1>8, CallStep DEF Active

\* A match is recorded with the amount of a payment, and stays under the cap if
\* the counter is as it was read.
LEMMA RecordMatchKeepsInv == ASSUME TurretsInv, NEW c \in Calls, RecordMatch(c) PROVE TurretsInv'
<1> DEFINE x == Loop(c, calls[c].todo \ {Current(c)})
           o == Current(c)
           a == Intended(c).amount
           r == [match |-> Now(c), amount |-> a]
<1>0. /\ TurretsTypes /\ SeesPaid(c) /\ CallFits(c) /\ PaymentFits(c)
      /\ RecordedIsPaid /\ CapExceededByRaceOnly /\ PaidTwiceByOverlapOnly
  BY DEF TurretsInv, CallsFit
<1>1. /\ NextOffer(c) /\ calls[c].at = "paid"
      /\ UNCHANGED <<paid, sequence, overlapped, lost, faults>>
  BY DEF RecordMatch
<1>2. /\ a \in Nat /\ a <= CapOf[o] - calls[c].seen[o]
      /\ Now(c) \in Match /\ o \in Offers
  BY <1>0, <1>1, IntendedFits
<1>3. \/ IsRecorded(Now(c)) /\ UNCHANGED <<matched, processed, contended>>
      \/ /\ matched' = [matched EXCEPT ![o] = @ + a]
         /\ processed' = processed \union {r}
         /\ contended' = IF matched[o] # calls[c].seen[o] THEN contended \union {o} ELSE contended
  BY DEF RecordMatch, Write
<1>4. /\ Goes(c, x) /\ x \in Call /\ (x.at \in {"loop", "loaded", "paid"} => x.todo # {})
      /\ CallFits(c)' /\ PaymentFits(c)' /\ SeesPaid(c)'
  BY <1>0, <1>1, NextOfferFits
<1>5. PICK p \in paid : p.match = Now(c) /\ p.amount = a
  BY <1>0, <1>1 DEF PaymentFits
<1> HIDE DEF x, o, a
<1>6. /\ calls' \in [Calls -> Call] /\ calls'[c] = x
      /\ \A d \in Calls : d # c => calls'[d] = calls[d]
  BY <1>0, <1>4, GoesTo
<1>7. r \in Record /\ r.match = Now(c) /\ r.amount = a
  BY <1>2 DEF Record
<1> HIDE DEF r
<1>8. matched' \in [Offers -> Nat] /\ processed' \subseteq Record /\ processed \subseteq processed' /\ contended' \subseteq Offers
  BY <1>0, <1>2, <1>3, <1>7 DEF TurretsTypes
<1>9. TurretsTypes'
  BY <1>0, <1>1, <1>4, <1>6, <1>8 DEF TurretsTypes
<1>10. \E m \in {Now(c)} : IsRecorded(m)' \/ m \in lost'
  <2>1. PICK m \in {Now(c)} : TRUE
    OBVIOUS
  <2>2. \E q \in processed' : q.match = m
    BY <1>3, <1>7, <2>1 DEF IsRecorded
  <2> QED
    BY <2>1, <2>2 DEF IsRecorded
<1>11. RecordedIsPaid'
  <2> SUFFICES ASSUME NEW q \in processed'
               PROVE  \E k \in paid : k.match = q.match /\ k.amount = q.amount
    BY <1>1 DEF RecordedIsPaid
  <2>1. CASE q \in processed
    BY <1>0, <2>1 DEF RecordedIsPaid
  <2>2. CASE q = r
    BY <1>5, <1>7, <2>2
  <2> QED
    BY <1>3, <2>1, <2>2
<1>12. CapExceededByRaceOnly'
  <2> SUFFICES ASSUME NEW z \in Offers, matched'[z] > CapOf[z], z \notin contended'
               PROVE  FALSE
    BY DEF CapExceededByRaceOnly
  <2>1. CASE matched' = matched /\ contended' = contended
    BY <1>0, <2>1 DEF CapExceededByRaceOnly
  <2>2. CASE /\ matched' = [matched EXCEPT ![o] = @ + a]
             /\ contended' = IF matched[o] # calls[c].seen[o] THEN contended \union {o} ELSE contended
    <3>1. matched \in [Offers -> Nat] /\ calls[c].seen \in [Offers -> Nat] /\ CapOf[z] \in Nat /\ CapOf[o] \in Nat
      BY <1>0, <1>2, TurretsAssumption DEF TurretsTypes, Call
    <3>2. z \notin contended
      BY <2>2
    <3>3. CASE z # o
      <4>1. matched'[z] = matched[z]
        BY <2>2, <3>1, <3>3
      <4> QED
        BY <1>0, <3>2, <4>1 DEF CapExceededByRaceOnly
    <3>4. CASE z = o
      <4>1. matched[o] = calls[c].seen[o]
        BY <2>2, <3>4
      <4>2. matched'[o] = matched[o] + a
        BY <1>2, <2>2, <3>1
      <4>3. matched[o] \in Nat
        BY <1>2, <3>1
      <4>4. matched'[o] <= CapOf[o]
        BY <1>2, <3>1, <4>1, <4>2, <4>3
      <4> QED
        BY <1>2, <3>1, <3>4, <4>2, <4>3, <4>4
    <3> QED
      BY <3>3, <3>4
  <2> QED
    BY <1>3, <2>1, <2>2
<1>13. PaidTwiceByOverlapOnly'
  BY <1>0, <1>1 DEF PaidTwiceByOverlapOnly
<1>14. Active(c) /\ paid' \ paid = {} /\ processed \subseteq processed'
  BY <1>1, <1>8 DEF Active
<1> QED
  BY <1>1, <1>4, <1>6, <1>9, <1>10, <1>11, <1>12, <1>13, <1>14, CallStep

-----------------------------------------------------------------------------
(* The invariant *)

\* Nothing is matched and nobody is about a donation at first.
THEOREM TurretsInitInv == TurretsInit => TurretsInv
<1> SUFFICES ASSUME TurretsInit PROVE TurretsInv
  OBVIOUS
<1>1. /\ matched = [o \in Offers |-> 0] /\ processed = {} /\ paid = {}
      /\ sequence = [m \in Matchers |-> 0]
      /\ contended = {} /\ overlapped = {} /\ lost = {} /\ faults = 0
  BY DEF TurretsInit
<1>2. calls \in [Calls -> Call] /\ \A c \in Calls : calls[c] = Ready /\ calls[c].at = "start"
  BY DoneIsCall DEF TurretsInit, Ready
<1>3. TurretsTypes
  BY <1>1, <1>2, TurretsAssumption DEF TurretsTypes
<1>4. CallsFit /\ OneAtATime
  BY <1>2 DEF CallsFit, CallFits, PaymentFits, SeesPaid, OneAtATime, Active
<1>5. CapExceededByRaceOnly
  BY <1>1, TurretsAssumption DEF CapExceededByRaceOnly
<1>6. RecordedIsPaid /\ PaidIsRecorded /\ PaidTwiceByOverlapOnly
  BY <1>1 DEF RecordedIsPaid, PaidIsRecorded, PaidTwiceByOverlapOnly
<1> QED
  BY <1>3, <1>4, <1>5, <1>6 DEF TurretsInv

\* Every step of every call keeps the invariant.
THEOREM TurretsNextInv == TurretsInv /\ [TurretsNext]_turretsVars => TurretsInv'
<1> SUFFICES ASSUME TurretsInv, [TurretsNext]_turretsVars PROVE TurretsInv'
  OBVIOUS
<1>1. ASSUME NEW c \in Calls, ReadOffers(c) PROVE TurretsInv'
  BY <1>1, ReadOffersKeepsInv
<1>2. ASSUME NEW c \in Calls, ReadProcessed(c) PROVE TurretsInv'
  BY <1>2, ReadProcessedKeepsInv
<1>3. ASSUME NEW c \in Calls, Load(c) PROVE TurretsInv'
  BY <1>3, LoadKeepsInv
<1>4. ASSUME NEW c \in Calls, Pay(c) PROVE TurretsInv'
  BY <1>4, PayKeepsInv
<1>5. ASSUME NEW c \in Calls, PaysTheSame(c) PROVE TurretsInv'
  BY <1>5, PaysTheSameKeepsInv
<1>6. ASSUME NEW c \in Calls, PayRefused(c) PROVE TurretsInv'
  BY <1>6, PayRefusedKeepsInv
<1>7. ASSUME NEW c \in Calls, PayUnanswered(c) PROVE TurretsInv'
  BY <1>7, PayUnansweredKeepsInv
<1>8. ASSUME NEW c \in Calls, RecordMatch(c) PROVE TurretsInv'
  BY <1>8, RecordMatchKeepsInv
<1>9. ASSUME NEW c \in Calls, CutOff(c) PROVE TurretsInv'
  BY <1>9, CutOffKeepsInv
<1>10. CASE UNCHANGED turretsVars
  <2>1. /\ UNCHANGED <<matched, processed, paid, sequence, calls, contended, overlapped, lost, faults>>
    BY <1>10 DEF turretsVars, history
  <2>2. TurretsTypes' /\ RecordedIsPaid' /\ PaidIsRecorded' /\ CapExceededByRaceOnly' /\ PaidTwiceByOverlapOnly'
    BY <2>1 DEF TurretsInv, TurretsTypes, RecordedIsPaid, PaidIsRecorded, IsRecorded, Now, Current,
                CapExceededByRaceOnly, PaidTwiceByOverlapOnly
  <2>3. CallsFit' /\ OneAtATime'
    BY <2>1 DEF TurretsInv, CallsFit, CallFits, PaymentFits, SeesPaid, OneAtATime, Active, IsRecorded, Now, Intended, Current
  <2> QED
    BY <2>2, <2>3 DEF TurretsInv
<1> QED
  BY <1>1, <1>2, <1>3, <1>4, <1>5, <1>6, <1>7, <1>8, <1>9, <1>10 DEF TurretsNext

\* The inductive invariant holds in every reachable state.
THEOREM TurretsInvariantHolds == TurretsSpec => []TurretsInv
BY TurretsInitInv, TurretsNextInv, PTL DEF TurretsSpec

\* processMatchingForDonation (turrets.js): the records of the matches tell of
\* payments that were made, and a payment goes unrecorded only if the call
\* that made it was cut off before it wrote.
THEOREM RecordsTellOfPayments == TurretsSpec => [](TurretsTypes /\ RecordedIsPaid /\ PaidIsRecorded)
<1>1. TurretsInv => TurretsTypes /\ RecordedIsPaid /\ PaidIsRecorded
  BY DEF TurretsInv
<1> QED
  BY <1>1, TurretsInvariantHolds, PTL

\* processMatchingForDonation (turrets.js): an offer gives more than its cap
\* only when its counter moved between a call's read of it and its write.
THEOREM CapsExceededByRacesOnly == TurretsSpec => []CapExceededByRaceOnly
<1>1. TurretsInv => CapExceededByRaceOnly
  BY DEF TurretsInv
<1> QED
  BY <1>1, TurretsInvariantHolds, PTL

\* processMatchingForDonation (turrets.js): a donation is matched twice by an
\* offer only if two deliveries of it overlapped or a call was cut off.
THEOREM PaidTwiceByOverlapsOnly == TurretsSpec => []PaidTwiceByOverlapOnly
<1>1. TurretsInv => PaidTwiceByOverlapOnly
  BY DEF TurretsInv
<1> QED
  BY <1>1, TurretsInvariantHolds, PTL

-----------------------------------------------------------------------------
(* The counters *)

RecordsOf(o) == {r \in processed : r.match[2] = o}
Amounts(o) == [r \in RecordsOf(o) |-> r.amount]

\* There are finitely many records, and every counter is the sum of its own.
CountersFit ==
    /\ IsFiniteSet(processed)
    /\ \A o \in Offers : matched[o] = SumFunctionOnSet(Amounts(o), RecordsOf(o))

CounterInv == TurretsInv /\ CountersFit

\* A match is written once, so its amount is added once.
LEMMA WriteCounts ==
    ASSUME CounterInv, NEW c \in Calls, calls[c].at = "paid", ~IsRecorded(Now(c)), Write(c)
    PROVE  CountersFit'
<1> DEFINE a == Intended(c).amount
<1>0. TurretsTypes /\ CallFits(c) /\ CountersFit
  BY DEF CounterInv, TurretsInv, CallsFit
<1>n. PICK n \in Offers : n = Current(c) /\ Now(c)[2] = n /\ a \in Nat
  BY <1>0, IntendedFits
<1>r. PICK r \in {[match |-> Now(c), amount |-> a]} : TRUE
  OBVIOUS
<1>1. a \in Nat /\ Now(c)[2] = n /\ n \in Offers
  BY <1>n
<1>2. matched' = [matched EXCEPT ![n] = @ + a] /\ processed' = processed \union {r}
  BY <1>n, <1>r DEF Write
<1>3. r.match = Now(c) /\ r.amount = a /\ r \notin processed
  BY <1>r DEF IsRecorded
<1>4. \A q \in processed : q.amount \in Nat
  BY <1>0 DEF TurretsTypes, Record
<1> HIDE DEF a
<1>5. IsFiniteSet(processed')
  BY <1>0, <1>2, FS_AddElement DEF CountersFit
<1>6. ASSUME NEW o \in Offers, o # n
      PROVE  matched'[o] = SumFunctionOnSet(Amounts(o)', RecordsOf(o)')
  <2>1. RecordsOf(o)' = RecordsOf(o)
    BY <1>1, <1>2, <1>3, <1>6 DEF RecordsOf
  <2>2. Amounts(o)' = Amounts(o)
    BY <2>1 DEF Amounts
  <2>3. matched'[o] = matched[o]
    BY <1>0, <1>2, <1>6 DEF TurretsTypes
  <2> QED
    BY <1>0, <2>1, <2>2, <2>3 DEF CountersFit
<1>7. matched'[n] = SumFunctionOnSet(Amounts(n)', RecordsOf(n)')
  <2> DEFINE S == RecordsOf(n)
             f == Amounts(n)
             g == Amounts(n)'
  <2>1. RecordsOf(n)' = S \cup {r} /\ r \notin S /\ S \subseteq processed
    BY <1>1, <1>2, <1>3 DEF RecordsOf
  <2>2. /\ \A q \in S : f[q] = g[q]
        /\ \A q \in S \cup {r} : g[q] \in Int
        /\ g[r] = a
    BY <1>1, <1>2, <1>3, <1>4, <2>1 DEF Amounts
  <2>3. IsFiniteSet(S)
    BY <1>0, <2>1, FS_Subset DEF CountersFit
  <2>4. matched[n] = SumFunctionOnSet(f, S)
    BY <1>0, <1>1 DEF CountersFit
  <2>5. matched'[n] = matched[n] + a /\ matched[n] \in Nat
    BY <1>0, <1>1, <1>2 DEF TurretsTypes
  <2> HIDE DEF S, f, g
  <2>6. SumFunctionOnSet(f, S) = SumFunctionOnSet(g, S)
    BY <2>2, <2>3, SumOfEqual
  <2>7. SumFunctionOnSet(g, S \cup {r}) = g[r] + SumFunctionOnSet(g, S)
    BY <2>1, <2>2, <2>3, SumWith
  <2>8. SumFunctionOnSet(Amounts(n)', RecordsOf(n)') = SumFunctionOnSet(g, S \cup {r})
    BY <2>1 DEF g
  <2> QED
    BY <1>1, <2>2, <2>4, <2>5, <2>6, <2>7, <2>8
<1> QED
  BY <1>5, <1>6, <1>7 DEF CountersFit

\* No other step touches a counter or a record.
LEMMA CounterNextInv == CounterInv /\ [TurretsNext]_turretsVars => CounterInv'
<1> SUFFICES ASSUME CounterInv, [TurretsNext]_turretsVars PROVE CounterInv'
  OBVIOUS
<1>1. TurretsInv'
  BY TurretsNextInv DEF CounterInv
<1>2. ASSUME UNCHANGED <<matched, processed>> PROVE CountersFit'
  BY <1>2 DEF CounterInv, CountersFit, RecordsOf, Amounts
<1>3. ASSUME NEW c \in Calls, RecordMatch(c) PROVE CountersFit'
  BY <1>2, <1>3, WriteCounts DEF RecordMatch
<1>4. ASSUME NEW c \in Calls,
             \/ ReadOffers(c) \/ ReadProcessed(c) \/ Load(c) \/ Pay(c) \/ PaysTheSame(c)
             \/ PayRefused(c) \/ PayUnanswered(c) \/ CutOff(c)
      PROVE  UNCHANGED <<matched, processed>>
  BY <1>4 DEF ReadOffers, ReadProcessed, Load, Pay, PaysTheSame, PayRefused, PayUnanswered, CutOff
<1>5. ASSUME UNCHANGED turretsVars PROVE CountersFit'
  BY <1>2, <1>5 DEF turretsVars
<1> QED
  BY <1>1, <1>2, <1>3, <1>4, <1>5 DEF TurretsNext, CounterInv

\* BooksMatchLedger: matched_xlm of an offer (the UPDATE in
\* processMatchingForDonation, turrets.js) is the sum of its records in
\* matching_processed_donations, and the records tell of payments made.
THEOREM BooksAlwaysMatchLedger == TurretsSpec => []BooksMatchLedger
<1>1. TurretsInit => CounterInv
  <2> SUFFICES ASSUME TurretsInit PROVE CountersFit
    BY TurretsInitInv DEF CounterInv
  <2>1. processed = {} /\ matched = [o \in Offers |-> 0]
    BY DEF TurretsInit
  <2>2. \A o \in Offers : RecordsOf(o) = {}
    BY <2>1 DEF RecordsOf
  <2> QED
    BY <2>1, <2>2, SumEmpty, FS_EmptySet DEF CountersFit
<1>2. CounterInv => BooksMatchLedger
  <2> SUFFICES ASSUME CounterInv PROVE BooksMatchLedger
    OBVIOUS
  <2>1. ASSUME NEW o \in Offers
        PROVE  SumFunctionOnSet(Amounts(o), RecordsOf(o)) = SumFunction(Amounts(o))
    BY DEF SumFunction, Amounts
  <2>2. CounterIsSum
    BY <2>1 DEF CounterInv, CountersFit, CounterIsSum, Amounts, RecordsOf
  <2> QED
    BY <2>2 DEF CounterInv, TurretsInv, BooksMatchLedger
<1> QED
  BY <1>1, <1>2, CounterNextInv, PTL DEF TurretsSpec
=============================================================================
