--------------------------- MODULE TurretsMatching ---------------------------
(***************************************************************************)
(* The matching of donations by the Turrets service                        *)
(* (backend/src/services/turrets.js).                                      *)
(*                                                                         *)
(* A call for a payment reads the open offers of its project and what was  *)
(* already done for the payment, then pays every remaining offer's share   *)
(* on the ledger and records it in one transaction.  Deliveries are at     *)
(* least once, so several calls may be about one payment, one after        *)
(* another or together.  A step is one awaited call.  The ledger is        *)
(* external: a payment carries a sequence number of its matcher and        *)
(* applies only at its turn.  Nothing else writes matched_xlm: the event   *)
(* store counts its own matches in match_state (see DonationCommands).     *)
(*                                                                         *)
(* Amounts are small integers; an offer's share of a payment is Share.     *)
(* The donations row of a match is written with its processed row and not  *)
(* told apart from it.                                                     *)
(***************************************************************************)
EXTENDS Integers, FiniteSetsExt, Functions

CONSTANTS
    Payments,       \* transaction hashes of donations, all to one project
    Offers,         \* its donation_matches, open throughout, in the order of created_at
    Share,          \* donation amount times the offer's multiplier
    CapOf,            \* cap_xlm
    Calls,          \* deliveries
    About,          \* the payment a delivery is about
    MatcherOf,      \* the account that pays for an offer
    MaxFaults       \* bound: unanswered, failing or stopping calls

ASSUME TurretsAssumption ==
    /\ Offers \subseteq Nat
    /\ Share \in [Payments \X Offers -> Nat]
    /\ CapOf \in [Offers -> Nat]
    /\ About \in [Calls -> Payments]
    /\ DOMAIN MatcherOf = Offers
    /\ MaxFaults \in Nat

VARIABLES
    matched,        \* matched_xlm of an offer
    processed,      \* rows of matching_processed_donations
    paid,           \* matching payments on the ledger
    sequence,       \* sequence number of a matcher on the ledger
    calls,          \* calls in progress
    contended,          \* history: offers added to after their counter had moved
    overlapped,     \* history: payments two calls were about at once
    lost,           \* history: matches whose call was cut off
    faults

history == <<contended, overlapped, lost>>
turretsVars == <<matched, processed, paid, sequence, calls, history, faults>>

Matchers == {MatcherOf[o] : o \in Offers}
Match == Payments \X Offers
Record == [match: Match, amount: Nat]
Payment == [match: Match, amount: Nat, sequence: Nat]
Call == [at: {"start", "read", "loop", "loaded", "paid", "done"},
         todo: SUBSET Offers, seen: [Offers -> Nat], sequence: Nat]

Ready == [at |-> "start", todo |-> {}, seen |-> [o \in Offers |-> 0], sequence |-> 0]
Done == [Ready EXCEPT !.at = "done"]

TurretsTypes ==
    /\ matched \in [Offers -> Nat]
    /\ processed \subseteq Record
    /\ paid \subseteq Payment
    /\ sequence \in [Matchers -> Nat]
    /\ calls \in [Calls -> Call]
    /\ \A c \in Calls : calls[c].at \in {"loop", "loaded", "paid"} => calls[c].todo # {}
    /\ contended \subseteq Offers /\ overlapped \subseteq Payments /\ lost \subseteq Match
    /\ faults \in 0 .. MaxFaults

TurretsInit ==
    /\ matched = [o \in Offers |-> 0]
    /\ processed = {} /\ paid = {}
    /\ sequence = [m \in Matchers |-> 0]
    /\ calls = [c \in Calls |-> Ready]
    /\ contended = {} /\ overlapped = {} /\ lost = {}
    /\ faults = 0

-----------------------------------------------------------------------------
IsRecorded(m) == \E r \in processed : r.match = m
Current(c) == Min(calls[c].todo)
Now(c) == <<About[c], Current(c)>>

\* Mutated: the cap is not looked at again.
Amount_Uncapped(m, counter) == IF counter < CapOf[m[2]] THEN Share[m] ELSE 0

\* What a match of m may still add, by the counter that was read.
Amount(m, counter) == Min({Share[m], CapOf[m[2]] - counter})

\* The rest of the loop: offers with nothing left to give are skipped.
Loop(c, todo) ==
    LET rest == {o \in todo : Amount(<<About[c], o>>, calls[c].seen[o]) > 0} IN
    IF rest = {} THEN Done
    ELSE [at |-> "loop", todo |-> rest, sequence |-> 0,
          seen |-> [o \in Offers |-> IF o \in rest THEN calls[c].seen[o] ELSE 0]]

Goes(c, to) == calls' = [calls EXCEPT ![c] = to]
NextOffer(c) == Goes(c, Loop(c, calls[c].todo \ {Current(c)}))

\* The project and its open offers.
ReadOffers(c) ==
    /\ calls[c].at = "start"
    /\ Goes(c, [Ready EXCEPT !.at = "read", !.todo = Offers, !.seen = matched])
    /\ overlapped' = IF \E d \in Calls \ {c} : About[d] = About[c] /\ calls[d].at \notin {"start", "done"}
                     THEN overlapped \union {About[c]} ELSE overlapped
    /\ UNCHANGED <<matched, processed, paid, sequence, contended, lost, faults>>

\* Mutated: no pre-check.
ReadProcessed_None(c) ==
    /\ calls[c].at = "read"
    /\ Goes(c, Loop(c, calls[c].todo))
    /\ UNCHANGED <<matched, processed, paid, sequence, history, faults>>

\* getAlreadyProcessedMatchIds: offers already processed are skipped.
ReadProcessed(c) ==
    /\ calls[c].at = "read"
    /\ Goes(c, Loop(c, {o \in calls[c].todo : ~IsRecorded(<<About[c], o>>)}))
    /\ UNCHANGED <<matched, processed, paid, sequence, history, faults>>

\* submitMatchingPayment, loadAccount.
Load(c) ==
    /\ calls[c].at = "loop"
    /\ Goes(c, [calls[c] EXCEPT !.at = "loaded", !.sequence = sequence[MatcherOf[Current(c)]] + 1])
    /\ UNCHANGED <<matched, processed, paid, sequence, history, faults>>

Intended(c) == [match |-> Now(c), sequence |-> calls[c].sequence,
                amount |-> Amount(Now(c), calls[c].seen[Current(c)])]

\* The ledger applies the payment a call built, if it is its turn.
Applies(c) ==
    LET m == MatcherOf[Current(c)] IN
    /\ calls[c].sequence = sequence[m] + 1
    /\ paid' = paid \union {Intended(c)}
    /\ sequence' = [sequence EXCEPT ![m] = @ + 1]

Pay(c) ==
    /\ calls[c].at = "loaded"
    /\ Applies(c)
    /\ Goes(c, [calls[c] EXCEPT !.at = "paid"])
    /\ UNCHANGED <<matched, processed, history, faults>>

\* Two calls that build the very same transaction are both told it applied.
PaysTheSame(c) ==
    /\ calls[c].at = "loaded"
    /\ Intended(c) \in paid
    /\ Goes(c, [calls[c] EXCEPT !.at = "paid"])
    /\ UNCHANGED <<matched, processed, paid, sequence, history, faults>>

\* The transaction is refused, and the loop goes on.
PayRefused(c) ==
    /\ calls[c].at = "loaded"
    /\ calls[c].sequence # sequence[MatcherOf[Current(c)]] + 1
    /\ NextOffer(c)
    /\ UNCHANGED <<matched, processed, paid, sequence, history, faults>>

\* Horizon does not answer: the payment applies or not, and the loop goes on.
PayUnanswered(c) ==
    /\ calls[c].at = "loaded"
    /\ faults < MaxFaults /\ faults' = faults + 1
    /\ Applies(c) \/ UNCHANGED <<paid, sequence>>
    /\ lost' = lost \union {Now(c)}
    /\ NextOffer(c)
    /\ UNCHANGED <<matched, processed, contended, overlapped>>

\* Writes the three rows of a match.
Write(c) ==
    LET o == Current(c) IN
    /\ matched' = [matched EXCEPT ![o] = @ + Intended(c).amount]
    /\ processed' = processed \union {[match |-> Now(c), amount |-> Intended(c).amount]}
    /\ contended' = IF matched[o] # calls[c].seen[o] THEN contended \union {o} ELSE contended

\* Mutated: one record for a payment, whichever the offer.
RecordMatch_ByPayment(c) ==
    /\ calls[c].at = "paid"
    /\ IF \E r \in processed : r.match[1] = About[c]
       THEN UNCHANGED <<matched, processed, contended>> ELSE Write(c)
    /\ NextOffer(c)
    /\ UNCHANGED <<paid, sequence, overlapped, lost, faults>>

\* The transaction; a concurrent call that recorded the match rolls it back.
RecordMatch(c) ==
    /\ calls[c].at = "paid"
    /\ IF IsRecorded(Now(c)) THEN UNCHANGED <<matched, processed, contended>> ELSE Write(c)
    /\ NextOffer(c)
    /\ UNCHANGED <<paid, sequence, overlapped, lost, faults>>

\* Any other error of the database, or the process stops: the call ends.
CutOff(c) ==
    /\ calls[c].at \notin {"start", "done"}
    /\ faults < MaxFaults /\ faults' = faults + 1
    /\ lost' = IF calls[c].at = "paid" THEN lost \union {Now(c)} ELSE lost
    /\ Goes(c, Done)
    /\ UNCHANGED <<matched, processed, paid, sequence, contended, overlapped>>

TurretsNext ==
    \/ \E c \in Calls :
         \/ ReadOffers(c) \/ ReadProcessed(c) \/ Load(c)
         \/ Pay(c) \/ PaysTheSame(c) \/ PayRefused(c) \/ PayUnanswered(c)
         \/ RecordMatch(c) \/ CutOff(c)

TurretsSpec == TurretsInit /\ [][TurretsNext]_turretsVars

-----------------------------------------------------------------------------
(* Properties *)

\* No match is recorded that was not paid on the ledger, with its amount.
RecordedIsPaid ==
    \A r \in processed : \E p \in paid : p.match = r.match /\ p.amount = r.amount

\* A payment made is recorded, by the call that made it or by one it raced
\* with, unless that call was cut off in between.
PaidIsRecorded ==
    \A p \in paid :
        \/ IsRecorded(p.match) \/ p.match \in lost
        \/ \E c \in Calls : calls[c].at = "paid" /\ Now(c) = p.match

\* The counter of an offer is the sum of its records: a match that two calls
\* paid for, or that was rolled back, is counted as often as it is recorded.
CounterIsSum ==
    \A o \in Offers :
        matched[o] = SumFunction([r \in {r \in processed : r.match[2] = o} |-> r.amount])

\* The records, the counters and the ledger tell the same.
BooksMatchLedger == TurretsTypes /\ RecordedIsPaid /\ PaidIsRecorded /\ CounterIsSum

\* An offer gives more than its cap only if its counter moved between the
\* moment a writer read it and its write.
CapExceededByRaceOnly == \A o \in Offers : matched[o] > CapOf[o] => o \in contended

\* A donation is matched twice on the ledger only if two deliveries of it were
\* in progress at once or one was cut off: a later delivery pays nothing.  The
\* unique index keeps the records apart, not the payments made before them,
\* although turrets.js:13-14 and 73-75 call a second delivery a provable and
\* guaranteed no-op, with no Horizon transaction submitted, and schema.sql:1021
\* the index a hard guarantee of it, even when pre-checks race.
PaidTwiceByOverlapOnly ==
    \A p, q \in paid : p.match = q.match /\ p # q =>
        p.match[1] \in overlapped \/ p.match \in lost
=============================================================================
