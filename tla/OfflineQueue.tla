---------------------------- MODULE OfflineQueue ----------------------------
(***************************************************************************)
(* The donation queue of the mobile app: the donate screen                 *)
(* (mobile/app/donate/[id].tsx), the queue kept on the device              *)
(* (utils/donationQueue.ts), its synchronisation (hooks/useDonationSync.ts)*)
(* and what the user can do about conflicts (app/sync-conflicts.tsx).      *)
(*                                                                         *)
(* A wish is a donation the user means to make once.  A visit is a donate  *)
(* screen from the time it is opened; its steps are the calls that         *)
(* handleDonate awaits; a second tap before the first has locked the       *)
(* button makes a second call, which is a visit of its own.  Changes of    *)
(* the stored queue are serialised (enqueueMutation), so each is one step; *)
(* its read can fail, which looks like an empty list, and so can its write.*)
(* The hook runs on the home and the conflicts screen, each with its own   *)
(* syncingRef.  The network and the user choose freely; that a check finds *)
(* the balance too low or the project closed is left open as well.  An     *)
(* amount stands for all that the user can change of a donation on the     *)
(* screen.                                                                 *)
(*                                                                         *)
(* Not modelled: monthly donations, and a list of conflicts that is older  *)
(* than the queue.                                                         *)
(***************************************************************************)
EXTENDS Integers, Sequences, FiniteSetsExt

CONSTANTS
    Wishes, Amounts,
    Wants,          \* the amount of a wish
    Barred,         \* wishes the backend refuses for good
    Visits,         \* bound: donate screens, and calls of theirs, at a time
    Hooks,          \* screens that mount useDonationSync
    MaxEntries,     \* bound: entries ever queued
    MaxPayments,    \* bound: payments on the ledger
    MaxFaults       \* bound: unanswered submissions, second taps, failures of the store,
                    \* entries not loaded, stops of the app and edited amounts

Ids == 1 .. MaxEntries
Payments == 1 .. MaxPayments

ASSUME OfflineQueueAssumption ==
    /\ Amounts \subseteq Nat \ {0} /\ Wants \in [Wishes -> Amounts] /\ Barred \subseteq Wishes
    /\ MaxEntries \in Nat /\ MaxPayments \in Nat /\ MaxFaults \in Nat

VARIABLES
    queue,      \* the stored queue; the newest entry has the largest id
    issued,     \* the wish each id was given out for
    visits,
    syncs,      \* the passes of syncNow under way
    ledger,     \* payments Horizon has accepted; a hash is a place in it
    recorded,   \* the amount the backend has for a hash, 0 for none
    begun,      \* wishes the user has acted on
    causes,     \* history: what the app or the user did to a wish
    faults

vars == <<queue, issued, visits, syncs, ledger, recorded, begun, causes, faults>>

Conflicts == {"inactive", "balance", "duplicate"}
Wish == Wishes \union {"none"}
Entry == [status: {"none", "pending", "ready"} \union Conflicts, wish: Wish, amount: Nat, hash: 0 .. MaxPayments]
\* queueEntry is entry with held and kept, its hash and amount when it was read.
Visit == [at: {"away", "open", "posting", "stamp", "confirmed"}, wish: Wish,
          entry: 0 .. MaxEntries, held: 0 .. MaxPayments, kept: Nat, tx: 0 .. MaxPayments]
\* What a pass goes by of the list it read: of the pending entries what is sent
\* to the backend, of the ready ones what makes another entry their duplicate.
Sync == [todo: SUBSET (Ids \X Amounts \X (0 .. MaxPayments)), ready: SUBSET Amounts]

NoEntry == [status |-> "none", wish |-> "none", amount |-> 0, hash |-> 0]
Away == [at |-> "away", wish |-> "none", entry |-> 0, held |-> 0, kept |-> 0, tx |-> 0]
NoSync == [todo |-> {}, ready |-> {}]
Cause == {"unanswered", "stopped", "overlap", "requeued", "unread", "unsaved", "wiped", "retouched", "removed"}

TypeOK ==
    /\ queue \in [Ids -> Entry] /\ issued \in Seq(Wishes) /\ Len(issued) <= MaxEntries
    /\ \A id \in Ids : (id > Len(issued) => queue[id] = NoEntry) /\ (queue[id].status = "none" => queue[id] = NoEntry)
    /\ visits \in [Visits -> Visit] /\ syncs \in [Hooks -> Sync]
    /\ \A v \in Visits : visits[v].held # 0 => visits[v].entry # 0
    /\ ledger \in Seq([wish: Wishes, amount: Amounts]) /\ Len(ledger) <= MaxPayments
    /\ recorded \in [Payments -> Nat]
    /\ \A p \in Payments : recorded[p] # 0 => p \in DOMAIN ledger
    /\ begun \subseteq Wishes /\ causes \subseteq Wishes \X Cause /\ faults \in 0 .. MaxFaults

Init ==
    /\ queue = [id \in Ids |-> NoEntry] /\ issued = <<>>
    /\ visits = [v \in Visits |-> Away] /\ syncs = [s \in Hooks |-> NoSync]
    /\ ledger = <<>> /\ recorded = [p \in Payments |-> 0]
    /\ begun = {} /\ causes = {} /\ faults = 0

-----------------------------------------------------------------------------
(* utils/donationQueue.ts *)

Present(id) == queue[id].status # "none"
Mishap == faults < MaxFaults /\ faults' = faults + 1

\* What listQueuedDonations can return: a read that fails, and one of a value
\* that is not a list, look like an empty queue.
Reads == {queue} \union (IF faults < MaxFaults THEN {[id \in Ids |-> NoEntry]} ELSE {})

\* A mutation saves what it makes of the list it has read, so that entries it
\* has not read are gone.
Wiped(list) == {<<queue[id].wish, "wiped">> : id \in {i \in Ids : Present(i) /\ list[i] = NoEntry}}
Saves(list, result, blame) ==
    /\ queue' = result
    /\ causes' = causes \union blame \union Wiped(list)
    /\ faults' = IF list = queue THEN faults ELSE faults + 1

EnqueueDonation(list, wish, amount, blame) ==
    /\ Len(issued) < MaxEntries
    /\ issued' = Append(issued, wish)
    /\ Saves(list, [list EXCEPT ![Len(issued) + 1] =
                       [status |-> "pending", wish |-> wish, amount |-> amount, hash |-> 0]], blame)

\* updateQueuedDonation with a hash, with a status, and with an amount that
\* has to be checked again; removeQueuedDonation
UpdateQueuedDonation(list, id, entry) == IF list[id] = NoEntry THEN list ELSE [list EXCEPT ![id] = entry]
StampHash(list, id, hash) == UpdateQueuedDonation(list, id, [list[id] EXCEPT !.hash = hash])
SetStatus(list, id, status) == UpdateQueuedDonation(list, id, [list[id] EXCEPT !.status = status])
SetAmount(list, id, amount) == UpdateQueuedDonation(list, id, [list[id] EXCEPT !.amount = amount, !.status = "pending"])
RemoveQueuedDonation(list, id) == [list EXCEPT ![id] = NoEntry]

\* POST /donations: a hash that is known with another amount is refused, and
\* so is a donation to a project that is not there, or above the cap of a
\* sponsored account.
Accepts(hash, amount) == recorded[hash] \in {0, amount} /\ ledger[hash].wish \notin Barred
Post(hash, amount) == recorded' = [recorded EXCEPT ![hash] = amount]
\* It fails with or without having been carried out.
PostFails(hash, amount) == recorded' = recorded \/ (Accepts(hash, amount) /\ Post(hash, amount))

-----------------------------------------------------------------------------
(* app/donate/[id].tsx *)

Open(v, w) ==
    /\ visits[v].at = "away" /\ w \notin begun
    /\ begun' = begun \union {w}
    /\ visits' = [visits EXCEPT ![v] = [Away EXCEPT !.at = "open", !.wish = w]]
    /\ UNCHANGED <<queue, issued, syncs, ledger, recorded, causes, faults>>

\* The visit may pay, or has paid, for its wish, and the queue does not say so.
Unsettled(v) == visits[v].at # "away" /\ visits[v].held = 0

\* Another screen or call is at work for the wish.
Overlapping(w) == IF \E u \in Visits : visits[u].wish = w /\ Unsettled(u) THEN {<<w, "overlap">>} ELSE {}

\* "Complete now"
CompleteNow(v, id) ==
    LET e == queue[id] IN
    /\ visits[v].at = "away" /\ e.status = "ready"
    /\ visits' = [visits EXCEPT ![v] =
           [at |-> "open", wish |-> e.wish, entry |-> id, held |-> e.hash, kept |-> e.amount, tx |-> 0]]
    /\ causes' = causes \union Overlapping(e.wish)
    /\ UNCHANGED <<queue, issued, syncs, ledger, recorded, begun, faults>>

\* The screen has not loaded the entry when it is used, or could not read it.
CompleteUnread(v, id) ==
    LET e == queue[id] IN
    /\ visits[v].at = "away" /\ e.status = "ready" /\ Mishap
    /\ visits' = [visits EXCEPT ![v] = [Away EXCEPT !.at = "open", !.wish = e.wish]]
    /\ causes' = causes \union Overlapping(e.wish) \union {<<e.wish, "unread">>}
    /\ UNCHANGED <<queue, issued, syncs, ledger, recorded, begun>>

\* A second tap on the button, which is locked only after the connection has
\* been looked up and the user has authenticated, and never while offline.
TapAgain(v, u) ==
    /\ visits[v].at = "open" /\ visits[v].held = 0 /\ visits[u].at = "away" /\ Mishap
    /\ visits' = [visits EXCEPT ![u] = visits[v]]
    /\ causes' = causes \union Overlapping(visits[v].wish)
    /\ UNCHANGED <<queue, issued, syncs, ledger, recorded, begun>>

Leave(v) ==
    /\ visits[v].at = "open"
    /\ visits' = [visits EXCEPT ![v] = Away]
    /\ UNCHANGED <<queue, issued, syncs, ledger, recorded, begun, causes, faults>>

\* The field starts with the amount of the entry and can be changed.
Typed(v) == IF visits[v].entry = 0 THEN {Wants[visits[v].wish]} ELSE Amounts

\* An entry that is being completed stays when the donation is saved again.
DonateOffline(v, amount) ==
    LET w == visits[v].wish IN
    /\ visits[v].at = "open" /\ visits[v].held = 0 /\ amount \in Typed(v)
    /\ \E list \in Reads :
           EnqueueDonation(list, w, amount, IF visits[v].entry # 0 THEN {<<w, "requeued">>} ELSE {})
    /\ visits' = [visits EXCEPT ![v] = Away]
    /\ UNCHANGED <<syncs, ledger, recorded, begun>>

\* The hash is known, in the store or to the screen, from here on.
Paid(v, amount) == Append(ledger, [wish |-> visits[v].wish, amount |-> amount])
Retouched(v, amount) == IF visits[v].entry # 0 /\ amount # visits[v].kept
                        THEN {<<visits[v].wish, "retouched">>} ELSE {}
MayPay(v, amount) ==
    /\ visits[v].at = "open" /\ visits[v].held = 0
    /\ amount \in Typed(v) /\ Len(ledger) < MaxPayments

\* handleDonate up to submitTransaction; a refusal leaves all as it was.
Donate(v, amount) ==
    /\ MayPay(v, amount)
    /\ ledger' = Paid(v, amount)
    /\ visits' = [visits EXCEPT ![v] = [@ EXCEPT !.at = "posting", !.tx = Len(ledger) + 1]]
    /\ causes' = causes \union Retouched(v, amount)
    /\ UNCHANGED <<queue, issued, syncs, recorded, begun, faults>>

\* A submission without an answer is taken for a refusal.
DonateUnanswered(v, amount) ==
    /\ MayPay(v, amount) /\ Mishap
    /\ ledger' = Paid(v, amount)
    /\ causes' = causes \union {<<visits[v].wish, "unanswered">>} \union Retouched(v, amount)
    /\ UNCHANGED <<queue, issued, visits, syncs, recorded, begun>>

\* The backend confirmation after a submission, or on its own
\* (retryBackendConfirmation).
Confirming(v) == visits[v].at = "posting" \/ (visits[v].at = "open" /\ visits[v].held # 0)
Hash(v) == IF visits[v].held # 0 THEN visits[v].held ELSE visits[v].tx
Told(v) == IF visits[v].held # 0 THEN visits[v].kept ELSE ledger[visits[v].tx].amount

Confirmed(v) ==
    /\ Confirming(v)
    /\ Accepts(Hash(v), Told(v)) /\ Post(Hash(v), Told(v))
    /\ visits' = [visits EXCEPT ![v] = IF @.entry = 0 THEN Away ELSE [@ EXCEPT !.at = "confirmed"]]
    /\ UNCHANGED <<queue, issued, syncs, ledger, begun, causes, faults>>

RemoveConfirmed(v) ==
    /\ visits[v].at = "confirmed"
    /\ \E list \in Reads : Saves(list, RemoveQueuedDonation(list, visits[v].entry), {})
    /\ visits' = [visits EXCEPT ![v] = Away]
    /\ UNCHANGED <<issued, syncs, ledger, recorded, begun>>

ConfirmationFails(v) ==
    /\ visits[v].at = "open" /\ visits[v].held # 0
    /\ PostFails(Hash(v), Told(v))
    /\ UNCHANGED <<queue, issued, visits, syncs, ledger, begun, causes, faults>>

Noted(v) == [visits EXCEPT ![v] = [@ EXCEPT !.at = "open", !.held = visits[v].tx, !.tx = 0]]

\* Mutated: the hash is kept on the screen only.
Stamp_Screen(v) ==
    /\ \/ visits[v].at = "stamp" /\ recorded' = recorded
       \/ visits[v].at = "posting" /\ visits[v].entry # 0 /\ PostFails(Hash(v), Told(v))
    /\ visits' = Noted(v)
    /\ UNCHANGED <<queue, issued, syncs, ledger, begun, causes, faults>>

\* A failed confirmation: the hash is noted in the entry of the donation, or
\* in a new one, which is written without it first.
Stamp(v) ==
    /\ \/ visits[v].at = "stamp" /\ recorded' = recorded
       \/ visits[v].at = "posting" /\ visits[v].entry # 0 /\ PostFails(Hash(v), Told(v))
    /\ \E list \in Reads : Saves(list, StampHash(list, visits[v].entry, visits[v].tx), {})
    /\ visits' = Noted(v)
    /\ UNCHANGED <<issued, syncs, ledger, begun>>

\* The entry of a confirmed donation cannot be removed; it gets the hash too.
StampConfirmed(v) ==
    /\ visits[v].at = "confirmed" /\ visits[v].held = 0 /\ Mishap
    /\ queue' = StampHash(queue, visits[v].entry, visits[v].tx)
    /\ visits' = Noted(v)
    /\ UNCHANGED <<issued, syncs, ledger, recorded, begun, causes>>

\* A write fails: the screen is as it was before the payment, the new entry,
\* if there is one, has no hash.
Unsaved(v) ==
    /\ \/ visits[v].at \in {"stamp", "confirmed"} /\ recorded' = recorded
       \/ visits[v].at = "posting" /\ PostFails(Hash(v), Told(v))
    /\ Mishap
    /\ visits' = [visits EXCEPT ![v] =
           [@ EXCEPT !.at = "open", !.tx = 0,
                      !.entry = IF visits[v].at = "stamp" THEN 0 ELSE visits[v].entry]]
    /\ causes' = causes \union (IF visits[v].held = 0 THEN {<<visits[v].wish, "unsaved">>} ELSE {})
    /\ UNCHANGED <<queue, issued, syncs, ledger, begun>>

\* Mutated: the new entry is made from the field, which has been reset.
Rescue_Reset(v) ==
    /\ visits[v].at = "posting" /\ visits[v].entry = 0
    /\ PostFails(Hash(v), Told(v))
    /\ \E list \in Reads : EnqueueDonation(list, visits[v].wish, Min(Amounts), {})
    /\ visits' = [visits EXCEPT ![v] = [@ EXCEPT !.at = "stamp", !.entry = Len(issued) + 1, !.kept = Told(v)]]
    /\ UNCHANGED <<syncs, ledger, begun>>

Rescue(v) ==
    /\ visits[v].at = "posting" /\ visits[v].entry = 0
    /\ PostFails(Hash(v), Told(v))
    /\ \E list \in Reads : EnqueueDonation(list, visits[v].wish, Told(v), {})
    /\ visits' = [visits EXCEPT ![v] = [@ EXCEPT !.at = "stamp", !.entry = Len(issued) + 1, !.kept = Told(v)]]
    /\ UNCHANGED <<syncs, ledger, begun>>

-----------------------------------------------------------------------------
(* app/sync-conflicts.tsx, resolve *)

Remove(id) ==
    /\ queue[id].status \in Conflicts
    /\ \E list \in Reads : Saves(list, RemoveQueuedDonation(list, id), {<<queue[id].wish, "removed">>})
    /\ UNCHANGED <<issued, visits, syncs, ledger, recorded, begun>>

\* An edit and the failure of its read count as one.
EditAmount(id, amount) ==
    LET e == queue[id]
        known == e.hash # 0 \/ \E v \in Visits : visits[v].entry = id
    IN
    /\ e.status \in {"balance", "duplicate"} /\ amount # e.amount /\ Mishap
    /\ \E list \in Reads :
           /\ queue' = SetAmount(list, id, amount)
           /\ causes' = causes \union (IF known THEN {<<e.wish, "retouched">>} ELSE {}) \union Wiped(list)
    /\ UNCHANGED <<issued, visits, syncs, ledger, recorded, begun>>

-----------------------------------------------------------------------------
(* hooks/useDonationSync.ts *)

\* Mutated: donations that were paid are left for the user to confirm.
SyncNow_Unpaid(s) ==
    /\ syncs[s].todo = {}
    /\ \E id \in Ids : queue[id].status = "pending" /\ queue[id].hash = 0
    /\ syncs' = [syncs EXCEPT ![s] =
           [todo |-> {<<id, queue[id].amount, 0>> : id \in {i \in Ids : queue[i].status = "pending" /\ queue[i].hash = 0}},
            ready |-> {queue[id].amount : id \in {i \in Ids : queue[i].status = "ready"}}]]
    /\ UNCHANGED <<queue, issued, visits, ledger, recorded, begun, causes, faults>>

\* syncNow: what it works on is read once.
SyncNow(s) ==
    /\ syncs[s].todo = {}
    /\ \E id \in Ids : queue[id].status = "pending"
    /\ syncs' = [syncs EXCEPT ![s] =
           [todo |-> {<<id, queue[id].amount, queue[id].hash>> : id \in {i \in Ids : queue[i].status = "pending"}},
            ready |-> {queue[id].amount : id \in {i \in Ids : queue[i].status = "ready"}}]]
    /\ UNCHANGED <<queue, issued, visits, ledger, recorded, begun, causes, faults>>

\* The newest entry is the first of the list.
First(s, item) ==
    /\ item \in syncs[s].todo
    /\ \A other \in syncs[s].todo : other[1] <= item[1]

Checked(s, item) ==
    LET rest == syncs[s].todo \ {item} IN
    syncs' = [syncs EXCEPT ![s] = IF rest = {} THEN NoSync ELSE [@ EXCEPT !.todo = rest]]

\* preflightCheck and the change that it asks for, for a donation that was paid
Completes(id, amount, hash) ==
    /\ Accepts(hash, amount) /\ Post(hash, amount)
    /\ \E list \in Reads : Saves(list, RemoveQueuedDonation(list, id), {})

\* Mutated: a donation to a closed project leaves the queue.
Decides_Drops(id, amount, ready) ==
    /\ recorded' = recorded
    /\ \E list \in Reads :
         \/ Saves(list, RemoveQueuedDonation(list, id), {})
         \/ \E status \in IF amount \in ready THEN {"duplicate"} ELSE {"balance", "ready"} :
                Saves(list, SetStatus(list, id, status), {})

\* and for one that was not.
Decides(id, amount, ready) ==
    /\ recorded' = recorded
    /\ \E list \in Reads, status \in IF amount \in ready THEN {"duplicate"} ELSE {"inactive", "balance", "ready"} :
           Saves(list, SetStatus(list, id, status), {})

PreflightCheck(s, id) ==
    /\ \E amount \in Amounts, hash \in 0 .. MaxPayments :
           /\ First(s, <<id, amount, hash>>)
           /\ IF hash # 0 THEN Completes(id, amount, hash) ELSE Decides(id, amount, syncs[s].ready)
           /\ Checked(s, <<id, amount, hash>>)
    /\ UNCHANGED <<issued, visits, ledger, begun>>

\* The entry is left as it is for the next pass.
PreflightFails(s, id) ==
    /\ \E amount \in Amounts, hash \in 0 .. MaxPayments :
           /\ First(s, <<id, amount, hash>>)
           /\ IF hash # 0 THEN PostFails(hash, amount) ELSE recorded' = recorded /\ amount \notin syncs[s].ready
           /\ Checked(s, <<id, amount, hash>>)
    /\ UNCHANGED <<queue, issued, visits, ledger, begun, causes, faults>>

\* What came of the check cannot be saved, which ends the pass.
PreflightUnsaved(s, id) ==
    /\ Mishap
    /\ \E amount \in Amounts, hash \in 0 .. MaxPayments :
           /\ First(s, <<id, amount, hash>>)
           /\ IF hash # 0 THEN Accepts(hash, amount) /\ Post(hash, amount) ELSE recorded' = recorded
    /\ syncs' = [syncs EXCEPT ![s] = NoSync]
    /\ UNCHANGED <<queue, issued, visits, ledger, begun, causes>>

-----------------------------------------------------------------------------

\* The app is killed; the stored queue is all that is left.
Stop ==
    /\ Mishap
    /\ visits' = [v \in Visits |-> Away] /\ syncs' = [s \in Hooks |-> NoSync]
    /\ causes' = causes \union {<<visits[v].wish, "stopped">> : v \in
                                {u \in Visits : visits[u].at \in {"posting", "stamp", "confirmed"}}}
    /\ UNCHANGED <<queue, issued, ledger, recorded, begun>>

Next ==
    \/ \E v \in Visits :
         \/ \E w \in Wishes : Open(v, w)
         \/ \E id \in Ids : CompleteNow(v, id) \/ CompleteUnread(v, id)
         \/ \E u \in Visits : TapAgain(v, u)
         \/ \E amount \in Amounts : Donate(v, amount) \/ DonateUnanswered(v, amount) \/ DonateOffline(v, amount)
         \/ Leave(v) \/ Confirmed(v) \/ RemoveConfirmed(v) \/ ConfirmationFails(v)
         \/ Rescue(v) \/ Stamp(v) \/ StampConfirmed(v) \/ Unsaved(v)
    \/ \E id \in Ids : Remove(id) \/ \E amount \in Amounts : EditAmount(id, amount)
    \/ \E s \in Hooks :
         \/ SyncNow(s)
         \/ \E id \in Ids : PreflightCheck(s, id) \/ PreflightFails(s, id) \/ PreflightUnsaved(s, id)
    \/ Stop

\* A pass that was started goes on: every call it awaits returns or fails.
\* Nothing starts a pass but a connection that comes back while a screen with
\* the hook is mounted, and a pull on the list, which need not happen.
Fairness ==
    \A s \in Hooks : WF_vars(\E id \in Ids : PreflightCheck(s, id) \/ PreflightFails(s, id))

Spec == Init /\ [][Next]_vars /\ Fairness

-----------------------------------------------------------------------------
(* Properties *)

Has(w, some) == \E c \in some : <<w, c>> \in causes

\* A wish is paid a second time only when a submission was not answered, the
\* app was stopped between the payment and the note of it, the donation was
\* saved again while offline, two screens or two taps worked on it, a screen
\* was used without the entry it was opened for, or the hash could not be
\* saved.  mobile/README.md:90-95 says "always persisted" and "no resubmission".
PaidTwiceHasCause ==
    \A w \in Wishes :
        Cardinality({p \in DOMAIN ledger : ledger[p].wish = w}) > 1
            => Has(w, {"unanswered", "stopped", "requeued", "overlap", "unread", "unsaved"})

\* A payment the backend does not know of has its hash in the queue or on a
\* screen, unless one of six things happened to it.
HashIsKept ==
    \A p \in DOMAIN ledger :
        \/ recorded[p] # 0
        \/ \E id \in Ids : queue[id].hash = p
        \/ \E v \in Visits : p \in {visits[v].tx, visits[v].held}
        \/ Has(ledger[p].wish, {"unanswered", "stopped", "removed", "overlap", "unsaved", "wiped"})

\* The backend records what was paid, unless the user changed the donation
\* after it had been queued and before it was confirmed.
RecordedAsPaid ==
    \A p \in DOMAIN ledger :
        recorded[p] \in {0, ledger[p].amount} \/ Has(ledger[p].wish, {"retouched"})

\* A donation that was queued leaves the queue when the backend has it, when
\* the user removes it, or when a list that could not be read is saved, which
\* mobile/docs/offline-donation-sync.md:76 ("never silently dropped") forbids.
NothingIsDropped ==
    \A id \in DOMAIN issued :
        \/ Present(id)
        \/ \E p \in DOMAIN ledger : ledger[p].wish = issued[id] /\ recorded[p] # 0
        \/ Has(issued[id], {"removed", "wiped"})

\* Neither a payment nor a wish is forgotten.
NothingIsLost == TypeOK /\ HashIsKept /\ NothingIsDropped

\* While something waits a pass is started sooner or later, and passes do not
\* fail at this entry every time.
PassesComeThrough(s, id) == WF_vars(SyncNow(s)) /\ SF_vars(PreflightCheck(s, id))

\* Then the entry does not stay pending, whatever is ahead of it in the list,
\* unless it was paid and then changed, or paid for a project or by an account
\* the backend refuses: these are posted again for ever.
EntriesAreChecked ==
    \A id \in Ids :
        (\E s \in Hooks : PassesComeThrough(s, id)) =>
            []<>(\/ queue[id].status # "pending"
                 \/ Has(queue[id].wish, {"retouched"})
                 \/ queue[id].hash # 0 /\ queue[id].wish \in Barred)
=============================================================================
