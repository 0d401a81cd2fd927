----------------------------- MODULE Sponsorship -----------------------------
(***************************************************************************)
(* Sponsored account creation and its reserve accounting                   *)
(* (backend/src/services/onboarding/sponsoredAccounts.js).                 *)
(*                                                                         *)
(* A request reserves capacity in a row, then offers a creation            *)
(* transaction the sponsor has signed; the donor signs it and submits it   *)
(* through the backend, which moves the row along around the call to       *)
(* Horizon.  The donor can abandon the offer, a timer sweeps expired ones, *)
(* and an administrator can hand a reserve back.  A step is one awaited    *)
(* call; a call may be the last its process makes (Stop), and Horizon      *)
(* may fail to answer, whatever becomes of the transaction (faults).       *)
(*                                                                         *)
(* Reserve is counted in accounts.  A request owns the row it inserts.     *)
(* The ledger is external: the sponsor's sequence number orders what it    *)
(* signs, a transaction applies once, and asking again for one that has    *)
(* applied is answered with its success.  As the offer carries the         *)
(* sponsor's signature, the donor can also submit it without the backend.  *)
(***************************************************************************)
EXTENDS Integers, FiniteSets

CONSTANTS
    Keys,           \* addresses of donors
    Requests,       \* calls of requestSponsorship
    Wants,          \* the addresses each may be about
    Submits,        \* calls of submitSponsorship
    Signs,          \* the rows each may be about
    Reclaims,       \* calls of reclaimSponsorship
    Limit,          \* accounts the limits and the treasury admit
    MaxFaults       \* bound: unanswered calls and stopping processes

ASSUME SponsorshipAssumption ==
    /\ Keys # {} /\ Requests # {} /\ IsFiniteSet(Requests)
    /\ Requests \cap Submits = {} /\ Requests \cap Reclaims = {} /\ Submits \cap Reclaims = {}
    /\ Wants \in [Requests -> SUBSET Keys]
    /\ Signs \in [Submits -> SUBSET Requests]
    /\ Limit \in Nat /\ MaxFaults \in Nat

Pending == {"requested", "awaiting_signature"}
Holding == Pending \union {"submitted", "active"}   \* CAPACITY_HOLDING_STATES
TerminalStates == {"closed", "reclaimed"}    \* TERMINAL_STATES: nothing tells failed from abandoned

VARIABLES
    rows,       \* sponsored_accounts
    calls,      \* calls in progress: where each is and what it has read
    account,    \* what the ledger holds at every key
    sequence,   \* the sponsor's sequence number on the ledger
    applied,    \* creation transactions the ledger applied, by their row
    limbo,      \* creation transactions Horizon has not answered for
    direct,     \* history: those applied that the donor submitted past the backend
    expired,    \* rows past expires_at
    lapsed,     \* rows whose transaction is past its time bound
    guessed,    \* history: rows closed without the ledger's answer
    released,   \* history: rows that were ever closed
    faults

ledger == <<account, sequence, applied, limbo, direct>>
clock == <<expired, lapsed>>
history == <<guessed, released>>
sponsorshipVars == <<rows, calls, ledger, clock, history, faults>>

Calls == Requests \union Submits \union Reclaims
NoTx == 0

Row == [key: Keys, state: Holding \union TerminalStates \union {"none"},
        reserved: 0 .. 1, locked: 0 .. 1, tx: Nat]
Call == [at: {"start", "asked", "locked", "inserted", "built", "read", "marked",
              "late", "created", "unanswered", "funded", "loaded", "revoked", "refused",
              "done", "stopped"},
         row: Requests, key: Keys, exists: BOOLEAN, tx: Nat]

SponsorshipTypes ==
    /\ rows \in [Requests -> Row]
    /\ calls \in [Calls -> Call]
    /\ account \in [Keys -> {"absent", "sponsored", "funded", "own"}]
    /\ sequence \in Nat
    /\ applied \subseteq Requests /\ limbo \subseteq Requests /\ direct \subseteq applied
    /\ lapsed \subseteq expired /\ expired \subseteq Requests
    /\ guessed \subseteq Requests /\ released \subseteq Requests
    /\ faults \in 0 .. MaxFaults

Idle == [at |-> "start", row |-> CHOOSE r \in Requests : TRUE,
         key |-> CHOOSE k \in Keys : TRUE, exists |-> FALSE, tx |-> NoTx]
Done == [Idle EXCEPT !.at = "done"]

SponsorshipInit ==
    /\ rows = [r \in Requests |-> [key |-> CHOOSE k \in Keys : TRUE, state |-> "none",
                                   reserved |-> 0, locked |-> 0, tx |-> NoTx]]
    /\ calls = [c \in Calls |-> Idle]
    /\ account = [k \in Keys |-> "absent"]
    /\ sequence = 0
    /\ applied = {} /\ limbo = {} /\ direct = {} /\ expired = {} /\ lapsed = {}
    /\ guessed = {} /\ released = {}
    /\ faults = 0

-----------------------------------------------------------------------------
Goes(c, at) == calls' = [calls EXCEPT ![c] = IF at = "done" THEN Done ELSE [@ EXCEPT !.at = at]]
Held == {r \in Requests : rows[r].state \in Holding}
Sponsored(k) == account[k] \in {"sponsored", "funded"}

\* The partial unique index sponsored_accounts_live_key.
KeyIsFree(r) == \A q \in Held \ {r} : rows[q].key # rows[r].key

\* releaseCapacity: closes any row but an active one.
ReleaseCapacity(r, answered) ==
    IF rows[r].state \in {"active", "none"} THEN UNCHANGED <<rows, history>>
    ELSE /\ rows' = [rows EXCEPT ![r] = [@ EXCEPT !.state = "closed", !.reserved = 0, !.locked = 0]]
         /\ released' = released \union {r}
         /\ guessed' = IF rows[r].state = "submitted" /\ ~answered THEN guessed \union {r}
                       ELSE guessed

-----------------------------------------------------------------------------
(* requestSponsorship *)

\* accountExists and the treasury balance, before the transaction.
AskLedger(c, k) ==
    /\ calls[c].at = "start"
    /\ calls' = [calls EXCEPT ![c] = [@ EXCEPT !.at = "asked", !.row = c, !.key = k,
                                               !.exists = account[k] # "absent"]]
    /\ UNCHANGED <<rows, ledger, clock, history, faults>>

\* The advisory lock, the existing row of the key, readUsage and assessRequest.
Assess(c) ==
    /\ calls[c].at = "asked"
    /\ \A d \in Requests : calls[d].at # "locked"
    /\ Goes(c, IF \/ calls[c].exists \/ Cardinality(Held) >= Limit
                  \/ \E r \in Held : rows[r].key = calls[c].key
               THEN "done" ELSE "locked")
    /\ UNCHANGED <<rows, ledger, clock, history, faults>>

\* The INSERT and the COMMIT, which gives the lock back.
InsertRow(c) ==
    /\ calls[c].at = "locked"
    /\ IF \E r \in Held : rows[r].key = calls[c].key
       THEN Goes(c, "done") /\ UNCHANGED rows
       ELSE /\ rows' = [rows EXCEPT ![c] = [@ EXCEPT !.key = calls[c].key, !.reserved = 1,
                                                     !.state = "requested"]]
            /\ Goes(c, "inserted")
    /\ UNCHANGED <<ledger, clock, history, faults>>

\* loadAccount of the sponsor, and buildCreationTransaction.
BuildOffer(c) ==
    /\ calls[c].at = "inserted"
    /\ calls' = [calls EXCEPT ![c] = [@ EXCEPT !.at = "built", !.tx = sequence + 1]]
    /\ UNCHANGED <<rows, ledger, clock, history, faults>>

\* The sponsor's account cannot be loaded.
BuildFails(c) ==
    /\ calls[c].at = "inserted"
    /\ faults < MaxFaults /\ faults' = faults + 1
    /\ ReleaseCapacity(c, FALSE)
    /\ Goes(c, "done")
    /\ UNCHANGED <<ledger, clock>>

\* The row becomes awaiting_signature whatever it is by now, unless the index
\* refuses it; then it is released.
StoreOffer(c) ==
    /\ calls[c].at = "built"
    /\ IF KeyIsFree(c)
       THEN /\ rows' = [rows EXCEPT ![c] = [@ EXCEPT !.state = "awaiting_signature",
                                                     !.tx = calls[c].tx]]
            /\ UNCHANGED history
       ELSE ReleaseCapacity(c, FALSE)
    /\ Goes(c, "done")
    /\ UNCHANGED <<ledger, clock, faults>>

-----------------------------------------------------------------------------
(* submitSponsorship *)

\* The SELECT, and what is decided from it: a row that is active is answered,
\* a closed one refused, an expired one given up; a row without its offer has
\* nothing the signed transaction could match.
ReadRow(c, r) ==
    /\ calls[c].at = "start" /\ rows[r].state # "none"
    /\ calls' = [calls EXCEPT ![c] =
            IF rows[r].state \in TerminalStates \union {"active"} THEN Done
            ELSE IF r \in expired THEN [@ EXCEPT !.at = "late", !.row = r]
            ELSE IF rows[r].tx = NoTx THEN Done
            ELSE [@ EXCEPT !.at = "read", !.row = r]]
    /\ UNCHANGED <<rows, ledger, clock, history, faults>>

GiveUp(c) ==
    /\ calls[c].at = "late"
    /\ ReleaseCapacity(calls[c].row, FALSE)
    /\ Goes(c, "done")
    /\ UNCHANGED <<ledger, clock, faults>>

\* Mutated: the row is marked only once the network has answered.
MarkSubmitted_Late(c) ==
    /\ calls[c].at = "read" /\ c \in Submits
    /\ Goes(c, "marked")
    /\ UNCHANGED <<rows, ledger, clock, history, faults>>

\* The row becomes submitted whatever it is by now, unless the index refuses.
MarkSubmitted(c) ==
    /\ calls[c].at = "read" /\ c \in Submits
    /\ IF KeyIsFree(calls[c].row)
       THEN /\ rows' = [rows EXCEPT ![calls[c].row] = [@ EXCEPT !.state = "submitted"]]
            /\ Goes(c, "marked")
       ELSE Goes(c, "done") /\ UNCHANGED rows
    /\ UNCHANGED <<ledger, clock, history, faults>>

\* The ledger takes the creation transaction of row r: it applies, fails and
\* uses up its sequence number, or is not valid.
Settles(r) ==
    LET next == r \notin lapsed /\ rows[r].tx = sequence + 1
        works == next /\ account[rows[r].key] = "absent"
    IN
    /\ account' = IF works THEN [account EXCEPT ![rows[r].key] = "sponsored"] ELSE account
    /\ sequence' = IF next THEN sequence + 1 ELSE sequence
    /\ applied' = IF works THEN applied \union {r} ELSE applied

Send(c) ==
    LET r == calls[c].row IN
    /\ calls[c].at = "marked"
    /\ IF r \in applied THEN UNCHANGED <<account, sequence, applied>> ELSE Settles(r)
    /\ Goes(c, IF r \in applied' THEN "created" ELSE "refused")
    /\ UNCHANGED <<rows, limbo, direct, clock, history, faults>>

\* Horizon does not answer in time.  The transaction may still apply.
SendUnanswered(c) ==
    /\ calls[c].at = "marked"
    /\ faults < MaxFaults /\ faults' = faults + 1
    /\ limbo' = limbo \union {calls[c].row}
    /\ Goes(c, "unanswered")
    /\ UNCHANGED <<rows, account, sequence, applied, direct, clock, history>>

\* The row becomes active whatever it is by now, unless the index refuses.
RecordActive(c) ==
    LET r == calls[c].row IN
    /\ calls[c].at = "created"
    /\ rows' = IF KeyIsFree(r)
               THEN [rows EXCEPT ![r] = [@ EXCEPT !.state = "active", !.locked = rows[r].reserved]]
               ELSE rows
    /\ Goes(c, "done")
    /\ UNCHANGED <<ledger, clock, history, faults>>

\* A refusal and no answer are recorded alike.
RecordFailure(c) ==
    /\ calls[c].at \in {"refused", "unanswered"} /\ c \in Submits
    /\ ReleaseCapacity(calls[c].row, calls[c].at = "refused")
    /\ Goes(c, "done")
    /\ UNCHANGED <<ledger, clock, faults>>

-----------------------------------------------------------------------------
(* abandonSponsorship and sweepExpiredSponsorships *)

Abandon(r) ==
    /\ ReleaseCapacity(r, FALSE)
    /\ UNCHANGED <<calls, ledger, clock, faults>>

\* Mutated: only rows still being built are swept.
Sweep_Requested ==
    LET swept == {r \in expired : rows[r].state = "requested"} IN
    /\ swept # {}
    /\ rows' = [r \in Requests |-> IF r \in swept
                    THEN [rows[r] EXCEPT !.state = "closed", !.reserved = 0] ELSE rows[r]]
    /\ released' = released \union swept
    /\ UNCHANGED <<calls, ledger, clock, guessed, faults>>

Sweep ==
    LET swept == {r \in expired : rows[r].state \in Pending} IN
    /\ swept # {}
    /\ rows' = [r \in Requests |-> IF r \in swept
                    THEN [rows[r] EXCEPT !.state = "closed", !.reserved = 0] ELSE rows[r]]
    /\ released' = released \union swept
    /\ UNCHANGED <<calls, ledger, clock, guessed, faults>>

-----------------------------------------------------------------------------
(* reclaimSponsorship *)

Reclaim(r) ==
    /\ rows' = [rows EXCEPT ![r] = [@ EXCEPT !.state = "reclaimed", !.locked = 0]]
    /\ released' = released \union {r}

ReadActive(c, r) ==
    /\ calls[c].at = "start" /\ rows[r].state = "active"
    /\ calls' = [calls EXCEPT ![c] = [@ EXCEPT !.at = "read", !.row = r]]
    /\ UNCHANGED <<rows, ledger, clock, history, faults>>

\* Mutated: an account that cannot carry its reserve is given up.
LookUp_Poor(c) ==
    /\ calls[c].at = "read" /\ c \in Reclaims
    /\ IF account[rows[calls[c].row].key] # "funded" THEN Reclaim(calls[c].row)
       ELSE UNCHANGED <<rows, released>>
    /\ Goes(c, IF account[rows[calls[c].row].key] # "funded" THEN "done" ELSE "funded")
    /\ UNCHANGED <<ledger, clock, guessed, faults>>

\* The donor's account: gone, too poor to carry its reserve, or fit to.
LookUp(c) ==
    LET r == calls[c].row IN
    /\ calls[c].at = "read" /\ c \in Reclaims
    /\ IF account[rows[r].key] = "absent" THEN Reclaim(r) ELSE UNCHANGED <<rows, released>>
    /\ Goes(c, IF account[rows[r].key] \in {"absent", "sponsored"} THEN "done" ELSE "funded")
    /\ UNCHANGED <<ledger, clock, guessed, faults>>

\* Any error of the look-up is taken for an account that is gone.
LookUpFails(c) ==
    LET r == calls[c].row IN
    /\ calls[c].at = "read" /\ c \in Reclaims
    /\ faults < MaxFaults /\ faults' = faults + 1
    /\ Reclaim(r)
    /\ guessed' = guessed \union {r}
    /\ Goes(c, "done")
    /\ UNCHANGED <<ledger, clock>>

LoadSponsor(c) ==
    /\ calls[c].at = "funded"
    /\ calls' = [calls EXCEPT ![c] = [@ EXCEPT !.at = "loaded", !.tx = sequence + 1]]
    /\ UNCHANGED <<rows, ledger, clock, history, faults>>

\* revokeAccountSponsorship.
Revoke(c) ==
    LET k == rows[calls[c].row].key
        next == calls[c].tx = sequence + 1
        works == next /\ account[k] = "funded"
    IN
    /\ calls[c].at = "loaded"
    /\ account' = IF works THEN [account EXCEPT ![k] = "own"] ELSE account
    /\ sequence' = IF next THEN sequence + 1 ELSE sequence
    /\ Goes(c, IF works THEN "revoked" ELSE "refused")
    /\ UNCHANGED <<rows, applied, limbo, direct, clock, history, faults>>

RecordReclaimed(c) ==
    /\ calls[c].at = "revoked"
    /\ Reclaim(calls[c].row)
    /\ Goes(c, "done")
    /\ UNCHANGED <<ledger, clock, guessed, faults>>

\* Only reclaim_failures changes.
RecordReclaimFailure(c) ==
    /\ calls[c].at = "refused" /\ c \in Reclaims
    /\ Goes(c, "done")
    /\ UNCHANGED <<rows, ledger, clock, history, faults>>

-----------------------------------------------------------------------------
(* The donor, the ledger, the clock and the processes *)

\* The donor funds the account, merges it away, or opens one elsewhere.
Donor(k) ==
    /\ \E to \in {"funded", "absent", "own"} :
           /\ <<account[k], to>> \in {<<"sponsored", "funded">>, <<"funded", "absent">>,
                                     <<"absent", "own">>}
           /\ account' = [account EXCEPT ![k] = to]
    /\ UNCHANGED <<rows, calls, sequence, applied, limbo, direct, clock, history, faults>>

\* A transaction Horizon had not answered for reaches the ledger.
AppliesLate(r) ==
    /\ r \in limbo \ applied
    /\ limbo' = limbo \ {r}
    /\ Settles(r)
    /\ UNCHANGED <<rows, calls, direct, clock, history, faults>>

\* The offer is out: its donor signs it and gives it to Horizon himself,
\* whatever the row is by now.
DonorSubmits(r) ==
    /\ rows[r].tx # NoTx /\ r \notin applied
    /\ Settles(r)
    /\ direct' = direct \union ({r} \intersect applied')
    /\ UNCHANGED <<rows, calls, limbo, clock, history, faults>>

\* The time limit of a row matters unless it is active or its reserve is back.
Expire(r) ==
    /\ rows[r].state \notin {"none", "active", "reclaimed"} /\ r \notin expired
    /\ expired' = expired \union {r}
    /\ UNCHANGED <<rows, calls, ledger, lapsed, history, faults>>

\* The time bound counts from when the transaction was built.  It matters while
\* the sequence number is good.
Lapse(r) ==
    /\ r \in expired \ lapsed /\ rows[r].tx = sequence + 1
    /\ lapsed' = lapsed \union {r}
    /\ UNCHANGED <<rows, calls, ledger, expired, history, faults>>

\* A process stops after marking a row.  Of other calls nothing obliges one to
\* go on, so that it may end anywhere without a step.
Stop(c) ==
    /\ calls[c].at \notin {"start", "late", "read", "done", "stopped"}
    /\ faults < MaxFaults /\ faults' = faults + 1
    /\ Goes(c, "stopped")
    /\ UNCHANGED <<rows, ledger, clock, history>>

RequestStep(c) ==
    \/ Assess(c) \/ InsertRow(c) \/ BuildOffer(c) \/ BuildFails(c) \/ StoreOffer(c)

SubmitStep(c) ==
    GiveUp(c) \/ MarkSubmitted(c) \/ Send(c) \/ SendUnanswered(c) \/ RecordActive(c) \/ RecordFailure(c)

ReclaimStep(c) ==
    \/ LookUp(c) \/ LookUpFails(c) \/ LoadSponsor(c)
    \/ Revoke(c) \/ RecordReclaimed(c) \/ RecordReclaimFailure(c)

SponsorshipNext ==
    \/ \E c \in Requests : RequestStep(c) \/ \E k \in Wants[c] : AskLedger(c, k)
    \/ \E c \in Submits : SubmitStep(c) \/ Stop(c) \/ \E r \in Signs[c] : ReadRow(c, r)
    \/ \E c \in Reclaims : ReclaimStep(c) \/ \E r \in Requests : ReadActive(c, r)
    \/ \E r \in Requests : Abandon(r) \/ AppliesLate(r) \/ DonorSubmits(r) \/ Expire(r) \/ Lapse(r)
    \/ Sweep
    \/ \E k \in Keys : Donor(k)

\* Time passes, the timer of maintenance.js fires, and a submission that is
\* not stopped goes on: its awaits return or fail.
Fairness ==
    /\ WF_sponsorshipVars(Sweep)
    /\ \A r \in Requests : WF_sponsorshipVars(Expire(r))
    /\ \A c \in Submits : WF_sponsorshipVars(SubmitStep(c))

SponsorshipSpec == SponsorshipInit /\ [][SponsorshipNext]_sponsorshipVars /\ Fairness

-----------------------------------------------------------------------------
(* Properties *)

\* The platform loses track of a reserve it carries only by closing the row
\* while it does not know what the ledger did, or the row of an offer its donor
\* submits without it: otherwise the row of every account the ledger makes it
\* sponsor still holds capacity.  sponsoredAccounts.js:496 tells the donor after
\* a timeout, too, that no reserve was locked; guessed has the cases where the
\* transaction still applies.
ReserveIsTracked ==
    \A k \in Keys : Sponsored(k) =>
        \E r \in applied : /\ rows[r].key = k
                          /\ \/ rows[r].state \in Holding
                             \/ r \in guessed
                             \/ r \in direct /\ rows[r].state = "closed"

\* A row is active only for an account that was created with its transaction,
\* and reports the reserve as locked unless it was released on the way.
ActiveIsCreated ==
    \A r \in Requests : rows[r].state = "active" =>
        r \in applied /\ (rows[r].locked = 1 \/ r \in released)

\* Concurrent requests do not oversubscribe the limits: the rows that hold
\* capacity exceed them only by rows that were released and came back.
WithinLimits == Cardinality(Held \ released) <= Limit

\* What the rows say fits what the ledger did, and fits the limits.
RowsFollowLedger == SponsorshipTypes /\ ReserveIsTracked /\ ActiveIsCreated /\ WithinLimits

\* A row becomes reclaimed only when the ledger no longer charges the sponsor
\* for the account, or the look-up failed.
ReclaimedIsReturned ==
    [][\A r \in Requests : rows'[r].state = "reclaimed" /\ rows[r].state # "reclaimed" =>
          ~Sponsored(rows[r].key) \/ r \in guessed']_sponsorshipVars

\* An offer nobody signs gives its capacity back in the end, and a submitted
\* one is settled unless the process that submitted it stops: no row stays
\* pending or submitted for ever.
RowsSettle ==
    \A r \in Requests :
        []<>(\/ rows[r].state \notin Pending \union {"submitted"}
             \/ \E c \in Submits : calls[c].row = r /\ calls[c].at = "stopped")
=============================================================================
