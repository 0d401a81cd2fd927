---------------------------- MODULE RealtimeFeed ----------------------------
(***************************************************************************)
(* The live feed of donations and the recovery of what a client missed:    *)
(* backend/src/realtime (index.js, eventLog.js), routes/realtime.js, and   *)
(* the client's half in frontend/hooks/useDonationSocket.ts.               *)
(*                                                                         *)
(* A pod publishes an event by recording it, in the shared Redis stream or *)
(* in its own buffer if that fails, and then emitting it with its cursor   *)
(* to the connected clients.  A client that connects again asks any pod    *)
(* for what came after the last cursor it saw.  Events are numbered in the *)
(* order they are recorded in.                                             *)
(*                                                                         *)
(* A client holds what it has shown (seen), what it was told to fetch from *)
(* REST instead (told: after a reset, or a notice of degraded delivery),   *)
(* what was emitted before it saw anything (base), and the history         *)
(* excused: events it may miss without a word, each added where the code   *)
(* lets that happen.  Not modelled: the fan-out a pod queues while Redis   *)
(* is away, the limit of the local buffer, events of other names.          *)
(***************************************************************************)
EXTENDS Integers, FiniteSetsExt

CONSTANTS
    Pods,
    Clients,
    NoPod,          \* where a client without a connection is
    Events,         \* bound: number of events
    Retained,       \* MAX_RETAINED_EVENTS
    Batch,          \* events in one answer
    MaxFailures     \* bound: failures of Redis and of requests, restarts

ASSUME FeedAssumption ==
    Events \in Nat /\ Retained \in Nat \ {0} /\ Batch \in Nat \ {0} /\ MaxFailures \in Nat /\ NoPod \notin Pods

VARIABLES
    published,   \* events recorded so far: 1 .. published
    stream,     \* events in the Redis stream
    buffer,     \* events in the local buffer of a pod
    pending,    \* events a pod has recorded and not emitted
    emitted,
    up,         \* Redis can be reached
    clients,
    failures

feedVars == <<published, stream, buffer, pending, emitted, up, clients, failures>>

\* A cursor names an event in the stream, or in the buffer of a pod.
Cursor == [kind: Pods \union {"shared", "none"}, event: Nat]
NoCursor == [kind |-> "none", event |-> 0]
Answer == [events: SUBSET (1 .. Events), next: Cursor, reset: BOOLEAN]
NoAnswer == [events |-> {}, next |-> NoCursor, reset |-> FALSE]

Client == [pod: Pods \union {NoPod}, cursor: Cursor, base: SUBSET (1 .. Events),
           replay: {"none", "sent", "answered"}, from: Cursor, answer: Answer,
           seen: SUBSET (1 .. Events), told: SUBSET (1 .. Events), excused: SUBSET (1 .. Events)]

FeedTypes ==
    /\ published \in 0 .. Events
    /\ stream \subseteq 1 .. published
    /\ buffer \in [Pods -> SUBSET (1 .. published)]
    /\ pending \in [Pods -> SUBSET (1 .. published)]
    /\ emitted \subseteq 1 .. published
    /\ \A p \in Pods : pending[p] \intersect emitted = {}
    /\ up \in BOOLEAN
    /\ clients \in [Clients -> Client]
    /\ failures \in 0 .. MaxFailures

FeedInit ==
    /\ published = 0 /\ stream = {} /\ emitted = {}
    /\ buffer = [p \in Pods |-> {}] /\ pending = [p \in Pods |-> {}]
    /\ up = TRUE
    /\ clients = [c \in Clients |->
           [pod |-> NoPod, cursor |-> NoCursor, base |-> {}, replay |-> "none", from |-> NoCursor,
            answer |-> NoAnswer, seen |-> {}, told |-> {}, excused |-> {}]]
    /\ failures = 0

Fault == failures < MaxFailures /\ failures' = failures + 1

-----------------------------------------------------------------------------
(* publish *)

Excuse(events) ==
    clients' = [c \in Clients |-> [clients[c] EXCEPT !.excused = @ \union events]]

\* XADD.  The approximate MAXLEN drops the oldest events, as many as it likes
\* of those beyond the limit; whoever has not seen them is not told.
AppendEvent(p) ==
    /\ up /\ published < Events
    /\ published' = published + 1
    /\ \E old \in SUBSET stream :
         /\ Cardinality(stream) + 1 - Cardinality(old) >= Min({Retained, Cardinality(stream) + 1})
         /\ \A e \in old, f \in stream \ old : e < f
         /\ stream' = (stream \ old) \union {published + 1}
         /\ Excuse(old)
    /\ pending' = [pending EXCEPT ![p] = @ \union {published + 1}]
    /\ UNCHANGED <<buffer, emitted, up, failures>>

\* XADD fails, or took effect without an answer: the event goes to the local
\* buffer, and the cursor it is emitted with means nothing to another pod.
AppendFails(p) ==
    /\ published < Events
    /\ published' = published + 1
    /\ IF up THEN Fault /\ stream' \in {stream, stream \union {published + 1}}
       ELSE UNCHANGED <<failures, stream>>
    /\ buffer' = [buffer EXCEPT ![p] = @ \union {published + 1}]
    /\ pending' = [pending EXCEPT ![p] = @ \union {published + 1}]
    /\ Excuse(IF published + 1 \in stream' THEN {} ELSE {published + 1})
    /\ UNCHANGED <<emitted, up>>

Shows(client, e, cursor) ==
    [client EXCEPT !.seen = @ \union {e}, !.cursor = cursor,
                   !.base = IF client.cursor = NoCursor THEN emitted ELSE @]

CursorOf(p, e) == [kind |-> IF e \in buffer[p] THEN p ELSE "shared", event |-> e]

\* Emitting reaches every connected client, or only the pod's own while Redis
\* is away.  An event overtaken by a later one may be missed: the client's
\* cursor is past it.
Emit(p, e) ==
    LET late == IF \E f \in emitted : f > e THEN {e} ELSE {} IN
    /\ e \in pending[p]
    /\ pending' = [pending EXCEPT ![p] = @ \ {e}]
    /\ emitted' = emitted \union {e}
    /\ clients' = [c \in Clients |->
           LET client == [clients[c] EXCEPT !.excused = @ \union late] IN
           IF client.pod = p \/ (up /\ client.pod # NoPod) THEN Shows(client, e, CursorOf(p, e))
           ELSE IF client.pod # NoPod THEN [client EXCEPT !.told = @ \union {e}]
           ELSE client]
    /\ UNCHANGED <<published, stream, buffer, up, failures>>

-----------------------------------------------------------------------------
(* replay *)

Reset == [events |-> {}, next |-> NoCursor, reset |-> TRUE]
After(events, from) == {e \in events : e > from.event}
Oldest(events) == {e \in events : Cardinality({f \in events : f < e}) < Batch}

Upto(events, from, kind) ==
    [events |-> events, reset |-> FALSE,
     next |-> IF events = {} THEN from ELSE [kind |-> kind, event |-> Max(events)]]

\* replay and replayLocal.  A cursor of another pod, or from before a restart,
\* and a store that cannot be reached lead to a reset.  CURSOR_EXPIRED is
\* looked for only when nothing follows the cursor, where it cannot be found.
Replay(p, from) ==
    IF from.kind \in Pods /\ (from.kind # p \/ from.event \notin buffer[p]) THEN Reset
    ELSE IF from.kind = p THEN Upto(Oldest(After(buffer[p], from)), from, p)
    ELSE IF ~up THEN Reset
    ELSE IF After(stream, from) = {} /\ (\E e \in stream : Min(stream) > from.event) THEN Reset
    ELSE Upto(Oldest(After(stream, from)), from, "shared")

\* What an answer leaves out without saying so: the events beyond its limit,
\* and those in the stream when the cursor is a local one.
LeftOut(answer, from) ==
    IF answer.reset THEN {} ELSE After(stream, from) \ answer.events

\* Any pod answers.
AnswerReplay(c, p) ==
    LET answer == Replay(p, clients[c].from) IN
    /\ clients[c].replay = "sent"
    /\ clients' = [clients EXCEPT ![c] = [clients[c] EXCEPT !.replay = "answered", !.answer = answer,
                        !.excused = @ \union LeftOut(answer, clients[c].from)]]
    /\ UNCHANGED <<published, stream, buffer, pending, emitted, up, failures>>

\* Mutated: a store that does not answer is taken for one with nothing new.
AnswerFails_Guesses(c) ==
    /\ clients[c].replay = "sent" /\ clients[c].from.kind = "shared"
    /\ Fault
    /\ clients' = [clients EXCEPT ![c] = [@ EXCEPT !.replay = "answered",
                             !.answer = Upto({}, clients[c].from, "shared")]]
    /\ UNCHANGED <<published, stream, buffer, pending, emitted, up>>

\* XRANGE fails or times out: the client is told to start over.
AnswerFails(c) ==
    /\ clients[c].replay = "sent" /\ clients[c].from.kind = "shared"
    /\ Fault
    /\ clients' = [clients EXCEPT ![c] = [@ EXCEPT !.replay = "answered", !.answer = Reset]]
    /\ UNCHANGED <<published, stream, buffer, pending, emitted, up>>

-----------------------------------------------------------------------------
(* useDonationSocket *)

Refetches(client) == [client EXCEPT !.told = @ \union 1 .. published]

\* handleConnect, and the status a pod sends to a new connection.  Without a
\* cursor there is nothing to recover; while a replay is under way another is
\* not started, whatever was missed since it was sent.
Connect(c, p) ==
    LET client == IF up THEN clients[c] ELSE Refetches(clients[c]) IN
    /\ client.pod = NoPod
    /\ clients' = [clients EXCEPT ![c] =
           IF client.cursor = NoCursor THEN [client EXCEPT !.pod = p]
           ELSE IF client.replay # "none"
           THEN [client EXCEPT !.pod = p, !.excused = @ \union 1 .. published]
           ELSE [client EXCEPT !.pod = p, !.replay = "sent", !.from = client.cursor]]
    /\ UNCHANGED <<published, stream, buffer, pending, emitted, up, failures>>

Disconnect(c) ==
    /\ clients[c].pod # NoPod
    /\ clients' = [clients EXCEPT ![c].pod = NoPod]
    /\ UNCHANGED <<published, stream, buffer, pending, emitted, up, failures>>

Settled(client) == [client EXCEPT !.replay = "none", !.answer = NoAnswer, !.from = NoCursor]

\* The answer is shown, and its cursor taken, even if it is behind the live one.
Recover(c) ==
    LET client == clients[c]  answer == client.answer IN
    /\ client.replay = "answered"
    /\ clients' = [clients EXCEPT ![c] =
           IF answer.reset THEN Settled(Refetches(client))
           ELSE Settled([client EXCEPT !.seen = @ \union answer.events, !.cursor = answer.next])]
    /\ UNCHANGED <<published, stream, buffer, pending, emitted, up, failures>>

\* The request fails: the gap is reported.
RecoverFails(c) ==
    /\ clients[c].replay # "none"
    /\ Fault
    /\ clients' = [clients EXCEPT ![c] = Settled(Refetches(@))]
    /\ UNCHANGED <<published, stream, buffer, pending, emitted, up>>

-----------------------------------------------------------------------------
\* markDegraded tells the clients a pod holds.
RedisFails ==
    /\ up /\ Fault
    /\ up' = FALSE
    /\ clients' = [c \in Clients |-> IF clients[c].pod = NoPod THEN clients[c] ELSE Refetches(clients[c])]
    /\ UNCHANGED <<published, stream, buffer, pending, emitted>>

\* Redis keeps nothing on disk: it comes back with its stream if the pods had
\* only lost sight of it, without if it was restarted.  Numbers go on from the
\* clock.  A client that was away the whole time is not told, and asks a
\* stream that is empty.
RedisRecovers ==
    /\ ~up /\ up' = TRUE
    /\ stream' \in {stream, {}}
    /\ clients' = [c \in Clients |-> IF clients[c].pod # NoPod THEN clients[c]
                      ELSE [clients[c] EXCEPT !.excused = @ \union (stream \ stream')]]
    /\ UNCHANGED <<published, buffer, pending, emitted, failures>>

\* A pod that restarts loses its buffer and what it had not emitted yet.
Restart(p) ==
    /\ Fault
    /\ buffer' = [buffer EXCEPT ![p] = {}]
    /\ pending' = [pending EXCEPT ![p] = {}]
    /\ clients' = [c \in Clients |-> [clients[c] EXCEPT !.pod = IF @ = p THEN NoPod ELSE @]]
    /\ UNCHANGED <<published, stream, emitted, up>>

FeedNext ==
    \/ \E p \in Pods :
         \/ AppendEvent(p) \/ AppendFails(p) \/ Restart(p)
         \/ \E e \in pending[p] : Emit(p, e)
         \/ \E c \in Clients : Connect(c, p) \/ AnswerReplay(c, p)
    \/ \E c \in Clients : Disconnect(c) \/ AnswerFails(c) \/ Recover(c) \/ RecoverFails(c)
    \/ RedisFails \/ RedisRecovers

FeedSpec == FeedInit /\ [][FeedNext]_feedVars

-----------------------------------------------------------------------------
(* Properties *)

\* docs/realtime.md:243 says of a restart of Redis that the backend reports it
\* rather than hides it, and eventLog.js:124 that an answer is a reset whenever
\* it may be incomplete: not for a client that was away during the restart.
NoOtherGap ==
    \A c \in Clients :
        LET client == clients[c] IN
        client.pod # NoPod /\ client.replay = "none" /\ client.cursor # NoCursor =>
            emitted \subseteq client.base \union client.seen \union client.told \union client.excused

\* A client that is connected and has recovered has shown every event emitted
\* since the first it saw, or was told to fetch it, or the event is one of
\* those the feed may lose: trimmed, kept by one pod only, lost with Redis
\* while the client was away, overtaken, beyond the limit of an answer, or
\* missed while a replay was under way.
FeedIsSound == FeedTypes /\ NoOtherGap
=============================================================================
