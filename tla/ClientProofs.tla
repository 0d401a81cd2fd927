---------------------------- MODULE ClientProofs ----------------------------
(***************************************************************************)
(* Proofs about the two clients that recover on their own: the browser     *)
(* that follows the live feed, for any number of pods, clients and events, *)
(* and the mobile app that queues donations.                               *)
(*                                                                         *)
(* The argument for the feed: a client that goes on from a cursor knows    *)
(* every event up to it, or the event has been overtaken, which will       *)
(* excuse it when it is emitted (Past).  What follows the cursor is in the *)
(* stream or excused (StreamFits), so an answer that leads from a cursor   *)
(* to a later one shows or excuses all that is between them.               *)
(*                                                                         *)
(* The argument for the queue, but for the causes the properties name: a   *)
(* wish has one visit that is not settled (Alone), on the only entry there *)
(* is for it (OneEntry); an entry keeps the hash its visit knows           *)
(* (HashFits); so once a wish is paid, nobody is about to pay it again     *)
(* (PaidFits).                                                             *)
(***************************************************************************)
EXTENDS RealtimeFeed, OfflineQueue, FiniteSetTheorems, NaturalsInduction, WellFoundedInduction, TLAPS

Known(client) == client.base \union client.seen \union client.told \union client.excused

\* An event that is excused when it is emitted, as later ones were before it.
Overtaken(e) == e \notin emitted /\ \E f \in emitted : f > e

\* A client that goes on from event n has, with the events known, all before.
Past(n, known) == \A e \in 1 .. published : e <= n => e \in known \/ Overtaken(e)

\* An event that is not in the stream is lost to everybody but one pod, or the
\* client was told when the stream could not be reached any more.
StreamFits(client) ==
    \A e \in 1 .. published : e \in stream \/ e \in client.excused \/ e \in client.told

\* Without Redis a connected client has been told of all that is in the stream.
WarnedFits == ~up => \A c \in Clients : clients[c].pod # NoPod => stream \subseteq clients[c].told

CursorsFit(client) ==
    /\ client.cursor.event <= published /\ client.from.event <= published
    /\ client.answer.next.event <= published
    /\ client.replay # "none" => client.cursor # NoCursor

LiveFits(client) ==
    client.replay = "none" =>
        /\ Past(client.cursor.event, Known(client))
        /\ client.pod # NoPod /\ client.cursor # NoCursor => emitted \subseteq Known(client)

\* A replay under way ends with a client that knows all again.
ReplayFits(client) ==
    /\ client.replay = "sent" => Past(client.from.event, Known(client))
    /\ client.replay = "answered" /\ ~client.answer.reset =>
        /\ Past(client.answer.next.event, Known(client) \union client.answer.events)
        /\ client.pod # NoPod => emitted \subseteq Known(client) \union client.answer.events

ClientFits(client) ==
    StreamFits(client) /\ CursorsFit(client) /\ LiveFits(client) /\ ReplayFits(client)

\* Only one pod is about to emit an event.
PendingFits == \A p, q \in Pods : p # q => pending[p] \intersect pending[q] = {}

FeedInv == FeedTypes /\ PendingFits /\ WarnedFits /\ \A c \in Clients : ClientFits(clients[c])

-----------------------------------------------------------------------------
(* Types *)

\* The maximum of a set of numbers with a bound is in the set.
LEMMA MaxIsMember ==
    ASSUME NEW n \in Nat, NEW S \in SUBSET (1 .. n), S # {}
    PROVE  Max(S) \in S
<1> DEFINE T == {n - x : x \in S}
<1>1. T \in SUBSET Nat /\ T # {}
  <2>1. ASSUME NEW x \in S PROVE n - x \in Nat
    OBVIOUS
  <2> QED
    BY <2>1
<1>2. PICK t \in T : \A u \in T : ~ (<<u, t>> \in OpToRel(<, Nat))
  BY <1>1, NatLessThanWellFounded, WFMin
<1>3. PICK x \in S : t = n - x
  BY <1>2
<1>4. \A y \in S : x >= y
  <2>1. ASSUME NEW y \in S, y > x PROVE FALSE
    <3>1. n - y \in T /\ n - y < t /\ n - y \in Nat /\ t \in Nat
      BY <1>3, <2>1
    <3> QED
      BY <1>2, <3>1 DEF OpToRel
  <2> QED
    BY <2>1
<1> QED
  BY <1>4 DEF Max

\* The fields of a client have their types.
LEMMA ClientFields ==
    ASSUME NEW x \in Client
    PROVE  /\ x.pod \in Pods \union {NoPod} /\ x.cursor \in Cursor /\ x.from \in Cursor
           /\ x.replay \in {"none", "sent", "answered"} /\ x.answer \in Answer
           /\ x.base \subseteq 1 .. Events /\ x.seen \subseteq 1 .. Events
           /\ x.told \subseteq 1 .. Events /\ x.excused \subseteq 1 .. Events
           /\ x.cursor.event \in Nat /\ x.from.event \in Nat /\ x.answer.next.event \in Nat
           /\ x.answer.next \in Cursor /\ x.answer.events \subseteq 1 .. Events /\ x.answer.reset \in BOOLEAN
BY DEF Client, Answer, Cursor

\* Nothing, and a reset, are cursors and answers.
LEMMA Nothing ==
    /\ NoCursor \in Cursor /\ NoCursor.event = 0
    /\ NoAnswer \in Answer /\ NoAnswer.next = NoCursor
    /\ Reset \in Answer /\ Reset.next = NoCursor /\ Reset.reset
BY DEF NoCursor, NoAnswer, Reset, Cursor, Answer

\* Nobody has missed anything initially.
LEMMA FeedInitInv == FeedInit => FeedInv
<1> SUFFICES ASSUME FeedInit PROVE FeedInv
  OBVIOUS
<1> USE DEF FeedInit
<1>1. \A c \in Clients : clients[c] \in Client
  BY Nothing DEF Client
<1>2. clients \in [Clients -> Client]
  BY <1>1
<1>3. FeedTypes
  BY <1>2, FeedAssumption DEF FeedTypes
<1>4. \A c \in Clients : ClientFits(clients[c])
  BY Nothing DEF ClientFits, StreamFits, CursorsFit, LiveFits, ReplayFits, Past
<1> QED
  BY <1>3, <1>4 DEF FeedInv, PendingFits, WarnedFits

-----------------------------------------------------------------------------
(* Clients *)

\* A step about clients only.
Quiet == UNCHANGED <<published, stream, emitted>>

\* A client that stays as it is still fits when nothing is recorded or emitted.
LEMMA FitsInQuiet ==
    ASSUME NEW x, ClientFits(x), Quiet
    PROVE  ClientFits(x)'
BY DEF Quiet, ClientFits, StreamFits, CursorsFit, LiveFits, ReplayFits, Past, Overtaken

\* More known events do no harm.
LEMMA KnowsMore ==
    ASSUME NEW x \in Client, ClientFits(x), NEW told \in SUBSET (1 .. Events),
           NEW y, y = [x EXCEPT !.told = @ \union told]
    PROVE  y \in Client /\ ClientFits(y)
<1>1. /\ y \in Client /\ y.pod = x.pod /\ y.cursor = x.cursor /\ y.from = x.from /\ y.replay = x.replay
      /\ y.answer = x.answer /\ y.excused = x.excused /\ x.told \subseteq y.told /\ Known(x) \subseteq Known(y)
  BY DEF Client, Known
<1> QED
  BY <1>1 DEF ClientFits, StreamFits, CursorsFit, LiveFits, ReplayFits, Past

\* A client that fetches everything, and has no replay under way, fits.
LEMMA FetchedFits ==
    ASSUME NEW y \in Client, StreamFits(y), CursorsFit(y), emitted \subseteq 1 .. published,
           1 .. published \subseteq Known(y), y.replay # "sent"
    PROVE  ClientFits(y)
BY DEF ClientFits, LiveFits, ReplayFits, Past

\* A client that loses its connection fits as it did.
LEMMA AwayFits ==
    ASSUME NEW x \in Client, ClientFits(x), NEW y, y = [x EXCEPT !.pod = NoPod]
    PROVE  y \in Client /\ ClientFits(y)
<1>1. /\ y \in Client /\ y.pod = NoPod /\ y.cursor = x.cursor /\ y.from = x.from /\ y.replay = x.replay
      /\ y.answer = x.answer /\ y.excused = x.excused /\ y.told = x.told /\ Known(x) = Known(y)
  BY DEF Client, Known
<1> QED
  BY <1>1 DEF ClientFits, StreamFits, CursorsFit, LiveFits, ReplayFits

\* An event is recorded, and those that leave the stream are excused.
LEMMA RecordedFits ==
    ASSUME NEW x \in Client, ClientFits(x), published \in Nat, published' = published + 1,
           emitted' = emitted, emitted \subseteq 1 .. published,
           NEW gone \in SUBSET (1 .. Events), stream \ gone \subseteq stream', published + 1 \in stream' \union gone,
           NEW y, y = [x EXCEPT !.excused = @ \union gone]
    PROVE  y \in Client /\ ClientFits(y)'
<1>1. /\ y \in Client /\ y.pod = x.pod /\ y.cursor = x.cursor /\ y.from = x.from /\ y.replay = x.replay
      /\ y.answer = x.answer /\ y.excused = x.excused \union gone /\ y.told = x.told /\ Known(x) \subseteq Known(y)
  BY DEF Client, Known
<1>2. /\ x.cursor.event \in Nat /\ x.from.event \in Nat /\ x.answer.next.event \in Nat
      /\ x.cursor.event <= published /\ x.from.event <= published /\ x.answer.next.event <= published
  BY ClientFields DEF ClientFits, CursorsFit
<1>3. ASSUME NEW n \in Nat, n <= published, NEW known, NEW more, known \subseteq more, Past(n, known)
      PROVE  Past(n, more)'
  BY <1>3 DEF Past, Overtaken
<1>4. StreamFits(y)'
  BY <1>1 DEF ClientFits, StreamFits
<1>5. CursorsFit(y)'
  BY <1>1, <1>2 DEF ClientFits, CursorsFit
<1>6. LiveFits(y)'
  <2>1. Known(y)' = Known(y)
    BY DEF Known
  <2> QED
    BY <1>1, <1>2, <1>3, <2>1 DEF ClientFits, LiveFits
<1>7. ReplayFits(y)'
  <2>1. Known(y)' = Known(y) /\ Known(x) \union x.answer.events \subseteq Known(y) \union x.answer.events
    BY <1>1 DEF Known
  <2> QED
    BY <1>1, <1>2, <1>3, <2>1 DEF ClientFits, ReplayFits
<1> QED
  BY <1>1, <1>4, <1>5, <1>6, <1>7 DEF ClientFits

\* Events are lost with Redis: those who were not told are excused.
LEMMA LostFits ==
    ASSUME NEW x \in Client, ClientFits(x), published' = published, emitted' = emitted, stream' \subseteq stream,
           NEW gone \in SUBSET (1 .. Events), gone = IF x.pod # NoPod THEN {} ELSE stream \ stream',
           x.pod # NoPod => stream \subseteq x.told,
           NEW y, y = [x EXCEPT !.excused = @ \union gone]
    PROVE  y \in Client /\ ClientFits(y)'
<1>1. /\ y \in Client /\ y.pod = x.pod /\ y.cursor = x.cursor /\ y.from = x.from /\ y.replay = x.replay
      /\ y.answer = x.answer /\ y.excused = x.excused \union gone /\ y.told = x.told /\ Known(x) \subseteq Known(y)
  BY DEF Client, Known
<1>2. ASSUME NEW n, NEW known, NEW more, known \subseteq more, Past(n, known)
      PROVE  Past(n, more)'
  BY <1>2 DEF Past, Overtaken
<1>3. StreamFits(y)'
  BY <1>1 DEF ClientFits, StreamFits
<1>4. CursorsFit(y)'
  BY <1>1 DEF ClientFits, CursorsFit
<1>5. Known(y)' = Known(y) /\ Known(x) \union x.answer.events \subseteq Known(y) \union x.answer.events
  BY <1>1 DEF Known
<1>6. LiveFits(y)'
  BY <1>1, <1>2, <1>5 DEF ClientFits, LiveFits
<1>7. ReplayFits(y)'
  BY <1>1, <1>2, <1>5 DEF ClientFits, ReplayFits
<1> QED
  BY <1>1, <1>3, <1>4, <1>6, <1>7 DEF ClientFits

\* What a client knows, or has been overtaken, when an event is emitted.
LEMMA PastEmitted ==
    ASSUME NEW e, emitted' = emitted \union {e}, published' = published,
           NEW late, late = IF \E f \in emitted : f > e THEN {e} ELSE {},
           NEW n, NEW known, NEW more, known \union late \subseteq more, Past(n, known)
    PROVE  Past(n, more)'
<1>1. ASSUME NEW x \in 1 .. published, x <= n PROVE x \in more \/ Overtaken(x)'
  <2>1. CASE x \in known
    BY <2>1
  <2>2. CASE Overtaken(x) /\ x # e
    BY <2>2 DEF Overtaken
  <2>3. CASE Overtaken(x) /\ x = e
    BY <2>3 DEF Overtaken
  <2> QED
    BY <1>1, <2>1, <2>2, <2>3 DEF Past
<1> QED
  BY <1>1 DEF Past

\* What emitting an event does to a client.
Emitting(e, late, x) ==
    /\ ClientFits(x) /\ x \in Client
    /\ e \in 1 .. published /\ e \notin emitted /\ emitted \subseteq 1 .. published /\ published \in 0 .. Events
    /\ emitted' = emitted \union {e} /\ published' = published /\ stream' = stream
    /\ late = IF \E f \in emitted : f > e THEN {e} ELSE {}

\* A client that is not connected is not told, and one that is told knows.
LEMMA EmittedToOthers ==
    ASSUME NEW e, NEW late, NEW x, Emitting(e, late, x),
           NEW told \in SUBSET {e}, x.pod # NoPod => told = {e},
           NEW y, y = [x EXCEPT !.excused = @ \union late, !.told = @ \union told]
    PROVE  y \in Client /\ ClientFits(y)'
<1> USE DEF Emitting
<1>0. late \subseteq {e} /\ {e} \subseteq 1 .. Events /\ emitted \subseteq 1 .. Events
  BY FeedAssumption
<1>1. /\ y \in Client /\ y.pod = x.pod /\ y.cursor = x.cursor /\ y.from = x.from /\ y.replay = x.replay
      /\ y.answer = x.answer /\ y.excused = x.excused \union late /\ y.told = x.told \union told
      /\ Known(y) = Known(x) \union late \union told
  BY <1>0 DEF Client, Known
<1>2. Known(y)' = Known(y)
  BY DEF Known
<1>3. StreamFits(y)' /\ CursorsFit(y)'
  BY <1>1 DEF ClientFits, StreamFits, CursorsFit
<1>4. LiveFits(y)'
  <2>1. ASSUME x.replay = "none" PROVE Past(x.cursor.event, Known(y))'
    <3>1. Past(x.cursor.event, Known(x)) /\ Known(x) \union late \subseteq Known(y)
      BY <1>1, <2>1 DEF ClientFits, LiveFits
    <3> QED
      BY <3>1, PastEmitted
  <2> QED
    BY <1>1, <1>2, <2>1 DEF ClientFits, LiveFits
<1>5. ReplayFits(y)'
  <2>1. ASSUME x.replay = "sent" PROVE Past(x.from.event, Known(y))'
    <3>1. Past(x.from.event, Known(x)) /\ Known(x) \union late \subseteq Known(y)
      BY <1>1, <2>1 DEF ClientFits, ReplayFits
    <3> QED
      BY <3>1, PastEmitted
  <2>2. Known(x) \union x.answer.events \union late \subseteq Known(y) \union x.answer.events
    BY <1>1
  <2>3. ASSUME x.replay = "answered", ~x.answer.reset
        PROVE  Past(x.answer.next.event, Known(y) \union x.answer.events)'
    <3> DEFINE known == Known(x) \union x.answer.events
               more == Known(y) \union x.answer.events
    <3>1. Past(x.answer.next.event, known) /\ known \union late \subseteq more
      BY <2>2, <2>3 DEF ClientFits, ReplayFits
    <3> HIDE DEF known, more
    <3>2. Past(x.answer.next.event, more)'
      BY <3>1, PastEmitted
    <3> QED
      BY <3>2 DEF more
  <2> QED
    BY <1>1, <1>2, <2>1, <2>3 DEF ClientFits, ReplayFits
<1> QED
  BY <1>1, <1>3, <1>4, <1>5 DEF ClientFits

\* A client that shows the event knows what was emitted before it.
LEMMA EmittedToShow ==
    ASSUME NEW e, NEW late, NEW x, Emitting(e, late, x), x.pod # NoPod,
           NEW cursor \in Cursor, cursor.event = e, cursor # NoCursor,
           NEW y, y = Shows([x EXCEPT !.excused = @ \union late], e, cursor)
    PROVE  y \in Client /\ ClientFits(y)'
<1> USE DEF Emitting
<1>0. late \subseteq {e} /\ {e} \subseteq 1 .. Events /\ emitted \subseteq 1 .. Events
  BY FeedAssumption
<1>1. /\ y \in Client /\ y.pod = x.pod /\ y.cursor = cursor /\ y.from = x.from /\ y.replay = x.replay
      /\ y.answer = x.answer /\ y.excused = x.excused \union late /\ y.seen = x.seen \union {e}
      /\ y.told = x.told /\ y.base = IF x.cursor = NoCursor THEN emitted ELSE x.base
  BY <1>0 DEF Client, Shows
<1>2. Known(y)' = Known(y)
  BY DEF Known
<1>3. StreamFits(y)' /\ CursorsFit(y)'
  <2>1. StreamFits(y)'
    BY <1>1 DEF ClientFits, StreamFits
  <2>2. CursorsFit(y)'
    BY <1>1 DEF ClientFits, CursorsFit
  <2> QED
    BY <2>1, <2>2
<1>4. x.replay # "none" \/ x.cursor # NoCursor => Known(x) \union late \union {e} \subseteq Known(y)
  BY <1>1 DEF ClientFits, CursorsFit, Known
<1>5. x.replay = "none" => emitted \union {e} \subseteq Known(y)
  <2>1. CASE x.cursor = NoCursor
    BY <1>1, <2>1 DEF Known
  <2>2. CASE x.cursor # NoCursor
    BY <1>4, <2>2 DEF ClientFits, LiveFits
  <2> QED
    BY <2>1, <2>2
<1>6. LiveFits(y)'
  <2>1. ASSUME x.replay = "none" PROVE Past(e, Known(y))'
    <3>1. ASSUME NEW z \in 1 .. published, z <= e, z \notin emitted \union {e} PROVE Overtaken(z)'
      BY <3>1 DEF Overtaken
    <3> QED
      BY <1>5, <2>1, <3>1 DEF Past
  <2> QED
    BY <1>1, <1>2, <1>5, <2>1 DEF LiveFits
<1>7. ReplayFits(y)'
  <2>1. ASSUME x.replay = "sent" PROVE Past(x.from.event, Known(y))'
    <3>1. Past(x.from.event, Known(x)) /\ Known(x) \union late \subseteq Known(y)
      BY <1>4, <2>1 DEF ClientFits, ReplayFits
    <3> QED
      BY <3>1, PastEmitted
  <2>2. x.replay # "none" => Known(x) \union x.answer.events \union late \subseteq Known(y) \union x.answer.events
    BY <1>4
  <2>3. ASSUME x.replay = "answered", ~x.answer.reset
        PROVE  Past(x.answer.next.event, Known(y) \union x.answer.events)'
    <3> DEFINE known == Known(x) \union x.answer.events
               more == Known(y) \union x.answer.events
    <3>1. Past(x.answer.next.event, known) /\ known \union late \subseteq more
      BY <2>2, <2>3 DEF ClientFits, ReplayFits
    <3> HIDE DEF known, more
    <3>2. Past(x.answer.next.event, more)'
      BY <3>1, PastEmitted
    <3> QED
      BY <3>2 DEF more
  <2>4. x.replay = "answered" /\ ~x.answer.reset /\ x.pod # NoPod =>
            emitted \union {e} \subseteq Known(y) \union x.answer.events
    BY <1>4 DEF ClientFits, ReplayFits
  <2> QED
    BY <1>1, <1>2, <2>1, <2>3, <2>4 DEF ReplayFits
<1> QED
  BY <1>1, <1>3, <1>6, <1>7 DEF ClientFits

-----------------------------------------------------------------------------
(* Recovery *)

\* An answer shows recorded events, and leads to the cursor it was asked from
\* or to one of these events.
Answers(answer, from) ==
    /\ answer \in Answer
    /\ IF answer.reset THEN answer.next = NoCursor
       ELSE /\ answer.events \subseteq 1 .. published
            /\ answer.next = from \/ answer.next.event \in answer.events

\* The first events of a log that come after a cursor make an answer.
LEMMA UptoAnswers ==
    ASSUME published \in 0 .. Events, NEW from \in Cursor, NEW kind \in Pods \union {"shared", "none"},
           NEW log \in SUBSET (1 .. published)
    PROVE  Answers(Upto(Oldest(After(log, from)), from, kind), from)
<1> DEFINE events == Oldest(After(log, from))
           answer == Upto(events, from, kind)
<1>0. published \in Nat /\ 1 .. published \subseteq 1 .. Events
  BY FeedAssumption
<1>1. events \subseteq 1 .. published
  BY DEF Oldest, After
<1>2. CASE events = {}
  <2>1. answer = [events |-> {}, reset |-> FALSE, next |-> from]
    BY <1>2 DEF Upto
  <2> QED
    BY <2>1 DEF Answers, Answer
<1>3. CASE events # {}
  <2> HIDE DEF events
  <2> DEFINE last == Max(events)
  <2>1. last \in events /\ last \in Nat
    <3>1. events \in SUBSET (1 .. published) /\ events # {}
      BY <1>1, <1>3
    <3>2. last \in events
      BY <1>0, <3>1, MaxIsMember
    <3> HIDE DEF last
    <3> QED
      BY <1>0, <1>1, <3>2
  <2>2. answer = [events |-> events, reset |-> FALSE, next |-> [kind |-> kind, event |-> last]]
    BY <1>3 DEF Upto
  <2> HIDE DEF last
  <2> QED
    BY <1>0, <1>1, <2>1, <2>2 DEF Answers, Answer, Cursor, events
<1> QED
  BY <1>2, <1>3

\* Whatever pod is asked, what it replies is an answer.
LEMMA ReplayAnswers ==
    ASSUME FeedTypes, NEW p \in Pods, NEW from \in Cursor
    PROVE  Answers(Replay(p, from), from)
<1>1. published \in 0 .. Events /\ stream \in SUBSET (1 .. published) /\ buffer[p] \in SUBSET (1 .. published)
  BY DEF FeedTypes
<1>2. Answers(Reset, from)
  BY Nothing DEF Answers
<1>3. Answers(Upto(Oldest(After(buffer[p], from)), from, p), from)
  BY <1>1, UptoAnswers
<1>4. Answers(Upto(Oldest(After(stream, from)), from, "shared"), from)
  BY <1>1, UptoAnswers
<1> QED
  BY <1>2, <1>3, <1>4 DEF Replay

\* An answer makes up for all the client does not know, except what it leaves out.
LEMMA AnsweredFits ==
    ASSUME FeedTypes, NEW x \in Client, ClientFits(x), x.replay = "sent",
           NEW answer, Answers(answer, x.from),
           NEW y, y = [x EXCEPT !.replay = "answered", !.answer = answer, !.excused = @ \union LeftOut(answer, x.from)]
    PROVE  y \in Client /\ ClientFits(y)
<1> DEFINE out == LeftOut(answer, x.from)
<1>1. /\ published \in Nat /\ 1 .. published \subseteq 1 .. Events /\ stream \subseteq 1 .. published
      /\ emitted \subseteq 1 .. published /\ answer \in Answer
  BY FeedAssumption DEF FeedTypes, Answers
<1>2. out \subseteq 1 .. Events /\ (~answer.reset => out = {z \in stream : z > x.from.event} \ answer.events)
  BY <1>1 DEF LeftOut, After
<1>3. /\ y.pod = x.pod /\ y.cursor = x.cursor /\ y.from = x.from /\ y.replay = "answered"
      /\ y.answer = answer /\ y.excused = x.excused \union out /\ y.told = x.told
      /\ Known(y) = Known(x) \union out
  BY DEF Client, Known
<1>4. y \in Client
  BY <1>1, <1>2 DEF Client
<1> HIDE DEF out
<1>5. StreamFits(y)
  BY <1>3 DEF ClientFits, StreamFits
<1>6. x.from.event \in Nat /\ x.from.event <= published
  BY ClientFields DEF ClientFits, CursorsFit
<1>7. CASE answer.reset
  <2>1. answer.next.event <= published
    BY <1>1, <1>7, Nothing DEF Answers
  <2> QED
    BY <1>3, <1>4, <1>5, <1>6, <1>7, <2>1 DEF ClientFits, CursorsFit, LiveFits, ReplayFits
<1>8. CASE ~answer.reset
  <2>1. answer.next = x.from \/ answer.next.event \in 1 .. published
    BY <1>8 DEF Answers
  <2>2. CursorsFit(y)
    BY <1>1, <1>3, <1>6, <2>1 DEF ClientFits, CursorsFit
  <2> DEFINE all == Known(y) \union answer.events
  <2>3. ASSUME NEW z \in 1 .. published PROVE z \in all \/ Overtaken(z)
    <3>1. CASE z <= x.from.event
      BY <1>3, <3>1 DEF ClientFits, ReplayFits, Past
    <3>2. CASE z > x.from.event
      <4>1. z \in stream \/ z \in x.excused \/ z \in x.told
        BY DEF ClientFits, StreamFits
      <4> QED
        BY <1>2, <1>3, <1>8, <3>2, <4>1 DEF Known
    <3> QED
      BY <1>1, <1>6, <3>1, <3>2
  <2>4. emitted \subseteq all
    BY <1>1, <2>3 DEF Overtaken
  <2>5. ReplayFits(y)
    BY <1>3, <2>3, <2>4 DEF ReplayFits, Past
  <2> QED
    BY <1>3, <1>4, <1>5, <2>2, <2>5 DEF ClientFits, LiveFits
<1> QED
  BY <1>7, <1>8

\* An answer that is shown leaves nothing out before its cursor.
LEMMA RecoveredFits ==
    ASSUME FeedTypes, NEW x \in Client, ClientFits(x), x.replay = "answered", ~x.answer.reset,
           NEW y, y = Settled([x EXCEPT !.seen = @ \union x.answer.events, !.cursor = x.answer.next])
    PROVE  y \in Client /\ ClientFits(y)
<1>1. /\ y.pod = x.pod /\ y.cursor = x.answer.next /\ y.from = NoCursor /\ y.replay = "none"
      /\ y.answer = NoAnswer /\ y.excused = x.excused /\ y.told = x.told
      /\ Known(y) = Known(x) \union x.answer.events
  BY DEF Client, Settled, Known
<1>2. y \in Client
  BY ClientFields, Nothing DEF Client, Settled
<1>3. StreamFits(y)
  BY <1>1 DEF ClientFits, StreamFits
<1>4. CursorsFit(y)
  BY <1>1, Nothing DEF ClientFits, CursorsFit, FeedTypes
<1> QED
  BY <1>1, <1>2, <1>3, <1>4 DEF ClientFits, LiveFits, ReplayFits

\* A client that is told to start over fetches everything.
LEMMA ToldFits ==
    ASSUME FeedTypes, NEW x \in Client, ClientFits(x), NEW y, y = Settled(Refetches(x))
    PROVE  y \in Client /\ ClientFits(y)
<1>1. 1 .. published \subseteq 1 .. Events /\ emitted \subseteq 1 .. published /\ published \in Nat
  BY FeedAssumption DEF FeedTypes
<1>2. /\ y.pod = x.pod /\ y.cursor = x.cursor /\ y.from = NoCursor /\ y.replay = "none"
      /\ y.answer = NoAnswer /\ y.excused = x.excused /\ x.told \union 1 .. published \subseteq y.told
      /\ 1 .. published \subseteq Known(y)
  BY DEF Client, Settled, Refetches, Known
<1>3. y \in Client
  BY <1>1, Nothing DEF Client, Settled, Refetches
<1>4. StreamFits(y)
  BY <1>2 DEF ClientFits, StreamFits
<1>5. CursorsFit(y)
  BY <1>1, <1>2, Nothing DEF ClientFits, CursorsFit
<1> QED
  BY <1>1, <1>2, <1>3, <1>4, <1>5, FetchedFits

\* A client that connects asks for what it missed, or is excused.
LEMMA ConnectedFits ==
    ASSUME FeedTypes, NEW x \in Client, ClientFits(x), x.pod = NoPod, NEW p \in Pods,
           NEW y, y = IF x.cursor = NoCursor THEN [x EXCEPT !.pod = p]
                      ELSE IF x.replay # "none" THEN [x EXCEPT !.pod = p, !.excused = @ \union 1 .. published]
                      ELSE [x EXCEPT !.pod = p, !.replay = "sent", !.from = x.cursor]
    PROVE  y \in Client /\ ClientFits(y)
<1>1. 1 .. published \subseteq 1 .. Events /\ emitted \subseteq 1 .. published
  BY FeedAssumption DEF FeedTypes
<1>2. CASE x.cursor = NoCursor
  <2>1. /\ y.pod = p /\ y.cursor = x.cursor /\ y.from = x.from /\ y.replay = x.replay
        /\ y.answer = x.answer /\ y.excused = x.excused /\ y.told = x.told /\ Known(y) = Known(x) /\ y \in Client
    BY <1>2 DEF Client, Known
  <2> QED
    BY <1>2, <2>1 DEF ClientFits, StreamFits, CursorsFit, LiveFits, ReplayFits
<1>3. CASE x.cursor # NoCursor /\ x.replay # "none"
  <2>1. /\ y.pod = p /\ y.cursor = x.cursor /\ y.from = x.from /\ y.replay = x.replay
        /\ y.answer = x.answer /\ y.excused = x.excused \union 1 .. published /\ y.told = x.told
        /\ 1 .. published \subseteq Known(y) /\ y \in Client
    BY <1>1, <1>3 DEF Client, Known
  <2>2. StreamFits(y) /\ CursorsFit(y)
    BY <2>1 DEF ClientFits, StreamFits, CursorsFit
  <2>3. LiveFits(y) /\ ReplayFits(y)
    BY <1>1, <2>1 DEF LiveFits, ReplayFits, Past
  <2> QED
    BY <2>1, <2>2, <2>3 DEF ClientFits
<1>4. CASE x.cursor # NoCursor /\ x.replay = "none"
  <2>1. /\ y.pod = p /\ y.cursor = x.cursor /\ y.from = x.cursor /\ y.replay = "sent"
        /\ y.answer = x.answer /\ y.excused = x.excused /\ y.told = x.told /\ Known(y) = Known(x) /\ y \in Client
    BY <1>4 DEF Client, Known
  <2> QED
    BY <1>4, <2>1 DEF ClientFits, StreamFits, CursorsFit, LiveFits, ReplayFits
<1> QED
  BY <1>2, <1>3, <1>4

-----------------------------------------------------------------------------
(* Steps *)

\* A client that becomes one that fits.
LEMMA BecomesFit ==
    ASSUME NEW c \in Clients, NEW y, clients'[c] = y, ClientFits(y)'
    PROVE  ClientFits(clients[c])'
BY DEF ClientFits, StreamFits, CursorsFit, LiveFits, ReplayFits, Known

\* A step of one client, or of a pod for it, that records and emits nothing.
LEMMA ClientStep ==
    ASSUME FeedInv, NEW c \in Clients, NEW y \in Client, ClientFits(y), clients' = [clients EXCEPT ![c] = y],
           ~up /\ y.pod # NoPod => stream \subseteq y.told,
           UNCHANGED <<published, stream, buffer, pending, emitted, up>>, failures' \in 0 .. MaxFailures
    PROVE  FeedInv'
<1>1. FeedTypes /\ Quiet /\ clients \in [Clients -> Client] /\ \A d \in Clients : ClientFits(clients[d])
  BY DEF FeedInv, FeedTypes, Quiet
<1>2. FeedTypes'
  BY <1>1 DEF FeedTypes
<1>3. ASSUME NEW d \in Clients PROVE ClientFits(clients[d])'
  <2>1. PICK x : x = clients'[d]
    OBVIOUS
  <2>2. ClientFits(x)
    BY <1>1, <2>1
  <2> QED
    BY <1>1, <2>1, <2>2, FitsInQuiet, BecomesFit
<1>4. WarnedFits'
  BY <1>1 DEF FeedInv, WarnedFits
<1> QED
  BY <1>2, <1>3, <1>4 DEF FeedInv, PendingFits

\* A fault the bound allows stays within the bound.
LEMMA FailuresCount ==
    ASSUME FeedTypes, Fault \/ failures' = failures
    PROVE  failures' \in 0 .. MaxFailures
BY FeedAssumption DEF FeedTypes, Fault

\* Any pod answers.
LEMMA AnswerReplayStep ==
    ASSUME FeedInv, NEW c \in Clients, NEW p \in Pods, AnswerReplay(c, p)
    PROVE  FeedInv'
<1>1. FeedTypes /\ clients[c] \in Client /\ ClientFits(clients[c]) /\ clients[c].replay = "sent"
  BY DEF FeedInv, FeedTypes, AnswerReplay
<1>2. PICK x : x = clients[c]
  OBVIOUS
<1>3. PICK answer : answer = Replay(p, x.from)
  OBVIOUS
<1>4. PICK y : y = [x EXCEPT !.replay = "answered", !.answer = answer, !.excused = @ \union LeftOut(answer, x.from)]
  OBVIOUS
<1>5. Answers(answer, x.from)
  BY <1>1, <1>2, <1>3, ReplayAnswers, ClientFields
<1>6. y \in Client /\ ClientFits(y)
  BY <1>1, <1>2, <1>4, <1>5, AnsweredFits
<1>8. ~up /\ y.pod # NoPod => stream \subseteq y.told
  BY <1>1, <1>2, <1>4 DEF Client, FeedInv, WarnedFits
<1>7. /\ clients' = [clients EXCEPT ![c] = y]
      /\ UNCHANGED <<published, stream, buffer, pending, emitted, up, failures>>
  BY <1>2, <1>3, <1>4 DEF AnswerReplay
<1> QED
  BY <1>1, <1>6, <1>7, <1>8, ClientStep, FailuresCount

\* The store does not answer.
LEMMA AnswerFailsStep ==
    ASSUME FeedInv, NEW c \in Clients, AnswerFails(c)
    PROVE  FeedInv'
<1>1. FeedTypes /\ clients[c] \in Client /\ ClientFits(clients[c]) /\ clients[c].replay = "sent"
  BY DEF FeedInv, FeedTypes, AnswerFails
<1>2. PICK x : x = clients[c]
  OBVIOUS
<1>3. PICK y : y = [x EXCEPT !.replay = "answered", !.answer = Reset]
  OBVIOUS
<1>4. Answers(Reset, x.from) /\ LeftOut(Reset, x.from) = {}
  BY Nothing DEF Answers, LeftOut
<1>5. y = [x EXCEPT !.replay = "answered", !.answer = Reset, !.excused = @ \union LeftOut(Reset, x.from)]
  BY <1>1, <1>2, <1>3, <1>4 DEF Client
<1>6. PICK answer : answer = Reset
  OBVIOUS
<1>7. y \in Client /\ ClientFits(y)
  BY <1>1, <1>2, <1>4, <1>5, <1>6, AnsweredFits
<1>8. /\ clients' = [clients EXCEPT ![c] = y]
      /\ UNCHANGED <<published, stream, buffer, pending, emitted, up>> /\ Fault
  BY <1>2, <1>3 DEF AnswerFails
<1>9. ~up /\ y.pod # NoPod => stream \subseteq y.told
  BY <1>1, <1>2, <1>3 DEF Client, FeedInv, WarnedFits
<1> QED
  BY <1>1, <1>7, <1>8, <1>9, ClientStep, FailuresCount

\* handleConnect: the client is told first when the pod has no Redis.
LEMMA ConnectStep ==
    ASSUME FeedInv, NEW c \in Clients, NEW p \in Pods, Connect(c, p)
    PROVE  FeedInv'
<1>1. /\ FeedTypes /\ clients[c] \in Client /\ ClientFits(clients[c])
      /\ 1 .. published \in SUBSET (1 .. Events)
  BY FeedAssumption DEF FeedInv, FeedTypes
<1>2. PICK x : x = IF up THEN clients[c] ELSE Refetches(clients[c])
  OBVIOUS
<1>3. x \in Client /\ ClientFits(x)
  <2>1. PICK z : z = clients[c]
    OBVIOUS
  <2>2. x = z \/ x = [z EXCEPT !.told = @ \union 1 .. published]
    BY <1>2, <2>1 DEF Refetches
  <2>3. PICK told : told = 1 .. published
    OBVIOUS
  <2> QED
    BY <1>1, <2>1, <2>2, <2>3, KnowsMore
<1>4. PICK y : y = IF x.cursor = NoCursor THEN [x EXCEPT !.pod = p]
                   ELSE IF x.replay # "none" THEN [x EXCEPT !.pod = p, !.excused = @ \union 1 .. published]
                   ELSE [x EXCEPT !.pod = p, !.replay = "sent", !.from = x.cursor]
  OBVIOUS
<1>5. /\ x.pod = NoPod /\ clients' = [clients EXCEPT ![c] = y]
      /\ UNCHANGED <<published, stream, buffer, pending, emitted, up, failures>>
  BY <1>2, <1>4 DEF Connect
<1>6. y \in Client /\ ClientFits(y)
  BY <1>1, <1>3, <1>4, <1>5, ConnectedFits
<1>7. ~up => stream \subseteq y.told
  <2>1. y.told = x.told
    BY <1>3, <1>4 DEF Client
  <2>2. ~up => 1 .. published \subseteq x.told
    BY <1>1, <1>2 DEF Client, Refetches
  <2> QED
    BY <1>1, <2>1, <2>2 DEF FeedTypes
<1> QED
  BY <1>1, <1>5, <1>6, <1>7, ClientStep, FailuresCount

\* The connection is lost.
LEMMA DisconnectStep ==
    ASSUME FeedInv, NEW c \in Clients, Disconnect(c)
    PROVE  FeedInv'
<1>1. FeedTypes /\ clients[c] \in Client /\ ClientFits(clients[c])
  BY DEF FeedInv, FeedTypes
<1>2. PICK x : x = clients[c]
  OBVIOUS
<1>3. PICK y : y = [x EXCEPT !.pod = NoPod]
  OBVIOUS
<1>4. /\ clients' = [clients EXCEPT ![c] = y]
      /\ UNCHANGED <<published, stream, buffer, pending, emitted, up, failures>>
  BY <1>2, <1>3 DEF Disconnect
<1>5. y \in Client /\ ClientFits(y)
  BY <1>1, <1>2, <1>3, AwayFits
<1>6. y.pod = NoPod
  BY <1>1, <1>2, <1>3 DEF Client
<1> QED
  BY <1>1, <1>4, <1>5, <1>6, ClientStep, FailuresCount

\* The answer is shown, or tells the client to start over.
LEMMA RecoverStep ==
    ASSUME FeedInv, NEW c \in Clients, Recover(c)
    PROVE  FeedInv'
<1>1. FeedTypes /\ clients[c] \in Client /\ ClientFits(clients[c])
  BY DEF FeedInv, FeedTypes
<1>2. PICK x : x = clients[c]
  OBVIOUS
<1>3. PICK y : y = IF x.answer.reset THEN Settled(Refetches(x))
                   ELSE Settled([x EXCEPT !.seen = @ \union x.answer.events, !.cursor = x.answer.next])
  OBVIOUS
<1>4. /\ clients' = [clients EXCEPT ![c] = y] /\ x.replay = "answered"
      /\ UNCHANGED <<published, stream, buffer, pending, emitted, up, failures>>
  BY <1>2, <1>3 DEF Recover
<1>5. y \in Client /\ ClientFits(y)
  <2>1. CASE x.answer.reset
    BY <1>1, <1>2, <1>3, <2>1, ToldFits
  <2>2. CASE ~x.answer.reset
    BY <1>1, <1>2, <1>3, <1>4, <2>2, RecoveredFits
  <2> QED
    BY <2>1, <2>2
<1>6. ~up /\ y.pod # NoPod => stream \subseteq y.told
  <2>1. y.pod = x.pod /\ x.told \subseteq y.told
    BY <1>1, <1>2, <1>3 DEF Client, Settled, Refetches
  <2> QED
    BY <1>2, <2>1 DEF FeedInv, WarnedFits
<1> QED
  BY <1>1, <1>4, <1>5, <1>6, ClientStep, FailuresCount

\* The request fails.
LEMMA RecoverFailsStep ==
    ASSUME FeedInv, NEW c \in Clients, RecoverFails(c)
    PROVE  FeedInv'
<1>1. FeedTypes /\ clients[c] \in Client /\ ClientFits(clients[c])
  BY DEF FeedInv, FeedTypes
<1>2. PICK x : x = clients[c]
  OBVIOUS
<1>3. PICK y : y = Settled(Refetches(x))
  OBVIOUS
<1>4. /\ clients' = [clients EXCEPT ![c] = y] /\ Fault
      /\ UNCHANGED <<published, stream, buffer, pending, emitted, up>>
  BY <1>2, <1>3 DEF RecoverFails
<1>5. y \in Client /\ ClientFits(y)
  BY <1>1, <1>2, <1>3, ToldFits
<1>6. ~up /\ y.pod # NoPod => stream \subseteq y.told
  <2>1. y.pod = x.pod /\ x.told \subseteq y.told
    BY <1>1, <1>2, <1>3 DEF Client, Settled, Refetches
  <2> QED
    BY <1>2, <2>1 DEF FeedInv, WarnedFits
<1> QED
  BY <1>1, <1>4, <1>5, <1>6, ClientStep, FailuresCount

\* A recorded event is due for emission by one pod, and those that are gone are excused.
LEMMA RecordStep ==
    ASSUME FeedInv, NEW p \in Pods, published < Events, published' = published + 1,
           NEW gone \in SUBSET (1 .. published + 1), stream' \subseteq stream \union {published + 1},
           stream \ gone \subseteq stream', published + 1 \in stream' \union gone, Excuse(gone),
           buffer' = buffer \/ buffer' = [buffer EXCEPT ![p] = @ \union {published + 1}],
           pending' = [pending EXCEPT ![p] = @ \union {published + 1}],
           emitted' = emitted, up' = up, up \/ stream' = stream, failures' \in 0 .. MaxFailures
    PROVE  FeedInv'
<1>1. /\ FeedTypes /\ published \in Nat /\ Events \in Nat /\ published + 1 \in 1 .. Events
      /\ 1 .. published \subseteq 1 .. published + 1 /\ gone \in SUBSET (1 .. Events)
  BY FeedAssumption DEF FeedInv, FeedTypes
<1>2. ASSUME NEW c \in Clients PROVE clients'[c] \in Client /\ ClientFits(clients[c])'
  <2>1. PICK x : x = clients[c]
    OBVIOUS
  <2>2. PICK y : y = [x EXCEPT !.excused = @ \union gone]
    OBVIOUS
  <2>3. x \in Client /\ ClientFits(x)
    BY <2>1 DEF FeedInv, FeedTypes
  <2>4. emitted \subseteq 1 .. published
    BY <1>1 DEF FeedTypes
  <2>5. y \in Client /\ ClientFits(y)'
    BY <1>1, <2>2, <2>3, <2>4, RecordedFits
  <2>6. clients'[c] = y
    BY <2>1, <2>2 DEF Excuse
  <2> QED
    BY <2>5, <2>6, BecomesFit
<1>3. clients' \in [Clients -> Client]
  BY <1>2 DEF Excuse
<1>4. /\ pending' \in [Pods -> SUBSET (1 .. published + 1)] /\ buffer' \in [Pods -> SUBSET (1 .. published + 1)]
      /\ \A q \in Pods : pending'[q] = (IF q = p THEN pending[q] \union {published + 1} ELSE pending[q])
      /\ \A q \in Pods : published + 1 \notin pending[q]
  <2>1. /\ pending \in [Pods -> SUBSET (1 .. published)] /\ buffer \in [Pods -> SUBSET (1 .. published)]
        /\ published + 1 \notin 1 .. published /\ published + 1 \in 1 .. published + 1
    BY <1>1 DEF FeedTypes
  <2>2. /\ pending \in [Pods -> SUBSET (1 .. published + 1)] /\ buffer \in [Pods -> SUBSET (1 .. published + 1)]
        /\ {published + 1} \subseteq 1 .. published + 1
    BY <1>1, <2>1
  <2>3. pending' \in [Pods -> SUBSET (1 .. published + 1)]
    BY <2>2
  <2>4. buffer' \in [Pods -> SUBSET (1 .. published + 1)]
    <3>1. CASE buffer' = buffer
      BY <2>2, <3>1
    <3>2. CASE buffer' = [buffer EXCEPT ![p] = @ \union {published + 1}]
      BY <2>2, <3>2
    <3> QED
      BY <3>1, <3>2
  <2> QED
    BY <2>1, <2>3, <2>4
<1>5. published + 1 \notin emitted
  BY <1>1 DEF FeedTypes
<1>6. FeedTypes'
  BY <1>1, <1>3, <1>4, <1>5 DEF FeedTypes
<1>7. PendingFits'
  BY <1>4 DEF FeedInv, PendingFits
<1>8. WarnedFits'
  <2>1. ASSUME NEW c \in Clients PROVE clients'[c].pod = clients[c].pod /\ clients'[c].told = clients[c].told
    BY <1>1 DEF FeedTypes, Excuse, Client
  <2> QED
    BY <2>1 DEF FeedInv, WarnedFits
<1> QED
  BY <1>2, <1>6, <1>7, <1>8 DEF FeedInv

\* XADD
LEMMA AppendStep ==
    ASSUME FeedInv, NEW p \in Pods, AppendEvent(p)
    PROVE  FeedInv'
<1>1. PICK old \in SUBSET stream : stream' = (stream \ old) \union {published + 1} /\ Excuse(old)
  BY DEF AppendEvent
<1>2. FeedTypes /\ old \in SUBSET (1 .. published + 1)
  BY DEF FeedInv, FeedTypes
<1>3. /\ published < Events /\ published' = published + 1
      /\ pending' = [pending EXCEPT ![p] = @ \union {published + 1}]
      /\ UNCHANGED <<buffer, emitted, up, failures>> /\ up
  BY DEF AppendEvent
<1>4. failures' \in 0 .. MaxFailures
  BY <1>2, <1>3, FailuresCount
<1> QED
  BY <1>1, <1>2, <1>3, <1>4, RecordStep

\* XADD fails
LEMMA AppendFailsStep ==
    ASSUME FeedInv, NEW p \in Pods, AppendFails(p)
    PROVE  FeedInv'
<1>1. PICK gone : gone = IF published + 1 \in stream' THEN {} ELSE {published + 1}
  OBVIOUS
<1>2. FeedTypes /\ published \in Nat
  BY DEF FeedInv, FeedTypes
<1>3. /\ published < Events /\ published' = published + 1 /\ Excuse(gone)
      /\ pending' = [pending EXCEPT ![p] = @ \union {published + 1}]
      /\ buffer' = [buffer EXCEPT ![p] = @ \union {published + 1}]
      /\ UNCHANGED <<emitted, up>> /\ (up \/ stream' = stream)
      /\ stream' \in {stream, stream \union {published + 1}} /\ (Fault \/ failures' = failures)
  BY <1>1 DEF AppendFails
<1>4. failures' \in 0 .. MaxFailures
  BY <1>2, <1>3, FailuresCount
<1>5. published + 1 \in 1 .. published + 1
  BY <1>2
<1>6. gone \in SUBSET (1 .. published + 1) /\ published + 1 \in stream' \union gone
  BY <1>1, <1>5
<1> QED
  BY <1>3, <1>4, <1>6, RecordStep, <1>1

\* An event is emitted.
LEMMA EmitStep ==
    ASSUME FeedInv, NEW p \in Pods, NEW e \in pending[p], Emit(p, e)
    PROVE  FeedInv'
<1>1. /\ FeedTypes /\ published \in 0 .. Events /\ e \in 1 .. published /\ e \notin emitted
      /\ emitted \subseteq 1 .. published
  BY DEF FeedInv, FeedTypes
<1>2. PICK late : late = IF \E f \in emitted : f > e THEN {e} ELSE {}
  OBVIOUS
<1>3. /\ pending' = [pending EXCEPT ![p] = @ \ {e}] /\ emitted' = emitted \union {e}
      /\ UNCHANGED <<published, stream, buffer, up, failures>>
  BY DEF Emit
<1>4. clients' = [c \in Clients |->
           LET client == [clients[c] EXCEPT !.excused = @ \union late] IN
           IF client.pod = p \/ (up /\ client.pod # NoPod) THEN Shows(client, e, CursorOf(p, e))
           ELSE IF client.pod # NoPod THEN [client EXCEPT !.told = @ \union {e}]
           ELSE client]
  BY <1>2 DEF Emit
<1>5. ASSUME NEW c \in Clients PROVE clients'[c] \in Client /\ ClientFits(clients[c])'
  <2>1. PICK x : x = clients[c]
    OBVIOUS
  <2>2. x \in Client /\ ClientFits(x)
    BY <2>1 DEF FeedInv, FeedTypes
  <2>3. Emitting(e, late, x)
    BY <1>1, <1>2, <1>3, <2>2 DEF Emitting
  <2>4. PICK client : client = [x EXCEPT !.excused = @ \union late]
    OBVIOUS
  <2>5. client.pod = x.pod
    BY <2>2, <2>4 DEF Client
  <2>6. PICK y : y = clients'[c]
    OBVIOUS
  <2>7. y = IF x.pod = p \/ (up /\ x.pod # NoPod) THEN Shows(client, e, CursorOf(p, e))
            ELSE IF x.pod # NoPod THEN [client EXCEPT !.told = @ \union {e}]
            ELSE client
    BY <1>4, <2>1, <2>4, <2>5, <2>6
  <2>8. CASE x.pod = p \/ (up /\ x.pod # NoPod)
    <3>1. PICK cursor : cursor = CursorOf(p, e)
      OBVIOUS
    <3>2. cursor \in Cursor /\ cursor.event = e /\ cursor # NoCursor
      BY <1>1, <3>1 DEF CursorOf, Cursor, NoCursor
    <3>3. x.pod # NoPod
      BY <2>8, FeedAssumption
    <3>4. y = Shows([x EXCEPT !.excused = @ \union late], e, cursor)
      BY <2>4, <2>7, <2>8, <3>1
    <3> QED
      BY <2>3, <2>6, <3>2, <3>3, <3>4, EmittedToShow, BecomesFit
  <2>9. CASE ~(x.pod = p \/ (up /\ x.pod # NoPod))
    <3>1. PICK told \in SUBSET {e} : told = IF x.pod # NoPod THEN {e} ELSE {}
      OBVIOUS
    <3>2. y = [x EXCEPT !.excused = @ \union late, !.told = @ \union told]
      BY <2>2, <2>4, <2>7, <2>9, <3>1 DEF Client
    <3>3. x.pod # NoPod => told = {e}
      BY <3>1
    <3>4. y \in Client /\ ClientFits(y)'
      BY <2>3, <3>2, <3>3, EmittedToOthers
    <3> QED
      BY <2>6, <3>4, BecomesFit
  <2> QED
    BY <2>8, <2>9
<1>6. clients' \in [Clients -> Client]
  BY <1>4, <1>5
<1>7. /\ pending' \in [Pods -> SUBSET (1 .. published)]
      /\ \A q \in Pods : pending'[q] \subseteq pending[q] /\ e \notin pending'[q]
  BY <1>3 DEF FeedInv, FeedTypes, PendingFits
<1>8. FeedTypes'
  BY <1>1, <1>3, <1>6, <1>7 DEF FeedTypes
<1>9. PendingFits'
  BY <1>7 DEF FeedInv, PendingFits
<1>10. WarnedFits'
  <2>1. ASSUME NEW c \in Clients PROVE clients'[c].pod = clients[c].pod /\ clients[c].told \subseteq clients'[c].told
    BY <1>1, <1>4 DEF FeedTypes, Client, Shows
  <2> QED
    BY <1>3, <2>1 DEF FeedInv, WarnedFits
<1> QED
  BY <1>5, <1>8, <1>9, <1>10 DEF FeedInv

\* markDegraded
LEMMA RedisFailsStep ==
    ASSUME FeedInv, RedisFails
    PROVE  FeedInv'
<1>1. /\ FeedTypes /\ 1 .. published \in SUBSET (1 .. Events) /\ Quiet
      /\ UNCHANGED <<buffer, pending>> /\ up' = FALSE /\ failures' \in 0 .. MaxFailures
  BY FeedAssumption, FailuresCount DEF FeedInv, FeedTypes, RedisFails, Quiet
<1>2. ASSUME NEW c \in Clients PROVE clients'[c] \in Client /\ ClientFits(clients[c])'
  <2>1. PICK x : x = clients[c]
    OBVIOUS
  <2>2. PICK y : y = clients'[c]
    OBVIOUS
  <2>3. x \in Client /\ ClientFits(x)
    BY <2>1 DEF FeedInv, FeedTypes
  <2>4. PICK told : told = 1 .. published
    OBVIOUS
  <2>5. y = x \/ y = [x EXCEPT !.told = @ \union told]
    BY <2>1, <2>2, <2>4 DEF RedisFails, Refetches
  <2>6. y \in Client /\ ClientFits(y)
    BY <1>1, <2>3, <2>4, <2>5, KnowsMore
  <2> QED
    BY <1>1, <2>2, <2>6, FitsInQuiet, BecomesFit
<1>3. clients' \in [Clients -> Client]
  BY <1>2 DEF RedisFails
<1>4. FeedTypes'
  BY <1>1, <1>3 DEF FeedTypes, Quiet
<1>5. WarnedFits'
  <2>1. ASSUME NEW c \in Clients, clients'[c].pod # NoPod PROVE 1 .. published \subseteq clients'[c].told
    BY <1>1, <2>1 DEF FeedTypes, RedisFails, Refetches, Client
  <2> QED
    BY <1>1, <2>1 DEF FeedTypes, WarnedFits, Quiet
<1> QED
  BY <1>1, <1>2, <1>4, <1>5 DEF FeedInv, PendingFits

\* A pod restarts: its clients lose their connection.
LEMMA RestartStep ==
    ASSUME FeedInv, NEW p \in Pods, Restart(p)
    PROVE  FeedInv'
<1>1. /\ FeedTypes /\ Quiet /\ up' = up /\ failures' \in 0 .. MaxFailures
      /\ buffer' = [buffer EXCEPT ![p] = {}] /\ pending' = [pending EXCEPT ![p] = {}]
  BY FailuresCount DEF FeedInv, Restart, Quiet
<1>2. ASSUME NEW c \in Clients PROVE clients'[c] \in Client /\ ClientFits(clients[c])'
  <2>1. PICK x : x = clients[c]
    OBVIOUS
  <2>2. PICK y : y = clients'[c]
    OBVIOUS
  <2>3. x \in Client /\ ClientFits(x)
    BY <2>1 DEF FeedInv, FeedTypes
  <2>4. y = [x EXCEPT !.pod = IF x.pod = p THEN NoPod ELSE x.pod]
    BY <2>1, <2>2 DEF Restart
  <2>5. y = x \/ y = [x EXCEPT !.pod = NoPod]
    BY <2>3, <2>4 DEF Client
  <2>6. y \in Client /\ ClientFits(y)
    BY <2>3, <2>5, AwayFits
  <2> QED
    BY <1>1, <2>2, <2>6, FitsInQuiet, BecomesFit
<1>3. clients' \in [Clients -> Client]
  BY <1>2 DEF Restart
<1>4. /\ buffer' \in [Pods -> SUBSET (1 .. published)] /\ pending' \in [Pods -> SUBSET (1 .. published)]
      /\ \A q \in Pods : pending'[q] \subseteq pending[q]
  BY <1>1 DEF FeedTypes
<1>5. FeedTypes'
  BY <1>1, <1>3, <1>4 DEF FeedTypes, Quiet
<1>6. PendingFits'
  BY <1>4 DEF FeedInv, PendingFits
<1>7. WarnedFits'
  <2>1. ASSUME NEW c \in Clients
        PROVE  clients'[c].told = clients[c].told /\ clients'[c].pod \in {clients[c].pod, NoPod}
    BY <1>1 DEF FeedTypes, Restart, Client
  <2> QED
    BY <1>1, <2>1 DEF FeedInv, WarnedFits, Quiet
<1> QED
  BY <1>2, <1>5, <1>6, <1>7 DEF FeedInv

\* Redis comes back: those it was connected to had been told of what is lost.
LEMMA RedisRecoversStep ==
    ASSUME FeedInv, RedisRecovers
    PROVE  FeedInv'
<1>1. /\ FeedTypes /\ published \in Nat /\ Events \in Nat /\ UNCHANGED <<published, buffer, pending, emitted, failures>>
      /\ up' = TRUE /\ stream' \subseteq stream /\ stream \subseteq 1 .. Events
  BY FeedAssumption DEF FeedInv, FeedTypes, RedisRecovers
<1>2. ASSUME NEW c \in Clients PROVE clients'[c] \in Client /\ ClientFits(clients[c])'
  <2>1. PICK x : x = clients[c]
    OBVIOUS
  <2>2. PICK gone : gone = IF x.pod # NoPod THEN {} ELSE stream \ stream'
    OBVIOUS
  <2>3. PICK y : y = clients'[c]
    OBVIOUS
  <2>4. x \in Client /\ ClientFits(x) /\ (x.pod # NoPod => stream \subseteq x.told)
    BY <2>1 DEF FeedInv, FeedTypes, WarnedFits, RedisRecovers
  <2>5. y = [x EXCEPT !.excused = @ \union gone] /\ gone \subseteq 1 .. Events
    BY <1>1, <2>1, <2>2, <2>3, <2>4 DEF RedisRecovers, Client
  <2>6. y \in Client /\ ClientFits(y)'
    BY <1>1, <2>2, <2>4, <2>5, LostFits
  <2> QED
    BY <2>3, <2>6, BecomesFit
<1>3. clients' \in [Clients -> Client]
  BY <1>2 DEF RedisRecovers
<1>4. FeedTypes'
  BY <1>1, <1>3 DEF FeedTypes
<1> QED
  BY <1>1, <1>2, <1>4 DEF FeedInv, PendingFits, WarnedFits

\* Nothing happens to the feed.
LEMMA FeedStutters ==
    ASSUME FeedInv, UNCHANGED feedVars
    PROVE  FeedInv'
<1>1. FeedTypes /\ Quiet /\ UNCHANGED <<buffer, pending, clients, failures, up>>
  BY DEF FeedInv, FeedTypes, Quiet, feedVars
<1>2. ASSUME NEW c \in Clients PROVE ClientFits(clients[c])'
  <2>1. PICK x : x = clients[c]
    OBVIOUS
  <2>2. ClientFits(x)
    BY <2>1 DEF FeedInv
  <2> QED
    BY <1>1, <2>1, <2>2, FitsInQuiet, BecomesFit
<1>3. FeedTypes'
  BY <1>1 DEF FeedTypes, Quiet
<1> QED
  BY <1>1, <1>2, <1>3 DEF FeedInv, PendingFits, WarnedFits, Quiet

-----------------------------------------------------------------------------

\* Every step of the feed keeps the inductive invariant.
THEOREM FeedNextInv == FeedInv /\ [FeedNext]_feedVars => FeedInv'
<1> SUFFICES ASSUME FeedInv, [FeedNext]_feedVars PROVE FeedInv'
  OBVIOUS
<1>1. ASSUME NEW p \in Pods, AppendEvent(p) \/ AppendFails(p) \/ Restart(p) PROVE FeedInv'
  BY <1>1, AppendStep, AppendFailsStep, RestartStep
<1>2. ASSUME NEW p \in Pods, NEW e \in pending[p], Emit(p, e) PROVE FeedInv'
  BY <1>2, EmitStep
<1>3. ASSUME NEW p \in Pods, NEW c \in Clients, Connect(c, p) \/ AnswerReplay(c, p) PROVE FeedInv'
  BY <1>3, ConnectStep, AnswerReplayStep
<1>4. ASSUME NEW c \in Clients, Disconnect(c) \/ AnswerFails(c) \/ Recover(c) \/ RecoverFails(c) PROVE FeedInv'
  BY <1>4, DisconnectStep, AnswerFailsStep, RecoverStep, RecoverFailsStep
<1>5. CASE RedisFails
  BY <1>5, RedisFailsStep
<1>6. CASE RedisRecovers
  BY <1>6, RedisRecoversStep
<1>7. CASE UNCHANGED feedVars
  BY <1>7, FeedStutters
<1> QED
  BY <1>1, <1>2, <1>3, <1>4, <1>5, <1>6, <1>7 DEF FeedNext

\* The inductive invariant of the feed holds in every behaviour: a client that
\* goes on from a cursor knows what came before it.
THEOREM FeedInvariantHolds == FeedSpec => []FeedInv
<1> QED
  BY FeedInitInv, FeedNextInv, PTL DEF FeedSpec

\* A client that is connected and has recovered has shown every event since the
\* first it saw, was told to fetch it, or the event is one the feed may lose:
\* however pods, clients, the store and the requests are interleaved.
THEOREM GapsAreNoticed == FeedSpec => []FeedIsSound
<1>1. FeedInv => FeedIsSound
  BY DEF FeedInv, FeedIsSound, NoOtherGap, ClientFits, LiveFits, Known
<1> QED
  BY <1>1, FeedInvariantHolds, PTL

-----------------------------------------------------------------------------
(* The queue of the mobile app.                                            *)
(*                                                                         *)
(* A visit is unsettled while it may pay for its wish or has paid and the  *)
(* queue does not say so.  As long as nothing happened to a wish, at most  *)
(* one visit is unsettled about it (Alone, SameEntry), the entry it works  *)
(* on is the only one of the wish (OneEntry) and has no hash (HashFits),   *)
(* and once the wish is paid no visit can pay for it again (PaidFits).     *)
(* The rest says where the hash of a payment is, and which amount goes     *)
(* with it.                                                                *)

\* What explains a second payment, and a payment that is not noted.
PaidCause == {"unanswered", "stopped", "requeued", "overlap", "unread", "unsaved"}
LostCause == {"unanswered", "stopped", "removed", "overlap", "unsaved", "wiped"}
Overlaps(w) == Has(w, {"overlap"})
Changed(w) == Has(w, {"retouched"})

\* Payments and entries are about wishes the user has acted on.
WishesFit ==
    /\ \A id \in DOMAIN issued : issued[id] \in begun
    /\ \A p \in DOMAIN ledger : ledger[p].wish \in begun

EntryFits(id) ==
    LET e == queue[id] IN
    Present(id) =>
        /\ id \in DOMAIN issued /\ e.wish = issued[id] /\ e.amount \in Amounts
        /\ e.hash # 0 => /\ e.hash \in DOMAIN ledger /\ ledger[e.hash].wish = e.wish
                         /\ e.amount = ledger[e.hash].amount \/ Changed(e.wish)

VisitFits(v) ==
    LET x == visits[v] IN
    /\ IF x.at = "away" THEN x = Away ELSE x.wish \in begun
    /\ x.tx # 0 => /\ x.at \in {"posting", "stamp", "confirmed"} /\ x.held = 0
                   /\ x.tx \in DOMAIN ledger /\ ledger[x.tx].wish = x.wish
    /\ x.at \in {"posting", "stamp"} => x.tx # 0
    /\ x.at \in {"stamp", "confirmed"} => x.entry # 0
    /\ x.at = "confirmed" => Hash(v) # 0 /\ recorded[Hash(v)] # 0
    /\ x.entry # 0 => x.entry \in DOMAIN issued /\ issued[x.entry] = x.wish /\ x.kept \in Amounts
    /\ x.held # 0 => x.held \in DOMAIN ledger /\ ledger[x.held].wish = x.wish

\* The amount a visit goes by is that of its entry and of its payment.
KeptFits(v) ==
    LET x == visits[v] IN
    x.entry # 0 =>
        /\ Present(x.entry) => queue[x.entry].amount = x.kept \/ Changed(x.wish)
        /\ x.held # 0 => x.kept = ledger[x.held].amount \/ Changed(x.wish)
        /\ x.tx # 0 => x.kept = ledger[x.tx].amount \/ Changed(x.wish)

\* What a pass goes by is of an entry that was queued, and, when that was
\* paid, still has the hash, unless another screen was at it.
TodoFits(s) ==
    \A id \in Ids, amount \in Amounts, hash \in 1 .. MaxPayments : <<id, amount, hash>> \in syncs[s].todo =>
        /\ id \in DOMAIN issued /\ hash \in DOMAIN ledger /\ ledger[hash].wish = issued[id]
        /\ amount = ledger[hash].amount \/ Changed(issued[id])
        /\ Present(id) => queue[id].hash = hash \/ Overlaps(issued[id])

Alone ==
    \A u, v \in Visits :
        u # v /\ visits[u].wish = visits[v].wish /\ Unsettled(u) /\ Unsettled(v) => Overlaps(visits[v].wish)

SameEntry ==
    \A u, v \in Visits :
        u # v /\ visits[u].entry = visits[v].entry /\ visits[v].entry # 0 /\ Unsettled(v) => Overlaps(visits[v].wish)

\* The entry of a visit has the hash the visit knows, and when it is gone the
\* payment is recorded, or something happened.
HashFits(v) ==
    LET x == visits[v] IN
    x.entry # 0 =>
        IF Present(x.entry) THEN queue[x.entry].hash = x.held \/ Overlaps(x.wish)
        ELSE Has(x.wish, LostCause) \/ (x.held # 0 /\ recorded[x.held] # 0)

OneEntry ==
    /\ \A i, j \in Ids : i # j /\ Present(i) /\ Present(j) /\ queue[i].wish = queue[j].wish => Has(queue[i].wish, PaidCause)
    /\ \A v \in Visits, id \in Ids :
           Unsettled(v) /\ Present(id) /\ queue[id].wish = visits[v].wish /\ id # visits[v].entry
               => Has(visits[v].wish, PaidCause)

PaidFits ==
    \A p \in DOMAIN ledger : Has(ledger[p].wish, PaidCause) \/
        /\ \A q \in DOMAIN ledger : ledger[q].wish = ledger[p].wish => q = p
        /\ \A v \in Visits : visits[v].wish = ledger[p].wish /\ visits[v].at = "open" => visits[v].held # 0
        /\ \A id \in Ids : Present(id) /\ queue[id].wish = ledger[p].wish /\ queue[id].hash = 0 =>
               \E v \in Visits : Unsettled(v) /\ visits[v].entry = id

QueueInv ==
    /\ TypeOK /\ WishesFit
    /\ \A id \in Ids : EntryFits(id)
    /\ \A v \in Visits : VisitFits(v) /\ KeptFits(v) /\ HashFits(v)
    /\ \A s \in Hooks : TodoFits(s)
    /\ Alone /\ SameEntry /\ OneEntry /\ PaidFits
    /\ HashIsKept /\ NothingIsDropped /\ RecordedAsPaid

-----------------------------------------------------------------------------
(* Types *)

\* The fields of entries and visits have their types.
LEMMA QueueFields ==
    ASSUME TypeOK
    PROVE  /\ \A id \in Ids : /\ queue[id].wish \in Wish /\ queue[id].amount \in Nat /\ queue[id].hash \in 0 .. MaxPayments
                              /\ queue[id] \in Entry
           /\ \A v \in Visits : /\ visits[v] \in Visit /\ visits[v].wish \in Wish /\ visits[v].entry \in 0 .. MaxEntries
                                /\ visits[v].held \in 0 .. MaxPayments /\ visits[v].kept \in Nat
                                /\ visits[v].tx \in 0 .. MaxPayments
           /\ DOMAIN issued = 1 .. Len(issued) /\ Len(issued) \in Nat /\ DOMAIN issued \subseteq Ids
           /\ DOMAIN ledger = 1 .. Len(ledger) /\ Len(ledger) \in Nat /\ DOMAIN ledger \subseteq Payments
           /\ \A id \in DOMAIN issued : issued[id] \in Wishes
           /\ \A p \in DOMAIN ledger : ledger[p].wish \in Wishes /\ ledger[p].amount \in Amounts
<1>0. TypeOK
  OBVIOUS
<1> USE OfflineQueueAssumption DEF TypeOK
<1>1. \A id \in Ids : /\ queue[id].wish \in Wish /\ queue[id].amount \in Nat /\ queue[id].hash \in 0 .. MaxPayments
                      /\ queue[id] \in Entry
  BY DEF Entry
<1>2. \A v \in Visits : /\ visits[v] \in Visit /\ visits[v].wish \in Wish /\ visits[v].entry \in 0 .. MaxEntries
                        /\ visits[v].held \in 0 .. MaxPayments /\ visits[v].kept \in Nat
                        /\ visits[v].tx \in 0 .. MaxPayments
  BY DEF Visit
<1>3. DOMAIN issued = 1 .. Len(issued) /\ Len(issued) \in Nat /\ DOMAIN issued \subseteq Ids
  BY DEF Ids
<1>4. DOMAIN ledger = 1 .. Len(ledger) /\ Len(ledger) \in Nat /\ DOMAIN ledger \subseteq Payments
  BY DEF Payments
<1>5. /\ \A id \in DOMAIN issued : issued[id] \in Wishes
      /\ \A p \in DOMAIN ledger : ledger[p].wish \in Wishes /\ ledger[p].amount \in Amounts
  <2>1. issued \in Seq(Wishes) /\ ledger \in Seq([wish: Wishes, amount: Amounts])
    OBVIOUS
  <2>2. ASSUME NEW id \in DOMAIN issued PROVE issued[id] \in Wishes
    BY <2>1
  <2>3. ASSUME NEW p \in DOMAIN ledger PROVE ledger[p] \in [wish: Wishes, amount: Amounts]
    <3>1. PICK P : P = [wish: Wishes, amount: Amounts]
      OBVIOUS
    <3>2. ledger \in Seq(P)
      BY <2>1, <3>1
    <3>3. ledger[p] \in P
      BY <3>2
    <3> QED
      BY <3>1, <3>3
  <2> QED
    BY <2>2, <2>3
<1> QED
  BY <1>1, <1>2, <1>3, <1>4, <1>5

\* Nothing is queued and nothing is paid initially.
LEMMA QueueInitInv == Init => QueueInv
<1> SUFFICES ASSUME Init PROVE QueueInv
  OBVIOUS
<1> USE OfflineQueueAssumption DEF Init
<1>1. /\ NoEntry \in Entry /\ NoEntry.status = "none" /\ NoEntry.hash = 0
      /\ Away \in Visit /\ Away.at = "away" /\ Away.entry = 0 /\ Away.held = 0 /\ Away.tx = 0
      /\ NoSync \in Sync /\ NoSync.todo = {}
  BY DEF NoEntry, Entry, Wish, Away, Visit, NoSync, Sync
<1>2. /\ \A id \in Ids : queue[id] = NoEntry
      /\ \A v \in Visits : visits[v] = Away
      /\ \A s \in Hooks : syncs[s] = NoSync
      /\ DOMAIN issued = {} /\ DOMAIN ledger = {}
  OBVIOUS
<1>3. TypeOK
  BY <1>1 DEF TypeOK
<1>4. WishesFit /\ PaidFits /\ HashIsKept /\ NothingIsDropped /\ RecordedAsPaid
  BY <1>2 DEF WishesFit, PaidFits, HashIsKept, NothingIsDropped, RecordedAsPaid
<1>5. \A id \in Ids : EntryFits(id) /\ ~Present(id)
  BY <1>1, <1>2 DEF EntryFits, Present
<1>6. \A v \in Visits : VisitFits(v) /\ KeptFits(v) /\ HashFits(v) /\ ~Unsettled(v)
  BY <1>1, <1>2 DEF VisitFits, KeptFits, HashFits, Unsettled
<1>7. \A s \in Hooks : TodoFits(s)
  BY <1>1, <1>2 DEF TodoFits
<1> QED
  BY <1>3, <1>4, <1>5, <1>6, <1>7 DEF QueueInv, Alone, SameEntry, OneEntry

-----------------------------------------------------------------------------
(* Reading and saving the queue *)

\* The history grows, and failures are counted.
Noticed == causes \subseteq causes' /\ causes' \subseteq Wishes \X Cause /\ faults' \in 0 .. MaxFaults

\* An entry is as it was, or was not in a list that could not be read.
Stays(id) ==
    queue'[id] = queue[id] \/ (Present(id) /\ queue'[id] = NoEntry /\ <<queue[id].wish, "wiped">> \in causes')

\* What the backend records is of a payment, and is what was paid unless the
\* donation was changed.
Recording ==
    /\ recorded' \in [Payments -> Nat]
    /\ \A p \in Payments : (recorded[p] # 0 => recorded'[p] # 0) /\ (recorded'[p] # 0 => p \in DOMAIN ledger)
    /\ \A p \in DOMAIN ledger : recorded'[p] \in {0, ledger[p].amount} \/ Changed(ledger[p].wish)

\* A failure is counted.
LEMMA MishapIs ==
    ASSUME TypeOK, Mishap
    PROVE  faults' \in 0 .. MaxFaults
BY OfflineQueueAssumption DEF TypeOK, Mishap

\* What is saved is made of the queue, or of a list without entries.
LEMMA SavesIs ==
    ASSUME QueueInv, NEW list \in Reads, NEW result, NEW blame, blame \subseteq Wishes \X Cause,
           Saves(list, result, blame)
    PROVE  /\ Noticed /\ queue' = result /\ blame \subseteq causes' /\ list \in [Ids -> Entry]
           /\ \/ list = queue
              \/ /\ \A id \in Ids : list[id] = NoEntry
                 /\ \A id \in Ids : Present(id) => <<queue[id].wish, "wiped">> \in causes'
<1>0. TypeOK /\ causes \subseteq Wishes \X Cause /\ faults \in 0 .. MaxFaults /\ queue \in [Ids -> Entry]
  BY DEF QueueInv, TypeOK
<1>1. queue' = result /\ causes' = causes \union blame \union Wiped(list)
  BY DEF Saves
<1>2. ASSUME NEW id \in Ids, Present(id) PROVE queue[id].wish \in Wishes
  BY <1>0, <1>2, QueueFields DEF QueueInv, EntryFits
<1>3. Wiped(list) \subseteq Wishes \X Cause
  BY <1>2 DEF Wiped, Cause
<1>4. faults' \in 0 .. MaxFaults
  BY <1>0, OfflineQueueAssumption DEF Saves, Reads
<1>5. list = queue \/ list = [id \in Ids |-> NoEntry]
  BY DEF Reads
<1>6. NoEntry \in Entry
  BY OfflineQueueAssumption DEF NoEntry, Entry, Wish
<1>7. CASE list = queue
  BY <1>0, <1>1, <1>3, <1>4, <1>7 DEF Noticed
<1>8. CASE list = [id \in Ids |-> NoEntry]
  <2>1. \A id \in Ids : Present(id) => <<queue[id].wish, "wiped">> \in Wiped(list)
    BY <1>8 DEF Wiped
  <2> QED
    BY <1>0, <1>1, <1>3, <1>4, <1>6, <1>8, <2>1 DEF Noticed
<1> QED
  BY <1>5, <1>7, <1>8

\* What is still there has not changed; what is not is accounted for.
LEMMA StaysIs ==
    ASSUME QueueInv, NEW id \in Ids, Stays(id), causes \subseteq causes'
    PROVE  /\ Present(id)' => Present(id) /\ queue'[id] = queue[id]
           /\ Present(id) => id \in DOMAIN issued /\ queue[id].wish = issued[id]
           /\ Present(id) => Present(id)' \/ <<issued[id], "wiped">> \in causes'
           /\ \A p \in DOMAIN ledger : queue[id].hash = p => queue'[id].hash = p \/ <<ledger[p].wish, "wiped">> \in causes'
<1>1. TypeOK /\ EntryFits(id) /\ NoEntry.status = "none" /\ NoEntry.hash = 0
  BY DEF QueueInv, NoEntry
<1>2. Present(id) => id \in DOMAIN issued /\ queue[id].wish = issued[id]
  BY <1>1 DEF EntryFits
<1>3. ASSUME NEW p \in DOMAIN ledger, queue[id].hash = p, Present(id) PROVE ledger[p].wish = queue[id].wish
  BY <1>1, <1>3, QueueFields DEF EntryFits, Payments
<1>4. CASE queue'[id] = queue[id]
  BY <1>2, <1>4 DEF Present
<1>5. CASE Present(id) /\ queue'[id] = NoEntry /\ <<queue[id].wish, "wiped">> \in causes'
  BY <1>1, <1>2, <1>3, <1>5 DEF Present
<1> QED
  BY <1>2, <1>4, <1>5 DEF Stays

\* A visit that has not changed goes by the amount of its entry.
LEMMA KeptStays ==
    ASSUME QueueInv, NEW u \in Visits, visits'[u] = visits[u], visits[u].entry # 0 => Stays(visits[u].entry),
           ledger' = ledger, causes \subseteq causes'
    PROVE  KeptFits(u)'
<1>1. KeptFits(u) /\ (visits[u].entry # 0 => visits[u].entry \in Ids)
  BY QueueFields DEF QueueInv, VisitFits
<1>2. visits[u].entry # 0 /\ Present(visits[u].entry)' => Present(visits[u].entry) /\ queue'[visits[u].entry] = queue[visits[u].entry]
  BY <1>1, StaysIs
<1> QED
  BY <1>1, <1>2 DEF KeptFits, Present, Changed, Has

\* It knows the hash its entry has, or what has become of the entry.
LEMMA HashStays ==
    ASSUME QueueInv, NEW u \in Visits, visits'[u] = visits[u], visits[u].entry # 0 => Stays(visits[u].entry),
           Recording, causes \subseteq causes'
    PROVE  HashFits(u)'
<1>1. /\ HashFits(u) /\ (visits[u].held # 0 => visits[u].held \in Payments)
      /\ visits[u].entry # 0 => visits[u].entry \in Ids /\ issued[visits[u].entry] = visits[u].wish
  BY QueueFields DEF QueueInv, VisitFits, Payments
<1>2. visits[u].held # 0 /\ recorded[visits[u].held] # 0 => recorded'[visits[u].held] # 0
  BY <1>1 DEF Recording
<1>3. CASE visits[u].entry = 0
  BY <1>3 DEF HashFits
<1>4. CASE visits[u].entry # 0 /\ Present(visits[u].entry)'
  <2>1. Present(visits[u].entry) /\ queue'[visits[u].entry] = queue[visits[u].entry]
    BY <1>1, <1>4, StaysIs
  <2> QED
    BY <1>1, <1>4, <2>1 DEF HashFits, Overlaps, Has, Present
<1>5. CASE visits[u].entry # 0 /\ ~Present(visits[u].entry)'
  <2>1. Present(visits[u].entry) => <<visits[u].wish, "wiped">> \in causes'
    BY <1>1, <1>5, StaysIs
  <2>2. CASE Present(visits[u].entry)
    BY <1>5, <2>1, <2>2 DEF HashFits, Has, LostCause, Present
  <2>3. CASE ~Present(visits[u].entry)
    BY <1>1, <1>2, <1>5, <2>3 DEF HashFits, Has, Present
  <2> QED
    BY <2>2, <2>3
<1> QED
  BY <1>3, <1>4, <1>5

\* The hash of a payment is where it was, or gone for a reason.
LEMMA HashStaysKept ==
    ASSUME QueueInv, ledger' = ledger, causes \subseteq causes',
           \A p \in DOMAIN ledger : recorded[p] # 0 => recorded'[p] # 0,
           \A id \in Ids, p \in DOMAIN ledger : queue[id].hash = p =>
               queue'[id].hash = p \/ recorded'[p] # 0 \/ \E c \in LostCause : <<ledger[p].wish, c>> \in causes',
           \A u \in Visits, p \in DOMAIN ledger : p \in {visits[u].tx, visits[u].held} =>
               p \in {visits'[u].tx, visits'[u].held} \/ recorded'[p] # 0 \/ \E c \in LostCause : <<ledger[p].wish, c>> \in causes'
    PROVE  HashIsKept'
<1>1. ASSUME NEW p \in DOMAIN ledger
      PROVE  \/ recorded'[p] # 0 \/ \E i \in Ids : queue'[i].hash = p
             \/ \E u \in Visits : p \in {visits'[u].tx, visits'[u].held}
             \/ \E c \in LostCause : <<ledger[p].wish, c>> \in causes'
  <2>1. \/ recorded[p] # 0 \/ \E i \in Ids : queue[i].hash = p
        \/ \E u \in Visits : p \in {visits[u].tx, visits[u].held}
        \/ \E c \in LostCause : <<ledger[p].wish, c>> \in causes
    BY DEF QueueInv, HashIsKept, Has, LostCause
  <2> QED
    BY <2>1
<1> QED
  BY <1>1 DEF HashIsKept, Has, LostCause

\* What is left of the passes fits as it did.
LEMMA TodoStays ==
    ASSUME QueueInv,
           \A id \in DOMAIN issued : /\ id \in DOMAIN issued' /\ issued'[id] = issued[id]
                                     /\ queue'[id].status # "none" => Present(id) /\ queue'[id] = queue[id],
           ledger' = ledger, causes \subseteq causes', \A s \in Hooks : syncs'[s].todo \subseteq syncs[s].todo
    PROVE  \A s \in Hooks : TodoFits(s)'
<1>1. ASSUME NEW s \in Hooks, NEW id \in Ids, NEW amount \in Amounts, NEW hash \in 1 .. MaxPayments,
             <<id, amount, hash>> \in syncs'[s].todo
      PROVE  /\ id \in DOMAIN issued' /\ hash \in DOMAIN ledger /\ ledger[hash].wish = issued'[id]
             /\ amount = ledger[hash].amount \/ <<issued'[id], "retouched">> \in causes'
             /\ queue'[id].status # "none" => queue'[id].hash = hash \/ <<issued'[id], "overlap">> \in causes'
  <2>1. /\ id \in DOMAIN issued /\ hash \in DOMAIN ledger /\ ledger[hash].wish = issued[id]
        /\ amount = ledger[hash].amount \/ Changed(issued[id])
        /\ Present(id) => queue[id].hash = hash \/ Overlaps(issued[id])
    BY <1>1 DEF QueueInv, TodoFits
  <2>2. queue'[id].status # "none" => Present(id) /\ queue'[id] = queue[id]
    BY <2>1
  <2> QED
    BY <2>1, <2>2 DEF Changed, Overlaps, Has
<1> QED
  BY <1>1 DEF TodoFits, Present, Changed, Overlaps, Has

\* So it does when the queue is as it was.
LEMMA StillFit ==
    ASSUME QueueInv, UNCHANGED <<queue, issued, ledger>>, causes \subseteq causes',
           \A s \in Hooks : syncs'[s].todo \subseteq syncs[s].todo
    PROVE  \A s \in Hooks : TodoFits(s)'
BY TodoStays DEF Present

-----------------------------------------------------------------------------
(* The donate screen *)

\* A step that tells the backend nothing.
LEMMA NotRecording ==
    ASSUME QueueInv, recorded' = recorded
    PROVE  Recording
<1>1. /\ recorded \in [Payments -> Nat]
      /\ \A p \in Payments : recorded[p] # 0 => p \in DOMAIN ledger
      /\ \A p \in DOMAIN ledger : recorded[p] \in {0, ledger[p].amount} \/ Changed(ledger[p].wish)
  BY DEF QueueInv, TypeOK, RecordedAsPaid, Changed
<1> QED
  BY <1>1 DEF Recording

\* A visit that has been opened and has no hash.
LEMMA OpenVisit ==
    ASSUME QueueInv, NEW v \in Visits, visits[v].at = "open", visits[v].held = 0
    PROVE  /\ visits[v].wish \in Wishes /\ visits[v].wish \in begun /\ visits[v].tx = 0 /\ Unsettled(v)
           /\ \A p \in DOMAIN ledger : ledger[p].wish = visits[v].wish => Has(visits[v].wish, PaidCause)
           /\ \A u \in Visits : u # v /\ visits[u].wish = visits[v].wish /\ Unsettled(u) => Has(visits[v].wish, PaidCause)
           /\ \A amount \in Typed(v) : amount \in Amounts
<1>1. visits[v].wish \in begun /\ visits[v].tx = 0
  BY DEF QueueInv, VisitFits
<1>2. visits[v].wish \in Wishes
  BY <1>1 DEF QueueInv, TypeOK
<1>3. Unsettled(v)
  BY DEF Unsettled
<1>4. \A p \in DOMAIN ledger : ledger[p].wish = visits[v].wish => Has(visits[v].wish, PaidCause)
  BY DEF QueueInv, PaidFits
<1>5. \A u \in Visits : u # v /\ visits[u].wish = visits[v].wish /\ Unsettled(u) => Has(visits[v].wish, PaidCause)
  BY <1>3 DEF QueueInv, Alone, Overlaps, Has, PaidCause
<1>6. \A amount \in Typed(v) : amount \in Amounts
  BY <1>2, OfflineQueueAssumption DEF Typed
<1> QED
  BY <1>1, <1>2, <1>3, <1>4, <1>5, <1>6

\* A screen is opened for a wish nobody has acted on.
LEMMA OpenStep ==
    ASSUME QueueInv, NEW v \in Visits, NEW w \in Wishes, Open(v, w)
    PROVE  QueueInv'
<1>0. TypeOK /\ WishesFit
  BY DEF QueueInv
<1>1. /\ visits[v].at = "away" /\ w \notin begun /\ begun' = begun \union {w}
      /\ UNCHANGED <<queue, issued, syncs, ledger, recorded, causes, faults>>
  BY DEF Open
<1>2. visits[v] = Away /\ visits[v].entry = 0 /\ visits[v].held = 0 /\ visits[v].tx = 0 /\ ~Unsettled(v)
  BY <1>1 DEF QueueInv, VisitFits, Away, Unsettled
<1>3. /\ visits'[v] \in Visit /\ visits'[v].at = "open" /\ visits'[v].wish = w
      /\ visits'[v].entry = 0 /\ visits'[v].held = 0 /\ visits'[v].tx = 0
      /\ \A u \in Visits : u # v => visits'[u] = visits[u]
      /\ visits' \in [Visits -> Visit]
  <2>1. PICK x : x = [Away EXCEPT !.at = "open", !.wish = w]
    OBVIOUS
  <2>2. /\ x \in Visit /\ x.at = "open" /\ x.wish = w /\ x.entry = 0 /\ x.held = 0 /\ x.tx = 0
    <3>1. x = [at |-> "open", wish |-> w, entry |-> 0, held |-> 0, kept |-> 0, tx |-> 0]
      BY <2>1 DEF Away
    <3> QED
      BY <3>1, OfflineQueueAssumption DEF Visit, Wish
  <2>3. visits' = [visits EXCEPT ![v] = x] /\ visits \in [Visits -> Visit]
    BY <1>0, <2>1 DEF Open, TypeOK
  <2> QED
    BY <2>2, <2>3
<1>4. TypeOK'
  BY <1>0, <1>1, <1>3 DEF TypeOK
<1>5. WishesFit'
  BY <1>0, <1>1 DEF WishesFit
<1>6. \A id \in Ids : EntryFits(id)'
  BY <1>1 DEF QueueInv, EntryFits, Present, Changed, Has
<1>7. \A u \in Visits : VisitFits(u)'
  BY <1>1, <1>3 DEF QueueInv, VisitFits, Hash
<1>8. \A u \in Visits : KeptFits(u)' /\ HashFits(u)'
  BY <1>1, <1>3 DEF QueueInv, KeptFits, HashFits, Present, Changed, Overlaps, Has
<1>9. \A s \in Hooks : TodoFits(s)'
  BY <1>1 DEF QueueInv, TodoFits, Present, Changed, Overlaps, Has
<1>10. \A u \in Visits : Unsettled(u) => Unsettled(u)' /\ visits'[u] = visits[u] /\ visits[u].wish \in begun
  BY <1>1, <1>2, <1>3 DEF QueueInv, VisitFits, Unsettled
<1>11. Alone' /\ SameEntry'
  BY <1>1, <1>3, <1>10 DEF QueueInv, Alone, SameEntry, Overlaps, Has, Unsettled
<1>12. \A id \in Ids : Present(id) => queue[id].wish \in begun
  BY <1>0 DEF QueueInv, EntryFits, WishesFit
<1>13. OneEntry'
  BY <1>1, <1>3, <1>12 DEF QueueInv, OneEntry, Unsettled, Has, Present
<1>14. PaidFits'
  BY <1>0, <1>1, <1>3, <1>10 DEF QueueInv, PaidFits, WishesFit, Has, Present
<1>15. HashIsKept' /\ NothingIsDropped' /\ RecordedAsPaid'
  BY <1>0, <1>1, <1>2, <1>3, QueueFields DEF QueueInv, HashIsKept, NothingIsDropped, RecordedAsPaid, Has, Present
<1> QED
  BY <1>4, <1>5, <1>6, <1>7, <1>8, <1>9, <1>11, <1>13, <1>14, <1>15 DEF QueueInv

\* A screen or a call begins about a wish the user has acted on: unless
\* something happened to the wish, none is unsettled about it, the entry it is
\* for is the only one, and the wish is not paid.
LEMMA ReopenedStep ==
    ASSUME QueueInv, NEW v \in Visits, visits[v].at = "away", NEW x \in Visit, visits' = [visits EXCEPT ![v] = x],
           x.at = "open", x.tx = 0, x.wish \in Wishes, x.wish \in begun, x.held # 0 => x.entry # 0,
           UNCHANGED <<queue, issued, syncs, ledger, recorded, begun>>, Noticed,
           VisitFits(v)', KeptFits(v)', HashFits(v)',
           \A u \in Visits : visits[u].wish = x.wish /\ Unsettled(u) => <<x.wish, "overlap">> \in causes',
           \A u \in Visits : u # v /\ x.entry # 0 /\ visits[u].entry = x.entry /\ (Unsettled(u) \/ x.held = 0)
                             => visits[u].wish = x.wish /\ <<x.wish, "overlap">> \in causes',
           x.held = 0 => \A i \in Ids : Present(i) /\ queue[i].wish = x.wish /\ i # x.entry
                                       => \E c \in PaidCause : <<x.wish, c>> \in causes',
           x.held = 0 => \A p \in DOMAIN ledger : ledger[p].wish = x.wish
                                       => \E c \in PaidCause : <<x.wish, c>> \in causes'
    PROVE  QueueInv'
<1>0. TypeOK /\ causes \subseteq causes'
  BY DEF QueueInv, Noticed
<1>1. /\ visits' \in [Visits -> Visit] /\ visits'[v] = x
      /\ \A u \in Visits : u # v => visits'[u] = visits[u]
  BY <1>0 DEF TypeOK
<1>2. visits[v].entry = 0 /\ visits[v].held = 0 /\ visits[v].tx = 0 /\ ~Unsettled(v)
  BY DEF QueueInv, VisitFits, Away, Unsettled
<1>3. TypeOK'
  BY <1>0, <1>1 DEF TypeOK, Noticed
<1>4. WishesFit'
  BY DEF QueueInv, WishesFit
<1>5. \A i \in Ids : EntryFits(i)'
  BY <1>0 DEF QueueInv, EntryFits, Present, Changed, Has
<1>6. \A i \in Ids : Stays(i)
  BY DEF Stays
<1>7. \A u \in Visits : visits[u].entry # 0 => visits[u].entry \in Ids
  BY <1>0, QueueFields DEF QueueInv, VisitFits
<1>8. \A u \in Visits : VisitFits(u)' /\ KeptFits(u)' /\ HashFits(u)'
  <2>1. ASSUME NEW u \in Visits, u # v PROVE VisitFits(u)' /\ KeptFits(u)' /\ HashFits(u)'
    <3>1. visits'[u] = visits[u] /\ Recording
      BY <1>1, <2>1, NotRecording
    <3>2. VisitFits(u)'
      BY <3>1 DEF QueueInv, VisitFits, Hash
    <3>3. KeptFits(u)' /\ HashFits(u)'
      BY <1>0, <1>6, <1>7, <3>1, KeptStays, HashStays
    <3> QED
      BY <3>2, <3>3
  <2> QED
    BY <2>1
<1>9. \A s \in Hooks : TodoFits(s)'
  BY <1>0, StillFit
<1>10. Alone'
  <2>1. ASSUME NEW u \in Visits, NEW t \in Visits, u # t, visits'[u].wish = visits'[t].wish, Unsettled(u)', Unsettled(t)'
        PROVE  <<visits'[t].wish, "overlap">> \in causes'
    <3>1. CASE u = v \/ t = v
      BY <1>1, <2>1, <3>1 DEF Unsettled
    <3>2. CASE u # v /\ t # v
      BY <1>0, <1>1, <2>1, <3>2 DEF QueueInv, Alone, Overlaps, Has, Unsettled
    <3> QED
      BY <3>1, <3>2
  <2> QED
    BY <2>1 DEF Alone, Overlaps, Has
<1>11. SameEntry'
  <2>1. ASSUME NEW u \in Visits, NEW t \in Visits, u # t, visits'[u].entry = visits'[t].entry, visits'[t].entry # 0, Unsettled(t)'
        PROVE  <<visits'[t].wish, "overlap">> \in causes'
    <3>1. CASE u = v
      BY <1>1, <2>1, <3>1 DEF Unsettled
    <3>2. CASE t = v
      BY <1>1, <2>1, <3>2 DEF Unsettled
    <3>3. CASE u # v /\ t # v
      BY <1>0, <1>1, <2>1, <3>3 DEF QueueInv, SameEntry, Overlaps, Has, Unsettled
    <3> QED
      BY <3>1, <3>2, <3>3
  <2> QED
    BY <2>1 DEF SameEntry, Overlaps, Has
<1>12. OneEntry'
  <2>1. ASSUME NEW u \in Visits, NEW i \in Ids, Unsettled(u)', Present(i), queue[i].wish = visits'[u].wish,
               i # visits'[u].entry
        PROVE  \E c \in PaidCause : <<visits'[u].wish, c>> \in causes'
    <3>1. CASE u = v
      BY <1>1, <2>1, <3>1 DEF Unsettled
    <3>2. CASE u # v
      BY <1>0, <1>1, <2>1, <3>2 DEF QueueInv, OneEntry, Unsettled, Has
    <3> QED
      BY <3>1, <3>2
  <2> QED
    BY <1>0, <2>1 DEF QueueInv, OneEntry, Has, Present
<1>13. PaidFits'
  <2>1. \A u \in Visits : Unsettled(u) => Unsettled(u)' /\ visits'[u] = visits[u]
    BY <1>1, <1>2 DEF Unsettled
  <2>2. ASSUME NEW p \in DOMAIN ledger, ~Has(ledger[p].wish, PaidCause)'
        PROVE  /\ ~Has(ledger[p].wish, PaidCause)
               /\ \A u \in Visits : visits'[u].wish = ledger[p].wish /\ visits'[u].at = "open" => visits'[u].held # 0
    <3>1. ~Has(ledger[p].wish, PaidCause)
      BY <1>0, <2>2 DEF Has
    <3>2. \A u \in Visits : visits[u].wish = ledger[p].wish /\ visits[u].at = "open" => visits[u].held # 0
      BY <3>1 DEF QueueInv, PaidFits
    <3>3. x.wish = ledger[p].wish => x.held # 0
      BY <2>2 DEF Has
    <3> QED
      BY <1>1, <3>1, <3>2, <3>3
  <2> QED
    BY <2>1, <2>2 DEF QueueInv, PaidFits, Present, Has
<1>14. HashIsKept'
  <2>1. \A u \in Visits, p \in DOMAIN ledger : p \in {visits[u].tx, visits[u].held} => u # v
    BY <1>0, <1>2, QueueFields
  <2> QED
    BY <1>0, <1>1, <2>1 DEF QueueInv, HashIsKept, Has
<1>15. NothingIsDropped' /\ RecordedAsPaid'
  BY <1>0 DEF QueueInv, NothingIsDropped, RecordedAsPaid, Has, Present
<1> QED
  BY <1>3, <1>4, <1>5, <1>8, <1>9, <1>10, <1>11, <1>12, <1>13, <1>14, <1>15 DEF QueueInv

\* What "overlap" is noted for.
LEMMA OverlappingIs ==
    ASSUME QueueInv, NEW w \in Wishes, NEW blame, blame \subseteq Wishes \X Cause,
           causes' = causes \union Overlapping(w) \union blame, faults' \in 0 .. MaxFaults
    PROVE  /\ Noticed /\ blame \subseteq causes'
           /\ \A u \in Visits : visits[u].wish = w /\ Unsettled(u) => <<w, "overlap">> \in causes'
<1>1. Overlapping(w) \subseteq Wishes \X Cause
  BY DEF Overlapping, Cause
<1> QED
  BY <1>1 DEF QueueInv, TypeOK, Noticed, Overlapping

\* An entry that is ready is of a wish, which is paid by another screen only
\* when that is unsettled or something happened.
LEMMA ReadyIs ==
    ASSUME QueueInv, NEW id \in Ids, queue[id].status = "ready", NEW w, w = queue[id].wish
    PROVE  /\ Present(id) /\ id \in DOMAIN issued /\ w = issued[id] /\ w \in Wishes /\ w \in begun /\ id # 0
           /\ queue[id].amount \in Amounts /\ queue[id].hash \in 0 .. MaxPayments
           /\ queue[id].hash # 0 => /\ queue[id].hash \in DOMAIN ledger /\ ledger[queue[id].hash].wish = w
                                    /\ queue[id].amount = ledger[queue[id].hash].amount \/ Changed(w)
           /\ \A u \in Visits : visits[u].entry = id => visits[u].wish = w
<1>1. TypeOK /\ EntryFits(id) /\ Present(id)
  BY DEF QueueInv, Present
<1> QED
  BY <1>1, QueueFields DEF EntryFits, QueueInv, WishesFit, VisitFits, Ids

\* A screen is opened for an entry.
LEMMA CompleteNowStep ==
    ASSUME QueueInv, NEW v \in Visits, NEW id \in Ids, CompleteNow(v, id)
    PROVE  QueueInv'
<1>1. PICK e : e = queue[id]
  OBVIOUS
<1>2. PICK w : w = e.wish
  OBVIOUS
<1>3. /\ visits[v].at = "away" /\ e.status = "ready" /\ causes' = causes \union Overlapping(w)
      /\ UNCHANGED <<queue, issued, syncs, ledger, recorded, begun, faults>>
  BY <1>1, <1>2 DEF CompleteNow
<1>4. /\ Present(id) /\ id \in DOMAIN issued /\ w = issued[id] /\ w \in Wishes /\ w \in begun /\ id # 0
      /\ e.amount \in Amounts /\ e.hash \in 0 .. MaxPayments
      /\ e.hash # 0 => /\ e.hash \in DOMAIN ledger /\ ledger[e.hash].wish = w
                       /\ e.amount = ledger[e.hash].amount \/ Changed(w)
      /\ \A u \in Visits : visits[u].entry = id => visits[u].wish = w
  BY <1>1, <1>2, <1>3, ReadyIs
<1>5. Noticed /\ \A u \in Visits : visits[u].wish = w /\ Unsettled(u) => <<w, "overlap">> \in causes'
  <2>1. PICK blame : blame = {}
    OBVIOUS
  <2>2. causes' = causes \union Overlapping(w) \union blame /\ blame \subseteq Wishes \X Cause /\ faults' \in 0 .. MaxFaults
    BY <1>3, <2>1 DEF QueueInv, TypeOK
  <2> QED
    BY <1>4, <2>2, OverlappingIs
<1>6. PICK x : x = [at |-> "open", wish |-> w, entry |-> id, held |-> e.hash, kept |-> e.amount, tx |-> 0]
  OBVIOUS
<1>7. /\ x \in Visit /\ x.at = "open" /\ x.wish = w /\ x.entry = id /\ x.held = e.hash /\ x.kept = e.amount /\ x.tx = 0
      /\ visits' = [visits EXCEPT ![v] = x]
  <2>1. w \in Wish /\ e.amount \in Nat
    BY <1>4, OfflineQueueAssumption DEF Wish
  <2>4. id \in 0 .. MaxEntries /\ 0 \in 0 .. MaxPayments
    BY OfflineQueueAssumption DEF Ids
  <2>2. x \in Visit
    BY <1>4, <1>6, <2>1, <2>4 DEF Visit
  <2>3. visits' = [visits EXCEPT ![v] = x]
    BY <1>1, <1>2, <1>6 DEF CompleteNow
  <2> QED
    BY <1>6, <2>2, <2>3
<1>8. visits'[v] = x
  BY <1>7 DEF QueueInv, TypeOK
<1>9. VisitFits(v)' /\ KeptFits(v)' /\ HashFits(v)'
  <2>1. VisitFits(v)'
    BY <1>3, <1>4, <1>7, <1>8 DEF VisitFits
  <2>2. KeptFits(v)'
    BY <1>1, <1>3, <1>4, <1>5, <1>7, <1>8 DEF KeptFits, Present, Changed, Has, Noticed
  <2>3. HashFits(v)'
    BY <1>1, <1>3, <1>4, <1>7, <1>8 DEF HashFits, Present
  <2> QED
    BY <2>1, <2>2, <2>3
<1>10. ASSUME NEW u \in Visits, u # v, visits[u].entry = id, Unsettled(u) \/ e.hash = 0
       PROVE  visits[u].wish = w /\ <<w, "overlap">> \in causes'
  <2>1. visits[u].wish = w /\ visits[u].at # "away" /\ HashFits(u)
    BY <1>4, <1>10 DEF QueueInv, VisitFits, Away
  <2>2. CASE Unsettled(u)
    BY <1>5, <2>1, <2>2
  <2>3. CASE ~Unsettled(u)
    BY <1>1, <1>4, <1>5, <1>10, <2>1, <2>3 DEF HashFits, Unsettled, Overlaps, Has, Noticed
  <2> QED
    BY <2>1, <2>2, <2>3
<1>11. \A i \in Ids : Present(i) /\ queue[i].wish = w /\ i # id => \E c \in PaidCause : <<w, c>> \in causes'
  BY <1>1, <1>2, <1>4, <1>5 DEF QueueInv, OneEntry, Has, Noticed
<1>12. ASSUME NEW p \in DOMAIN ledger, ledger[p].wish = w, e.hash = 0 PROVE \E c \in PaidCause : <<w, c>> \in causes'
  <2>1. CASE Has(w, PaidCause)
    BY <1>5, <2>1 DEF Has, Noticed
  <2>2. CASE ~Has(w, PaidCause)
    <3>1. PICK u \in Visits : Unsettled(u) /\ visits[u].entry = id
      BY <1>1, <1>2, <1>4, <1>12, <2>2 DEF QueueInv, PaidFits
    <3> QED
      BY <1>4, <1>5, <3>1 DEF PaidCause
  <2> QED
    BY <2>1, <2>2
<1> QED
  BY <1>3, <1>4, <1>5, <1>7, <1>9, <1>10, <1>11, <1>12, ReopenedStep

\* A screen is opened for an entry, and used without it.
LEMMA CompleteUnreadStep ==
    ASSUME QueueInv, NEW v \in Visits, NEW id \in Ids, CompleteUnread(v, id)
    PROVE  QueueInv'
<1>0. TypeOK
  BY DEF QueueInv
<1>1. PICK w : w = queue[id].wish
  OBVIOUS
<1>2. /\ visits[v].at = "away" /\ queue[id].status = "ready" /\ Mishap
      /\ causes' = causes \union Overlapping(w) \union {<<w, "unread">>}
      /\ UNCHANGED <<queue, issued, syncs, ledger, recorded, begun>>
  BY <1>1 DEF CompleteUnread
<1>3. w \in Wishes /\ w \in begun
  BY <1>1, <1>2, ReadyIs
<1>4. /\ Noticed /\ <<w, "unread">> \in causes'
      /\ \A u \in Visits : visits[u].wish = w /\ Unsettled(u) => <<w, "overlap">> \in causes'
  <2>1. {<<w, "unread">>} \subseteq Wishes \X Cause
    BY <1>3 DEF Cause
  <2>2. faults' \in 0 .. MaxFaults
    BY <1>0, <1>2, MishapIs
  <2> QED
    BY <1>2, <1>3, <2>1, <2>2, OverlappingIs
<1>5. PICK x : x = [Away EXCEPT !.at = "open", !.wish = w]
  OBVIOUS
<1>6. /\ x \in Visit /\ x.at = "open" /\ x.wish = w /\ x.entry = 0 /\ x.held = 0 /\ x.tx = 0
      /\ visits' = [visits EXCEPT ![v] = x]
  <2>1. x = [at |-> "open", wish |-> w, entry |-> 0, held |-> 0, kept |-> 0, tx |-> 0]
    BY <1>5 DEF Away
  <2>2. x \in Visit
    BY <1>3, <2>1, OfflineQueueAssumption DEF Visit, Wish
  <2>3. visits' = [visits EXCEPT ![v] = x]
    BY <1>1, <1>5 DEF CompleteUnread
  <2> QED
    BY <2>1, <2>2, <2>3
<1>7. visits'[v] = x
  BY <1>6 DEF QueueInv, TypeOK
<1>8. VisitFits(v)' /\ KeptFits(v)' /\ HashFits(v)'
  BY <1>2, <1>3, <1>6, <1>7 DEF VisitFits, KeptFits, HashFits
<1>9. \E c \in PaidCause : <<w, c>> \in causes'
  BY <1>4 DEF PaidCause
<1> QED
  BY <1>2, <1>3, <1>4, <1>6, <1>8, <1>9, ReopenedStep

\* A second call begins with what the screen shows.
LEMMA TapAgainStep ==
    ASSUME QueueInv, NEW v \in Visits, NEW t \in Visits, TapAgain(v, t)
    PROVE  QueueInv'
<1>0. TypeOK /\ VisitFits(v) /\ KeptFits(v) /\ HashFits(v)
  BY DEF QueueInv
<1>1. PICK w : w = visits[v].wish
  OBVIOUS
<1>2. PICK x : x = visits[v]
  OBVIOUS
<1>3. /\ x.at = "open" /\ x.held = 0 /\ visits[t].at = "away" /\ Mishap
      /\ causes' = causes \union Overlapping(w) /\ visits' = [visits EXCEPT ![t] = x]
      /\ UNCHANGED <<queue, issued, syncs, ledger, recorded, begun>>
  BY <1>1, <1>2 DEF TapAgain
<1>4. w \in Wishes /\ w \in begun /\ x.wish = w /\ x.tx = 0 /\ Unsettled(v) /\ x \in Visit
  BY <1>0, <1>1, <1>2, <1>3, OpenVisit DEF TypeOK
<1>5. /\ Noticed /\ \A u \in Visits : visits[u].wish = w /\ Unsettled(u) => <<w, "overlap">> \in causes'
  <2>1. PICK blame : blame = {}
    OBVIOUS
  <2>2. causes' = causes \union Overlapping(w) \union blame /\ blame \subseteq Wishes \X Cause /\ faults' \in 0 .. MaxFaults
    BY <1>0, <1>3, <2>1, MishapIs
  <2> QED
    BY <1>4, <2>2, OverlappingIs
<1>6. <<w, "overlap">> \in causes' /\ visits'[t] = visits[v]
  BY <1>0, <1>1, <1>2, <1>3, <1>4, <1>5 DEF TypeOK
<1>7. VisitFits(t)' /\ KeptFits(t)' /\ HashFits(t)'
  <2>1. VisitFits(t)'
    BY <1>0, <1>2, <1>3, <1>6 DEF VisitFits, Hash
  <2>2. KeptFits(t)'
    BY <1>0, <1>3, <1>5, <1>6 DEF KeptFits, Present, Changed, Has, Noticed
  <2>3. HashFits(t)'
    BY <1>0, <1>3, <1>5, <1>6 DEF HashFits, Present, Overlaps, Has, Noticed
  <2> QED
    BY <2>1, <2>2, <2>3
<1>8. \A u \in Visits : x.entry # 0 /\ visits[u].entry = x.entry => visits[u].wish = w
  BY <1>1, <1>2 DEF QueueInv, VisitFits
<1>9. \E c \in PaidCause : <<w, c>> \in causes'
  BY <1>6 DEF PaidCause
<1> QED
  BY <1>3, <1>4, <1>5, <1>6, <1>7, <1>8, <1>9, ReopenedStep

\* A screen is left: the hash it holds is in the entry, if there still is one.
LEMMA LeaveStep ==
    ASSUME QueueInv, NEW v \in Visits, Leave(v)
    PROVE  QueueInv'
<1>0. TypeOK
  BY DEF QueueInv
<1>1. visits[v].at = "open" /\ UNCHANGED <<queue, issued, syncs, ledger, recorded, begun, causes, faults>>
  BY DEF Leave
<1>2. /\ visits'[v] = Away /\ visits' \in [Visits -> Visit]
      /\ \A u \in Visits : u # v => visits'[u] = visits[u]
      /\ Away.at = "away" /\ Away.wish = "none" /\ Away.entry = 0 /\ Away.held = 0 /\ Away.tx = 0
  <2>1. Away \in Visit
    BY OfflineQueueAssumption DEF Away, Visit, Wish
  <2> QED
    BY <1>0, <2>1 DEF Leave, TypeOK, Away
<1>3. TypeOK'
  BY <1>0, <1>1, <1>2 DEF TypeOK
<1>4. WishesFit'
  BY <1>1 DEF QueueInv, WishesFit
<1>5. \A i \in Ids : EntryFits(i)'
  BY <1>1 DEF QueueInv, EntryFits, Present, Changed, Has
<1>6. \A u \in Visits : VisitFits(u)'
  BY <1>1, <1>2 DEF QueueInv, VisitFits, Hash
<1>7. \A u \in Visits : KeptFits(u)' /\ HashFits(u)'
  BY <1>1, <1>2 DEF QueueInv, KeptFits, HashFits, Present, Changed, Overlaps, Has
<1>8. \A s \in Hooks : TodoFits(s)'
  BY <1>1 DEF QueueInv, TodoFits, Present, Changed, Overlaps, Has
<1>9. Alone' /\ SameEntry'
  BY <1>1, <1>2 DEF QueueInv, Alone, SameEntry, Overlaps, Has, Unsettled
<1>10. OneEntry'
  BY <1>1, <1>2 DEF QueueInv, OneEntry, Unsettled, Has, Present
<1>11. PaidFits'
  <2>1. ASSUME NEW p \in DOMAIN ledger, ~Has(ledger[p].wish, PaidCause),
               NEW id \in Ids, Present(id), queue[id].wish = ledger[p].wish, queue[id].hash = 0
        PROVE  \E u \in Visits : u # v /\ Unsettled(u) /\ visits[u].entry = id
    <3>1. PICK u \in Visits : Unsettled(u) /\ visits[u].entry = id
      BY <2>1 DEF QueueInv, PaidFits
    <3>2. visits[u].wish = queue[id].wish /\ id # 0
      BY <2>1, <3>1 DEF QueueInv, VisitFits, EntryFits, Away, Ids
    <3> QED
      BY <1>1, <2>1, <3>1, <3>2 DEF QueueInv, PaidFits, Unsettled
  <2>2. \A u \in Visits : u # v /\ Unsettled(u) => Unsettled(u)' /\ visits'[u] = visits[u]
    BY <1>2 DEF Unsettled
  <2> QED
    BY <1>1, <1>2, <2>1, <2>2 DEF QueueInv, PaidFits, Present, Has
<1>12. HashIsKept'
  <2>1. ASSUME NEW p \in DOMAIN ledger, p \in {visits[v].tx, visits[v].held}
        PROVE  \/ recorded[p] # 0 \/ \E id \in Ids : queue[id].hash = p
               \/ Has(ledger[p].wish, {"unanswered", "stopped", "removed", "overlap", "unsaved", "wiped"})
    <3>1. p = visits[v].held /\ p # 0 /\ visits[v].entry \in Ids /\ ledger[p].wish = visits[v].wish
      BY <1>0, <1>1, <2>1, QueueFields DEF QueueInv, VisitFits, TypeOK, Ids
    <3>2. HashFits(v) /\ visits[v].entry # 0
      BY <3>1 DEF QueueInv, Ids
    <3> QED
      BY <3>1, <3>2 DEF HashFits, Overlaps, Has, LostCause
  <2> QED
    BY <1>1, <1>2, <2>1 DEF QueueInv, HashIsKept, Has
<1>13. NothingIsDropped' /\ RecordedAsPaid'
  BY <1>1 DEF QueueInv, NothingIsDropped, RecordedAsPaid, Has, Present
<1> QED
  BY <1>3, <1>4, <1>5, <1>6, <1>7, <1>8, <1>9, <1>10, <1>11, <1>12, <1>13 DEF QueueInv

\* A donation that is queued gets the next id.
Queued(w, amount, n) ==
    /\ n \in Ids /\ n \notin DOMAIN issued /\ ~Present(n) /\ queue[n].hash = 0
    /\ issued' \in Seq(Wishes) /\ Len(issued') <= MaxEntries /\ Len(issued') = n
    /\ DOMAIN issued' = DOMAIN issued \union {n} /\ issued'[n] = w
    /\ \A id \in DOMAIN issued : issued'[id] = issued[id]
    /\ queue' \in [Ids -> Entry]
    /\ queue'[n].status # "none" /\ queue'[n].wish = w /\ queue'[n].amount = amount /\ queue'[n].hash = 0
    /\ \A id \in Ids : id # n => Stays(id)
    /\ \A id \in Ids : (id > Len(issued') => queue'[id] = NoEntry) /\ (queue'[id].status = "none" => queue'[id] = NoEntry)

\* That is what enqueueDonation does, whatever list it has read.
LEMMA EnqueueIs ==
    ASSUME QueueInv, NEW list \in Reads, NEW w \in Wishes, NEW amount \in Amounts,
           NEW blame, blame \subseteq Wishes \X Cause, EnqueueDonation(list, w, amount, blame), NEW n, n = Len(issued) + 1
    PROVE  Queued(w, amount, n) /\ Noticed /\ blame \subseteq causes'
<1>0. TypeOK
  BY DEF QueueInv
<1>1. /\ Len(issued) < MaxEntries /\ Len(issued) \in Nat /\ DOMAIN issued = 1 .. Len(issued)
      /\ issued \in Seq(Wishes) /\ issued' = Append(issued, w)
  BY <1>0 DEF EnqueueDonation, TypeOK
<1>2. n \in Ids /\ n \notin DOMAIN issued
  BY <1>1, OfflineQueueAssumption DEF Ids
<1>3. ~Present(n) /\ queue[n].hash = 0 /\ \A id \in Ids : id > n => queue[id] = NoEntry
  BY <1>0, <1>1, <1>2 DEF TypeOK, Present, NoEntry, Ids
<1>4. /\ issued' \in Seq(Wishes) /\ Len(issued') <= MaxEntries /\ Len(issued') = n
      /\ DOMAIN issued' = DOMAIN issued \union {n} /\ issued'[n] = w
      /\ \A id \in DOMAIN issued : issued'[id] = issued[id]
  BY <1>1, OfflineQueueAssumption
<1>5. PICK e : e = [status |-> "pending", wish |-> w, amount |-> amount, hash |-> 0]
  OBVIOUS
<1>6. e \in Entry /\ e.status = "pending" /\ e.wish = w /\ e.amount = amount /\ e.hash = 0
  BY <1>5, OfflineQueueAssumption DEF Entry, Wish
<1>7. PICK result : result = [list EXCEPT ![n] = e]
  OBVIOUS
<1>8. Saves(list, result, blame)
  BY <1>5, <1>7 DEF EnqueueDonation
<1>9. /\ Noticed /\ blame \subseteq causes' /\ queue' = [list EXCEPT ![n] = e] /\ list \in [Ids -> Entry]
      /\ \/ list = queue
         \/ /\ \A id \in Ids : list[id] = NoEntry
            /\ \A id \in Ids : Present(id) => <<queue[id].wish, "wiped">> \in causes'
  BY <1>7, <1>8, SavesIs
<1>10. /\ queue' \in [Ids -> Entry] /\ queue'[n] = e
       /\ \A id \in Ids : id # n => queue'[id] = list[id]
  BY <1>2, <1>6, <1>9
<1>11. ASSUME NEW id \in Ids, id # n PROVE Stays(id)
  <2>1. ~Present(id) => queue[id] = NoEntry
    BY <1>0 DEF TypeOK, Present
  <2> QED
    BY <1>9, <1>10, <1>11, <2>1 DEF Stays
<1>12. ASSUME NEW id \in Ids
       PROVE  (id > Len(issued') => queue'[id] = NoEntry) /\ (queue'[id].status = "none" => queue'[id] = NoEntry)
  <2>1. CASE id = n
    BY <1>4, <1>6, <1>10, <2>1 DEF Ids
  <2>2. CASE id # n
    <3>1. queue[id].status = "none" => queue[id] = NoEntry
      BY <1>0 DEF TypeOK
    <3> QED
      BY <1>3, <1>4, <1>9, <1>10, <2>2, <3>1
  <2> QED
    BY <2>1, <2>2
<1> QED
  BY <1>2, <1>3, <1>4, <1>6, <1>9, <1>10, <1>11, <1>12 DEF Queued, Present

\* A donation is saved for later.
LEMMA DonateOfflineStep ==
    ASSUME QueueInv, NEW v \in Visits, NEW amount \in Amounts, DonateOffline(v, amount)
    PROVE  QueueInv'
<1>0. TypeOK /\ visits[v].at = "open" /\ visits[v].held = 0
  BY DEF QueueInv, DonateOffline
<1>1. PICK w : w = visits[v].wish
  OBVIOUS
<1>2. PICK n : n = Len(issued) + 1
  OBVIOUS
<1>3. /\ w \in Wishes /\ w \in begun /\ visits[v].tx = 0 /\ Unsettled(v)
      /\ \A p \in DOMAIN ledger : ledger[p].wish = w => Has(w, PaidCause)
      /\ \A u \in Visits : u # v /\ visits[u].wish = w /\ Unsettled(u) => Has(w, PaidCause)
  BY <1>0, <1>1, OpenVisit
<1>4. UNCHANGED <<syncs, ledger, recorded, begun>>
  BY DEF DonateOffline
<1>5. Queued(w, amount, n) /\ Noticed /\ causes \subseteq causes' /\ (visits[v].entry # 0 => <<w, "requeued">> \in causes')
  <2>1. PICK blame : blame = IF visits[v].entry # 0 THEN {<<w, "requeued">>} ELSE {}
    OBVIOUS
  <2>2. PICK list \in Reads : EnqueueDonation(list, w, amount, blame)
    BY <1>1, <2>1 DEF DonateOffline
  <2>3. blame \subseteq Wishes \X Cause
    BY <1>3, <2>1 DEF Cause
  <2>4. Queued(w, amount, n) /\ Noticed /\ blame \subseteq causes'
    BY <1>2, <1>3, <2>2, <2>3, EnqueueIs
  <2> QED
    BY <2>1, <2>4 DEF Noticed
<1>6. /\ visits'[v] = Away /\ visits' \in [Visits -> Visit]
      /\ \A u \in Visits : u # v => visits'[u] = visits[u]
      /\ Away.at = "away" /\ Away.wish = "none" /\ Away.entry = 0 /\ Away.held = 0 /\ Away.tx = 0
  <2>1. Away \in Visit
    BY OfflineQueueAssumption DEF Away, Visit, Wish
  <2> QED
    BY <1>0, <2>1 DEF DonateOffline, TypeOK, Away
<1>7. TypeOK'
  BY <1>0, <1>4, <1>5, <1>6 DEF TypeOK, Queued, Noticed
<1>8. WishesFit'
  BY <1>3, <1>4, <1>5 DEF QueueInv, WishesFit, Queued
<1>11. /\ \A id \in Ids : id # n /\ queue'[id].status # "none" => Present(id) /\ queue'[id] = queue[id]
       /\ \A id \in DOMAIN issued : Stays(id) /\ issued'[id] = issued[id] /\ id \in DOMAIN issued' /\ id # n /\ id \in Ids
       /\ \A u \in Visits : visits[u].entry # 0 => Stays(visits[u].entry) /\ visits[u].entry \in DOMAIN issued
  <2>1. \A id \in Ids : id # n => Stays(id)
    BY <1>5 DEF Queued
  <2>2. \A id \in Ids : id # n /\ queue'[id].status # "none" => Present(id) /\ queue'[id] = queue[id]
    BY <1>5, <2>1, StaysIs DEF Present
  <2>3. \A id \in DOMAIN issued : issued'[id] = issued[id] /\ id \in DOMAIN issued' /\ id # n /\ id \in Ids
    BY <1>0, <1>5, QueueFields DEF Queued
  <2> QED
    BY <2>1, <2>2, <2>3 DEF QueueInv, VisitFits
<1>9. \A i \in Ids : EntryFits(i)'
  <2>1. ASSUME NEW i \in Ids, i # n PROVE EntryFits(i)'
    BY <1>4, <1>5, <1>11, <2>1 DEF QueueInv, EntryFits, Present, Changed, Has, Queued
  <2>2. EntryFits(n)'
    BY <1>5 DEF EntryFits, Queued
  <2> QED
    BY <2>1, <2>2
<1>10. \A u \in Visits : VisitFits(u)'
  BY <1>4, <1>5, <1>6 DEF QueueInv, VisitFits, Hash, Queued
<1>12. \A u \in Visits : KeptFits(u)' /\ HashFits(u)'
  <2>1. KeptFits(v)' /\ HashFits(v)'
    BY <1>6 DEF KeptFits, HashFits
  <2>2. Recording
    BY <1>4, NotRecording
  <2>3. ASSUME NEW u \in Visits, u # v PROVE KeptFits(u)' /\ HashFits(u)'
    BY <1>4, <1>5, <1>6, <1>11, <2>2, <2>3, KeptStays, HashStays
  <2> QED
    BY <2>1, <2>3
<1>13. \A s \in Hooks : TodoFits(s)'
  BY <1>4, <1>5, <1>11, TodoStays
<1>14. Alone' /\ SameEntry'
  BY <1>5, <1>6 DEF QueueInv, Alone, SameEntry, Overlaps, Has, Unsettled
<1>15. OneEntry'
  <2>1. ASSUME NEW j \in Ids, Present(j), queue[j].wish = w PROVE \E c \in PaidCause : <<w, c>> \in causes'
    <3>1. CASE j = visits[v].entry
      BY <1>5, <3>1 DEF PaidCause, Ids
    <3>2. CASE j # visits[v].entry
      BY <1>1, <1>3, <1>5, <2>1, <3>2 DEF QueueInv, OneEntry, Has
    <3> QED
      BY <3>1, <3>2
  <2>2. ASSUME NEW i \in Ids, NEW j \in Ids, i # j, Present(i)', Present(j)', (queue[i].wish = queue[j].wish)'
        PROVE  Has(queue[i].wish, PaidCause)'
    <3>1. CASE i # n /\ j # n
      <4>1. Present(i) /\ Present(j) /\ queue[i].wish = queue[j].wish /\ queue'[i].wish = queue[i].wish
        BY <1>11, <2>2, <3>1 DEF Present
      <4> QED
        BY <1>5, <2>2, <4>1 DEF QueueInv, OneEntry, Has
    <3>2. CASE i = n
      <4>1. Present(j) /\ queue[j].wish = w /\ queue'[i].wish = w
        BY <1>5, <1>11, <2>2, <3>2 DEF Present, Queued
      <4> QED
        BY <2>1, <4>1 DEF Has
    <3>3. CASE j = n
      <4>1. Present(i) /\ queue[i].wish = w /\ queue'[i].wish = w
        BY <1>5, <1>11, <2>2, <3>3 DEF Present, Queued
      <4> QED
        BY <2>1, <4>1 DEF Has
    <3> QED
      BY <3>1, <3>2, <3>3
  <2>3. ASSUME NEW u \in Visits, NEW i \in Ids, Unsettled(u)', Present(i)', (queue[i].wish = visits[u].wish)',
               i # visits'[u].entry
        PROVE  Has(visits[u].wish, PaidCause)'
    <3>1. u # v /\ visits'[u] = visits[u] /\ Unsettled(u)
      BY <1>6, <2>3 DEF Unsettled
    <3>2. CASE i = n
      BY <1>3, <1>5, <2>3, <3>1, <3>2 DEF Has, Queued
    <3>3. CASE i # n
      <4>1. Present(i) /\ queue[i].wish = visits[u].wish /\ i # visits[u].entry
        BY <1>11, <2>3, <3>1, <3>3 DEF Present
      <4> QED
        BY <1>5, <3>1, <4>1 DEF QueueInv, OneEntry, Has
    <3> QED
      BY <3>2, <3>3
  <2> QED
    BY <2>2, <2>3 DEF OneEntry
<1>16. PaidFits'
  <2>1. ASSUME NEW p \in DOMAIN ledger, ~Has(ledger[p].wish, PaidCause)'
        PROVE  ~Has(ledger[p].wish, PaidCause) /\ ledger[p].wish # w
    BY <1>3, <1>4, <1>5, <2>1 DEF Has
  <2>2. ASSUME NEW p \in DOMAIN ledger, ~Has(ledger[p].wish, PaidCause), ledger[p].wish # w,
               NEW id \in Ids, Present(id)', queue'[id].wish = ledger[p].wish, queue'[id].hash = 0
        PROVE  \E u \in Visits : Unsettled(u)' /\ visits'[u].entry = id
    <3>1. id # n /\ Present(id) /\ queue'[id] = queue[id]
      BY <1>3, <1>5, <1>11, <2>2 DEF Present, Queued
    <3>2. PICK u \in Visits : Unsettled(u) /\ visits[u].entry = id
      BY <2>2, <3>1 DEF QueueInv, PaidFits
    <3>3. visits[u].wish = queue[id].wish
      BY <3>1, <3>2 DEF QueueInv, VisitFits, EntryFits, Away, Ids
    <3>4. u # v
      BY <1>1, <2>2, <3>1, <3>3
    <3> QED
      BY <1>6, <3>2, <3>4 DEF Unsettled
  <2>3. ASSUME NEW p \in DOMAIN ledger, ~Has(ledger[p].wish, PaidCause)
        PROVE  /\ \A q \in DOMAIN ledger : ledger[q].wish = ledger[p].wish => q = p
               /\ \A u \in Visits : visits'[u].wish = ledger[p].wish /\ visits'[u].at = "open" => visits'[u].held # 0
    BY <1>6, <2>3 DEF QueueInv, PaidFits
  <2> QED
    BY <1>4, <2>1, <2>2, <2>3 DEF PaidFits, Has
<1>17. HashIsKept'
  <2>1. \A u \in Visits, p \in DOMAIN ledger : p \in {visits[u].tx, visits[u].held} => u # v
    BY <1>0, <1>3, QueueFields
  <2>2. ASSUME NEW id \in Ids, NEW p \in DOMAIN ledger, queue[id].hash = p
        PROVE  queue'[id].hash = p \/ \E c \in LostCause : <<ledger[p].wish, c>> \in causes'
    <3>1. id # n
      BY <1>0, <1>5, <2>2, QueueFields DEF Queued
    <3> QED
      BY <1>5, <2>2, <3>1, StaysIs DEF Queued, LostCause
  <2>3. \A u \in Visits, p \in DOMAIN ledger : p \in {visits[u].tx, visits[u].held} => p \in {visits'[u].tx, visits'[u].held}
    BY <1>6, <2>1
  <2> QED
    BY <1>4, <1>5, <2>2, <2>3, HashStaysKept
<1>18. NothingIsDropped'
  <2>1. ASSUME NEW id \in DOMAIN issued, ~Present(id)
        PROVE  \/ \E p \in DOMAIN ledger : ledger[p].wish = issued[id] /\ recorded[p] # 0
               \/ \E c \in {"removed", "wiped"} : <<issued[id], c>> \in causes'
    BY <1>5, <2>1 DEF QueueInv, NothingIsDropped, Has
  <2>2. ASSUME NEW id \in DOMAIN issued, Present(id) PROVE Present(id)' \/ <<issued[id], "wiped">> \in causes'
    BY <1>5, <1>11, <2>2, StaysIs
  <2>3. Present(n)'
    BY <1>5 DEF Present, Queued
  <2>4. DOMAIN issued' = DOMAIN issued \union {n} /\ \A id \in DOMAIN issued : issued'[id] = issued[id]
    BY <1>5 DEF Queued
  <2> QED
    BY <1>4, <2>1, <2>2, <2>3, <2>4 DEF NothingIsDropped, Has
<1>19. RecordedAsPaid'
  BY <1>4, <1>5 DEF QueueInv, RecordedAsPaid, Has
<1> QED
  BY <1>7, <1>8, <1>9, <1>10, <1>12, <1>13, <1>14, <1>15, <1>16, <1>17, <1>18, <1>19 DEF QueueInv

\* What a payment adds to the ledger.
Accepted(w, amount, q) ==
    /\ q \in Payments /\ q \notin DOMAIN ledger /\ recorded[q] = 0
    /\ ledger' \in Seq([wish: Wishes, amount: Amounts]) /\ Len(ledger') <= MaxPayments
    /\ DOMAIN ledger' = DOMAIN ledger \union {q} /\ ledger'[q].wish = w /\ ledger'[q].amount = amount
    /\ \A p \in DOMAIN ledger : ledger'[p] = ledger[p]

\* A payment gets the next hash.
LEMMA PaidIs ==
    ASSUME TypeOK, NEW v \in Visits, visits[v].wish \in Wishes, NEW amount \in Amounts,
           Len(ledger) < MaxPayments, ledger' = Paid(v, amount), NEW q, q = Len(ledger) + 1
    PROVE  Accepted(visits[v].wish, amount, q)
<1>1. PICK P : P = [wish: Wishes, amount: Amounts]
  OBVIOUS
<1>2. PICK x : x = [wish |-> visits[v].wish, amount |-> amount]
  OBVIOUS
<1>3. x \in P /\ x.wish = visits[v].wish /\ x.amount = amount
  BY <1>1, <1>2
<1>4. Len(ledger) \in Nat /\ DOMAIN ledger = 1 .. Len(ledger) /\ ledger \in Seq(P) /\ ledger' = Append(ledger, x)
  BY <1>1, <1>2 DEF TypeOK, Paid
<1>5. /\ ledger' \in Seq(P) /\ Len(ledger') <= MaxPayments /\ DOMAIN ledger' = DOMAIN ledger \union {q}
      /\ ledger'[q] = x /\ \A p \in DOMAIN ledger : ledger'[p] = ledger[p]
  BY <1>3, <1>4, OfflineQueueAssumption
<1>6. q \in Payments /\ q \notin DOMAIN ledger
  BY <1>4, OfflineQueueAssumption DEF Payments
<1>7. recorded[q] = 0
  BY <1>6 DEF TypeOK
<1> QED
  BY <1>1, <1>3, <1>5, <1>6, <1>7 DEF Accepted

\* A payment is made, by a screen that has no hash and keeps the new one, or
\* whose submission is not answered.
LEMMA PayStep ==
    ASSUME QueueInv, NEW v \in Visits, NEW amount \in Amounts, MayPay(v, amount),
           NEW w, w = visits[v].wish, NEW q, q = Len(ledger) + 1, ledger' = Paid(v, amount),
           causes \subseteq causes', causes' \subseteq causes \union {<<w, "unanswered">>, <<w, "retouched">>},
           faults' \in 0 .. MaxFaults, UNCHANGED <<queue, issued, syncs, recorded, begun>>,
           \/ visits' = visits /\ <<w, "unanswered">> \in causes'
           \/ /\ visits' = [visits EXCEPT ![v] = [@ EXCEPT !.at = "posting", !.tx = q]]
              /\ visits[v].entry # 0 /\ amount # visits[v].kept => <<w, "retouched">> \in causes'
    PROVE  QueueInv'
<1>0. TypeOK /\ visits[v].at = "open" /\ visits[v].held = 0 /\ Len(ledger) < MaxPayments
  BY DEF QueueInv, MayPay
<1>1. /\ w \in Wishes /\ w \in begun /\ visits[v].tx = 0 /\ Unsettled(v)
      /\ \A p \in DOMAIN ledger : ledger[p].wish = w => Has(w, PaidCause)
      /\ \A u \in Visits : u # v /\ visits[u].wish = w /\ Unsettled(u) => Has(w, PaidCause)
  BY <1>0, OpenVisit
<1>2. Accepted(w, amount, q)
  BY <1>0, <1>1, PaidIs
<1>3. /\ visits' \in [Visits -> Visit]
      /\ \A u \in Visits : u # v => visits'[u] = visits[u]
      /\ visits'[v].wish = w /\ visits'[v].entry = visits[v].entry /\ visits'[v].held = 0 /\ visits'[v].kept = visits[v].kept
      /\ \/ visits'[v] = visits[v] /\ <<w, "unanswered">> \in causes'
         \/ visits'[v].at = "posting" /\ visits'[v].tx = q /\ (visits[v].entry # 0 /\ amount # visits[v].kept => <<w, "retouched">> \in causes')
  <2>0. visits \in [Visits -> Visit] /\ q \in 0 .. MaxPayments
    BY <1>0, <1>2, OfflineQueueAssumption DEF TypeOK, Accepted, Payments
  <2>1. PICK x : x = [visits[v] EXCEPT !.at = "posting", !.tx = q]
    OBVIOUS
  <2>2. x \in Visit /\ x.at = "posting" /\ x.tx = q /\ x.wish = w /\ x.entry = visits[v].entry /\ x.held = 0 /\ x.kept = visits[v].kept
    <3>1. visits[v] \in Visit /\ visits[v].wish = w /\ visits[v].held = 0
      BY <1>0, <2>0
    <3> QED
      BY <2>0, <2>1, <3>1 DEF Visit
  <2>3. CASE visits' = visits /\ <<w, "unanswered">> \in causes'
    BY <1>0, <2>0, <2>3
  <2>4. CASE /\ visits' = [visits EXCEPT ![v] = [@ EXCEPT !.at = "posting", !.tx = q]]
             /\ visits[v].entry # 0 /\ amount # visits[v].kept => <<w, "retouched">> \in causes'
    <3>1. visits' = [visits EXCEPT ![v] = x]
      BY <2>1, <2>4
    <3>2. visits'[v] = x /\ visits' \in [Visits -> Visit] /\ \A u \in Visits : u # v => visits'[u] = visits[u]
      BY <2>0, <2>2, <3>1
    <3> QED
      BY <2>2, <2>4, <3>2
  <2> QED
    BY <2>3, <2>4
<1>4. TypeOK'
  <2>1. causes' \subseteq Wishes \X Cause
    BY <1>0, <1>1 DEF TypeOK, Cause
  <2>2. \A p \in Payments : recorded[p] # 0 => p \in DOMAIN ledger'
    BY <1>0, <1>2 DEF TypeOK, Accepted
  <2>3. \A u \in Visits : visits'[u].held # 0 => visits'[u].entry # 0
    BY <1>0, <1>3 DEF TypeOK
  <2> QED
    BY <1>0, <1>2, <1>3, <2>1, <2>2, <2>3 DEF TypeOK, Accepted
<1>5. WishesFit'
  BY <1>1, <1>2 DEF QueueInv, WishesFit, Accepted
<1>6. \A i \in Ids : EntryFits(i)'
  BY <1>2 DEF QueueInv, EntryFits, Present, Changed, Has, Accepted
<1>7. \A u \in Visits : VisitFits(u)'
  <2>1. ASSUME NEW u \in Visits, visits'[u] = visits[u] PROVE VisitFits(u)'
    BY <1>2, <2>1 DEF QueueInv, VisitFits, Hash, Accepted
  <2>2. ASSUME visits'[v].at = "posting", visits'[v].tx = q PROVE VisitFits(v)'
    <3>1. /\ visits[v].entry # 0 => visits[v].entry \in DOMAIN issued /\ issued[visits[v].entry] = w /\ visits[v].kept \in Amounts
          /\ q # 0 /\ q \in DOMAIN ledger' /\ ledger'[q].wish = w
      BY <1>0, <1>2, OfflineQueueAssumption DEF QueueInv, VisitFits, Accepted, Payments
    <3> QED
      BY <1>1, <1>3, <2>2, <3>1 DEF VisitFits
  <2> QED
    BY <1>3, <2>1, <2>2
<1>8. \A u \in Visits : KeptFits(u)'
  <2>1. ASSUME NEW u \in Visits, visits'[u] = visits[u] PROVE KeptFits(u)'
    <3>1. /\ visits[u].tx # 0 => visits[u].tx \in DOMAIN ledger
          /\ visits[u].held # 0 => visits[u].held \in DOMAIN ledger
      BY DEF QueueInv, VisitFits
    <3>2. /\ visits[u].tx # 0 => ledger'[visits[u].tx] = ledger[visits[u].tx]
          /\ visits[u].held # 0 => ledger'[visits[u].held] = ledger[visits[u].held]
      BY <1>2, <3>1 DEF Accepted
    <3>3. KeptFits(u)
      BY DEF QueueInv
    <3> QED
      BY <2>1, <3>2, <3>3 DEF KeptFits, Present, Changed, Has
  <2>2. ASSUME visits'[v].at = "posting", visits'[v].tx = q, visits[v].entry # 0 /\ amount # visits[v].kept => <<w, "retouched">> \in causes'
        PROVE  KeptFits(v)'
    <3>1. visits[v].entry # 0 /\ Present(visits[v].entry) => queue[visits[v].entry].amount = visits[v].kept \/ Changed(w)
      BY DEF QueueInv, KeptFits
    <3>2. Changed(w) => <<w, "retouched">> \in causes'
      BY DEF Changed, Has
    <3> QED
      BY <1>2, <1>3, <2>2, <3>1, <3>2 DEF KeptFits, Present, Changed, Has, Accepted
  <2> QED
    BY <1>3, <2>1, <2>2
<1>9. \A u \in Visits : HashFits(u)'
  <2>1. \A u \in Visits : visits'[u].entry = visits[u].entry /\ visits'[u].held = visits[u].held /\ visits'[u].wish = visits[u].wish
    BY <1>0, <1>3
  <2> QED
    BY <2>1 DEF QueueInv, HashFits, Present, Overlaps, Has
<1>10. \A s \in Hooks : TodoFits(s)'
  <2>1. ASSUME NEW s \in Hooks, NEW id \in Ids, NEW a \in Amounts, NEW hash \in 1 .. MaxPayments,
               <<id, a, hash>> \in syncs[s].todo
        PROVE  /\ id \in DOMAIN issued /\ hash \in DOMAIN ledger' /\ ledger'[hash].wish = issued[id]
               /\ a = ledger'[hash].amount \/ <<issued[id], "retouched">> \in causes'
               /\ Present(id) => queue[id].hash = hash \/ <<issued[id], "overlap">> \in causes'
    <3>1. /\ id \in DOMAIN issued /\ hash \in DOMAIN ledger /\ ledger[hash].wish = issued[id]
          /\ a = ledger[hash].amount \/ Changed(issued[id])
          /\ Present(id) => queue[id].hash = hash \/ Overlaps(issued[id])
      BY <2>1 DEF QueueInv, TodoFits
    <3> QED
      BY <1>2, <3>1 DEF Changed, Overlaps, Has, Accepted
  <2> QED
    BY <2>1 DEF TodoFits, Present, Changed, Overlaps, Has
<1>11. \A u \in Visits : /\ visits'[u].wish = visits[u].wish /\ visits'[u].entry = visits[u].entry
                         /\ Unsettled(u)' <=> Unsettled(u)
  BY <1>0, <1>3 DEF Unsettled
<1>12. Alone'
  BY <1>11 DEF QueueInv, Alone, Overlaps, Has
<1>13. SameEntry'
  BY <1>11 DEF QueueInv, SameEntry, Overlaps, Has
<1>14. OneEntry'
  BY <1>11 DEF QueueInv, OneEntry, Has, Present
<1>15. PaidFits'
  <2>1. ASSUME NEW p \in DOMAIN ledger, \A c \in PaidCause : <<ledger[p].wish, c>> \notin causes'
        PROVE  /\ ledger[p].wish # w
               /\ \A r \in DOMAIN ledger : ledger[r].wish = ledger[p].wish => r = p
               /\ \A u \in Visits : visits'[u].wish = ledger[p].wish /\ visits'[u].at = "open" => visits'[u].held # 0
               /\ \A id \in Ids : Present(id) /\ queue[id].wish = ledger[p].wish /\ queue[id].hash = 0 =>
                       \E u \in Visits : Unsettled(u)' /\ visits'[u].entry = id
    <3>1. ~Has(ledger[p].wish, PaidCause)
      BY <2>1 DEF Has
    <3>2. ledger[p].wish # w
      BY <1>1, <3>1
    <3> QED
      BY <1>3, <1>11, <3>1, <3>2 DEF QueueInv, PaidFits
  <2>2. ASSUME \A c \in PaidCause : <<w, c>> \notin causes'
        PROVE  /\ \A r \in DOMAIN ledger : ledger[r].wish # w
               /\ \A u \in Visits : visits'[u].wish = w => visits'[u].at # "open" \/ visits'[u].held # 0
               /\ \A id \in Ids : Present(id) /\ queue[id].wish = w /\ queue[id].hash = 0 =>
                       \E u \in Visits : Unsettled(u)' /\ visits'[u].entry = id
    <3>1. ~Has(w, PaidCause) /\ <<w, "unanswered">> \notin causes'
      BY <2>2 DEF Has, PaidCause
    <3>2. visits'[v].at = "posting"
      BY <1>3, <3>1
    <3>3. \A u \in Visits : visits'[u].wish = w => visits'[u].at # "open" \/ visits'[u].held # 0
      <4>1. ASSUME NEW u \in Visits, u # v, visits'[u].wish = w, visits'[u].at = "open", visits'[u].held = 0 PROVE FALSE
        BY <1>1, <1>3, <3>1, <4>1 DEF Unsettled
      <4> QED
        BY <3>2, <4>1
    <3>4. ASSUME NEW id \in Ids, Present(id), queue[id].wish = w PROVE Unsettled(v)' /\ visits'[v].entry = id
      BY <1>1, <1>11, <3>1, <3>4 DEF QueueInv, OneEntry
    <3> QED
      BY <1>1, <3>1, <3>3, <3>4
  <2>3. ASSUME NEW p \in DOMAIN ledger', \A c \in PaidCause : <<ledger'[p].wish, c>> \notin causes'
        PROVE  /\ \A r \in DOMAIN ledger' : ledger'[r].wish = ledger'[p].wish => r = p
               /\ \A u \in Visits : visits'[u].wish = ledger'[p].wish /\ visits'[u].at = "open" => visits'[u].held # 0
               /\ \A id \in Ids : Present(id) /\ queue[id].wish = ledger'[p].wish /\ queue[id].hash = 0 =>
                       \E u \in Visits : Unsettled(u)' /\ visits'[u].entry = id
    <3>1. CASE p \in DOMAIN ledger
      BY <1>2, <2>1, <2>3, <3>1 DEF Accepted
    <3>2. CASE p = q
      BY <1>2, <2>2, <2>3, <3>2 DEF Accepted
    <3> QED
      BY <1>2, <3>1, <3>2 DEF Accepted
  <2> QED
    BY <2>3 DEF PaidFits, Has, Present
<1>16. HashIsKept'
  <2>1. ASSUME NEW p \in DOMAIN ledger
        PROVE  \/ recorded[p] # 0 \/ \E id \in Ids : queue[id].hash = p
               \/ \E u \in Visits : p \in {visits'[u].tx, visits'[u].held}
               \/ \E c \in {"unanswered", "stopped", "removed", "overlap", "unsaved", "wiped"} : <<ledger'[p].wish, c>> \in causes'
    <3>1. \/ recorded[p] # 0 \/ \E id \in Ids : queue[id].hash = p
          \/ \E u \in Visits : p \in {visits[u].tx, visits[u].held}
          \/ \E c \in {"unanswered", "stopped", "removed", "overlap", "unsaved", "wiped"} : <<ledger[p].wish, c>> \in causes
      BY DEF QueueInv, HashIsKept, Has
    <3>2. p # 0
      BY <1>0, QueueFields
    <3> QED
      BY <1>0, <1>1, <1>2, <1>3, <3>1, <3>2 DEF Accepted
  <2>2. (\E u \in Visits : q \in {visits'[u].tx, visits'[u].held}) \/ <<ledger'[q].wish, "unanswered">> \in causes'
    BY <1>2, <1>3 DEF Accepted
  <2> QED
    BY <1>2, <2>1, <2>2 DEF HashIsKept, Has, Accepted
<1>17. NothingIsDropped'
  BY <1>2 DEF QueueInv, NothingIsDropped, Has, Present, Accepted
<1>18. RecordedAsPaid'
  BY <1>2 DEF QueueInv, RecordedAsPaid, Has, Accepted
<1> QED
  BY <1>4, <1>5, <1>6, <1>7, <1>8, <1>9, <1>10, <1>12, <1>13, <1>14, <1>15, <1>16, <1>17, <1>18 DEF QueueInv

\* A payment that is answered, and one that is not.
LEMMA DonateStep ==
    ASSUME QueueInv, NEW v \in Visits, NEW amount \in Amounts, Donate(v, amount) \/ DonateUnanswered(v, amount)
    PROVE  QueueInv'
<1>1. PICK w : w = visits[v].wish
  OBVIOUS
<1>2. PICK q : q = Len(ledger) + 1
  OBVIOUS
<1>3. TypeOK /\ faults \in 0 .. MaxFaults
  BY DEF QueueInv, TypeOK
<1>4. CASE Donate(v, amount)
  <2>1. /\ MayPay(v, amount) /\ ledger' = Paid(v, amount) /\ causes' = causes \union Retouched(v, amount)
        /\ visits' = [visits EXCEPT ![v] = [@ EXCEPT !.at = "posting", !.tx = q]]
        /\ UNCHANGED <<queue, issued, syncs, recorded, begun, faults>>
    BY <1>2, <1>4 DEF Donate
  <2>2. /\ Retouched(v, amount) \subseteq {<<w, "unanswered">>, <<w, "retouched">>}
        /\ visits[v].entry # 0 /\ amount # visits[v].kept => <<w, "retouched">> \in Retouched(v, amount)
    BY <1>1 DEF Retouched
  <2> QED
    BY <1>1, <1>2, <1>3, <2>1, <2>2, PayStep
<1>5. CASE DonateUnanswered(v, amount)
  <2>1. /\ MayPay(v, amount) /\ ledger' = Paid(v, amount)
        /\ causes' = causes \union {<<w, "unanswered">>} \union Retouched(v, amount)
        /\ Mishap /\ UNCHANGED <<queue, issued, visits, syncs, recorded, begun>>
    BY <1>1, <1>5 DEF DonateUnanswered
  <2>2. Retouched(v, amount) \subseteq {<<w, "unanswered">>, <<w, "retouched">>}
    BY <1>1 DEF Retouched
  <2>3. faults' \in 0 .. MaxFaults
    BY <1>3, <2>1, MishapIs
  <2> QED
    BY <1>1, <1>2, <2>1, <2>2, <2>3, PayStep
<1> QED
  BY <1>4, <1>5

-----------------------------------------------------------------------------
(* Confirmations *)

\* A confirmation with the amount of the payment, or a changed one.
LEMMA PostIs ==
    ASSUME QueueInv, NEW hash \in DOMAIN ledger, NEW amount \in Amounts,
           amount = ledger[hash].amount \/ Changed(ledger[hash].wish),
           recorded' = recorded \/ recorded' = [recorded EXCEPT ![hash] = amount]
    PROVE  Recording /\ (recorded' # recorded => recorded'[hash] # 0)
<1>1. /\ recorded \in [Payments -> Nat] /\ hash \in Payments /\ amount \in Nat /\ amount # 0
      /\ \A p \in Payments : recorded[p] # 0 => p \in DOMAIN ledger
      /\ \A p \in DOMAIN ledger : recorded[p] \in {0, ledger[p].amount} \/ Changed(ledger[p].wish)
      /\ DOMAIN ledger \subseteq Payments
  BY QueueFields, OfflineQueueAssumption DEF QueueInv, TypeOK, RecordedAsPaid, Changed
<1>2. CASE recorded' = recorded
  BY <1>1, <1>2 DEF Recording
<1>3. CASE recorded' = [recorded EXCEPT ![hash] = amount]
  <2>1. /\ recorded' \in [Payments -> Nat] /\ recorded'[hash] = amount
        /\ \A p \in Payments : p # hash => recorded'[p] = recorded[p]
    BY <1>1, <1>3
  <2> QED
    BY <1>1, <2>1 DEF Recording
<1> QED
  BY <1>2, <1>3

\* A screen confirms the payment it knows.
LEMMA ToldIs ==
    ASSUME QueueInv, NEW v \in Visits, Confirming(v)
    PROVE  /\ Hash(v) \in DOMAIN ledger /\ Hash(v) # 0 /\ ledger[Hash(v)].wish = visits[v].wish /\ visits[v].wish \in Wishes
           /\ Told(v) \in Amounts
           /\ Told(v) = ledger[Hash(v)].amount \/ Changed(ledger[Hash(v)].wish)
           /\ visits[v].at = "posting" => visits[v].held = 0 /\ visits[v].tx = Hash(v) /\ Told(v) = ledger[Hash(v)].amount
           /\ visits[v].at = "open" => visits[v].held = Hash(v) /\ visits[v].tx = 0 /\ visits[v].entry # 0
<1>0. TypeOK
  BY DEF QueueInv
<1>1. CASE visits[v].at = "posting"
  <2>1. visits[v].tx # 0 /\ visits[v].held = 0 /\ visits[v].tx \in DOMAIN ledger /\ ledger[visits[v].tx].wish = visits[v].wish
    BY <1>1 DEF QueueInv, VisitFits
  <2> QED
    BY <1>0, <1>1, <2>1, QueueFields DEF Hash, Told
<1>2. CASE visits[v].at = "open" /\ visits[v].held # 0
  <2>1. /\ visits[v].held \in DOMAIN ledger /\ ledger[visits[v].held].wish = visits[v].wish /\ visits[v].entry # 0
        /\ visits[v].tx = 0 /\ visits[v].kept \in Amounts
        /\ visits[v].kept = ledger[visits[v].held].amount \/ Changed(visits[v].wish)
    BY <1>0, <1>2 DEF QueueInv, VisitFits, KeptFits, TypeOK
  <2> QED
    BY <1>0, <1>2, <2>1, QueueFields DEF Hash, Told
<1> QED
  BY <1>1, <1>2 DEF Confirming

\* Nothing but what the backend has and what passes are to do changes.
LEMMA RecordingStep ==
    ASSUME QueueInv, Recording, UNCHANGED <<queue, issued, visits, ledger, begun, causes>>, faults' \in 0 .. MaxFaults,
           syncs' \in [Hooks -> Sync], \A s \in Hooks : TodoFits(s)'
    PROVE  QueueInv'
<1>0. TypeOK /\ DOMAIN ledger \subseteq Payments /\ \A v \in Visits : visits[v].held # 0 => visits[v].held \in Payments
  BY QueueFields DEF QueueInv, Payments
<1>1. TypeOK'
  BY <1>0 DEF TypeOK, Recording
<1>2. WishesFit' /\ Alone' /\ SameEntry' /\ OneEntry' /\ PaidFits'
  <2>1. WishesFit'
    BY DEF QueueInv, WishesFit
  <2>2. Alone' /\ SameEntry'
    BY DEF QueueInv, Alone, SameEntry, Overlaps, Unsettled, Has
  <2>3. OneEntry'
    BY DEF QueueInv, OneEntry, Unsettled, Has, Present
  <2>4. PaidFits'
    BY DEF QueueInv, PaidFits, Unsettled, Has, Present
  <2> QED
    BY <2>1, <2>2, <2>3, <2>4
<1>3. \A i \in Ids : EntryFits(i)'
  BY DEF QueueInv, EntryFits, Present, Changed, Has
<1>4. \A u \in Visits : VisitFits(u)'
  BY <1>0, QueueFields DEF QueueInv, VisitFits, Hash, Recording, Payments
<1>5. \A u \in Visits : KeptFits(u)'
  BY DEF QueueInv, KeptFits, Present, Changed, Has
<1>6. \A u \in Visits : HashFits(u)'
  BY <1>0 DEF QueueInv, HashFits, Present, Overlaps, Has, Recording
<1>7. HashIsKept' /\ NothingIsDropped'
  BY <1>0 DEF QueueInv, HashIsKept, NothingIsDropped, Present, Has, Recording
<1>8. RecordedAsPaid'
  BY DEF RecordedAsPaid, Recording, Changed, Has
<1> QED
  BY <1>1, <1>2, <1>3, <1>4, <1>5, <1>6, <1>7, <1>8 DEF QueueInv

\* A confirmation fails, with the payment recorded or not.
LEMMA PostFailsIs ==
    ASSUME QueueInv, NEW v \in Visits, Confirming(v), PostFails(Hash(v), Told(v))
    PROVE  Recording
<1>1. PICK h : h = Hash(v)
  OBVIOUS
<1>2. PICK a : a = Told(v)
  OBVIOUS
<1>3. /\ h \in DOMAIN ledger /\ a \in Amounts
      /\ a = ledger[h].amount \/ Changed(ledger[h].wish)
      /\ recorded' = recorded \/ recorded' = [recorded EXCEPT ![h] = a]
  BY <1>1, <1>2, ToldIs DEF PostFails, Post
<1> QED
  BY <1>3, PostIs

\* Such a failure at a screen that knew of the payment changes nothing else.
LEMMA ConfirmationFailsStep ==
    ASSUME QueueInv, NEW v \in Visits, ConfirmationFails(v)
    PROVE  QueueInv'
<1>1. /\ Confirming(v) /\ PostFails(Hash(v), Told(v))
      /\ UNCHANGED <<queue, issued, visits, syncs, ledger, begun, causes, faults>>
  BY DEF ConfirmationFails, Confirming
<1>2. Recording
  BY <1>1, PostFailsIs
<1>3. syncs' \in [Hooks -> Sync] /\ faults' \in 0 .. MaxFaults /\ \A s \in Hooks : TodoFits(s)'
  BY <1>1, StillFit DEF QueueInv, TypeOK
<1> QED
  BY <1>1, <1>2, <1>3, RecordingStep

\* A screen whose payment is confirmed is left, or has its entry to remove.
LEMMA ConfirmedStep ==
    ASSUME QueueInv, NEW v \in Visits, Confirmed(v)
    PROVE  QueueInv'
<1>0. TypeOK
  BY DEF QueueInv
<1>1. /\ Confirming(v) /\ recorded' = [recorded EXCEPT ![Hash(v)] = Told(v)]
      /\ UNCHANGED <<queue, issued, syncs, ledger, begun, causes, faults>>
  BY DEF Confirmed, Post
<1>2. PICK h : h = Hash(v)
  OBVIOUS
<1>3. /\ h \in DOMAIN ledger /\ h # 0 /\ ledger[h].wish = visits[v].wish
      /\ visits[v].at = "posting" => visits[v].held = 0 /\ visits[v].tx = h
      /\ visits[v].at = "open" => visits[v].held = h /\ visits[v].tx = 0 /\ visits[v].entry # 0
      /\ visits[v].at \in {"posting", "open"}
  BY <1>1, <1>2, ToldIs DEF Confirming
<1>4. Recording /\ recorded'[h] # 0
  <2>1. PICK a : a = Told(v)
    OBVIOUS
  <2>2. /\ a \in Amounts /\ (a = ledger[h].amount \/ Changed(ledger[h].wish))
        /\ recorded' = [recorded EXCEPT ![h] = a]
    BY <1>1, <1>2, <2>1, ToldIs
  <2>3. recorded \in [Payments -> Nat] /\ h \in Payments /\ a # 0
    BY <1>0, <1>3, <2>2, QueueFields, OfflineQueueAssumption DEF TypeOK
  <2> QED
    BY <1>3, <2>2, <2>3, PostIs
<1>5. /\ visits' \in [Visits -> Visit]
      /\ \A u \in Visits : u # v => visits'[u] = visits[u]
      /\ \/ visits[v].entry = 0 /\ visits'[v] = Away
         \/ /\ visits[v].entry # 0 /\ visits'[v].at = "confirmed" /\ visits'[v].wish = visits[v].wish
            /\ visits'[v].entry = visits[v].entry /\ visits'[v].held = visits[v].held
            /\ visits'[v].kept = visits[v].kept /\ visits'[v].tx = visits[v].tx
      /\ Away.at = "away" /\ Away.wish = "none" /\ Away.entry = 0 /\ Away.held = 0 /\ Away.tx = 0
  <2>0. visits \in [Visits -> Visit]
    BY <1>0 DEF TypeOK
  <2>1. PICK x : x = [visits[v] EXCEPT !.at = "confirmed"]
    OBVIOUS
  <2>2. /\ x \in Visit /\ x.at = "confirmed" /\ x.wish = visits[v].wish /\ x.entry = visits[v].entry
        /\ x.held = visits[v].held /\ x.kept = visits[v].kept /\ x.tx = visits[v].tx
    BY <2>0, <2>1 DEF Visit
  <2>3. Away \in Visit
    BY OfflineQueueAssumption DEF Away, Visit, Wish
  <2>4. visits' = [visits EXCEPT ![v] = IF visits[v].entry = 0 THEN Away ELSE x]
    BY <2>1 DEF Confirmed
  <2> QED
    BY <2>0, <2>2, <2>3, <2>4 DEF Away
<1>6. \A u \in Visits : visits'[u].held # 0 => visits'[u].held = visits[u].held
  BY <1>5
<1>7. TypeOK'
  BY <1>0, <1>1, <1>4, <1>5 DEF TypeOK, Recording
<1>8. WishesFit'
  BY <1>1 DEF QueueInv, WishesFit
<1>9. \A i \in Ids : EntryFits(i)'
  BY <1>1 DEF QueueInv, EntryFits, Present, Changed, Has
<1>10. \A u \in Visits : VisitFits(u)'
  <2>1. ASSUME NEW u \in Visits, u # v PROVE VisitFits(u)'
    BY <1>0, <1>1, <1>4, <1>5, <2>1, QueueFields DEF QueueInv, VisitFits, Hash, Recording, Payments
  <2>2. VisitFits(v)'
    <3>1. CASE visits'[v] = Away
      BY <1>5, <3>1 DEF VisitFits
    <3>2. CASE visits'[v] # Away
      <4>1. VisitFits(v)
        BY DEF QueueInv
      <4> QED
        BY <1>1, <1>2, <1>3, <1>4, <1>5, <3>2, <4>1 DEF VisitFits, Hash
    <3> QED
      BY <3>1, <3>2
  <2> QED
    BY <2>1, <2>2
<1>11. \A u \in Visits : KeptFits(u)'
  BY <1>1, <1>5 DEF QueueInv, KeptFits, Present, Changed, Has
<1>12. \A u \in Visits : HashFits(u)'
  <2>1. \A u \in Visits : visits[u].held # 0 => visits[u].held \in Payments
    BY <1>0, QueueFields DEF Payments
  <2> QED
    BY <1>1, <1>4, <1>5, <2>1 DEF QueueInv, HashFits, Present, Overlaps, Has, Recording
<1>13. \A u \in Visits : Unsettled(u)' => Unsettled(u) /\ visits'[u].wish = visits[u].wish /\ visits'[u].entry = visits[u].entry
  BY <1>3, <1>5 DEF Unsettled
<1>14. Alone' /\ SameEntry'
  BY <1>1, <1>5, <1>13 DEF QueueInv, Alone, SameEntry, Overlaps, Has
<1>15. OneEntry'
  BY <1>1, <1>13 DEF QueueInv, OneEntry, Has, Present
<1>16. PaidFits'
  <2>1. \A u \in Visits, id \in Ids : Unsettled(u) /\ visits[u].entry = id => Unsettled(u)' /\ visits'[u].entry = id
    BY <1>3, <1>5 DEF Unsettled, Ids
  <2>2. \A u \in Visits : visits'[u].at = "open" => visits'[u] = visits[u]
    BY <1>5
  <2> QED
    BY <1>1, <2>1, <2>2 DEF QueueInv, PaidFits, Has, Present
<1>17. HashIsKept'
  <2>1. \A u \in Visits, p \in DOMAIN ledger : p \in {visits[u].tx, visits[u].held} => p = h \/ p \in {visits'[u].tx, visits'[u].held}
    BY <1>0, <1>3, <1>5, QueueFields
  <2>2. \A p \in DOMAIN ledger : recorded[p] # 0 => recorded'[p] # 0
    BY <1>0, <1>4, QueueFields DEF Recording
  <2> QED
    BY <1>1, <1>4, <2>1, <2>2 DEF QueueInv, HashIsKept, Has
<1>18. NothingIsDropped'
  BY <1>0, <1>1, <1>4, QueueFields DEF QueueInv, NothingIsDropped, Present, Has, Recording
<1>19. RecordedAsPaid'
  BY <1>1, <1>4 DEF RecordedAsPaid, Recording, Changed, Has
<1>20. \A s \in Hooks : TodoFits(s)'
  BY <1>1, StillFit
<1> QED
  BY <1>7, <1>8, <1>9, <1>10, <1>11, <1>12, <1>14, <1>15, <1>16, <1>17, <1>18, <1>19, <1>20 DEF QueueInv

-----------------------------------------------------------------------------
(* Entries that leave the queue *)

\* Why an entry may be gone after a step.
Explained(id) ==
    \/ \E c \in {"removed", "wiped"} : <<issued[id], c>> \in causes'
    \/ /\ \E p \in DOMAIN ledger : ledger[p].wish = issued[id] /\ recorded'[p] # 0
       /\ \/ Overlaps(issued[id])
          \/ /\ queue[id].hash # 0 => recorded'[queue[id].hash] # 0
             /\ \A u \in Visits : visits[u].entry = id /\ visits'[u] = visits[u] => ~Unsettled(u)

Goes ==
    /\ queue' \in [Ids -> Entry]
    /\ \A id \in Ids : queue'[id] = queue[id] \/ (Present(id) /\ queue'[id] = NoEntry /\ Explained(id))

\* How a screen may end in a step that takes its entry away.
Settles(u) ==
    /\ ~Unsettled(u)' /\ VisitFits(u)' /\ KeptFits(u)' /\ HashFits(u)'
    /\ visits'[u].entry \in {0, visits[u].entry} /\ (visits'[u].held # 0 => visits'[u].entry # 0)
    /\ visits[u].entry # 0 => queue'[visits[u].entry].status = "none"
    /\ \A p \in DOMAIN ledger : p \in {visits[u].tx, visits[u].held} => recorded'[p] # 0 \/ p \in {visits'[u].tx, visits'[u].held}

\* Entries leave the queue for a reason, and a screen with them.
LEMMA GoneStep ==
    ASSUME QueueInv, Recording, Noticed, Goes, UNCHANGED <<issued, ledger, begun>>,
           visits' \in [Visits -> Visit], \A u \in Visits : visits'[u] = visits[u] \/ Settles(u),
           syncs' \in [Hooks -> Sync], \A s \in Hooks : syncs'[s].todo \subseteq syncs[s].todo
    PROVE  QueueInv'
<1>0. TypeOK /\ causes \subseteq causes' /\ NoEntry.status = "none" /\ NoEntry.hash = 0
  BY DEF QueueInv, Noticed, NoEntry
<1>1. /\ \A i \in Ids : queue'[i].status # "none" => Present(i) /\ queue'[i] = queue[i]
      /\ DOMAIN ledger \subseteq Payments /\ DOMAIN issued \subseteq Ids
      /\ \A u \in Visits : visits[u].held # 0 => visits[u].held \in Payments
      /\ \A u \in Visits : visits[u].entry # 0 => visits[u].entry \in Ids /\ visits[u].entry \in DOMAIN issued /\ issued[visits[u].entry] = visits[u].wish
  BY <1>0, QueueFields DEF Goes, Present, QueueInv, VisitFits, Payments
<1>2. \A p \in DOMAIN ledger : recorded[p] # 0 => recorded'[p] # 0
  BY <1>1 DEF Recording
<1>3. TypeOK'
  <2>1. \A i \in Ids : (i > Len(issued) => queue'[i] = NoEntry) /\ (queue'[i].status = "none" => queue'[i] = NoEntry)
    BY <1>0 DEF TypeOK, Goes
  <2>2. \A u \in Visits : visits'[u].held # 0 => visits'[u].entry # 0
    BY <1>0 DEF TypeOK, Settles
  <2> QED
    BY <1>0, <2>1, <2>2 DEF TypeOK, Goes, Noticed, Recording
<1>4. WishesFit'
  BY DEF QueueInv, WishesFit
<1>5. \A i \in Ids : EntryFits(i)'
  BY <1>0, <1>1 DEF QueueInv, EntryFits, Present, Changed, Has
<1>6. \A u \in Visits : VisitFits(u)'
  <2>1. \A u \in Visits : Hash(u) # 0 => Hash(u) \in Payments
    BY <1>0, QueueFields DEF Hash, Payments
  <2>2. ASSUME NEW u \in Visits, visits'[u] = visits[u] PROVE VisitFits(u)'
    BY <2>1, <2>2 DEF QueueInv, VisitFits, Hash, Recording
  <2> QED
    BY <2>2 DEF Settles
<1>7. \A u \in Visits : KeptFits(u)'
  <2>1. ASSUME NEW u \in Visits, visits'[u] = visits[u] PROVE KeptFits(u)'
    <3>1. KeptFits(u) /\ ledger' = ledger
      BY DEF QueueInv
    <3>2. visits[u].entry # 0 /\ queue'[visits[u].entry].status # "none" => queue'[visits[u].entry] = queue[visits[u].entry] /\ Present(visits[u].entry)
      BY <1>1
    <3> QED
      BY <1>0, <2>1, <3>1, <3>2 DEF KeptFits, Present, Changed, Has
  <2> QED
    BY <2>1 DEF Settles
<1>8. \A u \in Visits : HashFits(u)'
  <2>1. ASSUME NEW u \in Visits, visits'[u] = visits[u], NEW id \in Ids, visits[u].entry = id, id # 0, issued[id] = visits[u].wish PROVE HashFits(u)'
    <3>1. HashFits(u) /\ (visits[u].held # 0 /\ recorded[visits[u].held] # 0 => recorded'[visits[u].held] # 0)
      BY <1>1 DEF QueueInv, Recording
    <3>2. CASE queue'[id] = queue[id]
      BY <1>0, <2>1, <3>1, <3>2 DEF HashFits, Present, Overlaps, Has
    <3>3. CASE Present(id) /\ queue'[id] = NoEntry /\ Explained(id)
      <4>1. queue[id].hash = visits[u].held \/ Overlaps(visits[u].wish)
        BY <2>1, <3>1, <3>3 DEF HashFits
      <4>2. visits[u].at # "away"
        BY <2>1 DEF QueueInv, VisitFits, Away
      <4>3. (\E c \in LostCause : <<visits[u].wish, c>> \in causes') \/ (visits[u].held # 0 /\ recorded'[visits[u].held] # 0)
        <5>1. CASE Overlaps(visits[u].wish)
          BY <1>0, <5>1 DEF Overlaps, Has, LostCause
        <5>2. CASE \E c \in {"removed", "wiped"} : <<issued[id], c>> \in causes'
          BY <2>1, <5>2 DEF LostCause
        <5>3. CASE ~Overlaps(visits[u].wish) /\ ~ \E c \in {"removed", "wiped"} : <<issued[id], c>> \in causes'
          BY <2>1, <3>3, <4>1, <4>2, <5>3 DEF Explained, Unsettled
        <5> QED
          BY <5>1, <5>2, <5>3
      <4> QED
        BY <1>0, <2>1, <3>3, <4>3 DEF HashFits, Has, Present
    <3> QED
      BY <3>2, <3>3 DEF Goes
  <2>2. ASSUME NEW u \in Visits, visits'[u] = visits[u], visits[u].entry = 0 PROVE HashFits(u)'
    BY <2>2 DEF HashFits
  <2> QED
    BY <1>1, <2>1, <2>2 DEF Settles
<1>9. \A s \in Hooks : TodoFits(s)'
  BY <1>0, <1>1, TodoStays
<1>10. \A u \in Visits : Unsettled(u)' => Unsettled(u) /\ visits'[u] = visits[u]
  BY DEF Settles, Unsettled
<1>11. Alone' /\ SameEntry'
  <2>1. ASSUME NEW u \in Visits, NEW t \in Visits, u # t, visits'[u].wish = visits'[t].wish, Unsettled(u)', Unsettled(t)'
        PROVE  <<visits'[t].wish, "overlap">> \in causes'
    BY <1>0, <1>10, <2>1 DEF QueueInv, Alone, Overlaps, Has
  <2>2. ASSUME NEW u \in Visits, NEW t \in Visits, u # t, visits'[u].entry = visits'[t].entry, visits'[t].entry # 0, Unsettled(t)'
        PROVE  <<visits'[t].wish, "overlap">> \in causes'
    <3>1. visits'[t] = visits[t] /\ Unsettled(t)
      BY <1>10, <2>2
    <3>2. CASE visits'[u] = visits[u]
      BY <1>0, <2>2, <3>1, <3>2 DEF QueueInv, SameEntry, Overlaps, Has
    <3>3. CASE Settles(u)
      BY <1>0, <2>2, <3>1, <3>3 DEF QueueInv, SameEntry, Overlaps, Has, Settles
    <3> QED
      BY <3>2, <3>3
  <2> QED
    BY <2>1, <2>2 DEF Alone, SameEntry, Overlaps, Has
<1>12. OneEntry'
  <2>1. ASSUME NEW i \in Ids, NEW j \in Ids, i # j, queue'[i].status # "none", queue'[j].status # "none", queue'[i].wish = queue'[j].wish
        PROVE  \E c \in PaidCause : <<queue'[i].wish, c>> \in causes'
    BY <1>0, <1>1, <2>1 DEF QueueInv, OneEntry, Has, Present
  <2>2. ASSUME NEW u \in Visits, NEW i \in Ids, Unsettled(u)', queue'[i].status # "none", queue'[i].wish = visits'[u].wish,
               i # visits'[u].entry
        PROVE  \E c \in PaidCause : <<visits'[u].wish, c>> \in causes'
    BY <1>0, <1>1, <1>10, <2>2 DEF QueueInv, OneEntry, Has, Present
  <2> QED
    BY <2>1, <2>2 DEF OneEntry, Has, Present
<1>13. PaidFits'
  <2>1. ASSUME NEW p \in DOMAIN ledger, ~Has(ledger[p].wish, PaidCause),
               NEW i \in Ids, queue'[i].status # "none", queue'[i].wish = ledger[p].wish, queue'[i].hash = 0
        PROVE  \E u \in Visits : Unsettled(u)' /\ visits'[u].entry = i
    <3>1. PICK u \in Visits : Unsettled(u) /\ visits[u].entry = i
      BY <1>1, <2>1 DEF QueueInv, PaidFits
    <3>2. visits'[u] = visits[u]
      BY <2>1, <3>1 DEF Settles, Present, Ids
    <3> QED
      BY <3>1, <3>2 DEF Unsettled
  <2>2. ASSUME NEW p \in DOMAIN ledger, ~Has(ledger[p].wish, PaidCause)
        PROVE  /\ \A q \in DOMAIN ledger : ledger[q].wish = ledger[p].wish => q = p
               /\ \A u \in Visits : visits'[u].wish = ledger[p].wish /\ visits'[u].at = "open" => visits'[u].held # 0
    BY <2>2 DEF QueueInv, PaidFits, Settles, Unsettled
  <2> QED
    BY <1>0, <2>1, <2>2 DEF PaidFits, Has, Present
<1>14. HashIsKept'
  <2>1. ASSUME NEW p \in DOMAIN ledger, NEW i \in Ids, queue[i].hash = p, queue'[i] # queue[i]
        PROVE  recorded'[p] # 0 \/ \E c \in LostCause : <<ledger[p].wish, c>> \in causes'
    <3>1. p # 0 /\ Present(i) /\ Explained(i)
      BY <1>1, <2>1 DEF Payments, Goes
    <3>2. ledger[p].wish = issued[i]
      BY <2>1, <3>1 DEF QueueInv, EntryFits
    <3> QED
      BY <1>0, <2>1, <3>1, <3>2 DEF Explained, Overlaps, Has, LostCause
  <2>2. ASSUME NEW p \in DOMAIN ledger, NEW u \in Visits, p \in {visits[u].tx, visits[u].held}
        PROVE  recorded'[p] # 0 \/ p \in {visits'[u].tx, visits'[u].held}
    BY <2>2 DEF Settles
  <2>3. ASSUME NEW p \in DOMAIN ledger
        PROVE  \/ recorded'[p] # 0 \/ \E i \in Ids : queue'[i].hash = p
               \/ \E u \in Visits : p \in {visits'[u].tx, visits'[u].held}
               \/ \E c \in LostCause : <<ledger[p].wish, c>> \in causes'
    <3>1. CASE \E i \in Ids : queue[i].hash = p
      BY <2>1, <3>1
    <3>2. CASE ~ \E i \in Ids : queue[i].hash = p
      BY <1>0, <1>2, <2>2, <3>2 DEF QueueInv, HashIsKept, Has, LostCause
    <3> QED
      BY <3>1, <3>2
  <2> QED
    BY <2>3 DEF HashIsKept, Has, LostCause
<1>15. NothingIsDropped'
  <2>1. ASSUME NEW i \in DOMAIN issued, Present(i), queue'[i].status = "none"
        PROVE  \/ \E p \in DOMAIN ledger : ledger[p].wish = issued[i] /\ recorded'[p] # 0
               \/ \E c \in {"removed", "wiped"} : <<issued[i], c>> \in causes'
    BY <1>1, <2>1 DEF Goes, Explained, Present
  <2> QED
    BY <1>0, <1>2, <2>1 DEF QueueInv, NothingIsDropped, Present, Has
<1>16. RecordedAsPaid'
  BY <1>0 DEF RecordedAsPaid, Recording, Changed, Has
<1> QED
  BY <1>3, <1>4, <1>5, <1>6, <1>7, <1>8, <1>9, <1>11, <1>12, <1>13, <1>14, <1>15, <1>16 DEF QueueInv

\* A list without entries is saved.
LEMMA BlankIs ==
    ASSUME QueueInv, NEW list \in [Ids -> Entry], queue' = list, \A id \in Ids : list[id] = NoEntry,
           \A id \in Ids : Present(id) => <<queue[id].wish, "wiped">> \in causes'
    PROVE  Goes /\ \A id \in Ids : ~Present(id)'
<1>1. TypeOK /\ NoEntry.status = "none"
  BY DEF QueueInv, NoEntry
<1>2. ASSUME NEW id \in Ids, Present(id) PROVE Explained(id)
  BY <1>2 DEF QueueInv, EntryFits, Explained
<1>3. \A id \in Ids : ~Present(id) => queue[id] = NoEntry
  BY <1>1 DEF TypeOK, Present
<1> QED
  BY <1>1, <1>2, <1>3 DEF Goes, Present

\* An entry is removed, from whatever list was read.
LEMMA RemovedIs ==
    ASSUME QueueInv, NEW list \in Reads, NEW id \in Ids, NEW blame, blame \subseteq Wishes \X Cause,
           Saves(list, RemoveQueuedDonation(list, id), blame),
           Noticed /\ blame \subseteq causes' => (Present(id) => Explained(id))
    PROVE  Noticed /\ Goes /\ ~Present(id)' /\ queue'[id] = NoEntry
<1>0. TypeOK /\ NoEntry.status = "none" /\ NoEntry \in Entry
  BY OfflineQueueAssumption DEF QueueInv, NoEntry, Entry, Wish
<1>1. /\ Noticed /\ queue' = [list EXCEPT ![id] = NoEntry] /\ blame \subseteq causes' /\ list \in [Ids -> Entry]
      /\ \/ list = queue
         \/ /\ \A i \in Ids : list[i] = NoEntry
            /\ \A i \in Ids : Present(i) => <<queue[i].wish, "wiped">> \in causes'
  BY SavesIs DEF RemoveQueuedDonation
<1>2. queue' \in [Ids -> Entry] /\ queue'[id] = NoEntry /\ \A i \in Ids : i # id => queue'[i] = list[i]
  BY <1>0, <1>1
<1>3. CASE list = queue
  <2>1. ~Present(id) => queue[id] = NoEntry
    BY <1>0 DEF TypeOK, Present
  <2> QED
    BY <1>0, <1>1, <1>2, <1>3, <2>1 DEF Goes, Present
<1>4. CASE list # queue
  <2>1. queue' = list
    BY <1>1, <1>4
  <2> QED
    BY <1>0, <1>1, <1>2, <1>4, <2>1, BlankIs DEF Present
<1> QED
  BY <1>3, <1>4

\* The entry whose payment is confirmed is removed.
LEMMA RemoveConfirmedStep ==
    ASSUME QueueInv, NEW v \in Visits, RemoveConfirmed(v)
    PROVE  QueueInv'
<1>0. TypeOK /\ VisitFits(v) /\ HashFits(v)
  BY DEF QueueInv
<1>1. PICK id : id = visits[v].entry
  OBVIOUS
<1>2. PICK w : w = visits[v].wish
  OBVIOUS
<1>3. visits[v].at = "confirmed" /\ UNCHANGED <<issued, syncs, ledger, recorded, begun>>
  BY DEF RemoveConfirmed
<1>4. /\ id # 0 /\ id \in DOMAIN issued /\ id \in Ids /\ issued[id] = w
      /\ Hash(v) # 0 /\ recorded[Hash(v)] # 0 /\ Hash(v) \in DOMAIN ledger /\ ledger[Hash(v)].wish = w
      /\ visits[v].held # 0 => visits[v].held = Hash(v) /\ visits[v].tx = 0
      /\ visits[v].held = 0 => visits[v].tx = Hash(v)
      /\ Present(id) => queue[id].hash = visits[v].held \/ Overlaps(w)
  BY <1>0, <1>1, <1>2, <1>3, QueueFields DEF VisitFits, HashFits, Hash
<1>5. /\ visits'[v] = Away /\ visits' \in [Visits -> Visit]
      /\ \A u \in Visits : u # v => visits'[u] = visits[u]
      /\ Away.at = "away" /\ Away.wish = "none" /\ Away.entry = 0 /\ Away.held = 0 /\ Away.tx = 0
  <2>1. Away \in Visit
    BY OfflineQueueAssumption DEF Away, Visit, Wish
  <2> QED
    BY <1>0, <2>1 DEF RemoveConfirmed, TypeOK, Away
<1>6. Present(id) => Explained(id)
  <2>1. CASE Overlaps(w)
    BY <1>3, <1>4, <2>1 DEF Explained
  <2>2. ASSUME Present(id), ~Overlaps(w) PROVE Explained(id)
    <3>1. queue[id].hash # 0 => recorded'[queue[id].hash] # 0
      BY <1>3, <1>4, <2>2
    <3>2. ASSUME NEW u \in Visits, visits[u].entry = id, visits'[u] = visits[u], Unsettled(u) PROVE FALSE
      <4>1. u # v
        BY <1>3, <1>5, <3>2
      <4>2. visits[u].wish = w
        BY <1>4, <3>2 DEF QueueInv, VisitFits
      <4> QED
        BY <1>1, <1>4, <2>2, <3>2, <4>1, <4>2 DEF QueueInv, SameEntry
    <3> QED
      BY <1>3, <1>4, <3>1, <3>2 DEF Explained
  <2> QED
    BY <2>1, <2>2
<1>7. Noticed /\ Goes /\ ~Present(id)'
  <2>1. PICK list \in Reads : Saves(list, RemoveQueuedDonation(list, id), {})
    BY <1>1 DEF RemoveConfirmed
  <2> QED
    BY <1>4, <1>6, <2>1, RemovedIs
<1>8. Settles(v)
  <2>1. ~Unsettled(v)' /\ VisitFits(v)' /\ KeptFits(v)' /\ HashFits(v)'
    BY <1>5 DEF Unsettled, VisitFits, KeptFits, HashFits
  <2>2. \A p \in DOMAIN ledger : p \in {visits[v].tx, visits[v].held} => recorded'[p] # 0
    BY <1>0, <1>3, <1>4, QueueFields
  <2>3. queue'[visits[v].entry].status = "none"
    BY <1>1, <1>7 DEF Present
  <2> QED
    BY <1>5, <2>1, <2>2, <2>3 DEF Settles
<1>9. Recording /\ syncs' \in [Hooks -> Sync]
  BY <1>0, <1>3, NotRecording DEF TypeOK
<1> QED
  BY <1>3, <1>5, <1>7, <1>8, <1>9, GoneStep

\* A new entry is made for a payment that could not be confirmed.
LEMMA RescueStep ==
    ASSUME QueueInv, NEW v \in Visits, Rescue(v)
    PROVE  QueueInv'
<1>0. TypeOK /\ visits[v].at = "posting" /\ visits[v].entry = 0 /\ VisitFits(v)
  BY DEF QueueInv, Rescue
<1>1. PICK w : w = visits[v].wish
  OBVIOUS
<1>2. PICK n : n = Len(issued) + 1
  OBVIOUS
<1>3. PICK amount : amount = Told(v)
  OBVIOUS
<1>4. /\ w \in Wishes /\ w \in begun /\ visits[v].held = 0 /\ visits[v].tx # 0 /\ Unsettled(v)
      /\ visits[v].tx \in DOMAIN ledger /\ ledger[visits[v].tx].wish = w
      /\ amount \in Amounts /\ amount = ledger[visits[v].tx].amount
  <2>1. Confirming(v)
    BY <1>0 DEF Confirming
  <2> QED
    BY <1>0, <1>1, <1>3, <2>1, ToldIs DEF VisitFits, Unsettled
<1>5. UNCHANGED <<syncs, ledger, begun>>
  BY DEF Rescue
<1>6. Recording
  BY <1>0, PostFailsIs DEF Rescue, Confirming
<1>7. Queued(w, amount, n) /\ Noticed /\ causes \subseteq causes'
  <2>1. PICK list \in Reads : EnqueueDonation(list, w, amount, {})
    BY <1>1, <1>3 DEF Rescue
  <2>2. Queued(w, amount, n) /\ Noticed
    BY <1>2, <1>4, <2>1, EnqueueIs
  <2> QED
    BY <2>2 DEF Noticed
<1>8. /\ visits' \in [Visits -> Visit]
      /\ \A u \in Visits : u # v => visits'[u] = visits[u]
      /\ visits'[v].at = "stamp" /\ visits'[v].wish = w /\ visits'[v].entry = n /\ visits'[v].held = 0
      /\ visits'[v].kept = amount /\ visits'[v].tx = visits[v].tx
  <2>0. visits \in [Visits -> Visit] /\ n \in 0 .. MaxEntries /\ amount \in Nat
    BY <1>0, <1>4, <1>7, OfflineQueueAssumption DEF TypeOK, Queued, Ids
  <2>1. PICK x : x = [visits[v] EXCEPT !.at = "stamp", !.entry = n, !.kept = amount]
    OBVIOUS
  <2>2. /\ x \in Visit /\ x.at = "stamp" /\ x.wish = w /\ x.entry = n /\ x.held = 0
        /\ x.kept = amount /\ x.tx = visits[v].tx
    BY <1>1, <1>4, <2>0, <2>1 DEF Visit
  <2>3. visits' = [visits EXCEPT ![v] = x]
    BY <1>2, <1>3, <2>1 DEF Rescue
  <2> QED
    BY <2>0, <2>2, <2>3
<1>9. TypeOK'
  <2>1. n # 0
    BY <1>7 DEF Queued, Ids
  <2>2. \A u \in Visits : visits'[u].held # 0 => visits'[u].entry # 0
    BY <1>0, <1>8, <2>1 DEF TypeOK
  <2> QED
    BY <1>0, <1>5, <1>6, <1>7, <1>8, <2>2 DEF TypeOK, Queued, Recording, Noticed
<1>10. WishesFit'
  BY <1>4, <1>5, <1>7 DEF QueueInv, WishesFit, Queued
<1>12. /\ \A id \in Ids : id # n /\ queue'[id].status # "none" => Present(id) /\ queue'[id] = queue[id]
       /\ \A id \in DOMAIN issued : Stays(id) /\ issued'[id] = issued[id] /\ id \in DOMAIN issued' /\ id # n /\ id \in Ids
       /\ \A u \in Visits : visits[u].entry # 0 => Stays(visits[u].entry) /\ visits[u].entry \in DOMAIN issued
       /\ \A u \in Visits : visits[u].held # 0 => visits[u].held \in Payments
  <2>1. \A id \in Ids : id # n => Stays(id)
    BY <1>7 DEF Queued
  <2>2. \A id \in Ids : id # n /\ queue'[id].status # "none" => Present(id) /\ queue'[id] = queue[id]
    BY <1>7, <2>1, StaysIs DEF Present
  <2>3. \A id \in DOMAIN issued : issued'[id] = issued[id] /\ id \in DOMAIN issued' /\ id # n /\ id \in Ids
    BY <1>0, <1>7, QueueFields DEF Queued
  <2>4. \A u \in Visits : visits[u].held # 0 => visits[u].held \in Payments
    BY <1>0, QueueFields DEF Payments
  <2> QED
    BY <2>1, <2>2, <2>3, <2>4 DEF QueueInv, VisitFits
<1>11. \A i \in Ids : EntryFits(i)'
  <2>1. ASSUME NEW i \in Ids, i # n PROVE EntryFits(i)'
    BY <1>5, <1>7, <1>12, <2>1 DEF QueueInv, EntryFits, Present, Changed, Has, Queued
  <2>2. EntryFits(n)'
    BY <1>4, <1>7 DEF EntryFits, Queued
  <2> QED
    BY <2>1, <2>2
<1>13. \A u \in Visits : VisitFits(u)'
  <2>1. ASSUME NEW u \in Visits, u # v PROVE VisitFits(u)'
    <3>1. Hash(u) # 0 /\ visits[u].at = "confirmed" => Hash(u) \in Payments
      BY <1>0, QueueFields DEF Hash, Payments
    <3> QED
      BY <1>5, <1>6, <1>8, <1>12, <2>1, <3>1 DEF QueueInv, VisitFits, Hash, Recording
  <2>2. VisitFits(v)'
    <3>1. n # 0 /\ n \in DOMAIN issued' /\ issued'[n] = w
      BY <1>7 DEF Queued, Ids
    <3> QED
      BY <1>4, <1>5, <1>8, <3>1 DEF VisitFits
  <2> QED
    BY <2>1, <2>2
<1>14. \A u \in Visits : KeptFits(u)'
  <2>1. ASSUME NEW u \in Visits, u # v PROVE KeptFits(u)'
    BY <1>5, <1>7, <1>8, <1>12, <2>1, KeptStays
  <2>2. KeptFits(v)'
    BY <1>4, <1>5, <1>7, <1>8 DEF KeptFits, Queued
  <2> QED
    BY <2>1, <2>2
<1>15. \A u \in Visits : HashFits(u)'
  <2>1. ASSUME NEW u \in Visits, u # v PROVE HashFits(u)'
    BY <1>6, <1>7, <1>8, <1>12, <2>1, HashStays
  <2>2. HashFits(v)'
    BY <1>7, <1>8 DEF HashFits, Present, Queued
  <2> QED
    BY <2>1, <2>2
<1>16. \A s \in Hooks : TodoFits(s)'
  BY <1>5, <1>7, <1>12, TodoStays
<1>17. \A u \in Visits : Unsettled(u)' => Unsettled(u) /\ visits'[u].wish = visits[u].wish
  BY <1>1, <1>4, <1>8 DEF Unsettled
<1>18. Alone'
  BY <1>1, <1>7, <1>8, <1>17 DEF QueueInv, Alone, Overlaps, Has
<1>19. SameEntry'
  <2>1. \A u \in Visits : u # v => visits'[u].entry # n
    BY <1>7, <1>8, <1>12 DEF Queued, Ids
  <2> QED
    BY <1>7, <1>8, <1>17, <2>1 DEF QueueInv, SameEntry, Overlaps, Has
<1>20. OneEntry'
  <2>1. ASSUME NEW j \in Ids, Present(j), queue[j].wish = w PROVE Has(w, PaidCause)
    BY <1>0, <1>1, <1>4, <2>1 DEF QueueInv, OneEntry, Ids
  <2>2. ASSUME NEW u \in Visits, u # v, Unsettled(u), visits[u].wish = w PROVE Has(w, PaidCause)
    BY <1>1, <1>4, <2>2 DEF QueueInv, Alone, Overlaps, Has, PaidCause
  <2>3. \A i \in Ids : i # n /\ queue'[i].status # "none" => Present(i) /\ queue'[i] = queue[i]
    BY <1>12 DEF Present
  <2>4. queue'[n].wish = w
    BY <1>7 DEF Queued
  <2>5. ASSUME NEW i \in Ids, NEW j \in Ids, i # j, queue'[i].status # "none", queue'[j].status # "none", queue'[i].wish = queue'[j].wish
        PROVE  Has(queue[i].wish, PaidCause)'
    <3>1. CASE i # n /\ j # n
      BY <1>7, <2>3, <2>5, <3>1 DEF QueueInv, OneEntry, Has
    <3>2. CASE i = n \/ j = n
      BY <1>7, <2>1, <2>3, <2>4, <2>5, <3>2 DEF Has
    <3> QED
      BY <3>1, <3>2
  <2>6. ASSUME NEW u \in Visits, NEW i \in Ids, Unsettled(u)', queue'[i].status # "none", queue'[i].wish = visits'[u].wish, i # visits'[u].entry
        PROVE  Has(visits[u].wish, PaidCause)'
    <3>1. CASE u = v
      BY <1>7, <1>8, <2>1, <2>3, <2>6, <3>1 DEF Has
    <3>2. CASE u # v /\ i = n
      BY <1>7, <1>8, <1>17, <2>2, <2>4, <2>6, <3>2 DEF Has
    <3>3. CASE u # v /\ i # n
      BY <1>7, <1>8, <1>17, <2>3, <2>6, <3>3 DEF QueueInv, OneEntry, Has
    <3> QED
      BY <3>1, <3>2, <3>3
  <2> QED
    BY <2>5, <2>6 DEF OneEntry, Present
<1>21. PaidFits'
  <2>1. ASSUME NEW p \in DOMAIN ledger, ~Has(ledger[p].wish, PaidCause),
               NEW id \in Ids, queue'[id].status # "none", queue'[id].wish = ledger[p].wish, queue'[id].hash = 0
        PROVE  \E u \in Visits : Unsettled(u)' /\ visits'[u].entry = id
    <3>1. CASE id = n
      BY <1>8, <3>1 DEF Unsettled
    <3>2. CASE id # n
      <4>1. Present(id) /\ queue'[id] = queue[id]
        BY <1>12, <2>1, <3>2 DEF Present
      <4>2. PICK u \in Visits : Unsettled(u) /\ visits[u].entry = id
        BY <2>1, <4>1 DEF QueueInv, PaidFits
      <4>3. u # v
        BY <1>0, <4>2 DEF Ids
      <4> QED
        BY <1>8, <4>2, <4>3 DEF Unsettled
    <3> QED
      BY <3>1, <3>2
  <2>2. \A u \in Visits : visits'[u].at = "open" => visits'[u] = visits[u]
    BY <1>8
  <2>3. ASSUME NEW p \in DOMAIN ledger, ~Has(ledger[p].wish, PaidCause)
        PROVE  /\ \A q \in DOMAIN ledger : ledger[q].wish = ledger[p].wish => q = p
               /\ \A u \in Visits : visits'[u].wish = ledger[p].wish /\ visits'[u].at = "open" => visits'[u].held # 0
    BY <2>2, <2>3 DEF QueueInv, PaidFits
  <2> QED
    BY <1>5, <1>7, <2>1, <2>3 DEF PaidFits, Has, Present
<1>22. HashIsKept'
  <2>1. \A u \in Visits, p \in DOMAIN ledger : p \in {visits[u].tx, visits[u].held} => p \in {visits'[u].tx, visits'[u].held}
    BY <1>4, <1>8
  <2>2. ASSUME NEW id \in Ids, NEW p \in DOMAIN ledger, queue[id].hash = p
        PROVE  queue'[id].hash = p \/ \E c \in LostCause : <<ledger[p].wish, c>> \in causes'
    <3>1. id # n
      BY <1>0, <1>7, <2>2, QueueFields DEF Queued
    <3> QED
      BY <1>7, <2>2, <3>1, StaysIs DEF Queued, LostCause
  <2>3. \A p \in DOMAIN ledger : recorded[p] # 0 => recorded'[p] # 0
    BY <1>0, <1>6, QueueFields DEF Recording
  <2> QED
    BY <1>5, <1>7, <2>1, <2>2, <2>3, HashStaysKept
<1>23. NothingIsDropped'
  <2>1. ASSUME NEW id \in DOMAIN issued, ~Present(id)
        PROVE  \/ \E p \in DOMAIN ledger : ledger[p].wish = issued[id] /\ recorded'[p] # 0
               \/ \E c \in {"removed", "wiped"} : <<issued[id], c>> \in causes'
    <3>1. \A p \in DOMAIN ledger : recorded[p] # 0 => recorded'[p] # 0
      BY <1>0, <1>6, QueueFields DEF Recording
    <3> QED
      BY <1>7, <2>1, <3>1 DEF QueueInv, NothingIsDropped, Has
  <2>2. ASSUME NEW id \in DOMAIN issued, Present(id) PROVE Present(id)' \/ <<issued[id], "wiped">> \in causes'
    BY <1>7, <1>12, <2>2, StaysIs
  <2>3. Present(n)'
    BY <1>7 DEF Present, Queued
  <2>4. DOMAIN issued' = DOMAIN issued \union {n} /\ \A id \in DOMAIN issued : issued'[id] = issued[id]
    BY <1>7 DEF Queued
  <2> QED
    BY <1>5, <2>1, <2>2, <2>3, <2>4 DEF NothingIsDropped, Has
<1>24. RecordedAsPaid'
  BY <1>5, <1>6, <1>7 DEF RecordedAsPaid, Recording, Changed, Has
<1> QED
  BY <1>9, <1>10, <1>11, <1>13, <1>14, <1>15, <1>16, <1>18, <1>19, <1>20, <1>21, <1>22, <1>23, <1>24 DEF QueueInv

\* The screen goes by the hash of a payment that could not be confirmed.
LEMMA NotedIs ==
    ASSUME QueueInv, NEW v \in Visits, visits[v].at \in {"stamp", "posting", "confirmed"}, visits[v].entry # 0, visits[v].held = 0,
           NEW w, w = visits[v].wish, NEW id, id = visits[v].entry, NEW h, h = visits[v].tx, visits' = Noted(v)
    PROVE  /\ w \in begun /\ h # 0 /\ h \in DOMAIN ledger /\ ledger[h].wish = w /\ h \in 0 .. MaxPayments
           /\ id # 0 /\ id \in DOMAIN issued /\ id \in Ids /\ issued[id] = w /\ visits[v].kept \in Amounts /\ Unsettled(v)
           /\ Present(id) => queue[id].amount = visits[v].kept \/ Changed(w)
           /\ visits[v].kept = ledger[h].amount \/ Changed(w)
           /\ IF Present(id) THEN queue[id].hash = 0 \/ Overlaps(w) ELSE Has(w, LostCause)
           /\ visits' \in [Visits -> Visit]
           /\ \A u \in Visits : u # v => visits'[u] = visits[u]
           /\ visits'[v].at = "open" /\ visits'[v].wish = w /\ visits'[v].entry = id /\ visits'[v].held = h
           /\ visits'[v].kept = visits[v].kept /\ visits'[v].tx = 0
<1>0. TypeOK /\ VisitFits(v) /\ KeptFits(v) /\ HashFits(v)
  BY DEF QueueInv
<1>1. /\ w \in begun /\ h # 0 /\ h \in DOMAIN ledger /\ ledger[h].wish = w /\ h \in 0 .. MaxPayments
      /\ id # 0 /\ id \in DOMAIN issued /\ id \in Ids /\ issued[id] = w /\ visits[v].kept \in Amounts /\ Unsettled(v)
      /\ Present(id) => queue[id].amount = visits[v].kept \/ Changed(w)
      /\ visits[v].kept = ledger[h].amount \/ Changed(w)
      /\ IF Present(id) THEN queue[id].hash = 0 \/ Overlaps(w) ELSE Has(w, LostCause)
  BY <1>0, QueueFields DEF VisitFits, KeptFits, HashFits, Unsettled, Hash
<1>2. visits \in [Visits -> Visit] /\ 0 \in 0 .. MaxPayments
  BY <1>0, OfflineQueueAssumption DEF TypeOK
<1>3. PICK x : x = [visits[v] EXCEPT !.at = "open", !.held = h, !.tx = 0]
  OBVIOUS
<1>4. /\ x \in Visit /\ x.at = "open" /\ x.wish = w /\ x.entry = id /\ x.held = h
      /\ x.kept = visits[v].kept /\ x.tx = 0
  BY <1>1, <1>2, <1>3 DEF Visit
<1>5. visits' = [visits EXCEPT ![v] = x]
  BY <1>3 DEF Noted
<1> QED
  BY <1>1, <1>2, <1>4, <1>5

\* The hash is noted in the entry, if that is there.
LEMMA StampedStep ==
    ASSUME QueueInv, Recording, Noticed, NEW v \in Visits, visits[v].at \in {"stamp", "posting", "confirmed"},
           visits[v].entry # 0, visits[v].held = 0, queue' = StampHash(queue, visits[v].entry, visits[v].tx),
           visits' = Noted(v), UNCHANGED <<issued, syncs, ledger, begun>>
    PROVE  QueueInv'
<1>0. TypeOK
  BY DEF QueueInv
<1>1. PICK w : w = visits[v].wish
  OBVIOUS
<1>2. PICK id : id = visits[v].entry
  OBVIOUS
<1>3. PICK h : h = visits[v].tx
  OBVIOUS
<1>4. /\ UNCHANGED <<issued, syncs, ledger, begun>> /\ Recording /\ causes \subseteq causes' /\ id # 0
      /\ visits[v].at # "away" /\ visits[v].held = 0
  BY <1>2 DEF Noticed
<1>5. /\ w \in begun /\ h # 0 /\ h \in DOMAIN ledger /\ ledger[h].wish = w /\ h \in 0 .. MaxPayments
      /\ id # 0 /\ id \in DOMAIN issued /\ id \in Ids /\ issued[id] = w /\ visits[v].kept \in Amounts /\ Unsettled(v)
      /\ Present(id) => queue[id].amount = visits[v].kept \/ Changed(w)
      /\ visits[v].kept = ledger[h].amount \/ Changed(w)
      /\ IF Present(id) THEN queue[id].hash = 0 \/ Overlaps(w) ELSE Has(w, LostCause)
  BY <1>1, <1>2, <1>3, NotedIs
<1>6. /\ queue' \in [Ids -> Entry]
      /\ \A i \in Ids : i # id => queue'[i] = queue[i]
      /\ queue'[id].status = queue[id].status /\ queue'[id].wish = queue[id].wish /\ queue'[id].amount = queue[id].amount
      /\ Present(id) => queue'[id].hash = h
      /\ ~Present(id) => queue' = queue
  <2>0. queue \in [Ids -> Entry] /\ (~Present(id) => queue[id] = NoEntry) /\ NoEntry.status = "none"
    BY <1>0, <1>5 DEF TypeOK, Present, NoEntry
  <2>1. CASE ~Present(id)
    BY <1>2, <2>0, <2>1 DEF StampHash, UpdateQueuedDonation
  <2>2. CASE Present(id)
    <3>1. PICK e : e = [queue[id] EXCEPT !.hash = h]
      OBVIOUS
    <3>2. e \in Entry /\ e.status = queue[id].status /\ e.wish = queue[id].wish /\ e.amount = queue[id].amount /\ e.hash = h
      BY <1>5, <2>0, <3>1 DEF Entry
    <3>3. queue' = [queue EXCEPT ![id] = e]
      BY <1>2, <1>3, <2>0, <2>2, <3>1 DEF StampHash, UpdateQueuedDonation, Present
    <3> QED
      BY <1>5, <2>0, <2>2, <3>2, <3>3
  <2> QED
    BY <2>1, <2>2
<1>7. /\ visits' \in [Visits -> Visit]
      /\ \A u \in Visits : u # v => visits'[u] = visits[u]
      /\ visits'[v].at = "open" /\ visits'[v].wish = w /\ visits'[v].entry = id /\ visits'[v].held = h
      /\ visits'[v].kept = visits[v].kept /\ visits'[v].tx = 0
  BY <1>1, <1>2, <1>3, NotedIs
<1>8. \A i \in Ids : Present(i)' <=> Present(i)
  BY <1>6 DEF Present
<1>9. TypeOK'
  <2>1. \A i \in Ids : (i > Len(issued) => queue'[i] = NoEntry) /\ (queue'[i].status = "none" => queue'[i] = NoEntry)
    BY <1>0, <1>6 DEF TypeOK, Present, NoEntry
  <2>2. \A u \in Visits : visits'[u].held # 0 => visits'[u].entry # 0
    BY <1>0, <1>4, <1>7 DEF TypeOK
  <2> QED
    BY <1>0, <1>4, <1>6, <1>7, <2>1, <2>2 DEF TypeOK, Recording, Noticed
<1>10. WishesFit'
  BY <1>4 DEF QueueInv, WishesFit
<1>11. \A i \in Ids : EntryFits(i)'
  <2>1. ASSUME NEW i \in Ids, i # id PROVE EntryFits(i)'
    BY <1>4, <1>6, <2>1 DEF QueueInv, EntryFits, Present, Changed, Has
  <2>2. EntryFits(id)'
    <3>1. EntryFits(id)
      BY <1>5 DEF QueueInv
    <3> QED
      BY <1>4, <1>5, <1>6, <3>1 DEF EntryFits, Present, Changed, Has
  <2> QED
    BY <2>1, <2>2
<1>12. \A u \in Visits : VisitFits(u)'
  <2>1. ASSUME NEW u \in Visits, u # v PROVE VisitFits(u)'
    <3>1. Hash(u) # 0 /\ visits[u].at = "confirmed" => Hash(u) \in Payments
      BY <1>0, QueueFields DEF Hash, Payments
    <3> QED
      BY <1>4, <1>7, <2>1, <3>1 DEF QueueInv, VisitFits, Hash, Recording
  <2>2. VisitFits(v)'
    BY <1>4, <1>5, <1>7 DEF VisitFits
  <2> QED
    BY <2>1, <2>2
<1>13. \A u \in Visits : visits[u].entry # 0 => visits[u].entry \in Ids /\ issued[visits[u].entry] = visits[u].wish
  BY <1>0, QueueFields DEF QueueInv, VisitFits
<1>14. \A i \in Ids : queue'[i].amount = queue[i].amount /\ queue'[i].wish = queue[i].wish
  BY <1>6
<1>15. \A u \in Visits : KeptFits(u)'
  <2>1. ASSUME NEW u \in Visits, u # v PROVE KeptFits(u)'
    <3>1. KeptFits(u) /\ visits'[u] = visits[u] /\ ledger' = ledger /\ causes \subseteq causes'
      BY <1>4, <1>7, <2>1 DEF QueueInv
    <3>2. visits[u].entry # 0 => /\ queue'[visits[u].entry].status # "none" => Present(visits[u].entry)
                                 /\ queue'[visits[u].entry].amount = queue[visits[u].entry].amount
      BY <1>8, <1>13, <1>14 DEF Present
    <3> QED
      BY <3>1, <3>2 DEF KeptFits, Present, Changed, Has
  <2>2. KeptFits(v)'
    <3>1. Present(id)' => queue'[id].amount = visits[v].kept \/ <<w, "retouched">> \in causes
      BY <1>5, <1>8, <1>14 DEF Changed, Has
    <3> QED
      BY <1>4, <1>5, <1>7, <3>1 DEF KeptFits, Changed, Has
  <2> QED
    BY <2>1, <2>2
<1>16. \A u \in Visits : HashFits(u)'
  <2>1. ASSUME NEW u \in Visits, u # v PROVE HashFits(u)'
    <3>1. /\ HashFits(u) /\ visits'[u] = visits[u] /\ causes \subseteq causes'
          /\ visits[u].held # 0 /\ recorded[visits[u].held] # 0 => recorded'[visits[u].held] # 0
      <4>1. visits[u].held # 0 => visits[u].held \in Payments
        BY <1>0, QueueFields DEF Payments
      <4> QED
        BY <1>4, <1>7, <2>1, <4>1 DEF QueueInv, Recording
    <3>2. CASE visits[u].entry = id
      <4>1. Overlaps(visits[u].wish)
        BY <1>2, <1>4, <1>5, <1>13, <2>1, <3>2 DEF QueueInv, SameEntry
      <4> QED
        BY <3>1, <4>1 DEF HashFits, Overlaps, Has, LostCause
    <3>3. CASE visits[u].entry # id
      <4>1. visits[u].entry # 0 => queue'[visits[u].entry] = queue[visits[u].entry]
        BY <1>6, <1>13, <3>3
      <4> QED
        BY <3>1, <4>1 DEF HashFits, Present, Overlaps, Has
    <3> QED
      BY <3>2, <3>3
  <2>2. HashFits(v)'
    <3>1. Present(id)' <=> Present(id)
      BY <1>5, <1>8
    <3> QED
      BY <1>4, <1>5, <1>6, <1>7, <3>1 DEF HashFits, Has, Present
  <2> QED
    BY <2>1, <2>2
<1>17. \A s \in Hooks : TodoFits(s)'
  <2>1. ASSUME NEW s \in Hooks, NEW i \in Ids, NEW a \in Amounts, NEW hash \in 1 .. MaxPayments,
               <<i, a, hash>> \in syncs[s].todo
        PROVE  /\ i \in DOMAIN issued /\ hash \in DOMAIN ledger /\ ledger[hash].wish = issued[i]
               /\ a = ledger[hash].amount \/ <<issued[i], "retouched">> \in causes
               /\ queue'[i].status # "none" => queue'[i].hash = hash \/ <<issued[i], "overlap">> \in causes
    <3>1. /\ i \in DOMAIN issued /\ hash \in DOMAIN ledger /\ ledger[hash].wish = issued[i]
          /\ a = ledger[hash].amount \/ Changed(issued[i])
          /\ Present(i) => queue[i].hash = hash \/ Overlaps(issued[i])
      BY <2>1 DEF QueueInv, TodoFits
    <3>2. CASE i # id
      BY <1>6, <3>1, <3>2 DEF Present, Changed, Overlaps, Has
    <3>3. CASE i = id
      BY <1>5, <1>6, <3>1, <3>3 DEF Present, Changed, Overlaps, Has
    <3> QED
      BY <3>2, <3>3
  <2> QED
    BY <1>4, <2>1 DEF TodoFits, Present, Changed, Overlaps, Has
<1>18. \A u \in Visits : /\ Unsettled(u)' => Unsettled(u) /\ u # v
                         /\ visits'[u].wish = visits[u].wish /\ visits'[u].entry = visits[u].entry
  BY <1>1, <1>2, <1>5, <1>7 DEF Unsettled
<1>19. Alone' /\ SameEntry'
  BY <1>4, <1>18 DEF QueueInv, Alone, SameEntry, Overlaps, Has
<1>20. OneEntry'
  <2>3. \A i \in Ids : queue'[i].status # "none" => Present(i) /\ queue'[i].wish = queue[i].wish
    BY <1>6 DEF Present
  <2>1. ASSUME NEW i \in Ids, NEW j \in Ids, i # j, queue'[i].status # "none", queue'[j].status # "none", queue'[i].wish = queue'[j].wish
        PROVE  \E c \in PaidCause : <<queue'[i].wish, c>> \in causes'
    BY <1>4, <2>3, <2>1 DEF QueueInv, OneEntry, Has, Present
  <2>2. ASSUME NEW u \in Visits, NEW i \in Ids, Unsettled(u)', queue'[i].status # "none", queue'[i].wish = visits'[u].wish,
               i # visits'[u].entry
        PROVE  \E c \in PaidCause : <<visits'[u].wish, c>> \in causes'
    BY <1>4, <1>18, <2>3, <2>2 DEF QueueInv, OneEntry, Has, Present
  <2> QED
    BY <2>1, <2>2 DEF OneEntry, Has, Present
<1>21. PaidFits'
  <2>1. ASSUME NEW p \in DOMAIN ledger, ~Has(ledger[p].wish, PaidCause),
               NEW i \in Ids, queue'[i].status # "none", queue'[i].wish = ledger[p].wish, queue'[i].hash = 0
        PROVE  \E u \in Visits : Unsettled(u)' /\ visits'[u].entry = i
    <3>1. Present(i) /\ i # id
      BY <1>5, <1>6, <2>1 DEF Present
    <3>2. PICK u \in Visits : Unsettled(u) /\ visits[u].entry = i
      BY <1>6, <2>1, <3>1 DEF QueueInv, PaidFits
    <3> QED
      BY <1>2, <1>7, <3>1, <3>2 DEF Unsettled
  <2>2. \A u \in Visits : visits'[u].at = "open" => visits'[u] = visits[u] \/ visits'[u].held # 0
    BY <1>5, <1>7
  <2>3. ASSUME NEW p \in DOMAIN ledger, ~Has(ledger[p].wish, PaidCause)
        PROVE  /\ \A q \in DOMAIN ledger : ledger[q].wish = ledger[p].wish => q = p
               /\ \A u \in Visits : visits'[u].wish = ledger[p].wish /\ visits'[u].at = "open" => visits'[u].held # 0
    BY <2>2, <2>3 DEF QueueInv, PaidFits
  <2> QED
    BY <1>4, <2>1, <2>3 DEF PaidFits, Has, Present
<1>22. HashIsKept'
  <2>1. \A u \in Visits, p \in DOMAIN ledger : p \in {visits[u].tx, visits[u].held} => p \in {visits'[u].tx, visits'[u].held}
    BY <1>0, <1>3, <1>5, <1>7, QueueFields
  <2>2. ASSUME NEW i \in Ids, NEW p \in DOMAIN ledger, queue[i].hash = p
        PROVE  queue'[i].hash = p \/ <<ledger[p].wish, "overlap">> \in causes
    <3>1. CASE i # id
      BY <1>6, <2>2, <3>1
    <3>2. CASE i = id
      <4>1. p # 0 /\ Present(id)
        BY <1>0, <2>2, <3>2, QueueFields DEF Present, TypeOK, NoEntry
      <4>2. Overlaps(w) /\ ledger[p].wish = w
        BY <1>5, <2>2, <3>2, <4>1 DEF QueueInv, EntryFits
      <4> QED
        BY <4>2 DEF Overlaps, Has
    <3> QED
      BY <3>1, <3>2
  <2>3. \A p \in DOMAIN ledger : recorded[p] # 0 => recorded'[p] # 0
    BY <1>0, <1>4, QueueFields DEF Recording
  <2> QED
    BY <1>4, <2>1, <2>2, <2>3 DEF QueueInv, HashIsKept, Has
<1>23. NothingIsDropped'
  <2>1. \A p \in DOMAIN ledger : recorded[p] # 0 => recorded'[p] # 0
    BY <1>0, <1>4, QueueFields DEF Recording
  <2>2. \A i \in DOMAIN issued : Present(i) => queue'[i].status # "none"
    BY <1>0, <1>6, QueueFields DEF Present
  <2> QED
    BY <1>4, <2>1, <2>2 DEF QueueInv, NothingIsDropped, Present, Has
<1>24. RecordedAsPaid'
  BY <1>4 DEF RecordedAsPaid, Recording, Changed, Has
<1> QED
  BY <1>9, <1>10, <1>11, <1>12, <1>15, <1>16, <1>17, <1>19, <1>20, <1>21, <1>22, <1>23, <1>24 DEF QueueInv

\* The hash is noted in the list that was read.
LEMMA StampStep ==
    ASSUME QueueInv, NEW v \in Visits, Stamp(v)
    PROVE  QueueInv'
<1>0. TypeOK /\ VisitFits(v)
  BY DEF QueueInv
<1>1. PICK id : id = visits[v].entry
  OBVIOUS
<1>2. PICK h : h = visits[v].tx
  OBVIOUS
<1>3. /\ UNCHANGED <<issued, syncs, ledger, begun>> /\ Recording /\ visits' = Noted(v)
      /\ visits[v].at \in {"stamp", "posting", "confirmed"} /\ visits[v].entry # 0 /\ visits[v].held = 0
  <2>1. CASE visits[v].at = "stamp" /\ recorded' = recorded
    BY <1>0, <2>1, NotRecording DEF Stamp, VisitFits
  <2>2. CASE visits[v].at = "posting" /\ visits[v].entry # 0 /\ PostFails(Hash(v), Told(v))
    BY <1>0, <2>2, PostFailsIs DEF Stamp, Confirming, VisitFits
  <2> QED
    BY <2>1, <2>2 DEF Stamp
<1>4. PICK list \in Reads : Saves(list, StampHash(list, id, h), {})
  BY <1>1, <1>2 DEF Stamp
<1>5. /\ Noticed /\ queue' = StampHash(list, id, h) /\ list \in [Ids -> Entry]
      /\ \/ list = queue
         \/ /\ \A i \in Ids : list[i] = NoEntry
            /\ \A i \in Ids : Present(i) => <<queue[i].wish, "wiped">> \in causes'
  BY <1>4, SavesIs
<1>6. CASE list = queue
  BY <1>1, <1>2, <1>3, <1>5, <1>6, StampedStep
<1>7. CASE list # queue
  <2>1. PICK w : w = visits[v].wish
    OBVIOUS
  <2>2. /\ w \in begun /\ h # 0 /\ h \in DOMAIN ledger /\ ledger[h].wish = w
        /\ id # 0 /\ id \in DOMAIN issued /\ id \in Ids /\ issued[id] = w /\ visits[v].kept \in Amounts
        /\ visits[v].kept = ledger[h].amount \/ Changed(w)
        /\ ~Present(id) => Has(w, LostCause)
        /\ visits' \in [Visits -> Visit]
        /\ \A u \in Visits : u # v => visits'[u] = visits[u]
        /\ visits'[v].at = "open" /\ visits'[v].wish = w /\ visits'[v].entry = id /\ visits'[v].held = h
        /\ visits'[v].kept = visits[v].kept /\ visits'[v].tx = 0
    BY <1>1, <1>2, <1>3, <2>1, NotedIs
  <2>3. queue' = list /\ Goes /\ \A i \in Ids : queue'[i].status = "none"
    <3>1. queue' = list
      BY <1>5, <1>7, <2>2 DEF StampHash, UpdateQueuedDonation
    <3> QED
      BY <1>5, <1>7, <3>1, BlankIs DEF Present
  <2>4. VisitFits(v)' /\ KeptFits(v)' /\ HashFits(v)' /\ ~Unsettled(v)'
    <3>1. VisitFits(v)' /\ ~Unsettled(v)'
      BY <1>3, <2>2 DEF VisitFits, Unsettled
    <3>2. KeptFits(v)'
      BY <1>3, <1>5, <2>2, <2>3 DEF KeptFits, Present, Changed, Has, Noticed
    <3>3. Has(w, LostCause)'
      <4>1. Present(id) => queue[id].wish = w
        BY <2>2 DEF QueueInv, EntryFits
      <4> QED
        BY <1>5, <1>7, <2>2, <4>1 DEF Has, LostCause, Noticed
    <3>4. HashFits(v)'
      BY <2>2, <2>3, <3>3 DEF HashFits, Has, Present
    <3> QED
      BY <3>1, <3>2, <3>4
  <2>5. Settles(v)
    BY <1>1, <1>2, <1>3, <2>2, <2>3, <2>4 DEF Settles
  <2>6. syncs' \in [Hooks -> Sync]
    BY <1>0, <1>3 DEF TypeOK
  <2> QED
    BY <1>3, <1>5, <2>2, <2>3, <2>5, <2>6, GoneStep
<1> QED
  BY <1>6, <1>7

\* The entry of a confirmed payment gets the hash when it cannot be removed.
LEMMA StampConfirmedStep ==
    ASSUME QueueInv, NEW v \in Visits, StampConfirmed(v)
    PROVE  QueueInv'
<1>1. /\ visits[v].at = "confirmed" /\ visits[v].held = 0 /\ Mishap /\ visits' = Noted(v)
      /\ queue' = StampHash(queue, visits[v].entry, visits[v].tx)
      /\ UNCHANGED <<issued, syncs, ledger, recorded, begun, causes>>
  BY DEF StampConfirmed
<1>2. visits[v].entry # 0
  BY <1>1 DEF QueueInv, VisitFits
<1>3. Noticed
  BY <1>1, MishapIs DEF QueueInv, TypeOK, Noticed
<1> QED
  BY <1>1, <1>2, <1>3, NotRecording, StampedStep

\* What a screen knows of a payment could not be saved.
LEMMA UnsavedStep ==
    ASSUME QueueInv, NEW v \in Visits, Unsaved(v)
    PROVE  QueueInv'
<1>0. TypeOK /\ VisitFits(v)
  BY DEF QueueInv
<1>1. PICK w : w = visits[v].wish
  OBVIOUS
<1>2. PICK x : x = [visits[v] EXCEPT !.at = "open", !.tx = 0, !.entry = IF visits[v].at = "stamp" THEN 0 ELSE visits[v].entry]
  OBVIOUS
<1>3. /\ visits[v].at \in {"stamp", "confirmed", "posting"} /\ Mishap /\ Recording
      /\ visits' = [visits EXCEPT ![v] = x]
      /\ causes' = causes \union (IF visits[v].held = 0 THEN {<<w, "unsaved">>} ELSE {})
      /\ UNCHANGED <<queue, issued, syncs, ledger, begun>>
  <2>1. visits[v].at \in {"stamp", "confirmed", "posting"} /\ Recording
    <3>1. CASE visits[v].at \in {"stamp", "confirmed"} /\ recorded' = recorded
      BY <3>1, NotRecording
    <3>2. CASE visits[v].at = "posting" /\ PostFails(Hash(v), Told(v))
      BY <3>2, PostFailsIs DEF Confirming
    <3> QED
      BY <3>1, <3>2 DEF Unsaved
  <2>2. visits' = [visits EXCEPT ![v] = x]
    BY <1>2 DEF Unsaved
  <2>3. causes' = causes \union (IF visits[v].held = 0 THEN {<<w, "unsaved">>} ELSE {})
    BY <1>1 DEF Unsaved
  <2> QED
    BY <2>1, <2>2, <2>3 DEF Unsaved
<1>4. w \in begun /\ w \in Wishes /\ (visits[v].tx # 0 => visits[v].held = 0 /\ visits[v].tx \in DOMAIN ledger /\ ledger[visits[v].tx].wish = w)
  BY <1>0, <1>1, <1>3 DEF VisitFits, TypeOK
<1>5. Noticed /\ causes \subseteq causes' /\ (visits[v].held = 0 => <<w, "unsaved">> \in causes')
  <2>1. faults' \in 0 .. MaxFaults
    BY <1>0, <1>3, MishapIs
  <2> QED
    BY <1>0, <1>3, <1>4, <2>1 DEF TypeOK, Cause, Noticed
<1>6. /\ visits' \in [Visits -> Visit]
      /\ \A u \in Visits : u # v => visits'[u] = visits[u]
      /\ visits'[v].at = "open" /\ visits'[v].wish = w /\ visits'[v].held = visits[v].held /\ visits'[v].kept = visits[v].kept
      /\ visits'[v].tx = 0 /\ visits'[v].entry \in {0, visits[v].entry}
      /\ visits[v].held # 0 => visits'[v].entry = visits[v].entry
  <2>1. visits \in [Visits -> Visit] /\ 0 \in 0 .. MaxPayments /\ 0 \in 0 .. MaxEntries
    BY <1>0, OfflineQueueAssumption DEF TypeOK
  <2>2. /\ x \in Visit /\ x.at = "open" /\ x.wish = w /\ x.held = visits[v].held /\ x.kept = visits[v].kept /\ x.tx = 0
        /\ x.entry = IF visits[v].at = "stamp" THEN 0 ELSE visits[v].entry
    BY <1>1, <1>2, <2>1 DEF Visit
  <2>3. visits[v].at = "stamp" => visits[v].held = 0
    BY <1>0 DEF VisitFits
  <2> QED
    BY <1>3, <2>1, <2>2, <2>3
<1>7. TypeOK'
  <2>1. \A u \in Visits : visits'[u].held # 0 => visits'[u].entry # 0
    BY <1>0, <1>6 DEF TypeOK
  <2> QED
    BY <1>0, <1>3, <1>5, <1>6, <2>1 DEF TypeOK, Recording, Noticed
<1>8. WishesFit'
  BY <1>3 DEF QueueInv, WishesFit
<1>9. \A i \in Ids : EntryFits(i)'
  BY <1>3, <1>5 DEF QueueInv, EntryFits, Present, Changed, Has
<1>10. /\ \A i \in Ids : Stays(i)
       /\ \A u \in Visits : visits[u].entry # 0 => visits[u].entry \in Ids
       /\ \A u \in Visits : visits[u].held # 0 => visits[u].held \in Payments
  BY <1>0, <1>3, QueueFields DEF Stays, QueueInv, VisitFits, Payments
<1>11. \A u \in Visits : VisitFits(u)' /\ KeptFits(u)' /\ HashFits(u)'
  <2>1. ASSUME NEW u \in Visits, u # v PROVE VisitFits(u)' /\ KeptFits(u)' /\ HashFits(u)'
    <3>1. Hash(u) # 0 /\ visits[u].at = "confirmed" => Hash(u) \in Payments
      BY <1>0, QueueFields DEF Hash, Payments
    <3>2. VisitFits(u)'
      BY <1>3, <1>6, <2>1, <3>1 DEF QueueInv, VisitFits, Hash, Recording
    <3>3. KeptFits(u)' /\ HashFits(u)'
      BY <1>3, <1>5, <1>6, <1>10, <2>1, KeptStays, HashStays
    <3> QED
      BY <3>2, <3>3
  <2>2. VisitFits(v)'
    BY <1>0, <1>1, <1>3, <1>4, <1>6 DEF VisitFits
  <2>3. KeptFits(v)'
    BY <1>1, <1>3, <1>5, <1>6 DEF QueueInv, KeptFits, Present, Changed, Has
  <2>4. HashFits(v)'
    <3>1. visits[v].held # 0 /\ recorded[visits[v].held] # 0 => recorded'[visits[v].held] # 0
      BY <1>3, <1>10 DEF Recording
    <3> QED
      BY <1>1, <1>3, <1>5, <1>6, <3>1 DEF QueueInv, HashFits, Present, Overlaps, Has
  <2> QED
    BY <2>1, <2>2, <2>3, <2>4
<1>12. \A s \in Hooks : TodoFits(s)'
  BY <1>3, <1>5, StillFit
<1>13. \A u \in Visits : /\ Unsettled(u)' => Unsettled(u) /\ visits'[u].wish = visits[u].wish
                         /\ visits'[u].entry # 0 => visits'[u].entry = visits[u].entry
                         /\ Unsettled(u)' => visits'[u].entry = visits[u].entry \/ <<visits[u].wish, "unsaved">> \in causes'
  BY <1>1, <1>3, <1>5, <1>6 DEF Unsettled
<1>14. Alone'
  BY <1>5, <1>13 DEF QueueInv, Alone, Overlaps, Has
<1>15. SameEntry'
  BY <1>5, <1>13 DEF QueueInv, SameEntry, Overlaps, Has
<1>16. OneEntry'
  <2>1. ASSUME NEW u \in Visits, NEW i \in Ids, Unsettled(u)', Present(i), queue[i].wish = visits'[u].wish, i # visits'[u].entry
        PROVE  \E c \in PaidCause : <<visits'[u].wish, c>> \in causes'
    <3>1. CASE visits'[u].entry = visits[u].entry
      BY <1>5, <1>13, <2>1, <3>1 DEF QueueInv, OneEntry, Has
    <3>2. CASE <<visits[u].wish, "unsaved">> \in causes'
      BY <1>13, <2>1, <3>2 DEF PaidCause
    <3> QED
      BY <1>13, <2>1, <3>1, <3>2
  <2> QED
    BY <1>3, <1>5, <2>1 DEF QueueInv, OneEntry, Has, Present
<1>17. PaidFits'
  <2>1. ASSUME NEW p \in DOMAIN ledger, \A c \in PaidCause : <<ledger[p].wish, c>> \notin causes'
        PROVE  ~Has(ledger[p].wish, PaidCause) /\ (visits[v].held = 0 => ledger[p].wish # w)
    BY <1>5, <2>1 DEF Has, PaidCause
  <2>2. ASSUME NEW p \in DOMAIN ledger, ~Has(ledger[p].wish, PaidCause), visits[v].held = 0 => ledger[p].wish # w
        PROVE  /\ \A q \in DOMAIN ledger : ledger[q].wish = ledger[p].wish => q = p
               /\ \A u \in Visits : visits'[u].wish = ledger[p].wish /\ visits'[u].at = "open" => visits'[u].held # 0
    BY <1>6, <2>2 DEF QueueInv, PaidFits
  <2>3. ASSUME NEW p \in DOMAIN ledger, ~Has(ledger[p].wish, PaidCause), visits[v].held = 0 => ledger[p].wish # w,
               NEW i \in Ids, Present(i), queue[i].wish = ledger[p].wish, queue[i].hash = 0
        PROVE  \E u \in Visits : Unsettled(u)' /\ visits'[u].entry = i
    <3>1. PICK u \in Visits : Unsettled(u) /\ visits[u].entry = i
      BY <2>3 DEF QueueInv, PaidFits
    <3>2. visits[u].wish = queue[i].wish
      BY <2>3, <3>1 DEF QueueInv, VisitFits, EntryFits, Ids
    <3>3. u # v
      BY <1>1, <2>3, <3>1, <3>2 DEF Unsettled
    <3> QED
      BY <1>6, <3>1, <3>3 DEF Unsettled
  <2> QED
    BY <1>3, <2>1, <2>2, <2>3 DEF PaidFits, Has, Present
<1>18. HashIsKept'
  <2>1. ASSUME NEW p \in DOMAIN ledger, NEW u \in Visits, p \in {visits[u].tx, visits[u].held}
        PROVE  p \in {visits'[u].tx, visits'[u].held} \/ <<ledger[p].wish, "unsaved">> \in causes'
    BY <1>0, <1>4, <1>5, <1>6, <2>1, QueueFields
  <2>2. \A p \in DOMAIN ledger : recorded[p] # 0 => recorded'[p] # 0
    BY <1>0, <1>3, QueueFields DEF Recording
  <2> QED
    BY <1>3, <1>5, <2>1, <2>2 DEF QueueInv, HashIsKept, Has
<1>19. NothingIsDropped'
  <2>1. \A p \in DOMAIN ledger : recorded[p] # 0 => recorded'[p] # 0
    BY <1>0, <1>3, QueueFields DEF Recording
  <2> QED
    BY <1>3, <1>5, <2>1 DEF QueueInv, NothingIsDropped, Present, Has
<1>20. RecordedAsPaid'
  BY <1>3, <1>5 DEF RecordedAsPaid, Recording, Changed, Has
<1> QED
  BY <1>7, <1>8, <1>9, <1>11, <1>12, <1>14, <1>15, <1>16, <1>17, <1>18, <1>19, <1>20 DEF QueueInv

-----------------------------------------------------------------------------
(* The passes, and the conflicts screen *)

\* An entry gets another status, or another amount: then that is noted when it
\* was paid or a screen has it.
LEMMA AlteredStep ==
    ASSUME QueueInv, NEW id \in Ids, Present(id), NEW w, w = queue[id].wish, NEW e \in Entry,
           e.status # "none", e.wish = w, e.hash = queue[id].hash, e.amount \in Amounts,
           queue' = [queue EXCEPT ![id] = e],
           UNCHANGED <<issued, visits, ledger, recorded, begun>>, Noticed, causes \subseteq causes',
           \/ e.amount = queue[id].amount
           \/ <<w, "retouched">> \in causes'
           \/ e.hash = 0 /\ \A v \in Visits : visits[v].entry # id,
           syncs' \in [Hooks -> Sync], \A s \in Hooks : syncs'[s].todo \subseteq syncs[s].todo
    PROVE  QueueInv'
<1>0. TypeOK /\ EntryFits(id)
  BY DEF QueueInv
<1>1. queue' \in [Ids -> Entry] /\ queue'[id] = e /\ \A i \in Ids : i # id => queue'[i] = queue[i]
  BY <1>0 DEF TypeOK
<1>2. /\ \A i \in Ids : /\ queue'[i].status # "none" <=> Present(i)
                        /\ queue'[i].wish = queue[i].wish /\ queue'[i].hash = queue[i].hash
      /\ DOMAIN issued \subseteq Ids
      /\ \A u \in Visits : visits[u].entry # 0 => visits[u].entry \in Ids /\ visits[u].entry \in DOMAIN issued /\ issued[visits[u].entry] = visits[u].wish
  BY <1>0, <1>1, QueueFields DEF Present, QueueInv, VisitFits
<1>3. id \in DOMAIN issued /\ w = issued[id] /\ w \in Wishes
  BY <1>0, QueueFields DEF EntryFits
<1>4. TypeOK'
  <2>1. \A i \in Ids : (i > Len(issued) => queue'[i] = NoEntry) /\ (queue'[i].status = "none" => queue'[i] = NoEntry)
    BY <1>0, <1>1 DEF TypeOK, Present, NoEntry
  <2> QED
    BY <1>0, <1>1, <2>1 DEF TypeOK, Noticed
<1>5. WishesFit'
  BY DEF QueueInv, WishesFit
<1>6. \A i \in Ids : EntryFits(i)'
  <2>1. ASSUME NEW i \in Ids, i # id PROVE EntryFits(i)'
    BY <1>1, <2>1 DEF QueueInv, EntryFits, Present, Changed, Has
  <2>2. EntryFits(id)'
    BY <1>0, <1>1, <1>3 DEF EntryFits, Changed, Has
  <2> QED
    BY <2>1, <2>2
<1>7. \A u \in Visits : VisitFits(u)'
  BY DEF QueueInv, VisitFits, Hash
<1>8. \A u \in Visits : KeptFits(u)'
  <2>1. ASSUME NEW u \in Visits, visits[u].entry # id PROVE KeptFits(u)'
    <3>1. KeptFits(u) /\ (visits[u].entry # 0 => queue'[visits[u].entry] = queue[visits[u].entry])
      BY <1>1, <1>2, <2>1 DEF QueueInv
    <3> QED
      BY <3>1 DEF KeptFits, Present, Changed, Has
  <2>2. ASSUME NEW u \in Visits, visits[u].entry = id PROVE KeptFits(u)'
    <3>1. KeptFits(u) /\ id # 0 /\ visits[u].wish = w
      BY <1>2, <1>3, <2>2 DEF QueueInv, Ids
    <3> QED
      BY <1>1, <2>2, <3>1 DEF KeptFits, Present, Changed, Has
  <2> QED
    BY <2>1, <2>2
<1>9. \A u \in Visits : HashFits(u)'
  BY <1>2 DEF QueueInv, HashFits, Present, Overlaps, Has
<1>10. \A s \in Hooks : TodoFits(s)'
  <2>1. ASSUME NEW s \in Hooks, NEW i \in Ids, NEW a \in Amounts, NEW hash \in 1 .. MaxPayments,
               <<i, a, hash>> \in syncs[s].todo
        PROVE  /\ i \in DOMAIN issued /\ hash \in DOMAIN ledger /\ ledger[hash].wish = issued[i]
               /\ a = ledger[hash].amount \/ <<issued[i], "retouched">> \in causes
               /\ queue'[i].status # "none" => queue'[i].hash = hash \/ <<issued[i], "overlap">> \in causes
    <3>1. /\ i \in DOMAIN issued /\ hash \in DOMAIN ledger /\ ledger[hash].wish = issued[i]
          /\ a = ledger[hash].amount \/ Changed(issued[i])
          /\ Present(i) => queue[i].hash = hash \/ Overlaps(issued[i])
      BY <2>1 DEF QueueInv, TodoFits
    <3> QED
      BY <1>2, <3>1 DEF Changed, Overlaps, Has
  <2> QED
    BY <2>1 DEF TodoFits, Present, Changed, Overlaps, Has
<1>11. Alone' /\ SameEntry'
  BY DEF QueueInv, Alone, SameEntry, Overlaps, Has, Unsettled
<1>12. OneEntry'
  BY <1>2 DEF QueueInv, OneEntry, Has, Present, Unsettled
<1>13. PaidFits'
  BY <1>2 DEF QueueInv, PaidFits, Has, Present, Unsettled
<1>14. HashIsKept'
  <2>1. \A i \in Ids : queue'[i].hash = queue[i].hash
    BY <1>2
  <2> QED
    BY <2>1 DEF QueueInv, HashIsKept, Has
<1>15. NothingIsDropped'
  BY <1>2 DEF QueueInv, NothingIsDropped, Present, Has
<1>16. RecordedAsPaid'
  BY DEF QueueInv, RecordedAsPaid, Has
<1> QED
  BY <1>4, <1>5, <1>6, <1>7, <1>8, <1>9, <1>10, <1>11, <1>12, <1>13, <1>14, <1>15, <1>16 DEF QueueInv

\* The user removes a donation, or changes its amount.
LEMMA ResolveStep ==
    ASSUME QueueInv, NEW id \in Ids, Remove(id) \/ \E amount \in Amounts : EditAmount(id, amount)
    PROVE  QueueInv'
<1>0. TypeOK /\ EntryFits(id) /\ syncs \in [Hooks -> Sync] /\ visits \in [Visits -> Visit]
  BY DEF QueueInv, TypeOK
<1>1. PICK w : w = queue[id].wish
  OBVIOUS
<1>2. Present(id) /\ id \in DOMAIN issued /\ w = issued[id] /\ w \in Wishes
  <2>1. Present(id)
    BY DEF Remove, EditAmount, Conflicts, Present
  <2> QED
    BY <1>0, <1>1, <2>1, QueueFields DEF EntryFits
<1>3. CASE Remove(id)
  <2>1. PICK list \in Reads : Saves(list, RemoveQueuedDonation(list, id), {<<w, "removed">>})
    BY <1>1, <1>3 DEF Remove
  <2>2. UNCHANGED <<issued, visits, syncs, ledger, recorded, begun>>
    BY <1>3 DEF Remove
  <2>3. {<<w, "removed">>} \subseteq Wishes \X Cause
    BY <1>2 DEF Cause
  <2>4. {<<w, "removed">>} \subseteq causes' => Explained(id)
    BY <1>2 DEF Explained
  <2>5. Noticed /\ Goes
    BY <2>1, <2>3, <2>4, RemovedIs
  <2> QED
    BY <1>0, <2>2, <2>5, NotRecording, GoneStep
<1>4. ASSUME NEW amount \in Amounts, EditAmount(id, amount) PROVE QueueInv'
  <2>1. PICK known : known = (queue[id].hash # 0 \/ \E v \in Visits : visits[v].entry = id)
    OBVIOUS
  <2>2. PICK list \in Reads :
            /\ queue' = SetAmount(list, id, amount)
            /\ causes' = causes \union (IF known THEN {<<w, "retouched">>} ELSE {}) \union Wiped(list)
    BY <1>1, <1>4, <2>1 DEF EditAmount
  <2>3. Mishap /\ UNCHANGED <<issued, visits, syncs, ledger, recorded, begun>>
    BY <1>4 DEF EditAmount
  <2>4. Noticed /\ causes \subseteq causes' /\ (known => <<w, "retouched">> \in causes')
    <3>1. \A i \in Ids : Present(i) => queue[i].wish \in Wishes
      BY <1>0, QueueFields DEF QueueInv, EntryFits
    <3>2. Wiped(list) \subseteq Wishes \X Cause
      BY <3>1 DEF Wiped, Cause
    <3>3. (IF known THEN {<<w, "retouched">>} ELSE {}) \subseteq Wishes \X Cause
      BY <1>2 DEF Cause
    <3>4. faults' \in 0 .. MaxFaults
      BY <1>0, <2>3, MishapIs
    <3> QED
      BY <1>0, <2>2, <3>2, <3>3, <3>4 DEF TypeOK, Noticed
  <2>5. CASE list = queue
    <3>1. PICK e : e = [queue[id] EXCEPT !.amount = amount, !.status = "pending"]
      OBVIOUS
    <3>2. queue' = [queue EXCEPT ![id] = e]
      BY <1>2, <2>2, <2>5, <3>1 DEF SetAmount, UpdateQueuedDonation, Present, NoEntry
    <3>3. e \in Entry /\ e.status = "pending" /\ e.wish = w /\ e.hash = queue[id].hash /\ e.amount = amount
      <4>1. queue[id] \in Entry /\ amount \in Nat
        BY <1>0, OfflineQueueAssumption DEF TypeOK
      <4> QED
        BY <1>1, <3>1, <4>1 DEF Entry
    <3>4. <<w, "retouched">> \in causes' \/ (e.hash = 0 /\ \A v \in Visits : visits[v].entry # id)
      BY <2>1, <2>4, <3>3
    <3> QED
      BY <1>0, <1>1, <1>2, <2>3, <2>4, <3>2, <3>3, <3>4, AlteredStep
  <2>6. CASE list # queue
    <3>1. list = [i \in Ids |-> NoEntry] /\ NoEntry \in Entry
      BY <2>6, OfflineQueueAssumption DEF Reads, NoEntry, Entry, Wish
    <3>2. queue' = list
      BY <2>2, <3>1 DEF SetAmount, UpdateQueuedDonation
    <3>3. \A i \in Ids : Present(i) => <<queue[i].wish, "wiped">> \in causes'
      BY <2>2, <3>1 DEF Wiped
    <3>4. Goes
      BY <3>1, <3>2, <3>3, BlankIs
    <3> QED
      BY <1>0, <2>3, <2>4, <3>4, NotRecording, GoneStep
  <2> QED
    BY <2>5, <2>6
<1> QED
  BY <1>3, <1>4

\* A pass is started with what the pending entries are.
LEMMA SyncNowStep ==
    ASSUME QueueInv, NEW s \in Hooks, SyncNow(s)
    PROVE  QueueInv'
<1>0. TypeOK /\ syncs \in [Hooks -> Sync]
  BY DEF QueueInv, TypeOK
<1>1. UNCHANGED <<queue, issued, visits, ledger, recorded, begun, causes, faults>>
  BY DEF SyncNow
<1>2. PICK todo : todo = {<<id, queue[id].amount, queue[id].hash>> : id \in {i \in Ids : queue[i].status = "pending"}}
  OBVIOUS
<1>3. PICK ready : ready = {queue[id].amount : id \in {i \in Ids : queue[i].status = "ready"}}
  OBVIOUS
<1>4. \A id \in Ids : Present(id) => queue[id].amount \in Amounts /\ queue[id].hash \in 0 .. MaxPayments
  BY <1>0, QueueFields DEF QueueInv, EntryFits
<1>5. todo \in SUBSET (Ids \X Amounts \X (0 .. MaxPayments))
  <2>1. ASSUME NEW item \in todo PROVE item \in Ids \X Amounts \X (0 .. MaxPayments)
    <3>1. PICK id \in Ids : queue[id].status = "pending" /\ item = <<id, queue[id].amount, queue[id].hash>>
      BY <1>2
    <3> QED
      BY <1>4, <3>1 DEF Present
  <2> QED
    BY <2>1
<1>6. ready \in SUBSET Amounts
  BY <1>3, <1>4 DEF Present
<1>7. PICK x : x = [todo |-> todo, ready |-> ready]
  OBVIOUS
<1>8. x \in Sync /\ x.todo = todo
  BY <1>5, <1>6, <1>7 DEF Sync
<1>9. syncs' = [syncs EXCEPT ![s] = x]
  BY <1>2, <1>3, <1>7 DEF SyncNow
<1>10. syncs' \in [Hooks -> Sync] /\ syncs'[s].todo = todo /\ \A t \in Hooks : t # s => syncs'[t] = syncs[t]
  BY <1>0, <1>8, <1>9
<1>11. TodoFits(s)'
  <2>1. ASSUME NEW id \in Ids, NEW amount \in Amounts, NEW hash \in 1 .. MaxPayments, <<id, amount, hash>> \in todo
        PROVE  /\ id \in DOMAIN issued /\ hash \in DOMAIN ledger /\ ledger[hash].wish = issued[id]
               /\ amount = ledger[hash].amount \/ <<issued[id], "retouched">> \in causes
               /\ queue[id].hash = hash
    <3>1. PICK i \in Ids : queue[i].status = "pending" /\ <<id, amount, hash>> = <<i, queue[i].amount, queue[i].hash>>
      BY <1>2, <2>1
    <3>2. Present(id) /\ amount = queue[id].amount /\ hash = queue[id].hash /\ hash # 0
      BY <3>1 DEF Present
    <3> QED
      BY <3>2 DEF QueueInv, EntryFits, Changed, Has
  <2> QED
    BY <1>1, <1>10, <2>1 DEF TodoFits, Changed, Has
<1>12. \A t \in Hooks : TodoFits(t)'
  <2>1. ASSUME NEW t \in Hooks, t # s PROVE TodoFits(t)'
    BY <1>1, <1>10, <2>1 DEF QueueInv, TodoFits, Present, Changed, Overlaps, Has
  <2> QED
    BY <1>11, <2>1
<1> QED
  BY <1>0, <1>1, <1>10, <1>12, NotRecording, RecordingStep DEF TypeOK

\* A pass has less to do, and still has what fits.
LEMMA CheckedIs ==
    ASSUME QueueInv, NEW s \in Hooks, NEW item, Checked(s, item)
    PROVE  syncs' \in [Hooks -> Sync] /\ \A t \in Hooks : syncs'[t].todo \subseteq syncs[t].todo
<1>0. syncs \in [Hooks -> Sync]
  BY DEF QueueInv, TypeOK
<1>1. PICK rest : rest = syncs[s].todo \ {item}
  OBVIOUS
<1>2. PICK x : x = [syncs[s] EXCEPT !.todo = rest]
  OBVIOUS
<1>3. x \in Sync /\ x.todo = rest /\ NoSync \in Sync /\ NoSync.todo = {}
  BY <1>0, <1>1, <1>2 DEF Sync, NoSync
<1>4. syncs' = [syncs EXCEPT ![s] = IF rest = {} THEN NoSync ELSE x]
  BY <1>1, <1>2 DEF Checked
<1>5. syncs' \in [Hooks -> Sync] /\ \A t \in Hooks : syncs'[t] = IF t = s THEN (IF rest = {} THEN NoSync ELSE x) ELSE syncs[t]
  BY <1>0, <1>3, <1>4
<1> QED
  BY <1>1, <1>3, <1>5

\* What is known of a paid donation that a pass has to send.
LEMMA ItemIs ==
    ASSUME QueueInv, NEW s \in Hooks, NEW id \in Ids, NEW amount \in Amounts, NEW hash \in 0 .. MaxPayments,
           <<id, amount, hash>> \in syncs[s].todo, hash # 0
    PROVE  /\ id \in DOMAIN issued /\ hash \in DOMAIN ledger /\ ledger[hash].wish = issued[id]
           /\ amount = ledger[hash].amount \/ Changed(ledger[hash].wish)
           /\ Present(id) => queue[id].hash = hash \/ Overlaps(issued[id])
           /\ recorded' = recorded \/ recorded' = [recorded EXCEPT ![hash] = amount] => Recording
           /\ recorded' = [recorded EXCEPT ![hash] = amount] => recorded'[hash] # 0
<1>0. TypeOK
  BY DEF QueueInv
<1>1. hash \in 1 .. MaxPayments
  BY OfflineQueueAssumption
<1>2. /\ id \in DOMAIN issued /\ hash \in DOMAIN ledger /\ ledger[hash].wish = issued[id]
      /\ amount = ledger[hash].amount \/ Changed(ledger[hash].wish)
      /\ Present(id) => queue[id].hash = hash \/ Overlaps(issued[id])
  BY <1>1 DEF QueueInv, TodoFits
<1>3. recorded' = [recorded EXCEPT ![hash] = amount] => recorded'[hash] # 0
  BY <1>0, <1>1, OfflineQueueAssumption DEF TypeOK, Payments
<1> QED
  BY <1>2, <1>3, PostIs

\* An entry is checked and what the check asks for is saved.
LEMMA PreflightCheckStep ==
    ASSUME QueueInv, NEW s \in Hooks, NEW id \in Ids, PreflightCheck(s, id)
    PROVE  QueueInv'
<1>0. TypeOK /\ visits \in [Visits -> Visit]
  BY DEF QueueInv, TypeOK
<1>1. UNCHANGED <<issued, visits, ledger, begun>>
  BY DEF PreflightCheck
<1>2. PICK amount \in Amounts, hash \in 0 .. MaxPayments :
          /\ <<id, amount, hash>> \in syncs[s].todo /\ Checked(s, <<id, amount, hash>>)
          /\ IF hash # 0 THEN Completes(id, amount, hash) ELSE Decides(id, amount, syncs[s].ready)
  BY DEF PreflightCheck, First
<1>3. syncs' \in [Hooks -> Sync] /\ \A t \in Hooks : syncs'[t].todo \subseteq syncs[t].todo
  BY <1>2, CheckedIs
<1>4. CASE hash # 0
  <2>1. PICK list \in Reads : Saves(list, RemoveQueuedDonation(list, id), {})
    BY <1>2, <1>4 DEF Completes
  <2>2. /\ id \in DOMAIN issued /\ hash \in DOMAIN ledger /\ ledger[hash].wish = issued[id]
        /\ Present(id) => queue[id].hash = hash \/ Overlaps(issued[id])
        /\ Recording /\ recorded'[hash] # 0
    <3>1. <<id, amount, hash>> \in syncs[s].todo /\ recorded' = [recorded EXCEPT ![hash] = amount]
      BY <1>2, <1>4 DEF Completes, Post
    <3>2. /\ id \in DOMAIN issued /\ hash \in DOMAIN ledger /\ ledger[hash].wish = issued[id]
          /\ Present(id) => queue[id].hash = hash \/ Overlaps(issued[id])
      BY <1>4, <3>1, ItemIs
    <3>3. Recording
      BY <1>4, <3>1, ItemIs
    <3>4. recorded'[hash] # 0
      <4>1. hash \in Payments /\ amount # 0
        BY <1>4, OfflineQueueAssumption DEF Payments
      <4>2. recorded \in [Payments -> Nat]
        BY <1>0 DEF TypeOK
      <4> QED
        BY <3>1, <4>1, <4>2
    <3> QED
      BY <3>2, <3>3, <3>4
  <2>3. ASSUME Present(id) PROVE Explained(id)
    <3>1. CASE Overlaps(issued[id])
      BY <2>2, <3>1 DEF Explained
    <3>2. CASE ~Overlaps(issued[id])
      <4>1. queue[id].hash = hash
        BY <2>2, <2>3, <3>2
      <4>2. ASSUME NEW u \in Visits, visits[u].entry = id, Unsettled(u) PROVE FALSE
        <5>1. HashFits(u) /\ visits[u].held = 0 /\ id # 0 /\ visits[u].wish = issued[id]
          BY <4>2 DEF QueueInv, VisitFits, Unsettled, Ids
        <5> QED
          BY <1>4, <2>3, <3>2, <4>1, <4>2, <5>1 DEF HashFits
      <4> QED
        BY <2>2, <4>1, <4>2 DEF Explained
    <3> QED
      BY <3>1, <3>2
  <2>4. Noticed /\ Goes
    BY <2>1, <2>3, RemovedIs
  <2> QED
    BY <1>0, <1>1, <1>3, <2>2, <2>4, GoneStep
<1>5. CASE hash = 0
  <2>1. PICK list \in Reads, status \in {"duplicate", "inactive", "balance", "ready"} : Saves(list, SetStatus(list, id, status), {})
    BY <1>2, <1>5 DEF Decides
  <2>2. recorded' = recorded
    BY <1>2, <1>5 DEF Decides
  <2>3. /\ Noticed /\ queue' = SetStatus(list, id, status) /\ list \in [Ids -> Entry]
        /\ \/ list = queue
           \/ /\ \A i \in Ids : list[i] = NoEntry
              /\ \A i \in Ids : Present(i) => <<queue[i].wish, "wiped">> \in causes'
    BY <2>1, SavesIs
  <2>4. CASE list = queue /\ Present(id)
    <3>1. PICK w : w = queue[id].wish
      OBVIOUS
    <3>2. PICK e : e = [queue[id] EXCEPT !.status = status]
      OBVIOUS
    <3>3. queue' = [queue EXCEPT ![id] = e]
      BY <2>3, <2>4, <3>2 DEF SetStatus, UpdateQueuedDonation, Present, NoEntry
    <3>4. e \in Entry /\ e.status = status /\ e.wish = w /\ e.hash = queue[id].hash /\ e.amount = queue[id].amount
      <4>1. queue[id] \in Entry
        BY <1>0 DEF TypeOK
      <4> QED
        BY <3>1, <3>2, <4>1 DEF Entry, Conflicts
    <3>5. queue[id].amount \in Amounts
      BY <2>4 DEF QueueInv, EntryFits
    <3>6. causes \subseteq causes'
      BY <2>3 DEF Noticed
    <3> QED
      BY <1>1, <1>3, <2>2, <2>3, <2>4, <3>1, <3>3, <3>4, <3>5, <3>6, AlteredStep
  <2>5. CASE list = queue /\ ~Present(id)
    <3>1. queue' = queue
      BY <1>0, <2>3, <2>5 DEF SetStatus, UpdateQueuedDonation, Present, TypeOK
    <3>2. Goes
      BY <1>0, <3>1 DEF Goes, TypeOK
    <3> QED
      BY <1>0, <1>1, <1>3, <2>2, <2>3, <3>2, NotRecording, GoneStep
  <2>6. CASE list # queue
    <3>1. queue' = list
      BY <2>3, <2>6 DEF SetStatus, UpdateQueuedDonation
    <3>2. Goes
      BY <2>3, <2>6, <3>1, BlankIs
    <3> QED
      BY <1>0, <1>1, <1>3, <2>2, <2>3, <3>2, NotRecording, GoneStep
  <2> QED
    BY <2>4, <2>5, <2>6
<1> QED
  BY <1>4, <1>5

\* A check fails, or what it asks for cannot be saved.
LEMMA PreflightFailsStep ==
    ASSUME QueueInv, NEW s \in Hooks, NEW id \in Ids, PreflightFails(s, id) \/ PreflightUnsaved(s, id)
    PROVE  QueueInv'
<1>0. TypeOK /\ syncs \in [Hooks -> Sync]
  BY DEF QueueInv, TypeOK
<1>1. UNCHANGED <<queue, issued, visits, ledger, begun, causes>> /\ faults' \in 0 .. MaxFaults
  BY <1>0, MishapIs DEF PreflightFails, PreflightUnsaved, TypeOK
<1>2. PICK amount \in Amounts, hash \in 0 .. MaxPayments :
          /\ <<id, amount, hash>> \in syncs[s].todo
          /\ Checked(s, <<id, amount, hash>>) \/ syncs' = [syncs EXCEPT ![s] = NoSync]
          /\ IF hash # 0 THEN recorded' = recorded \/ recorded' = [recorded EXCEPT ![hash] = amount] ELSE recorded' = recorded
  BY DEF PreflightFails, PreflightUnsaved, First, PostFails, Post
<1>3. syncs' \in [Hooks -> Sync] /\ \A t \in Hooks : syncs'[t].todo \subseteq syncs[t].todo
  <2>1. CASE Checked(s, <<id, amount, hash>>)
    BY <2>1, CheckedIs
  <2>2. CASE syncs' = [syncs EXCEPT ![s] = NoSync]
    <3>1. NoSync \in Sync /\ NoSync.todo = {}
      BY DEF NoSync, Sync
    <3> QED
      BY <1>0, <2>2, <3>1
  <2> QED
    BY <1>2, <2>1, <2>2
<1>4. Recording
  <2>1. CASE hash = 0
    BY <1>2, <2>1, NotRecording
  <2>2. CASE hash # 0
    BY <1>2, <2>2, ItemIs
  <2> QED
    BY <2>1, <2>2
<1> QED
  BY <1>1, <1>3, <1>4, StillFit, RecordingStep

-----------------------------------------------------------------------------

\* The app is stopped: what a screen knew and the queue does not is lost.
LEMMA StopStep ==
    ASSUME QueueInv, Stop
    PROVE  QueueInv'
<1>0. TypeOK /\ faults \in 0 .. MaxFaults
  BY DEF QueueInv, TypeOK
<1>1. UNCHANGED <<queue, issued, ledger, recorded, begun>>
  BY DEF Stop
<1>2. /\ visits' \in [Visits -> Visit] /\ \A v \in Visits : visits'[v] = Away
      /\ syncs' \in [Hooks -> Sync] /\ \A s \in Hooks : syncs'[s].todo = {}
      /\ Away.at = "away" /\ Away.wish = "none" /\ Away.entry = 0 /\ Away.held = 0 /\ Away.tx = 0
  <2>1. Away \in Visit /\ NoSync \in Sync /\ NoSync.todo = {}
    BY OfflineQueueAssumption DEF Away, Visit, Wish, NoSync, Sync
  <2> QED
    BY <2>1 DEF Stop, Away
<1>3. /\ causes \subseteq causes'
      /\ \A v \in Visits : visits[v].at \in {"posting", "stamp", "confirmed"} => <<visits[v].wish, "stopped">> \in causes'
  BY DEF Stop
<1>4. TypeOK'
  <2>1. causes' \subseteq Wishes \X Cause
    <3>1. \A v \in Visits : visits[v].at \in {"posting", "stamp", "confirmed"} => visits[v].wish \in Wishes
      BY <1>0 DEF QueueInv, VisitFits, TypeOK
    <3> QED
      BY <1>0, <3>1 DEF Stop, TypeOK, Cause
  <2>2. faults' \in 0 .. MaxFaults
    BY <1>0, MishapIs DEF Stop
  <2> QED
    BY <1>0, <1>1, <1>2, <2>1, <2>2 DEF TypeOK
<1>5. WishesFit'
  BY <1>1 DEF QueueInv, WishesFit
<1>6. \A i \in Ids : EntryFits(i)'
  BY <1>1, <1>3 DEF QueueInv, EntryFits, Present, Changed, Has
<1>7. \A u \in Visits : VisitFits(u)' /\ KeptFits(u)' /\ HashFits(u)'
  BY <1>2 DEF VisitFits, KeptFits, HashFits
<1>8. \A s \in Hooks : TodoFits(s)'
  BY <1>2 DEF TodoFits
<1>9. Alone' /\ SameEntry'
  BY <1>2 DEF Alone, SameEntry, Unsettled
<1>10. OneEntry'
  BY <1>1, <1>2, <1>3 DEF QueueInv, OneEntry, Has, Present, Unsettled
<1>11. PaidFits'
  <2>1. ASSUME NEW p \in DOMAIN ledger, \A c \in PaidCause : <<ledger[p].wish, c>> \notin causes',
               NEW id \in Ids, Present(id), queue[id].wish = ledger[p].wish, queue[id].hash = 0
        PROVE  FALSE
    <3>1. ~Has(ledger[p].wish, PaidCause) /\ <<ledger[p].wish, "stopped">> \notin causes'
      BY <1>3, <2>1 DEF Has, PaidCause
    <3>2. PICK u \in Visits : Unsettled(u) /\ visits[u].entry = id
      BY <2>1, <3>1 DEF QueueInv, PaidFits
    <3>3. visits[u].wish = ledger[p].wish /\ visits[u].at # "away" /\ visits[u].held = 0
      BY <2>1, <3>2 DEF QueueInv, VisitFits, EntryFits, Away, Ids, Unsettled
    <3>4. visits[u].at # "open"
      BY <3>1, <3>3 DEF QueueInv, PaidFits
    <3>5. visits[u].at \in {"posting", "stamp", "confirmed"}
      BY <1>0, <3>3, <3>4 DEF TypeOK, Visit
    <3> QED
      BY <1>3, <3>1, <3>3, <3>5
  <2>2. ASSUME NEW p \in DOMAIN ledger, \A c \in PaidCause : <<ledger[p].wish, c>> \notin causes'
        PROVE  \A q \in DOMAIN ledger : ledger[q].wish = ledger[p].wish => q = p
    <3>1. ~Has(ledger[p].wish, PaidCause)
      BY <1>3, <2>2 DEF Has
    <3> QED
      BY <3>1 DEF QueueInv, PaidFits
  <2> QED
    BY <1>1, <1>2, <2>1, <2>2 DEF PaidFits, Has, Present
<1>12. HashIsKept'
  <2>1. ASSUME NEW p \in DOMAIN ledger, NEW v \in Visits, p \in {visits[v].tx, visits[v].held}
        PROVE  \/ recorded[p] # 0 \/ \E id \in Ids : queue[id].hash = p
               \/ \E c \in {"unanswered", "stopped", "removed", "overlap", "unsaved", "wiped"} : <<ledger[p].wish, c>> \in causes'
    <3>1. p # 0 /\ VisitFits(v) /\ HashFits(v)
      BY <1>0, QueueFields DEF QueueInv
    <3>2. ledger[p].wish = visits[v].wish /\ visits[v].at # "away"
      BY <2>1, <3>1 DEF VisitFits, Away
    <3>3. CASE visits[v].at \in {"posting", "stamp", "confirmed"}
      BY <1>3, <3>2, <3>3
    <3>4. CASE visits[v].at \notin {"posting", "stamp", "confirmed"}
      <4>1. p = visits[v].held /\ visits[v].entry # 0 /\ visits[v].entry \in Ids
        BY <1>0, <2>1, <3>1, <3>4, QueueFields DEF VisitFits, TypeOK, Ids
      <4> QED
        BY <1>3, <3>1, <3>2, <4>1 DEF HashFits, Overlaps, Has, LostCause
    <3> QED
      BY <3>3, <3>4
  <2> QED
    BY <1>1, <1>3, <2>1 DEF QueueInv, HashIsKept, Has
<1>13. NothingIsDropped'
  BY <1>1, <1>3 DEF QueueInv, NothingIsDropped, Present, Has
<1>14. RecordedAsPaid'
  BY <1>1, <1>3 DEF QueueInv, RecordedAsPaid, Has
<1> QED
  BY <1>4, <1>5, <1>6, <1>7, <1>8, <1>9, <1>10, <1>11, <1>12, <1>13, <1>14 DEF QueueInv

\* Every step of the app keeps the inductive invariant.
THEOREM QueueNextInv == QueueInv /\ [Next]_vars => QueueInv'
<1> SUFFICES ASSUME QueueInv, [Next]_vars PROVE QueueInv'
  OBVIOUS
<1>1. ASSUME NEW v \in Visits, NEW w \in Wishes, Open(v, w) PROVE QueueInv'
  BY <1>1, OpenStep
<1>2. ASSUME NEW v \in Visits, NEW id \in Ids, CompleteNow(v, id) \/ CompleteUnread(v, id) PROVE QueueInv'
  BY <1>2, CompleteNowStep, CompleteUnreadStep
<1>11. ASSUME NEW v \in Visits, NEW u \in Visits, TapAgain(v, u) PROVE QueueInv'
  BY <1>11, TapAgainStep
<1>3. ASSUME NEW v \in Visits, NEW amount \in Amounts, Donate(v, amount) \/ DonateUnanswered(v, amount) PROVE QueueInv'
  BY <1>3, DonateStep
<1>4. ASSUME NEW v \in Visits, NEW amount \in Amounts, DonateOffline(v, amount) PROVE QueueInv'
  BY <1>4, DonateOfflineStep
<1>5. ASSUME NEW v \in Visits,
             \/ Leave(v) \/ Confirmed(v) \/ RemoveConfirmed(v) \/ ConfirmationFails(v)
             \/ Rescue(v) \/ Stamp(v) \/ StampConfirmed(v) \/ Unsaved(v)
      PROVE  QueueInv'
  BY <1>5, LeaveStep, ConfirmedStep, RemoveConfirmedStep, ConfirmationFailsStep, RescueStep, StampStep,
     StampConfirmedStep, UnsavedStep
<1>6. ASSUME NEW id \in Ids, Remove(id) \/ \E amount \in Amounts : EditAmount(id, amount) PROVE QueueInv'
  BY <1>6, ResolveStep
<1>7. ASSUME NEW s \in Hooks, SyncNow(s) PROVE QueueInv'
  BY <1>7, SyncNowStep
<1>8. ASSUME NEW s \in Hooks, NEW id \in Ids,
             PreflightCheck(s, id) \/ PreflightFails(s, id) \/ PreflightUnsaved(s, id)
      PROVE  QueueInv'
  BY <1>8, PreflightCheckStep, PreflightFailsStep
<1>9. CASE Stop
  BY <1>9, StopStep
<1>10. CASE UNCHANGED vars
  <2>1. /\ syncs' \in [Hooks -> Sync] /\ faults' \in 0 .. MaxFaults
        /\ UNCHANGED <<queue, issued, visits, syncs, ledger, recorded, begun, causes>>
    BY <1>10 DEF vars, QueueInv, TypeOK
  <2> QED
    BY <2>1, NotRecording, StillFit, RecordingStep
<1> QED
  BY <1>1, <1>2, <1>3, <1>4, <1>5, <1>6, <1>7, <1>8, <1>9, <1>10, <1>11 DEF Next

\* The inductive invariant of the queue holds in every behaviour: where the
\* hash of a payment is, and who may still pay for a wish.
THEOREM QueueInvariantHolds == Spec => []QueueInv
<1> QED
  BY QueueInitInv, QueueNextInv, PTL DEF Spec

\* A payment the backend does not know of has its hash in the queue or on a
\* screen, and a queued donation stays until it is recorded or removed, unless
\* a list that could not be read is saved or another named thing happens, in
\* every interleaving of screens, passes, failures and stops of the app.
THEOREM PaymentsAreNotForgotten == Spec => []NothingIsLost
<1>1. QueueInv => NothingIsLost
  BY DEF QueueInv, NothingIsLost
<1> QED
  BY <1>1, QueueInvariantHolds, PTL

\* Of what was paid the backend never records another amount, unless the user
\* changed the donation after it had been queued.
THEOREM AmountsAreRecorded == Spec => []RecordedAsPaid
<1>1. QueueInv => RecordedAsPaid
  BY DEF QueueInv
<1> QED
  BY <1>1, QueueInvariantHolds, PTL

\* Nothing is paid for twice unless one of six things happened: a submission
\* was not answered, the app was stopped, the donation was saved again, two
\* screens or taps worked on it, its entry was not loaded, or the hash could
\* not be saved.
THEOREM SecondPaymentsHaveCause == Spec => []PaidTwiceHasCause
<1>1. QueueInv => PaidTwiceHasCause
  <2> SUFFICES ASSUME QueueInv, NEW w \in Wishes, Cardinality({p \in DOMAIN ledger : ledger[p].wish = w}) > 1,
                      ~Has(w, {"unanswered", "stopped", "requeued", "overlap", "unread", "unsaved"})
               PROVE  FALSE
    BY DEF PaidTwiceHasCause
  <2>1. ~Has(w, PaidCause)
    BY DEF Has, PaidCause
  <2>2. PICK S : S = {p \in DOMAIN ledger : ledger[p].wish = w}
    OBVIOUS
  <2>3. Cardinality(S) > 1
    BY <2>2
  <2>4. CASE S = {}
    <3>1. Cardinality(S) = 0
      BY <2>4, FS_EmptySet
    <3> QED
      BY <2>3, <3>1
  <2>5. CASE S # {}
    <3>1. PICK p \in DOMAIN ledger : ledger[p].wish = w
      BY <2>2, <2>5
    <3>2. \A q \in DOMAIN ledger : ledger[q].wish = w => q = p
      BY <2>1, <3>1 DEF QueueInv, PaidFits
    <3>3. S = {p}
      BY <2>2, <3>1, <3>2
    <3>4. Cardinality(S) = 1
      BY <3>3, FS_Singleton
    <3> QED
      BY <2>3, <3>4
  <2> QED
    BY <2>4, <2>5
<1> QED
  BY <1>1, QueueInvariantHolds, PTL
=============================================================================
