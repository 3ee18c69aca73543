-------------------------- MODULE MessageStreamProofs -------------------------
(***************************************************************************)
(* The stream of one message: the safety properties of MessageStream for   *)
(* any number of writers, revisions and losses of the stream.  What has to *)
(* be shown is that every event that is under way, in a publication, in    *)
(* the bridge or before the page, tells of a revision that SQL has, and an *)
(* End of the last one; and that what a writer found in the bridge before  *)
(* it sends is still there when it does.                                   *)
(***************************************************************************)
EXTENDS MessageStream, FiniteSetTheorems, SequenceTheorems, WellFoundedInduction, TLAPS

Row == [revision : 0..MaxRevision, ended : BOOLEAN, due : BOOLEAN, expired : BOOLEAN]

Publication ==
  [at : {"idle", "read", "state", "ensure", "init", "snapshot", "send", "mark"},
   todo : Seq(Event), revision : 0..MaxRevision, ended : BOOLEAN]

Page ==
  [at : {"closed", "discover", "live", "repair", "refresh", "reload", "done"},
   revision : 0..MaxRevision, content : SUBSET (1..MaxRevision), ended : BOOLEAN,
   found : {"unseen", "watching", "gone", "history"}, saw : BOOLEAN]

Reader == [state : {"off", "on", "done"}, pos : Nat, flight : Seq(Event)]

\* The message in SQL: only a question has an answer due, and none is ended unwritten.
RowInv ==
  /\ kind \in {"operator", "harness", "human"} /\ listener \in {"message", "conv"}
  /\ row \in Row
  /\ losses \in 0..MaxLosses
  /\ row.revision = 0 => ~row.ended
  /\ row.due => kind = "human"

\* An event tells of a revision that row r has, an End of the last one.
Sound(e, r, k) ==
  /\ e.seq <= r.revision
  /\ e.op = "end" => r.ended /\ e.seq = r.revision /\ k # "human"

\* The log has a newer body, or the predecessor.
Follows(e, log) == e.op = "start" \/ \E j \in 1..Len(log) : log[j].seq + 1 >= e.seq

BridgeInv ==
  /\ bridge \in [exists : BOOLEAN, log : Seq(Event), terminal : BOOLEAN]
  /\ bridge.exists <=> bridge.log # <<>>
  /\ \A i \in 1..Len(bridge.log) : Sound(bridge.log[i], row, kind)
  /\ LogGapFree

\* What a writer is doing: it publishes what is committed; what it is about to send
\* follows the log, as long as the stream has not been lost.
Working(u, r, k, log, lost) ==
  /\ u \in Publication
  /\ \A j \in 1..Len(u.todo) : Sound(u.todo[j], r, k)
  /\ u.at # "idle" => r.revision >= 1
  /\ u.at \in {"read", "state", "snapshot", "send"} => u.todo # <<>>
  /\ u.at = "init" => u.revision \in 1..r.revision
  /\ u.at = "send" /\ lost = 0 => Follows(Head(u.todo), log)

PubInv ==
  /\ pub = [w \in Writer |-> pub[w]]
  /\ \A w \in Writer : Working(pub[w], row, kind, bridge.log, losses)

ReaderInv ==
  /\ reader \in [state : {"off", "on", "done"}, pos : Nat, flight : Seq(Event)]
  /\ \A j \in 1..Len(reader.flight) : Sound(reader.flight[j], row, kind)

PageInv ==
  /\ page \in Page
  /\ page.saw => row.ended
  /\ PageFaithful

\* What every step keeps.
StreamInv == RowInv /\ BridgeInv /\ PubInv /\ ReaderInv /\ PageInv

-----------------------------------------------------------------------------
\* Events and sequences.

LEMMA StreamBounds == MaxRevision \in Nat /\ MaxRevision >= 1 /\ MaxLosses \in Nat
  BY StreamAssumption

\* A set of naturals with a bound has a greatest element: the elements above x are
\* fewest when there are none.
LEMMA Greatest ==
  ASSUME NEW n \in Nat, NEW S \in SUBSET (0..n), S # {}
  PROVE  \E x \in S : \A y \in S : x >= y
<1> DEFINE Above(x) == {y \in S : y > x}
           family == {Above(x) : x \in S}
<1>1. IsFiniteSet(S)
  <2>1. IsFiniteSet(0..n)
    BY FS_Interval
  <2> QED
    BY <2>1, FS_Subset
<1>2. family \subseteq FiniteSubsetsOf(S) /\ family # {}
  <2>1. FiniteSubsetsOf(S) = SUBSET S
    BY <1>1, FS_FiniteSubsetsOfFinite
  <2>2. family \subseteq SUBSET S /\ family # {}
    OBVIOUS
  <2> QED
    BY <2>1, <2>2
<1>3. \E A \in family : \A B \in family : <<B, A>> \notin StrictSubsetOrdering(S)
  <2> HIDE DEF family
  <2> QED
    BY <1>2, FS_StrictSubsetOrderingWellFounded, WFMin
<1>4. PICK x \in S : \A y \in S : <<Above(y), Above(x)>> \notin StrictSubsetOrdering(S)
  BY <1>3
<1>5. ASSUME NEW y \in S, ~(x >= y) PROVE FALSE
  <2>1. Above(y) \subseteq S /\ Above(x) \subseteq S
    OBVIOUS
  <2>2. x \in Nat /\ y \in Nat /\ y > x
    BY <1>5
  <2>3. y \in Above(x) /\ y \notin Above(y)
    BY <2>2
  <2>4. ASSUME NEW z \in Above(y) PROVE z \in Above(x)
    <3>1. z \in S /\ z \in Nat /\ z > y
      OBVIOUS
    <3> QED
      BY <2>2, <3>1
  <2>5. <<Above(y), Above(x)>> \in StrictSubsetOrdering(S)
    BY <2>1, <2>3, <2>4 DEF StrictSubsetOrdering
  <2> QED
    BY <1>4, <2>5
<1> QED
  BY <1>5

\* The last sequence number of a log is one of its own.
LEMMA LastOfLog ==
  ASSUME BridgeInv, bridge.log # <<>>
  PROVE  \E i \in 1..Len(bridge.log) : bridge.log[i].seq = LastSeq
<1>1. PICK log \in Seq(Event) : log = bridge.log
  BY DEF BridgeInv
<1> DEFINE S == {log[i].seq : i \in DOMAIN log}
<1>2. DOMAIN log = 1..Len(log) /\ Len(log) >= 1 /\ \A i \in 1..Len(log) : log[i] \in Event
  BY <1>1, EmptySeq, LenProperties, ElementOfSeq
<1>3. S \in SUBSET (0..MaxRevision) /\ S # {}
  BY <1>2, StreamBounds DEF Event
<1>4. LastSeq = Max(S)
  BY <1>1 DEF LastSeq
<1>5. Max(S) \in S
  <2> HIDE DEF S
  <2> QED
    BY <1>3, StreamBounds, Greatest DEF Max
<1> QED
  BY <1>1, <1>2, <1>4, <1>5

\* A row that moves on keeps what is known of it; output that has ended stays as it is.
Grown(r, s, k) ==
  /\ r \in Row /\ s \in Row
  /\ s.revision >= r.revision
  /\ r.ended => s.ended
  /\ r.ended /\ k # "human" => s.revision = r.revision

LEMMA SoundKept ==
  ASSUME NEW r, NEW s, NEW k, Grown(r, s, k), NEW e \in Event, Sound(e, r, k)
  PROVE  Sound(e, s, k)
<1>1. r.revision \in Nat /\ s.revision \in Nat /\ e.seq \in Nat
  BY StreamBounds DEF Grown, Row, Event
<1> QED
  BY <1>1 DEF Grown, Sound

LEMMA SoundAll ==
  ASSUME NEW r, NEW s, NEW k, Grown(r, s, k), NEW q \in Seq(Event),
         \A i \in 1..Len(q) : Sound(q[i], r, k)
  PROVE  \A i \in 1..Len(q) : Sound(q[i], s, k)
  BY SoundKept, ElementOfSeq

\* A log that has grown.
Extends(log, more) ==
  /\ Len(log) \in Nat /\ Len(more) \in Nat /\ Len(log) <= Len(more)
  /\ \A i \in 1..Len(log) : more[i] = log[i]

LEMMA WorkingKept ==
  ASSUME NEW r, NEW s, NEW k, Grown(r, s, k), NEW log, NEW more, NEW lost, NEW lost2,
         lost2 = 0 => lost = 0 /\ Extends(log, more),
         NEW u, Working(u, r, k, log, lost)
  PROVE  Working(u, s, k, more, lost2)
<1>1. u \in Publication /\ \A j \in 1..Len(u.todo) : Sound(u.todo[j], s, k)
  <2>1. PICK q \in Seq(Event) : q = u.todo
    BY DEF Working, Publication
  <2>2. \A i \in 1..Len(q) : Sound(q[i], s, k)
    BY <2>1, SoundAll DEF Working
  <2> QED
    BY <2>1, <2>2 DEF Working
<1>2. r.revision \in Nat /\ s.revision \in Nat /\ s.revision >= r.revision
  BY StreamBounds DEF Grown, Row
<1>3. u.at # "idle" => s.revision >= 1
  BY <1>2 DEF Working
<1>4. u.at = "init" => u.revision \in 1..s.revision
  BY <1>2 DEF Working
<1>5. u.at = "send" /\ lost2 = 0 => Follows(Head(u.todo), more)
  <2> SUFFICES ASSUME u.at = "send", lost2 = 0 PROVE Follows(Head(u.todo), more)
    OBVIOUS
  <2>1. PICK e : e = Head(u.todo)
    OBVIOUS
  <2>2. Follows(e, log) /\ Extends(log, more)
    BY <2>1 DEF Working
  <2>3. Follows(e, more)
    BY <2>2 DEF Follows, Extends
  <2> QED
    BY <2>1, <2>3
<1> QED
  BY <1>1, <1>3, <1>4, <1>5 DEF Working

\* A publication that has events to publish.
LEMMA IdleTypes ==
  /\ Idle \in Publication /\ Idle.at = "idle" /\ Idle.todo = <<>> /\ Len(<<>>) = 0
  /\ \A q \in Seq(Event) :
       LET u == [Idle EXCEPT !.at = "read", !.todo = q]
       IN u \in Publication /\ u.at = "read" /\ u.todo = q
<1>1. Idle \in Publication /\ Idle.at = "idle" /\ Idle.todo = <<>> /\ Len(<<>>) = 0
  BY StreamBounds, EmptySeq DEF Idle, Publication
<1>2. ASSUME NEW q \in Seq(Event)
      PROVE  LET u == [Idle EXCEPT !.at = "read", !.todo = q]
             IN u \in Publication /\ u.at = "read" /\ u.todo = q
  BY <1>1 DEF Publication
<1> QED
  BY <1>1, <1>2

\* A publication that goes to its next event, or closes the stream.
LEMMA NextEventWorks ==
  ASSUME NEW r, NEW k, NEW log, NEW lost, NEW u, Working(u, r, k, log, lost), u.at # "idle"
  PROVE  Working(NextEvent(u), r, k, log, lost) /\ Working(Idle, r, k, log, lost)
<1>1. PICK q \in Seq(Event) : q = u.todo
  BY DEF Working, Publication
<1>2. Idle \in Publication /\ Idle.at = "idle" /\ Idle.todo = <<>> /\ Len(<<>>) = 0
  BY IdleTypes
<1>3. Working(Idle, r, k, log, lost)
  <2>1. \A j \in 1..Len(Idle.todo) : Sound(Idle.todo[j], r, k)
    BY <1>2
  <2> QED
    BY <1>2, <2>1 DEF Working
<1>4. CASE q = <<>> \/ Tail(q) = <<>>
  BY <1>1, <1>3, <1>4 DEF NextEvent
<1>5. CASE q # <<>> /\ Tail(q) # <<>>
  <2> DEFINE next == [Idle EXCEPT !.at = "read", !.todo = Tail(q)]
  <2>1. NextEvent(u) = next
    BY <1>1, <1>5 DEF NextEvent
  <2>2. /\ Tail(q) \in Seq(Event) /\ Len(Tail(q)) = Len(q) - 1 /\ Len(q) \in Nat
        /\ \A j \in 1..Len(Tail(q)) : Tail(q)[j] = q[j + 1]
    BY <1>5, HeadTailProperties, LenProperties
  <2>3. next \in Publication /\ next.at = "read" /\ next.todo = Tail(q)
    BY <2>2, IdleTypes
  <2>4. \A j \in 1..Len(Tail(q)) : Sound(Tail(q)[j], r, k)
    <3>1. \A j \in 1..Len(Tail(q)) : j + 1 \in 1..Len(q)
      BY <2>2
    <3>2. \A j \in 1..Len(q) : Sound(q[j], r, k)
      BY <1>1 DEF Working
    <3> QED
      BY <2>2, <3>1, <3>2
  <2>5. r.revision >= 1
    BY DEF Working
  <2> HIDE DEF next
  <2>6. Working(next, r, k, log, lost)
    BY <1>5, <2>3, <2>4, <2>5 DEF Working
  <2> QED
    BY <1>3, <2>1, <2>6
<1> QED
  BY <1>4, <1>5

LEMMA ClosingWorks ==
  ASSUME NEW r, NEW k, NEW log, NEW lost, NEW u, Working(u, r, k, log, lost), u.at # "idle"
  PROVE  Working(Closing(u), r, k, log, lost)
<1> DEFINE next == [u EXCEPT !.at = "mark"]
<1>1. next \in Publication /\ next.at = "mark" /\ next.todo = u.todo
  BY DEF Working, Publication
<1> HIDE DEF next
<1>2. Working(next, r, k, log, lost)
  BY <1>1 DEF Working
<1> QED
  BY <1>2, NextEventWorks DEF Closing, next

-----------------------------------------------------------------------------
\* Frames: what keeps the parts of the invariant that an action does not touch.

LEMMA RowSame == ASSUME RowInv PROVE Grown(row, row, kind)
<1>1. row.revision \in Nat
  BY StreamBounds DEF RowInv, Row
<1> QED
  BY <1>1 DEF RowInv, Grown

LEMMA BridgeKept ==
  ASSUME BridgeInv, Grown(row, row', kind), UNCHANGED <<kind, bridge, losses>> PROVE BridgeInv'
<1>1. \A i \in 1..Len(bridge.log) : Sound(bridge.log[i], row', kind)
  <2>1. PICK log \in Seq(Event) : log = bridge.log
    BY DEF BridgeInv
  <2>2. \A i \in 1..Len(log) : Sound(log[i], row', kind)
    BY <2>1, SoundAll DEF BridgeInv
  <2> QED
    BY <2>1, <2>2
<1> QED
  BY <1>1 DEF BridgeInv, LogGapFree

LEMMA ReaderKept ==
  ASSUME ReaderInv, Grown(row, row', kind), UNCHANGED <<kind, reader>> PROVE ReaderInv'
<1>1. PICK q \in Seq(Event) : q = reader.flight
  BY DEF ReaderInv
<1>2. \A i \in 1..Len(q) : Sound(q[i], row', kind)
  BY <1>1, SoundAll DEF ReaderInv
<1> QED
  BY <1>1, <1>2 DEF ReaderInv

LEMMA PageKept ==
  ASSUME PageInv, Grown(row, row', kind), UNCHANGED <<kind, page>> PROVE PageInv'
<1>1. page.revision \in Nat /\ row.revision \in Nat /\ row'.revision \in Nat
  BY StreamBounds DEF PageInv, Page, Grown, Row
<1> QED
  BY <1>1 DEF PageInv, PageFaithful, Content, Grown

\* One writer moves; the others find the row and the log they know, or later ones.
LEMMA WritersKept ==
  ASSUME PubInv, Grown(row, row', kind), kind' = kind,
         losses' = 0 => losses = 0 /\ Extends(bridge.log, bridge'.log),
         NEW w \in Writer, NEW u, Working(u, row', kind, bridge'.log, losses'),
         pub' = [pub EXCEPT ![w] = u]
  PROVE  PubInv'
<1> SUFFICES ASSUME NEW v \in Writer
             PROVE  Working(pub'[v], row', kind, bridge'.log, losses')
  BY DEF PubInv
<1>1. CASE v = w
  BY <1>1 DEF PubInv
<1>2. CASE v # w
  <2>1. PICK p : p = pub[v]
    OBVIOUS
  <2>2. Working(p, row, kind, bridge.log, losses)
    BY <2>1 DEF PubInv
  <2>3. Working(p, row', kind, bridge'.log, losses')
    BY <2>2, WorkingKept
  <2> QED
    BY <1>2, <2>1, <2>3
<1> QED
  BY <1>1, <1>2

LEMMA PublicationsKept ==
  ASSUME PubInv, Grown(row, row', kind), kind' = kind, pub' = pub,
         losses' = 0 => losses = 0 /\ Extends(bridge.log, bridge'.log)
  PROVE  PubInv'
<1> SUFFICES ASSUME NEW v \in Writer
             PROVE  Working(pub[v], row', kind, bridge'.log, losses')
  BY DEF PubInv
<1>1. PICK p : p = pub[v]
  OBVIOUS
<1>2. Working(p, row, kind, bridge.log, losses)
  BY <1>1 DEF PubInv
<1>3. Working(p, row', kind, bridge'.log, losses')
  BY <1>2, WorkingKept
<1> QED
  BY <1>1, <1>3

LEMMA LogSame == ASSUME BridgeInv PROVE Extends(bridge.log, bridge.log)
  BY LenProperties DEF BridgeInv, Extends

-----------------------------------------------------------------------------
\* The writers commit.

\* The row moves on, and one writer with it.
LEMMA WriteKeeps ==
  ASSUME StreamInv, Grown(row, row', kind), RowInv', UNCHANGED <<kind, bridge, losses, reader, page>>,
         NEW w \in Writer,
         \/ pub' = pub
         \/ \E u : pub' = [pub EXCEPT ![w] = u] /\ Working(u, row', kind, bridge.log, losses)
  PROVE  StreamInv'
<1>1. BridgeInv' /\ ReaderInv' /\ PageInv'
  BY BridgeKept, ReaderKept, PageKept DEF StreamInv
<1>2. Extends(bridge.log, bridge'.log)
  BY LogSame DEF StreamInv
<1>3. PubInv'
  BY <1>2, WritersKept, PublicationsKept DEF StreamInv
<1> QED
  BY <1>1, <1>3 DEF StreamInv

LEMMA CreateKeeps == ASSUME StreamInv, NEW w \in Writer, Create(w) PROVE StreamInv'
<1>1. UNCHANGED <<kind, listener, bridge, losses, reader, page>>
  BY DEF Create, fixed, listening
<1>2. RowInv /\ row \in Row /\ row.revision \in Nat /\ kind \in {"operator", "harness", "human"}
  BY StreamBounds DEF StreamInv, RowInv, Row
<1>3. Grown(row, row', kind) /\ RowInv' /\ row'.revision >= 1
  <2>1. CASE row.revision = 0
    <3>2. PICK ended \in BOOLEAN, due \in BOOLEAN :
            /\ row' = [row EXCEPT !.revision = 1, !.ended = ended, !.due = due]
            /\ due => kind = "human"
      <4>1. PICK ended \in BOOLEAN :
              row' = [row EXCEPT !.revision = 1, !.ended = ended, !.due = (kind = "human")]
        BY <1>2, <2>1 DEF Create
      <4>2. (kind = "human") \in BOOLEAN
        OBVIOUS
      <4> QED
        BY <4>1, <4>2
    <3>3. row' \in Row /\ row'.revision = 1 /\ row'.due = due
      <4>1. PICK n \in 0..MaxRevision : n = 1
        BY StreamBounds
      <4>2. PICK r \in Row : r = row
        BY <1>2
      <4>3. PICK s : s = [r EXCEPT !.revision = n, !.ended = ended, !.due = due]
        OBVIOUS
      <4>4. s \in Row /\ s.revision = n /\ s.due = due
        BY <4>3 DEF Row
      <4>5. row' = s
        BY <3>2, <4>1, <4>2, <4>3
      <4> QED
        BY <4>1, <4>4, <4>5
    <3> QED
      BY <1>1, <1>2, <2>1, <3>2, <3>3 DEF RowInv, Grown
  <2>2. CASE row.revision # 0
    <3>1. row' = row
      BY <2>2 DEF Create
    <3> QED
      BY <1>1, <1>2, <2>2, <3>1, RowSame DEF RowInv
  <2> QED
    BY <2>1, <2>2
<1>4. PICK p : p = pub[w]
  OBVIOUS
<1>5. Working(p, row', kind, bridge.log, losses)
  <2>1. Working(p, row, kind, bridge.log, losses)
    BY <1>4 DEF StreamInv, PubInv
  <2>2. Extends(bridge.log, bridge.log)
    BY LogSame DEF StreamInv
  <2> QED
    BY <1>3, <2>1, <2>2, WorkingKept
<1> DEFINE u == [p EXCEPT !.at = "ensure"]
<1>6. u \in Publication /\ u.at = "ensure" /\ u.todo = p.todo
  BY <1>5 DEF Working, Publication
<1> HIDE DEF u
<1>7. Working(u, row', kind, bridge.log, losses)
  BY <1>3, <1>5, <1>6 DEF Working
<1>8. pub' = pub \/ pub' = [pub EXCEPT ![w] = u]
  BY <1>4 DEF Create, u
<1> QED
  BY <1>1, <1>3, <1>7, <1>8, WriteKeeps

\* Events that are committed with the row.
LEMMA CommitKeeps ==
  ASSUME StreamInv, NEW w \in Writer, NEW events \in Seq(Event), events # <<>>,
         Commit(w, events), events[Len(events)].op = "end" => kind # "human",
         \A j \in 1..Len(events) : /\ events[j].seq <= row.revision + Len(events)
                                   /\ events[j].op = "end" => j = Len(events)
                                   /\ j = Len(events) => events[j].seq = row.revision + Len(events)
  PROVE  StreamInv'
<1>1. UNCHANGED <<kind, listener, bridge, losses, reader, page>>
  BY DEF Commit, fixed, listening
<1>2. /\ RowInv /\ row \in Row /\ row.revision \in Nat /\ kind # "human"
      /\ row.revision > 0 /\ ~row.ended /\ row.revision + Len(events) <= MaxRevision
  BY StreamBounds DEF StreamInv, RowInv, Row, Commit
<1>3. PICK n, ended : n = row.revision + Len(events) /\ ended = (events[Len(events)].op = "end")
  OBVIOUS
<1>4. n \in 0..MaxRevision /\ n > row.revision /\ ended \in BOOLEAN /\ Len(events) \in Nat /\ Len(events) >= 1
  BY <1>2, <1>3, StreamBounds, LenProperties, EmptySeq
<1>5. row' = [row EXCEPT !.revision = n, !.ended = ended]
  BY <1>3 DEF Commit
<1>6. row' \in Row /\ row'.revision = n /\ row'.ended = ended /\ row'.due = row.due
  BY <1>2, <1>4, <1>5 DEF Row
<1>7. Grown(row, row', kind) /\ RowInv'
  BY <1>1, <1>2, <1>4, <1>6 DEF Grown, RowInv
<1> DEFINE u == [Idle EXCEPT !.at = "read", !.todo = events]
<1>8. u \in Publication /\ u.at = "read" /\ u.todo = events
  BY IdleTypes
<1>9. pub' = [pub EXCEPT ![w] = u]
  BY DEF Commit
<1> HIDE DEF u
<1>10. \A j \in 1..Len(events) : Sound(events[j], row', kind)
  <2> SUFFICES ASSUME NEW j \in 1..Len(events) PROVE Sound(events[j], row', kind)
    OBVIOUS
  <2>1. events[j].op = "end" => j = Len(events) /\ events[j].seq = n
    BY <1>3
  <2>2. events[j].op = "end" => row'.ended
    BY <1>3, <1>6, <2>1
  <2> QED
    BY <1>2, <1>3, <1>6, <2>1, <2>2 DEF Sound
<1>11. Working(u, row', kind, bridge.log, losses)
  BY <1>2, <1>4, <1>6, <1>8, <1>10 DEF Working
<1> QED
  BY <1>1, <1>7, <1>9, <1>11, WriteKeeps

LEMMA OutputKeeps == ASSUME StreamInv, NEW w \in Writer, Output(w) \/ Finish(w) PROVE StreamInv'
<1>1. row.revision \in Nat
  BY StreamBounds DEF StreamInv, RowInv, Row
<1>2. CASE Output(w)
  <2> DEFINE events == <<Delta(row.revision + 1)>>
  <2>1. Delta(row.revision + 1) \in Event
    BY <1>1, <1>2, StreamBounds DEF Output, Delta, Event
  <2>2. /\ events \in Seq(Event) /\ Len(events) = 1 /\ events[1].op = "delta"
        /\ events[1].seq = row.revision + 1
    BY <2>1 DEF Delta
  <2>3. events # <<>>
    BY <2>2, EmptySeq
  <2>4. Commit(w, events)
    BY <1>2 DEF Output
  <2> HIDE DEF events
  <2> QED
    BY <1>1, <2>2, <2>3, <2>4, CommitKeeps
<1>3. CASE Finish(w) /\ kind = "harness"
  <2> DEFINE events == <<Delta(row.revision + 1), End(row.revision + 2)>>
  <2>1. Commit(w, events)
    BY <1>3 DEF Finish
  <2>2. Len(events) = 2
    OBVIOUS
  <2>3. row.revision + 2 <= MaxRevision
    BY <2>1, <2>2 DEF Commit
  <2>4. Delta(row.revision + 1) \in Event /\ End(row.revision + 2) \in Event
    BY <1>1, <2>3, StreamBounds DEF Delta, End, Event
  <2>5. /\ events \in Seq(Event) /\ events[1].op = "delta" /\ events[1].seq = row.revision + 1
        /\ events[2].seq = row.revision + 2
    BY <2>4 DEF Delta, End
  <2>6. events # <<>>
    BY <2>2, EmptySeq
  <2> HIDE DEF events
  <2>7. \A j \in 1..Len(events) : /\ events[j].seq <= row.revision + Len(events)
                                  /\ events[j].op = "end" => j = Len(events)
                                  /\ j = Len(events) => events[j].seq = row.revision + Len(events)
    <3> SUFFICES ASSUME NEW j \in {1, 2}
                 PROVE  /\ events[j].seq <= row.revision + 2
                        /\ events[j].op = "end" => j = 2
                        /\ j = 2 => events[j].seq = row.revision + 2
      BY <2>2
    <3>1. CASE j = 1
      BY <1>1, <2>5, <3>1
    <3>2. CASE j = 2
      BY <1>1, <2>5, <3>2
    <3> QED
      BY <3>1, <3>2
  <2> QED
    BY <1>3, <2>1, <2>2, <2>5, <2>6, <2>7, CommitKeeps
<1>4. CASE Finish(w) /\ kind # "harness"
  <2> DEFINE events == <<End(row.revision + 1)>>
  <2>1. Commit(w, events)
    BY <1>4 DEF Finish
  <2>2. Len(events) = 1
    OBVIOUS
  <2>3. row.revision + 1 <= MaxRevision /\ kind # "human"
    BY <2>1, <2>2 DEF Commit
  <2>4. End(row.revision + 1) \in Event
    BY <1>1, <2>3, StreamBounds DEF End, Event
  <2>5. events \in Seq(Event) /\ events[1].seq = row.revision + 1
    BY <2>4 DEF End
  <2>6. events # <<>>
    BY <2>2, EmptySeq
  <2> HIDE DEF events
  <2>7. \A j \in 1..Len(events) : /\ events[j].seq <= row.revision + Len(events)
                                  /\ events[j].op = "end" => j = Len(events)
                                  /\ j = Len(events) => events[j].seq = row.revision + Len(events)
    BY <1>1, <2>2, <2>5
  <2> QED
    BY <2>1, <2>2, <2>3, <2>5, <2>6, <2>7, CommitKeeps
<1> QED
  BY <1>2, <1>3, <1>4

\* The last event again.
LEMMA RepeatKeeps == ASSUME StreamInv, NEW w \in Writer, Repeat(w) PROVE StreamInv'
<1>1. UNCHANGED <<kind, listener, row, bridge, losses, reader, page>> /\ kind # "human" /\ row.revision > 1
  BY DEF Repeat, fixed, listening
<1>2. RowInv /\ row \in Row /\ row.revision \in 0..MaxRevision
  BY DEF StreamInv, RowInv, Row
<1>3. PICK e : e = IF row.ended THEN End(row.revision) ELSE Delta(row.revision)
  OBVIOUS
<1>4. e \in Event /\ Sound(e, row, kind)
  BY <1>1, <1>2, <1>3, StreamBounds DEF End, Delta, Event, Sound
<1> DEFINE u == [Idle EXCEPT !.at = "read", !.todo = <<e>>]
<1>5. pub' = [pub EXCEPT ![w] = u]
  BY <1>3 DEF Repeat
<1>6. <<e>> \in Seq(Event) /\ Len(<<e>>) = 1 /\ <<e>>[1] = e /\ <<e>> # <<>>
  <2>1. <<e>> \in Seq(Event) /\ Len(<<e>>) = 1 /\ <<e>>[1] = e
    BY <1>4
  <2> QED
    BY <2>1, EmptySeq
<1>7. u \in Publication /\ u.at = "read" /\ u.todo = <<e>>
  BY <1>6, IdleTypes
<1> HIDE DEF u
<1>8. Working(u, row, kind, bridge.log, losses)
  <2>1. \A j \in 1..Len(u.todo) : Sound(u.todo[j], row, kind)
    BY <1>4, <1>6, <1>7
  <2>2. row.revision >= 1
    BY <1>1, <1>2, StreamBounds
  <2> QED
    BY <1>6, <1>7, <2>1, <2>2 DEF Working
<1>9. Grown(row, row', kind) /\ RowInv'
  BY <1>1, <1>2, RowSame DEF RowInv
<1> QED
  BY <1>1, <1>5, <1>8, <1>9, WriteKeeps

LEMMA ExpireKeeps == ASSUME StreamInv, Expire \/ Settle PROVE StreamInv'
<1>1. UNCHANGED <<kind, listener, bridge, losses, pub, reader, page>>
  BY DEF Expire, Settle, fixed, listening
<1>2. RowInv /\ row \in Row /\ row.revision \in Nat /\ row.revision + 1 <= MaxRevision
  BY StreamBounds DEF StreamInv, RowInv, Row, Expire, Settle
<1>3. Grown(row, row', kind) /\ RowInv'
  <2>1. CASE Expire
    <3>1. /\ row' = [row EXCEPT !.revision = row.revision + 1, !.ended = TRUE, !.expired = TRUE]
          /\ ~row.ended
      BY <2>1 DEF Expire
    <3>2. row' \in Row /\ row'.revision = row.revision + 1 /\ row'.ended /\ row'.due = row.due
      <4>1. PICK n \in 0..MaxRevision : n = row.revision + 1
        BY <1>2, StreamBounds
      <4>2. PICK r \in Row : r = row
        BY <1>2
      <4>3. PICK yes \in BOOLEAN : yes = TRUE
        OBVIOUS
      <4>4. PICK s : s = [r EXCEPT !.revision = n, !.ended = yes, !.expired = yes]
        OBVIOUS
      <4>5. s \in Row /\ s.revision = n /\ s.ended = yes /\ s.due = r.due
        BY <4>4 DEF Row
      <4>6. row' = s
        BY <3>1, <4>1, <4>2, <4>3, <4>4
      <4> QED
        BY <4>1, <4>2, <4>3, <4>5, <4>6
    <3> QED
      BY <1>1, <1>2, <3>1, <3>2 DEF RowInv, Grown
  <2>2. CASE Settle
    <3>1. row' = [row EXCEPT !.revision = row.revision + 1, !.due = FALSE] /\ kind = "human"
      BY <1>2, <2>2 DEF Settle, RowInv
    <3>2. row' \in Row /\ row'.revision = row.revision + 1 /\ row'.ended = row.ended /\ ~row'.due
      <4>1. PICK n \in 0..MaxRevision : n = row.revision + 1
        BY <1>2, StreamBounds
      <4>2. PICK r \in Row : r = row
        BY <1>2
      <4>3. PICK no \in BOOLEAN : no = FALSE
        OBVIOUS
      <4>4. PICK s : s = [r EXCEPT !.revision = n, !.due = no]
        OBVIOUS
      <4>5. s \in Row /\ s.revision = n /\ s.ended = r.ended /\ s.due = no
        BY <4>4 DEF Row
      <4>6. row' = s
        BY <3>1, <4>1, <4>2, <4>3, <4>4
      <4> QED
        BY <4>1, <4>2, <4>3, <4>5, <4>6
    <3> QED
      BY <1>1, <1>2, <3>1, <3>2 DEF RowInv, Grown
  <2> QED
    BY <2>1, <2>2
<1>4. BridgeInv' /\ ReaderInv' /\ PageInv'
  BY <1>1, <1>3, BridgeKept, ReaderKept, PageKept DEF StreamInv
<1>5. PubInv'
  BY <1>1, <1>3, LogSame, PublicationsKept DEF StreamInv
<1> QED
  BY <1>3, <1>4, <1>5 DEF StreamInv

-----------------------------------------------------------------------------
\* The writers publish.

\* A writer moves on, and the bridge may have taken its event.
LEMMA PublishKeeps ==
  ASSUME StreamInv, UNCHANGED <<kind, listener, row, losses, reader, page>>,
         BridgeInv', Extends(bridge.log, bridge'.log),
         NEW w \in Writer, NEW u, Working(u, row, kind, bridge'.log, losses),
         pub' = [pub EXCEPT ![w] = u]
  PROVE  StreamInv'
<1>1. Grown(row, row', kind)
  BY RowSame DEF StreamInv
<1>2. ReaderInv' /\ PageInv' /\ RowInv'
  BY <1>1, ReaderKept, PageKept DEF StreamInv, RowInv
<1>3. PubInv'
  <2>1. PubInv /\ kind' = kind /\ losses' = losses /\ row' = row
    BY DEF StreamInv
  <2> QED
    BY <1>1, <2>1, WritersKept
<1> QED
  BY <1>2, <1>3 DEF StreamInv

LEMMA WriterKeeps ==
  ASSUME StreamInv, UNCHANGED <<kind, listener, row, bridge, losses, reader, page>>,
         NEW w \in Writer, NEW u, Working(u, row, kind, bridge.log, losses),
         pub' = [pub EXCEPT ![w] = u]
  PROVE  StreamInv'
<1>1. BridgeInv' /\ Extends(bridge.log, bridge'.log)
  BY RowSame, BridgeKept, LogSame DEF StreamInv
<1>2. Working(u, row, kind, bridge'.log, losses)
  OBVIOUS
<1> QED
  BY <1>1, <1>2, PublishKeeps

\* What a writer is about to publish.
LEMMA FirstOf ==
  ASSUME NEW r, NEW k, NEW log, NEW lost, NEW u, Working(u, r, k, log, lost), u.todo # <<>>
  PROVE  Head(u.todo) \in Event /\ Sound(Head(u.todo), r, k) /\ Len(u.todo) >= 1
<1>1. PICK q \in Seq(Event) : q = u.todo
  BY DEF Working, Publication
<1>2. q # <<>> /\ Len(q) >= 1 /\ Len(q) \in Nat /\ Head(q) = q[1] /\ q[1] \in Event
  BY <1>1, EmptySeq, LenProperties, HeadTailProperties, ElementOfSeq
<1> QED
  BY <1>1, <1>2 DEF Working

LEMMA ReadStateKeeps == ASSUME StreamInv, NEW w \in Writer, ReadState(w) PROVE StreamInv'
<1>1. UNCHANGED <<kind, listener, row, bridge, losses, reader, page>> /\ pub[w].at = "read"
  BY DEF ReadState, fixed, listening
<1>2. PICK p : p = pub[w]
  OBVIOUS
<1>3. Working(p, row, kind, bridge.log, losses) /\ p.at = "read"
  BY <1>1, <1>2 DEF StreamInv, PubInv
<1>4. p.todo # <<>> /\ Head(p.todo) \in Event
  BY <1>3, FirstOf DEF Working
<1>5. PICK n \in 0..MaxRevision : n = IF kind = "harness" THEN Head(p.todo).seq ELSE row.revision
  BY <1>4, StreamBounds DEF Event, StreamInv, RowInv, Row
<1>6. PICK b \in BOOLEAN : b = IF kind = "harness" THEN Head(p.todo).op = "end" ELSE row.ended
  BY DEF StreamInv, RowInv, Row
<1>7. PICK u : u = [p EXCEPT !.at = "state", !.revision = n, !.ended = b]
  OBVIOUS
<1>8. u \in Publication /\ u.at = "state" /\ u.todo = p.todo
  BY <1>3, <1>7 DEF Working, Publication
<1>9. Working(u, row, kind, bridge.log, losses)
  BY <1>3, <1>4, <1>8 DEF Working
<1>10. pub' = [pub EXCEPT ![w] = u]
  BY <1>2, <1>5, <1>6, <1>7 DEF ReadState
<1> QED
  BY <1>1, <1>9, <1>10, WriterKeeps

LEMMA BridgeStateKeeps == ASSUME StreamInv, NEW w \in Writer, BridgeState(w) PROVE StreamInv'
<1>1. UNCHANGED <<kind, listener, row, bridge, losses, reader, page>> /\ pub[w].at = "state"
  BY DEF BridgeState, fixed, listening
<1>2. PICK p : p = pub[w]
  OBVIOUS
<1>3. Working(p, row, kind, bridge.log, losses) /\ p.at = "state" /\ p.todo # <<>>
  BY <1>1, <1>2 DEF StreamInv, PubInv, Working
<1>4. PICK u : u = IF ~bridge.exists THEN [p EXCEPT !.at = "ensure"]
                   ELSE IF LastSeq >= p.revision THEN Closing(p)
                   ELSE [p EXCEPT !.at = IF NeedsSnapshot(p) THEN "snapshot" ELSE "send"]
  OBVIOUS
<1>5. pub' = [pub EXCEPT ![w] = u]
  BY <1>2, <1>4 DEF BridgeState
<1>6. Working(u, row, kind, bridge.log, losses)
  <2>1. CASE ~bridge.exists
    <3>1. u = [p EXCEPT !.at = "ensure"]
      BY <1>4, <2>1
    <3>2. u \in Publication /\ u.at = "ensure" /\ u.todo = p.todo
      BY <1>3, <3>1 DEF Working, Publication
    <3> QED
      BY <1>3, <3>2 DEF Working
  <2>2. CASE bridge.exists /\ LastSeq >= p.revision
    BY <1>3, <1>4, <2>2, ClosingWorks
  <2>3. CASE bridge.exists /\ ~(LastSeq >= p.revision) /\ NeedsSnapshot(p)
    <3>1. u = [p EXCEPT !.at = "snapshot"]
      BY <1>4, <2>3
    <3>2. u \in Publication /\ u.at = "snapshot" /\ u.todo = p.todo
      BY <1>3, <3>1 DEF Working, Publication
    <3> QED
      BY <1>3, <3>2 DEF Working
  <2>4. CASE bridge.exists /\ ~(LastSeq >= p.revision) /\ ~NeedsSnapshot(p)
    <3>1. u = [p EXCEPT !.at = "send"]
      BY <1>4, <2>4
    <3>2. u \in Publication /\ u.at = "send" /\ u.todo = p.todo
      BY <1>3, <3>1 DEF Working, Publication
    <3>3. PICK e : e = Head(p.todo)
      OBVIOUS
    <3>4. e \in Event /\ LastSeq + 1 = e.seq
      BY <1>3, <2>4, <3>3, FirstOf DEF NeedsSnapshot
    <3>5. PICK i \in 1..Len(bridge.log) : bridge.log[i].seq = LastSeq
      BY <2>4, LastOfLog DEF StreamInv, BridgeInv
    <3>6. Follows(e, bridge.log)
      BY <3>4, <3>5 DEF Follows, Event
    <3> QED
      BY <1>3, <3>2, <3>3, <3>6 DEF Working
  <2> QED
    BY <2>1, <2>2, <2>3, <2>4
<1> QED
  BY <1>1, <1>5, <1>6, WriterKeeps

LEMMA EnsureStreamKeeps == ASSUME StreamInv, NEW w \in Writer, EnsureStream(w) PROVE StreamInv'
<1>1. UNCHANGED <<kind, listener, row, bridge, losses, reader, page>> /\ pub[w].at = "ensure"
  BY DEF EnsureStream, fixed, listening
<1>2. PICK p : p = pub[w]
  OBVIOUS
<1>3. Working(p, row, kind, bridge.log, losses) /\ p.at = "ensure" /\ row.revision >= 1
  BY <1>1, <1>2 DEF StreamInv, PubInv, Working
<1>4. PICK n \in 0..MaxRevision : n = row.revision
  BY DEF StreamInv, RowInv, Row
<1>5. PICK u : u = IF bridge.exists THEN Closing(p) ELSE [p EXCEPT !.at = "init", !.revision = n]
  OBVIOUS
<1>6. pub' = [pub EXCEPT ![w] = u]
  BY <1>2, <1>4, <1>5, <1>3 DEF EnsureStream, StreamInv, PubInv
<1>7. Working(u, row, kind, bridge.log, losses)
  <2>1. CASE bridge.exists
    BY <1>3, <1>5, <2>1, ClosingWorks
  <2>2. CASE ~bridge.exists
    <3>1. u = [p EXCEPT !.at = "init", !.revision = n]
      BY <1>5, <2>2
    <3>2. u \in Publication /\ u.at = "init" /\ u.todo = p.todo /\ u.revision = n
      BY <1>3, <3>1 DEF Working, Publication
    <3>3. n \in 1..row.revision
      BY <1>3, <1>4, StreamBounds
    <3> QED
      BY <1>3, <3>2, <3>3 DEF Working
  <2> QED
    BY <2>1, <2>2
<1> QED
  BY <1>1, <1>6, <1>7, WriterKeeps

\* A call that fails, and a writer that stops.
LEMMA GiveUpKeeps == ASSUME StreamInv, NEW w \in Writer, GiveUp(w) \/ Crash(w) PROVE StreamInv'
<1>1. UNCHANGED <<kind, listener, row, bridge, losses, reader, page>> /\ pub[w].at # "idle"
  BY DEF GiveUp, Crash, fixed, listening
<1>2. PICK p : p = pub[w]
  OBVIOUS
<1>3. Working(p, row, kind, bridge.log, losses) /\ p.at # "idle"
  BY <1>1, <1>2 DEF StreamInv, PubInv
<1>4. PICK u \in {NextEvent(p), Idle} : pub' = [pub EXCEPT ![w] = u]
  BY <1>2 DEF GiveUp, Crash, StreamInv, PubInv
<1>5. Working(u, row, kind, bridge.log, losses)
  BY <1>3, NextEventWorks
<1> QED
  BY <1>1, <1>4, <1>5, WriterKeeps

\* A stream that starts from the row, unless somebody else has started it.
LEMMA InitializeKeeps == ASSUME StreamInv, NEW w \in Writer, Initialize(w) PROVE StreamInv'
<1>1. UNCHANGED <<kind, listener, row, losses, reader, page>> /\ pub[w].at = "init"
  BY DEF Initialize, fixed, listening
<1>2. PICK p : p = pub[w]
  OBVIOUS
<1>3. Working(p, row, kind, bridge.log, losses) /\ p.at = "init" /\ p.revision \in 1..row.revision
  BY <1>1, <1>2 DEF StreamInv, PubInv, Working
<1>4. PICK e : e = [op |-> "start", seq |-> p.revision]
  OBVIOUS
<1>5. e \in Event /\ e.op = "start" /\ Sound(e, row, kind)
  BY <1>3, <1>4, StreamBounds DEF Event, Sound, StreamInv, RowInv, Row
<1>6. BridgeInv' /\ Extends(bridge.log, bridge'.log)
  <2>1. CASE bridge.exists
    <3>1. bridge' = bridge
      BY <2>1 DEF Initialize
    <3> QED
      BY <1>1, <3>1, RowSame, BridgeKept, LogSame DEF StreamInv
  <2>2. CASE ~bridge.exists
    <3>1. bridge' = [NoStream EXCEPT !.exists = TRUE, !.log = <<e>>]
      BY <1>2, <1>4, <2>2 DEF Initialize
    <3>2. <<e>> \in Seq(Event) /\ Len(<<e>>) = 1 /\ <<e>>[1] = e
      BY <1>5
    <3>3. PICK log \in Seq(Event) : log = <<e>>
      BY <3>2
    <3>4. log # <<>> /\ Len(log) = 1 /\ log[1] = e
      BY <3>2, <3>3, EmptySeq
    <3>5. bridge' = [exists |-> TRUE, log |-> log, terminal |-> FALSE]
      BY <3>1, <3>3 DEF NoStream
    <3>6. /\ bridge' \in [exists : BOOLEAN, log : Seq(Event), terminal : BOOLEAN]
          /\ bridge'.exists /\ bridge'.log = log
      BY <3>5
    <3>7. LogGapFree'
      BY <1>5, <3>4, <3>6, LenProperties DEF LogGapFree
    <3>8. BridgeInv'
      <4>1. \A i \in 1..Len(log) : Sound(log[i], row, kind)
        BY <1>5, <3>4
      <4>2. \A i \in 1..Len(bridge'.log) : Sound(bridge'.log[i], row', kind')
        BY <1>1, <3>6, <4>1
      <4>3. bridge'.exists <=> bridge'.log # <<>>
        BY <3>4, <3>6
      <4> QED
        BY <3>6, <3>7, <4>2, <4>3 DEF BridgeInv
    <3>9. Len(bridge.log) = 0
      BY <2>2, EmptySeq DEF StreamInv, BridgeInv
    <3>10. Extends(bridge.log, log)
      BY <3>4, <3>9 DEF Extends
    <3> QED
      BY <3>6, <3>8, <3>10
  <2> QED
    BY <2>1, <2>2
<1>7. PICK u : u = Closing(p)
  OBVIOUS
<1>8. Working(u, row, kind, bridge'.log, losses)
  <2>1. Working(u, row, kind, bridge.log, losses)
    BY <1>3, <1>7, ClosingWorks
  <2>2. Grown(row, row, kind)
    BY RowSame DEF StreamInv
  <2> QED
    BY <1>6, <2>1, <2>2, WorkingKept
<1>9. pub' = [pub EXCEPT ![w] = u]
  BY <1>2, <1>7 DEF Initialize, StreamInv, PubInv
<1> QED
  BY <1>1, <1>6, <1>8, <1>9, PublishKeeps

\* The body takes the place of the event.
LEMMA SnapshotKeeps == ASSUME StreamInv, NEW w \in Writer, Snapshot(w) PROVE StreamInv'
<1>1. UNCHANGED <<kind, listener, row, bridge, losses, reader, page>> /\ pub[w].at = "snapshot"
  BY DEF Snapshot, fixed, listening
<1>2. PICK p : p = pub[w]
  OBVIOUS
<1>3. /\ Working(p, row, kind, bridge.log, losses) /\ p.at = "snapshot"
      /\ p.todo # <<>> /\ row.revision >= 1
  BY <1>1, <1>2 DEF StreamInv, PubInv, Working
<1>4. PICK e : e = [op |-> "start", seq |-> row.revision]
  OBVIOUS
<1>5. e \in Event /\ e.op = "start" /\ Sound(e, row, kind)
  BY <1>3, <1>4, StreamBounds DEF Event, Sound, StreamInv, RowInv, Row
<1>6. PICK q \in Seq(Event) : q = p.todo
  BY <1>3 DEF Working, Publication
<1>7. /\ Tail(q) \in Seq(Event) /\ Len(q) \in Nat /\ Len(q) >= 1 /\ Len(Tail(q)) = Len(q) - 1
      /\ \A j \in 1..Len(Tail(q)) : Tail(q)[j] = q[j + 1]
  BY <1>3, <1>6, HeadTailProperties, LenProperties, EmptySeq
<1>8. PICK t \in Seq(Event) : t = Tail(q)
  BY <1>7
<1>9. PICK m : m = <<e>> \o t
  OBVIOUS
<1>10. /\ m \in Seq(Event) /\ Len(m) = Len(t) + 1 /\ Len(t) \in Nat /\ m[1] = e
       /\ \A j \in 1..Len(m) : j # 1 => m[j] = t[j - 1]
  <2>1. <<e>> \in Seq(Event) /\ Len(<<e>>) = 1 /\ <<e>>[1] = e /\ Len(t) \in Nat
    BY <1>5, LenProperties
  <2>2. /\ m \in Seq(Event) /\ Len(m) = Len(<<e>>) + Len(t)
        /\ \A j \in 1..(Len(<<e>>) + Len(t)) :
             m[j] = IF j <= Len(<<e>>) THEN <<e>>[j] ELSE t[j - Len(<<e>>)]
    BY <1>9, <2>1, ConcatProperties
  <2> QED
    BY <2>1, <2>2
<1>11. m # <<>> /\ Head(m) = e
  BY <1>10, EmptySeq, HeadTailProperties
<1>12. \A j \in 1..Len(m) : Sound(m[j], row, kind)
  <2> SUFFICES ASSUME NEW j \in 1..Len(m) PROVE Sound(m[j], row, kind)
    OBVIOUS
  <2>1. CASE j = 1
    BY <1>5, <1>10, <2>1
  <2>2. CASE j # 1
    <3>1. j - 1 \in 1..Len(t) /\ m[j] = t[j - 1] /\ (j - 1) + 1 = j /\ j \in 1..Len(q)
      BY <1>7, <1>8, <1>10, <2>2
    <3>2. m[j] = q[j]
      BY <1>7, <1>8, <3>1
    <3> QED
      BY <1>3, <1>6, <3>1, <3>2 DEF Working
  <2> QED
    BY <2>1, <2>2
<1>13. PICK b \in BOOLEAN : b = row.ended
  BY DEF StreamInv, RowInv, Row
<1>14. PICK u : u = [p EXCEPT !.at = "send", !.ended = b, !.todo = m]
  OBVIOUS
<1>15. u \in Publication /\ u.at = "send" /\ u.todo = m
  BY <1>3, <1>10, <1>14 DEF Working, Publication
<1>16. Working(u, row, kind, bridge.log, losses)
  <2>1. Follows(e, bridge.log)
    BY <1>5 DEF Follows
  <2> QED
    BY <1>3, <1>11, <1>12, <1>15, <2>1 DEF Working
<1>17. pub' = [pub EXCEPT ![w] = u]
  BY <1>2, <1>4, <1>6, <1>8, <1>9, <1>13, <1>14 DEF Snapshot, StreamInv, PubInv
<1> QED
  BY <1>1, <1>16, <1>17, WriterKeeps

\* An event enters the log.
LEMMA SendKeeps == ASSUME StreamInv, NEW w \in Writer, Send(w) PROVE StreamInv'
<1>1. /\ UNCHANGED <<kind, listener, row, losses, reader, page>> /\ pub[w].at = "send"
      /\ bridge.exists
  BY DEF Send, fixed, listening
<1>2. PICK p : p = pub[w]
  OBVIOUS
<1>3. Working(p, row, kind, bridge.log, losses) /\ p.at = "send" /\ p.todo # <<>>
  BY <1>1, <1>2 DEF StreamInv, PubInv, Working
<1>4. PICK e : e = Head(p.todo)
  OBVIOUS
<1>5. e \in Event /\ Sound(e, row, kind) /\ (losses = 0 => Follows(e, bridge.log))
  <2>1. e \in Event /\ Sound(e, row, kind)
    BY <1>3, <1>4, FirstOf
  <2>2. losses = 0 => Follows(e, bridge.log)
    BY <1>3, <1>4 DEF Working
  <2> QED
    BY <2>1, <2>2
<1>6. PICK log \in Seq(Event) : log = bridge.log
  BY DEF StreamInv, BridgeInv
<1>7. PICK more : more = Append(log, e)
  OBVIOUS
<1>8. /\ more \in Seq(Event) /\ Len(log) \in Nat /\ Len(more) = Len(log) + 1
      /\ \A i \in 1..Len(log) : more[i] = log[i]
      /\ more[Len(more)] = e
  BY <1>5, <1>7, AppendProperties, LenProperties
<1>9. more # <<>> /\ DOMAIN more = 1..Len(more) /\ DOMAIN log = 1..Len(log)
  BY <1>8, EmptySeq, LenProperties
<1>10. /\ bridge' \in [exists : BOOLEAN, log : Seq(Event), terminal : BOOLEAN]
       /\ bridge'.exists = bridge.exists /\ bridge'.log = more
  <2>1. bridge' = [bridge EXCEPT !.log = more]
    BY <1>2, <1>4, <1>6, <1>7 DEF Send
  <2> QED
    BY <1>8, <2>1 DEF StreamInv, BridgeInv
<1>11. LogGapFree'
  <2> SUFFICES ASSUME losses = 0, NEW i \in 1..Len(more), more[i].op # "start"
               PROVE  \E j \in 1..(i - 1) : more[j].seq + 1 >= more[i].seq
    BY <1>1, <1>9, <1>10 DEF LogGapFree
  <2>1. CASE i \in 1..Len(log)
    <3>1. more[i] = log[i]
      BY <1>8, <2>1
    <3>2. PICK j \in 1..(i - 1) : log[j].seq + 1 >= log[i].seq
      BY <1>6, <1>9, <2>1, <3>1 DEF StreamInv, BridgeInv, LogGapFree
    <3>3. j \in 1..Len(log)
      BY <1>8, <2>1
    <3> QED
      BY <1>8, <3>1, <3>2, <3>3
  <2>2. CASE i = Len(log) + 1
    <3>1. more[i] = e
      BY <1>8, <2>2
    <3>2. PICK j \in 1..Len(log) : log[j].seq + 1 >= e.seq
      BY <1>5, <1>6, <3>1 DEF Follows
    <3>3. j \in 1..(i - 1)
      BY <1>8, <2>2
    <3> QED
      BY <1>8, <3>1, <3>2, <3>3
  <2> QED
    BY <1>8, <2>1, <2>2
<1>12. \A i \in 1..Len(more) : Sound(more[i], row, kind)
  <2> SUFFICES ASSUME NEW i \in 1..Len(more) PROVE Sound(more[i], row, kind)
    OBVIOUS
  <2>1. CASE i \in 1..Len(log)
    BY <1>6, <1>8, <2>1 DEF StreamInv, BridgeInv
  <2>2. CASE i = Len(log) + 1
    BY <1>5, <1>8, <2>2
  <2> QED
    BY <1>8, <2>1, <2>2
<1>13. BridgeInv' /\ Extends(bridge.log, bridge'.log)
  <2>1. Extends(log, more)
    BY <1>8 DEF Extends
  <2> QED
    BY <1>1, <1>6, <1>9, <1>10, <1>11, <1>12, <2>1 DEF BridgeInv
<1>14. PICK u : u = Closing(p)
  OBVIOUS
<1>15. Working(u, row, kind, bridge'.log, losses)
  <2>1. Working(u, row, kind, bridge.log, losses)
    BY <1>3, <1>14, ClosingWorks
  <2>2. Grown(row, row, kind)
    BY RowSame DEF StreamInv
  <2> QED
    BY <1>13, <2>1, <2>2, WorkingKept
<1>16. pub' = [pub EXCEPT ![w] = u]
  BY <1>2, <1>14 DEF Send, StreamInv, PubInv
<1> QED
  BY <1>1, <1>13, <1>15, <1>16, PublishKeeps

LEMMA MarkTerminalKeeps == ASSUME StreamInv, NEW w \in Writer, MarkTerminal(w) PROVE StreamInv'
<1>1. UNCHANGED <<kind, listener, row, losses, reader, page>> /\ pub[w].at = "mark"
  BY DEF MarkTerminal, fixed, listening
<1>2. PICK p : p = pub[w]
  OBVIOUS
<1>3. Working(p, row, kind, bridge.log, losses) /\ p.at = "mark"
  BY <1>1, <1>2 DEF StreamInv, PubInv
<1>4. /\ bridge' \in [exists : BOOLEAN, log : Seq(Event), terminal : BOOLEAN]
      /\ bridge'.exists = bridge.exists /\ bridge'.log = bridge.log
  BY DEF MarkTerminal, StreamInv, BridgeInv
<1>5. BridgeInv' /\ Extends(bridge.log, bridge'.log)
  BY <1>1, <1>4, LogSame DEF StreamInv, BridgeInv, LogGapFree
<1>6. PICK u : u = NextEvent(p)
  OBVIOUS
<1>7. Working(u, row, kind, bridge'.log, losses)
  BY <1>3, <1>4, <1>6, NextEventWorks
<1>8. pub' = [pub EXCEPT ![w] = u]
  BY <1>2, <1>6 DEF MarkTerminal, StreamInv, PubInv
<1> QED
  BY <1>1, <1>5, <1>7, <1>8, PublishKeeps

\* The stream is lost: from now on its order is not promised.
LEMMA LoseStreamKeeps == ASSUME StreamInv, LoseStream PROVE StreamInv'
<1>1. UNCHANGED <<kind, listener, row, pub, page>> /\ losses < MaxLosses /\ losses' = losses + 1
  BY DEF LoseStream, fixed
<1>2. losses \in Nat /\ losses' \in 0..MaxLosses /\ losses' # 0
  BY <1>1, StreamBounds DEF StreamInv, RowInv
<1>3. Grown(row, row', kind) /\ RowInv'
  BY <1>1, <1>2, RowSame DEF StreamInv, RowInv
<1>4. BridgeInv'
  <2>1. bridge' = NoStream
    BY DEF LoseStream
  <2>2. /\ bridge' \in [exists : BOOLEAN, log : Seq(Event), terminal : BOOLEAN]
        /\ ~bridge'.exists /\ bridge'.log = <<>>
    BY <2>1, EmptySeq DEF NoStream
  <2>3. Len(<<>>) = 0
    OBVIOUS
  <2> QED
    BY <1>2, <2>2, <2>3 DEF BridgeInv, LogGapFree
<1>5. PubInv'
  BY <1>1, <1>2, <1>3, PublicationsKept DEF StreamInv
<1>6. ReaderInv'
  <2>1. CASE reader' = reader
    BY <1>1, <1>3, <2>1, ReaderKept DEF StreamInv
  <2>2. CASE reader' = [reader EXCEPT !.pos = 0]
    <3>1. /\ reader' \in [state : {"off", "on", "done"}, pos : Nat, flight : Seq(Event)]
          /\ reader'.flight = reader.flight
      BY <2>2 DEF StreamInv, ReaderInv
    <3> QED
      BY <1>1, <3>1 DEF StreamInv, ReaderInv
  <2> QED
    BY <2>1, <2>2 DEF LoseStream
<1>7. PageInv'
  BY <1>1, <1>3, PageKept DEF StreamInv
<1> QED
  BY <1>3, <1>4, <1>5, <1>6, <1>7 DEF StreamInv

-----------------------------------------------------------------------------
\* The reader and the page.

\* The listener and its reader leave the message and its stream alone.
LEMMA FollowKeeps ==
  ASSUME StreamInv, UNCHANGED <<fixed, publishing>>, ReaderInv', PageInv' PROVE StreamInv'
<1>1. UNCHANGED <<kind, listener, row, bridge, losses, pub>>
  BY DEF fixed, publishing
<1>2. Grown(row, row', kind) /\ RowInv'
  BY <1>1, RowSame DEF StreamInv, RowInv
<1>3. BridgeInv' /\ PubInv'
  BY <1>1, <1>2, BridgeKept, PublicationsKept, LogSame DEF StreamInv
<1> QED
  BY <1>2, <1>3 DEF StreamInv

\* What a reader may become without an event.
LEMMA ReaderMoves ==
  ASSUME StreamInv, UNCHANGED <<kind, row>>,
         \/ reader' \in {reader, Started(reader), NoReader}
         \/ \E s \in {"off", "done"} : reader' = [reader EXCEPT !.state = s]
         \/ reader' = [reader EXCEPT !.flight = <<>>]
  PROVE  ReaderInv'
<1>1. <<>> \in Seq(Event) /\ Len(<<>>) = 0
  BY EmptySeq
<1>2. CASE reader' = reader
  BY <1>2, RowSame, ReaderKept DEF StreamInv
<1>3. PICK none \in Seq(Event) : none = <<>> /\ Len(none) = 0
  BY <1>1
<1>4. PICK zero \in Nat : zero = 0
  OBVIOUS
<1>5. reader \in Reader /\ \A j \in 1..Len(reader.flight) : Sound(reader.flight[j], row, kind)
  BY DEF StreamInv, ReaderInv, Reader
<1>6. CASE reader' = NoReader
  <2>1. reader' = [state |-> "off", pos |-> zero, flight |-> none]
    BY <1>3, <1>4, <1>6 DEF NoReader
  <2>2. reader' \in Reader /\ reader'.flight = none
    BY <2>1 DEF Reader
  <2> QED
    BY <1>3, <2>2 DEF ReaderInv, Reader
<1>7. CASE reader' = [reader EXCEPT !.flight = <<>>]
  <2>1. reader' = [reader EXCEPT !.flight = none]
    BY <1>3, <1>7
  <2>2. reader' \in Reader /\ reader'.flight = none
    BY <1>5, <2>1 DEF Reader
  <2> QED
    BY <1>3, <2>2 DEF ReaderInv, Reader
<1>8. CASE \E s \in {"off", "done"} : reader' = [reader EXCEPT !.state = s]
  <2>1. reader' \in Reader /\ reader'.flight = reader.flight
    BY <1>5, <1>8 DEF Reader
  <2> QED
    BY <1>5, <2>1 DEF ReaderInv, Reader
<1>9. CASE reader' = [reader EXCEPT !.state = "on", !.pos = 0]
  <2>1. reader' = [reader EXCEPT !.state = "on", !.pos = zero]
    BY <1>4, <1>9
  <2>2. reader' \in Reader /\ reader'.flight = reader.flight
    BY <1>5, <2>1 DEF Reader
  <2> QED
    BY <1>5, <2>2 DEF ReaderInv, Reader
<1> QED
  BY <1>2, <1>6, <1>7, <1>8, <1>9 DEF Started

LEMMA ReaderNextKeeps == ASSUME StreamInv, ReaderNext \/ ReaderStops PROVE StreamInv'
<1>1. UNCHANGED <<fixed, publishing, page>> /\ UNCHANGED <<kind, row, page>>
  BY DEF ReaderNext, ReaderStops, fixed, publishing
<1>2. PageInv'
  BY <1>1, RowSame, PageKept DEF StreamInv
<1>3. ReaderInv'
  <2>1. CASE ReaderNext
    <3>1. PICK e : e = bridge.log[reader.pos + 1]
      OBVIOUS
    <3>2. reader.pos + 1 \in 1..Len(bridge.log)
      BY <2>1, LenProperties DEF ReaderNext, StreamInv, ReaderInv, BridgeInv
    <3>3. e \in Event /\ Sound(e, row, kind)
      BY <3>1, <3>2, ElementOfSeq DEF StreamInv, BridgeInv
    <3>4. <<e>> \in Seq(Event) /\ Len(<<e>>) = 1 /\ <<e>>[1] = e
      BY <3>3
    <3>5. PICK q \in Seq(Event) : q = <<e>>
      BY <3>4
    <3>6. PICK n \in Nat : n = reader.pos + 1
      BY DEF StreamInv, ReaderInv
    <3>7. reader' = [reader EXCEPT !.pos = n, !.flight = q]
      BY <2>1, <3>1, <3>5, <3>6 DEF ReaderNext
    <3>8. reader' \in Reader /\ reader'.flight = q
      BY <3>7 DEF StreamInv, ReaderInv, Reader
    <3>9. Len(q) = 1 /\ q[1] = e
      BY <3>4, <3>5
    <3>10. \A j \in 1..Len(q) : Sound(q[j], row', kind')
      BY <1>1, <3>3, <3>9
    <3> QED
      BY <3>8, <3>10 DEF ReaderInv, Reader
  <2>2. CASE ReaderStops
    BY <1>1, <2>2, ReaderMoves DEF ReaderStops
  <2> QED
    BY <2>1, <2>2
<1> QED
  BY <1>1, <1>2, <1>3, FollowKeeps

\* What a page may show of row r.
Shows(p, r, k) ==
  /\ p \in Page
  /\ p.saw => r.ended
  /\ p.content = Content(p.revision)
  /\ p.revision <= r.revision
  /\ p.ended /\ k # "human" => r.ended /\ p.revision = r.revision

LEMMA PageShows == PageInv <=> Shows(page, row, kind)
  BY DEF PageInv, PageFaithful, Shows

\* The page moves, its reader at most starts, stops or gives its event away.
LEMMA PageKeeps ==
  ASSUME StreamInv, UNCHANGED <<fixed, publishing>>, ReaderInv', NEW p, page' = p, Shows(p, row, kind)
  PROVE  StreamInv'
<1>1. UNCHANGED <<kind, row>>
  BY DEF fixed, publishing
<1>2. PageInv'
  BY <1>1 DEF PageInv, PageFaithful, Shows
<1> QED
  BY <1>2, FollowKeeps

\* A page that goes to another step of the loop.
LEMMA ShowsAt ==
  ASSUME NEW p, NEW r, NEW k, Shows(p, r, k),
         NEW at \in {"closed", "discover", "live", "repair", "refresh", "reload", "done"},
         NEW q, q = [p EXCEPT !.at = at]
  PROVE  Shows(q, r, k)
<1>1. q \in Page /\ q.saw = p.saw /\ q.content = p.content /\ q.revision = p.revision /\ q.ended = p.ended
  BY DEF Shows, Page
<1> QED
  BY <1>1 DEF Shows

\* A page that is shown a newer body, or the body of the row.
LEMMA ShowsBody ==
  ASSUME NEW p, NEW r, NEW k, Shows(p, r, k), r \in Row,
         NEW n \in 0..MaxRevision, n <= r.revision, n > p.revision \/ n = r.revision
  PROVE  /\ Shows(Shown(p, n), r, k) /\ Shown(p, n).revision = n
         /\ Shown(p, n).saw = p.saw /\ Shown(p, n).ended = p.ended
<1>1. PICK c \in SUBSET (1..MaxRevision) : c = Content(n)
  BY StreamBounds DEF Content
<1>2. PICK q : q = [p EXCEPT !.revision = n, !.content = c]
  OBVIOUS
<1>3. q \in Page /\ q.saw = p.saw /\ q.content = c /\ q.revision = n /\ q.ended = p.ended
  BY <1>2 DEF Shows, Page
<1>4. p.revision \in Nat /\ r.revision \in Nat
  BY StreamBounds DEF Shows, Page, Row
<1>5. Shows(q, r, k)
  BY <1>1, <1>3, <1>4 DEF Shows
<1>6. Shown(p, n) = q
  BY <1>1, <1>2 DEF Shown
<1> QED
  BY <1>3, <1>5, <1>6

\* A page that is shown the next event.
LEMMA ShowsPatch ==
  ASSUME NEW p, NEW r, NEW k, Shows(p, r, k), r \in Row, NEW e \in Event, Sound(e, r, k),
         e.seq = p.revision + 1
  PROVE  Shows(Patched(p, e), r, k)
<1>1. p.revision \in Nat /\ r.revision \in Nat /\ e.seq \in 1..MaxRevision
  BY StreamBounds DEF Shows, Page, Row, Event
<1>2. PICK c \in SUBSET (1..MaxRevision) : c = p.content \cup {e.seq}
  BY <1>1 DEF Shows, Page
<1>3. PICK b \in BOOLEAN : b = (p.ended \/ e.op = "end")
  OBVIOUS
<1>4. PICK n \in 0..MaxRevision : n = e.seq
  BY <1>1, StreamBounds
<1>5. PICK q : q = [p EXCEPT !.revision = n, !.content = c, !.ended = b]
  OBVIOUS
<1>6. q \in Page /\ q.saw = p.saw /\ q.content = c /\ q.revision = n /\ q.ended = b
  BY <1>5 DEF Shows, Page
<1>7. c = Content(n)
  BY <1>1, <1>2, <1>4 DEF Shows, Content
<1>8. ~(p.ended /\ k # "human")
  BY <1>1 DEF Shows, Sound
<1>9. Shows(q, r, k)
  BY <1>1, <1>3, <1>4, <1>6, <1>7, <1>8 DEF Shows, Sound
<1>10. Patched(p, e) = q
  BY <1>2, <1>3, <1>4, <1>5 DEF Patched
<1> QED
  BY <1>9, <1>10

\* The page and its row, as constants of a proof.
LEMMA Told ==
  ASSUME StreamInv
  PROVE  /\ Shows(page, row, kind) /\ row \in Row /\ row.revision \in 0..MaxRevision
         /\ page.revision \in 0..MaxRevision /\ page.revision <= row.revision
         /\ row.ended \in BOOLEAN /\ page.saw \in BOOLEAN /\ (page.saw => row.ended)
         /\ page.at \in {"closed", "discover", "live", "repair", "refresh", "reload", "done"}
<1>1. Shows(page, row, kind) /\ row \in Row
  BY PageShows DEF StreamInv, RowInv
<1> QED
  BY <1>1 DEF Shows, Page, Row

\* The body of the row, as it is read.
LEMMA BodyRead ==
  ASSUME StreamInv
  PROVE  /\ Shows(Shown(page, row.revision), row, kind)
         /\ Shown(page, row.revision).revision = row.revision
         /\ Shown(page, row.revision).ended = page.ended
<1>1. PICK p : p = page
  OBVIOUS
<1>2. PICK n \in 0..MaxRevision : n = row.revision
  BY Told
<1>3. Shows(p, row, kind) /\ row \in Row /\ n <= row.revision
  BY <1>1, <1>2, Told
<1>4. Shows(Shown(p, n), row, kind) /\ Shown(p, n).revision = n /\ Shown(p, n).ended = p.ended
  BY <1>2, <1>3, ShowsBody
<1> QED
  BY <1>1, <1>2, <1>4

LEMMA OpenRunKeeps ==
  ASSUME StreamInv, OpenRun \/ ReloadRun
  PROVE  StreamInv' /\ page'.revision >= page.revision
<1>1. UNCHANGED <<fixed, publishing>> /\ UNCHANGED <<kind, row>>
  BY DEF OpenRun, ReloadRun, fixed, publishing
<1>2. ReaderInv'
  <2>1. reader' \in {reader, Started(reader)}
    BY DEF OpenRun, ReloadRun
  <2> QED
    BY <1>1, <2>1, ReaderMoves
<1>3. PICK p : p = Shown(page, row.revision)
  OBVIOUS
<1>4. Shows(p, row, kind) /\ p.revision = row.revision
  BY <1>3, BodyRead
<1>5. PICK b \in BOOLEAN : b = IF OpenRun THEN row.ended ELSE page.saw
  BY Told
<1>6. b => row.ended
  BY <1>5, Told
<1>7. PICK at \in {"live", "done"} : at = IF b THEN "done" ELSE "live"
  OBVIOUS
<1>8. PICK no \in BOOLEAN : no = FALSE
  OBVIOUS
<1>9. PICK q : q = page'
  OBVIOUS
<1>10. q = [p EXCEPT !.ended = b, !.at = at] \/ q = [p EXCEPT !.ended = b, !.saw = no, !.at = at]
  BY <1>3, <1>5, <1>7, <1>8, <1>9 DEF OpenRun, ReloadRun
<1>11. p \in Page /\ (p.saw => row.ended)
  BY <1>4 DEF Shows
<1>12. /\ q \in Page /\ q.content = p.content /\ q.revision = p.revision /\ q.ended = b
       /\ q.saw \in {p.saw, no}
  <2>1. CASE q = [p EXCEPT !.ended = b, !.at = at]
    BY <1>11, <2>1 DEF Page
  <2>2. CASE q = [p EXCEPT !.ended = b, !.saw = no, !.at = at]
    BY <1>11, <2>2 DEF Page
  <2> QED
    BY <1>10, <2>1, <2>2
<1>13. Shows(q, row, kind) /\ q.revision = p.revision
  BY <1>4, <1>6, <1>8, <1>11, <1>12 DEF Shows
<1> QED
  BY <1>1, <1>2, <1>4, <1>9, <1>13, Told, PageKeeps

\* The next event, if it is the next.
LEMMA EventOf ==
  ASSUME StreamInv, reader.flight # <<>>
  PROVE  Head(reader.flight) \in Event /\ Sound(Head(reader.flight), row, kind)
<1>1. PICK q \in Seq(Event) : q = reader.flight
  BY DEF StreamInv, ReaderInv
<1>2. Len(q) >= 1 /\ Len(q) \in Nat /\ Head(q) = q[1] /\ q[1] \in Event
  BY <1>1, EmptySeq, LenProperties, HeadTailProperties, ElementOfSeq
<1> QED
  BY <1>1, <1>2 DEF StreamInv, ReaderInv

LEMMA HearKeeps ==
  ASSUME StreamInv, HearRun \/ HearConv
  PROVE  StreamInv' /\ page'.revision >= page.revision
<1>1. UNCHANGED <<fixed, publishing>> /\ UNCHANGED <<kind, row>> /\ reader.flight # <<>>
  BY DEF HearRun, HearConv, fixed, publishing
<1>2. ReaderInv'
  <2>1. reader' = [reader EXCEPT !.flight = <<>>]
    BY DEF HearRun, HearConv
  <2> QED
    BY <1>1, <2>1, ReaderMoves
<1>3. PICK e : e = Head(reader.flight)
  OBVIOUS
<1>4. e \in Event /\ Sound(e, row, kind) /\ e.seq \in 1..MaxRevision /\ e.seq <= row.revision
  BY <1>1, <1>3, EventOf DEF Event, Sound
<1>5. PICK p : p = page
  OBVIOUS
<1>6. Shows(p, row, kind) /\ row \in Row /\ p.revision \in 0..MaxRevision
  BY <1>5, Told
<1>7. PICK q : q = page'
  OBVIOUS
<1>8. \/ q = p
      \/ e.seq > p.revision /\ q = Shown(p, e.seq)
      \/ \E at \in {"repair", "reload"} : q = [p EXCEPT !.at = at]
      \/ e.seq = p.revision + 1 /\ q = Patched(p, e)
      \/ e.seq = p.revision + 1 /\ \E at \in {"done", Patched(p, e).at} : q = [Patched(p, e) EXCEPT !.at = at]
  <2>1. e.seq \in Nat /\ p.revision \in Nat
    BY <1>4, <1>6, StreamBounds
  <2>2. CASE HearRun
    BY <1>3, <1>5, <1>7, <2>1, <2>2 DEF HearRun
  <2>3. CASE HearConv
    BY <1>3, <1>5, <1>7, <2>1, <2>3 DEF HearConv
  <2> QED
    BY <2>2, <2>3
<1>9. Shows(q, row, kind) /\ q.revision >= p.revision
  <2>1. CASE q = p
    BY <1>6, <2>1, StreamBounds
  <2>2. CASE e.seq > p.revision /\ q = Shown(p, e.seq)
    <3>1. PICK n \in 0..MaxRevision : n = e.seq
      BY <1>4, StreamBounds
    <3>2. n <= row.revision /\ n > p.revision /\ q = Shown(p, n)
      BY <1>4, <2>2, <3>1
    <3>3. Shows(Shown(p, n), row, kind) /\ Shown(p, n).revision = n
      BY <1>6, <3>2, ShowsBody
    <3> QED
      BY <1>6, <3>2, <3>3, StreamBounds
  <2>3. CASE \E at \in {"repair", "reload"} : q = [p EXCEPT !.at = at]
    <3>1. PICK at \in {"repair", "reload"} : q = [p EXCEPT !.at = at]
      BY <2>3
    <3>2. Shows(q, row, kind)
      BY <1>6, <3>1, ShowsAt
    <3>3. q.revision = p.revision
      BY <1>6, <3>1 DEF Shows, Page
    <3> QED
      BY <1>6, <3>2, <3>3, StreamBounds
  <2>4. CASE e.seq = p.revision + 1 /\ \/ q = Patched(p, e)
                                       \/ \E at \in {"done", Patched(p, e).at} : q = [Patched(p, e) EXCEPT !.at = at]
    <3>1. PICK s : s = Patched(p, e)
      OBVIOUS
    <3>2. Shows(s, row, kind)
      BY <1>4, <1>6, <2>4, <3>1, ShowsPatch
    <3>3. s.revision = e.seq /\ s.at \in {"closed", "discover", "live", "repair", "refresh", "reload", "done"}
      BY <1>6, <3>1, <3>2 DEF Shows, Page, Patched
    <3>4. CASE q = s
      BY <1>6, <2>4, <3>2, <3>3, <3>4, StreamBounds
    <3>5. CASE q # s
      <4>1. PICK at \in {"closed", "discover", "live", "repair", "refresh", "reload", "done"} :
              q = [s EXCEPT !.at = at]
        BY <2>4, <3>1, <3>3, <3>5
      <4>2. Shows(q, row, kind)
        BY <3>2, <4>1, ShowsAt
      <4>3. q.revision = s.revision
        BY <3>2, <4>1 DEF Shows, Page
      <4> QED
        BY <1>6, <2>4, <3>3, <4>2, <4>3, StreamBounds
    <3> QED
      BY <3>4, <3>5
  <2> QED
    BY <1>8, <2>1, <2>2, <2>3, <2>4
<1> QED
  BY <1>1, <1>2, <1>5, <1>7, <1>9, PageKeeps

LEMMA RepairKeeps ==
  ASSUME StreamInv, Repair
  PROVE  StreamInv' /\ page'.revision >= page.revision
<1>1. UNCHANGED <<fixed, publishing>> /\ UNCHANGED <<kind, row, reader>>
  BY DEF Repair, fixed, publishing
<1>2. ReaderInv'
  BY <1>1, ReaderMoves
<1>3. PICK p : p = page
  OBVIOUS
<1>4. /\ Shows(p, row, kind) /\ p \in Page /\ p.revision \in 0..MaxRevision
      /\ p.revision <= row.revision /\ row.revision \in 0..MaxRevision
  BY <1>3, Told DEF Shows
<1>5. PICK b \in BOOLEAN : b = row.ended
  BY Told
<1>6. PICK q : q = page'
  OBVIOUS
<1>7. Shows(q, row, kind) /\ q.revision = p.revision
  <2>1. CASE row.revision > page.revision
    <3>1. q = [p EXCEPT !.at = "reload", !.saw = b]
      BY <1>3, <1>5, <1>6, <2>1 DEF Repair
    <3>2. q \in Page /\ q.content = p.content /\ q.revision = p.revision /\ q.ended = p.ended /\ q.saw = b
      BY <1>4, <3>1 DEF Page
    <3> QED
      BY <1>4, <1>5, <3>2 DEF Shows
  <2>2. CASE ~(row.revision > page.revision)
    <3>1. PICK at \in {"live", "done"} : at = IF row.ended THEN "done" ELSE "live"
      OBVIOUS
    <3>2. q = [p EXCEPT !.at = at, !.ended = b]
      BY <1>3, <1>5, <1>6, <2>2, <3>1 DEF Repair
    <3>3. q \in Page /\ q.content = p.content /\ q.revision = p.revision /\ q.ended = b /\ q.saw = p.saw
      BY <1>4, <3>2 DEF Page
    <3>4. p.revision = row.revision
      BY <1>3, <1>4, <2>2, StreamBounds
    <3> QED
      BY <1>4, <1>5, <3>3, <3>4 DEF Shows
  <2> QED
    BY <2>1, <2>2
<1> QED
  BY <1>1, <1>2, <1>3, <1>4, <1>6, <1>7, StreamBounds, PageKeeps

\* observe: the body of the row if it is newer, with the End.
LEMMA ObserveKeeps ==
  ASSUME StreamInv, UNCHANGED <<fixed, publishing>>,
         NEW at \in {"live", "refresh"}, Observe(at)
  PROVE  StreamInv' /\ page'.revision >= page.revision
<1>1. UNCHANGED <<kind, row>>
  BY DEF fixed, publishing
<1>2. ReaderInv'
  <2>1. reader' \in {reader, Started(reader), NoReader}
    BY DEF Observe, MayStart
  <2> QED
    BY <1>1, <2>1, ReaderMoves
<1>3. PICK p : p = IF row.revision > page.revision THEN Shown(page, row.revision) ELSE page
  OBVIOUS
<1>4. Shows(p, row, kind) /\ p.revision = row.revision /\ p \in Page
  <2>1. page.revision \in Nat /\ row.revision \in Nat /\ page.revision <= row.revision
    BY Told, StreamBounds
  <2>2. CASE row.revision > page.revision
    BY <1>3, <2>2, BodyRead DEF Shows
  <2>3. CASE ~(row.revision > page.revision)
    BY <1>3, <2>1, <2>3, Told DEF Shows
  <2> QED
    BY <2>2, <2>3
<1>5. PICK b \in BOOLEAN : b = row.ended
  BY Told
<1>6. PICK c \in BOOLEAN : c = (p.ended \/ (row.revision > page.revision /\ row.ended))
  OBVIOUS
<1>7. PICK f \in {"watching", "gone"} : f = IF Active THEN "watching" ELSE "gone"
  OBVIOUS
<1>8. PICK q : q = [p EXCEPT !.at = at, !.saw = b, !.ended = c, !.found = f]
  OBVIOUS
<1>9. page' = q
  BY <1>3, <1>5, <1>6, <1>7, <1>8 DEF Observe
<1>10. q \in Page /\ q.content = p.content /\ q.revision = p.revision /\ q.ended = c /\ q.saw = b
  BY <1>4, <1>8 DEF Page
<1>11. Shows(q, row, kind)
  BY <1>4, <1>5, <1>6, <1>10 DEF Shows
<1> QED
  BY <1>1, <1>2, <1>4, <1>9, <1>10, <1>11, Told, PageKeeps

\* The page goes to another step of the loop, and shows what it showed.
LEMMA PageStays ==
  ASSUME StreamInv, UNCHANGED <<fixed, publishing>>, ReaderInv',
         NEW q, page' = q, q \in Page, q.content = page.content, q.revision = page.revision,
         q.ended = page.ended, q.saw = page.saw
  PROVE  StreamInv' /\ page'.revision >= page.revision
<1>1. Shows(q, row, kind)
  BY Told DEF Shows
<1> QED
  BY <1>1, Told, StreamBounds, PageKeeps

LEMMA LoopKeeps ==
  ASSUME StreamInv, UNCHANGED <<fixed, publishing>>,
         \/ reader' \in {reader, Started(reader), NoReader}
         \/ \E s \in {"off", "done"} : reader' = [reader EXCEPT !.state = s],
         \/ page' = page
         \/ \E at \in {"live", "repair", "refresh", "reload"} : page' = [page EXCEPT !.at = at]
         \/ \E at \in {"live", "discover"}, f \in {"unseen", "gone", "history"} :
              page' = [page EXCEPT !.at = at, !.found = f]
  PROVE  StreamInv' /\ page'.revision >= page.revision
<1>1. UNCHANGED <<kind, row>>
  BY DEF fixed, publishing
<1>2. ReaderInv'
  BY <1>1, ReaderMoves
<1>3. PICK p : p = page
  OBVIOUS
<1>4. p \in Page
  BY <1>3, Told DEF Shows
<1>5. PICK q : q = page'
  OBVIOUS
<1>6. /\ q \in Page /\ q.content = p.content /\ q.revision = p.revision
      /\ q.ended = p.ended /\ q.saw = p.saw
  <2>1. CASE q = p
    BY <1>4, <2>1
  <2>2. CASE \E at \in {"live", "repair", "refresh", "reload"} : q = [p EXCEPT !.at = at]
    BY <1>4, <2>2 DEF Page
  <2>3. CASE \E at \in {"live", "discover"}, f \in {"unseen", "gone", "history"} :
               q = [p EXCEPT !.at = at, !.found = f]
    BY <1>4, <2>3 DEF Page
  <2> QED
    BY <1>3, <1>5, <2>1, <2>2, <2>3
<1> QED
  BY <1>2, <1>3, <1>5, <1>6, PageStays

\* The listener's other steps.
LEMMA ListenKeeps ==
  ASSUME StreamInv, ListenRun \/ ListenConv
  PROVE  StreamInv' /\ page'.revision >= page.revision
<1>1. CASE OpenRun \/ ReloadRun
  BY <1>1, OpenRunKeeps
<1>2. CASE HearRun \/ HearConv
  BY <1>2, HearKeeps
<1>3. CASE Repair
  BY <1>3, RepairKeeps
<1>4. CASE BridgeErr \/ TickRun \/ ReaderDone
  <2>1. UNCHANGED <<fixed, publishing>>
    BY <1>4 DEF BridgeErr, TickRun, ReaderDone
  <2>2. page' = page \/ page' = [page EXCEPT !.at = "repair"]
    BY <1>4 DEF BridgeErr, TickRun, ReaderDone
  <2>3. \/ reader' \in {reader, Started(reader), NoReader}
        \/ reader' = [reader EXCEPT !.state = "off"]
    BY <1>4 DEF BridgeErr, TickRun, ReaderDone
  <2> QED
    BY <2>1, <2>2, <2>3, LoopKeeps
<1>5. CASE OpenConv
  <2>1. UNCHANGED <<fixed, publishing>> /\ reader' = reader
    BY <1>5 DEF OpenConv
  <2>2. PICK f \in {"unseen", "gone", "history"} : f = IF row.revision > 0 THEN "history" ELSE "unseen"
    OBVIOUS
  <2>3. page' = [page EXCEPT !.at = "discover", !.found = f]
    BY <1>5, <2>2 DEF OpenConv
  <2> QED
    BY <2>1, <2>3, LoopKeeps
<1>6. CASE Bootstrap \/ TickConv \/ ReloadConv
  <2>1. UNCHANGED <<fixed, publishing>>
    BY <1>6 DEF Bootstrap, TickConv, ReloadConv
  <2>2. \/ Observe("live") \/ Observe("refresh")
        \/ page' = [page EXCEPT !.at = "live"] /\ reader' = reader
        \/ page' = [page EXCEPT !.at = "refresh"] /\ reader' = reader
    BY <1>6 DEF Bootstrap, TickConv, ReloadConv
  <2>3. CASE Observe("live") \/ Observe("refresh")
    BY <2>1, <2>3, ObserveKeeps
  <2>4. CASE ~(Observe("live") \/ Observe("refresh"))
    BY <2>1, <2>2, <2>4, LoopKeeps
  <2> QED
    BY <2>3, <2>4
<1>7. CASE Refresh
  <2>1. UNCHANGED <<fixed, publishing>>
    BY <1>7 DEF Refresh
  <2>2. reader' \in {reader, Started(reader), NoReader}
    BY <1>7 DEF Refresh, MayStart
  <2>3. \/ \E at \in {"live", "reload"} : page' = [page EXCEPT !.at = at]
        \/ page' = [page EXCEPT !.at = "live", !.found = "gone"]
    BY <1>7 DEF Refresh
  <2> QED
    BY <2>1, <2>2, <2>3, LoopKeeps
<1> QED
  BY <1>1, <1>2, <1>3, <1>4, <1>5, <1>6, <1>7 DEF ListenRun, ListenConv

-----------------------------------------------------------------------------
\* The invariant, and what follows from it.

LEMMA InitHolds == ASSUME Init PROVE StreamInv
<1>1. RowInv
  BY StreamBounds DEF Init, RowInv, Row
<1>2. Len(<<>>) = 0 /\ <<>> \in Seq(Event)
  BY EmptySeq
<1>3. BridgeInv
  <2>1. /\ bridge \in [exists : BOOLEAN, log : Seq(Event), terminal : BOOLEAN]
        /\ ~bridge.exists /\ bridge.log = <<>>
    BY <1>2 DEF Init, NoStream
  <2>2. DOMAIN bridge.log = {}
    BY <2>1
  <2> QED
    BY <1>2, <2>1, <2>2 DEF BridgeInv, LogGapFree
<1>4. PubInv
  <2>1. PICK u : u = Idle
    OBVIOUS
  <2>2. u \in Publication /\ u.at = "idle" /\ u.todo = <<>>
    BY <2>1, IdleTypes
  <2>3. Working(u, row, kind, bridge.log, losses)
    BY <1>2, <2>2 DEF Working
  <2>4. pub = [w \in Writer |-> u]
    BY <2>1 DEF Init
  <2> QED
    BY <2>3, <2>4 DEF PubInv
<1>5. ReaderInv
  <2>1. PICK none \in Seq(Event), zero \in Nat : none = <<>> /\ zero = 0
    BY <1>2
  <2>2. reader = [state |-> "off", pos |-> zero, flight |-> none]
    BY <2>1 DEF Init, NoReader
  <2>3. reader \in Reader /\ reader.flight = none
    BY <2>2 DEF Reader
  <2> QED
    BY <1>2, <2>1, <2>3 DEF ReaderInv, Reader
<1>6. PageInv
  <2>1. PICK no \in BOOLEAN : no = FALSE
    OBVIOUS
  <2>2. PICK zero \in 0..MaxRevision : zero = 0
    BY StreamBounds
  <2>3. PICK none \in SUBSET (1..MaxRevision) : none = {}
    OBVIOUS
  <2>4. page = [at |-> "closed", revision |-> zero, content |-> none, ended |-> no,
                found |-> "unseen", saw |-> no]
    BY <2>1, <2>2, <2>3 DEF Init, NoPage
  <2>5. page \in Page /\ page.revision = zero /\ page.content = none /\ page.ended = no /\ page.saw = no
    BY <2>4 DEF Page
  <2>6. none = Content(zero) /\ row.revision = 0
    BY <2>2, <2>3 DEF Content, Init
  <2> QED
    BY <2>1, <2>2, <2>5, <2>6 DEF PageInv, PageFaithful
<1> QED
  BY <1>1, <1>3, <1>4, <1>5, <1>6 DEF StreamInv

LEMMA NextKeeps ==
  ASSUME StreamInv, [Next]_vars
  PROVE  StreamInv' /\ page'.revision >= page.revision
<1>1. page.revision >= page.revision
  BY Told, StreamBounds
<1>2. CASE UNCHANGED vars
  <2>1. UNCHANGED <<fixed, publishing, reader, page>>
    BY <1>2 DEF vars, fixed, publishing
  <2> QED
    BY <2>1, LoopKeeps
<1>3. CASE Write
  <2>1. PICK w \in Writer :
          \/ Create(w) \/ Output(w) \/ Finish(w) \/ Repeat(w)
          \/ ReadState(w) \/ BridgeState(w) \/ EnsureStream(w) \/ Initialize(w)
          \/ Snapshot(w) \/ Send(w) \/ MarkTerminal(w) \/ GiveUp(w) \/ Crash(w)
    BY <1>3 DEF Write
  <2>2. page' = page
    <3>1. CASE Create(w) \/ Output(w) \/ Finish(w) \/ Repeat(w)
      BY <3>1 DEF Create, Output, Finish, Repeat, Commit, listening
    <3>2. CASE ReadState(w) \/ BridgeState(w) \/ EnsureStream(w) \/ Initialize(w)
      BY <3>2 DEF ReadState, BridgeState, EnsureStream, Initialize, listening
    <3>3. CASE Snapshot(w) \/ Send(w) \/ MarkTerminal(w) \/ GiveUp(w) \/ Crash(w)
      BY <3>3 DEF Snapshot, Send, MarkTerminal, GiveUp, Crash, listening
    <3> QED
      BY <2>1, <3>1, <3>2, <3>3
  <2>3. StreamInv'
    BY <2>1, CreateKeeps, OutputKeeps, RepeatKeeps, ReadStateKeeps, BridgeStateKeeps, EnsureStreamKeeps,
       InitializeKeeps, SnapshotKeeps, SendKeeps, MarkTerminalKeeps, GiveUpKeeps
  <2> QED
    BY <1>1, <2>2, <2>3
<1>4. CASE Expire \/ Settle \/ LoseStream \/ ReaderNext \/ ReaderStops
  <2>1. page' = page
    BY <1>4 DEF Expire, Settle, LoseStream, ReaderNext, ReaderStops, listening
  <2> QED
    BY <1>1, <1>4, <2>1, ExpireKeeps, LoseStreamKeeps, ReaderNextKeeps
<1>5. CASE ListenRun \/ ListenConv
  BY <1>5, ListenKeeps
<1> QED
  BY <1>2, <1>3, <1>4, <1>5 DEF Next

\* Every event under way tells of what SQL has, and every page shows a body that
\* SQL has committed: what all steps of writers, collector, bridge, readers and
\* listeners keep.
THEOREM StreamInvariant == Spec => []StreamInv
<1>1. Init => StreamInv
  BY InitHolds
<1>2. StreamInv /\ [Next]_vars => StreamInv'
  BY NextKeeps
<1> QED
  BY <1>1, <1>2, PTL DEF Spec

\* Types (message.go, message_listener.go, conv_listener.go).
THEOREM StreamTypeCorrect == Spec => []TypeOK
<1>1. StreamInv => TypeOK
  <2> SUFFICES ASSUME StreamInv PROVE TypeOK
    OBVIOUS
  <2>1. \A w \in Writer : pub[w] \in Publication
    BY DEF StreamInv, PubInv, Working
  <2>2. pub \in [Writer -> Publication]
    BY <2>1 DEF StreamInv, PubInv
  <2>3. /\ row \in Row /\ kind \in {"operator", "harness", "human"}
        /\ listener \in {"message", "conv"} /\ losses \in 0..MaxLosses
    BY DEF StreamInv, RowInv
  <2>4. bridge \in [exists : BOOLEAN, log : Seq(Event), terminal : BOOLEAN]
    BY DEF StreamInv, BridgeInv
  <2>5. reader \in Reader /\ page \in Page
    BY DEF StreamInv, ReaderInv, Reader, PageInv
  <2> QED
    BY <2>2, <2>3, <2>4, <2>5 DEF TypeOK, Row, Reader, Page, Publication
<1> QED
  BY <1>1, StreamInvariant, PTL

\* What a page shows is the whole body of a revision that SQL has committed, and a
\* page that was told that output ended shows all of it (message_listener.go:140,
\* conv_listener.go:284), whatever the bridge loses, refuses or repeats.
THEOREM PageFaithfulHolds == Spec => []PageFaithful
<1>1. StreamInv => PageFaithful
  BY DEF StreamInv, PageInv
<1> QED
  BY <1>1, StreamInvariant, PTL

\* As long as the bridge keeps the stream, every delta in it follows its
\* predecessor or a newer body (message.go: publish).
THEOREM LogGapFreeHolds == Spec => []LogGapFree
<1>1. StreamInv => LogGapFree
  BY DEF StreamInv, BridgeInv
<1> QED
  BY <1>1, StreamInvariant, PTL

\* A page never goes back to an older revision, although each reader replays the
\* stream from its first event.
THEOREM PageMovesForwardHolds == Spec => PageMovesForward
<1>1. StreamInv /\ [Next]_vars => [page'.revision >= page.revision]_vars
  BY NextKeeps
<1> QED
  BY <1>1, StreamInvariant, PTL DEF Spec, PageMovesForward

=============================================================================
