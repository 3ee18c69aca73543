-------------------------- MODULE ConversationProofs --------------------------
(***************************************************************************)
(* The delivery of a conversation: the safety properties of Conversation   *)
(* for any participants, replicas, messages and faults.  What has to be    *)
(* shown is that a position covers everything before it: rows become       *)
(* visible in ID order, a batch has no holes, and only what was handled is *)
(* committed; and that a mark is cleared for a row that was signalled.     *)
(***************************************************************************)
EXTENDS Conversation, FiniteSetTheorems, SequenceTheorems, WellFoundedInduction, TLAPS

Resource ==
  [end : [Actor -> 0..MaxMessages], wake : [Actor -> Stamp],
   position : [Actor -> 0..MaxMessages], committed : [Actor -> 0..MaxMessages]]

Notice == [id : ID, revision : 1..MaxRevision]

\* The state has its types; IDs are allocated up to the last one.
Typed ==
  /\ last \in 0..MaxMessages
  /\ open \in [DOMAIN open -> Row] /\ DOMAIN open \subseteq 1..last
  /\ messages \in [DOMAIN messages -> Row] /\ DOMAIN messages \subseteq 1..last
  /\ conv \in Resource
  /\ batch \in [Notifier -> Seq(Notice)]
  /\ signalled \in [Notifier -> BOOLEAN]
  /\ cache \in [Actor -> View]
  /\ queued \in [Actor -> BOOLEAN]
  /\ pc \in [Actor -> {"idle", "working", "commit"}]
  /\ pos \in [Actor -> 0..MaxMessages]
  /\ taken \in [Actor -> SUBSET ID]
  /\ handled \in [Actor -> SUBSET ID]
  /\ told \in [ID -> 0..MaxRevision]
  /\ faults \in 0..MaxFaults

\* A row is written with its mark; a message that is not ended has a revision left.
Written ==
  /\ \A i \in DOMAIN open :
       /\ open[i].pending = (open[i].target # User)
       /\ open[i].source = User => open[i].target \in Actor
       /\ ~open[i].ended => open[i].revision < MaxRevision
  /\ \A i \in DOMAIN messages : ~messages[i].ended => messages[i].revision < MaxRevision

\* An insert that is still open has a larger ID than every visible row.
VisibleInOrder == \A i \in DOMAIN open : \A j \in DOMAIN messages : j < i

\* A notifier works on rows; what it has signalled is covered by the EndOffset.
Notified ==
  \A n \in Notifier :
    /\ \A k \in 1..Len(batch[n]) : batch[n][k].id \in DOMAIN messages
    /\ signalled[n] =>
         /\ batch[n] # <<>>
         /\ LET i == batch[n][1].id
            IN messages[i].target \in Actor => conv.end[messages[i].target] >= i

\* A position is 0 or a row's.
Positions ==
  \A a \in Actor : {conv.committed[a], conv.position[a], pos[a]} \subseteq DOMAIN messages \cup {0}

\* A Reconcile has taken every message of the actor up to the position it has read.
Read ==
  \A a \in Actor :
    /\ pc[a] = "idle" => pos[a] = 0 /\ taken[a] = {}
    /\ pc[a] # "idle" => \A i \in DOMAIN messages :
         i <= pos[a] /\ Addressed(i, a) =>
           i \in handled[a] \/ (pc[a] = "working" /\ i \in taken[a])

\* What every step keeps.
ConversationInv ==
  /\ Typed /\ Written /\ VisibleInOrder /\ Notified /\ AcknowledgedIsSignalled
  /\ Positions /\ Read /\ AtLeastOnce

-----------------------------------------------------------------------------
\* Sets of IDs.

\* A set of naturals with a bound has a greatest element: the elements above x are
\* fewest when there are none.
LEMMA Greatest ==
  ASSUME NEW n \in Nat, NEW S \in SUBSET (0..n), S # {}
  PROVE  \E x \in S : \A y \in S : x >= y
<1> DEFINE Above(x) == {y \in S : y > x}
           family == {Above(x) : x \in S}
<1>1. IsFiniteSet(S)
  <2>1. IsFiniteSet(0..n)
    BY FS_Interval
  <2> QED
    BY <2>1, FS_Subset
<1>2. family \subseteq FiniteSubsetsOf(S) /\ family # {}
  <2>1. FiniteSubsetsOf(S) = SUBSET S
    BY <1>1, FS_FiniteSubsetsOfFinite
  <2>2. family \subseteq SUBSET S /\ family # {}
    OBVIOUS
  <2> QED
    BY <2>1, <2>2
<1>3. \E A \in family : \A B \in family : <<B, A>> \notin StrictSubsetOrdering(S)
  <2> HIDE DEF family
  <2> QED
    BY <1>2, FS_StrictSubsetOrderingWellFounded, WFMin
<1>4. PICK x \in S : \A y \in S : <<Above(y), Above(x)>> \notin StrictSubsetOrdering(S)
  BY <1>3
<1>5. ASSUME NEW y \in S, ~(x >= y) PROVE FALSE
  <2>1. Above(y) \subseteq S /\ Above(x) \subseteq S
    OBVIOUS
  <2>2. x \in Nat /\ y \in Nat /\ y > x
    BY <1>5
  <2>3. y \in Above(x) /\ y \notin Above(y)
    BY <2>2
  <2>4. ASSUME NEW z \in Above(y) PROVE z \in Above(x)
    <3>1. z \in S /\ z \in Nat /\ z > y
      OBVIOUS
    <3> QED
      BY <2>2, <3>1
  <2>5. <<Above(y), Above(x)>> \in StrictSubsetOrdering(S)
    BY <2>1, <2>3, <2>4 DEF StrictSubsetOrdering
  <2> QED
    BY <1>4, <2>5
<1> QED
  BY <1>5

LEMMA MaxOf ==
  ASSUME NEW n \in Nat, NEW S \in SUBSET (0..n), S # {}
  PROVE  Max(S) \in S /\ \A y \in S : Max(S) >= y
  BY Greatest DEF Max

\* The larger of two.
LEMMA MaxOfTwo ==
  ASSUME NEW n \in Nat, NEW x \in 0..n, NEW y \in 0..n
  PROVE  Max({x, y}) \in {x, y} /\ Max({x, y}) >= x /\ Max({x, y}) >= y
<1> DEFINE S == {x, y}
<1>1. S \in SUBSET (0..n) /\ S # {} /\ x \in S /\ y \in S
  OBVIOUS
<1> HIDE DEF S
<1>2. Max(S) \in S /\ \A z \in S : Max(S) >= z
  BY <1>1, MaxOf
<1>3. Max(S) \in S /\ Max(S) >= x /\ Max(S) >= y
  BY <1>1, <1>2
<1> QED
  BY <1>3 DEF S

\* A row that is changed in place keeps its addresses.
SameRows ==
  /\ messages' \in [DOMAIN messages -> Row] /\ DOMAIN messages' = DOMAIN messages
  /\ \A i \in DOMAIN messages : /\ messages'[i].target = messages[i].target
                                /\ messages'[i].source = messages[i].source

\* A batch is the rows up to its last one, without holes.
LEMMA BatchReaches ==
  ASSUME Typed, NEW a \in Actor, NEW after \in Nat, Batch(a, after) # {}
  PROVE  LET top == Max(Batch(a, after))
         IN /\ top \in DOMAIN messages /\ top > after /\ top \in 1..MaxMessages
            /\ Batch(a, after) \subseteq DOMAIN messages
            /\ \A y \in Batch(a, after) : top >= y
            /\ \A i \in DOMAIN messages :
                 after < i /\ i <= top /\ Addressed(i, a) => i \in Batch(a, after)
<1> DEFINE B == Batch(a, after)
           In == Inbox(a, after)
<1>1. MaxMessages \in Nat /\ Limit \in Nat \ {0}
  BY ConversationBounds
<1>2. DOMAIN messages \subseteq 1..MaxMessages
  BY <1>1 DEF Typed
<1>3. In \subseteq DOMAIN messages /\ B \subseteq In /\ \A i \in In : i > after
  BY DEF Inbox, Batch
<1>4. B \in SUBSET (0..MaxMessages) /\ B # {}
  BY <1>1, <1>2, <1>3
<1>5. Max(B) \in B /\ \A y \in B : Max(B) >= y
  <2> HIDE DEF B
  <2> QED
    BY <1>1, <1>4, MaxOf
<1>6. PICK top : top = Max(B)
  OBVIOUS
<1>7. ASSUME NEW i \in DOMAIN messages, after < i, i <= top, Addressed(i, a)
      PROVE  i \in B
  <2> DEFINE Less == {j \in In : j < i}
             LessTop == {j \in In : j < top}
  <2>1. i \in In /\ top \in In
    BY <1>3, <1>5, <1>6, <1>7 DEF Inbox
  <2>2. Less \subseteq LessTop /\ LessTop \subseteq 0..MaxMessages
    BY <1>1, <1>2, <1>3, <1>7, <2>1
  <2>3. IsFiniteSet(LessTop)
    <3>1. IsFiniteSet(0..MaxMessages)
      BY <1>1, FS_Interval
    <3> HIDE DEF LessTop
    <3> QED
      BY <2>2, <3>1, FS_Subset
  <2>4. Cardinality(Less) <= Cardinality(LessTop) /\ Cardinality(LessTop) \in Nat
        /\ Cardinality(Less) \in Nat
    <3> HIDE DEF Less, LessTop
    <3>1. IsFiniteSet(Less)
      BY <2>2, <2>3, FS_Subset
    <3> QED
      BY <2>2, <2>3, <3>1, FS_Subset, FS_CardinalityType
  <2>5. Cardinality(LessTop) < Limit
    BY <1>5, <1>6 DEF Batch
  <2>6. Cardinality(Less) < Limit
    BY <1>1, <2>4, <2>5
  <2> QED
    BY <2>1, <2>6 DEF Batch
<1> QED
  BY <1>2, <1>3, <1>5, <1>6, <1>7

-----------------------------------------------------------------------------
\* Types.

LEMMA BoundTypes ==
  /\ MaxMessages \in Nat /\ MaxFaults \in Nat /\ Limit \in Nat \ {0}
  /\ MaxRevision \in Nat /\ MaxRevision >= 2
  BY ConversationBounds

\* The writers.
LEMMA AllocateTyped == ASSUME Typed, Written, Allocate PROVE Typed' /\ Written'
<1>1. PICK s \in Actor \cup {User}, t \in Actor \cup {User, Everyone}, e \in BOOLEAN :
        (s = User => t \in Actor /\ e) /\ open' = With(open, last + 1, NewRow(s, t, e))
  BY DEF Allocate
<1> DEFINE row == NewRow(s, t, e)
<1>2. /\ row \in Row /\ row.pending = (row.target # User)
      /\ row.source = User => row.target \in Actor
      /\ row.revision < MaxRevision
  <2>1. /\ row = [source |-> s, target |-> t, ended |-> e, revision |-> 1, pending |-> t # User]
        /\ (t # User) \in BOOLEAN /\ 1 \in 1..MaxRevision /\ 1 < MaxRevision
    BY BoundTypes DEF NewRow
  <2> HIDE DEF row
  <2>2. row \in Row
    BY <2>1 DEF Row
  <2>3. row.pending = (t # User) /\ row.target = t /\ row.source = s /\ row.revision = 1
    BY <2>1
  <2> QED
    BY <1>1, <2>1, <2>2, <2>3
<1> HIDE DEF row
<1>3. last' = last + 1 /\ last' \in 0..MaxMessages /\ last \in Nat
  BY BoundTypes DEF Allocate, Typed
<1>4. /\ open' \in [DOMAIN open \cup {last + 1} -> Row]
      /\ DOMAIN open' = DOMAIN open \cup {last + 1}
      /\ open'[last + 1] = row
      /\ \A j \in DOMAIN open \ {last + 1} : open'[j] = open[j]
  <2>1. open \in [DOMAIN open -> Row]
    BY DEF Typed
  <2>2. open' = With(open, last + 1, row)
    BY <1>1 DEF row
  <2> QED
    BY <1>2, <2>1, <2>2 DEF With
<1>5. DOMAIN open' \subseteq 1..last'
  BY <1>3, <1>4 DEF Typed
<1>6. DOMAIN messages \subseteq 1..last'
  BY <1>3 DEF Typed
<1>7. Typed'
  BY <1>3, <1>4, <1>5, <1>6 DEF Typed, Allocate, notify, consumer
<1>8. Written'
  BY <1>2, <1>4 DEF Written, Allocate
<1> QED
  BY <1>7, <1>8

LEMMA InsertTyped == ASSUME Typed, Written, NEW i \in ID, Insert(i) PROVE Typed' /\ Written'
<1>1. i \in DOMAIN open /\ open[i] \in Row /\ i \in 1..last
  BY DEF Insert, Typed
<1>2. /\ messages' \in [DOMAIN messages \cup {i} -> Row]
      /\ DOMAIN messages' = DOMAIN messages \cup {i} /\ messages'[i] = open[i]
      /\ \A j \in DOMAIN messages \ {i} : messages'[j] = messages[j]
  <2>1. messages \in [DOMAIN messages -> Row] /\ messages' = With(messages, i, open[i])
    BY DEF Typed, Insert
  <2> QED
    BY <1>1, <2>1 DEF With
<1>3. /\ open' \in [DOMAIN open \ {i} -> Row] /\ DOMAIN open' = DOMAIN open \ {i}
      /\ \A j \in DOMAIN open \ {i} : open'[j] = open[j]
  BY DEF Insert, Typed, Without
<1>4. batch' \in [Notifier -> Seq(Notice)] /\ signalled' \in [Notifier -> BOOLEAN]
  <2>1. CASE UNCHANGED notify
    BY <2>1 DEF notify, Typed
  <2>2. ASSUME NEW n \in Notifier, batch' = [batch EXCEPT ![n] = <<[id |-> i, revision |-> 1]>>],
               UNCHANGED signalled
        PROVE  batch' \in [Notifier -> Seq(Notice)] /\ signalled' \in [Notifier -> BOOLEAN]
    <3>1. [id |-> i, revision |-> 1] \in Notice
      BY BoundTypes DEF Notice
    <3>2. <<[id |-> i, revision |-> 1]>> \in Seq(Notice)
      BY <3>1
    <3> QED
      BY <2>2, <3>2 DEF Typed
  <2> QED
    BY <2>1, <2>2 DEF Insert
<1>5. Typed'
  BY <1>1, <1>2, <1>3, <1>4 DEF Typed, Insert, consumer
<1>6. Written'
  BY <1>1, <1>2, <1>3 DEF Written, Insert
<1> QED
  BY <1>5, <1>6

LEMMA InsertFailsTyped ==
  ASSUME Typed, Written, NEW i \in ID, InsertFails(i) PROVE Typed' /\ Written'
<1>1. /\ open' \in [DOMAIN open \ {i} -> Row] /\ DOMAIN open' = DOMAIN open \ {i}
      /\ \A j \in DOMAIN open \ {i} : open'[j] = open[j]
  BY DEF InsertFails, Typed, Without
<1>2. faults' \in 0..MaxFaults
  BY BoundTypes DEF InsertFails, Fault, Typed
<1>3. Typed'
  BY <1>1, <1>2 DEF Typed, InsertFails, notify, consumer
<1>4. Written'
  BY <1>1 DEF Written, InsertFails
<1> QED
  BY <1>3, <1>4

\* A row that is changed in place.
LEMMA EmitTyped == ASSUME Typed, Written, NEW i \in ID, Emit(i) PROVE Typed' /\ Written' /\ SameRows
<1>1. /\ i \in DOMAIN messages /\ messages[i] \in Row /\ messages[i].revision \in Nat
      /\ messages[i].revision < MaxRevision - 1
  BY BoundTypes DEF Emit, Typed, Row
<1>2. messages' = [messages EXCEPT ![i] = [messages[i] EXCEPT !.revision = messages[i].revision + 1]]
  BY DEF Emit
<1>3. [messages[i] EXCEPT !.revision = messages[i].revision + 1] \in Row
  BY <1>1, BoundTypes DEF Row
<1>4. SameRows
  BY <1>1, <1>2, <1>3 DEF SameRows, Typed, Row
<1>5. Typed'
  BY <1>4 DEF SameRows, Typed, Emit, notify, consumer
<1>6. Written'
  BY <1>1, <1>2, BoundTypes DEF Written, Emit, Typed, Row
<1> QED
  BY <1>4, <1>5, <1>6

LEMMA EndTyped == ASSUME Typed, Written, NEW i \in ID, End(i) PROVE Typed' /\ Written' /\ SameRows
<1>1. /\ i \in DOMAIN messages /\ messages[i] \in Row /\ messages[i].revision \in Nat
      /\ messages[i].revision < MaxRevision
  BY BoundTypes DEF End, Typed, Row, Written
<1> DEFINE row == [messages[i] EXCEPT !.ended = TRUE, !.revision = messages[i].revision + 1,
                                      !.pending = (messages[i].target # User)]
<1>2. messages' = [messages EXCEPT ![i] = row]
  BY DEF End
<1>3. row \in Row /\ row.target = messages[i].target /\ row.source = messages[i].source /\ row.ended
  <2>1. (messages[i].target # User) \in BOOLEAN /\ messages[i].revision + 1 \in 1..MaxRevision
    BY <1>1, BoundTypes
  <2> QED
    BY <1>1, <2>1 DEF Row
<1> HIDE DEF row
<1>4. SameRows
  BY <1>1, <1>2, <1>3 DEF SameRows, Typed
<1>5. Typed'
  BY <1>4 DEF SameRows, Typed, End, notify, consumer
<1>6. Written'
  BY <1>1, <1>2, <1>3 DEF Written, End, Typed
<1> QED
  BY <1>4, <1>5, <1>6

\* The notifiers.
LEMMA PendingTyped ==
  ASSUME Typed, Written, NEW n \in Notifier, PendingDispatches(n) PROVE Typed' /\ Written'
<1>1. PICK ids \in [1..Cardinality(Page) -> Page] :
        batch' = [batch EXCEPT ![n] =
          [k \in DOMAIN ids |-> [id |-> ids[k], revision |-> messages[ids[k]].revision]]]
  BY DEF PendingDispatches
<1> DEFINE new == [k \in DOMAIN ids |-> [id |-> ids[k], revision |-> messages[ids[k]].revision]]
<1>2. Cardinality(Page) \in Nat
  <2>1. Page \subseteq 1..MaxMessages
    BY BoundTypes DEF Page, Pending, Typed
  <2>2. IsFiniteSet(1..MaxMessages)
    BY BoundTypes, FS_Interval
  <2> HIDE DEF Page
  <2> QED
    BY <2>1, <2>2, FS_Subset, FS_CardinalityType
<1>3. ASSUME NEW i \in Page PROVE [id |-> i, revision |-> messages[i].revision] \in Notice
  BY BoundTypes DEF Page, Pending, Typed, Row, Notice, ID
<1>4. new \in [1..Cardinality(Page) -> Notice]
  BY <1>3
<1>5. new \in Seq(Notice)
  BY <1>2, <1>4, SeqDef
<1> HIDE DEF new
<1>6. batch' \in [Notifier -> Seq(Notice)]
  BY <1>1, <1>5 DEF new, Typed
<1> QED
  BY <1>6 DEF Typed, Written, PendingDispatches, store, consumer

\* A batch that is worked on.
LEMMA BatchHead ==
  ASSUME Typed, NEW n \in Notifier, batch[n] # <<>>
  PROVE  /\ batch[n] \in Seq(Notice) /\ Head(batch[n]) = batch[n][1] /\ Head(batch[n]) \in Notice
         /\ Len(batch[n]) \in Nat /\ Len(batch[n]) >= 1
         /\ Tail(batch[n]) \in Seq(Notice) /\ Len(Tail(batch[n])) = Len(batch[n]) - 1
         /\ \A k \in 1..Len(Tail(batch[n])) : Tail(batch[n])[k] = batch[n][k + 1]
<1>1. PICK b \in Seq(Notice) : b = batch[n]
  BY DEF Typed
<1>2. /\ Len(b) \in Nat /\ Len(b) >= 1 /\ Head(b) = b[1] /\ Tail(b) \in Seq(Notice)
      /\ Len(Tail(b)) = Len(b) - 1 /\ \A k \in 1..Len(Tail(b)) : Tail(b)[k] = b[k + 1]
      /\ b[1] \in Notice
  BY <1>1, EmptySeq, HeadTailProperties, LenProperties, ElementOfSeq
<1> QED
  BY <1>1, <1>2

\* The signal reaches some participants, and their EndOffset grows.
LEMMA SignalReaches ==
  ASSUME Typed, NEW n \in Notifier, Signal(n)
  PROVE  LET stamp == batch[n][1]
             to == Recipients(messages[stamp.id].target)
         IN /\ batch[n] # <<>> /\ stamp \in Notice
            /\ conv' \in Resource
            /\ \A a \in Actor : conv'.end[a] >= conv.end[a] /\ (a \in to => conv'.end[a] >= stamp.id)
            /\ conv'.committed = conv.committed /\ conv'.position = conv.position
<1> DEFINE stamp == batch[n][1]
           to == Recipients(messages[stamp.id].target)
           wake == [a \in Actor |-> IF a \in to THEN stamp ELSE conv.wake[a]]
           end == [a \in Actor |-> IF a \in to THEN Max({conv.end[a], stamp.id}) ELSE conv.end[a]]
<1>1. batch[n] # <<>> /\ stamp \in Notice /\ stamp = Head(batch[n])
  BY BatchHead DEF Signal
<1>2. conv' = [conv EXCEPT !.wake = wake, !.end = end]
  BY <1>1 DEF Signal
<1>3. /\ stamp.id \in 0..MaxMessages /\ stamp \in Stamp
      /\ \A a \in Actor : conv.end[a] \in 0..MaxMessages /\ conv.wake[a] \in Stamp
  BY <1>1, BoundTypes DEF Notice, Stamp, ID, Typed, Resource
<1> HIDE DEF stamp, to
<1>4. \A a \in Actor : wake[a] \in Stamp /\ end[a] \in 0..MaxMessages
                       /\ end[a] >= conv.end[a] /\ (a \in to => end[a] >= stamp.id)
  BY <1>3, BoundTypes, MaxOfTwo
<1>5. wake \in [Actor -> Stamp] /\ end \in [Actor -> 0..MaxMessages]
  BY <1>4
<1> HIDE DEF wake, end
<1>6. /\ conv' \in Resource /\ conv'.end = end
      /\ conv'.committed = conv.committed /\ conv'.position = conv.position
  BY <1>2, <1>5 DEF Typed, Resource
<1> QED
  BY <1>1, <1>4, <1>6 DEF stamp, to

LEMMA SignalTyped == ASSUME Typed, Written, NEW n \in Notifier, Signal(n) PROVE Typed' /\ Written'
<1>1. batch[n] # <<>> /\ batch[n][1] \in Notice /\ conv' \in Resource
  BY SignalReaches
<1>2. PICK stamp \in Notice : stamp = batch[n][1] /\ stamp = Head(batch[n])
  BY <1>1, BatchHead
<1>3. told' \in [ID -> 0..MaxRevision]
  <2>1. told' = [told EXCEPT ![stamp.id] = Max({told[stamp.id], stamp.revision})]
    BY <1>2 DEF Signal
  <2>2. stamp.id \in ID /\ stamp.revision \in 0..MaxRevision /\ told[stamp.id] \in 0..MaxRevision
    BY BoundTypes DEF Notice, Typed
  <2>3. Max({told[stamp.id], stamp.revision}) \in 0..MaxRevision
    <3>1. PICK x, y \in 0..MaxRevision : x = told[stamp.id] /\ y = stamp.revision
      BY <2>2
    <3>2. Max({x, y}) \in {x, y}
      BY BoundTypes, MaxOfTwo
    <3> QED
      BY <3>1, <3>2
  <2> QED
    BY <2>1, <2>2, <2>3 DEF Typed
<1> QED
  BY <1>1, <1>3 DEF Typed, Written, Signal, store, consumer

LEMMA AcknowledgeTyped ==
  ASSUME Typed, Written, Notified, NEW n \in Notifier, AcknowledgeDispatch(n)
  PROVE  /\ Typed' /\ Written' /\ SameRows
         /\ batch[n] # <<>> /\ batch[n][1].id \in DOMAIN messages
         /\ messages' = [messages EXCEPT ![batch[n][1].id].pending = FALSE]
         /\ batch' = [batch EXCEPT ![n] = Tail(batch[n])]
         /\ signalled' = [signalled EXCEPT ![n] = FALSE]
<1>1. batch[n] # <<>>
  BY DEF Notified, AcknowledgeDispatch
<1>2. PICK i : i = batch[n][1].id
  OBVIOUS
<1>3. i \in DOMAIN messages /\ Head(batch[n]).id = i /\ Tail(batch[n]) \in Seq(Notice)
  BY <1>1, <1>2, BatchHead DEF Notified
<1>4. /\ messages' = [messages EXCEPT ![i] = [messages[i] EXCEPT !.pending = FALSE]]
      /\ batch' = [batch EXCEPT ![n] = Tail(batch[n])]
      /\ signalled' = [signalled EXCEPT ![n] = FALSE]
  BY <1>3 DEF AcknowledgeDispatch
<1>5. SameRows
  <2> DEFINE row == [messages[i] EXCEPT !.pending = FALSE]
  <2>1. row \in Row /\ row.target = messages[i].target /\ row.source = messages[i].source
    <3>1. messages[i] \in Row
      BY <1>3 DEF Typed
    <3> QED
      BY <3>1 DEF Row
  <2>2. messages' = [messages EXCEPT ![i] = row]
    BY <1>4
  <2> HIDE DEF row
  <2> QED
    BY <1>3, <2>1, <2>2 DEF SameRows, Typed
<1>6. batch' \in [Notifier -> Seq(Notice)] /\ signalled' \in [Notifier -> BOOLEAN]
  BY <1>3, <1>4 DEF Typed
<1>7. Typed'
  BY <1>5, <1>6 DEF SameRows, Typed, AcknowledgeDispatch, consumer
<1>8. Written'
  BY <1>3, <1>4 DEF Written, AcknowledgeDispatch, Typed, Row
<1> QED
  BY <1>1, <1>2, <1>3, <1>4, <1>5, <1>7, <1>8

LEMMA NotifyFailsTyped == ASSUME Typed, Written, NEW n \in Notifier, NotifyFails(n) PROVE Typed' /\ Written'
<1>1. PICK rest \in {Tail(batch[n]), <<>>} : batch' = [batch EXCEPT ![n] = rest]
  BY DEF NotifyFails
<1>2. rest \in Seq(Notice)
  BY <1>1, BatchHead, EmptySeq DEF NotifyFails
<1>3. faults' \in 0..MaxFaults
  BY BoundTypes DEF NotifyFails, Fault, Typed
<1> QED
  BY <1>1, <1>2, <1>3 DEF Typed, Written, NotifyFails, store, consumer

\* The controllers.
LEMMA ReceiveTyped ==
  ASSUME Typed, NEW a \in Actor, NEW after \in Nat, Batch(a, after) # {}, Receive(a, Batch(a, after))
  PROVE  /\ conv' \in Resource /\ conv'.end = conv.end /\ conv'.committed = conv.committed
         /\ pos' = [pos EXCEPT ![a] = Max(Batch(a, after))]
         /\ taken' = [taken EXCEPT ![a] = @ \cup Batch(a, after)]
         /\ pc' = [pc EXCEPT ![a] = "working"]
         /\ \A b \in Actor : conv'.position[b] \in {conv.position[b]} \cup Batch(a, after)
         /\ pos' \in [Actor -> 0..MaxMessages] /\ taken' \in [Actor -> SUBSET ID]
         /\ pc' \in [Actor -> {"idle", "working", "commit"}]
<1>1. PICK got : got = Batch(a, after)
  OBVIOUS
<1>2. got \subseteq DOMAIN messages /\ DOMAIN messages \subseteq 1..MaxMessages /\ Max(got) \in 1..MaxMessages
  BY <1>1, BatchReaches, BoundTypes DEF Typed
<1>3. conv.position[a] \in 0..MaxMessages
  BY DEF Typed, Resource
<1>4. Max({conv.position[a]} \cup got) \in {conv.position[a]} \cup got
  <2> DEFINE S == {conv.position[a]} \cup got
  <2>1. S \in SUBSET (0..MaxMessages) /\ S # {}
    BY <1>2, <1>3, BoundTypes
  <2> HIDE DEF S
  <2>2. Max(S) \in S
    BY <2>1, BoundTypes, MaxOf
  <2> QED
    BY <2>2 DEF S
<1>5. PICK top : top = Max({conv.position[a]} \cup got)
  OBVIOUS
<1>6. conv' = [conv EXCEPT !.position = [conv.position EXCEPT ![a] = top]]
  BY <1>1, <1>5 DEF Receive, Typed, Resource
<1>7. top \in {conv.position[a]} \cup got /\ top \in 0..MaxMessages
  BY <1>2, <1>3, <1>4, <1>5, BoundTypes
<1>8. [conv.position EXCEPT ![a] = top] \in [Actor -> 0..MaxMessages]
  BY <1>7 DEF Typed, Resource
<1>9. /\ conv' \in Resource /\ conv'.end = conv.end /\ conv'.committed = conv.committed
      /\ conv'.position = [conv.position EXCEPT ![a] = top]
  BY <1>6, <1>8 DEF Typed, Resource
<1>10. \A b \in Actor : conv'.position[b] \in {conv.position[b]} \cup got
  BY <1>7, <1>9 DEF Typed, Resource
<1>11. /\ pos' = [pos EXCEPT ![a] = Max(got)]
       /\ taken' = [taken EXCEPT ![a] = @ \cup got]
       /\ pc' = [pc EXCEPT ![a] = "working"]
  BY <1>1 DEF Receive
<1>12. /\ pos' \in [Actor -> 0..MaxMessages] /\ taken' \in [Actor -> SUBSET ID]
       /\ pc' \in [Actor -> {"idle", "working", "commit"}]
  BY <1>2, <1>11, BoundTypes DEF Typed, ID
<1> QED
  BY <1>1, <1>9, <1>10, <1>11, <1>12

LEMMA PollTyped == ASSUME Typed, Written, NEW a \in Actor, Poll(a) PROVE Typed' /\ Written'
<1>1. queued' \in [Actor -> BOOLEAN]
  BY DEF Poll, Typed
<1>2. PICK after \in Nat : after = conv.committed[a]
  BY BoundTypes DEF Typed, Resource
<1>3. CASE Batch(a, after) = {}
  <2>1. UNCHANGED <<conv, pc, pos, taken>>
    BY <1>2, <1>3 DEF Poll
  <2> QED
    BY <1>1, <2>1 DEF Typed, Written, Poll, store, notify
<1>4. CASE Batch(a, after) # {}
  <2>1. Receive(a, Batch(a, after))
    BY <1>2, <1>4 DEF Poll
  <2>2. /\ conv' \in Resource /\ pos' \in [Actor -> 0..MaxMessages] /\ taken' \in [Actor -> SUBSET ID]
        /\ pc' \in [Actor -> {"idle", "working", "commit"}]
    BY <1>4, <2>1, ReceiveTyped
  <2> QED
    BY <1>1, <2>2 DEF Typed, Written, Poll, store, notify
<1> QED
  BY <1>3, <1>4

LEMMA MoreAfter ==
  ASSUME Typed, NEW a \in Actor
  PROVE  LET after == Max({conv.committed[a], pos[a]})
         IN after \in Nat /\ after \in {conv.committed[a], pos[a]} /\ after >= pos[a] /\ after >= conv.committed[a]
<1>1. PICK x, y \in 0..MaxMessages : x = conv.committed[a] /\ y = pos[a]
  BY DEF Typed, Resource
<1>2. Max({x, y}) \in {x, y} /\ Max({x, y}) >= x /\ Max({x, y}) >= y
  BY BoundTypes, MaxOfTwo
<1> QED
  BY <1>1, <1>2

LEMMA PollMoreTyped == ASSUME Typed, Written, NEW a \in Actor, PollMore(a) PROVE Typed' /\ Written'
<1>1. PICK after \in Nat : after = Max({conv.committed[a], pos[a]})
  BY MoreAfter
<1>2. Batch(a, after) # {} /\ Receive(a, Batch(a, after))
  BY <1>1 DEF PollMore
<1>3. /\ conv' \in Resource /\ pos' \in [Actor -> 0..MaxMessages] /\ taken' \in [Actor -> SUBSET ID]
      /\ pc' \in [Actor -> {"idle", "working", "commit"}]
  BY <1>2, ReceiveTyped
<1> QED
  BY <1>3 DEF Typed, Written, PollMore, store, notify

\* The commit of the position that was read, if it is one that was received.
LEMMA CommittedTyped ==
  ASSUME Typed, NEW a \in Actor
  PROVE  LET next == Committed(a)
         IN /\ next \in Resource /\ next.end = conv.end /\ next.position = conv.position
            /\ \A b \in Actor : \/ next.committed[b] = conv.committed[b]
                                \/ b = a /\ next.committed[b] = pos[a]
<1>1. conv \in Resource /\ pos[a] \in 0..MaxMessages
  BY DEF Typed
<1> DEFINE moved == [conv.committed EXCEPT ![a] = pos[a]]
<1>2. /\ moved \in [Actor -> 0..MaxMessages]
      /\ \A b \in Actor : moved[b] = conv.committed[b] \/ (b = a /\ moved[b] = pos[a])
  BY <1>1 DEF Resource
<1>3. CASE Committed(a) = conv
  BY <1>1, <1>3
<1>4. CASE Committed(a) = [conv EXCEPT !.committed = moved]
  <2> HIDE DEF moved
  <2>1. /\ Committed(a) \in Resource /\ Committed(a).end = conv.end
        /\ Committed(a).position = conv.position /\ Committed(a).committed = moved
    BY <1>1, <1>2, <1>4 DEF Resource
  <2> QED
    BY <1>2, <2>1
<1>5. Committed(a) = conv \/ Committed(a) = [conv EXCEPT !.committed = moved]
  BY <1>1 DEF Committed, Resource
<1> QED
  BY <1>3, <1>4, <1>5

\* The end of a Reconcile.
LEMMA ReturnTyped ==
  ASSUME Typed, NEW a \in Actor, Return(a)
  PROVE  /\ pc' \in [Actor -> {"idle", "working", "commit"}] /\ pos' \in [Actor -> 0..MaxMessages]
         /\ taken' \in [Actor -> SUBSET ID] /\ queued' \in [Actor -> BOOLEAN]
  BY BoundTypes DEF Typed, Return

LEMMA ControllersTyped ==
  ASSUME Typed, Written, NEW a \in Actor,
         Watch(a) \/ Handle(a) \/ Commit(a) \/ ReconcileFails(a) \/ Restart(a)
  PROVE  Typed' /\ Written'
<1>1. Seen(a) \in View /\ Behind(Seen(a)) \in BOOLEAN
  BY DEF Seen, Behind, View, Typed, Resource
<1>2. CASE Watch(a)
  <2>1. cache' \in [Actor -> View] /\ queued' \in [Actor -> BOOLEAN]
    BY <1>1, <1>2 DEF Watch, Typed
  <2> QED
    BY <1>2, <2>1 DEF Watch, Typed, Written, store, notify
<1>3. CASE Handle(a)
  <2>1. handled' \in [Actor -> SUBSET ID] /\ pc' \in [Actor -> {"idle", "working", "commit"}]
    BY <1>3 DEF Handle, Typed
  <2> QED
    BY <1>3, <2>1 DEF Handle, Typed, Written, store, notify
<1>4. CASE Commit(a)
  <2>1. conv' \in Resource
    BY <1>4, CommittedTyped DEF Commit
  <2> QED
    BY <1>4, <2>1, ReturnTyped DEF Commit, Typed, Written, store, notify
<1>5. CASE ReconcileFails(a)
  <2>1. conv' \in Resource
    BY <1>5, CommittedTyped DEF ReconcileFails, Typed
  <2>2. faults' \in 0..MaxFaults
    BY <1>5, BoundTypes DEF ReconcileFails, Fault, Typed
  <2> QED
    BY <1>5, <2>1, <2>2, ReturnTyped DEF ReconcileFails, Typed, Written, store, notify
<1>6. CASE Restart(a)
  <2>1. faults' \in 0..MaxFaults
    BY <1>6, BoundTypes DEF Restart, Fault, Typed
  <2>2. /\ pc' \in [Actor -> {"idle", "working", "commit"}] /\ pos' \in [Actor -> 0..MaxMessages]
        /\ taken' \in [Actor -> SUBSET ID] /\ queued' \in [Actor -> BOOLEAN] /\ cache' \in [Actor -> View]
    BY <1>1, <1>6, BoundTypes DEF Restart, Typed
  <2> QED
    BY <1>6, <2>1, <2>2 DEF Restart, Typed, Written, store, notify
<1> QED
  BY <1>2, <1>3, <1>4, <1>5, <1>6

-----------------------------------------------------------------------------
\* Frames: what keeps the parts of the invariant that it does not touch.

\* Nothing of the notification has changed, or an EndOffset has grown.
LEMMA NotifiedKept ==
  ASSUME Typed, Notified, AcknowledgedIsSignalled, UNCHANGED <<batch, signalled>>,
         DOMAIN messages \subseteq DOMAIN messages',
         \A i \in DOMAIN messages : messages'[i].target = messages[i].target,
         \A i \in DOMAIN messages : messages'[i].pending = messages[i].pending
                                    \/ messages'[i].pending = (messages[i].target # User),
         \A i \in DOMAIN messages' \ DOMAIN messages :
           messages'[i].pending = (messages'[i].target # User),
         conv'.end = conv.end
  PROVE  Notified' /\ AcknowledgedIsSignalled'
<1>1. Notified'
  <2> SUFFICES ASSUME NEW n \in Notifier
               PROVE  /\ \A k \in 1..Len(batch[n]) : batch[n][k].id \in DOMAIN messages'
                      /\ signalled[n] =>
                           /\ batch[n] # <<>>
                           /\ LET i == batch[n][1].id
                              IN messages'[i].target \in Actor => conv.end[messages'[i].target] >= i
    BY DEF Notified
  <2>1. \A k \in 1..Len(batch[n]) : batch[n][k].id \in DOMAIN messages
    BY DEF Notified
  <2>2. ASSUME signalled[n]
        PROVE  /\ batch[n] # <<>>
               /\ LET i == batch[n][1].id
                  IN messages'[i].target \in Actor => conv.end[messages'[i].target] >= i
    <3>1. batch[n] # <<>>
      BY <2>2 DEF Notified
    <3>2. 1 \in 1..Len(batch[n])
      BY <3>1, BatchHead
    <3>3. batch[n][1].id \in DOMAIN messages
      BY <2>1, <3>2
    <3> QED
      BY <2>2, <3>1, <3>3 DEF Notified
  <2> QED
    BY <2>1, <2>2
<1>2. AcknowledgedIsSignalled'
  <2> SUFFICES ASSUME NEW i \in DOMAIN messages', messages'[i].target \in Actor, ~messages'[i].pending
               PROVE  conv.end[messages'[i].target] >= i
    BY DEF AcknowledgedIsSignalled
  <2>1. messages'[i].target # User
    BY ConversationActors
  <2>2. i \in DOMAIN messages /\ ~messages[i].pending
    BY <2>1
  <2> QED
    BY <2>2 DEF AcknowledgedIsSignalled
<1> QED
  BY <1>1, <1>2

\* The rows and what the actors have read of them are the same.
LEMMA ReadingKept ==
  ASSUME Positions, Read, AtLeastOnce, DOMAIN messages' = DOMAIN messages,
         \A i \in DOMAIN messages : /\ messages'[i].target = messages[i].target
                                    /\ messages'[i].source = messages[i].source,
         conv'.committed = conv.committed, conv'.position = conv.position,
         UNCHANGED <<pc, pos, taken, handled>>
  PROVE  Positions' /\ Read' /\ AtLeastOnce'
<1>1. \A a : \A i \in DOMAIN messages : Addressed(i, a)' <=> Addressed(i, a)
  BY DEF Addressed
<1> QED
  BY <1>1 DEF Positions, Read, AtLeastOnce

\* The rows are the same, and the inserts that are open.
LEMMA OrderKept ==
  ASSUME VisibleInOrder, DOMAIN messages' = DOMAIN messages, open' = open
  PROVE  VisibleInOrder'
  BY DEF VisibleInOrder

-----------------------------------------------------------------------------
\* Every action keeps the invariant: the writers.

LEMMA AllocateKeeps == ASSUME ConversationInv, Allocate PROVE ConversationInv'
<1> USE DEF ConversationInv
<1>1. Typed' /\ Written'
  BY AllocateTyped
<1>2. UNCHANGED <<messages, conv, batch, signalled, pc, pos, taken, handled>>
  BY DEF Allocate, notify, consumer
<1>3. VisibleInOrder'
  <2>1. DOMAIN open' = DOMAIN open \cup {last + 1}
    BY DEF Allocate, With
  <2>2. \A j \in DOMAIN messages : j < last + 1
    BY BoundTypes DEF Typed
  <2> QED
    BY <1>2, <2>1, <2>2 DEF VisibleInOrder
<1>4. Notified' /\ AcknowledgedIsSignalled'
  BY <1>2 DEF Notified, AcknowledgedIsSignalled
<1>5. Positions' /\ Read' /\ AtLeastOnce'
  BY <1>2, ReadingKept
<1> QED
  BY <1>1, <1>3, <1>4, <1>5

\* A row that becomes visible is after everything an actor has reached.
LEMMA InsertKeeps == ASSUME ConversationInv, NEW i \in ID, Insert(i) PROVE ConversationInv'
<1> USE DEF ConversationInv
<1>1. Typed' /\ Written'
  BY InsertTyped
<1>2. /\ i \in DOMAIN open /\ \A j \in DOMAIN open : i <= j
      /\ messages' = With(messages, i, open[i]) /\ open' = Without(open, i)
      /\ UNCHANGED <<conv, pc, pos, taken, handled>>
  BY DEF Insert, AllocationOrder, consumer
<1>3. \A j \in DOMAIN messages : j < i
  BY <1>2 DEF VisibleInOrder
<1>4. /\ DOMAIN messages' = DOMAIN messages \cup {i} /\ messages'[i] = open[i] /\ i \notin DOMAIN messages
      /\ \A j \in DOMAIN messages : messages'[j] = messages[j]
  <2>1. i \notin DOMAIN messages
    BY <1>3 DEF ID
  <2> QED
    BY <1>2, <2>1 DEF With
<1>5. DOMAIN open' = DOMAIN open \ {i}
  BY <1>2 DEF Without
<1>6. VisibleInOrder'
  <2>1. \A j \in DOMAIN open \ {i} : i < j
    BY <1>2 DEF Typed, ID
  <2> QED
    BY <1>4, <1>5, <2>1 DEF VisibleInOrder
<1>7. Notified' /\ AcknowledgedIsSignalled'
  <2>1. CASE UNCHANGED notify
    BY <1>2, <1>4, <2>1, NotifiedKept DEF notify, Written
  <2>2. ASSUME NEW n \in Notifier, batch[n] = <<>>,
               batch' = [batch EXCEPT ![n] = <<[id |-> i, revision |-> 1]>>], UNCHANGED signalled
        PROVE  Notified' /\ AcknowledgedIsSignalled'
    <3>1. ~signalled[n]
      BY <2>2 DEF Notified
    <3>2. /\ batch'[n] = <<[id |-> i, revision |-> 1]>>
          /\ \A m \in Notifier \ {n} : batch'[m] = batch[m]
      BY <2>2 DEF Typed
    <3>3. Len(batch'[n]) = 1 /\ batch'[n][1].id = i
      BY <3>2
    <3>4. ASSUME NEW m \in Notifier
          PROVE  /\ \A k \in 1..Len(batch'[m]) : batch'[m][k].id \in DOMAIN messages'
                 /\ signalled'[m] =>
                      /\ batch'[m] # <<>>
                      /\ LET j == batch'[m][1].id
                         IN messages'[j].target \in Actor => conv'.end[messages'[j].target] >= j
      <4>1. CASE m = n
        BY <1>4, <2>2, <3>1, <3>3, <4>1
      <4>2. CASE m # n
        <5>1. batch'[m] = batch[m] /\ signalled'[m] = signalled[m]
          BY <2>2, <3>2, <4>2
        <5>2. \A k \in 1..Len(batch[m]) : batch[m][k].id \in DOMAIN messages
          BY DEF Notified
        <5>3. batch[m] # <<>> => 1 \in 1..Len(batch[m])
          BY BatchHead
        <5>4. signalled[m] =>
                /\ batch[m] # <<>>
                /\ LET j == batch[m][1].id
                   IN messages[j].target \in Actor => conv.end[messages[j].target] >= j
          BY DEF Notified
        <5> QED
          BY <1>2, <1>4, <5>1, <5>2, <5>3, <5>4
      <4> QED
        BY <4>1, <4>2
    <3>5. Notified'
      BY <3>4 DEF Notified
    <3>6. AcknowledgedIsSignalled'
      <4>1. messages'[i].target \in Actor => messages'[i].pending
        BY <1>2, <1>4, ConversationActors DEF Written
      <4> QED
        BY <1>2, <1>4, <4>1 DEF AcknowledgedIsSignalled
    <3> QED
      BY <3>5, <3>6
  <2> QED
    BY <2>1, <2>2 DEF Insert
<1>8. \A a \in Actor : conv.committed[a] < i /\ pos[a] < i
  BY <1>3 DEF Positions, ID
<1>9. Positions' /\ Read' /\ AtLeastOnce'
  <2>1. \A a : \A j \in DOMAIN messages : Addressed(j, a)' <=> Addressed(j, a)
    BY <1>4 DEF Addressed
  <2>2. Positions'
    BY <1>2, <1>4 DEF Positions
  <2>3. \A a \in Actor : conv.committed[a] \in Nat /\ pos[a] \in Nat /\ i \in Nat
    BY BoundTypes DEF Typed, Resource, ID
  <2>4. \A a \in Actor : ~(i <= conv.committed[a]) /\ ~(i <= pos[a])
    BY <1>8, <2>3
  <2>5. Read'
    BY <1>2, <1>4, <2>1, <2>4 DEF Read
  <2>6. AtLeastOnce'
    BY <1>2, <1>4, <2>1, <2>4 DEF AtLeastOnce
  <2> QED
    BY <2>2, <2>5, <2>6
<1> QED
  BY <1>1, <1>6, <1>7, <1>9

\* An ID that is never used leaves a gap.
LEMMA InsertFailsKeeps ==
  ASSUME ConversationInv, NEW i \in ID, InsertFails(i) PROVE ConversationInv'
<1> USE DEF ConversationInv
<1>1. Typed' /\ Written'
  BY InsertFailsTyped
<1>2. /\ UNCHANGED <<messages, conv, batch, signalled, pc, pos, taken, handled>>
      /\ open' = Without(open, i)
  BY DEF InsertFails, notify, consumer
<1>3. VisibleInOrder'
  BY <1>2 DEF VisibleInOrder, Without
<1>4. Notified' /\ AcknowledgedIsSignalled'
  BY <1>2, NotifiedKept
<1>5. Positions' /\ Read' /\ AtLeastOnce'
  BY <1>2, ReadingKept
<1> QED
  BY <1>1, <1>3, <1>4, <1>5

\* Output and the end of a message; the end sets the mark again.
LEMMA OutputKeeps == ASSUME ConversationInv, NEW i \in ID, Emit(i) \/ End(i) PROVE ConversationInv'
<1> USE DEF ConversationInv
<1>1. Typed' /\ Written' /\ SameRows
  BY EmitTyped, EndTyped
<1>2. UNCHANGED <<open, conv, batch, signalled, pc, pos, taken, handled>>
  BY DEF Emit, End, notify, consumer
<1>3. \A j \in DOMAIN messages : messages'[j].pending = messages[j].pending
                                 \/ messages'[j].pending = (messages[j].target # User)
  <2>1. CASE Emit(i)
    BY <2>1 DEF Emit, Typed, Row
  <2>2. CASE End(i)
    <3>1. \A j \in DOMAIN messages \ {i} : messages'[j] = messages[j]
      BY <2>2 DEF End, Typed
    <3>2. messages'[i].pending = (messages[i].target # User)
      BY <2>2 DEF End, Typed, Row
    <3> QED
      BY <3>1, <3>2
  <2> QED
    BY <2>1, <2>2
<1>4. VisibleInOrder'
  BY <1>1, <1>2, OrderKept DEF SameRows
<1>5. Notified' /\ AcknowledgedIsSignalled'
  BY <1>1, <1>2, <1>3, NotifiedKept DEF SameRows
<1>6. Positions' /\ Read' /\ AtLeastOnce'
  BY <1>1, <1>2, ReadingKept DEF SameRows
<1> QED
  BY <1>1, <1>4, <1>5, <1>6

-----------------------------------------------------------------------------
\* The notifiers.

LEMMA PendingKeeps ==
  ASSUME ConversationInv, NEW n \in Notifier, PendingDispatches(n) PROVE ConversationInv'
<1> USE DEF ConversationInv
<1>1. Typed' /\ Written'
  BY PendingTyped
<1>2. PICK ids \in [1..Cardinality(Page) -> Page] :
        batch' = [batch EXCEPT ![n] =
          [k \in DOMAIN ids |-> [id |-> ids[k], revision |-> messages[ids[k]].revision]]]
  BY DEF PendingDispatches
<1>3. batch[n] = <<>> /\ UNCHANGED <<open, messages, conv, signalled, pc, pos, taken, handled>>
  BY DEF PendingDispatches, store, consumer
<1>4. ~signalled[n]
  BY <1>3 DEF Notified
<1>5. Notified'
  <2>1. /\ DOMAIN batch'[n] = DOMAIN ids /\ \A k \in DOMAIN ids : batch'[n][k].id = ids[k]
        /\ \A m \in Notifier \ {n} : batch'[m] = batch[m]
    BY <1>2 DEF Typed
  <2>2. DOMAIN batch'[n] = 1..Len(batch'[n])
    <3>1. PICK b \in Seq(Notice) : b = batch'[n]
      BY <1>1 DEF Typed
    <3> QED
      BY <3>1, LenProperties
  <2>3. \A k \in 1..Len(batch'[n]) : batch'[n][k].id \in DOMAIN messages
    BY <2>1, <2>2 DEF Page, Pending
  <2>4. ASSUME NEW m \in Notifier
        PROVE  /\ \A k \in 1..Len(batch'[m]) : batch'[m][k].id \in DOMAIN messages
               /\ signalled[m] =>
                    /\ batch'[m] # <<>>
                    /\ LET j == batch'[m][1].id
                       IN messages[j].target \in Actor => conv.end[messages[j].target] >= j
    <3>1. CASE m = n
      BY <1>4, <2>3, <3>1
    <3>2. CASE m # n
      BY <2>1, <3>2 DEF Notified
    <3> QED
      BY <3>1, <3>2
  <2> QED
    BY <1>3, <2>4 DEF Notified
<1>6. AcknowledgedIsSignalled' /\ VisibleInOrder'
  BY <1>3 DEF AcknowledgedIsSignalled, VisibleInOrder
<1>7. Positions' /\ Read' /\ AtLeastOnce'
  BY <1>3, ReadingKept
<1> QED
  BY <1>1, <1>5, <1>6, <1>7

\* The signal covers the first of the batch.
LEMMA SignalKeeps == ASSUME ConversationInv, NEW n \in Notifier, Signal(n) PROVE ConversationInv'
<1> USE DEF ConversationInv
<1>1. Typed' /\ Written'
  BY SignalTyped
<1>2. UNCHANGED <<open, messages, batch, pc, pos, taken, handled>>
  BY DEF Signal, store, consumer
<1>3. PICK i : i = batch[n][1].id
  OBVIOUS
<1>4. /\ batch[n] # <<>> /\ i \in ID
      /\ \A a \in Actor : /\ conv'.end[a] >= conv.end[a]
                          /\ a \in Recipients(messages[i].target) => conv'.end[a] >= i
      /\ conv'.committed = conv.committed /\ conv'.position = conv.position
  BY <1>3, SignalReaches DEF Notice
<1>5. \A a \in Actor : conv.end[a] \in Nat /\ conv'.end[a] \in Nat
  BY <1>1, BoundTypes DEF Typed, Resource
<1>6. messages[i].target \in Actor => conv'.end[messages[i].target] >= i
  BY <1>4, ConversationActors DEF Recipients
<1>7. Notified'
  <2> SUFFICES ASSUME NEW m \in Notifier
               PROVE  /\ \A k \in 1..Len(batch[m]) : batch[m][k].id \in DOMAIN messages
                      /\ signalled'[m] =>
                           /\ batch[m] # <<>>
                           /\ LET j == batch[m][1].id
                              IN messages[j].target \in Actor => conv'.end[messages[j].target] >= j
    BY <1>2 DEF Notified
  <2>1. \A k \in 1..Len(batch[m]) : batch[m][k].id \in DOMAIN messages
    BY DEF Notified
  <2>2. CASE m = n
    BY <1>3, <1>4, <1>6, <2>1, <2>2
  <2>3. CASE m # n /\ signalled'[m]
    <3>1. signalled[m]
      BY <2>3 DEF Signal, Typed
    <3>2. PICK j : j = batch[m][1].id
      OBVIOUS
    <3>3. batch[m] # <<>> /\ (messages[j].target \in Actor => conv.end[messages[j].target] >= j)
      BY <3>1, <3>2 DEF Notified
    <3>4. j \in Nat
      BY <3>2, <3>3, BatchHead DEF Notice, ID
    <3>5. messages[j].target \in Actor => conv'.end[messages[j].target] >= j
      BY <1>4, <1>5, <3>3, <3>4
    <3> QED
      BY <2>1, <3>2, <3>3, <3>5
  <2> QED
    BY <2>1, <2>2, <2>3
<1>8. AcknowledgedIsSignalled'
  <2> SUFFICES ASSUME NEW j \in DOMAIN messages, messages[j].target \in Actor, ~messages[j].pending
               PROVE  conv'.end[messages[j].target] >= j
    BY <1>2 DEF AcknowledgedIsSignalled
  <2>1. conv.end[messages[j].target] >= j /\ j \in Nat
    BY DEF AcknowledgedIsSignalled, Typed
  <2> QED
    BY <1>4, <1>5, <2>1
<1>9. VisibleInOrder'
  BY <1>2, OrderKept
<1>10. Positions' /\ Read' /\ AtLeastOnce'
  BY <1>2, <1>4, ReadingKept
<1> QED
  BY <1>1, <1>7, <1>8, <1>9, <1>10

\* The mark that is cleared is of a row that was signalled.
LEMMA AcknowledgeKeeps ==
  ASSUME ConversationInv, NEW n \in Notifier, AcknowledgeDispatch(n) PROVE ConversationInv'
<1> USE DEF ConversationInv
<1>1. PICK i : i = batch[n][1].id
  OBVIOUS
<1>2. /\ Typed' /\ Written' /\ SameRows
      /\ batch[n] # <<>> /\ i \in DOMAIN messages
      /\ messages' = [messages EXCEPT ![i].pending = FALSE]
      /\ batch' = [batch EXCEPT ![n] = Tail(batch[n])]
      /\ signalled' = [signalled EXCEPT ![n] = FALSE]
  BY <1>1, AcknowledgeTyped
<1>3. UNCHANGED <<open, conv, pc, pos, taken, handled>>
  BY DEF AcknowledgeDispatch, consumer
<1>4. messages[i].target \in Actor => conv.end[messages[i].target] >= i
  BY <1>1 DEF Notified, AcknowledgeDispatch
<1>5. Notified'
  <2> SUFFICES ASSUME NEW m \in Notifier
               PROVE  /\ \A k \in 1..Len(batch'[m]) : batch'[m][k].id \in DOMAIN messages
                      /\ signalled'[m] =>
                           /\ batch'[m] # <<>>
                           /\ LET j == batch'[m][1].id
                              IN messages'[j].target \in Actor => conv.end[messages'[j].target] >= j
    BY <1>2, <1>3 DEF Notified, SameRows
  <2>1. CASE m = n
    <3>1. batch'[m] = Tail(batch[n]) /\ ~signalled'[m]
      BY <1>2, <2>1 DEF Typed
    <3>2. \A k \in 1..Len(Tail(batch[n])) : Tail(batch[n])[k] = batch[n][k + 1] /\ k + 1 \in 1..Len(batch[n])
      BY <1>2, BatchHead
    <3> QED
      BY <3>1, <3>2 DEF Notified
  <2>2. CASE m # n
    <3>1. batch'[m] = batch[m] /\ signalled'[m] = signalled[m]
      BY <1>2, <2>2 DEF Typed
    <3>2. /\ \A k \in 1..Len(batch[m]) : batch[m][k].id \in DOMAIN messages
          /\ batch[m] # <<>> => 1 \in 1..Len(batch[m])
      BY BatchHead DEF Notified
    <3>3. PICK j : j = batch[m][1].id
      OBVIOUS
    <3>4. signalled[m] => /\ batch[m] # <<>>
                          /\ messages[j].target \in Actor => conv.end[messages[j].target] >= j
      BY <3>3 DEF Notified
    <3>5. signalled[m] => j \in DOMAIN messages
      BY <3>2, <3>3, <3>4
    <3>6. signalled[m] => messages'[j].target = messages[j].target
      BY <1>2, <3>5 DEF SameRows
    <3> QED
      BY <3>1, <3>2, <3>3, <3>4, <3>6
  <2> QED
    BY <2>1, <2>2
<1>6. AcknowledgedIsSignalled'
  <2> SUFFICES ASSUME NEW j \in DOMAIN messages, messages[j].target \in Actor, ~messages'[j].pending
               PROVE  conv.end[messages[j].target] >= j
    BY <1>2, <1>3 DEF AcknowledgedIsSignalled, SameRows
  <2>1. CASE j = i
    BY <1>4, <2>1
  <2>2. CASE j # i
    BY <1>2, <2>2 DEF AcknowledgedIsSignalled
  <2> QED
    BY <2>1, <2>2
<1>7. VisibleInOrder'
  BY <1>2, <1>3, OrderKept DEF SameRows
<1>8. Positions' /\ Read' /\ AtLeastOnce'
  BY <1>2, <1>3, ReadingKept DEF SameRows
<1> QED
  BY <1>2, <1>5, <1>6, <1>7, <1>8

\* A notifier that stops, or passes over a message, keeps what it has not signalled marked.
LEMMA NotifyFailsKeeps == ASSUME ConversationInv, NEW n \in Notifier, NotifyFails(n) PROVE ConversationInv'
<1> USE DEF ConversationInv
<1>1. Typed' /\ Written'
  BY NotifyFailsTyped
<1>2. PICK rest \in {Tail(batch[n]), <<>>} : batch' = [batch EXCEPT ![n] = rest]
  BY DEF NotifyFails
<1>3. /\ batch[n] # <<>> /\ signalled' = [signalled EXCEPT ![n] = FALSE]
      /\ UNCHANGED <<open, messages, conv, pc, pos, taken, handled>>
  BY DEF NotifyFails, store, consumer
<1>4. \A k \in 1..Len(rest) : rest[k].id \in DOMAIN messages
  <2>1. CASE rest = Tail(batch[n])
    <3>1. \A k \in 1..Len(Tail(batch[n])) : Tail(batch[n])[k] = batch[n][k + 1] /\ k + 1 \in 1..Len(batch[n])
      BY <1>3, BatchHead
    <3> QED
      BY <2>1, <3>1 DEF Notified
  <2>2. CASE rest = <<>>
    BY <2>2
  <2> QED
    BY <2>1, <2>2
<1>5. Notified'
  <2> SUFFICES ASSUME NEW m \in Notifier
               PROVE  /\ \A k \in 1..Len(batch'[m]) : batch'[m][k].id \in DOMAIN messages
                      /\ signalled'[m] =>
                           /\ batch'[m] # <<>>
                           /\ LET j == batch'[m][1].id
                              IN messages[j].target \in Actor => conv.end[messages[j].target] >= j
    BY <1>3 DEF Notified
  <2>1. CASE m = n
    <3>1. batch'[m] = rest /\ ~signalled'[m]
      BY <1>2, <1>3, <2>1 DEF Typed
    <3> QED
      BY <1>4, <3>1
  <2>2. CASE m # n
    <3>1. batch'[m] = batch[m] /\ signalled'[m] = signalled[m]
      BY <1>2, <1>3, <2>2 DEF Typed
    <3> QED
      BY <3>1 DEF Notified
  <2> QED
    BY <2>1, <2>2
<1>6. AcknowledgedIsSignalled' /\ VisibleInOrder'
  BY <1>3 DEF AcknowledgedIsSignalled, VisibleInOrder
<1>7. Positions' /\ Read' /\ AtLeastOnce'
  BY <1>3, ReadingKept
<1> QED
  BY <1>1, <1>5, <1>6, <1>7

-----------------------------------------------------------------------------
\* The controllers.

\* What a poll reads becomes the actor's to handle.
LEMMA ReceiveKeeps ==
  ASSUME ConversationInv, NEW a \in Actor, NEW after \in Nat, Batch(a, after) # {},
         Receive(a, Batch(a, after)), UNCHANGED <<messages, handled>>,
         \A i \in DOMAIN messages :
           i <= after /\ Addressed(i, a) => i \in handled[a] \/ (pc[a] = "working" /\ i \in taken[a])
  PROVE  Positions' /\ Read' /\ AtLeastOnce'
<1> USE DEF ConversationInv
<1>1. PICK top, got : top = Max(got) /\ got = Batch(a, after)
  OBVIOUS
<1>2. /\ top \in DOMAIN messages /\ top > after /\ got \subseteq DOMAIN messages
      /\ \A i \in DOMAIN messages : after < i /\ i <= top /\ Addressed(i, a) => i \in got
  BY <1>1, BatchReaches
<1>3. /\ conv'.committed = conv.committed
      /\ pos' = [pos EXCEPT ![a] = top]
      /\ taken' = [taken EXCEPT ![a] = taken[a] \cup got]
      /\ pc' = [pc EXCEPT ![a] = "working"]
      /\ \A b \in Actor : conv'.position[b] \in {conv.position[b]} \cup got
  BY <1>1, ReceiveTyped
<1>4. /\ pos'[a] = top /\ taken'[a] = taken[a] \cup got /\ pc'[a] = "working"
      /\ \A b \in Actor \ {a} : pos'[b] = pos[b] /\ taken'[b] = taken[b] /\ pc'[b] = pc[b]
  BY <1>3 DEF Typed
<1>5. \A i, b : Addressed(i, b)' <=> Addressed(i, b)
  BY DEF Addressed
<1>6. Positions'
  BY <1>2, <1>3, <1>4 DEF Positions
<1>7. Read'
  <2> SUFFICES ASSUME NEW b \in Actor
               PROVE  /\ pc'[b] = "idle" => pos'[b] = 0 /\ taken'[b] = {}
                      /\ pc'[b] # "idle" => \A i \in DOMAIN messages :
                           i <= pos'[b] /\ Addressed(i, b) =>
                             i \in handled[b] \/ (pc'[b] = "working" /\ i \in taken'[b])
    BY <1>5 DEF Read
  <2>1. CASE b = a
    <3> SUFFICES ASSUME NEW i \in DOMAIN messages, i <= top, Addressed(i, a)
                 PROVE  i \in handled[a] \/ i \in taken[a] \cup got
      BY <1>4, <2>1
    <3>1. i \in Nat
      BY DEF Typed
    <3> QED
      BY <1>2, <3>1
  <2>2. CASE b # a
    BY <1>4, <2>2 DEF Read
  <2> QED
    BY <2>1, <2>2
<1>8. AtLeastOnce'
  BY <1>3, <1>5 DEF AtLeastOnce
<1> QED
  BY <1>6, <1>7, <1>8

LEMMA PollsKeep == ASSUME ConversationInv, NEW a \in Actor, Poll(a) \/ PollMore(a) PROVE ConversationInv'
<1> USE DEF ConversationInv
<1>1. Typed' /\ Written'
  BY PollTyped, PollMoreTyped
<1>2. UNCHANGED <<open, messages, batch, signalled, handled>>
  BY DEF Poll, PollMore, store, notify
<1>3. /\ conv'.end = conv.end
      /\ Positions' /\ Read' /\ AtLeastOnce'
  <2>1. CASE Poll(a)
    <3>1. PICK after \in Nat : after = conv.committed[a]
      BY BoundTypes DEF Typed, Resource
    <3>2. CASE Batch(a, after) = {}
      <4>1. UNCHANGED <<conv, pc, pos, taken>>
        BY <2>1, <3>1, <3>2 DEF Poll
      <4> QED
        BY <1>2, <4>1, ReadingKept
    <3>3. CASE Batch(a, after) # {}
      <4>1. Receive(a, Batch(a, after))
        BY <2>1, <3>1, <3>3 DEF Poll
      <4>2. \A i \in DOMAIN messages : i <= after /\ Addressed(i, a) => i \in handled[a]
        BY <3>1 DEF AtLeastOnce
      <4> QED
        BY <1>2, <3>3, <4>1, <4>2, ReceiveKeeps, ReceiveTyped
    <3> QED
      BY <3>2, <3>3
  <2>2. CASE PollMore(a)
    <3>1. PICK after \in Nat : /\ after = Max({conv.committed[a], pos[a]})
                               /\ after \in {conv.committed[a], pos[a]}
      BY MoreAfter
    <3>2. Batch(a, after) # {} /\ Receive(a, Batch(a, after)) /\ pc[a] = "working"
      BY <2>2, <3>1 DEF PollMore
    <3>3. \A i \in DOMAIN messages :
            i <= after /\ Addressed(i, a) => i \in handled[a] \/ (pc[a] = "working" /\ i \in taken[a])
      BY <3>1, <3>2 DEF AtLeastOnce, Read
    <3> QED
      BY <1>2, <3>2, <3>3, ReceiveKeeps, ReceiveTyped
  <2> QED
    BY <2>1, <2>2
<1>4. VisibleInOrder'
  BY <1>2, OrderKept
<1>5. Notified' /\ AcknowledgedIsSignalled'
  BY <1>2, <1>3, NotifiedKept
<1> QED
  BY <1>1, <1>3, <1>4, <1>5

\* What was taken is handled.
LEMMA HandleKeeps == ASSUME ConversationInv, NEW a \in Actor, Handle(a) PROVE ConversationInv'
<1> USE DEF ConversationInv
<1>1. Typed' /\ Written'
  BY ControllersTyped
<1>2. /\ UNCHANGED <<open, messages, conv, batch, signalled, pos, taken>> /\ pc[a] = "working"
      /\ handled' = [handled EXCEPT ![a] = handled[a] \cup taken[a]]
      /\ pc' = [pc EXCEPT ![a] = "commit"]
  BY DEF Handle, store, notify
<1>3. /\ handled'[a] = handled[a] \cup taken[a] /\ pc'[a] = "commit"
      /\ \A b \in Actor \ {a} : handled'[b] = handled[b] /\ pc'[b] = pc[b]
  BY <1>2 DEF Typed
<1>4. \A i, b : Addressed(i, b)' <=> Addressed(i, b)
  BY <1>2 DEF Addressed
<1>5. Positions'
  BY <1>2 DEF Positions
<1>6. Read'
  <2> SUFFICES ASSUME NEW b \in Actor
               PROVE  /\ pc'[b] = "idle" => pos[b] = 0 /\ taken[b] = {}
                      /\ pc'[b] # "idle" => \A i \in DOMAIN messages :
                           i <= pos[b] /\ Addressed(i, b) =>
                             i \in handled'[b] \/ (pc'[b] = "working" /\ i \in taken[b])
    BY <1>2, <1>4 DEF Read
  <2>1. CASE b = a
    BY <1>2, <1>3, <2>1 DEF Read
  <2>2. CASE b # a
    BY <1>3, <2>2 DEF Read
  <2> QED
    BY <2>1, <2>2
<1>7. AtLeastOnce'
  <2>1. \A b \in Actor : handled[b] \subseteq handled'[b]
    BY <1>3
  <2> QED
    BY <1>2, <1>4, <2>1 DEF AtLeastOnce
<1>8. Notified' /\ AcknowledgedIsSignalled' /\ VisibleInOrder'
  BY <1>2, NotifiedKept, OrderKept
<1> QED
  BY <1>1, <1>5, <1>6, <1>7, <1>8

\* A Reconcile that ends has committed nothing, or what it has handled.
LEMMA ReturnsKeep ==
  ASSUME ConversationInv, NEW a \in Actor, Commit(a) \/ ReconcileFails(a) \/ Restart(a)
  PROVE  ConversationInv'
<1> USE DEF ConversationInv
<1>1. Typed' /\ Written'
  BY ControllersTyped
<1>2. /\ UNCHANGED <<open, messages, batch, signalled, handled>>
      /\ pc' = [pc EXCEPT ![a] = "idle"] /\ pos' = [pos EXCEPT ![a] = 0]
      /\ taken' = [taken EXCEPT ![a] = {}]
      /\ conv' = conv \/ (pc[a] = "commit" /\ conv' = Committed(a))
  BY DEF Commit, ReconcileFails, Restart, Return, store, notify
<1>3. /\ pc'[a] = "idle" /\ pos'[a] = 0 /\ taken'[a] = {}
      /\ \A b \in Actor \ {a} : pc'[b] = pc[b] /\ pos'[b] = pos[b] /\ taken'[b] = taken[b]
  BY <1>2 DEF Typed
<1>4. /\ conv'.end = conv.end /\ conv'.position = conv.position
      /\ \A b \in Actor : \/ conv'.committed[b] = conv.committed[b]
                          \/ b = a /\ pc[a] = "commit" /\ conv'.committed[b] = pos[a]
  BY <1>2, CommittedTyped
<1>5. \A i, b : Addressed(i, b)' <=> Addressed(i, b)
  BY <1>2 DEF Addressed
<1>6. Positions'
  <2>1. \A b \in Actor : {conv'.committed[b], conv'.position[b]} \subseteq DOMAIN messages \cup {0}
    BY <1>4 DEF Positions
  <2>2. \A b \in Actor : pos'[b] \in DOMAIN messages \cup {0}
    BY <1>3 DEF Positions
  <2> QED
    BY <1>2, <2>1, <2>2 DEF Positions
<1>7. Read'
  <2> SUFFICES ASSUME NEW b \in Actor
               PROVE  /\ pc'[b] = "idle" => pos'[b] = 0 /\ taken'[b] = {}
                      /\ pc'[b] # "idle" => \A i \in DOMAIN messages :
                           i <= pos'[b] /\ Addressed(i, b) =>
                             i \in handled[b] \/ (pc'[b] = "working" /\ i \in taken'[b])
    BY <1>2, <1>5 DEF Read
  <2>1. CASE b = a
    BY <1>3, <2>1
  <2>2. CASE b # a
    BY <1>3, <2>2 DEF Read
  <2> QED
    BY <2>1, <2>2
<1>8. AtLeastOnce'
  <2> SUFFICES ASSUME NEW b \in Actor, NEW i \in DOMAIN messages,
                      i <= conv'.committed[b], Addressed(i, b)
               PROVE  i \in handled[b]
    BY <1>2, <1>5 DEF AtLeastOnce
  <2>1. CASE conv'.committed[b] = conv.committed[b]
    BY <2>1 DEF AtLeastOnce
  <2>2. CASE b = a /\ pc[a] = "commit" /\ conv'.committed[b] = pos[a]
    BY <2>2 DEF Read
  <2> QED
    BY <1>4, <2>1, <2>2
<1>9. Notified' /\ AcknowledgedIsSignalled' /\ VisibleInOrder'
  BY <1>2, <1>4, NotifiedKept, OrderKept
<1> QED
  BY <1>1, <1>6, <1>7, <1>8, <1>9

-----------------------------------------------------------------------------
\* The invariant.

LEMMA InitConversationInv == Init => ConversationInv
<1> SUFFICES ASSUME Init PROVE ConversationInv
  OBVIOUS
<1>1. DOMAIN open = {} /\ DOMAIN messages = {} /\ \A S : open \in [{} -> S] /\ messages \in [{} -> S]
  <2>1. \A S : <<>> \in Seq(S) /\ Len(<<>>) = 0
    BY EmptySeq
  <2>2. \A S : <<>> \in [1..0 -> S]
    BY <2>1, LenProperties
  <2>3. 1..0 = {} /\ DOMAIN <<>> = {}
    BY <2>1, LenProperties
  <2> QED
    BY <2>2, <2>3 DEF Init
<1>2. NoStamp \in Stamp
  BY BoundTypes DEF NoStamp, Stamp
<1>3. /\ NoConv \in Resource /\ NoConv.committed = [a \in Actor |-> 0]
      /\ NoConv.position = [a \in Actor |-> 0]
  BY <1>2, BoundTypes DEF NoConv, Resource
<1>4. NoView \in View
  BY <1>2, BoundTypes DEF NoView, View
<1>5. batch \in [Notifier -> Seq(Notice)] /\ \A n \in Notifier : Len(batch[n]) = 0
  BY EmptySeq DEF Init
<1>6. Typed
  <2>1. /\ last \in 0..MaxMessages /\ faults \in 0..MaxFaults /\ told \in [ID -> 0..MaxRevision]
        /\ pos \in [Actor -> 0..MaxMessages]
    BY BoundTypes DEF Init
  <2>2. conv \in Resource /\ cache \in [Actor -> View]
    BY <1>3, <1>4 DEF Init
  <2>3. /\ signalled \in [Notifier -> BOOLEAN] /\ queued \in [Actor -> BOOLEAN]
        /\ pc \in [Actor -> {"idle", "working", "commit"}]
        /\ taken \in [Actor -> SUBSET ID] /\ handled \in [Actor -> SUBSET ID]
    BY DEF Init
  <2> QED
    BY <1>1, <1>5, <2>1, <2>2, <2>3 DEF Typed
<1>7. Written /\ VisibleInOrder /\ AcknowledgedIsSignalled /\ AtLeastOnce
  BY <1>1 DEF Written, VisibleInOrder, AcknowledgedIsSignalled, AtLeastOnce
<1>8. Notified
  BY <1>5 DEF Init, Notified
<1>9. Positions
  BY <1>3 DEF Init, Positions
<1>10. Read
  BY DEF Init, Read
<1> QED
  BY <1>6, <1>7, <1>8, <1>9, <1>10 DEF ConversationInv

LEMMA NextConversationInv == ConversationInv /\ [Next]_vars => ConversationInv'
<1> SUFFICES ASSUME ConversationInv, [Next]_vars PROVE ConversationInv'
  OBVIOUS
<1>1. CASE Allocate
  BY <1>1, AllocateKeeps
<1>2. CASE \E i \in ID : Insert(i) \/ InsertFails(i) \/ Emit(i) \/ End(i)
  BY <1>2, InsertKeeps, InsertFailsKeeps, OutputKeeps
<1>3. CASE \E n \in Notifier : Notify(n) \/ NotifyFails(n)
  BY <1>3, PendingKeeps, SignalKeeps, AcknowledgeKeeps, NotifyFailsKeeps DEF Notify
<1>4. CASE \E a \in Actor : Watch(a) \/ Reconcile(a) \/ PollMore(a) \/ ReconcileFails(a) \/ Restart(a)
  <2>1. PICK a \in Actor : Watch(a) \/ Reconcile(a) \/ PollMore(a) \/ ReconcileFails(a) \/ Restart(a)
    BY <1>4
  <2>2. CASE Watch(a)
    <3>1. Typed' /\ Written'
      BY <2>2, ControllersTyped DEF ConversationInv
    <3>2. UNCHANGED <<open, messages, conv, batch, signalled, pc, pos, taken, handled>>
      BY <2>2 DEF Watch, store, notify
    <3> QED
      BY <3>1, <3>2, NotifiedKept, OrderKept, ReadingKept DEF ConversationInv
  <2> QED
    BY <2>1, <2>2, PollsKeep, HandleKeeps, ReturnsKeep DEF Reconcile
<1>5. CASE UNCHANGED vars
  BY <1>5 DEF ConversationInv, Typed, Written, VisibleInOrder, Notified, AcknowledgedIsSignalled,
     Positions, Read, AtLeastOnce, Addressed, vars, store, notify, consumer
<1> QED
  BY <1>1, <1>2, <1>3, <1>4, <1>5 DEF Next

THEOREM ConversationInvariant == Spec => []ConversationInv
  BY InitConversationInv, NextConversationInv, PTL DEF Spec

\* Type correctness: rows, stamps, positions and revisions stay in their ranges.
LEMMA TypedIsTypeOK == Typed => TypeOK
<1> SUFFICES ASSUME Typed PROVE TypeOK
  OBVIOUS
<1>1. \A n \in Notifier : \A k \in DOMAIN batch[n] : batch[n][k] \in Stamp
  <2> SUFFICES ASSUME NEW n \in Notifier, NEW k \in DOMAIN batch[n] PROVE batch[n][k] \in Stamp
    OBVIOUS
  <2>1. PICK b \in Seq(Notice) : b = batch[n]
    BY DEF Typed
  <2>2. b[k] \in Notice
    BY <2>1, LenProperties, ElementOfSeq
  <2> QED
    BY <2>1, <2>2, BoundTypes DEF Notice, Stamp, ID
<1>2. DOMAIN open \cup DOMAIN messages \subseteq ID
  BY BoundTypes DEF Typed, ID
<1> QED
  BY <1>1, <1>2 DEF Typed, TypeOK, Resource

THEOREM ConversationTypeCorrect == Spec => []TypeOK
  BY ConversationInvariant, TypedIsTypeOK, PTL DEF ConversationInv

\* At-least-once consumption: a committed position never passes a message of the
\* actor that it has not handled, whatever is lost, repeated or restarted.
THEOREM AtLeastOnceHolds == Spec => []AtLeastOnce
  BY ConversationInvariant, PTL DEF ConversationInv

\* A mark is cleared only when the recipient's EndOffset covers the message.
THEOREM AcknowledgedIsSignalledHolds == Spec => []AcknowledgedIsSignalled
  BY ConversationInvariant, PTL DEF ConversationInv

=============================================================================
