---------------------------- MODULE Conversation ----------------------------
(***************************************************************************)
(* How the messages of one conversation reach the actors they address.     *)
(*                                                                         *)
(* A message row and its dispatch_pending mark are committed in SQL; a     *)
(* notifier (service/poll.go) signals the recipient in the Conversation    *)
(* resource (k8s/conversation.go) and then clears the mark.  The actor's   *)
(* controller watches the resource (runtime/controller.go), polls the      *)
(* messages after its committed position from SQL, handles them and        *)
(* commits.                                                                *)
(*                                                                         *)
(* Abstractions.  A message ID is a number, in allocation order.  A read-  *)
(* modify-write of the resource, retried on conflict, is one step.  The    *)
(* informer may skip intermediate versions of the resource.                *)
(***************************************************************************)
EXTENDS Naturals, Sequences, FiniteSets, FiniteSetsExt

CONSTANTS
  Actor,       \* Operators that may take part
  User,        \* the human participant: reads the page, is never signalled
  Everyone,    \* the empty target: a broadcast
  Notifier,    \* PollService.Run of each replica, and inline Notify calls
  MaxMessages, \* bound on the messages
  MaxRevision, \* bound on the revisions of one message
  MaxFaults,   \* bound on failed calls, crashes and restarts
  Limit,       \* size of a Poll batch
  PageSize     \* rows a notifier reads at once (maxPageSize)

ASSUME ConversationActors ==
  /\ User \notin Actor /\ Everyone \notin Actor /\ User # Everyone
ASSUME ConversationBounds ==
  /\ MaxMessages \in Nat /\ MaxFaults \in Nat
  /\ MaxRevision \in Nat \ {0, 1}  \* a streaming message is created, and ends
  /\ Limit \in Nat \ {0} /\ PageSize \in Nat \ {0}

VARIABLES
  open,     \* allocated IDs whose insert has not committed, with their rows
  last,     \* the last allocated ID
  messages, \* the committed rows, by ID
  conv,     \* the Conversation resource
  batch,    \* rows a notifier has read and not yet dealt with
  signalled,\* the notifier has signalled the first of them
  cache,    \* what an actor's informer last saw of the resource
  queued,   \* the conversation is in the actor's work queue
  pc, pos,  \* the actor's Reconcile: where it is, the position it has read
  taken,    \* the messages it has received in this Reconcile
  handled,  \* history: the messages an actor has handled
  told,     \* history: the newest revision of a message ever signalled
  faults

store == <<open, last, messages>>
notify == <<batch, signalled>>
consumer == <<cache, queued, pc, pos, taken, handled>>
vars == <<store, conv, notify, consumer, told, faults>>

ID == 1..MaxMessages
Row == [source : Actor \cup {User}, target : Actor \cup {User, Everyone},
        ended : BOOLEAN, revision : 1..MaxRevision, pending : BOOLEAN]
Stamp == [id : 0..MaxMessages, revision : 0..MaxRevision]
NoStamp == [id |-> 0, revision |-> 0]
View == [end : 0..MaxMessages, wake : Stamp, committed : 0..MaxMessages]
NoConv == [end       |-> [a \in Actor |-> 0],  \* participant's EndOffset, 0: not one
           wake      |-> [a \in Actor |-> NoStamp],
           position  |-> [a \in Actor |-> 0],
           committed |-> [a \in Actor |-> 0]]
NoView == [end |-> 0, wake |-> NoStamp, committed |-> 0]

TypeOK ==
  /\ last \in 0..MaxMessages
  /\ DOMAIN open \cup DOMAIN messages \subseteq ID
  /\ \A i \in DOMAIN open : open[i] \in Row
  /\ \A i \in DOMAIN messages : messages[i] \in Row
  /\ conv \in [end : [Actor -> 0..MaxMessages], wake : [Actor -> Stamp],
               position : [Actor -> 0..MaxMessages], committed : [Actor -> 0..MaxMessages]]
  /\ \A n \in Notifier : \A k \in DOMAIN batch[n] : batch[n][k] \in Stamp
  /\ signalled \in [Notifier -> BOOLEAN]
  /\ cache \in [Actor -> View]
  /\ queued \in [Actor -> BOOLEAN]
  /\ pc \in [Actor -> {"idle", "working", "commit"}]
  /\ pos \in [Actor -> 0..MaxMessages]
  /\ taken \in [Actor -> SUBSET ID]
  /\ handled \in [Actor -> SUBSET ID]
  /\ told \in [ID -> 0..MaxRevision]
  /\ faults \in 0..MaxFaults

Init ==
  /\ open = <<>>
  /\ last = 0
  /\ messages = <<>>
  /\ conv = NoConv
  /\ batch = [n \in Notifier |-> <<>>]
  /\ signalled = [n \in Notifier |-> FALSE]
  /\ cache = [a \in Actor |-> NoView]
  /\ queued = [a \in Actor |-> FALSE]
  /\ pc = [a \in Actor |-> "idle"]
  /\ pos = [a \in Actor |-> 0]
  /\ taken = [a \in Actor |-> {}]
  /\ handled = [a \in Actor |-> {}]
  /\ told = [i \in ID |-> 0]
  /\ faults = 0

With(f, i, x) == [j \in DOMAIN f \cup {i} |-> IF j = i THEN x ELSE f[j]]
Without(f, i) == [j \in DOMAIN f \ {i} |-> f[j]]

-----------------------------------------------------------------------------
\* Messages.

NewRow(source, target, ended) ==
  [source |-> source, target |-> target, ended |-> ended, revision |-> 1,
   pending |-> target # User]

(***************************************************************************)
(* A writer takes the next UUIDv7 and starts its transaction: a chat input *)
(* of the user, or an actor's Speak (complete) or Tell (streaming).        *)
(***************************************************************************)
Allocate ==
  /\ last < MaxMessages
  /\ last' = last + 1
  /\ \E source \in Actor \cup {User}, target \in Actor \cup {User, Everyone}, ended \in BOOLEAN :
       /\ source = User => target \in Actor /\ ended
       /\ open' = With(open, last + 1, NewRow(source, target, ended))
  /\ UNCHANGED <<messages, conv, notify, consumer, told, faults>>

\* server/docs/conversation.md's assumption: rows become visible in ID order.
AllocationOrder(i) == \A j \in DOMAIN open : i <= j

(***************************************************************************)
(* The insert commits.  A chat input is then notified inline; other        *)
(* messages are left to Maintain.                                          *)
(***************************************************************************)
Insert(i) ==
  /\ i \in DOMAIN open
  /\ AllocationOrder(i)
  /\ messages' = With(messages, i, open[i])
  /\ open' = Without(open, i)
  /\ \/ /\ open[i].source = User
        /\ \E n \in Notifier :
             /\ batch[n] = <<>>
             /\ batch' = [batch EXCEPT ![n] = <<[id |-> i, revision |-> 1]>>]
        /\ UNCHANGED signalled
     \/ UNCHANGED notify
  /\ UNCHANGED <<last, conv, consumer, told, faults>>

Fault == faults < MaxFaults /\ faults' = faults + 1

\* The transaction fails: the ID is never used.
InsertFails(i) ==
  /\ Fault
  /\ i \in DOMAIN open
  /\ open' = Without(open, i)
  /\ UNCHANGED <<last, messages, conv, notify, consumer, told>>

\* An accepted output event of a streaming message.
Emit(i) ==
  /\ i \in DOMAIN messages
  /\ ~messages[i].ended
  /\ messages[i].revision < MaxRevision - 1
  /\ messages' = [messages EXCEPT ![i].revision = @ + 1]
  /\ UNCHANGED <<open, last, conv, notify, consumer, told, faults>>

\* End, or the expiry of an inactive message: the recipient is notified again.
End(i) ==
  /\ i \in DOMAIN messages
  /\ ~messages[i].ended
  /\ messages' = [messages EXCEPT ![i].ended = TRUE,
                                  ![i].revision = @ + 1,
                                  ![i].pending = (messages[i].target # User)]
  /\ UNCHANGED <<open, last, conv, notify, consumer, told, faults>>

-----------------------------------------------------------------------------
\* Notification: Maintain reads a page of pending rows, then notifies each.

Pending == {i \in DOMAIN messages : messages[i].pending}

\* The first rows in ID order (rows of other conversations are left out).
Page == {i \in Pending : Cardinality({j \in Pending : j < i}) < PageSize}

PendingDispatches(n) ==
  /\ batch[n] = <<>>
  /\ Pending # {}
  /\ \E ids \in [1..Cardinality(Page) -> Page] :
       /\ \A j, k \in DOMAIN ids : j < k => ids[j] < ids[k]
       /\ batch' = [batch EXCEPT ![n] =
            [k \in DOMAIN ids |-> [id |-> ids[k], revision |-> messages[ids[k]].revision]]]
  /\ UNCHANGED <<store, conv, signalled, consumer, told, faults>>

\* Mutant of Recipients: a broadcast reaches nobody.
RecipientsDirect(target) == {target} \cap Actor

\* Participants a signal reaches; a direct target becomes one.
Recipients(target) ==
  IF target = Everyone THEN {a \in Actor : conv.end[a] > 0} ELSE {target}

\* Mutant of Signal: the EndOffset is overwritten.
SignalOverwrites(n) ==
  /\ batch[n] # <<>>
  /\ ~signalled[n]
  /\ LET stamp == Head(batch[n])
         to == Recipients(messages[stamp.id].target)
     IN /\ conv' = [conv EXCEPT
             !.wake = [a \in Actor |-> IF a \in to THEN stamp ELSE @[a]],
             !.end  = [a \in Actor |-> IF a \in to THEN stamp.id ELSE @[a]]]
        /\ told' = [told EXCEPT ![stamp.id] = Max({@, stamp.revision})]
  /\ signalled' = [signalled EXCEPT ![n] = TRUE]
  /\ UNCHANGED <<store, batch, consumer, faults>>

\* The wake stamp and the EndOffset, which never moves back.
Signal(n) ==
  /\ batch[n] # <<>>
  /\ ~signalled[n]
  /\ LET stamp == Head(batch[n])
         to == Recipients(messages[stamp.id].target)
     IN /\ conv' = [conv EXCEPT
             !.wake = [a \in Actor |-> IF a \in to THEN stamp ELSE @[a]],
             !.end  = [a \in Actor |-> IF a \in to THEN Max({@[a], stamp.id}) ELSE @[a]]]
        /\ told' = [told EXCEPT ![stamp.id] = Max({@, stamp.revision})]
  /\ signalled' = [signalled EXCEPT ![n] = TRUE]
  /\ UNCHANGED <<store, batch, consumer, faults>>

\* The mark is cleared by ID, whatever has been written since it was read.
AcknowledgeDispatch(n) ==
  /\ signalled[n]
  /\ messages' = [messages EXCEPT ![Head(batch[n]).id].pending = FALSE]
  /\ batch' = [batch EXCEPT ![n] = Tail(@)]
  /\ signalled' = [signalled EXCEPT ![n] = FALSE]
  /\ UNCHANGED <<open, last, conv, consumer, told, faults>>

\* One Notify fails and Maintain goes on, or the replica stops.
NotifyFails(n) ==
  /\ Fault
  /\ batch[n] # <<>>
  /\ \E rest \in {Tail(batch[n]), <<>>} : batch' = [batch EXCEPT ![n] = rest]
  /\ signalled' = [signalled EXCEPT ![n] = FALSE]
  /\ UNCHANGED <<store, conv, consumer, told>>

-----------------------------------------------------------------------------
\* The actor's controller.

Seen(a) == [end |-> conv.end[a], wake |-> conv.wake[a], committed |-> conv.committed[a]]
Behind(view) == view.end > view.committed

\* ConversationPredicate: the actor's own signal or cursor has moved.
Watch(a) ==
  /\ cache[a] # Seen(a)
  /\ cache' = [cache EXCEPT ![a] = Seen(a)]
  /\ queued' = [queued EXCEPT ![a] = @ \/ Behind(Seen(a))]
  /\ UNCHANGED <<store, conv, notify, pc, pos, taken, handled, told, faults>>

\* ListInbox: addressed to the actor or to everyone, not its own.
Addressed(i, a) == /\ messages[i].target \in {a, Everyone}
                   /\ messages[i].source # a

Inbox(a, after) == {i \in DOMAIN messages : i > after /\ Addressed(i, a)}

Batch(a, after) ==
  {i \in Inbox(a, after) : Cardinality({j \in Inbox(a, after) : j < i}) < Limit}

(***************************************************************************)
(* Poll: Reconcile starts from the committed position; while it works it   *)
(* may ask for more after the position it has reached.                     *)
(***************************************************************************)
Receive(a, got) ==
  /\ conv' = [conv EXCEPT !.position[a] = Max({@} \cup got)]
  /\ pos' = [pos EXCEPT ![a] = Max(got)]
  /\ taken' = [taken EXCEPT ![a] = @ \cup got]
  /\ pc' = [pc EXCEPT ![a] = "working"]

\* Mutant of Poll: reading resumes at the received position.
PollReceived(a) ==
  /\ pc[a] = "idle"
  /\ queued[a]
  /\ queued' = [queued EXCEPT ![a] = FALSE]
  /\ LET got == Batch(a, conv.position[a])
     IN IF got = {} THEN UNCHANGED <<conv, pc, pos, taken>> ELSE Receive(a, got)
  /\ UNCHANGED <<store, notify, cache, handled, told, faults>>

\* Mutant of Poll: an empty inbox is polled again.
PollSpins(a) ==
  /\ pc[a] = "idle"
  /\ queued[a]
  /\ LET got == Batch(a, conv.committed[a])
     IN IF got = {} THEN UNCHANGED <<conv, pc, pos, taken>> ELSE Receive(a, got)
  /\ UNCHANGED <<store, notify, queued, cache, handled, told, faults>>

Poll(a) ==
  /\ pc[a] = "idle"
  /\ queued[a]
  /\ queued' = [queued EXCEPT ![a] = FALSE]
  /\ LET got == Batch(a, conv.committed[a])
     IN IF got = {} THEN UNCHANGED <<conv, pc, pos, taken>> ELSE Receive(a, got)
  /\ UNCHANGED <<store, notify, cache, handled, told, faults>>

PollMore(a) ==
  /\ pc[a] = "working"
  /\ LET got == Batch(a, Max({conv.committed[a], pos[a]}))
     IN got # {} /\ Receive(a, got)
  /\ UNCHANGED <<store, notify, cache, queued, handled, told, faults>>

Handle(a) ==
  /\ pc[a] = "working"
  /\ handled' = [handled EXCEPT ![a] = @ \cup taken[a]]
  /\ pc' = [pc EXCEPT ![a] = "commit"]
  /\ UNCHANGED <<store, conv, notify, cache, queued, pos, taken, told, faults>>

\* Reconcile returns; its local state is gone and the request is queued again.
Return(a) ==
  /\ pc' = [pc EXCEPT ![a] = "idle"]
  /\ pos' = [pos EXCEPT ![a] = 0]
  /\ taken' = [taken EXCEPT ![a] = {}]
  /\ queued' = [queued EXCEPT ![a] = TRUE]

\* Mutant of Committed: the next offset instead of the last message.
CommittedNext(a) ==
  IF pos[a] <= conv.committed[a] \/ pos[a] > conv.position[a]
  THEN conv
  ELSE [conv EXCEPT !.committed[a] = pos[a] + 1]

Committed(a) ==
  IF pos[a] <= conv.committed[a] \/ pos[a] > conv.position[a]
  THEN conv
  ELSE [conv EXCEPT !.committed[a] = pos[a]]

Commit(a) ==
  /\ pc[a] = "commit"
  /\ conv' = Committed(a)
  /\ Return(a)
  /\ UNCHANGED <<store, notify, cache, handled, told, faults>>

\* A call fails, or its answer is lost after its effect.
ReconcileFails(a) ==
  /\ Fault
  /\ pc[a] # "idle"
  /\ conv' \in {conv} \cup (IF pc[a] = "commit" THEN {Committed(a)} ELSE {})
  /\ Return(a)
  /\ UNCHANGED <<store, notify, cache, handled, told>>

\* The Operator restarts: its queue is rebuilt from the resource.
Restart(a) ==
  /\ Fault
  /\ pc' = [pc EXCEPT ![a] = "idle"]
  /\ pos' = [pos EXCEPT ![a] = 0]
  /\ taken' = [taken EXCEPT ![a] = {}]
  /\ cache' = [cache EXCEPT ![a] = Seen(a)]
  /\ queued' = [queued EXCEPT ![a] = Behind(Seen(a))]
  /\ UNCHANGED <<store, conv, notify, handled, told>>

-----------------------------------------------------------------------------

Notify(n) == PendingDispatches(n) \/ Signal(n) \/ AcknowledgeDispatch(n)
Reconcile(a) == Poll(a) \/ Handle(a) \/ Commit(a)

Next ==
  \/ Allocate
  \/ \E i \in ID : Insert(i) \/ InsertFails(i) \/ Emit(i) \/ End(i)
  \/ \E n \in Notifier : Notify(n) \/ NotifyFails(n)
  \/ \E a \in Actor : Watch(a) \/ Reconcile(a) \/ PollMore(a)
                      \/ ReconcileFails(a) \/ Restart(a)

Spec == Init /\ [][Next]_vars

\* Transactions finish and goroutines run; nothing is assumed of the writers.
Fairness ==
  /\ \A i \in ID : WF_vars(Insert(i))
  /\ \A n \in Notifier : WF_vars(Notify(n))
  /\ \A a \in Actor : WF_vars(Watch(a)) /\ WF_vars(Reconcile(a))

FairSpec == Spec /\ Fairness

-----------------------------------------------------------------------------
\* Properties.

(***************************************************************************)
(* At-least-once consumption: whatever is lost or restarted, the committed *)
(* position never passes a message addressed to the actor that it has not  *)
(* handled (Poll from Committed, Commit of a position received).           *)
(***************************************************************************)
AtLeastOnce ==
  \A a \in Actor : \A i \in DOMAIN messages :
    i <= conv.committed[a] /\ Addressed(i, a) => i \in handled[a]

(***************************************************************************)
(* Notify clears a message's mark only after the recipient's EndOffset     *)
(* covers the message, so a crash between the two repeats the signal       *)
(* instead of losing it.                                                   *)
(***************************************************************************)
AcknowledgedIsSignalled ==
  \A i \in DOMAIN messages :
    messages[i].target \in Actor /\ ~messages[i].pending
      => conv.end[messages[i].target] >= i

AllConsumed ==
  \A a \in Actor : \A i \in DOMAIN messages :
    Addressed(i, a) /\ (messages[i].target = a \/ conv.end[a] > 0)
      => conv.committed[a] >= i

(***************************************************************************)
(* Once writing stops, every message addressed to a participant is         *)
(* eventually committed by it, although its controller is only woken by    *)
(* the resource.                                                           *)
(***************************************************************************)
EventuallyConsumed == <>[]AllConsumed

(***************************************************************************)
(* Signals, receipts and commits do not keep waking each other: once       *)
(* writing stops every work queue stays empty, with everything consumed.   *)
(***************************************************************************)
Quiesces == <>[](AllConsumed /\ \A a \in Actor : ~queued[a])

(***************************************************************************)
(* server/docs/conversation.md: a message that ends notifies its recipient *)
(* again, and a failed notification is retried.  The unconditional         *)
(* acknowledgement of an older revision clears the mark End has just set,  *)
(* so the code does not satisfy this.                                      *)
(***************************************************************************)
EndIsNotified ==
  \A i \in DOMAIN messages :
    messages[i].ended /\ messages[i].target # User
      => messages[i].pending \/ told[i] = messages[i].revision
=============================================================================
