------------------------- MODULE InteractionProofs --------------------------
(***************************************************************************)
(* Questions to users and the Interaction operator that asks them, for any *)
(* questions, people, replicas, clock skews and numbers of messages and    *)
(* faults: what HumanQuestion and Interaction promise, as theorems, and    *)
(* that the composition does to a question only what HumanQuestion allows. *)
(***************************************************************************)
EXTENDS Interaction, FiniteSetTheorems, SequenceTheorems, TLAPS

Answered(e) == question[e].status \in {"success", "dismissed"}

ReplyFits(q) ==
  IF q.status \in {"success", "dismissed"}
  THEN q.reply \in Valid[q.input] /\ (q.status = "dismissed" <=> q.reply = Dismissal)
  ELSE q.reply = None

\* A row's reply and revision follow its status; the reply is one its input declares.
RowAgrees(q) ==
  /\ q.revision = IF q.status = "pending" THEN 1 ELSE 2
  /\ ReplyFits(q)

RowsAgree == \A e \in DOMAIN question : RowAgrees(question[e])

\* Whatever a maintainer or a caller refers to is a row.
NothingDangles ==
  /\ \A s \in Replica :
       /\ plan[s] \subseteq DOMAIN question
       /\ stale[s] # <<>> => stale[s][1] \in DOMAIN question
  /\ \A r \in results : r[1] \in DOMAIN question /\ question[r[1]].status \in Resolved

\* Nobody replies to a question that was not asked.
UnaskedSilent == \A e \in Effect \ DOMAIN question : replies[e] = <<>>

\* What OneOutcome says, and what it needs to be kept by every step.
QuestionInv == TypeOK /\ RowsAgree /\ NothingDangles /\ UnaskedSilent /\ OneOutcome

-----------------------------------------------------------------------------
(***************************************************************************)
(* What a step can do to a question: create it, look at it (which may find *)
(* it expired, or acknowledge its wake mark), or answer it.                *)
(***************************************************************************)
NewRow(e, i) ==
  /\ e \in Effect /\ e \notin DOMAIN question
  /\ i \in Input
  /\ \E deadline \in Nat :
       Put(e, [input |-> i, deadline |-> deadline, status |-> "pending",
               reply |-> None, revision |-> 1, due |-> TRUE, wake |-> FALSE])
  /\ UNCHANGED <<replies, results>>

Looked(e, q) ==
  \/ q = question[e]
  \/ q = [question[e] EXCEPT !.wake = FALSE]
  \/ question[e].status = "pending" /\ q = Resolve(question[e], "timeout", None)

OldRow(e, q) ==
  /\ e \in DOMAIN question
  /\ Looked(e, q)
  /\ Put(e, q)
  /\ \/ results' = results
     \/ q.status \in Resolved /\ results' = results \cup {<<e, Told(q)>>}
  /\ UNCHANGED replies

AnsweredRow(e, status, answer) ==
  /\ e \in DOMAIN question /\ question[e].status = "pending"
  /\ answer \in Valid[question[e].input]
  /\ status = IF answer = Dismissal THEN "dismissed" ELSE "success"
  /\ Put(e, Resolve(question[e], status, answer))
  /\ replies' = [replies EXCEPT ![e] = Append(@, answer)]
  /\ results' = results \cup {<<e, [status |-> status, reply |-> answer]>>}

NoRow == UNCHANGED <<question, replies, results>>

RowStep ==
  \/ NoRow
  \/ \E e \in Effect, i \in Input : NewRow(e, i)
  \/ \E e \in Effect, q \in Question : OldRow(e, q)
  \/ \E e \in Effect, status \in {"success", "dismissed"}, answer \in Answer :
       AnsweredRow(e, status, answer)

\* Replica clocks are naturals.
LEMMA NowType == ASSUME TypeOK, NEW s \in Replica PROVE Now(s) \in Nat
  BY ClockAssumption DEF TypeOK, Now

\* Put writes one row and leaves the others.
LEMMA PutRow ==
  ASSUME NEW e, NEW q, Put(e, q)
  PROVE  /\ DOMAIN question' = DOMAIN question \cup {e}
         /\ question'[e] = q
         /\ \A f \in DOMAIN question \ {e} : question'[f] = question[f]
         /\ question' = [f \in DOMAIN question' |-> question'[f]]
  BY DEF Put

\* A pending row that is resolved is well-typed; nothing else of it changes.
LEMMA ResolveRow ==
  ASSUME NEW q \in Question, q.revision = 1,
         NEW status \in Resolved, NEW answer \in Answer \cup {None}
  PROVE  LET r == Resolve(q, status, answer)
         IN /\ r \in Question
            /\ r.status = status /\ r.reply = answer /\ r.revision = 2
            /\ r.input = q.input /\ r.deadline = q.deadline
            /\ ~r.due /\ r.wake
<1> DEFINE r == Resolve(q, status, answer)
<1>1. r.status = status /\ r.reply = answer /\ r.revision = 2 /\ ~r.due /\ r.wake
  BY DEF Resolve, Question
<1>2. r.input = q.input /\ r.deadline = q.deadline
  BY DEF Resolve, Question
<1>3. status \in {"pending"} \cup Resolved /\ q.revision + 1 = 2
  OBVIOUS
<1>4. r \in Question
  BY <1>3 DEF Resolve, Question
<1> QED
  BY <1>1, <1>2, <1>4

\* Expiring a row is looking at it.
LEMMA ExpireRow ==
  ASSUME QuestionInv, NEW e \in DOMAIN question, NEW s \in Replica
  PROVE  /\ Expire(question[e], s) \in Question
         /\ Looked(e, Expire(question[e], s))
<1>1. question[e] \in Question
  BY DEF QuestionInv, TypeOK
<1>2. question[e].status = "pending" => question[e].revision = 1
  BY DEF QuestionInv, RowsAgree, RowAgrees
<1>3. question[e].status = "pending" => Resolve(question[e], "timeout", None) \in Question
  BY <1>1, <1>2, ResolveRow DEF Resolved
<1> QED
  BY <1>1, <1>3 DEF Expire, Looked

\* What a caller is told of a row is added to the results.
LEMMA ReturnRow ==
  ASSUME NEW e, NEW q, Return(e, q)
  PROVE  IF q.status \in Resolved
         THEN results' = results \cup {<<e, Told(q)>>}
         ELSE results' = results
  BY DEF Return, Told

\* Get, and Create of a question that exists.
LEMMA AccessRow ==
  ASSUME QuestionInv, NEW e \in DOMAIN question, NEW s \in Replica,
         Put(e, Expire(question[e], s)), UNCHANGED replies,
         Return(e, Expire(question[e], s)) \/ UNCHANGED results
  PROVE  \E q \in Question : OldRow(e, q)
<1> DEFINE q == Expire(question[e], s)
<1>1. q \in Question /\ Looked(e, q)
  BY ExpireRow
<1>2. results' = results \/ (q.status \in Resolved /\ results' = results \cup {<<e, Told(q)>>})
  BY ReturnRow
<1>3. OldRow(e, q)
  BY <1>1, <1>2 DEF OldRow
<1> QED
  BY <1>1, <1>3

\* CreateHuman makes a row or looks at it.
LEMMA CreateRow ==
  ASSUME QuestionInv, NEW e \in Effect, NEW i \in Input, NEW s \in Replica, Create(e, i, s)
  PROVE  NewRow(e, i) \/ \E q \in Question : question[e].input = i /\ OldRow(e, q)
<1>1. CASE e \notin DOMAIN question
  <2>1. Now(s) + Timeout \in Nat
    BY NowType, ClockAssumption DEF QuestionInv
  <2> QED
    BY <1>1, <2>1 DEF Create, NewRow
<1>2. CASE e \in DOMAIN question
  BY <1>2, AccessRow DEF Create
<1> QED
  BY <1>1, <1>2

\* ReplyHuman answers a pending row; otherwise it only looks at it.
LEMMA ReplyRow ==
  ASSUME QuestionInv, NEW e \in Effect, NEW who \in Person, NEW answer \in Answer,
         NEW s \in Replica, Reply(e, who, answer, s)
  PROVE  \/ \E q \in Question : OldRow(e, q)
         \/ \E status \in {"success", "dismissed"} : AnsweredRow(e, status, answer)
<1> DEFINE q == Expire(question[e], s)
           status == IF answer = Dismissal THEN "dismissed" ELSE "success"
<1>1. e \in DOMAIN question
  BY DEF Reply
<1>2. CASE q.status = "pending"
  <2>1. q = question[e]
    BY <1>2 DEF Expire, Resolve, QuestionInv, TypeOK, Question
  <2>2. question[e] \in Question /\ question[e].revision = 1
    BY <1>1, <1>2, <2>1 DEF QuestionInv, RowsAgree, RowAgrees, TypeOK
  <2>3. status \in Resolved /\ answer \in Answer \cup {None}
    BY DEF Resolved
  <2>4. /\ Resolve(question[e], status, answer).status = status
        /\ Resolve(question[e], status, answer).reply = answer
    BY <2>2, <2>3, ResolveRow
  <2>5. /\ Put(e, Resolve(question[e], status, answer))
        /\ replies' = [replies EXCEPT ![e] = Append(@, answer)]
        /\ Return(e, Resolve(question[e], status, answer))
    BY <1>2, <2>1 DEF Reply
  <2>6. results' = results \cup {<<e, [status |-> status, reply |-> answer]>>}
    BY <2>3, <2>4, <2>5, ReturnRow DEF Told
  <2>7. AnsweredRow(e, status, answer)
    <3>1. answer \in Valid[question[e].input]
      BY DEF Reply
    <3> QED
      BY <1>1, <1>2, <2>1, <2>5, <2>6, <3>1 DEF AnsweredRow
  <2> QED
    BY <2>7
<1>3. CASE q.status # "pending"
  BY <1>1, <1>3, AccessRow DEF Reply
<1> QED
  BY <1>2, <1>3

\* Maintenance looks at rows and acknowledges wake marks.
LEMMA MaintainRows ==
  ASSUME QuestionInv, NEW s \in Replica, Maintain(s)
  PROVE  NoRow \/ \E e \in Effect, q \in Question : OldRow(e, q)
<1>1. CASE HumanMaintenance(s)
  BY <1>1 DEF HumanMaintenance, NoRow
<1>2. ASSUME NEW e \in plan[s], MaintainRow(s, e) PROVE \E q \in Question : OldRow(e, q) 
  <2>1. e \in DOMAIN question
    BY DEF QuestionInv, NothingDangles
  <2> QED
    BY <1>2, <2>1, AccessRow DEF MaintainRow
<1>3. CASE AcknowledgeHumanWake(s)
  <2> DEFINE e == stale[s][1]
             cleared == question[e].wake /\ question[e].revision # stale[s][2]
             q == [question[e] EXCEPT !.wake = cleared]
  <2>1. e \in DOMAIN question /\ question[e] \in Question
    BY <1>3 DEF AcknowledgeHumanWake, QuestionInv, NothingDangles, TypeOK
  <2>2. q \in Question
    BY <2>1 DEF Question
  <2>3. cleared = question[e].wake \/ cleared = FALSE
    BY <2>1 DEF Question
  <2>4. Looked(e, q)
    BY <2>1, <2>3 DEF Looked, Question
  <2>5. Put(e, q) /\ UNCHANGED <<replies, results>>
    BY <1>3, <2>1 DEF AcknowledgeHumanWake, Put, QuestionInv, TypeOK
  <2>6. OldRow(e, q)
    BY <2>1, <2>4, <2>5 DEF OldRow
  <2> QED
    BY <2>1, <2>2, <2>6 DEF QuestionInv, TypeOK
<1> QED
  BY <1>1, <1>2, <1>3 DEF Maintain, QuestionInv, TypeOK

\* What any step of HumanQuestion does to the rows.
LEMMA RowSteps == ASSUME QuestionInv, [Next]_vars PROVE RowStep
<1>1. ASSUME NEW s \in Replica, NEW e \in Effect, NEW i \in Input, Create(e, i, s) PROVE RowStep
  BY <1>1, CreateRow DEF RowStep
<1>2. ASSUME NEW s \in Replica, NEW e \in Effect, Get(e, s) PROVE RowStep
  BY <1>2, AccessRow DEF RowStep, Get, Access
<1>3. ASSUME NEW s \in Replica, NEW e \in Effect, NEW who \in Person, NEW answer \in Answer,
             Reply(e, who, answer, s)
      PROVE  RowStep
  BY <1>3, ReplyRow DEF RowStep
<1>4. ASSUME NEW s \in Replica, Maintain(s) PROVE RowStep
  BY <1>4, MaintainRows DEF RowStep
<1>5. ASSUME NEW s \in Replica, MaintainFails(s) PROVE RowStep
  BY <1>5 DEF RowStep, MaintainFails, NoRow
<1>6. CASE Tick
  BY <1>6 DEF RowStep, Tick, NoRow
<1>7. CASE UNCHANGED vars
  BY <1>7 DEF RowStep, vars, NoRow
<1> QED
  BY <1>1, <1>2, <1>3, <1>4, <1>5, <1>6, <1>7 DEF Next

-----------------------------------------------------------------------------
\* What was asked, its deadline and an outcome once there is one are never changed.
LEMMA RowsKept ==
  ASSUME QuestionInv, RowStep, NEW e \in DOMAIN question
  PROVE  /\ e \in DOMAIN question'
         /\ question'[e].input = question[e].input
         /\ question'[e].deadline = question[e].deadline
         /\ question[e].status \in Resolved => Told(question'[e]) = Told(question[e])
<1> USE DEF Told
<1>0. question[e] \in Question
  BY DEF QuestionInv, TypeOK
<1>1. CASE NoRow
  BY <1>1 DEF NoRow
<1>2. ASSUME NEW f \in Effect, NEW i \in Input, NewRow(f, i)
      PROVE  e \in DOMAIN question' /\ question'[e] = question[e]
  BY <1>2, PutRow DEF NewRow
<1>3. ASSUME NEW f \in Effect, NEW q \in Question, Put(f, q),
             f = e => /\ q.input = question[e].input /\ q.deadline = question[e].deadline
                      /\ question[e].status \in Resolved => Told(q) = Told(question[e])
      PROVE  /\ e \in DOMAIN question'
             /\ question'[e].input = question[e].input
             /\ question'[e].deadline = question[e].deadline
             /\ question[e].status \in Resolved => Told(question'[e]) = Told(question[e])
  <2>1. e \in DOMAIN question'
    BY <1>3, PutRow
  <2>2. question'[e] = IF f = e THEN q ELSE question[e]
    BY <1>3 DEF Put
  <2> QED
    BY <1>3, <2>1, <2>2
<1>4. "pending" \notin Resolved
  BY DEF Resolved
<1>5. ASSUME NEW status, NEW answer
      PROVE  LET r == Resolve(question[e], status, answer)
             IN  r.input = question[e].input /\ r.deadline = question[e].deadline
  BY <1>0 DEF Resolve, Question
<1>6. ASSUME NEW f \in Effect, NEW q \in Question, OldRow(f, q), f = e
      PROVE  /\ q.input = question[e].input /\ q.deadline = question[e].deadline
             /\ question[e].status \in Resolved => Told(q) = Told(question[e])
  <2>1. CASE q = question[e]
    BY <2>1
  <2>2. CASE q = [question[e] EXCEPT !.wake = FALSE]
    BY <1>0, <2>2 DEF Question
  <2>3. CASE question[e].status = "pending" /\ q = Resolve(question[e], "timeout", None)
    BY <1>4, <1>5, <2>3
  <2> QED
    BY <1>6, <2>1, <2>2, <2>3 DEF OldRow, Looked
<1>7. ASSUME NEW f \in Effect, NEW status \in {"success", "dismissed"}, NEW answer \in Answer,
             AnsweredRow(f, status, answer)
      PROVE  /\ e \in DOMAIN question'
             /\ question'[e].input = question[e].input
             /\ question'[e].deadline = question[e].deadline
             /\ question[e].status \in Resolved => Told(question'[e]) = Told(question[e])
  <2> DEFINE q == Resolve(question[f], status, answer)
  <2>1. Put(f, q) /\ question[f].status = "pending"
    BY <1>7 DEF AnsweredRow
  <2>2. CASE f = e
    <3>1. question'[e] = q /\ e \in DOMAIN question'
      BY <2>1, <2>2, PutRow
    <3> QED
      BY <1>4, <1>5, <2>1, <2>2, <3>1
  <2>3. CASE f # e
    <3>1. question'[e] = question[e] /\ e \in DOMAIN question'
      BY <2>1, <2>3 DEF Put
    <3> QED
      BY <3>1
  <2> QED
    BY <2>2, <2>3
<1> QED
  BY <1>1, <1>2, <1>3, <1>6, <1>7 DEF RowStep, OldRow

\* The row a step writes has its type.
LEMMA WrittenRow ==
  ASSUME QuestionInv, RowStep
  PROVE  /\ DOMAIN question' \subseteq Effect
         /\ question' \in [DOMAIN question' -> Question]
         /\ replies' \in [Effect -> Seq(Answer)]
         /\ results' \subseteq Effect \X Result
<1> USE DEF QuestionInv, TypeOK
<1>1. CASE NoRow
  BY <1>1 DEF NoRow
<1>2. ASSUME NEW e \in Effect, NEW q \in Question, Put(e, q)
      PROVE  /\ DOMAIN question' \subseteq Effect
             /\ question' \in [DOMAIN question' -> Question]
  <2>1. DOMAIN question' = DOMAIN question \cup {e}
    BY <1>2, PutRow
  <2>2. \A f \in DOMAIN question' : question'[f] \in Question
    BY <1>2, <2>1, PutRow
  <2>3. question' = [f \in DOMAIN question' |-> question'[f]]
    BY <1>2, PutRow
  <2> QED
    BY <2>1, <2>2, <2>3
<1>3. ASSUME NEW q \in Question, q.status \in Resolved PROVE Told(q) \in Result
  BY <1>3 DEF Told, Result, Question
<1>4. ASSUME NEW e \in Effect, NEW i \in Input, NewRow(e, i)
      PROVE  \E q \in Question : Put(e, q)
  BY <1>4 DEF NewRow, Question
<1>5. ASSUME NEW e \in Effect, NEW q \in Question, OldRow(e, q)
      PROVE  Put(e, q) /\ results' \subseteq Effect \X Result
  BY <1>3, <1>5 DEF OldRow
<1>6. ASSUME NEW e \in Effect, NEW status \in {"success", "dismissed"}, NEW answer \in Answer,
             AnsweredRow(e, status, answer)
      PROVE  /\ \E q \in Question : Put(e, q)
             /\ replies' \in [Effect -> Seq(Answer)]
             /\ results' \subseteq Effect \X Result
  <2>1. question[e] \in Question /\ question[e].revision = 1
    BY <1>6 DEF AnsweredRow, RowsAgree, RowAgrees
  <2>2. status \in Resolved /\ answer \in Answer \cup {None}
    BY DEF Resolved
  <2>3. Resolve(question[e], status, answer) \in Question
    BY <2>1, <2>2, ResolveRow
  <2>4. Append(replies[e], answer) \in Seq(Answer)
    OBVIOUS
  <2>5. replies' \in [Effect -> Seq(Answer)]
    BY <1>6, <2>4 DEF AnsweredRow
  <2>6. [status |-> status, reply |-> answer] \in Result
    BY <2>2 DEF Result
  <2> QED
    BY <1>6, <2>3, <2>5, <2>6 DEF AnsweredRow
<1>7. ASSUME NEW e \in Effect, NEW i \in Input, NewRow(e, i)
      PROVE  /\ replies' \in [Effect -> Seq(Answer)]
             /\ results' \subseteq Effect \X Result
  BY <1>7 DEF NewRow
<1>8. ASSUME NEW e \in Effect, NEW q \in Question, OldRow(e, q)
      PROVE  replies' \in [Effect -> Seq(Answer)]
  BY <1>8 DEF OldRow
<1> QED
  BY <1>1, <1>2, <1>4, <1>5, <1>6, <1>7, <1>8 DEF RowStep

\* Clock and maintainers keep their types; a maintainer refers to rows only.
LEMMA WrittenPlans ==
  ASSUME QuestionInv, [Next]_vars
  PROVE  /\ clock' \in 0..MaxClock
         /\ plan' \in [Replica -> SUBSET Effect]
         /\ stale' \in [Replica -> {<<>>} \cup (Effect \X {1, 2})]
         /\ \A s \in Replica :
              /\ plan'[s] \subseteq DOMAIN question'
              /\ stale'[s] # <<>> => stale'[s][1] \in DOMAIN question'
<1> USE DEF QuestionInv, TypeOK, NothingDangles
<1>0. DOMAIN question \subseteq DOMAIN question'
  BY RowSteps, RowsKept
<1>1. CASE UNCHANGED <<clock, plan, stale>>
  BY <1>0, <1>1
<1>2. ASSUME NEW s \in Replica, HumanMaintenance(s)
      PROVE  plan' = [plan EXCEPT ![s] = Listed(s)] /\ UNCHANGED <<clock, stale>>
  BY <1>2 DEF HumanMaintenance
<1>3. ASSUME NEW s \in Replica PROVE Listed(s) \subseteq DOMAIN question
  BY DEF Listed
<1>4. ASSUME NEW s \in Replica, NEW e \in plan[s], MaintainRow(s, e)
      PROVE  /\ plan' = [plan EXCEPT ![s] = @ \ {e}]
             /\ \E mark \in {<<>>} \cup ({e} \X {1, 2}) : stale' = [stale EXCEPT ![s] = mark]
             /\ UNCHANGED clock
  <2>1. Expire(question[e], s).revision \in {1, 2}
    BY ExpireRow DEF Question
  <2> QED
    BY <1>4, <2>1 DEF MaintainRow
<1>5. ASSUME NEW s \in Replica, AcknowledgeHumanWake(s)
      PROVE  stale' = [stale EXCEPT ![s] = <<>>] /\ UNCHANGED <<clock, plan>>
  BY <1>5 DEF AcknowledgeHumanWake
<1>6. ASSUME NEW s \in Replica, MaintainFails(s)
      PROVE  /\ plan' = [plan EXCEPT ![s] = {}] /\ stale' = [stale EXCEPT ![s] = <<>>]
             /\ UNCHANGED clock
  BY <1>6 DEF MaintainFails
<1>7. CASE Tick
  BY <1>0, <1>7, ClockAssumption DEF Tick
<1>8. ASSUME NEW s \in Replica, NEW e \in Effect,
             \/ \E i \in Input : Create(e, i, s)
             \/ Get(e, s)
             \/ \E who \in Person, answer \in Answer : Reply(e, who, answer, s)
      PROVE  UNCHANGED <<clock, plan, stale>>
  BY <1>8 DEF Create, Get, Reply
<1>9. CASE UNCHANGED vars
  BY <1>1, <1>9 DEF vars
<1>10. ASSUME NEW s \in Replica, HumanMaintenance(s)
       PROVE  /\ plan' \in [Replica -> SUBSET Effect]
              /\ \A r \in Replica : plan'[r] \subseteq DOMAIN question
  <2>1. Listed(s) \subseteq DOMAIN question /\ Listed(s) \subseteq Effect
    BY <1>3
  <2> QED
    BY <1>2, <1>10, <2>1
<1>11. ASSUME NEW s \in Replica, NEW e \in plan[s], MaintainRow(s, e)
       PROVE  /\ plan' \in [Replica -> SUBSET Effect]
              /\ stale' \in [Replica -> {<<>>} \cup (Effect \X {1, 2})]
              /\ \A r \in Replica :
                   /\ plan'[r] \subseteq DOMAIN question
                   /\ stale'[r] # <<>> => stale'[r][1] \in DOMAIN question
  <2>1. e \in Effect /\ e \in DOMAIN question
    OBVIOUS
  <2>2. PICK mark \in {<<>>} \cup ({e} \X {1, 2}) : stale' = [stale EXCEPT ![s] = mark]
    BY <1>4, <1>11
  <2>3. mark \in {<<>>} \cup (Effect \X {1, 2}) /\ (mark # <<>> => mark[1] = e)
    BY <2>1, <2>2
  <2>4. /\ plan' \in [Replica -> SUBSET Effect]
        /\ \A r \in Replica : plan'[r] \subseteq DOMAIN question
    <3>1. plan' = [plan EXCEPT ![s] = plan[s] \ {e}]
      BY <1>4, <1>11
    <3>2. /\ plan[s] \ {e} \in SUBSET Effect
          /\ plan[s] \ {e} \subseteq DOMAIN question
      OBVIOUS
    <3> QED
      BY <3>1, <3>2
  <2>5. /\ stale' \in [Replica -> {<<>>} \cup (Effect \X {1, 2})]
        /\ \A r \in Replica : stale'[r] # <<>> => stale'[r][1] \in DOMAIN question
    BY <2>1, <2>2, <2>3
  <2> QED
    BY <2>4, <2>5
<1>12. CASE \E s \in Replica : AcknowledgeHumanWake(s) \/ MaintainFails(s)
  BY <1>0, <1>5, <1>6, <1>12
<1>13. CASE \E s \in Replica : HumanMaintenance(s)
  BY <1>0, <1>2, <1>10, <1>13
<1>14. CASE \E s \in Replica : \E e \in plan[s] : MaintainRow(s, e)
  BY <1>0, <1>4, <1>11, <1>14
<1> QED
  BY <1>1, <1>7, <1>8, <1>9, <1>12, <1>13, <1>14 DEF Next, Maintain

\* Looking at a row leaves reply and revision in agreement with its status.
LEMMA LookedAgrees ==
  ASSUME QuestionInv, NEW e \in DOMAIN question, NEW q \in Question, Looked(e, q)
  PROVE  /\ RowAgrees(q)
         /\ \/ q.status = question[e].status /\ q.reply = question[e].reply
            \/ question[e].status = "pending" /\ q.status = "timeout"
<1>0. question[e] \in Question /\ RowAgrees(question[e])
  BY DEF QuestionInv, TypeOK, RowsAgree
<1>1. CASE q = question[e]
  BY <1>0, <1>1
<1>2. CASE q = [question[e] EXCEPT !.wake = FALSE]
  <2>1. /\ q.status = question[e].status /\ q.reply = question[e].reply
        /\ q.revision = question[e].revision /\ q.input = question[e].input
    BY <1>0, <1>2 DEF Question
  <2> QED
    BY <1>0, <2>1 DEF RowAgrees, ReplyFits
<1>3. CASE question[e].status = "pending" /\ q = Resolve(question[e], "timeout", None)
  <2>1. q.status = "timeout" /\ q.reply = None /\ q.revision = 2
    BY <1>0, <1>3, ResolveRow DEF Resolved, RowAgrees
  <2> QED
    BY <1>3, <2>1 DEF RowAgrees, ReplyFits
<1> QED
  BY <1>1, <1>2, <1>3 DEF Looked

\* Every step leaves the rows, the replies and what callers were told in agreement.
LEMMA WrittenOutcome ==
  ASSUME QuestionInv, RowStep
  PROVE  /\ RowsAgree'
         /\ \A r \in results' : r[1] \in DOMAIN question' /\ question'[r[1]].status \in Resolved
         /\ OneOutcome'
<1> DEFINE RepliesOf(q) == IF q.status \in {"success", "dismissed"} THEN <<q.reply>> ELSE <<>>
           RepliesAgree == \A e \in DOMAIN question : replies[e] = RepliesOf(question[e])
           ToldTruly(r) == /\ r[1] \in DOMAIN question /\ question[r[1]].status \in Resolved
                           /\ r[2] = Told(question[r[1]])
<1>0. /\ \A e \in DOMAIN question : question[e] \in Question /\ RowAgrees(question[e])
      /\ RepliesAgree
      /\ \A r \in results : ToldTruly(r)
  BY DEF QuestionInv, TypeOK, RowsAgree, OneOutcome, NothingDangles, Told
<1>1. ASSUME NEW r \in results PROVE ToldTruly(r)'
  <2>1. Told(question'[r[1]]) = Told(question[r[1]]) /\ r[1] \in DOMAIN question'
    BY <1>0, RowsKept
  <2> QED
    BY <1>0, <2>1 DEF Told
<1>2. ASSUME NEW e \in Effect, NEW q, Put(e, q), RowAgrees(q)
      PROVE  RowsAgree'
  BY <1>0, <1>2 DEF Put, RowsAgree
<1>3. ASSUME NEW e \in Effect, NEW q, Put(e, q), q.status \in Resolved
      PROVE  ToldTruly(<<e, Told(q)>>)'
  BY <1>3, PutRow
<1>4. CASE NoRow
  BY <1>0, <1>1, <1>4 DEF NoRow, RowsAgree, OneOutcome, Told, QuestionInv
<1>5. ASSUME NEW e \in Effect, NEW i \in Input, NewRow(e, i)
      PROVE  RowsAgree' /\ RepliesAgree' /\ \A r \in results' : ToldTruly(r)'
  <2>1. PICK deadline \in Nat :
          Put(e, [input |-> i, deadline |-> deadline, status |-> "pending",
                  reply |-> None, revision |-> 1, due |-> TRUE, wake |-> FALSE])
    BY <1>5 DEF NewRow
  <2>2. RowsAgree'
    BY <1>2, <2>1 DEF RowAgrees, ReplyFits
  <2>3. replies[e] = <<>>
    BY <1>5 DEF NewRow, QuestionInv, UnaskedSilent
  <2>4. RepliesAgree'
    BY <1>0, <1>5, <2>1, <2>3 DEF NewRow, Put
  <2> QED
    BY <1>1, <1>5, <2>2, <2>4 DEF NewRow
<1>6. ASSUME NEW e \in Effect, NEW q \in Question, OldRow(e, q)
      PROVE  RowsAgree' /\ RepliesAgree' /\ \A r \in results' : ToldTruly(r)'
  <2>1. Put(e, q) /\ e \in DOMAIN question /\ Looked(e, q) /\ replies' = replies
    BY <1>6 DEF OldRow
  <2>2. RowAgrees(q) /\ RepliesOf(q) = RepliesOf(question[e])
    BY <1>0, <2>1, LookedAgrees
  <2>3. RowsAgree'
    BY <1>2, <2>1, <2>2
  <2>4. RepliesAgree'
    BY <1>0, <2>1, <2>2 DEF Put
  <2>5. \A r \in results' : ToldTruly(r)'
    BY <1>1, <1>3, <1>6, <2>1 DEF OldRow
  <2> QED
    BY <2>3, <2>4, <2>5
<1>7. ASSUME NEW e \in Effect, NEW status \in {"success", "dismissed"}, NEW answer \in Answer,
             AnsweredRow(e, status, answer)
      PROVE  RowsAgree' /\ RepliesAgree' /\ \A r \in results' : ToldTruly(r)'
  <2> DEFINE q == Resolve(question[e], status, answer)
  <2>1. Put(e, q) /\ e \in DOMAIN question /\ question[e].status = "pending"
    BY <1>7 DEF AnsweredRow
  <2>2. q.status = status /\ q.reply = answer /\ q.revision = 2 /\ q.input = question[e].input
    BY <1>0, <2>1, ResolveRow DEF Resolved, RowAgrees
  <2>3. Told(q) = [status |-> status, reply |-> answer] /\ q.status \in Resolved
    BY <2>2 DEF Told, Resolved
  <2> HIDE DEF q
  <2>4. RowsAgree'
    <3>1. RowAgrees(q)
      BY <1>7, <2>2 DEF AnsweredRow, RowAgrees, ReplyFits
    <3> QED
      BY <1>2, <2>1, <3>1
  <2>5. replies[e] = <<>> /\ RepliesOf(q) = <<answer>>
    BY <1>0, <2>1, <2>2
  <2>6. replies' = [replies EXCEPT ![e] = <<answer>>]
    BY <1>7, <2>5 DEF AnsweredRow
  <2>7. RepliesAgree'
    BY <1>0, <2>1, <2>5, <2>6 DEF Put, QuestionInv, TypeOK
  <2>8. results' = results \cup {<<e, Told(q)>>}
    BY <1>7, <2>3 DEF AnsweredRow
  <2>9. \A r \in results' : ToldTruly(r)'
    BY <1>1, <1>3, <2>1, <2>3, <2>8
  <2> QED
    BY <2>4, <2>7, <2>9
<1>8. RepliesAgree' /\ (\A r \in results' : ToldTruly(r)') => OneOutcome'
  BY DEF OneOutcome, Told
<1> QED
  BY <1>4, <1>5, <1>6, <1>7, <1>8 DEF RowStep

\* QuestionInv is inductive.
LEMMA InitQuestionInv == Init => QuestionInv
<1> SUFFICES ASSUME Init PROVE QuestionInv
  OBVIOUS
<1>1. question = <<>> /\ DOMAIN question = {}
  BY DEF Init
<1>2. TypeOK
  BY <1>1, ClockAssumption DEF Init, TypeOK
<1>3. OneOutcome
  BY <1>1 DEF Init, OneOutcome
<1>4. NothingDangles
  BY DEF Init, NothingDangles
<1> QED
  BY <1>1, <1>2, <1>3, <1>4 DEF QuestionInv, RowsAgree, UnaskedSilent, Init

\* Every step keeps it.
LEMMA NextQuestionInv == QuestionInv /\ [Next]_vars => QuestionInv'
<1> SUFFICES ASSUME QuestionInv, [Next]_vars PROVE QuestionInv'
  OBVIOUS
<1>1. RowStep
  BY RowSteps
<1>2. TypeOK'
  BY <1>1, WrittenRow, WrittenPlans DEF TypeOK
<1>3. NothingDangles'
  BY <1>1, WrittenPlans, WrittenOutcome DEF NothingDangles
<1>4. UnaskedSilent'
  <2>1. CASE NoRow
    BY <2>1 DEF NoRow, UnaskedSilent, QuestionInv
  <2>2. ASSUME NEW e \in Effect, NEW i \in Input, NewRow(e, i) PROVE UnaskedSilent'
    BY <2>2, PutRow DEF NewRow, UnaskedSilent, QuestionInv
  <2>3. ASSUME NEW e \in Effect, NEW q \in Question, OldRow(e, q) PROVE UnaskedSilent'
    BY <2>3, PutRow DEF OldRow, UnaskedSilent, QuestionInv
  <2>4. ASSUME NEW e \in Effect, NEW status \in {"success", "dismissed"}, NEW answer \in Answer,
               AnsweredRow(e, status, answer)
        PROVE  UnaskedSilent'
    <3>0. e \in DOMAIN question /\ \E q : Put(e, q)
      BY <2>4 DEF AnsweredRow
    <3>1. DOMAIN question' = DOMAIN question
      <4>1. PICK q : Put(e, q)
        BY <3>0
      <4>2. DOMAIN question' = DOMAIN question \cup {e}
        BY <4>1, PutRow
      <4> QED
        BY <3>0, <4>2
    <3>2. \A f \in Effect \ {e} : replies'[f] = replies[f]
      BY <2>4 DEF AnsweredRow, QuestionInv, TypeOK
    <3> QED
      BY <3>0, <3>1, <3>2 DEF UnaskedSilent, QuestionInv
  <2> QED
    BY <1>1, <2>1, <2>2, <2>3, <2>4 DEF RowStep
<1> QED
  BY <1>1, <1>2, <1>3, <1>4, WrittenOutcome DEF QuestionInv

(***************************************************************************)
(* Every variable of the questions keeps its type.                         *)
(***************************************************************************)
THEOREM QuestionTypeCorrect == Spec => []TypeOK
<1>1. QuestionInv => TypeOK
  BY DEF QuestionInv
<1> QED
  BY <1>1, InitQuestionInv, NextQuestionInv, PTL DEF Spec

(***************************************************************************)
(* One outcome per question, told to everybody, and one reply message at   *)
(* most, whoever asks, answers and expires it on whichever clock.          *)
(***************************************************************************)
THEOREM OneOutcomeHolds == Spec => []OneOutcome
<1>1. QuestionInv => OneOutcome
  BY DEF QuestionInv
<1> QED
  BY <1>1, InitQuestionInv, NextQuestionInv, PTL DEF Spec

(***************************************************************************)
(* A question is asked once: no later call changes what was asked or until *)
(* when, and an outcome is final.                                          *)
(***************************************************************************)
THEOREM AskedOnceHolds == Spec => AskedOnce
<1> DEFINE Kept == \A e \in DOMAIN question :
                     /\ question'[e].input = question[e].input
                     /\ question'[e].deadline = question[e].deadline
                     /\ question[e].status \in Resolved => question'[e].status = question[e].status
<1>1. QuestionInv /\ [Next]_vars => Kept
  BY RowSteps, RowsKept DEF Told
<1>2. QuestionInv /\ [Next]_vars => [Kept]_vars
  BY <1>1
<1> QED
  BY <1>2, InitQuestionInv, NextQuestionInv, PTL DEF Spec, AskedOnce

-----------------------------------------------------------------------------
\* The composition: what the operator has been told, and how many messages come.

Users == {p \in DOMAIN inbox : inbox[p] = "user"}
Replies == {p \in DOMAIN inbox : inbox[p] = "reply"}
Others == {p \in DOMAIN inbox : inbox[p] # "reply"}
AnsweredQuestions == {e \in DOMAIN question : Answered(e)}

Places == {"idle", "ask", "choice", "confirm", "decision", "speak", "commit"}
WithUser == {"ask", "choice", "confirm", "decision", "speak"}

SystemTypeOK ==
  /\ inbox \in Seq({"user", "reply", "other"})
  /\ committed \in 0..Len(inbox)
  /\ DOMAIN said \subseteq Nat
  /\ operator \in {Idle} \cup [at : Places \ {"idle"}, choice : Result \cup {None},
                               decision : Result \cup {None}]
  /\ operator # Idle => committed < Len(inbox)
  /\ operator.at \in WithUser => inbox[Message] = "user"

\* Questions are asked for messages of users only, two for each at most;
\* every reply message answers another one.
FewReplies ==
  /\ DOMAIN question \subseteq Users \X {"answer-style", "confirm-style"}
  /\ Cardinality(Replies) = Cardinality(AnsweredQuestions)
  /\ Cardinality(Others) <= MaxMessages

KnowsChoice(p, choice) ==
  /\ AskKey(p) \in DOMAIN question
  /\ question[AskKey(p)].status \in Resolved
  /\ choice = Told(question[AskKey(p)])

KnowsDecision(p, decision) ==
  /\ ConfirmKey(p) \in DOMAIN question
  /\ question[ConfirmKey(p)].status \in Resolved
  /\ decision = Told(question[ConfirmKey(p)])

KnowsBoth(p, choice, decision) ==
  /\ KnowsChoice(p, choice)
  /\ choice.status = "success" => KnowsDecision(p, decision)

\* Ask asks for a style; Confirm asks about a stored choice.
StyleAsked ==
  \A p \in Nat : AskKey(p) \in DOMAIN question => question[AskKey(p)].input = Style

ConfirmFollows ==
  \A p \in Nat : ConfirmKey(p) \in DOMAIN question =>
    /\ AskKey(p) \in DOMAIN question
    /\ question[AskKey(p)].status = "success"
    /\ question[ConfirmKey(p)].input = ConfirmOf[question[AskKey(p)].reply]

\* What the operator holds while it is at work are the stored outcomes.
OperatorKnows ==
  /\ operator.at = "choice" => AskKey(Message) \in DOMAIN question
  /\ operator.at \in {"confirm", "decision"} =>
       KnowsChoice(Message, operator.choice) /\ operator.choice.status = "success"
  /\ operator.at = "decision" => ConfirmKey(Message) \in DOMAIN question
  /\ operator.at = "speak" => KnowsBoth(Message, operator.choice, operator.decision)
  /\ operator.at = "commit" /\ inbox[Message] = "user" => Message \in DOMAIN said

SaidIsKnown ==
  \A p \in DOMAIN said : KnowsBoth(p, said[p].choice, said[p].decision)

SaidBeforeConsumed ==
  \A p \in 1..committed : inbox[p] = "user" => p \in DOMAIN said

\* Inductive, with QuestionInv: what SummaryTellsOutcome says and what it needs.
SystemInv ==
  /\ SystemTypeOK /\ FewReplies
  /\ StyleAsked /\ ConfirmFollows /\ OperatorKnows /\ SaidIsKnown /\ SaidBeforeConsumed

\* The operator's summary follows from what it knew.
LEMMA SummaryFromKnown ==
  ASSUME SystemInv PROVE SummaryTellsOutcome
<1>1. ASSUME NEW p \in DOMAIN said
      PROVE  LET ask == question[AskKey(p)]
                 confirm == question[ConfirmKey(p)]
             IN /\ ask.status \in Resolved
                /\ said[p].choice = Told(ask)
                /\ IF ask.status = "success"
                   THEN /\ confirm.input = ConfirmOf[ask.reply]
                        /\ confirm.status \in Resolved
                        /\ said[p].decision = Told(confirm)
                   ELSE ConfirmKey(p) \notin DOMAIN question
  <2>1. KnowsBoth(p, said[p].choice, said[p].decision) /\ p \in Nat
    BY DEF SystemInv, SystemTypeOK, SaidIsKnown
  <2>2. said[p].choice.status = question[AskKey(p)].status
    BY <2>1 DEF KnowsBoth, KnowsChoice, Told
  <2>3. CASE question[AskKey(p)].status = "success"
    BY <2>1, <2>2, <2>3 DEF KnowsBoth, KnowsChoice, KnowsDecision, SystemInv, ConfirmFollows
  <2>4. CASE question[AskKey(p)].status # "success"
    BY <2>1, <2>4 DEF KnowsBoth, KnowsChoice, SystemInv, ConfirmFollows
  <2> QED
    BY <2>3, <2>4
<1> QED
  BY <1>1 DEF SummaryTellsOutcome, SystemInv, SaidBeforeConsumed

\* An interval from 1 has as many elements as its bound.
LEMMA IntervalSize ==
  ASSUME NEW n \in Nat PROVE IsFiniteSet(1..n) /\ Cardinality(1..n) = n
<1>1. 1 \in Int /\ n \in Int
  OBVIOUS
<1>2. IsFiniteSet(1..n) /\ Cardinality(1..n) = IF 1 > n THEN 0 ELSE n - 1 + 1
  BY <1>1, FS_Interval
<1> QED
  BY <1>2

\* A pair has two elements at most.
LEMMA PairSize ==
  ASSUME NEW a, NEW b PROVE IsFiniteSet({a, b}) /\ Cardinality({a, b}) <= 2
<1>1. IsFiniteSet({a}) /\ Cardinality({a}) = 1
  BY FS_Singleton
<1>2. /\ IsFiniteSet({a} \cup {b})
      /\ Cardinality({a} \cup {b}) = IF b \in {a} THEN Cardinality({a}) ELSE Cardinality({a}) + 1
  BY <1>1, FS_AddElement
<1>3. {a} \cup {b} = {a, b}
  OBVIOUS
<1> QED
  BY <1>1, <1>2, <1>3

\* A message that is being handled is among those the bounds allow for.
LEMMA InboxBound ==
  ASSUME SystemInv PROVE Len(inbox) <= 3 * MaxMessages
<1> USE DEF SystemInv, SystemTypeOK, FewReplies
<1> DEFINE Kinds == {"answer-style", "confirm-style"}
<1>1. DOMAIN inbox = 1..Len(inbox) /\ Len(inbox) \in Nat
  OBVIOUS
<1>2. IsFiniteSet(DOMAIN inbox) /\ Cardinality(DOMAIN inbox) = Len(inbox)
  BY <1>1, IntervalSize
<1>3. /\ IsFiniteSet(Replies) /\ IsFiniteSet(Others) /\ IsFiniteSet(Users)
      /\ Cardinality(Users) <= Cardinality(Others)
  <2>1. IsFiniteSet(Others) /\ IsFiniteSet(Replies)
    BY <1>2, FS_Subset DEF Others, Replies
  <2>2. Users \subseteq Others
    BY DEF Users, Others
  <2> QED
    BY <2>1, <2>2, FS_Subset
<1>4. IsFiniteSet(Kinds) /\ Cardinality(Kinds) <= 2
  BY PairSize
<1>5. IsFiniteSet(Users \X Kinds) /\ Cardinality(Users \X Kinds) = Cardinality(Users) * Cardinality(Kinds)
  BY <1>3, <1>4, FS_Product
<1>6. Cardinality(AnsweredQuestions) <= Cardinality(Users \X Kinds)
  <2>1. AnsweredQuestions \subseteq Users \X Kinds
    BY DEF AnsweredQuestions
  <2> QED
    BY <1>5, <2>1, FS_Subset
<1>7. DOMAIN inbox = Replies \cup Others /\ Replies \cap Others = {}
  BY DEF Replies, Others
<1>8. Len(inbox) = Cardinality(Replies) + Cardinality(Others)
  <2>1. Cardinality(Replies \cup Others)
          = Cardinality(Replies) + Cardinality(Others) - Cardinality(Replies \cap Others)
    BY <1>3, FS_Union
  <2>2. Cardinality(Replies) \in Nat /\ Cardinality(Others) \in Nat
    BY <1>3, FS_CardinalityType
  <2>3. Cardinality(Replies \cap Others) = 0
    BY <1>7, FS_EmptySet
  <2>4. Cardinality(Replies \cup Others) = Cardinality(Replies) + Cardinality(Others)
    BY <2>1, <2>2, <2>3
  <2> QED
    BY <1>2, <1>7, <2>4
<1>9. /\ Cardinality(Users) \in Nat /\ Cardinality(Kinds) \in Nat /\ Cardinality(Others) \in Nat
      /\ Cardinality(Replies) \in Nat
  BY <1>3, <1>4, FS_CardinalityType
<1>10. Cardinality(Users) * Cardinality(Kinds) <= 2 * MaxMessages
  <2>1. Cardinality(Kinds) \in {0, 1, 2}
    BY <1>4, <1>9
  <2>2. Cardinality(Users) <= MaxMessages /\ MaxMessages \in Nat
    BY <1>3, <1>9, InteractionAssumption
  <2> QED
    BY <1>9, <2>1, <2>2
<1> QED
  BY <1>5, <1>6, <1>8, <1>9, <1>10, InteractionAssumption

\* The questions of the message at hand are among those there are keys for.
LEMMA KeysOfMessage ==
  ASSUME SystemInv, operator # Idle
  PROVE  /\ Message \in DOMAIN inbox
         /\ AskKey(Message) \in Effect /\ ConfirmKey(Message) \in Effect
<1>1. Message \in 1..Len(inbox) /\ Len(inbox) \in Nat
  BY DEF SystemInv, SystemTypeOK, Message
<1>2. Message \in 1..(3 * MaxMessages)
  BY <1>1, InboxBound, InteractionAssumption
<1> QED
  BY <1>1, <1>2, EffectAssumption DEF SystemInv, SystemTypeOK

\* Confirm has a question for the choice at hand.
LEMMA ChoiceIsConfirmable ==
  ASSUME QuestionInv, SystemInv, operator.at = "confirm"
  PROVE  operator.choice.reply \in DOMAIN ConfirmOf
<1> DEFINE ask == question[AskKey(Message)]
<1>1. /\ AskKey(Message) \in DOMAIN question
      /\ operator.choice = Told(ask) /\ operator.choice.status = "success"
  BY DEF SystemInv, OperatorKnows, KnowsChoice
<1>2. RowAgrees(ask)
  BY <1>1 DEF QuestionInv, RowsAgree
<1>3. ask.input = Style
  BY <1>1 DEF SystemInv, SystemTypeOK, StyleAsked, Message
<1> QED
  BY <1>1, <1>2, <1>3, InteractionAssumption DEF Told, RowAgrees, ReplyFits

(***************************************************************************)
(* Every step of the composition is one of HumanQuestion or leaves the     *)
(* questions alone.                                                        *)
(***************************************************************************)
LEMMA SystemStepIsQuestionStep ==
  ASSUME QuestionInv, SystemInv, [SystemNext]_system
  PROVE  [Next]_vars
<1>0. Idle.at = "idle"
  BY DEF Idle
<1>1. ASSUME NEW s \in Replica, Ask(s) PROVE Next
  <2>1. Create(AskKey(Message), Style, s) /\ AskKey(Message) \in Effect
    BY <1>0, <1>1, KeysOfMessage DEF Ask
  <2> QED
    BY <2>1, InteractionAssumption DEF Next
<1>2. ASSUME NEW s \in Replica, GetChoice(s) PROVE Next
  <2>1. Get(AskKey(Message), s) /\ AskKey(Message) \in Effect
    BY <1>0, <1>2, KeysOfMessage DEF GetChoice
  <2> QED
    BY <2>1 DEF Next
<1>3. ASSUME NEW s \in Replica, Confirm(s) PROVE Next
  <2>1. Create(ConfirmKey(Message), ConfirmOf[operator.choice.reply], s)
    BY <1>3 DEF Confirm
  <2>2. ConfirmKey(Message) \in Effect
    BY <1>0, <1>3, KeysOfMessage DEF Confirm
  <2>3. ConfirmOf[operator.choice.reply] \in Input
    BY <1>3, ChoiceIsConfirmable, InteractionAssumption DEF Confirm
  <2> QED
    BY <2>1, <2>2, <2>3 DEF Next
<1>4. ASSUME NEW s \in Replica, GetDecision(s) PROVE Next
  <2>1. Get(ConfirmKey(Message), s) /\ ConfirmKey(Message) \in Effect
    BY <1>0, <1>4, KeysOfMessage DEF GetDecision
  <2> QED
    BY <2>1 DEF Next
<1>5. ASSUME NEW s \in Replica, SendReply(s) PROVE Next
  <2>1. PICK e \in DOMAIN question, who \in Person, answer \in Answer : Reply(e, who, answer, s)
    BY <1>5 DEF SendReply
  <2>2. e \in Effect
    BY DEF QuestionInv, TypeOK
  <2> QED
    BY <2>1, <2>2 DEF Next
<1>6. ASSUME NEW s \in Replica, Maintenance(s) PROVE Next
  BY <1>6 DEF Maintenance, Next
<1>7. CASE TimePasses
  BY <1>7 DEF TimePasses, Next
<1>8. CASE Receive \/ Speak \/ Commit \/ Stop \/ Post
  BY <1>8 DEF Receive, Speak, Commit, Stop, Post
<1>9. CASE UNCHANGED system
  BY <1>9 DEF system
<1> QED
  BY <1>1, <1>2, <1>3, <1>4, <1>5, <1>6, <1>7, <1>8, <1>9 DEF SystemNext, Reconcile

-----------------------------------------------------------------------------
\* Looking at a row adds none.
LEMMA OldRowAddsNone ==
  ASSUME NEW e, NEW q, OldRow(e, q)
  PROVE  DOMAIN question' = DOMAIN question
  BY PutRow DEF OldRow

\* A new row has what was asked.
LEMMA NewRowIs ==
  ASSUME NEW e, NEW i, NewRow(e, i)
  PROVE  DOMAIN question' = DOMAIN question \cup {e} /\ question'[e].input = i
<1>1. PICK deadline \in Nat :
        Put(e, [input |-> i, deadline |-> deadline, status |-> "pending",
                reply |-> None, revision |-> 1, due |-> TRUE, wake |-> FALSE])
  BY DEF NewRow
<1>2. question'[e] = [input |-> i, deadline |-> deadline, status |-> "pending",
                      reply |-> None, revision |-> 1, due |-> TRUE, wake |-> FALSE]
  BY <1>1 DEF Put
<1>3. DOMAIN question' = DOMAIN question \cup {e}
  BY <1>1 DEF Put
<1> QED
  BY <1>2, <1>3

\* A question is answered by a reply only, and only once.
LEMMA AnsweredOnce ==
  ASSUME QuestionInv, RowStep
  PROVE  \/ replies' = replies /\ AnsweredQuestions' = AnsweredQuestions
         \/ /\ replies' # replies
            /\ \E e \in DOMAIN question \ AnsweredQuestions :
                 AnsweredQuestions' = AnsweredQuestions \cup {e}
<1> USE DEF AnsweredQuestions, Answered
<1>1. CASE NoRow
  BY <1>1 DEF NoRow
<1>2. ASSUME NEW e \in Effect, NEW i \in Input, NewRow(e, i)
      PROVE  replies' = replies /\ AnsweredQuestions' = AnsweredQuestions
  BY <1>2 DEF NewRow, Put
<1>3. ASSUME NEW e \in Effect, NEW q \in Question, OldRow(e, q)
      PROVE  replies' = replies /\ AnsweredQuestions' = AnsweredQuestions
  <2>1. e \in DOMAIN question /\ Looked(e, q) /\ Put(e, q) /\ replies' = replies
    BY <1>3 DEF OldRow
  <2>2. q.status = question[e].status \/ (question[e].status = "pending" /\ q.status = "timeout")
    BY <2>1, LookedAgrees
  <2> QED
    BY <2>1, <2>2 DEF Put
<1>4. ASSUME NEW e \in Effect, NEW status \in {"success", "dismissed"}, NEW answer \in Answer,
             AnsweredRow(e, status, answer)
      PROVE  /\ replies' # replies
             /\ e \in DOMAIN question \ AnsweredQuestions
             /\ AnsweredQuestions' = AnsweredQuestions \cup {e}
  <2> DEFINE q == Resolve(question[e], status, answer)
  <2>1. /\ e \in DOMAIN question /\ question[e].status = "pending" /\ Put(e, q)
        /\ replies' = [replies EXCEPT ![e] = Append(replies[e], answer)]
    BY <1>4 DEF AnsweredRow
  <2>2. q.status = status
    <3>1. question[e] \in Question /\ question[e].revision = 1
      BY <2>1 DEF QuestionInv, TypeOK, RowsAgree, RowAgrees
    <3>2. status \in Resolved /\ answer \in Answer \cup {None}
      BY DEF Resolved
    <3> QED
      BY <3>1, <3>2, ResolveRow
  <2>3. replies'[e] # replies[e]
    <3>1. replies[e] \in Seq(Answer) /\ replies'[e] = Append(replies[e], answer)
      BY <2>1 DEF QuestionInv, TypeOK
    <3>2. Len(replies'[e]) = Len(replies[e]) + 1 /\ Len(replies[e]) \in Nat
      BY <3>1
    <3> QED
      BY <3>2
  <2> HIDE DEF q
  <2> QED
    BY <2>1, <2>2, <2>3 DEF Put
<1> QED
  BY <1>1, <1>2, <1>3, <1>4 DEF RowStep

\* Outcomes that were told stay true.
LEMMA KnowledgeKept ==
  ASSUME QuestionInv, RowStep
  PROVE  /\ \A p, choice : KnowsChoice(p, choice) => KnowsChoice(p, choice)'
         /\ \A p, decision : KnowsDecision(p, decision) => KnowsDecision(p, decision)'
         /\ \A p, choice, decision :
              KnowsBoth(p, choice, decision) => KnowsBoth(p, choice, decision)'
<1>1. ASSUME NEW e \in DOMAIN question, question[e].status \in Resolved
      PROVE  /\ e \in DOMAIN question' /\ question'[e].status \in Resolved
             /\ Told(question'[e]) = Told(question[e])
  BY <1>1, RowsKept DEF Told
<1>2. ASSUME NEW p, NEW choice, KnowsChoice(p, choice) PROVE KnowsChoice(p, choice)'
  <2>1. (AskKey(p))' = AskKey(p)
    BY DEF AskKey
  <2> QED
    BY <1>1, <1>2, <2>1 DEF KnowsChoice, Told
<1>3. ASSUME NEW p, NEW decision, KnowsDecision(p, decision) PROVE KnowsDecision(p, decision)'
  BY <1>1, <1>3 DEF KnowsDecision, Told, ConfirmKey
<1> QED
  BY <1>2, <1>3 DEF KnowsBoth

\* What Ask and Confirm asked stays asked.
LEMMA AskedKept ==
  ASSUME QuestionInv, SystemInv, RowStep, NEW p \in Nat
  PROVE  /\ AskKey(p) \in DOMAIN question => question'[AskKey(p)].input = Style
         /\ ConfirmKey(p) \in DOMAIN question =>
              /\ AskKey(p) \in DOMAIN question'
              /\ question'[AskKey(p)].status = "success"
              /\ question'[ConfirmKey(p)].input = ConfirmOf[question'[AskKey(p)].reply]
<1>1. ASSUME AskKey(p) \in DOMAIN question PROVE question'[AskKey(p)].input = Style
  BY <1>1, RowsKept DEF SystemInv, StyleAsked
<1>2. ASSUME ConfirmKey(p) \in DOMAIN question
      PROVE  /\ AskKey(p) \in DOMAIN question'
             /\ question'[AskKey(p)].status = "success"
             /\ question'[ConfirmKey(p)].input = ConfirmOf[question'[AskKey(p)].reply]
  <2>1. /\ AskKey(p) \in DOMAIN question
        /\ question[AskKey(p)].status = "success"
        /\ question[ConfirmKey(p)].input = ConfirmOf[question[AskKey(p)].reply]
    BY <1>2 DEF SystemInv, ConfirmFollows
  <2>2. Told(question'[AskKey(p)]) = Told(question[AskKey(p)]) /\ AskKey(p) \in DOMAIN question'
    BY <2>1, RowsKept DEF Resolved
  <2>3. question'[ConfirmKey(p)].input = question[ConfirmKey(p)].input
    BY <1>2, RowsKept
  <2> QED
    BY <2>1, <2>2, <2>3 DEF Told
<1> QED
  BY <1>1, <1>2

(***************************************************************************)
(* A step of somebody else, and one that ends Reconcile: people post and   *)
(* reply, maintainers and time go on, the operator stops.                  *)
(***************************************************************************)
Arrives(kind) ==
  /\ inbox' = Append(inbox, kind)
  /\ \/ kind \in {"user", "other"} /\ Cardinality(Others) < MaxMessages
        /\ AnsweredQuestions' = AnsweredQuestions
     \/ kind = "reply" /\ \E e \in DOMAIN question \ AnsweredQuestions :
                            AnsweredQuestions' = AnsweredQuestions \cup {e}

OutsideStep ==
  /\ DOMAIN question' = DOMAIN question
  /\ UNCHANGED <<committed, said>>
  /\ operator' \in {operator, Idle}
  /\ \/ inbox' = inbox /\ AnsweredQuestions' = AnsweredQuestions
     \/ \E kind \in {"user", "reply", "other"} : Arrives(kind)

\* Everything but a step of Reconcile is such a step.
LEMMA OutsideSteps ==
  ASSUME QuestionInv, SystemInv,
         \/ Stop \/ Post \/ TimePasses
         \/ \E s \in Replica : SendReply(s) \/ Maintenance(s)
         \/ UNCHANGED system
  PROVE  OutsideStep /\ RowStep
<1> USE DEF OutsideStep
<1>0. RowStep
  BY SystemStepIsQuestionStep, RowSteps DEF SystemNext
<1>1. ASSUME UNCHANGED vars
      PROVE  DOMAIN question' = DOMAIN question /\ AnsweredQuestions' = AnsweredQuestions
  BY <1>1 DEF vars, AnsweredQuestions, Answered
<1>2. CASE Stop
  BY <1>0, <1>1, <1>2 DEF Stop
<1>3. CASE Post
  BY <1>0, <1>1, <1>3 DEF Post, Arrives, Others
<1>4. CASE TimePasses
  BY <1>0, <1>4 DEF TimePasses, Tick, AnsweredQuestions, Answered
<1>5. ASSUME NEW s \in Replica, SendReply(s) PROVE OutsideStep
  <2>1. PICK e \in DOMAIN question, who \in Person, answer \in Answer : Reply(e, who, answer, s)
    BY <1>5 DEF SendReply
  <2>2. e \in Effect
    BY DEF QuestionInv, TypeOK
  <2>3. DOMAIN question' = DOMAIN question
    <3>1. (\E q : OldRow(e, q)) => DOMAIN question' = DOMAIN question
      BY OldRowAddsNone
    <3>2. ASSUME NEW status, AnsweredRow(e, status, answer) PROVE DOMAIN question' = DOMAIN question
      <4>1. PICK q : Put(e, q)
        BY <3>2 DEF AnsweredRow
      <4>2. DOMAIN question' = DOMAIN question \cup {e}
        BY <4>1, PutRow
      <4> QED
        BY <4>2
    <3> QED
      BY <2>1, <2>2, <3>1, <3>2, ReplyRow
  <2>4. CASE replies' = replies
    BY <1>0, <1>5, <2>3, <2>4, AnsweredOnce DEF SendReply
  <2>5. CASE replies' # replies
    <3>1. Arrives("reply")
      BY <1>0, <1>5, <2>5, AnsweredOnce DEF SendReply, Arrives
    <3> QED
      BY <1>5, <2>3, <3>1 DEF SendReply
  <2> QED
    BY <2>4, <2>5
<1>6. ASSUME NEW s \in Replica, Maintenance(s) PROVE OutsideStep
  <2>1. DOMAIN question' = DOMAIN question
    <3>1. (\E e \in Effect, q \in Question : OldRow(e, q)) => DOMAIN question' = DOMAIN question
      BY OldRowAddsNone
    <3>2. NoRow => DOMAIN question' = DOMAIN question
      BY DEF NoRow
    <3>3. MaintainFails(s) => DOMAIN question' = DOMAIN question
      BY DEF MaintainFails
    <3> QED
      BY <1>6, <3>1, <3>2, <3>3, MaintainRows DEF Maintenance
  <2>2. replies' = replies
    BY <1>6 DEF Maintenance, Maintain, HumanMaintenance, MaintainRow, AcknowledgeHumanWake,
                MaintainFails
  <2> QED
    BY <1>0, <1>6, <2>1, <2>2, AnsweredOnce DEF Maintenance
<1>7. CASE UNCHANGED system
  BY <1>0, <1>1, <1>7 DEF system
<1> QED
  BY <1>0, <1>2, <1>3, <1>4, <1>5, <1>6, <1>7

\* A message that arrives comes last.
LEMMA ArrivesLast ==
  ASSUME SystemInv, NEW kind \in {"user", "reply", "other"}, inbox' = Append(inbox, kind)
  PROVE  /\ inbox' \in Seq({"user", "reply", "other"})
         /\ Len(inbox') = Len(inbox) + 1
         /\ DOMAIN inbox' = DOMAIN inbox \cup {Len(inbox) + 1}
         /\ Len(inbox) + 1 \notin DOMAIN inbox
         /\ inbox'[Len(inbox) + 1] = kind
         /\ \A p \in DOMAIN inbox : inbox'[p] = inbox[p]
<1>1. inbox \in Seq({"user", "reply", "other"}) /\ Len(inbox) \in Nat
  BY DEF SystemInv, SystemTypeOK
<1>2. Len(inbox') = Len(inbox) + 1 /\ inbox' \in Seq({"user", "reply", "other"})
  BY <1>1
<1>3. DOMAIN inbox = 1..Len(inbox) /\ DOMAIN inbox' = 1..(Len(inbox) + 1)
  BY <1>1, <1>2
<1>4. inbox'[Len(inbox) + 1] = kind /\ \A p \in DOMAIN inbox : inbox'[p] = inbox[p]
  BY <1>1, <1>3
<1> QED
  BY <1>1, <1>2, <1>3, <1>4

\* Such steps keep every reply matched with an answered question.
LEMMA OutsideFewReplies ==
  ASSUME QuestionInv, SystemInv, OutsideStep PROVE FewReplies'
<1> USE DEF SystemInv, FewReplies
<1>1. CASE inbox' = inbox /\ AnsweredQuestions' = AnsweredQuestions
  BY <1>1 DEF OutsideStep, Users, Replies, Others
<1>2. ASSUME NEW kind \in {"user", "reply", "other"}, Arrives(kind) PROVE FewReplies'
  <2> DEFINE last == Len(inbox) + 1
  <2>1. /\ DOMAIN inbox' = DOMAIN inbox \cup {last} /\ last \notin DOMAIN inbox
        /\ inbox'[last] = kind /\ \A p \in DOMAIN inbox : inbox'[p] = inbox[p]
    BY <1>2, ArrivesLast DEF Arrives
  <2> HIDE DEF last
  <2>2. DOMAIN question' \subseteq Users' \X {"answer-style", "confirm-style"}
    <3>1. Users \subseteq Users'
      BY <2>1 DEF Users
    <3> QED
      BY <3>1 DEF OutsideStep
  <2>3. IsFiniteSet(DOMAIN inbox)
    <3>1. DOMAIN inbox = 1..Len(inbox) /\ Len(inbox) \in Nat
      BY DEF SystemTypeOK
    <3> QED
      BY <3>1, IntervalSize
  <2>4. IsFiniteSet(Replies) /\ IsFiniteSet(Others) /\ IsFiniteSet(Users)
    <3>1. Replies \subseteq DOMAIN inbox /\ Others \subseteq DOMAIN inbox /\ Users \subseteq DOMAIN inbox
      BY DEF Replies, Others, Users
    <3> QED
      BY <2>3, <3>1, FS_Subset
  <2>5. IsFiniteSet(AnsweredQuestions)
    <3>1. IsFiniteSet({"answer-style", "confirm-style"})
      BY PairSize
    <3>2. IsFiniteSet(Users \X {"answer-style", "confirm-style"})
      BY <2>4, <3>1, FS_Product
    <3>3. AnsweredQuestions \subseteq Users \X {"answer-style", "confirm-style"}
      BY DEF AnsweredQuestions
    <3> QED
      BY <3>2, <3>3, FS_Subset
  <2>6. CASE kind = "reply"
    <3>1. PICK e \in DOMAIN question \ AnsweredQuestions :
            AnsweredQuestions' = AnsweredQuestions \cup {e}
      BY <1>2, <2>6 DEF Arrives
    <3>2. Replies' = Replies \cup {last} /\ last \notin Replies /\ Others' = Others
      BY <2>1, <2>6 DEF Replies, Others
    <3>3. Cardinality(Replies') = Cardinality(Replies) + 1
      BY <2>4, <3>2, FS_AddElement
    <3>4. Cardinality(AnsweredQuestions') = Cardinality(AnsweredQuestions) + 1
      BY <2>5, <3>1, FS_AddElement
    <3> QED
      BY <2>2, <3>2, <3>3, <3>4
  <2>7. CASE kind # "reply"
    <3>1. AnsweredQuestions' = AnsweredQuestions /\ Cardinality(Others) < MaxMessages
      BY <1>2, <2>7 DEF Arrives
    <3>2. Others' = Others \cup {last} /\ last \notin Others /\ Replies' = Replies
      BY <2>1, <2>7 DEF Replies, Others
    <3>3. Cardinality(Others') = Cardinality(Others) + 1
      BY <2>4, <3>2, FS_AddElement
    <3>4. Cardinality(Others) \in Nat /\ MaxMessages \in Nat
      BY <2>4, FS_CardinalityType, InteractionAssumption
    <3> QED
      BY <2>2, <3>1, <3>2, <3>3, <3>4
  <2> QED
    BY <2>6, <2>7
<1> QED
  BY <1>1, <1>2 DEF OutsideStep

\* Nobody else's step changes what the operator knows or has said.
LEMMA OutsideKeeps ==
  ASSUME QuestionInv, SystemInv, RowStep, OutsideStep
  PROVE  SystemInv'
<1> USE DEF SystemInv
<1> DEFINE Grows == /\ inbox' \in Seq({"user", "reply", "other"}) /\ Len(inbox') \in Nat
                    /\ Len(inbox) <= Len(inbox') /\ Len(inbox) \in Nat
                    /\ \A p \in 1..Len(inbox) : inbox'[p] = inbox[p]
<1>1. Grows
  <2>1. inbox \in Seq({"user", "reply", "other"}) /\ DOMAIN inbox = 1..Len(inbox)
    BY DEF SystemTypeOK
  <2>2. CASE inbox' = inbox
    BY <2>1, <2>2
  <2>3. ASSUME NEW kind \in {"user", "reply", "other"}, inbox' = Append(inbox, kind)
        PROVE  Grows
    BY <2>1, <2>3, ArrivesLast
  <2> QED
    BY <2>2, <2>3 DEF OutsideStep, Arrives
<1>2. Idle.at = "idle" /\ Idle = [at |-> "idle"]
  BY DEF Idle
<1>3. committed' = committed /\ said' = said /\ operator' \in {operator, Idle}
  BY DEF OutsideStep
<1>4. SystemTypeOK'
  BY <1>1, <1>2, <1>3 DEF SystemTypeOK, Message, WithUser, Idle, Places
<1>5. FewReplies'
  BY OutsideFewReplies
<1>6. StyleAsked' /\ ConfirmFollows'
  <2>1. DOMAIN question' = DOMAIN question
    BY DEF OutsideStep
  <2>2. StyleAsked'
    BY <2>1, AskedKept DEF StyleAsked, AskKey
  <2>3. ConfirmFollows'
    BY <2>1, AskedKept DEF ConfirmFollows, AskKey, ConfirmKey
  <2> QED
    BY <2>2, <2>3
<1>7. OperatorKnows'
  <2>1. CASE operator' = Idle
    BY <1>2, <2>1 DEF OperatorKnows
  <2>2. CASE operator' = operator /\ operator # Idle
    <3>1. Message' = Message /\ Message \in 1..Len(inbox)
      BY <1>3, <2>2 DEF Message, SystemTypeOK
    <3>2. DOMAIN question' = DOMAIN question
      BY DEF OutsideStep
    <3>3. AskKey(Message)' = AskKey(Message) /\ ConfirmKey(Message)' = ConfirmKey(Message)
      BY <3>1 DEF AskKey, ConfirmKey
    <3>4. KnowsChoice(Message, operator.choice) => KnowsChoice(Message, operator.choice)'
      BY <2>2, <3>1, KnowledgeKept
    <3>5. KnowsBoth(Message, operator.choice, operator.decision)
            => KnowsBoth(Message, operator.choice, operator.decision)'
      BY <2>2, <3>1, KnowledgeKept
    <3>6. inbox'[Message'] = inbox[Message]
      BY <1>1, <3>1
    <3> QED
      BY <1>3, <2>2, <3>1, <3>2, <3>3, <3>4, <3>5, <3>6 DEF OperatorKnows
  <2> QED
    BY <1>3, <2>1, <2>2
<1>8. SaidIsKnown'
  BY <1>3, KnowledgeKept DEF SaidIsKnown
<1>9. SaidBeforeConsumed'
  BY <1>1, <1>3 DEF SaidBeforeConsumed, SystemTypeOK
<1> QED
  BY <1>4, <1>5, <1>6, <1>7, <1>8, <1>9

-----------------------------------------------------------------------------
\* The operator's own steps bring no message and answer no question.
LEMMA ReconcileSteps ==
  ASSUME QuestionInv, SystemInv, Reconcile
  PROVE  /\ RowStep /\ inbox' = inbox /\ AnsweredQuestions' = AnsweredQuestions
         /\ Users' = Users /\ Replies' = Replies /\ Others' = Others
<1>1. RowStep
  BY SystemStepIsQuestionStep, RowSteps DEF SystemNext
<1>2. ASSUME NEW s \in Replica, Ask(s) \/ GetChoice(s) \/ Confirm(s) \/ GetDecision(s)
      PROVE  inbox' = inbox /\ replies' = replies
  BY <1>2 DEF Ask, GetChoice, Confirm, GetDecision, Create, Get
<1>3. inbox' = inbox /\ replies' = replies
  <2>1. CASE Receive \/ Speak \/ Commit
    BY <2>1 DEF Receive, Speak, Commit, vars
  <2> QED
    BY <1>2, <2>1 DEF Reconcile
<1> QED
  BY <1>1, <1>3, AnsweredOnce DEF Users, Replies, Others

\* Receive starts with the next message.
LEMMA ReceiveKeeps ==
  ASSUME QuestionInv, SystemInv, Receive PROVE SystemInv'
<1> USE DEF SystemInv
<1>1. /\ UNCHANGED <<question, inbox, committed, said>>
      /\ Users' = Users /\ Replies' = Replies /\ Others' = Others
      /\ AnsweredQuestions' = AnsweredQuestions
  BY DEF Receive, vars, Users, Replies, Others, AnsweredQuestions, Answered
<1>2. /\ operator' = [at |-> IF inbox[Message] = "user" THEN "ask" ELSE "commit",
                      choice |-> None, decision |-> None]
      /\ Message' = Message /\ committed < Len(inbox)
  BY <1>1 DEF Receive, Message
<1>3. SystemTypeOK'
  BY <1>1, <1>2 DEF SystemTypeOK, Places, WithUser
<1>4. FewReplies'
  BY <1>1 DEF FewReplies
<1>5. StyleAsked' /\ ConfirmFollows'
  BY <1>1 DEF StyleAsked, ConfirmFollows, AskKey, ConfirmKey
<1>6. OperatorKnows'
  BY <1>1, <1>2 DEF OperatorKnows
<1>7. SaidIsKnown' /\ SaidBeforeConsumed'
  BY <1>1 DEF SaidIsKnown, SaidBeforeConsumed, KnowsBoth, KnowsChoice, KnowsDecision,
              AskKey, ConfirmKey, Told
<1> QED
  BY <1>3, <1>4, <1>5, <1>6, <1>7

\* What a step on the message at hand keeps, whatever it asks or finds.
LEMMA AtWorkKeeps ==
  ASSUME QuestionInv, SystemInv, RowStep, UNCHANGED <<inbox, committed, said>>
  PROVE  /\ Message' = Message
         /\ AskKey(Message)' = AskKey(Message) /\ ConfirmKey(Message)' = ConfirmKey(Message)
         /\ SaidIsKnown' /\ SaidBeforeConsumed'
<1>1. SaidIsKnown'
  BY KnowledgeKept DEF SystemInv, SaidIsKnown
<1>2. SaidBeforeConsumed'
  BY DEF SystemInv, SaidBeforeConsumed
<1> QED
  BY <1>1, <1>2 DEF Message, AskKey, ConfirmKey

\* Ask makes the first question of a user's message, or finds it.
LEMMA AskKeeps ==
  ASSUME QuestionInv, SystemInv, NEW s \in Replica, Ask(s) PROVE SystemInv'
<1> USE DEF SystemInv
<1>0. Reconcile
  BY DEF Reconcile
<1>1. /\ Create(AskKey(Message), Style, s) /\ operator.at = "ask"
      /\ operator' = [operator EXCEPT !.at = "choice"]
      /\ UNCHANGED <<inbox, committed, said>>
  BY DEF Ask, Goto
<1>2. operator \in [at : Places \ {"idle"}, choice : Result \cup {None}, decision : Result \cup {None}]
  BY <1>1 DEF SystemTypeOK, Idle
<1>3. Message \in DOMAIN inbox /\ AskKey(Message) \in Effect /\ inbox[Message] = "user"
  BY <1>1, KeysOfMessage DEF Idle, SystemTypeOK, WithUser
<1> DEFINE Made == /\ DOMAIN question' = DOMAIN question \cup {AskKey(Message)}
                   /\ question'[AskKey(Message)].input = Style
<1>4. Made
  <2>1. CASE NewRow(AskKey(Message), Style)
    BY <2>1, NewRowIs
  <2>2. ASSUME NEW q \in Question, question[AskKey(Message)].input = Style, OldRow(AskKey(Message), q)
        PROVE  Made
    <3>1. DOMAIN question' = DOMAIN question \cup {AskKey(Message)}
      BY <2>2, PutRow DEF OldRow
    <3>2. AskKey(Message) \in DOMAIN question
      BY <2>2 DEF OldRow
    <3>3. question'[AskKey(Message)].input = question[AskKey(Message)].input
      BY <1>0, <3>2, ReconcileSteps, RowsKept
    <3> QED
      BY <2>2, <3>1, <3>3
  <2> QED
    BY <1>1, <1>3, <2>1, <2>2, CreateRow, InteractionAssumption
<1>5. SystemTypeOK'
  BY <1>1, <1>2 DEF SystemTypeOK, Places, WithUser, Message, Idle
<1>6. FewReplies'
  BY <1>0, <1>3, <1>4, ReconcileSteps DEF FewReplies, Users, AskKey
<1>7. StyleAsked'
  BY <1>0, <1>4, ReconcileSteps, AskedKept DEF StyleAsked, AskKey
<1>8. ConfirmFollows'
  BY <1>0, <1>4, ReconcileSteps, AskedKept DEF ConfirmFollows, AskKey, ConfirmKey
<1>9. operator'.at = "choice"
  BY <1>1, <1>2
<1>10. OperatorKnows'
  BY <1>0, <1>1, <1>4, <1>9, ReconcileSteps, AtWorkKeeps DEF OperatorKnows
<1> QED
  BY <1>0, <1>1, <1>5, <1>6, <1>7, <1>8, <1>10, ReconcileSteps, AtWorkKeeps

\* A step of Reconcile that makes no question keeps what was asked.
LEMMA QuietKeeps ==
  ASSUME QuestionInv, SystemInv, Reconcile, DOMAIN question' = DOMAIN question
  PROVE  FewReplies' /\ StyleAsked' /\ ConfirmFollows'
<1>1. FewReplies'
  BY ReconcileSteps DEF SystemInv, FewReplies
<1>2. StyleAsked'
  BY ReconcileSteps, AskedKept DEF StyleAsked, AskKey
<1>3. ConfirmFollows'
  BY ReconcileSteps, AskedKept DEF ConfirmFollows, AskKey, ConfirmKey
<1> QED
  BY <1>1, <1>2, <1>3

\* Get makes no question and returns the stored outcome.
LEMMA GetTells ==
  ASSUME QuestionInv, SystemInv, NEW e, NEW s \in Replica, Get(e, s),
         GetChoice(s) \/ GetDecision(s)
  PROVE  /\ DOMAIN question' = DOMAIN question /\ e \in DOMAIN question
         /\ \A told \in Outcome(e) :
              /\ told = Told(question'[e]) /\ told.status = question'[e].status
              /\ question'[e].status \in Resolved /\ told \in Result
<1>1. e \in DOMAIN question /\ \E q \in Question : OldRow(e, q)
  BY AccessRow DEF Get, Access
<1>2. DOMAIN question' = DOMAIN question
  BY <1>1, OldRowAddsNone
<1>3. Reconcile
  BY DEF Reconcile
<1>4. question'[e] \in Question
  BY <1>1, <1>2, <1>3, ReconcileSteps, WrittenRow
<1> QED
  BY <1>1, <1>2, <1>4 DEF Outcome, Told, Result, Question

\* The operator takes the choice that is stored, and goes on only with one.
LEMMA GetChoiceKeeps ==
  ASSUME QuestionInv, SystemInv, NEW s \in Replica, GetChoice(s) PROVE SystemInv'
<1> USE DEF SystemInv
<1>0. Reconcile
  BY DEF Reconcile
<1>1. /\ Get(AskKey(Message), s) /\ operator.at = "choice"
      /\ UNCHANGED <<inbox, committed, said>>
  BY DEF GetChoice
<1>2. operator \in [at : Places \ {"idle"}, choice : Result \cup {None}, decision : Result \cup {None}]
  BY <1>1 DEF SystemTypeOK, Idle
<1>3. DOMAIN question' = DOMAIN question
  BY <1>1, GetTells
<1>4. FewReplies' /\ StyleAsked' /\ ConfirmFollows'
  BY <1>0, <1>3, QuietKeeps
<1>5. /\ Message' = Message /\ AskKey(Message)' = AskKey(Message)
      /\ SaidIsKnown' /\ SaidBeforeConsumed'
  BY <1>0, <1>1, ReconcileSteps, AtWorkKeeps
<1>6. CASE operator' = Idle
  BY <1>1, <1>4, <1>5, <1>6 DEF SystemTypeOK, OperatorKnows, Idle, WithUser
<1>7. ASSUME NEW choice \in Outcome(AskKey(Message)),
             operator' = [operator EXCEPT
                !.choice = choice, !.at = IF choice.status = "success" THEN "confirm" ELSE "speak"]
      PROVE  SystemInv'
  <2>1. /\ choice = Told(question'[AskKey(Message)])
        /\ question'[AskKey(Message)].status \in Resolved
        /\ choice \in Result /\ AskKey(Message) \in DOMAIN question'
    BY <1>1, <1>3, GetTells
  <2>2. operator'.choice = choice
        /\ operator'.at = IF choice.status = "success" THEN "confirm" ELSE "speak"
    BY <1>2, <1>7
  <2>3. KnowsChoice(Message, operator.choice)'
    BY <1>5, <2>1, <2>2 DEF KnowsChoice, Told
  <2>4. OperatorKnows'
    BY <2>2, <2>3 DEF OperatorKnows, KnowsBoth
  <2>5. operator' \in [at : Places \ {"idle"}, choice : Result \cup {None},
                       decision : Result \cup {None}]
    BY <1>2, <1>7, <2>1 DEF Places
  <2>6. operator # Idle /\ inbox[Message] = "user"
    BY <1>1 DEF SystemTypeOK, Idle, WithUser
  <2>7. SystemTypeOK'
    BY <1>1, <1>5, <2>5, <2>6 DEF SystemTypeOK
  <2> QED
    BY <1>4, <1>5, <2>4, <2>7
<1> QED
  BY <1>6, <1>7 DEF GetChoice

\* Confirm asks about the stored choice.
LEMMA ConfirmKeeps ==
  ASSUME QuestionInv, SystemInv, NEW s \in Replica, Confirm(s) PROVE SystemInv'
<1> USE DEF SystemInv
<1> DEFINE asked == ConfirmOf[operator.choice.reply]
<1>0. Reconcile
  BY DEF Reconcile
<1>1. /\ Create(ConfirmKey(Message), asked, s) /\ operator.at = "confirm"
      /\ operator' = [operator EXCEPT !.at = "decision"]
      /\ UNCHANGED <<inbox, committed, said>>
  BY DEF Confirm, Goto
<1>2. operator \in [at : Places \ {"idle"}, choice : Result \cup {None}, decision : Result \cup {None}]
  BY <1>1 DEF SystemTypeOK, Idle
<1>3. /\ Message \in DOMAIN inbox /\ inbox[Message] = "user"
      /\ ConfirmKey(Message) \in Effect /\ asked \in Input
  BY <1>1, KeysOfMessage, ChoiceIsConfirmable, InteractionAssumption DEF Idle, SystemTypeOK, WithUser
<1>4. /\ Message' = Message
      /\ AskKey(Message)' = AskKey(Message) /\ ConfirmKey(Message)' = ConfirmKey(Message)
      /\ SaidIsKnown' /\ SaidBeforeConsumed'
  BY <1>0, <1>1, ReconcileSteps, AtWorkKeeps
<1>5. KnowsChoice(Message, operator.choice) /\ operator.choice.status = "success"
  BY <1>1 DEF OperatorKnows
<1>6. /\ AskKey(Message) \in DOMAIN question'
      /\ question'[AskKey(Message)].status = "success"
      /\ operator.choice = Told(question'[AskKey(Message)])
      /\ operator.choice.reply = question'[AskKey(Message)].reply
  <2>1. Told(question'[AskKey(Message)]) = Told(question[AskKey(Message)])
        /\ AskKey(Message) \in DOMAIN question'
    BY <1>0, <1>5, ReconcileSteps, RowsKept DEF KnowsChoice
  <2> QED
    BY <1>5, <2>1 DEF KnowsChoice, Told
<1> DEFINE Made == /\ DOMAIN question' = DOMAIN question \cup {ConfirmKey(Message)}
                   /\ question'[ConfirmKey(Message)].input = asked
<1>7. Made
  <2>1. CASE NewRow(ConfirmKey(Message), asked)
    BY <2>1, NewRowIs
  <2>2. ASSUME NEW q \in Question, question[ConfirmKey(Message)].input = asked,
               OldRow(ConfirmKey(Message), q)
        PROVE  Made
    <3>1. DOMAIN question' = DOMAIN question \cup {ConfirmKey(Message)}
      BY <2>2, PutRow DEF OldRow
    <3>2. ConfirmKey(Message) \in DOMAIN question
      BY <2>2 DEF OldRow
    <3>3. question'[ConfirmKey(Message)].input = question[ConfirmKey(Message)].input
      BY <1>0, <3>2, ReconcileSteps, RowsKept
    <3> QED
      BY <2>2, <3>1, <3>3
  <2> QED
    BY <1>1, <1>3, <2>1, <2>2, CreateRow
<1>8. SystemTypeOK'
  BY <1>1, <1>2, <1>4 DEF SystemTypeOK, Places, WithUser, Idle
<1>9. FewReplies'
  BY <1>0, <1>3, <1>7, ReconcileSteps DEF FewReplies, Users, ConfirmKey
<1>10. StyleAsked'
  BY <1>0, <1>7, ReconcileSteps, AskedKept DEF StyleAsked, AskKey, ConfirmKey
<1>11. ConfirmFollows'
  <2>1. ASSUME NEW p \in Nat, ConfirmKey(p) \in DOMAIN question'
        PROVE  /\ AskKey(p) \in DOMAIN question'
               /\ question'[AskKey(p)].status = "success"
               /\ question'[ConfirmKey(p)].input = ConfirmOf[question'[AskKey(p)].reply]
    <3>1. CASE ConfirmKey(p) \in DOMAIN question
      BY <1>0, <3>1, ReconcileSteps, AskedKept
    <3>2. CASE p = Message
      BY <1>6, <1>7, <3>2
    <3> QED
      BY <1>7, <2>1, <3>1, <3>2 DEF ConfirmKey
  <2> QED
    BY <2>1 DEF ConfirmFollows, AskKey, ConfirmKey
<1>12. OperatorKnows'
  <2>1. operator'.at = "decision" /\ operator'.choice = operator.choice
    BY <1>1, <1>2
  <2>2. KnowsChoice(Message, operator.choice)'
    BY <1>4, <1>6, <2>1 DEF KnowsChoice, Resolved, Told
  <2> QED
    BY <1>4, <1>5, <1>7, <2>1, <2>2 DEF OperatorKnows
<1> QED
  BY <1>4, <1>8, <1>9, <1>10, <1>11, <1>12

\* The operator takes the decision that is stored.
LEMMA GetDecisionKeeps ==
  ASSUME QuestionInv, SystemInv, NEW s \in Replica, GetDecision(s) PROVE SystemInv'
<1> USE DEF SystemInv
<1>0. Reconcile
  BY DEF Reconcile
<1>1. /\ Get(ConfirmKey(Message), s) /\ operator.at = "decision"
      /\ UNCHANGED <<inbox, committed, said>>
  BY DEF GetDecision
<1>2. operator \in [at : Places \ {"idle"}, choice : Result \cup {None}, decision : Result \cup {None}]
  BY <1>1 DEF SystemTypeOK, Idle
<1>3. DOMAIN question' = DOMAIN question
  BY <1>1, GetTells
<1>4. FewReplies' /\ StyleAsked' /\ ConfirmFollows'
  BY <1>0, <1>3, QuietKeeps
<1>5. /\ Message' = Message /\ ConfirmKey(Message)' = ConfirmKey(Message)
      /\ SaidIsKnown' /\ SaidBeforeConsumed'
  BY <1>0, <1>1, ReconcileSteps, AtWorkKeeps
<1>6. CASE operator' = Idle
  BY <1>1, <1>4, <1>5, <1>6 DEF SystemTypeOK, OperatorKnows, Idle, WithUser
<1>7. ASSUME NEW decision \in Outcome(ConfirmKey(Message)),
             operator' = [operator EXCEPT !.decision = decision, !.at = "speak"]
      PROVE  SystemInv'
  <2>1. /\ decision = Told(question'[ConfirmKey(Message)])
        /\ question'[ConfirmKey(Message)].status \in Resolved
        /\ decision \in Result /\ ConfirmKey(Message) \in DOMAIN question'
    BY <1>1, <1>3, GetTells
  <2>2. /\ operator'.choice = operator.choice /\ operator'.decision = decision
        /\ operator'.at = "speak"
    BY <1>2, <1>7
  <2>3. KnowsDecision(Message, operator.decision)'
    BY <1>5, <2>1, <2>2 DEF KnowsDecision, Told
  <2>4. KnowsChoice(Message, operator.choice)'
    <3>1. KnowsChoice(Message, operator.choice)
      BY <1>1 DEF OperatorKnows
    <3> QED
      BY <1>0, <1>5, <2>2, <3>1, ReconcileSteps, KnowledgeKept
  <2>5. OperatorKnows'
    BY <2>2, <2>3, <2>4 DEF OperatorKnows, KnowsBoth
  <2>6. operator' \in [at : Places \ {"idle"}, choice : Result \cup {None},
                       decision : Result \cup {None}]
    BY <1>2, <1>7, <2>1 DEF Places
  <2>7. operator # Idle /\ inbox[Message] = "user"
    BY <1>1 DEF SystemTypeOK, Idle, WithUser
  <2>8. SystemTypeOK'
    BY <1>1, <1>5, <2>6, <2>7 DEF SystemTypeOK
  <2> QED
    BY <1>4, <1>5, <2>5, <2>8
<1> QED
  BY <1>6, <1>7 DEF GetDecision

\* A summary that is spoken says what the operator knows; one that was stays.
LEMMA SpeakKeeps ==
  ASSUME QuestionInv, SystemInv, Speak PROVE SystemInv'
<1> USE DEF SystemInv
<1>0. Reconcile
  BY DEF Reconcile
<1>1. /\ operator.at = "speak" /\ operator' = [operator EXCEPT !.at = "commit"]
      /\ UNCHANGED <<question, inbox, committed>>
      /\ said' = [p \in DOMAIN said \cup {Message} |->
                    IF p \in DOMAIN said THEN said[p]
                    ELSE [choice |-> operator.choice, decision |-> operator.decision]]
  BY DEF Speak, Goto, vars
<1>2. operator \in [at : Places \ {"idle"}, choice : Result \cup {None}, decision : Result \cup {None}]
  BY <1>1 DEF SystemTypeOK, Idle
<1>3. FewReplies' /\ StyleAsked' /\ ConfirmFollows'
  BY <1>0, <1>1, QuietKeeps
<1>4. SystemTypeOK'
  <2>1. operator' \in [at : Places \ {"idle"}, choice : Result \cup {None},
                       decision : Result \cup {None}]
    BY <1>1, <1>2 DEF Places
  <2>2. operator'.at = "commit" /\ operator # Idle
    BY <1>1, <1>2 DEF Idle
  <2>3. DOMAIN said' \subseteq Nat
    BY <1>1 DEF SystemTypeOK, Message
  <2> QED
    BY <1>1, <2>1, <2>2, <2>3 DEF SystemTypeOK, WithUser
<1>5. \A p, choice, decision : KnowsBoth(p, choice, decision) => KnowsBoth(p, choice, decision)'
  BY <1>0, ReconcileSteps, KnowledgeKept
<1>6. SaidIsKnown'
  <2>1. ASSUME NEW p \in DOMAIN said' PROVE KnowsBoth(p, said'[p].choice, said'[p].decision)
    <3>1. CASE p \in DOMAIN said
      BY <1>1, <3>1 DEF SaidIsKnown
    <3>2. CASE p \notin DOMAIN said
      <4>1. p = Message /\ said'[p].choice = operator.choice /\ said'[p].decision = operator.decision
        BY <1>1, <2>1, <3>2
      <4> QED
        BY <1>1, <4>1 DEF OperatorKnows
    <3> QED
      BY <3>1, <3>2
  <2> QED
    BY <1>5, <2>1 DEF SaidIsKnown
<1>7. OperatorKnows'
  BY <1>1, <1>2 DEF OperatorKnows, Message
<1>8. SaidBeforeConsumed'
  BY <1>1 DEF SaidBeforeConsumed
<1> QED
  BY <1>3, <1>4, <1>6, <1>7, <1>8

\* What is consumed has its summary, or needs none.
LEMMA CommitKeeps ==
  ASSUME QuestionInv, SystemInv, Commit PROVE SystemInv'
<1> USE DEF SystemInv
<1>0. Reconcile
  BY DEF Reconcile
<1>1. /\ operator.at = "commit" /\ operator' = Idle /\ committed' = Message
      /\ UNCHANGED <<question, inbox, said>>
  BY DEF Commit, vars
<1>2. FewReplies' /\ StyleAsked' /\ ConfirmFollows'
  BY <1>0, <1>1, QuietKeeps
<1>3. operator # Idle /\ Idle.at = "idle" /\ committed \in 0..Len(inbox) /\ Len(inbox) \in Nat
  BY <1>1 DEF Idle, SystemTypeOK
<1>4. SystemTypeOK'
  BY <1>1, <1>3 DEF SystemTypeOK, WithUser, Message
<1>5. OperatorKnows'
  BY <1>1, <1>3 DEF OperatorKnows
<1>6. SaidIsKnown'
  BY <1>0, <1>1, ReconcileSteps, KnowledgeKept DEF SaidIsKnown
<1>7. SaidBeforeConsumed'
  BY <1>1, <1>3 DEF SaidBeforeConsumed, OperatorKnows, Message
<1> QED
  BY <1>2, <1>4, <1>5, <1>6, <1>7

-----------------------------------------------------------------------------
\* QuestionInv and SystemInv are inductive together.
LEMMA InitSystemInv == SystemInit => QuestionInv /\ SystemInv
<1> SUFFICES ASSUME SystemInit PROVE QuestionInv /\ SystemInv
  OBVIOUS
<1>1. QuestionInv
  BY InitQuestionInv DEF SystemInit
<1>2. /\ question = <<>> /\ DOMAIN question = {} /\ inbox = <<>> /\ committed = 0
      /\ said = <<>> /\ DOMAIN said = {} /\ operator = Idle /\ Idle.at = "idle"
  BY DEF SystemInit, Init, Idle
<1>3. SystemTypeOK
  BY <1>2 DEF SystemTypeOK, WithUser
<1>4. FewReplies
  <2>1. Replies = {} /\ Others = {} /\ AnsweredQuestions = {}
    BY <1>2 DEF Replies, Others, AnsweredQuestions
  <2> QED
    BY <1>2, <2>1, FS_EmptySet, InteractionAssumption DEF FewReplies
<1>5. StyleAsked /\ ConfirmFollows /\ OperatorKnows /\ SaidIsKnown /\ SaidBeforeConsumed
  BY <1>2 DEF StyleAsked, ConfirmFollows, OperatorKnows, SaidIsKnown, SaidBeforeConsumed
<1> QED
  BY <1>1, <1>3, <1>4, <1>5 DEF SystemInv

\* Every step keeps both.
LEMMA NextSystemInv ==
  QuestionInv /\ SystemInv /\ [SystemNext]_system => QuestionInv' /\ SystemInv'
<1> SUFFICES ASSUME QuestionInv, SystemInv, [SystemNext]_system
             PROVE  QuestionInv' /\ SystemInv'
  OBVIOUS
<1>1. QuestionInv'
  BY SystemStepIsQuestionStep, NextQuestionInv
<1>2. CASE Reconcile
  BY <1>1, <1>2, ReceiveKeeps, AskKeeps, GetChoiceKeeps, ConfirmKeeps, GetDecisionKeeps,
     SpeakKeeps, CommitKeeps DEF Reconcile
<1>3. CASE ~Reconcile
  BY <1>1, <1>3, OutsideSteps, OutsideKeeps DEF SystemNext
<1> QED
  BY <1>1, <1>2, <1>3

(***************************************************************************)
(* With an operator that asks, people who answer and post, maintainers and *)
(* crashes, the questions still behave as HumanQuestion alone says: the    *)
(* composition implements it.                                              *)
(***************************************************************************)
THEOREM InteractionImplementsHumanQuestion == System => Spec
<1>1. SystemInit => Init
  BY DEF SystemInit
<1>2. QuestionInv /\ SystemInv /\ [SystemNext]_system => [Next]_vars
  BY SystemStepIsQuestionStep
<1> QED
  BY <1>1, <1>2, InitSystemInv, NextSystemInv, PTL DEF System, Spec

(***************************************************************************)
(* So a question of the operator is asked once and has one outcome.        *)
(***************************************************************************)
THEOREM InteractionAsksOnce == System => []OneOutcome /\ AskedOnce
  BY InteractionImplementsHumanQuestion, OneOutcomeHolds, AskedOnceHolds, PTL

(***************************************************************************)
(* The summary of a consumed message tells the stored outcomes, whatever   *)
(* crashed, was repeated, was answered late or expired in between.         *)
(***************************************************************************)
THEOREM SummaryTellsOutcomeHolds == System => []SummaryTellsOutcome
<1>1. SystemInv => SummaryTellsOutcome
  BY SummaryFromKnown
<1> QED
  BY <1>1, InitSystemInv, NextSystemInv, PTL DEF System

(***************************************************************************)
(* A user's message brings two replies at most, so the inbox is bounded.   *)
(***************************************************************************)
THEOREM InboxIsBounded == System => [](Len(inbox) <= 3 * MaxMessages)
<1>1. SystemInv => Len(inbox) <= 3 * MaxMessages
  BY InboxBound
<1> QED
  BY <1>1, InitSystemInv, NextSystemInv, PTL DEF System
=============================================================================
