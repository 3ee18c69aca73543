--------------------------- MODULE HumanQuestion ---------------------------
(***************************************************************************)
(* Questions an Operator puts to a user (Ask, Confirm), each kept in one   *)
(* message (server/internal/repo/human.go, domain/human.go,                *)
(* service/human.go).  Module Interaction composes them with an operator.  *)
(*                                                                         *)
(* Operators create a question again after every restart and poll it;      *)
(* users answer from several pages; maintainers expire it.  Every access   *)
(* runs under the conversation's row lock, so it is one step, and expires  *)
(* the question first.  Replicas' clocks differ by Skew.                   *)
(*                                                                         *)
(* Abstractions.  A question's content is its input, a member of Input; an *)
(* answer (outcome and value) is a member of Answer; Dismissal is the one  *)
(* answer without a value.                                                 *)
(***************************************************************************)
EXTENDS Naturals, Sequences, FiniteSets

CONSTANTS
  Effect,     \* conversation, actor and effect key of a question
  Input,      \* what may be asked under one effect key
  Valid,      \* Valid[i]: the answers input i declares
  Answer, Dismissal,
  Asked,      \* the user the questions are put to
  Person,     \* everybody who may send a reply
  Replica, Skew,
  Timeout,
  MaxClock,   \* bound on time: no question is created whose deadline lies beyond it
  None

ASSUME QuestionAssumption ==
  /\ Valid \in [Input -> SUBSET Answer] /\ Dismissal \in Answer
  /\ \A i \in Input : Dismissal \in Valid[i]
  /\ Asked \in Person /\ None \notin Answer
ASSUME ClockAssumption ==
  /\ Skew \in [Replica -> Nat] /\ Timeout \in Nat \ {0} /\ MaxClock \in Nat

VARIABLES
  clock,
  question, \* the question's row by effect key; a function on the created ones
  replies,  \* the reply messages by effect key
  plan,     \* rows a maintainer has listed and not yet dealt with
  stale,    \* the row the maintainer will acknowledge
  results   \* history: every resolved result ever returned to a caller

vars == <<clock, question, replies, plan, stale, results>>

Resolved == {"success", "dismissed", "timeout"}
Question == [input : Input, deadline : Nat, status : {"pending"} \cup Resolved,
             reply : Answer \cup {None}, revision : {1, 2},
             due : BOOLEAN, wake : BOOLEAN]
Result == [status : Resolved, reply : Answer \cup {None}]

TypeOK ==
  /\ clock \in 0..MaxClock
  /\ DOMAIN question \subseteq Effect
  /\ question \in [DOMAIN question -> Question]
  /\ replies \in [Effect -> Seq(Answer)]
  /\ plan \in [Replica -> SUBSET Effect]
  /\ stale \in [Replica -> {<<>>} \cup (Effect \X {1, 2})]
  /\ results \subseteq Effect \X Result

Init ==
  /\ clock = 0
  /\ question = <<>>
  /\ replies = [e \in Effect |-> <<>>]
  /\ plan = [s \in Replica |-> {}]
  /\ stale = [s \in Replica |-> <<>>]
  /\ results = {}

Now(s) == clock + Skew[s]

\* Mutant of Resolve: HumanDueAt is kept.
ResolveKeepsDue(q, status, answer) ==
  [q EXCEPT !.status = status, !.reply = answer, !.revision = @ + 1, !.wake = TRUE]

\* saveHuman of a resolved question: nothing is due, the wake mark is set.
Resolve(q, status, answer) ==
  [q EXCEPT !.status = status, !.reply = answer, !.revision = @ + 1,
            !.due = FALSE, !.wake = TRUE]

\* Mutant of Expire: a resolved question expires too.
ExpireAny(q, s) ==
  IF Now(s) >= q.deadline THEN Resolve(q, "timeout", None) ELSE q

\* expireHuman: only a pending question whose deadline this clock has reached.
Expire(q, s) ==
  IF q.status = "pending" /\ Now(s) >= q.deadline THEN Resolve(q, "timeout", None) ELSE q

Put(e, q) == question' = [f \in DOMAIN question \cup {e} |-> IF f = e THEN q ELSE question[f]]

\* What the caller is told.
Return(e, q) ==
  results' = results \cup
    {<<e, [status |-> r.status, reply |-> r.reply]>> : r \in {x \in {q} : x.status \in Resolved}}

-----------------------------------------------------------------------------

\* Mutant of Create: every call sets the deadline.
CreateRenews(e, i, s) ==
  /\ Now(s) + Timeout <= MaxClock
  /\ \/ /\ e \notin DOMAIN question
        /\ Put(e, [input |-> i, deadline |-> Now(s) + Timeout, status |-> "pending",
                   reply |-> None, revision |-> 1, due |-> TRUE, wake |-> FALSE])
     \/ /\ e \in DOMAIN question
        /\ question[e].input = i
        /\ Put(e, [question[e] EXCEPT !.deadline = Now(s) + Timeout])
  /\ UNCHANGED <<clock, replies, plan, stale, results>>

\* CreateHuman: the first call fixes input and deadline, later ones find them.
Create(e, i, s) ==
  /\ \/ /\ e \notin DOMAIN question
        /\ Now(s) + Timeout <= MaxClock
        /\ Put(e, [input |-> i, deadline |-> Now(s) + Timeout, status |-> "pending",
                   reply |-> None, revision |-> 1, due |-> TRUE, wake |-> FALSE])
        /\ UNCHANGED results
     \/ /\ e \in DOMAIN question
        /\ question[e].input = i           \* otherwise ErrConflict
        /\ Put(e, Expire(question[e], s))
        /\ Return(e, Expire(question[e], s))
  /\ UNCHANGED <<clock, replies, plan, stale>>

Access(e, s) ==
  /\ Put(e, Expire(question[e], s))
  /\ Return(e, Expire(question[e], s))

\* GetHuman
Get(e, s) ==
  /\ e \in DOMAIN question
  /\ Access(e, s)
  /\ UNCHANGED <<clock, replies, plan, stale>>

\* Mutant of Reply: a late answer replaces a timeout.
ReplyLate(e, who, answer, s) ==
  /\ e \in DOMAIN question
  /\ who = Asked
  /\ answer \in Valid[question[e].input]
  /\ question[e].reply = None
  /\ LET won == Resolve([question[e] EXCEPT !.revision = 1],
                        IF answer = Dismissal THEN "dismissed" ELSE "success", answer)
     IN Put(e, won) /\ Return(e, won)
  /\ replies' = [replies EXCEPT ![e] = Append(@, answer)]
  /\ UNCHANGED <<clock, plan, stale>>

\* Mutant of Reply: the same answer again makes another message.
ReplyTwice(e, who, answer, s) ==
  /\ e \in DOMAIN question
  /\ who = Asked
  /\ answer \in Valid[question[e].input]
  /\ question[e].status = "pending" \/ question[e].reply = answer
  /\ LET won == Resolve([question[e] EXCEPT !.revision = 1],
                        IF answer = Dismissal THEN "dismissed" ELSE "success", answer)
     IN Put(e, won) /\ Return(e, won)
  /\ replies' = [replies EXCEPT ![e] = Append(@, answer)]
  /\ UNCHANGED <<clock, plan, stale>>

(***************************************************************************)
(* ReplyHuman: expiry first, then the first valid answer of the asked user *)
(* wins.  The same answer again finds its result; another or a late one is *)
(* refused, but an expiry it met is kept.                                  *)
(***************************************************************************)
Reply(e, who, answer, s) ==
  /\ e \in DOMAIN question
  /\ who = Asked
  /\ answer \in Valid[question[e].input]
  /\ LET q == Expire(question[e], s)
         won == Resolve(q, IF answer = Dismissal THEN "dismissed" ELSE "success", answer)
     IN \/ /\ q.status = "pending"
           /\ Put(e, won)
           /\ replies' = [replies EXCEPT ![e] = Append(@, answer)]
           /\ Return(e, won)
        \/ /\ q.status # "pending" /\ q.reply = answer
           /\ Put(e, q)
           /\ Return(e, q)
           /\ UNCHANGED replies
        \/ /\ q.status # "pending" /\ q.reply # answer
           /\ Put(e, q)
           /\ UNCHANGED <<replies, results>>
  /\ UNCHANGED <<clock, plan, stale>>

-----------------------------------------------------------------------------
\* HumanService.Maintain of each replica.

Listed(s) ==
  {e \in DOMAIN question :
     question[e].wake \/ (question[e].due /\ question[e].deadline <= Now(s))}

HumanMaintenance(s) ==
  /\ plan[s] = {} /\ stale[s] = <<>>
  /\ Listed(s) # {}
  /\ plan' = [plan EXCEPT ![s] = Listed(s)]
  /\ UNCHANGED <<clock, question, replies, stale, results>>

(***************************************************************************)
(* A listed row is expired (Get, whose result Maintain drops) and read     *)
(* again; its revision is remembered.  Only a reply can come between the   *)
(* two reads, and it may as well come before both.                         *)
(***************************************************************************)
MaintainRow(s, e) ==
  /\ stale[s] = <<>>
  /\ plan' = [plan EXCEPT ![s] = @ \ {e}]
  /\ LET q == Expire(question[e], s) IN
       /\ Put(e, q)
       /\ stale' = [stale EXCEPT ![s] = IF q.wake THEN <<e, q.revision>> ELSE <<>>]
  /\ UNCHANGED <<clock, replies, results>>

\* AcknowledgeHumanWake clears the mark of that revision only.
AcknowledgeHumanWake(s) ==
  /\ stale[s] # <<>>
  /\ LET e == stale[s][1] IN
       question' = [question EXCEPT ![e].wake = @ /\ question[e].revision # stale[s][2]]
  /\ stale' = [stale EXCEPT ![s] = <<>>]
  /\ UNCHANGED <<clock, replies, plan, results>>

\* A statement fails or the replica stops: the rest of the pass is dropped.
MaintainFails(s) ==
  /\ plan[s] # {} \/ stale[s] # <<>>
  /\ plan' = [plan EXCEPT ![s] = {}]
  /\ stale' = [stale EXCEPT ![s] = <<>>]
  /\ UNCHANGED <<clock, question, replies, results>>

Tick ==
  /\ clock < MaxClock
  /\ clock' = clock + 1
  /\ UNCHANGED <<question, replies, plan, stale, results>>

Maintain(s) ==
  \/ HumanMaintenance(s)
  \/ \E e \in plan[s] : MaintainRow(s, e)
  \/ AcknowledgeHumanWake(s)

Next ==
  \/ \E s \in Replica :
       \/ \E e \in Effect :
            \/ \E i \in Input : Create(e, i, s)
            \/ Get(e, s)
            \/ \E who \in Person, answer \in Answer : Reply(e, who, answer, s)
       \/ Maintain(s)
       \/ MaintainFails(s)
  \/ Tick

Spec == Init /\ [][Next]_vars

\* Each replica's maintenance keeps running; a pass may fail, not always.
MaintenanceFairness ==
  \A s \in Replica :
    /\ WF_vars(HumanMaintenance(s))
    /\ SF_vars(\E e \in plan[s] : MaintainRow(s, e))
    /\ SF_vars(AcknowledgeHumanWake(s))

-----------------------------------------------------------------------------
\* Properties.

(***************************************************************************)
(* "When a deadline and an answer compete there is one final state"        *)
(* (repo/human.go): whoever asks, answers or expires, on whichever clock,  *)
(* every caller ever told an outcome was told the same one, the stored     *)
(* one, and the reply message is its answer: a retry adds none, a late or  *)
(* losing answer leaves none behind.                                       *)
(***************************************************************************)
OneOutcome ==
  /\ \A r \in results :
       LET q == question[r[1]] IN r[2] = [status |-> q.status, reply |-> q.reply]
  /\ \A e \in DOMAIN question :
       replies[e] = IF question[e].status \in {"success", "dismissed"}
                    THEN <<question[e].reply>> ELSE <<>>

(***************************************************************************)
(* A question is asked once: creating it again after a restart changes     *)
(* neither what was asked nor the deadline, and reopens nothing.           *)
(***************************************************************************)
AskedOnce ==
  [][\A e \in DOMAIN question :
       /\ question'[e].input = question[e].input
       /\ question'[e].deadline = question[e].deadline
       /\ question[e].status \in Resolved => question'[e].status = question[e].status]_vars

(***************************************************************************)
(* Every question is resolved, at its deadline at the latest, without any  *)
(* client connected, and maintenance is then done with it for good.        *)
(***************************************************************************)
EventuallySettled ==
  <>[](\A e \in DOMAIN question :
         question[e].status \in Resolved /\ ~question[e].due /\ ~question[e].wake)
=============================================================================
