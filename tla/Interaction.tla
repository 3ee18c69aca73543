----------------------------- MODULE Interaction -----------------------------
(***************************************************************************)
(* The Interaction operator (operators/interaction) composed with the      *)
(* questions it puts to a user (module HumanQuestion, whose actions these  *)
(* are).  For a user's message it asks for a choice, asks to confirm it,   *)
(* tells the user what came of both and commits.  It keeps nothing: it     *)
(* reads the message again while a question is open, and after a crash,    *)
(* and finds questions and summary by the keys made from the message.      *)
(*                                                                         *)
(* The replies come back into its own inbox.  Dispatch, which wakes the    *)
(* operator, is module Conversation; here a message can be polled at once, *)
(* and the timer of a pending question may fire at any moment.  A message  *)
(* of a user that cannot be decoded is left out: it would be retried until *)
(* it can be (interact returns its error).                                 *)
(***************************************************************************)
EXTENDS HumanQuestion

CONSTANTS
  Style,        \* what Ask asks: the input under its key
  ConfirmOf,    \* ConfirmOf[c]: what Confirm asks about the choice c
  MaxMessages,  \* bound on messages that are not replies
  MaxFaults     \* bound on crashes, lost answers and failed calls

ASSUME InteractionAssumption ==
  /\ Style \in Input
  /\ ConfirmOf \in [Valid[Style] \ {Dismissal} -> Input \ {Style}]
  /\ {MaxMessages, MaxFaults} \subseteq Nat

VARIABLES
  inbox,      \* messages to the operator, in order: "user", "reply" or "other"
  committed,  \* how far it has consumed them
  said,       \* the summaries it has spoken, by message
  operator,   \* its Reconcile: where it is and what it was told
  faults      \* faults so far

system == <<vars, inbox, committed, said, operator, faults>>

Idle == [at |-> "idle"]

\* The effect keys of a message.
AskKey(p) == <<p, "answer-style">>

\* Mutant of ConfirmKey: both questions have one key.
ConfirmKeyShared(p) == AskKey(p)

ConfirmKey(p) == <<p, "confirm-style">>

\* Every message that can come has its keys: a user's brings two replies at most.
ASSUME EffectAssumption ==
  \A p \in 1..(3 * MaxMessages) : {AskKey(p), ConfirmKey(p)} \subseteq Effect

SystemInit ==
  /\ Init
  /\ inbox = <<>>
  /\ committed = 0
  /\ said = <<>>
  /\ operator = Idle
  /\ faults = 0

-----------------------------------------------------------------------------
\* Reconcile.

\* A user's utterance starts an interaction; anything else is just consumed.
Receive ==
  /\ operator = Idle
  /\ committed < Len(inbox)
  /\ operator' = [at |-> IF inbox[committed + 1] = "user" THEN "ask" ELSE "commit",
                  choice |-> None, decision |-> None]
  /\ UNCHANGED <<vars, inbox, committed, said, faults>>

Message == committed + 1
Goto(place) == operator' = [operator EXCEPT !.at = place]

\* Ask and Confirm: a key that was used for another question is a conflict.
Ask(s) ==
  /\ operator.at = "ask"
  /\ Create(AskKey(Message), Style, s)
  /\ Goto("choice")
  /\ UNCHANGED <<inbox, committed, said, faults>>

\* What Get tells: the question's outcome, once it has one.
Told(q) == [status |-> q.status, reply |-> q.reply]

\* Mutant of Outcome: a pending question is taken for one that was declined.
OutcomeAnyway(e) == {Told(question'[e])}

Outcome(e) == {Told(q) : q \in {r \in {question'[e]} : r.status \in Resolved}}

\* Only a choice is confirmed; while the question is open the input waits.
GetChoice(s) ==
  /\ operator.at = "choice"
  /\ LET e == AskKey(Message) IN
       /\ Get(e, s)
       /\ \/ /\ Outcome(e) = {}
             /\ operator' = Idle
          \/ \E choice \in Outcome(e) :
               operator' = [operator EXCEPT
                  !.choice = choice,
                  !.at = IF choice.status = "success" THEN "confirm" ELSE "speak"]
  /\ UNCHANGED <<inbox, committed, said, faults>>

Confirm(s) ==
  /\ operator.at = "confirm"
  /\ Create(ConfirmKey(Message), ConfirmOf[operator.choice.reply], s)
  /\ Goto("decision")
  /\ UNCHANGED <<inbox, committed, said, faults>>

GetDecision(s) ==
  /\ operator.at = "decision"
  /\ LET e == ConfirmKey(Message) IN
       /\ Get(e, s)
       /\ \/ /\ Outcome(e) = {}
             /\ operator' = Idle
          \/ \E decision \in Outcome(e) :
               operator' = [operator EXCEPT !.decision = decision, !.at = "speak"]
  /\ UNCHANGED <<inbox, committed, said, faults>>

\* A summary that was spoken is returned as it is.
Speak ==
  /\ operator.at = "speak"
  /\ said' = [p \in DOMAIN said \cup {Message} |->
                IF p \in DOMAIN said THEN said[p]
                ELSE [choice |-> operator.choice, decision |-> operator.decision]]
  /\ Goto("commit")
  /\ UNCHANGED <<vars, inbox, committed, faults>>

Commit ==
  /\ operator.at = "commit"
  /\ committed' = Message
  /\ operator' = Idle
  /\ UNCHANGED <<vars, inbox, said, faults>>

\* The process stops, or a call fails or its answer is lost: Reconcile ends.
Stop ==
  /\ operator # Idle
  /\ faults < MaxFaults
  /\ faults' = faults + 1
  /\ operator' = Idle
  /\ UNCHANGED <<vars, inbox, committed, said>>

Reconcile ==
  \/ Receive
  \/ \E s \in Replica : Ask(s) \/ GetChoice(s) \/ Confirm(s) \/ GetDecision(s)
  \/ Speak
  \/ Commit

-----------------------------------------------------------------------------
\* People, maintenance, time.

Post ==
  /\ Cardinality({p \in DOMAIN inbox : inbox[p] # "reply"}) < MaxMessages
  /\ \E kind \in {"user", "other"} : inbox' = Append(inbox, kind)
  /\ UNCHANGED <<vars, committed, said, operator, faults>>

\* A reply that is accepted is a message to the operator that asked.
SendReply(s) ==
  /\ \E e \in DOMAIN question, who \in Person, answer \in Answer :
       /\ Reply(e, who, answer, s)
       /\ inbox' = IF replies' = replies THEN inbox ELSE Append(inbox, "reply")
  /\ UNCHANGED <<committed, said, operator, faults>>

Maintenance(s) ==
  /\ Maintain(s) \/ MaintainFails(s)
  /\ UNCHANGED <<inbox, committed, said, operator, faults>>

(***************************************************************************)
(* Time matters while a pending question has not reached its deadline on   *)
(* the slowest clock: outcomes depend on the time since a question's       *)
(* creation only.  So a finite clock delays no later question.             *)
(***************************************************************************)
TimePasses ==
  /\ \E e \in DOMAIN question :
       question[e].status = "pending" /\ clock < question[e].deadline
  /\ Tick
  /\ UNCHANGED <<inbox, committed, said, operator, faults>>

SystemNext ==
  \/ Reconcile
  \/ Stop
  \/ Post
  \/ \E s \in Replica : SendReply(s) \/ Maintenance(s)
  \/ TimePasses

System == SystemInit /\ [][SystemNext]_system

\* Time and maintenance go on, with or without operators.
SystemFairness == WF_system(TimePasses) /\ MaintenanceFairness

\* The controller retries.
OperatorFairness == WF_system(Reconcile)

FairSystem == System /\ SystemFairness

-----------------------------------------------------------------------------
\* Properties.

(***************************************************************************)
(* What a user is told is what came of the questions, however often they   *)
(* were asked again, answered late or expired in between: the summary      *)
(* gives the stored outcomes, Confirm asked about the stored choice and    *)
(* was asked only if there is one.  Nothing of a user is consumed without  *)
(* its summary (interact, and Speak before Commit).                        *)
(***************************************************************************)
SummaryTellsOutcome ==
  /\ \A p \in DOMAIN said :
       LET ask == question[AskKey(p)]
           confirm == question[ConfirmKey(p)]
       IN /\ ask.status \in Resolved
          /\ said[p].choice = Told(ask)
          /\ IF ask.status = "success"
             THEN /\ confirm.input = ConfirmOf[ask.reply]
                  /\ confirm.status \in Resolved
                  /\ said[p].decision = Told(confirm)
             ELSE ConfirmKey(p) \notin DOMAIN question
  /\ \A p \in 1..committed : inbox[p] = "user" => p \in DOMAIN said

(***************************************************************************)
(* Questions are settled even if the operator never comes back to them;    *)
(* and if it does, every message is consumed, answered or not: a question  *)
(* that nobody answers times out, a repeated one is never refused, and the *)
(* replies to its own questions start no further ones (Reconcile).         *)
(***************************************************************************)
EveryInputAnswered ==
  /\ EventuallySettled
  /\ OperatorFairness => <>[](committed = Len(inbox))

=============================================================================
