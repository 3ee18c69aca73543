----------------------------- MODULE LongHorizon ----------------------------
(***************************************************************************)
(* The LongHorizon operator (operators/longhorizon/internal/longhorizon).  *)
(*                                                                         *)
(* Ingress turns an unread user message into a Run resource.  The Manager  *)
(* reconciler plans rounds with a harness; Executor and Auditor work on    *)
(* the Execution and Audit resources of a round; people are asked when     *)
(* attempts fail, the budget ends or the plan needs them.  One leader runs *)
(* one worker per controller, and each writes the status of one kind only, *)
(* so a reconciler's copy of its own resource is never stale.  What one    *)
(* holds between two remote calls is `ingress`, `manager` or `worker`.     *)
(*                                                                         *)
(* External: the inbox (module Conversation), questions (HumanQuestion)    *)
(* and harness runs (HarnessRun), with what those modules show: Commit is  *)
(* monotone, Ask and Prompt with a used key return the stored object.      *)
(* A message is its position in the inbox, a contract its version, and the *)
(* guidance the set of inputs and answers it was put together from.        *)
(***************************************************************************)
EXTENDS Integers, Sequences, FiniteSets

CONSTANTS
  User,         \* people who write to the conversation
  None,         \* no user, no object
  Message,      \* what may be written: its user, and whether it can be a goal
  Decision,     \* what the Manager may decide, and whether it changes the contract
  MaxMessages,  \* bound on the inbox
  PageLimit,    \* messages a boundary polls (32)
  MaxInputs,    \* inputs one Run accepts (100)
  MaxRounds,    \* the budget a Run starts with (25)
  BudgetStep,   \* rounds a confirmation adds (25)
  MaxBudget,    \* no budget grows beyond this (1000)
  FailureLimit  \* failures in a row before a person is asked (3)

ASSUME LongHorizonBounds ==
  /\ None \notin User
  /\ Message \subseteq [user : User \cup {None}, goal : BOOLEAN]
  /\ \A m \in Message : m.goal => m.user # None
  /\ Decision \subseteq [next : {"cli", "ask", "done", "bad"}, contract : BOOLEAN]
  /\ MaxMessages \in Nat
  /\ {PageLimit, MaxInputs, MaxRounds, BudgetStep, FailureLimit} \subseteq Nat \ {0}
  /\ MaxBudget \in Nat /\ MaxBudget >= MaxRounds

VARIABLES
  inbox,      \* messages of the conversation, in order
  committed,  \* how far the operator has consumed it
  runs,       \* the Run resources, by the message that names them
  executions, \* of each Run: its newest Execution resource
  audits,     \* of each Run: its newest Audit resource
  calls,      \* of each Run and role: the newest harness call
  questions,  \* of each Run: the newest question to its user
  expired,    \* Runs whose deadline has passed
  ingress,    \* where Ingress is, and the message it has polled
  manager,    \* the Run of the Manager's pass and the status it will write
  worker,     \* where Executor and Auditor are
  refused,    \* goals answered with a notice instead of a Run
  taken       \* history: inputs recorded, each with its Run

resources == <<runs, executions, audits>>
services == <<inbox, committed, calls, questions, expired, refused>>
reconcilers == <<ingress, manager, worker>>
vars == <<resources, services, reconcilers, taken>>

Position == 1..MaxMessages
Worker == {"executor", "auditor"}
Role == Worker \cup {"manager"}
Ended == {"Succeeded", "Stopped", "Failed"}
Phase == Ended \cup {"New", "Receiving", "Planning", "Executing", "Auditing", "WaitingForHuman"}
Reason == {"none", "ask", "budget", "failure"}

\* What guidance is made of: accepted inputs, and answers by round.
Guidance == SUBSET ({"input"} \X Position \cup {"answer"} \X Nat)

Results(role) == CASE role = "manager"  -> Decision
                   [] role = "executor" -> {"ok", "error"}
                   [] role = "auditor"  -> {"complete", "incomplete", "invalid"}

Idle == [at |-> "idle"]

Init ==
  /\ inbox = <<>>
  /\ committed = 0
  /\ runs = [p \in Position |-> None]
  /\ executions = [p \in Position |-> None]
  /\ audits = [p \in Position |-> None]
  /\ calls = [k \in Position \X Role |-> None]
  /\ questions = [p \in Position |-> None]
  /\ expired = {}
  /\ ingress = Idle
  /\ manager = Idle
  /\ worker = [w \in Worker |-> Idle]
  /\ refused = {}
  /\ taken = {}

Lesser(a, b) == IF a < b THEN a ELSE b
Later(a, b) == IF a > b THEN a ELSE b
Run == {p \in Position : runs[p] # None}
Terminal(r) == r.phase \in Ended
IsInput(p) == inbox[p].user # None

\* messageText: text that is not empty and not too long to be a goal.
IsGoal(p) == inbox[p].goal

\* live: checked before a worker or the Manager dispatches work of a Run.
Live(i) == i \in Run /\ ~Terminal(runs[i]) /\ i \notin expired

-----------------------------------------------------------------------------
\* Ingress: the first input of the next Run.

\* A user writes, or another message (user None) reaches the operator.
Post ==
  /\ Len(inbox) < MaxMessages
  /\ \E m \in Message : inbox' = Append(inbox, m)
  /\ UNCHANGED <<resources, committed, calls, questions, expired, refused,
                 reconcilers, taken>>

NewRun(p) ==
  [user |-> inbox[p].user, phase |-> "New", round |-> 0, budget |-> 0, failures |-> 0,
   version |-> 0, through |-> 0, inputs |-> {}, guidance |-> {}, last |-> None,
   reason |-> "none", asked |-> FALSE, final |-> FALSE]

\* Mutant of IngressPoll: a Run with a terminal phase no longer owns the inbox.
IngressPollEnded ==
  /\ ingress = Idle
  /\ \A i \in Run : Terminal(runs[i])
  /\ committed < Len(inbox)
  /\ ingress' = [at |-> "act", message |-> committed + 1]
  /\ UNCHANGED <<resources, services, manager, worker, taken>>

\* Nothing is polled while a Run of the conversation is not finished.
IngressPoll ==
  /\ ingress = Idle
  /\ Run = {}
  /\ committed < Len(inbox)
  /\ ingress' = [at |-> "act", message |-> committed + 1]
  /\ UNCHANGED <<resources, services, manager, worker, taken>>

\* A message that cannot start a Run: a notice is spoken about an invalid goal.
IngressRefuse ==
  /\ ingress.at = "act"
  /\ LET p == ingress.message
     IN /\ ~IsGoal(p)
        /\ refused' = IF IsInput(p) THEN refused \cup {p} ELSE refused
  /\ ingress' = [ingress EXCEPT !.at = "commit"]
  /\ UNCHANGED <<resources, inbox, committed, calls, questions, expired,
                 manager, worker, taken>>

IngressCommit ==
  /\ ingress.at = "commit"
  /\ committed' = Later(committed, ingress.message)
  /\ ingress' = Idle
  /\ UNCHANGED <<resources, inbox, calls, questions, expired, refused,
                 manager, worker, taken>>

\* Create is named by the message: one that exists is left alone.
IngressCreate ==
  /\ ingress.at = "act"
  /\ LET p == ingress.message
     IN /\ IsGoal(p)
        /\ runs' = IF p \in Run THEN runs ELSE [runs EXCEPT ![p] = NewRun(p)]
  /\ ingress' = Idle
  /\ UNCHANGED <<executions, audits, services, manager, worker, taken>>

-----------------------------------------------------------------------------
\* Changes of a Run's status.

\* advance: the round is consumed and the next one begins.
Advance(r) ==
  [r EXCEPT !.round = @ + 1, !.phase = "Receiving", !.asked = FALSE, !.reason = "none"]

\* After too many failures in a row a person decides.
Escalate(r) ==
  IF r.failures >= FailureLimit
  THEN [r EXCEPT !.phase = "WaitingForHuman", !.reason = "failure"]
  ELSE r

\* Mutant of Failed: the round is tried again under its own keys.
FailedInPlace(r) == Escalate([r EXCEPT !.failures = @ + 1, !.phase = "Receiving"])

\* failure: a round without a result.
Failed(r) == Escalate([Advance(r) EXCEPT !.failures = @ + 1])

InitialStatus(i) ==
  [runs[i] EXCEPT !.phase = "Receiving", !.round = 1, !.budget = MaxRounds,
                  !.version = 1, !.through = i, !.inputs = {i}]

\* canFinish: a complete and clean audit of the current contract.
Done(r) == r.last # None /\ r.last.complete /\ r.last.version = r.version

-----------------------------------------------------------------------------
\* Manager.

(***************************************************************************)
(* Every pass commits the input its Run has recorded, and cleans up:       *)
(* a child goes once its round is consumed and its report is stored (one   *)
(* the cached lists do not show yet goes later: nobody reads it any more). *)
(***************************************************************************)
Begin(i) ==
  /\ manager = Idle
  /\ i \in Run
  /\ runs[i].phase # "New"
  /\ committed' = Later(committed, runs[i].through)

Collectible(i, child) ==
  child # None /\ child.round < runs[i].round /\ child.reported

Kept(i, child) == IF Collectible(i, child) THEN None ELSE child

Children(i, execution, audit) ==
  /\ executions' = [executions EXCEPT ![i] = execution]
  /\ audits' = [audits EXCEPT ![i] = audit]

Cleanup(i) == Children(i, Kept(i, executions[i]), Kept(i, audits[i]))

\* A result of an earlier round is never read again.
Forget(i, r) ==
  [k \in Position \X Role |->
     IF k[1] = i /\ calls[k] # None /\ calls[k].round < r.round /\ calls[k].result # None
     THEN [calls[k] EXCEPT !.request = None, !.result = CHOOSE x \in Results(k[2]) : TRUE]
     ELSE calls[k]]

\* The status patch of a Run, and the inputs it records.
Write(i, r) ==
  /\ runs' = [runs EXCEPT ![i] = r]
  /\ taken' = taken \cup (r.inputs \X {i})
  /\ calls' = Forget(i, r)

\* A pass that has created something patches the status in a step of its own.
Patch(i, r) == manager' = [at |-> "patch", run |-> i, next |-> r]

\* Mutant of Overdue: a person who is asked is waited for.
OverdueUnlessAsked(i) ==
  ~Terminal(runs[i]) /\ i \in expired /\ runs[i].phase # "WaitingForHuman"

Overdue(i) == ~Terminal(runs[i]) /\ i \in expired

\* The passes that create nothing: nobody sees them before their patch.
Pass(i) ==
  /\ Begin(i)
  /\ Cleanup(i)
  /\ UNCHANGED <<inbox, questions, expired, refused, reconcilers>>

Initialize(i) ==
  /\ manager = Idle
  /\ i \in Run
  /\ runs[i].phase = "New"
  /\ Write(i, InitialStatus(i))
  /\ UNCHANGED <<executions, audits, inbox, committed, questions, expired, refused,
                 reconcilers>>

ManagerPatch ==
  /\ manager # Idle
  /\ Write(manager.run, manager.next)
  /\ manager' = Idle
  /\ UNCHANGED <<executions, audits, inbox, committed, questions, expired, refused,
                 ingress, worker>>

StopOverdue(i) ==
  /\ Pass(i)
  /\ Overdue(i)
  /\ Write(i, [runs[i] EXCEPT !.phase = "Failed"])

\* finish: the final message is spoken and recorded, ...
Finish(i) ==
  /\ Pass(i)
  /\ Terminal(runs[i])
  /\ ~runs[i].final
  /\ Write(i, [runs[i] EXCEPT !.final = TRUE])

(***************************************************************************)
(* ... then FinishedAt.  A finished Run is never read again but by         *)
(* Ingress, which passes it as it passes a deleted one, so this step and   *)
(* the deletion after the retention are one; its calls and questions, and  *)
(* what a worker may still prompt for it, are under its UID, which no      *)
(* later Run has.                                                          *)
(***************************************************************************)
Retire(i) ==
  /\ Begin(i)
  /\ Terminal(runs[i])
  /\ runs[i].final
  /\ runs' = [runs EXCEPT ![i] = None]
  /\ Children(i, None, None)
  /\ calls' = [k \in Position \X Role |-> IF k[1] = i THEN None ELSE calls[k]]
  /\ questions' = [questions EXCEPT ![i] = None]
  /\ expired' = expired \ {i}
  /\ worker' = [w \in Worker |-> IF worker[w] # Idle /\ worker[w].run = i
                                 THEN Idle ELSE worker[w]]
  /\ UNCHANGED <<inbox, refused, ingress, manager, taken>>

Inputs(from, to) == {p \in from..to : IsInput(p)}

\* Mutant of Accepts: a refused input is skipped, not left for the next Run.
AcceptsPast(r, last, n) == n = last

(***************************************************************************)
(* The prefix a boundary may accept: it ends before the first input of     *)
(* another user, beyond the inputs a Run accepts, or too long for the      *)
(* guidance (a length is not modelled: any input may be too long).         *)
(***************************************************************************)
Accepts(r, last, n) ==
  LET new == Inputs(r.through + 1, n)
  IN /\ \A p \in new : inbox[p].user = r.user
     /\ Cardinality(r.inputs \cup new) <= MaxInputs
     /\ n < last => IsInput(n + 1)

Received(r, n) ==
  LET new == {p \in Inputs(r.through + 1, n) : inbox[p].user = r.user}
  IN [r EXCEPT !.phase = "Planning",
               !.through = n,
               !.inputs = @ \cup new,
               !.guidance = @ \cup {<<"input", p>> : p \in new},
               !.version = @ + Cardinality(new),
               !.last = IF new = {} THEN @ ELSE None]

Receive(i) ==
  LET r == runs[i]
      last == IF Cardinality(r.inputs) < MaxInputs
              THEN Lesser(Len(inbox), r.through + PageLimit)
              ELSE r.through
  IN /\ Pass(i)
     /\ ~Overdue(i)
     /\ r.phase = "Receiving"
     /\ \E n \in r.through..last : Accepts(r, last, n) /\ Write(i, Received(r, n))

\* What a call asks; a call of another round never has the same key.
PlanRequest(r) == [version |-> r.version, guidance |-> r.guidance, last |-> r.last]

\* Names of children and keys of calls contain the round.
Names(object, round) == object # None /\ object.round = round
Issued(key, round) == Names(calls[key], round)

Submit(key, round, request) ==
  calls' = [calls EXCEPT ![key] = [round |-> round, request |-> request, result |-> None]]

PlanBeyondBudget(i) ==
  LET r == runs[i]
  IN /\ Pass(i)
     /\ ~Overdue(i)
     /\ r.phase = "Planning"
     /\ r.round > r.budget
     /\ Write(i, IF r.budget >= MaxBudget
                 THEN [r EXCEPT !.phase = "Stopped"]
                 ELSE [r EXCEPT !.phase = "WaitingForHuman", !.reason = "budget"])

\* Mutant of Planning: no budget.
PlanningUnbounded(i) ==
  /\ Begin(i)
  /\ Live(i)
  /\ runs[i].phase = "Planning"

Planning(i) ==
  /\ Begin(i)
  /\ Live(i)
  /\ runs[i].phase = "Planning"
  /\ runs[i].round <= runs[i].budget

(***************************************************************************)
(* The Manager's harness call of this round is submitted.  invoke checks   *)
(* that the Run is live and then prompts: only the Manager changes the     *)
(* phase, and a deadline that passes in between is one that passes after.  *)
(***************************************************************************)
PlanPrompt(i) ==
  LET key == <<i, "manager">>
  IN /\ Planning(i)
     /\ ~Issued(key, runs[i].round)
     /\ Submit(key, runs[i].round, PlanRequest(runs[i]))
     /\ Cleanup(i)
     /\ UNCHANGED <<runs, inbox, questions, expired, refused, reconcilers, taken>>

\* Mutant of StartExecution: the evidence of an earlier round is kept.
StartExecutionKeepsAudit(r) == [r EXCEPT !.phase = "Executing"]

\* Evidence is about the workspace before this execution, so it is dropped.
StartExecution(r) == [r EXCEPT !.phase = "Executing", !.last = None]

WithContract(r, decision) == [r EXCEPT !.version = IF decision.contract THEN @ + 1 ELSE @]

(***************************************************************************)
(* The decision of a finished call.  An Execution that exists must have    *)
(* the same spec; a used key must come with the same request: the pass     *)
(* fails otherwise (StepsAgree shows it never does).                       *)
(***************************************************************************)
PlanDecide(i) ==
  LET key == <<i, "manager">>
      result == calls[key].result
      r == WithContract(runs[i], result)
      spec == [round |-> r.round, version |-> r.version, reported |-> FALSE]
      exists == Names(executions[i], r.round)
      starts == result.next = "cli"
  IN /\ Planning(i)
     /\ Issued(key, runs[i].round)
     /\ result # None
     /\ calls[key].request = PlanRequest(runs[i])
     /\ starts /\ exists => executions[i].version = r.version
     /\ Children(i, IF starts /\ ~exists THEN spec ELSE Kept(i, executions[i]),
                    Kept(i, audits[i]))
     /\ Patch(i, CASE starts -> StartExecution(r)
                   [] result.next = "ask" ->
                        [r EXCEPT !.phase = "WaitingForHuman", !.reason = "ask"]
                   [] result.next = "done" /\ Done(r) ->
                        [r EXCEPT !.phase = "Succeeded"]
                   [] OTHER -> Failed(r))
     /\ UNCHANGED <<runs, inbox, calls, questions, expired, refused, ingress, worker,
                    taken>>

\* Mutant of ExecutionOver: the audit does not wait for the report.
ExecutionExists(i) == executions[i] # None

ExecutionOver(i) == executions[i] # None /\ executions[i].reported

\* observeExecution: a reported execution is audited.
ObserveExecution(i) ==
  LET r == runs[i]
      spec == [round |-> r.round, version |-> executions[i].version,
               reported |-> FALSE, verdict |-> "invalid"]
  IN /\ Begin(i)
     /\ ~Overdue(i)
     /\ r.phase = "Executing"
     /\ ExecutionOver(i)
     /\ Children(i, Kept(i, executions[i]),
                    IF Names(audits[i], r.round) THEN audits[i] ELSE spec)
     /\ Patch(i, [r EXCEPT !.phase = "Auditing"])
     /\ UNCHANGED <<runs, inbox, calls, questions, expired, refused, ingress, worker,
                    taken>>

\* The evidence of an audit, with what its auditor was told (history).
Evidence(i) ==
  [round |-> audits[i].round, version |-> audits[i].version,
   complete |-> audits[i].verdict = "complete",
   told |-> calls[<<i, "auditor">>].request.guidance]

\* reportFrom: a report without a result, or of an output that failed.
ExecutionFailed(i) == calls[<<i, "executor">>].result = "error"

Audited(i) ==
  LET error == ExecutionFailed(i)
  IN Escalate([Advance(runs[i]) EXCEPT
                 !.last = Evidence(i),
                 !.failures = IF error THEN @ + 1 ELSE 0])

\* observeAudit: a stale audit, or one without a verdict, is a failure.
ObserveAudit(i) ==
  /\ Pass(i)
  /\ ~Overdue(i)
  /\ runs[i].phase = "Auditing"
  /\ audits[i] # None
  /\ audits[i].reported
  /\ Write(i, IF audits[i].version # runs[i].version \/ audits[i].verdict = "invalid"
              THEN Failed(runs[i])
              ELSE Audited(i))

\* human: the question of this round and reason is asked, or found again.
Ask(i) ==
  LET r == runs[i]
      question == [round |-> r.round, reason |-> r.reason, outcome |-> "pending"]
      exists == Names(questions[i], r.round) /\ questions[i].reason = r.reason
  IN /\ Begin(i)
     /\ ~Overdue(i)
     /\ r.phase = "WaitingForHuman"
     /\ ~r.asked
     /\ questions' = IF exists THEN questions ELSE [questions EXCEPT ![i] = question]
     /\ Patch(i, [r EXCEPT !.asked = TRUE])
     /\ Cleanup(i)
     /\ UNCHANGED <<runs, inbox, calls, expired, refused, ingress, worker, taken>>

\* The answer to an ask becomes guidance and makes the evidence obsolete.
Answered(r) ==
  [Advance(r) EXCEPT !.guidance = @ \cup {<<"answer", r.round>>}, !.last = None]

Resumed(r) == [r EXCEPT !.asked = FALSE, !.reason = "none", !.phase = "Receiving"]

\* An accepted question; guidance that grows too long stops the Run.
AfterHuman(r) ==
  CASE r.reason = "ask"     -> {Answered(r), [r EXCEPT !.phase = "Stopped"]}
    [] r.reason = "budget"  -> {Resumed([r EXCEPT !.budget = Lesser(MaxBudget, @ + BudgetStep)])}
    [] r.reason = "failure" -> {Resumed([r EXCEPT !.failures = 0])}

\* human: the outcome of the recorded question.
Decide(i) ==
  LET r == runs[i]
  IN /\ Pass(i)
     /\ ~Overdue(i)
     /\ r.phase = "WaitingForHuman"
     /\ r.asked
     /\ \/ /\ questions[i].outcome = "declined"
           /\ Write(i, [r EXCEPT !.phase = "Stopped"])
        \/ /\ questions[i].outcome = "accepted"
           /\ \E next \in AfterHuman(r) : Write(i, next)

\* A pass that finds a call, a report or an answer missing.
Wait(i) ==
  /\ Pass(i)
  /\ ~Overdue(i)
  /\ CASE runs[i].phase = "Planning" -> /\ Issued(<<i, "manager">>, runs[i].round)
                                        /\ calls[<<i, "manager">>].result = None
       [] runs[i].phase = "Executing" -> ~ExecutionOver(i)
       [] runs[i].phase = "Auditing" -> audits[i] = None \/ ~audits[i].reported
       [] runs[i].phase = "WaitingForHuman" ->
            runs[i].asked /\ questions[i].outcome = "pending"
       [] OTHER -> FALSE
  /\ UNCHANGED <<runs, calls, taken>>

-----------------------------------------------------------------------------
\* Executor and Auditor.

Child(w, i) == IF w = "executor" THEN executions[i] ELSE audits[i]

\* An auditor is told the goal and the guidance; an executor only its plan.
WorkRequest(w, i) ==
  [version |-> Child(w, i).version,
   guidance |-> IF w = "auditor" THEN runs[i].guidance ELSE {}]

Unreported(w, i) == i \in Run /\ Child(w, i) # None /\ ~Child(w, i).reported

(***************************************************************************)
(* invoke: the Run may end between the check and the prompt.  A later      *)
(* pass finds the call of the same key and, once it is over, its result    *)
(* (reading and patching it is one step: the child is the worker's own).   *)
(***************************************************************************)
WorkerCheck(w, i) ==
  /\ worker[w] = Idle
  /\ Live(i)
  /\ Unreported(w, i)
  /\ ~Issued(<<i, w>>, Child(w, i).round)
  /\ worker' = [worker EXCEPT ![w] = [at |-> "prompt", run |-> i,
                                      round |-> Child(w, i).round,
                                      request |-> WorkRequest(w, i)]]
  /\ UNCHANGED <<resources, services, ingress, manager, taken>>

WorkerPrompt(w) ==
  LET me == worker[w]
  IN /\ me.at = "prompt"
     /\ Submit(<<me.run, w>>, me.round, me.request)
     /\ worker' = [worker EXCEPT ![w] = Idle]
     /\ UNCHANGED <<resources, inbox, committed, questions, expired, refused,
                    ingress, manager, taken>>

(***************************************************************************)
(* The report is patched into its child, which nobody deletes before.  The *)
(* pass found the Run live when it began; the Run may have ended since.    *)
(***************************************************************************)
WorkerReport(w, i) ==
  LET call == calls[<<i, w>>]
  IN /\ worker[w] = Idle
     /\ Unreported(w, i)
     /\ Issued(<<i, w>>, Child(w, i).round)
     /\ call.request = WorkRequest(w, i)
     /\ call.result # None
     /\ IF w = "executor"
        THEN Children(i, [executions[i] EXCEPT !.reported = TRUE], audits[i])
        ELSE Children(i, executions[i], [audits[i] EXCEPT !.reported = TRUE,
                                                          !.verdict = call.result])
     /\ UNCHANGED <<runs, services, reconcilers, taken>>

-----------------------------------------------------------------------------
\* The services, time and failures.

\* A harness call ends, in time or by its own timeout.
EndCall(i, role) ==
  /\ i \in Run
  /\ ~Terminal(runs[i])  \* a Run that has ended reads no result
  /\ calls[<<i, role>>] # None
  /\ calls[<<i, role>>].result = None
  /\ \E result \in Results(role) : calls' = [calls EXCEPT ![<<i, role>>].result = result]
  /\ UNCHANGED <<resources, inbox, committed, questions, expired, refused,
                 reconcilers, taken>>

\* A question is accepted, or it is declined, dismissed or times out.
EndQuestion(i) ==
  /\ i \in Run
  /\ ~Terminal(runs[i])  \* nor an answer
  /\ questions[i] # None
  /\ questions[i].outcome = "pending"
  /\ \E outcome \in {"accepted", "declined"} :
       questions' = [questions EXCEPT ![i].outcome = outcome]
  /\ UNCHANGED <<resources, inbox, committed, calls, expired, refused,
                 reconcilers, taken>>

\* The deadline of a Run; once it has ended it changes nothing.
Expire(i) ==
  /\ i \in Run
  /\ ~Terminal(runs[i])
  /\ i \notin expired
  /\ expired' = expired \cup {i}
  /\ UNCHANGED <<resources, inbox, committed, calls, questions, refused,
                 reconcilers, taken>>

\* A call of one reconciler fails or its answer is lost: it starts over.
CallFails ==
  /\ \/ ingress # Idle /\ ingress' = Idle /\ UNCHANGED <<manager, worker>>
     \/ manager # Idle /\ manager' = Idle /\ UNCHANGED <<ingress, worker>>
     \/ \E w \in Worker : /\ worker[w] # Idle
                          /\ worker' = [worker EXCEPT ![w] = Idle]
                          /\ UNCHANGED <<ingress, manager>>
  /\ UNCHANGED <<resources, services, taken>>

\* A pass that has committed and cleaned up fails before its patch.
PassFails(i) ==
  /\ Begin(i)
  /\ Cleanup(i)
  /\ UNCHANGED <<runs, inbox, calls, questions, expired, refused, reconcilers, taken>>

\* The operator restarts; another leader continues from the resources.
Restart ==
  /\ reconcilers # <<Idle, Idle, [w \in Worker |-> Idle]>>
  /\ ingress' = Idle
  /\ manager' = Idle
  /\ worker' = [w \in Worker |-> Idle]
  /\ UNCHANGED <<resources, services, taken>>

Ingress == IngressPoll \/ IngressRefuse \/ IngressCommit \/ IngressCreate
Manager(i) ==
  \/ Initialize(i) \/ StopOverdue(i) \/ Finish(i) \/ Retire(i) \/ Receive(i)
  \/ PlanBeyondBudget(i) \/ PlanPrompt(i) \/ PlanDecide(i)
  \/ ObserveExecution(i) \/ ObserveAudit(i) \/ Ask(i) \/ Decide(i) \/ Wait(i)
Work(w) ==
  \/ \E i \in Position : WorkerCheck(w, i) \/ WorkerReport(w, i)
  \/ WorkerPrompt(w)

Next ==
  \/ Post
  \/ Ingress
  \/ \E i \in Position : Manager(i) \/ EndQuestion(i) \/ Expire(i) \/ PassFails(i)
  \/ ManagerPatch
  \/ \E w \in Worker : Work(w)
  \/ \E i \in Position, role \in Role : EndCall(i, role)
  \/ CallFails
  \/ Restart

Spec == Init /\ [][Next]_vars

(***************************************************************************)
(* Reconcilers run, time passes, and a call that is repeated for ever does *)
(* not fail every time; no harness, person or worker has to answer.        *)
(***************************************************************************)
Fairness ==
  /\ WF_vars(IngressPoll \/ \E i \in Position : Manager(i))
  /\ SF_vars(IngressRefuse \/ IngressCreate)
  /\ SF_vars(IngressCommit \/ ManagerPatch)
  /\ WF_vars(\E i \in Position : Expire(i))

FairSpec == Spec /\ Fairness

-----------------------------------------------------------------------------
\* Properties.

EvidenceType == [round : Nat, version : Nat, complete : BOOLEAN, told : Guidance]
RunType ==
  [user : User, phase : Phase, round : Nat, budget : Nat, failures : Nat,
   version : Nat, through : 0..MaxMessages, inputs : SUBSET Position,
   guidance : Guidance, last : EvidenceType \cup {None}, reason : Reason,
   asked : BOOLEAN, final : BOOLEAN]
ExecutionType == [round : Nat, version : Nat, reported : BOOLEAN]
AuditType == [round : Nat, version : Nat, reported : BOOLEAN, verdict : Results("auditor")]
RequestType == [version : Nat, guidance : Guidance]
PlanType == [version : Nat, guidance : Guidance, last : EvidenceType \cup {None}]
CallType(role) ==
  [round : Nat, request : {None} \cup IF role = "manager" THEN PlanType ELSE RequestType,
   result : Results(role) \cup {None}]
QuestionType ==
  [round : Nat, reason : Reason, outcome : {"pending", "accepted", "declined"}]

ASSUME NoneAssumption ==
  /\ None \notin RunType \cup ExecutionType \cup AuditType
  /\ \A role \in Role : None \notin CallType(role) \cup Results(role)

Typed ==
  /\ inbox \in Seq(Message) /\ Len(inbox) <= MaxMessages
  /\ committed \in 0..MaxMessages
  /\ runs \in [Position -> RunType \cup {None}]
  /\ executions \in [Position -> ExecutionType \cup {None}]
  /\ audits \in [Position -> AuditType \cup {None}]
  /\ DOMAIN calls = Position \X Role
  /\ \A k \in Position \X Role : calls[k] \in CallType(k[2]) \cup {None}
  /\ questions \in [Position -> QuestionType \cup {None}]
  /\ expired \cup refused \subseteq Position
  /\ taken \subseteq Position \X Position
  /\ ingress \in {Idle} \cup [at : {"act", "commit"}, message : DOMAIN inbox]
  /\ manager \in {Idle} \cup [at : {"patch"}, run : Position, next : RunType]
  /\ worker \in [Worker -> {Idle} \cup [at : {"prompt"}, run : Position, round : Nat,
                                       request : RequestType]]

\* No round is begun beyond the budget but the one that asks for more, and a
\* round changes the contract once at most.
Bounded(i) ==
  /\ runs[i].round <= runs[i].budget + 1
  /\ runs[i].budget <= MaxBudget
  /\ Cardinality(runs[i].inputs) <= MaxInputs
  /\ runs[i].version <= Cardinality(runs[i].inputs) + runs[i].round

TypeOK == Typed /\ committed <= Len(inbox) /\ \A i \in Run : Bounded(i)

(***************************************************************************)
(* A Run that succeeds was audited as it stands: the audit is of the       *)
(* current contract, found it complete, its auditor was told every input   *)
(* and answer accepted since, and nothing has been executed after it       *)
(* (canFinish, receive, human and the reset of LastAudit).                 *)
(***************************************************************************)
DoneIsAudited ==
  \A i \in Run : runs[i].phase = "Succeeded" =>
    LET e == runs[i].last
    IN /\ e # None
       /\ e.complete
       /\ e.version = runs[i].version
       /\ e.told = runs[i].guidance
       /\ Issued(<<i, "executor">>, e.round)

(***************************************************************************)
(* One Run at a time owns the inbox, and every input is taken once:        *)
(* whatever fails between a poll and its status, a user's message that is  *)
(* consumed is recorded by a Run or was answered with a notice, and no     *)
(* input is recorded by two Runs (Ingress lists before it polls, receive,  *)
(* the commit of InputThrough, FinishedAt after the inputs are committed). *)
(***************************************************************************)
Settled(p) == p \in refused \/ \E i \in Position : <<p, i>> \in taken
EachInputTakenOnce ==
  /\ Cardinality(Run) <= 1
  /\ \A p \in 1..committed : IsInput(p) => Settled(p)
  /\ \A s, t \in taken : s[1] = t[1] => s = t

(***************************************************************************)
(* A step that is repeated after a failure asks for exactly what it asked  *)
(* before, so the server returns the stored call instead of a conflict     *)
(* (the keys <run>/round/<n>/<role> of invoke, and the Execution's spec).  *)
(***************************************************************************)
StepsAgree ==
  \A i \in Run :
    /\ runs[i].phase = "Planning" /\ Issued(<<i, "manager">>, runs[i].round)
         => LET call == calls[<<i, "manager">>]
            IN /\ call.request = PlanRequest(runs[i])
               /\ Names(executions[i], runs[i].round) =>
                    executions[i].version = WithContract(runs[i], call.result).version
    /\ \A w \in Worker :
         Child(w, i) # None /\ Issued(<<i, w>>, Child(w, i).round) /\ ~Child(w, i).reported
           => calls[<<i, w>>].request = WorkRequest(w, i)

(***************************************************************************)
(* One worker at a time in a Run's workspace, and the Run waits for it: an *)
(* executor and an auditor never run together, and no round is left while  *)
(* one of them works (observeExecution, observeAudit), unless the Run has  *)
(* ended under it (a deadline cancels no call).                            *)
(***************************************************************************)
Running(i, w) == calls[<<i, w>>] # None /\ calls[<<i, w>>].result = None
WorkspaceAtRest ==
  \A i \in Run : ~Terminal(runs[i]) =>
    /\ ~(Running(i, "executor") /\ Running(i, "auditor"))
    /\ \A w \in Worker : Running(i, w) => calls[<<i, w>>].round = runs[i].round

(***************************************************************************)
(* The operator catches up with its inbox again and again, every input     *)
(* recorded or refused: a Run ends by its deadline at the latest, whoever  *)
(* does not answer, and the next one takes what it left (Manager's         *)
(* deadline, finish, Ingress).                                             *)
(***************************************************************************)
EveryInputTaken == []<>(\A p \in DOMAIN inbox : IsInput(p) => Settled(p))

=============================================================================
