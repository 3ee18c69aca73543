-------------------------------- MODULE Router -------------------------------
(***************************************************************************)
(* The Router operator (operators/router/internal/router): one conversation *)
(* and the reconciliation that answers its inbox.  It takes one input,     *)
(* plans, runs a batch of harness calls, takes what was written meanwhile, *)
(* plans again or answers, and commits.  It has no checkpoint: after a     *)
(* crash or an error it starts again from the inbox, and finds its calls   *)
(* and messages by their keys, provided it asks for the same thing.        *)
(*                                                                         *)
(* One replica runs, and the work queue gives a conversation to one worker *)
(* at a time.  External: the inbox (module Conversation), harness runs     *)
(* (HarnessRun) and Speak (the first message with a key is the only one).  *)
(* A message is its position.  The query is a sequence of batches of user  *)
(* messages, one per round: with the history it fixes every prompt of a    *)
(* round, because the evidence is what the keys of earlier rounds returned.*)
(***************************************************************************)
EXTENDS Integers, Sequences, FiniteSets, Functions

CONSTANTS
  Kind,         \* kinds of messages that are written: "user", "other", "unreadable"
  History,      \* what reading the messages before the input may give
  MaxMessages,  \* bound on the inbox
  PageLimit,    \* messages a poll at a boundary returns (100)
  MaxSubtasks,  \* tasks a plan may have
  MaxFaults     \* bound on crashes and failing calls

ASSUME RouterBounds ==
  /\ Kind \subseteq {"user", "other", "unreadable"}
  /\ {MaxMessages, MaxFaults} \subseteq Nat
  /\ {PageLimit, MaxSubtasks} \subseteq Nat \ {0}

VARIABLES
  inbox,      \* kinds of the messages of the conversation, in order
  committed,  \* how far the Router has consumed it
  calls,      \* harness calls: what their key asked, and their result
  said,       \* what the Router has said, by key: the user messages it is about
  router,     \* the reconciliation: where it is and its local variables
  faults,     \* faults so far
  owner       \* history: the input whose commit consumed each message

vars == <<inbox, committed, calls, said, router, faults, owner>>

Position == 1..MaxMessages
Idle == [at |-> "idle"]
Running == [outcome |-> "running", tasks |-> 0]

\* A call returns no text or fails; a plan has some number of tasks.
Result(key) ==
  {[outcome |-> "error", tasks |-> 0]} \cup
  [outcome : {"ok"}, tasks : IF key[2] = "plan" THEN 0..MaxSubtasks + 1 ELSE {0}]

Init ==
  /\ inbox = <<>>
  /\ committed = 0
  /\ calls = <<>>
  /\ said = <<>>
  /\ router = Idle
  /\ faults = 0
  /\ owner = <<>>

FromUser(p) == inbox[p] # "other"

\* modelText: a user's message has text blocks that are not empty.
HasText(p) == inbox[p] # "unreadable"

\* A message reaches the Router's inbox.
Post ==
  /\ Len(inbox) < MaxMessages
  /\ \E kind \in Kind : inbox' = Append(inbox, kind)
  /\ UNCHANGED <<committed, calls, said, router, faults, owner>>

Goto(place) == router' = [router EXCEPT !.at = place]

-----------------------------------------------------------------------------
\* Reconcile: the first unread message, and what was written before it.

CommitThrough(p, input) ==
  /\ committed' = p
  /\ owner' = owner \o [k \in 1..(p - committed) |-> input]

Skip ==
  /\ router = Idle
  /\ committed < Len(inbox)
  /\ ~FromUser(committed + 1)
  /\ CommitThrough(committed + 1, committed + 1)
  /\ UNCHANGED <<inbox, calls, said, router, faults>>

Receive ==
  /\ router = Idle
  /\ committed < Len(inbox)
  /\ FromUser(committed + 1)
  /\ \E history \in History :
       router' = [at |-> IF HasText(committed + 1) THEN "plan" ELSE "fail",
                  position |-> committed + 1,
                  history |-> history,
                  query |-> <<{committed + 1}>>,
                  additions |-> {}]
  /\ UNCHANGED <<inbox, committed, calls, said, faults, owner>>

Input == committed + 1
Round == Len(router.query) - 1
Covered == UNION Range(router.query)
Request == [history |-> router.history, query |-> router.query]

-----------------------------------------------------------------------------
\* Harness calls: a key asks once, and is refused another request.

PlanKey == <<Input, "plan", Round, 0>>
WorkKey(k) == <<Input, "work", Round, k>>
SummaryKey == <<Input, "summarize", 0, 0>>

\* What is stored under a key stays.
Added(store, key, value) ==
  [k \in DOMAIN store \cup {key} |-> IF k \in DOMAIN store THEN store[k] ELSE value]

Issued(key) == key \in DOMAIN calls

\* Mutant of Conflicts: a key returns its call whatever it was asked.
ConflictsNever(key) == FALSE

Conflicts(key) == Issued(key) /\ calls[key].request # Request

Prompt(key) ==
  /\ ~Issued(key)
  /\ calls' = Added(calls, key, [request |-> Request, result |-> Running])
  /\ UNCHANGED <<inbox, committed, said, router, faults, owner>>

Returned(key, outcome) ==
  Issued(key) /\ ~Conflicts(key) /\ calls[key].result.outcome = outcome

Local == UNCHANGED <<inbox, committed, calls, said, faults, owner>>

-----------------------------------------------------------------------------
\* run: plan, execute the batch, take additions, until there are none.

Tasks == calls[PlanKey].result.tasks

Plan == router.at = "plan" /\ Prompt(PlanKey)

\* Mutant of Acceptable: a plan may have any number of tasks.
AcceptableAny == Tasks >= (IF Round = 0 THEN 1 ELSE 0)

\* decodePlan: the first plan dispatches work, none has too many tasks.
Acceptable == Tasks \in (IF Round = 0 THEN 1 ELSE 0)..MaxSubtasks

Planned ==
  /\ router.at = "plan"
  /\ Returned(PlanKey, "ok")
  /\ Goto(IF ~Acceptable THEN "fail" ELSE IF Tasks = 0 THEN "poll" ELSE "work")
  /\ Local

\* executeBatch: every call is started, in order, before one is waited for.
Work ==
  /\ router.at = "work"
  /\ \E k \in 1..Tasks :
       /\ \A j \in 1..(k - 1) : Issued(WorkKey(j)) /\ ~Conflicts(WorkKey(j))
       /\ Prompt(WorkKey(k))

\* Mutant of BatchReturned: the first result is taken for the batch.
BatchReturnedFirst == Returned(WorkKey(1), "ok")

BatchReturned == \A k \in 1..Tasks : Returned(WorkKey(k), "ok")

Worked ==
  /\ router.at = "work"
  /\ BatchReturned
  /\ Goto("poll")
  /\ Local

\* A call of the current step is refused, or it ends without a result.
Refused(key) == Conflicts(key) \/ Returned(key, "error")

StepFails ==
  /\ CASE router.at = "plan" -> Refused(PlanKey)
       [] router.at = "work" ->
            \E k \in 1..Tasks :
              \/ /\ \A j \in 1..(k - 1) : Issued(WorkKey(j))
                 /\ Conflicts(WorkKey(k))
              \/ /\ \A j \in 1..Tasks : Issued(WorkKey(j))
                 /\ \A j \in 1..(k - 1) : Returned(WorkKey(j), "ok")
                 /\ Returned(WorkKey(k), "error")
       [] router.at = "summarize" -> Refused(SummaryKey)
       [] OTHER -> FALSE
  /\ Goto("fail")
  /\ Local

\* pollAdditions: one page; the position moves past all of it, read or not.
PollAdditions ==
  /\ router.at = "poll"
  /\ LET last == IF router.position + PageLimit < Len(inbox)
                 THEN router.position + PageLimit ELSE Len(inbox)
         page == router.position + 1 .. last
         users == {p \in page : FromUser(p)}
         full == Cardinality(page) = PageLimit
         additions == router.additions \cup users
     IN router' = [router EXCEPT
                     !.position = last,
                     !.additions = additions,
                     !.at = IF \E p \in users : ~HasText(p) THEN "fail"
                            ELSE IF full THEN "poll"
                            ELSE IF additions = {} THEN "summarize"
                            ELSE "progress"]
  /\ Local

\* Speak: a message with the same key is returned as it is.
Speak(key, about) ==
  /\ said' = Added(said, key, about)
  /\ UNCHANGED <<inbox, committed, calls, faults, owner>>

\* What is done is reported, and the additions become part of the query.
Progress ==
  /\ router.at = "progress"
  /\ Speak(<<Input, "progress", Round>>, Covered)
  /\ router' = [router EXCEPT !.at = "plan", !.additions = {},
                              !.query = Append(@, router.additions)]

Summarize == router.at = "summarize" /\ Prompt(SummaryKey)

Summarized ==
  /\ router.at = "summarize"
  /\ Returned(SummaryKey, "ok")
  /\ Goto("answer")
  /\ Local

\* The answer is spoken; the call that speaks it may still fail.
AnswerKey(input) == <<input, "answer", 0>>

Answer ==
  /\ router.at = "answer"
  /\ AnswerKey(Input) \notin DOMAIN said
  /\ Speak(AnswerKey(Input), Covered)
  /\ UNCHANGED router

Answered ==
  /\ router.at = "answer"
  /\ AnswerKey(Input) \in DOMAIN said
  /\ Goto("commit")
  /\ Local

\* The deferred function: a failure is spoken, then the input is committed.
FailureKey(input) == <<input, "failure", 0>>

\* Mutant of Fail: the input is left to be tried again.
FailRetries ==
  /\ router.at = "fail"
  /\ Speak(FailureKey(Input), {})
  /\ router' = Idle

Fail ==
  /\ router.at = "fail"
  /\ Speak(FailureKey(Input), {})
  /\ Goto("commit")

(***************************************************************************)
(* What the reconciliation has taken is consumed, whether answered or not. *)
(* The keys of its calls name its input: no later step reads them, and     *)
(* those that still run are forgotten with the others.                     *)
(***************************************************************************)
Commit ==
  /\ router.at = "commit"
  /\ CommitThrough(router.position, Input)
  /\ router' = Idle
  /\ calls' = <<>>
  /\ UNCHANGED <<inbox, said, faults>>

-----------------------------------------------------------------------------
\* Harness runs and faults.

EndCall(key) ==
  /\ calls[key].result = Running
  /\ \E result \in Result(key) : calls' = [calls EXCEPT ![key].result = result]
  /\ UNCHANGED <<inbox, committed, said, router, faults, owner>>

Fault ==
  /\ faults < MaxFaults
  /\ faults' = faults + 1
  /\ router # Idle
  /\ UNCHANGED <<inbox, committed, calls, said, owner>>

\* A remote call fails or its reply is lost; an error after run ends it.
CallFails ==
  /\ Fault
  /\ router.at \notin {"fail", "commit"}
  /\ Goto("fail")

\* The process ends, the context is cancelled, or Speak or Commit fails.
Stop ==
  /\ Fault
  /\ router' = Idle

Reconcile ==
  \/ Skip \/ Receive \/ Plan \/ Planned \/ Work \/ Worked \/ StepFails
  \/ PollAdditions \/ Progress \/ Summarize \/ Summarized
  \/ Answer \/ Answered \/ Fail \/ Commit

Next ==
  \/ Post
  \/ Reconcile
  \/ \E key \in DOMAIN calls : EndCall(key)
  \/ CallFails
  \/ Stop

Spec == Init /\ [][Next]_vars

\* The controller retries, and a harness run ends (HarnessRun, EventuallyEnds).
Fairness ==
  /\ WF_vars(Reconcile)
  /\ WF_vars(\E key \in DOMAIN calls : EndCall(key))

FairSpec == Spec /\ Fairness

-----------------------------------------------------------------------------
\* Properties.

TypeOK ==
  /\ inbox \in Seq(Kind) /\ Len(inbox) <= MaxMessages
  /\ committed \in 0..Len(inbox)
  /\ \A key \in DOMAIN calls :
       /\ key \in Position \X {"plan", "work", "summarize"}
                    \X (0..MaxMessages) \X (0..MaxSubtasks)
       /\ calls[key].request.history \in History
       /\ calls[key].result \in Result(key) \cup {Running}
  /\ \A key \in DOMAIN said : said[key] \subseteq Position
  /\ router = Idle \/
       /\ router.at \in {"plan", "work", "poll", "progress", "summarize",
                         "answer", "fail", "commit"}
       /\ router.position \in Input..Len(inbox)
       /\ router.query \in Seq(SUBSET (Input..router.position))
  /\ faults \in 0..MaxFaults
  /\ owner \in [1..committed -> Position]

(***************************************************************************)
(* No message of a user is consumed without a reply about it: the answer   *)
(* that is stored, perhaps from before a crash, was asked about that very  *)
(* message, or a failure of the input that took it was spoken.             *)
(***************************************************************************)
RepliedBeforeConsumed ==
  \A p \in 1..committed : FromUser(p) =>
    \/ FailureKey(owner[p]) \in DOMAIN said
    \/ /\ AnswerKey(owner[p]) \in DOMAIN said
       /\ p \in said[AnswerKey(owner[p])]

(***************************************************************************)
(* A prompt is never built on a batch that is not finished: whatever was   *)
(* replayed, when a call is issued every task planned in the rounds its    *)
(* prompt tells about has returned its result (executeBatch).              *)
(***************************************************************************)
RoundsTold(key) ==
  Len(calls[key].request.query) - (IF key[2] = "summarize" THEN 0 ELSE 1)

Succeeded(key) == Issued(key) /\ calls[key].result.outcome = "ok"

EvidenceComplete ==
  \A key \in DOMAIN calls : \A r \in 0..RoundsTold(key) - 1 :
    LET plan == <<key[1], "plan", r, 0>>
    IN /\ Succeeded(plan)
       /\ \A k \in 1..calls[plan].result.tasks : Succeeded(<<key[1], "work", r, k>>)

(***************************************************************************)
(* Every message is consumed, however harness runs end and whatever a      *)
(* replay finds: a conflict ends in a failure, not in a retry for ever.    *)
(***************************************************************************)
EveryInputReplied == <>[](committed = Len(inbox))

=============================================================================
