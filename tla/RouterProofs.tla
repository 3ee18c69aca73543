----------------------------- MODULE RouterProofs ----------------------------
(***************************************************************************)
(* The Router's answers: the safety properties of Router for any messages, *)
(* histories, page size, plans and faults.  What has to be shown is that a *)
(* reconciliation that starts again over the calls and messages of one     *)
(* that stopped finds either exactly what it would have asked, or a        *)
(* conflict that ends it with a failure.                                   *)
(***************************************************************************)
EXTENDS Router, FiniteSetTheorems, SequenceTheorems, TLAPS

Place == {"plan", "work", "poll", "progress", "summarize", "answer", "fail", "commit"}

Reconciliation ==
  [at : Place, position : Nat, history : History, query : Seq(SUBSET Position),
   additions : SUBSET Position]

Key == Position \X {"plan", "work", "summarize"} \X (0..MaxMessages) \X (0..MaxSubtasks)

Call == [request : [history : History, query : Seq(SUBSET Position)],
         result : [outcome : {"running", "ok", "error"}, tasks : 0..MaxSubtasks + 1]]

Active == router # Idle

\* The state has its types; each batch of the query brought a message of its own,
\* which bounds the rounds.
Typed ==
  /\ inbox \in Seq(Kind) /\ Len(inbox) <= MaxMessages
  /\ committed \in 0..Len(inbox)
  /\ calls \in [DOMAIN calls -> Call] /\ DOMAIN calls \subseteq Key
  /\ \A key \in DOMAIN calls : calls[key].result \in Result(key) \cup {Running}
  /\ said \in [DOMAIN said -> SUBSET Position]
  /\ faults \in 0..MaxFaults
  /\ owner \in Seq(Position) /\ Len(owner) = committed
  /\ Active =>
       /\ router \in Reconciliation
       /\ router.position \in Input..Len(inbox)
       /\ Len(router.query) >= 1
       /\ Len(router.query) + (IF router.additions = {} THEN 0 ELSE 1)
            <= router.position - committed
       /\ \A i \in 1..Len(router.query) : router.query[i] \subseteq Input..router.position
       /\ router.additions \subseteq Input..router.position

\* What is taken from the inbox is in the query, or about to be.
UsersTaken ==
  Active =>
    /\ \A p \in Input..router.position : FromUser(p) => p \in Covered \cup router.additions
    /\ router.at \in {"plan", "work", "summarize", "answer"} => router.additions = {}
    /\ router.at = "progress" => router.additions # {}

\* Round r has a plan, and its batch has returned.
Complete(i, r) ==
  LET plan == <<i, "plan", r, 0>>
  IN /\ Succeeded(plan)
     /\ \A k \in 1..calls[plan].result.tasks : Succeeded(<<i, "work", r, k>>)

\* The reconciliation goes past a round when it is complete.
RoundsDone ==
  Active =>
    /\ \A r \in 0..(Round - 1) : Complete(Input, r)
    /\ router.at = "work" => Succeeded(PlanKey) /\ Tasks \in 1..MaxSubtasks
    /\ router.at \in {"poll", "progress", "summarize", "answer"} => Complete(Input, Round)

\* Nothing is said in the name of an input that has not been taken.
SaidOfInputs == \A key \in DOMAIN said : key[1] \in 1..Input

\* An answer tells what the summary was asked; the summary of an input is asked once.
AnswerOfSummary ==
  /\ AnswerKey(Input) \in DOMAIN said =>
       /\ Issued(SummaryKey)
       /\ said[AnswerKey(Input)] = UNION Range(calls[SummaryKey].request.query)
  /\ Active /\ router.at = "answer" =>
       Issued(SummaryKey) /\ calls[SummaryKey].request = Request

\* The commit comes after a reply.
RepliedBeforeCommit ==
  Active /\ router.at = "commit" =>
    \/ FailureKey(Input) \in DOMAIN said
    \/ /\ AnswerKey(Input) \in DOMAIN said
       /\ said[AnswerKey(Input)] = Covered /\ router.additions = {}

\* What every step keeps.
RouterInv ==
  /\ Typed /\ UsersTaken /\ RoundsDone /\ SaidOfInputs /\ AnswerOfSummary
  /\ RepliedBeforeCommit /\ RepliedBeforeConsumed /\ EvidenceComplete

-----------------------------------------------------------------------------
\* Stores and sequences.

\* The first value under a key is the one that stays.
LEMMA AddedKeeps ==
  ASSUME NEW store, NEW key, NEW value
  PROVE  /\ DOMAIN Added(store, key, value) = DOMAIN store \cup {key}
         /\ \A k \in DOMAIN store : Added(store, key, value)[k] = store[k]
         /\ key \notin DOMAIN store => Added(store, key, value)[key] = value
  BY DEF Added

\* A typed store stays typed.
LEMMA AddedType ==
  ASSUME NEW S, NEW store, store \in [DOMAIN store -> S], NEW key, NEW value \in S
  PROVE  Added(store, key, value) \in [DOMAIN Added(store, key, value) -> S]
  BY DEF Added

\* The union of the batches, one batch later.
LEMMA CoveredAppends ==
  ASSUME NEW q \in Seq(SUBSET Position), NEW a \in SUBSET Position
  PROVE  UNION Range(Append(q, a)) = (UNION Range(q)) \cup a
<1>1. /\ DOMAIN q = 1..Len(q) /\ DOMAIN Append(q, a) = 1..(Len(q) + 1) /\ Len(q) \in Nat
      /\ \A i \in 1..Len(q) : Append(q, a)[i] = q[i]
      /\ Append(q, a)[Len(q) + 1] = a
  BY AppendProperties, LenProperties
<1>2. \A i : i \in 1..(Len(q) + 1) <=> i \in 1..Len(q) \/ i = Len(q) + 1
  BY <1>1
<1>3. Range(Append(q, a)) = Range(q) \cup {a}
  BY <1>1, <1>2 DEF Range
<1> QED
  BY <1>3

\* The first query covers the input.
LEMMA CoveredFirst == ASSUME NEW a PROVE UNION Range(<<a>>) = a
<1>1. DOMAIN <<a>> = {1} /\ <<a>>[1] = a
  OBVIOUS
<1>2. Range(<<a>>) = {a}
  BY <1>1 DEF Range
<1> QED
  BY <1>2

\* The commit of n messages for one input.
LEMMA OwnersAdded ==
  ASSUME NEW o \in Seq(Position), NEW n \in Nat, NEW input \in Position
  PROVE  LET q == o \o [k \in 1..n |-> input]
         IN /\ q \in Seq(Position) /\ Len(q) = Len(o) + n
            /\ \A p \in 1..Len(o) : q[p] = o[p]
            /\ \A p \in (Len(o) + 1)..(Len(o) + n) : q[p] = input
<1> DEFINE t == [k \in 1..n |-> input]
<1>1. t \in Seq(Position) /\ Len(t) = n
  <2>1. t \in [1..n -> Position]
    OBVIOUS
  <2>2. t \in Seq(Position)
    BY <2>1, SeqDef
  <2>3. DOMAIN t = 1..n /\ DOMAIN t = 1..Len(t) /\ Len(t) \in Nat
    BY <2>1, <2>2, LenProperties
  <2> QED
    BY <2>2, <2>3
<1>2. \A k \in 1..n : t[k] = input
  OBVIOUS
<1> HIDE DEF t
<1>3. /\ o \o t \in Seq(Position) /\ Len(o \o t) = Len(o) + n /\ Len(o) \in Nat
      /\ \A p \in 1..(Len(o) + n) : (o \o t)[p] = IF p <= Len(o) THEN o[p] ELSE t[p - Len(o)]
  <2>1. Len(o) \in Nat
    BY LenProperties
  <2> QED
    BY <1>1, <2>1, ConcatProperties
<1>4. ASSUME NEW p \in (Len(o) + 1)..(Len(o) + n) PROVE (o \o t)[p] = input
  <2>1. p - Len(o) \in 1..n /\ p \in 1..(Len(o) + n) /\ ~(p <= Len(o))
    BY <1>3
  <2> QED
    BY <1>2, <1>3, <2>1
<1>5. \A p \in 1..Len(o) : (o \o t)[p] = o[p]
  BY <1>3
<1> QED
  BY <1>3, <1>4, <1>5 DEF t

\* What the type invariant says, from its stronger form.
LEMMA TypedIsTypeOK == Typed => TypeOK
<1> SUFFICES ASSUME Typed PROVE TypeOK
  OBVIOUS
<1>1. ASSUME NEW key \in DOMAIN calls
      PROVE  /\ key \in Position \X {"plan", "work", "summarize"}
                          \X (0..MaxMessages) \X (0..MaxSubtasks)
             /\ calls[key].request.history \in History
             /\ calls[key].result \in Result(key) \cup {Running}
  BY DEF Typed, Key, Call
<1>2. \A key \in DOMAIN said : said[key] \subseteq Position
  BY DEF Typed
<1>3. owner \in [1..committed -> Position]
  BY DEF Typed
<1>4. ASSUME Active
      PROVE  /\ router.at \in {"plan", "work", "poll", "progress", "summarize",
                               "answer", "fail", "commit"}
             /\ router.position \in Input..Len(inbox)
             /\ router.query \in Seq(SUBSET (Input..router.position))
  <2>1. /\ router \in Reconciliation /\ router.position \in Input..Len(inbox)
        /\ \A i \in 1..Len(router.query) : router.query[i] \subseteq Input..router.position
    BY <1>4 DEF Typed
  <2>2. router.query \in Seq(SUBSET Position)
    BY <2>1 DEF Reconciliation
  <2>3. router.query \in [1..Len(router.query) -> SUBSET (Input..router.position)]
    BY <2>1, <2>2
  <2>4. Len(router.query) \in Nat
    BY <2>2
  <2> QED
    BY <2>1, <2>3, <2>4 DEF Reconciliation, Place
<1> QED
  BY <1>1, <1>2, <1>3, <1>4 DEF TypeOK, Typed, Active

-----------------------------------------------------------------------------
\* Where the reconciliation is.

\* The bounds of an input, a round and their keys.
LEMMA InputBounds ==
  ASSUME Typed, Active
  PROVE  /\ committed \in Nat /\ Input \in Position /\ Input <= router.position
         /\ router.position \in Position /\ router.position <= Len(inbox)
         /\ Round \in 0..MaxMessages
         /\ router \in Reconciliation /\ Request \in [history : History, query : Seq(SUBSET Position)]
<1>1. /\ committed \in Nat /\ Len(inbox) \in Nat /\ Len(inbox) <= MaxMessages /\ MaxMessages \in Nat
      /\ router \in Reconciliation /\ router.position \in Input..Len(inbox)
  BY RouterBounds DEF Typed
<1>2. Input \in Nat /\ Input >= 1 /\ Input = committed + 1
  BY <1>1 DEF Input
<1>3. router.query \in Seq(SUBSET Position) /\ Len(router.query) \in Nat
      /\ router.position \in Nat
  BY <1>1 DEF Reconciliation
<1>4. Len(router.query) >= 1 /\ Len(router.query) <= router.position - committed
  <2>1. /\ Len(router.query) >= 1
        /\ Len(router.query) + (IF router.additions = {} THEN 0 ELSE 1) <= router.position - committed
    BY DEF Typed
  <2> QED
    <3>1. CASE router.additions = {}
      BY <2>1, <3>1
    <3>2. CASE router.additions # {}
      <4>1. Len(router.query) + 1 <= router.position - committed
        BY <2>1, <3>2
      <4> QED
        BY <1>1, <1>3, <2>1, <4>1
    <3> QED
      BY <3>1, <3>2
<1>5. Round \in 0..MaxMessages
  BY <1>1, <1>2, <1>3, <1>4 DEF Round
<1>6. Request \in [history : History, query : Seq(SUBSET Position)]
  BY <1>1 DEF Request, Reconciliation
<1> QED
  BY <1>1, <1>2, <1>3, <1>5, <1>6 DEF Position

\* A move changes the place and nothing else.
LEMMA GotoMoves ==
  ASSUME Typed, Active, NEW place \in Place, Goto(place)
  PROVE  /\ Active' /\ router' \in Reconciliation /\ router'.at = place
         /\ router'.position = router.position /\ router'.history = router.history
         /\ router'.query = router.query /\ router'.additions = router.additions
<1>1. router \in Reconciliation
  BY DEF Typed
<1>2. /\ router' \in Reconciliation /\ router'.at = place
      /\ router'.position = router.position /\ router'.history = router.history
      /\ router'.query = router.query /\ router'.additions = router.additions
  BY <1>1 DEF Goto, Reconciliation
<1>3. Active'
  BY <1>2 DEF Active, Idle, Place
<1> QED
  BY <1>2, <1>3

\* A move between the steps of a reconciliation: the condition of each step is
\* what the step before it has established.
LEMMA MoveKeeps ==
  ASSUME RouterInv, Active, NEW place \in Place, place # "progress", Goto(place),
         UNCHANGED <<inbox, committed, calls, said, owner>>, faults' \in 0..MaxFaults,
         place \in {"plan", "work", "summarize", "answer"} => router.additions = {},
         place = "work" => Succeeded(PlanKey) /\ Tasks \in 1..MaxSubtasks,
         place \in {"poll", "progress", "summarize", "answer"} => Complete(Input, Round),
         place = "answer" => Issued(SummaryKey) /\ calls[SummaryKey].request = Request,
         place = "commit" =>
           \/ FailureKey(Input) \in DOMAIN said
           \/ /\ AnswerKey(Input) \in DOMAIN said
              /\ said[AnswerKey(Input)] = Covered /\ router.additions = {}
  PROVE  RouterInv'
<1> USE DEF RouterInv
<1>1. /\ Active' /\ router' \in Reconciliation /\ router'.at = place
      /\ router'.position = router.position /\ router'.history = router.history
      /\ router'.query = router.query /\ router'.additions = router.additions
  BY GotoMoves
<1>2. /\ Input' = Input /\ Round' = Round /\ Covered' = Covered /\ Request' = Request
      /\ PlanKey' = PlanKey /\ SummaryKey' = SummaryKey /\ Tasks' = Tasks
  BY <1>1 DEF Input, Round, Covered, Request, PlanKey, SummaryKey, Tasks
<1>3. \A k : (Issued(k)' <=> Issued(k)) /\ (Succeeded(k)' <=> Succeeded(k))
  BY DEF Issued, Succeeded
<1>4. \A i, r : Complete(i, r)' <=> Complete(i, r)
  BY <1>3 DEF Complete
<1>5. Typed'
  BY <1>1, <1>2 DEF Typed
<1>6. UsersTaken'
  BY <1>1, <1>2 DEF UsersTaken, FromUser
<1>7. RoundsDone'
  BY <1>1, <1>2, <1>3, <1>4 DEF RoundsDone
<1>8. SaidOfInputs' /\ AnswerOfSummary'
  BY <1>1, <1>2, <1>3 DEF SaidOfInputs, AnswerOfSummary
<1>9. RepliedBeforeCommit'
  BY <1>1, <1>2 DEF RepliedBeforeCommit
<1>10. RepliedBeforeConsumed' /\ EvidenceComplete'
  BY <1>3 DEF RepliedBeforeConsumed, FromUser, EvidenceComplete, RoundsTold
<1> QED
  BY <1>5, <1>6, <1>7, <1>8, <1>9, <1>10

\* The steps that only move, and the failures that end a step.
LEMMA MovesKeep ==
  ASSUME RouterInv,
         Planned \/ Worked \/ StepFails \/ Summarized \/ Answered \/ CallFails
  PROVE  RouterInv'
<1> USE DEF RouterInv
<1>1. Active
  BY DEF Planned, Worked, StepFails, Summarized, Answered, CallFails, Fault, Active, Idle
<1>2. faults \in 0..MaxFaults
  BY DEF Typed
<1>3. CASE Planned
  <2>1. /\ router.at = "plan" /\ Succeeded(PlanKey) /\ router.additions = {}
        /\ UNCHANGED <<inbox, committed, calls, said, faults, owner>>
    BY <1>1, <1>3 DEF Planned, Returned, Succeeded, Local, UsersTaken
  <2>2. Goto(IF ~Acceptable THEN "fail" ELSE IF Tasks = 0 THEN "poll" ELSE "work")
    BY <1>3 DEF Planned
  <2>3. CASE ~Acceptable
    <3>1. Goto("fail")
      BY <2>2, <2>3
    <3> QED
      BY <1>1, <1>2, <2>1, <3>1, MoveKeeps DEF Place
  <2>4. CASE Acceptable /\ Tasks = 0
    <3>1. Goto("poll")
      BY <2>2, <2>4
    <3>2. Complete(Input, Round)
      BY <2>1, <2>4 DEF Complete, PlanKey, Tasks
    <3> QED
      BY <1>1, <1>2, <2>1, <3>1, <3>2, MoveKeeps DEF Place
  <2>5. CASE Acceptable /\ Tasks # 0
    <3>1. Goto("work")
      BY <2>2, <2>5
    <3>2. Tasks \in 1..MaxSubtasks
      BY <2>5, RouterBounds DEF Acceptable
    <3> QED
      BY <1>1, <1>2, <2>1, <3>1, <3>2, MoveKeeps DEF Place
  <2> QED
    BY <2>3, <2>4, <2>5
<1>4. CASE Worked
  <2>1. /\ router.at = "work" /\ Succeeded(PlanKey) /\ BatchReturned /\ Goto("poll")
        /\ UNCHANGED <<inbox, committed, calls, said, faults, owner>>
    BY <1>1, <1>4 DEF Worked, Local, RoundsDone
  <2>2. Complete(Input, Round)
    BY <2>1 DEF BatchReturned, Returned, Succeeded, Complete, PlanKey, WorkKey, Tasks
  <2> QED
    BY <1>1, <1>2, <2>1, <2>2, MoveKeeps DEF Place
<1>5. CASE StepFails \/ CallFails
  <2>1. /\ Goto("fail") /\ UNCHANGED <<inbox, committed, calls, said, owner>>
        /\ faults' \in 0..MaxFaults
    BY <1>2, <1>5, RouterBounds DEF StepFails, CallFails, Fault, Local
  <2> QED
    BY <1>1, <2>1, MoveKeeps DEF Place
<1>6. CASE Summarized
  <2>1. /\ router.at = "summarize" /\ Goto("answer")
        /\ Issued(SummaryKey) /\ calls[SummaryKey].request = Request
        /\ UNCHANGED <<inbox, committed, calls, said, faults, owner>>
    BY <1>6 DEF Summarized, Returned, Conflicts, Local
  <2>2. router.additions = {} /\ Complete(Input, Round)
    BY <1>1, <2>1 DEF UsersTaken, RoundsDone
  <2> QED
    BY <1>1, <1>2, <2>1, <2>2, MoveKeeps DEF Place
<1>7. CASE Answered
  <2>1. /\ router.at = "answer" /\ Goto("commit") /\ AnswerKey(Input) \in DOMAIN said
        /\ UNCHANGED <<inbox, committed, calls, said, faults, owner>>
    BY <1>7 DEF Answered, Local
  <2>2. router.additions = {} /\ said[AnswerKey(Input)] = Covered
    BY <1>1, <2>1 DEF UsersTaken, AnswerOfSummary, Request, Covered
  <2> QED
    BY <1>1, <1>2, <2>1, <2>2, MoveKeeps DEF Place
<1> QED
  BY <1>3, <1>4, <1>5, <1>6, <1>7

-----------------------------------------------------------------------------
\* Harness calls.

\* No call is asked anything else, and a result that is there stays.
CallsGrow ==
  \A k \in DOMAIN calls :
    /\ k \in DOMAIN calls' /\ calls'[k].request = calls[k].request
    /\ calls[k].result.outcome = "ok" => calls'[k].result = calls[k].result

\* A round that is complete stays so.
LEMMA CompleteKept ==
  ASSUME CallsGrow
  PROVE  /\ \A k : Issued(k) => Issued(k)'
         /\ \A k : Succeeded(k) => Succeeded(k)' /\ calls'[k].result = calls[k].result
         /\ \A i, r : Complete(i, r) => Complete(i, r)'
<1>1. \A k : Issued(k) => Issued(k)'
  BY DEF CallsGrow, Issued
<1>2. \A k : Succeeded(k) => Succeeded(k)' /\ calls'[k].result = calls[k].result
  BY DEF CallsGrow, Issued, Succeeded
<1>3. ASSUME NEW i, NEW r, Complete(i, r) PROVE Complete(i, r)'
  BY <1>2, <1>3 DEF Complete
<1> QED
  BY <1>1, <1>2, <1>3

\* Prompts and results leave everything but the calls as it is.
LEMMA CallsKeep ==
  ASSUME RouterInv, CallsGrow, UNCHANGED <<inbox, committed, said, router, faults, owner>>,
         calls' \in [DOMAIN calls' -> Call], DOMAIN calls' \subseteq Key,
         \A key \in DOMAIN calls' : calls'[key].result \in Result(key) \cup {Running},
         EvidenceComplete'
  PROVE  RouterInv'
<1> USE DEF RouterInv
<1>1. /\ \A k : Issued(k) => Issued(k)'
      /\ \A k : Succeeded(k) => Succeeded(k)' /\ calls'[k].result = calls[k].result
      /\ \A i, r : Complete(i, r) => Complete(i, r)'
  BY CompleteKept
<1>2. /\ Input' = Input /\ Round' = Round /\ Covered' = Covered /\ Request' = Request
      /\ PlanKey' = PlanKey /\ SummaryKey' = SummaryKey /\ Active' = Active
  BY DEF Input, Round, Covered, Request, PlanKey, SummaryKey, Active
<1>3. Typed'
  BY <1>2 DEF Typed
<1>4. UsersTaken' /\ SaidOfInputs' /\ RepliedBeforeCommit' /\ RepliedBeforeConsumed'
  BY <1>2 DEF UsersTaken, SaidOfInputs, RepliedBeforeCommit, RepliedBeforeConsumed, FromUser
<1>5. RoundsDone'
  BY <1>1, <1>2 DEF RoundsDone, Tasks
<1>6. AnswerOfSummary'
  BY <1>1, <1>2 DEF AnswerOfSummary, CallsGrow, Issued
<1> QED
  BY <1>3, <1>4, <1>5, <1>6

\* Evidence stays, and a call that is added brings its own.
LEMMA EvidenceKept ==
  ASSUME EvidenceComplete, CallsGrow,
         \A key \in DOMAIN calls' \ DOMAIN calls :
           \A r \in 0..(RoundsTold(key)' - 1) : Complete(key[1], r)'
  PROVE  EvidenceComplete'
<1>1. \A key \in DOMAIN calls : \A r \in 0..(RoundsTold(key) - 1) : Complete(key[1], r)
  BY DEF EvidenceComplete, Complete
<1>2. \A key \in DOMAIN calls : RoundsTold(key)' = RoundsTold(key)
  BY DEF CallsGrow, RoundsTold
<1>3. \A i, r : Complete(i, r) => Complete(i, r)'
  BY CompleteKept
<1>4. \A key \in DOMAIN calls' : \A r \in 0..(RoundsTold(key)' - 1) : Complete(key[1], r)'
  BY <1>1, <1>2, <1>3
<1> QED
  BY <1>4 DEF EvidenceComplete, Complete

\* A prompt of the current round: what it tells about has returned.
LEMMA PromptKeeps ==
  ASSUME RouterInv, Active, NEW key \in Key, Prompt(key), key[1] = Input,
         \A r \in 0..(Round - (IF key[2] = "summarize" THEN 0 ELSE 1)) : Complete(Input, r)
  PROVE  RouterInv'
<1> USE DEF RouterInv
<1> DEFINE call == [request |-> Request, result |-> Running]
<1>1. /\ ~Issued(key) /\ calls' = Added(calls, key, call)
      /\ UNCHANGED <<inbox, committed, said, router, faults, owner>>
  BY DEF Prompt
<1>2. call \in Call
  <2>1. Request \in [history : History, query : Seq(SUBSET Position)]
    BY InputBounds
  <2>2. Running \in [outcome : {"running", "ok", "error"}, tasks : 0..MaxSubtasks + 1]
    BY RouterBounds DEF Running
  <2> QED
    BY <2>1, <2>2 DEF Call
<1>3. call.request = Request /\ call.result = Running
  OBVIOUS
<1> HIDE DEF call
<1>4. /\ DOMAIN calls' = DOMAIN calls \cup {key} /\ \A k \in DOMAIN calls : calls'[k] = calls[k]
      /\ calls'[key] = call
  BY <1>1 DEF Added, Issued
<1>5. calls' \in [DOMAIN calls' -> Call] /\ DOMAIN calls' \subseteq Key
  BY <1>1, <1>2, <1>4, AddedType DEF Typed
<1>6. \A k \in DOMAIN calls' : calls'[k].result \in Result(k) \cup {Running}
  BY <1>3, <1>4 DEF Typed
<1>7. CallsGrow
  BY <1>4 DEF CallsGrow
<1>8. RoundsTold(key)' - 1 = Round - (IF key[2] = "summarize" THEN 0 ELSE 1)
  <2>1. RoundsTold(key)' = Len(router.query) - (IF key[2] = "summarize" THEN 0 ELSE 1)
    BY <1>3, <1>4 DEF RoundsTold, Request
  <2>2. Len(router.query) \in Nat
    BY InputBounds DEF Reconciliation
  <2> QED
    BY <2>1, <2>2 DEF Round
<1>9. \A r \in 0..(RoundsTold(key)' - 1) : Complete(key[1], r)'
  BY <1>7, <1>8, CompleteKept
<1>10. EvidenceComplete'
  BY <1>4, <1>7, <1>9, EvidenceKept
<1> QED
  BY <1>1, <1>5, <1>6, <1>7, <1>10, CallsKeep

\* Planning, the batch and the summary: each is asked over finished batches.
LEMMA PromptsKeep ==
  ASSUME RouterInv, Plan \/ Work \/ Summarize PROVE RouterInv'
<1> USE DEF RouterInv
<1>1. Active
  BY DEF Plan, Work, Summarize, Active, Idle
<1>2. Input \in Position /\ Round \in 0..MaxMessages /\ 0 \in 0..MaxMessages
  BY <1>1, InputBounds, RouterBounds
<1>3. \A r \in 0..(Round - 1) : Complete(Input, r)
  BY <1>1 DEF RoundsDone
<1>4. CASE Plan
  <2>1. PlanKey \in Key /\ PlanKey[1] = Input /\ PlanKey[2] # "summarize"
    BY <1>2, RouterBounds DEF PlanKey, Key
  <2>2. Prompt(PlanKey)
    BY <1>4 DEF Plan
  <2> QED
    BY <1>1, <1>3, <2>1, <2>2, PromptKeeps
<1>5. CASE Work
  <2>1. router.at = "work" /\ Tasks \in 1..MaxSubtasks
    BY <1>1, <1>5 DEF Work, RoundsDone
  <2>2. PICK k \in 1..Tasks : Prompt(WorkKey(k))
    BY <1>5 DEF Work
  <2>3. WorkKey(k) \in Key /\ WorkKey(k)[1] = Input /\ WorkKey(k)[2] # "summarize"
    BY <1>2, <2>1, RouterBounds DEF WorkKey, Key
  <2> QED
    BY <1>1, <1>3, <2>2, <2>3, PromptKeeps
<1>6. CASE Summarize
  <2>1. router.at = "summarize" /\ Prompt(SummaryKey)
    BY <1>6 DEF Summarize
  <2>2. SummaryKey \in Key /\ SummaryKey[1] = Input /\ SummaryKey[2] = "summarize"
    BY <1>2, RouterBounds DEF SummaryKey, Key
  <2>3. \A r \in 0..Round : Complete(Input, r)
    <3>1. Complete(Input, Round)
      BY <1>1, <2>1 DEF RoundsDone
    <3>2. ASSUME NEW r \in 0..Round PROVE r = Round \/ r \in 0..(Round - 1)
      BY <1>2
    <3> QED
      BY <1>3, <3>1, <3>2
  <2>4. Round - 0 = Round
    BY <1>2
  <2> QED
    BY <1>1, <2>1, <2>2, <2>3, <2>4, PromptKeeps
<1> QED
  BY <1>4, <1>5, <1>6

\* A call ends: only one that was running has a new result.
LEMMA EndCallKeeps ==
  ASSUME RouterInv, NEW key \in DOMAIN calls, EndCall(key) PROVE RouterInv'
<1> USE DEF RouterInv
<1>1. PICK result \in Result(key) : calls' = [calls EXCEPT ![key].result = result]
  BY DEF EndCall
<1>2. calls[key].result = Running /\ UNCHANGED <<inbox, committed, said, router, faults, owner>>
  BY DEF EndCall
<1>3. calls \in [DOMAIN calls -> Call] /\ calls[key] \in Call /\ DOMAIN calls \subseteq Key
  BY DEF Typed
<1>4. result \in [outcome : {"running", "ok", "error"}, tasks : 0..MaxSubtasks + 1]
  BY RouterBounds DEF Result
<1>5. /\ [calls[key] EXCEPT !.result = result] \in Call
      /\ [calls[key] EXCEPT !.result = result].request = calls[key].request
      /\ [calls[key] EXCEPT !.result = result].result = result
  BY <1>3, <1>4 DEF Call
<1>6. /\ calls' \in [DOMAIN calls -> Call] /\ DOMAIN calls' = DOMAIN calls
      /\ calls'[key].request = calls[key].request /\ calls'[key].result = result
      /\ \A k \in DOMAIN calls \ {key} : calls'[k] = calls[k]
  BY <1>1, <1>3, <1>5
<1>7. \A k \in DOMAIN calls' : calls'[k].result \in Result(k) \cup {Running}
  BY <1>6 DEF Typed
<1>8. CallsGrow
  BY <1>2, <1>6 DEF CallsGrow, Running
<1>9. EvidenceComplete'
  BY <1>6, <1>8, EvidenceKept
<1> QED
  BY <1>2, <1>3, <1>6, <1>7, <1>8, <1>9, CallsKeep

-----------------------------------------------------------------------------
\* The inbox, and the beginning of a reconciliation.

\* Polling the first message takes it, whoever wrote it.
LEMMA ReceiveKeeps == ASSUME RouterInv, Receive PROVE RouterInv'
<1> USE DEF RouterInv
<1>1. /\ router = Idle /\ committed < Len(inbox)
      /\ UNCHANGED <<inbox, committed, calls, said, faults, owner>>
  BY DEF Receive
<1>2. PICK history \in History, place \in {"plan", "fail"} :
        router' = [at |-> place, position |-> committed + 1, history |-> history,
                   query |-> <<{committed + 1}>>, additions |-> {}]
  BY DEF Receive
<1>3. /\ committed \in Nat /\ Len(inbox) \in Nat /\ Len(inbox) <= MaxMessages /\ MaxMessages \in Nat
  BY RouterBounds DEF Typed
<1>4. committed + 1 \in Position /\ committed + 1 \in (committed + 1)..Len(inbox)
      /\ (committed + 1) - committed = 1
  BY <1>1, <1>3 DEF Position
<1>5. /\ <<{committed + 1}>> \in Seq(SUBSET Position) /\ Len(<<{committed + 1}>>) = 1
      /\ <<{committed + 1}>>[1] = {committed + 1}
  BY <1>4
<1>6. /\ router'.at = place /\ router'.position = committed + 1 /\ router'.history = history
      /\ router'.query = <<{committed + 1}>> /\ router'.additions = {}
      /\ router' \in Reconciliation
  BY <1>2, <1>3, <1>5 DEF Reconciliation, Place
<1>7. Active' /\ Input' = Input /\ Input = committed + 1
  BY <1>1, <1>6 DEF Active, Idle, Input
<1>8. Typed'
  <2>1. /\ router'.position \in Input..Len(inbox) /\ Len(router'.query) = 1
        /\ Len(router'.query) + 0 <= router'.position - committed
    BY <1>3, <1>4, <1>5, <1>6, <1>7
  <2>2. \A i \in 1..Len(router'.query) : router'.query[i] \subseteq Input..router'.position
    BY <1>3, <1>5, <1>6, <1>7
  <2> QED
    BY <1>1, <1>6, <1>7, <2>1, <2>2 DEF Typed
<1>9. UsersTaken'
  <2>1. Covered' = {committed + 1}
    BY <1>6, CoveredFirst DEF Covered
  <2>2. \A p \in Input..(committed + 1) : p = committed + 1
    BY <1>3, <1>7
  <2> QED
    BY <1>6, <1>7, <2>1, <2>2 DEF UsersTaken
<1>10. RoundsDone'
  <2>1. Round' = 0
    BY <1>5, <1>6 DEF Round
  <2> QED
    BY <1>6, <2>1 DEF RoundsDone
<1>11. SaidOfInputs' /\ AnswerOfSummary' /\ RepliedBeforeCommit'
  BY <1>1, <1>6, <1>7 DEF SaidOfInputs, AnswerOfSummary, RepliedBeforeCommit, SummaryKey, Issued
<1>12. RepliedBeforeConsumed' /\ EvidenceComplete'
  BY <1>1 DEF RepliedBeforeConsumed, FromUser, EvidenceComplete, RoundsTold, Succeeded, Issued
<1> QED
  BY <1>8, <1>9, <1>10, <1>11, <1>12

\* A message is added behind all that was taken.
LEMMA PostKeeps == ASSUME RouterInv, Post PROVE RouterInv'
<1> USE DEF RouterInv
<1>1. PICK kind \in Kind : inbox' = Append(inbox, kind)
  BY DEF Post
<1>2. Len(inbox) < MaxMessages /\ UNCHANGED <<committed, calls, said, router, faults, owner>>
  BY DEF Post
<1>3. inbox \in Seq(Kind) /\ Len(inbox) \in Nat /\ committed \in 0..Len(inbox) /\ MaxMessages \in Nat
  BY RouterBounds DEF Typed
<1>4. /\ inbox' \in Seq(Kind) /\ Len(inbox') = Len(inbox) + 1
      /\ \A p \in 1..Len(inbox) : inbox'[p] = inbox[p]
  BY <1>1, <1>3, AppendProperties
<1>5. /\ Input' = Input /\ Round' = Round /\ Covered' = Covered /\ Request' = Request
      /\ PlanKey' = PlanKey /\ SummaryKey' = SummaryKey /\ Active' = Active /\ Tasks' = Tasks
  BY <1>2 DEF Input, Round, Covered, Request, PlanKey, SummaryKey, Active, Tasks
<1>6. \A p \in 1..Len(inbox) : FromUser(p)' <=> FromUser(p)
  BY <1>4 DEF FromUser
<1>7. Typed'
  <2>1. Active => router.position \in Input..Len(inbox')
    BY <1>3, <1>4 DEF Typed, Input
  <2>2. committed \in 0..Len(inbox') /\ Len(inbox') <= MaxMessages
    BY <1>2, <1>3, <1>4
  <2> QED
    BY <1>2, <1>4, <1>5, <2>1, <2>2 DEF Typed, Result
<1>8. UsersTaken'
  <2>1. ASSUME Active, NEW p \in Input..router.position PROVE p \in 1..Len(inbox)
    BY <1>3, <2>1, InputBounds DEF Position
  <2> QED
    BY <1>2, <1>5, <1>6, <2>1 DEF UsersTaken
<1>9. RoundsDone' /\ SaidOfInputs' /\ AnswerOfSummary' /\ RepliedBeforeCommit' /\ EvidenceComplete'
  <2>1. \A k : (Issued(k)' <=> Issued(k)) /\ (Succeeded(k)' <=> Succeeded(k))
    BY <1>2 DEF Issued, Succeeded
  <2>2. \A i, r : Complete(i, r)' <=> Complete(i, r)
    BY <1>2, <2>1 DEF Complete
  <2>3. RoundsDone'
    BY <1>2, <1>5, <2>1, <2>2 DEF RoundsDone
  <2>4. SaidOfInputs' /\ AnswerOfSummary' /\ RepliedBeforeCommit'
    BY <1>2, <1>5, <2>1 DEF SaidOfInputs, AnswerOfSummary, RepliedBeforeCommit
  <2>5. EvidenceComplete'
    BY <1>2, <2>1 DEF EvidenceComplete, RoundsTold
  <2> QED
    BY <2>3, <2>4, <2>5
<1>10. RepliedBeforeConsumed'
  BY <1>2, <1>3, <1>6 DEF RepliedBeforeConsumed
<1> QED
  BY <1>7, <1>8, <1>9, <1>10

\* The process ends; what its calls and messages say stays.
LEMMA StopKeeps == ASSUME RouterInv, Stop PROVE RouterInv'
<1> USE DEF RouterInv
<1>1. /\ router' = Idle /\ faults' \in 0..MaxFaults
      /\ UNCHANGED <<inbox, committed, calls, said, owner>>
  BY RouterBounds DEF Stop, Fault, Typed
<1>2. ~Active' /\ Input' = Input /\ SummaryKey' = SummaryKey
  BY <1>1 DEF Active, Input, SummaryKey
<1>3. Typed'
  BY <1>1, <1>2 DEF Typed
<1>4. UsersTaken' /\ RoundsDone' /\ RepliedBeforeCommit'
  BY <1>2 DEF UsersTaken, RoundsDone, RepliedBeforeCommit
<1>5. SaidOfInputs' /\ AnswerOfSummary'
  BY <1>1, <1>2 DEF SaidOfInputs, AnswerOfSummary, Issued
<1>6. RepliedBeforeConsumed' /\ EvidenceComplete'
  BY <1>1 DEF RepliedBeforeConsumed, FromUser, EvidenceComplete, RoundsTold, Succeeded, Issued
<1> QED
  BY <1>3, <1>4, <1>5, <1>6

-----------------------------------------------------------------------------
\* Additions, replies and the commit.

\* A page that is polled: its user messages are additions, its end the new position.
LEMMA PollKeeps == ASSUME RouterInv, PollAdditions PROVE RouterInv'
<1> USE DEF RouterInv
<1>1. router.at = "poll" /\ Active /\ UNCHANGED <<inbox, committed, calls, said, faults, owner>>
  BY DEF PollAdditions, Local, Active, Idle
<1>2. /\ router \in Reconciliation /\ committed \in Nat /\ Len(inbox) \in Nat
      /\ router.position \in Input..Len(inbox) /\ router.position \in Nat
      /\ Len(inbox) <= MaxMessages /\ MaxMessages \in Nat /\ PageLimit \in Nat \ {0}
      /\ router.additions \subseteq Input..router.position
      /\ Input = committed + 1
  BY <1>1, RouterBounds DEF Typed, Reconciliation, Input
<1>3. PICK last \in router.position..Len(inbox) :
        \E users \in SUBSET ((router.position + 1)..last), place \in {"fail", "poll", "summarize", "progress"} :
          /\ \A p \in (router.position + 1)..last : FromUser(p) => p \in users
          /\ place = "summarize" => router.additions \cup users = {}
          /\ place = "progress" => router.additions \cup users # {}
          /\ router' = [router EXCEPT !.position = last,
                                      !.additions = router.additions \cup users,
                                      !.at = place]
  <2> DEFINE end == IF router.position + PageLimit < Len(inbox)
                    THEN router.position + PageLimit ELSE Len(inbox)
             page == router.position + 1 .. end
             users == {p \in page : FromUser(p)}
             full == Cardinality(page) = PageLimit
             additions == router.additions \cup users
             place == IF \E p \in users : ~HasText(p) THEN "fail"
                      ELSE IF full THEN "poll"
                      ELSE IF additions = {} THEN "summarize"
                      ELSE "progress"
  <2>1. end \in router.position..Len(inbox)
    BY <1>2
  <2>2. users \in SUBSET ((router.position + 1)..end)
        /\ \A p \in (router.position + 1)..end : FromUser(p) => p \in users
    OBVIOUS
  <2>3. place \in {"fail", "poll", "summarize", "progress"}
        /\ (place = "summarize" => additions = {})
        /\ (place = "progress" => additions # {})
    OBVIOUS
  <2>4. router' = [router EXCEPT !.position = end, !.additions = additions, !.at = place]
    BY DEF PollAdditions
  <2> HIDE DEF end, users, place
  <2> QED
    BY <2>1, <2>2, <2>3, <2>4
<1>4. PICK users \in SUBSET ((router.position + 1)..last),
           place \in {"fail", "poll", "summarize", "progress"} :
        /\ \A p \in (router.position + 1)..last : FromUser(p) => p \in users
        /\ place = "summarize" => router.additions \cup users = {}
        /\ place = "progress" => router.additions \cup users # {}
        /\ router' = [router EXCEPT !.position = last,
                                    !.additions = router.additions \cup users,
                                    !.at = place]
  BY <1>3
<1> DEFINE additions == router.additions \cup users
<1>5. additions \in SUBSET Position /\ last \in Nat /\ additions \subseteq Input..last
  <2>1. last \in Nat /\ router.position <= last /\ last <= MaxMessages /\ Input \in Nat /\ Input >= 1
        /\ Input <= router.position
    BY <1>2
  <2>2. ASSUME NEW p \in additions PROVE p \in Input..last /\ p \in Position
    <3>1. p \in Input..router.position \/ p \in (router.position + 1)..last
      BY <1>2
    <3> QED
      BY <1>2, <2>1, <3>1 DEF Position
  <2> QED
    BY <2>1, <2>2
<1>6. /\ router' \in Reconciliation /\ router'.at = place /\ router'.position = last
      /\ router'.history = router.history /\ router'.query = router.query
      /\ router'.additions = additions
  <2> HIDE DEF additions
  <2>1. router' = [router EXCEPT !.position = last, !.additions = additions, !.at = place]
    BY <1>4 DEF additions
  <2>2. place \in Place
    BY DEF Place
  <2> QED
    BY <1>2, <1>5, <2>1, <2>2 DEF Reconciliation
<1>7. /\ Active' /\ Input' = Input /\ Round' = Round /\ Covered' = Covered
      /\ Request' = Request /\ SummaryKey' = SummaryKey
  BY <1>1, <1>6 DEF Active, Idle, Input, Round, Covered, Request, SummaryKey
<1>8. \A k : (Issued(k)' <=> Issued(k)) /\ (Succeeded(k)' <=> Succeeded(k))
  BY <1>1 DEF Issued, Succeeded
<1>9. \A i, r : Complete(i, r)' <=> Complete(i, r)
  BY <1>1, <1>8 DEF Complete
<1>10. Typed'
  <2>1. Len(router.query) + (IF additions = {} THEN 0 ELSE 1) <= last - committed
    <3>1. Len(router.query) + (IF router.additions = {} THEN 0 ELSE 1)
            <= router.position - committed
      BY <1>1 DEF Typed
    <3>2. Len(router.query) \in Nat /\ last >= router.position /\ last \in Nat
      BY <1>2 DEF Reconciliation
    <3>3. CASE router.additions # {}
      <4>1. Len(router.query) + 1 <= router.position - committed /\ additions # {}
        BY <3>1, <3>3
      <4>2. Len(router.query) + 1 <= last - committed
        BY <1>2, <3>2, <4>1
      <4> QED
        BY <4>1, <4>2
    <3>4. CASE router.additions = {} /\ users = {}
      <4>1. Len(router.query) <= router.position - committed /\ additions = {}
        BY <3>1, <3>2, <3>4
      <4>2. Len(router.query) <= last - committed
        BY <1>2, <3>2, <4>1
      <4> QED
        BY <3>2, <4>1, <4>2
    <3>5. CASE router.additions = {} /\ users # {}
      <4>1. Len(router.query) <= router.position - committed /\ additions # {}
        BY <3>1, <3>2, <3>5
      <4>2. PICK p \in users : p \in (router.position + 1)..last
        BY <3>5
      <4>3. last >= router.position + 1
        BY <1>2, <3>2, <4>2
      <4>4. Len(router.query) + 1 <= last - committed
        BY <1>2, <3>2, <4>1, <4>3
      <4> QED
        BY <4>1, <4>4
    <3> QED
      BY <3>3, <3>4, <3>5
  <2>2. last \in Input..Len(inbox)
    BY <1>2
  <2>3. \A i \in 1..Len(router.query) : router.query[i] \subseteq Input..last
    <3>1. \A i \in 1..Len(router.query) : router.query[i] \subseteq Input..router.position
      BY <1>1 DEF Typed
    <3>2. Input..router.position \subseteq Input..last
      BY <1>2
    <3> QED
      BY <3>1, <3>2
  <2> HIDE DEF additions
  <2> QED
    BY <1>1, <1>5, <1>6, <1>7, <2>1, <2>2, <2>3 DEF Typed
<1>11. UsersTaken'
  <2>1. ASSUME NEW p \in Input..last, FromUser(p) PROVE p \in Covered \cup additions
    <3>1. p \in Input..router.position \/ p \in (router.position + 1)..last
      BY <1>2
    <3> QED
      BY <1>1, <1>4, <2>1, <3>1 DEF UsersTaken
  <2>2. /\ place \in {"plan", "work", "summarize", "answer"} => additions = {}
        /\ place = "progress" => additions # {}
    BY <1>4
  <2> QED
    BY <1>1, <1>6, <1>7, <2>1, <2>2 DEF UsersTaken, FromUser
<1>12. RoundsDone'
  BY <1>1, <1>6, <1>7, <1>9 DEF RoundsDone
<1>13. SaidOfInputs' /\ AnswerOfSummary' /\ RepliedBeforeCommit'
  BY <1>1, <1>6, <1>7, <1>8 DEF SaidOfInputs, AnswerOfSummary, RepliedBeforeCommit
<1>14. RepliedBeforeConsumed' /\ EvidenceComplete'
  BY <1>1, <1>8 DEF RepliedBeforeConsumed, FromUser, EvidenceComplete, RoundsTold
<1> QED
  BY <1>10, <1>11, <1>12, <1>13, <1>14

\* What is said: typed, and nothing said before is changed.
LEMMA SpeakAdds ==
  ASSUME RouterInv, NEW key, key[1] = Input, NEW about \in SUBSET Position, Speak(key, about)
  PROVE  /\ said' \in [DOMAIN said' -> SUBSET Position]
         /\ DOMAIN said' = DOMAIN said \cup {key}
         /\ \A k \in DOMAIN said : said'[k] = said[k]
         /\ key \notin DOMAIN said => said'[key] = about
         /\ UNCHANGED <<inbox, committed, calls, faults, owner>>
         /\ SaidOfInputs' /\ RepliedBeforeConsumed' /\ EvidenceComplete'
<1> USE DEF RouterInv
<1>1. said' = Added(said, key, about) /\ UNCHANGED <<inbox, committed, calls, faults, owner>>
  BY DEF Speak
<1>2. /\ said' \in [DOMAIN said' -> SUBSET Position]
      /\ DOMAIN said' = DOMAIN said \cup {key}
      /\ \A k \in DOMAIN said : said'[k] = said[k]
      /\ key \notin DOMAIN said => said'[key] = about
  BY <1>1 DEF Added, Typed
<1>3. SaidOfInputs'
  <2>1. committed \in Nat
    BY RouterBounds DEF Typed
  <2> QED
    BY <1>1, <1>2, <2>1 DEF SaidOfInputs, Input
<1>4. RepliedBeforeConsumed' /\ EvidenceComplete'
  BY <1>1, <1>2 DEF RepliedBeforeConsumed, FromUser, EvidenceComplete, RoundsTold, Succeeded, Issued
<1> QED
  BY <1>1, <1>2, <1>3, <1>4

\* The additions become the next batch of the query; the round they follow is complete.
LEMMA ProgressKeeps == ASSUME RouterInv, Progress PROVE RouterInv'
<1> USE DEF RouterInv
<1> DEFINE query == Append(router.query, router.additions)
<1>1. /\ router.at = "progress" /\ Active /\ Speak(<<Input, "progress", Round>>, Covered)
      /\ router' = [router EXCEPT !.at = "plan", !.additions = {}, !.query = query]
  BY DEF Progress, Active, Idle
<1>2. /\ router \in Reconciliation /\ router.query \in Seq(SUBSET Position)
      /\ router.additions \in SUBSET Position /\ router.additions # {}
      /\ Len(router.query) \in Nat /\ router.position \in Nat /\ committed \in Nat
      /\ Complete(Input, Round) /\ Round \in Nat
  BY <1>1, InputBounds DEF Reconciliation, UsersTaken, RoundsDone
<1>3. Covered \in SUBSET Position
  BY <1>2 DEF Covered, Range
<1>4. /\ said' \in [DOMAIN said' -> SUBSET Position]
      /\ DOMAIN said' = DOMAIN said \cup {<<Input, "progress", Round>>}
      /\ \A k \in DOMAIN said : said'[k] = said[k]
      /\ UNCHANGED <<inbox, committed, calls, faults, owner>>
      /\ SaidOfInputs' /\ RepliedBeforeConsumed' /\ EvidenceComplete'
  <2>1. <<Input, "progress", Round>>[1] = Input
    OBVIOUS
  <2> QED
    BY <1>1, <1>3, <2>1, SpeakAdds
<1>5. /\ query \in Seq(SUBSET Position) /\ Len(query) = Len(router.query) + 1
      /\ \A i \in 1..Len(router.query) : query[i] = router.query[i]
      /\ query[Len(router.query) + 1] = router.additions
  BY <1>2, AppendProperties
<1>6. UNION Range(query) = Covered \cup router.additions
  <2>1. UNION Range(query) = (UNION Range(router.query)) \cup router.additions
    <3>1. PICK q \in Seq(SUBSET Position) : q = router.query
      BY <1>2
    <3>2. PICK a \in SUBSET Position : a = router.additions
      BY <1>2
    <3>3. UNION Range(Append(q, a)) = (UNION Range(q)) \cup a
      BY CoveredAppends
    <3> QED
      BY <3>1, <3>2, <3>3
  <2> QED
    BY <2>1 DEF Covered
<1> HIDE DEF query
<1>7. /\ router' \in Reconciliation /\ router'.at = "plan" /\ router'.position = router.position
      /\ router'.additions = {} /\ router'.query = query
  BY <1>1, <1>2, <1>5 DEF Reconciliation, Place
<1>8. /\ Active' /\ Input' = Input /\ Round' = Round + 1 /\ SummaryKey' = SummaryKey
      /\ Covered' = Covered \cup router.additions
  <2>1. Active' /\ Input' = Input /\ SummaryKey' = SummaryKey
    BY <1>4, <1>7 DEF Active, Idle, Input, SummaryKey
  <2>2. Round' = Len(query) - 1
    BY <1>7 DEF Round
  <2>3. Round' = Round + 1
    BY <1>2, <1>5, <2>2 DEF Round
  <2>4. Covered' = Covered \cup router.additions
    BY <1>6, <1>7 DEF Covered
  <2> QED
    BY <2>1, <2>3, <2>4
<1>9. Typed'
  <2>1. Len(router.query) + 1 <= router.position - committed
    BY <1>1, <1>2 DEF Typed
  <2>2. Len(query) >= 1 /\ Len(query) + 0 <= router.position - committed
    BY <1>2, <1>5, <2>1
  <2>3. ASSUME NEW i \in 1..Len(query) PROVE query[i] \subseteq Input..router.position
    <3>1. i \in 1..Len(router.query) \/ i = Len(router.query) + 1
      BY <1>2, <1>5
    <3> QED
      BY <1>1, <1>5, <3>1 DEF Typed
  <2> QED
    BY <1>1, <1>4, <1>7, <1>8, <2>2, <2>3 DEF Typed
<1>10. UsersTaken'
  BY <1>1, <1>4, <1>7, <1>8 DEF UsersTaken, FromUser
<1>11. RoundsDone'
  <2>1. \A r \in 0..Round : Complete(Input, r)
    <3>1. \A r \in 0..Round : r = Round \/ r \in 0..(Round - 1)
      BY <1>2
    <3> QED
      BY <1>1, <1>2, <3>1 DEF RoundsDone
  <2>2. \A i, r : Complete(i, r)' <=> Complete(i, r)
    BY <1>4 DEF Complete, Succeeded, Issued
  <2>3. Round' - 1 = Round
    BY <1>2, <1>8
  <2> QED
    BY <1>7, <1>8, <2>1, <2>2, <2>3 DEF RoundsDone
<1>12. AnswerOfSummary' /\ RepliedBeforeCommit'
  <2>1. AnswerKey(Input) # <<Input, "progress", Round>>
    BY DEF AnswerKey
  <2> QED
    BY <1>4, <1>7, <1>8, <2>1 DEF AnswerOfSummary, RepliedBeforeCommit, Issued
<1> QED
  BY <1>4, <1>9, <1>10, <1>11, <1>12

\* The answer is about what the summary was asked.
LEMMA AnswerKeeps == ASSUME RouterInv, Answer PROVE RouterInv'
<1> USE DEF RouterInv
<1>1. /\ router.at = "answer" /\ Active /\ AnswerKey(Input) \notin DOMAIN said
      /\ Speak(AnswerKey(Input), Covered) /\ UNCHANGED router
  BY DEF Answer, Active, Idle
<1>2. Covered \in SUBSET Position
  BY <1>1, InputBounds DEF Covered, Range, Reconciliation
<1>3. AnswerKey(Input)[1] = Input
  BY DEF AnswerKey
<1>4. /\ said' \in [DOMAIN said' -> SUBSET Position]
      /\ DOMAIN said' = DOMAIN said \cup {AnswerKey(Input)}
      /\ said'[AnswerKey(Input)] = Covered
      /\ UNCHANGED <<inbox, committed, calls, faults, owner>>
      /\ SaidOfInputs' /\ RepliedBeforeConsumed' /\ EvidenceComplete'
  BY <1>1, <1>2, <1>3, SpeakAdds
<1>5. /\ Input' = Input /\ Round' = Round /\ Covered' = Covered /\ Request' = Request
      /\ PlanKey' = PlanKey /\ SummaryKey' = SummaryKey /\ Active' = Active /\ Tasks' = Tasks
  BY <1>1, <1>4 DEF Input, Round, Covered, Request, PlanKey, SummaryKey, Active, Tasks
<1>6. Typed' /\ UsersTaken'
  BY <1>1, <1>4, <1>5 DEF Typed, UsersTaken, FromUser
<1>7. RoundsDone'
  BY <1>1, <1>4, <1>5 DEF RoundsDone, Complete, Succeeded, Issued
<1>8. AnswerOfSummary' /\ RepliedBeforeCommit'
  <2>1. Issued(SummaryKey) /\ calls[SummaryKey].request = Request
    BY <1>1 DEF AnswerOfSummary
  <2>2. calls[SummaryKey].request.query = router.query
    BY <2>1 DEF Request
  <2> QED
    BY <1>1, <1>4, <1>5, <2>1, <2>2 DEF AnswerOfSummary, RepliedBeforeCommit, Issued, Covered
<1> QED
  BY <1>4, <1>6, <1>7, <1>8

\* A failure is spoken before what it took is consumed.
LEMMA FailKeeps == ASSUME RouterInv, Fail PROVE RouterInv'
<1> USE DEF RouterInv
<1>1. /\ Active /\ Speak(FailureKey(Input), {}) /\ Goto("commit")
  BY DEF Fail, Active, Idle
<1>2. FailureKey(Input)[1] = Input /\ FailureKey(Input) # AnswerKey(Input)
  BY DEF FailureKey, AnswerKey
<1>3. /\ said' \in [DOMAIN said' -> SUBSET Position]
      /\ DOMAIN said' = DOMAIN said \cup {FailureKey(Input)}
      /\ \A k \in DOMAIN said : said'[k] = said[k]
      /\ UNCHANGED <<inbox, committed, calls, faults, owner>>
      /\ SaidOfInputs' /\ RepliedBeforeConsumed' /\ EvidenceComplete'
  BY <1>1, <1>2, SpeakAdds
<1>4. /\ Active' /\ router' \in Reconciliation /\ router'.at = "commit"
      /\ router'.position = router.position /\ router'.history = router.history
      /\ router'.query = router.query /\ router'.additions = router.additions
  BY <1>1, GotoMoves DEF Place
<1>5. /\ Input' = Input /\ Round' = Round /\ Covered' = Covered /\ SummaryKey' = SummaryKey
  BY <1>3, <1>4 DEF Input, Round, Covered, SummaryKey
<1>6. Typed' /\ UsersTaken'
  BY <1>1, <1>3, <1>4, <1>5 DEF Typed, UsersTaken, FromUser
<1>7. RoundsDone'
  BY <1>1, <1>3, <1>4, <1>5 DEF RoundsDone, Complete, Succeeded, Issued
<1>8. AnswerOfSummary' /\ RepliedBeforeCommit'
  BY <1>2, <1>3, <1>4, <1>5 DEF AnswerOfSummary, RepliedBeforeCommit, Issued
<1> QED
  BY <1>3, <1>6, <1>7, <1>8

\* What a commit consumes belongs to its input.
LEMMA CommitOwns ==
  ASSUME RouterInv, NEW p \in Position, p >= Input, p <= Len(inbox),
         CommitThrough(p, Input)
  PROVE  /\ committed' = p /\ owner' \in Seq(Position) /\ Len(owner') = p
         /\ \A k \in 1..committed : owner'[k] = owner[k]
         /\ \A k \in Input..p : owner'[k] = Input
<1> USE DEF RouterInv
<1>1. committed \in Nat /\ p \in Nat /\ Input = committed + 1 /\ Input \in Position
      /\ owner \in Seq(Position) /\ Len(owner) = committed
  BY RouterBounds DEF Typed, Input, Position
<1> DEFINE n == p - committed
           o == owner \o [k \in 1..n |-> Input]
<1>2. n \in Nat /\ committed + n = p
  BY <1>1
<1>3. committed' = p /\ owner' = o
  BY DEF CommitThrough
<1> HIDE DEF n
<1>4. /\ o \in Seq(Position) /\ Len(o) = committed + n
      /\ \A k \in 1..committed : o[k] = owner[k]
      /\ \A k \in (committed + 1)..(committed + n) : o[k] = Input
  BY <1>1, <1>2, OwnersAdded
<1> HIDE DEF o
<1> QED
  BY <1>1, <1>2, <1>3, <1>4

\* The next input has no answer yet.
LEMMA NextInputUnanswered ==
  ASSUME RouterInv, Input' \in Nat, Input' > Input
  PROVE  AnswerKey(Input') \notin DOMAIN said
<1>1. Input \in Nat
  BY RouterBounds DEF RouterInv, Typed, Input
<1>2. AnswerKey(Input')[1] = Input'
  BY DEF AnswerKey
<1> QED
  BY <1>1, <1>2 DEF RouterInv, SaidOfInputs

\* An input of a user is consumed after its reply, and the calls end with it.
LEMMA CommitKeeps == ASSUME RouterInv, Commit PROVE RouterInv'
<1> USE DEF RouterInv
<1>1. /\ router.at = "commit" /\ Active /\ CommitThrough(router.position, Input)
      /\ router' = Idle /\ calls' = <<>> /\ UNCHANGED <<inbox, said, faults>>
  BY DEF Commit, Active, Idle
<1>2. /\ router.position \in Position /\ router.position >= Input /\ router.position <= Len(inbox)
      /\ Input = committed + 1 /\ committed \in Nat /\ Len(inbox) \in Nat
      /\ router.position \in Nat
  <2>1. /\ router.position \in Input..Len(inbox) /\ Input = committed + 1 /\ committed \in Nat
        /\ Len(inbox) \in Nat /\ Len(inbox) <= MaxMessages
    BY <1>1, LenProperties DEF Typed, Input
  <2>2. MaxMessages \in Nat
    BY RouterBounds
  <2> QED
    BY <2>1, <2>2 DEF Position
<1>3. /\ committed' = router.position /\ owner' \in Seq(Position) /\ Len(owner') = router.position
      /\ \A k \in 1..committed : owner'[k] = owner[k]
      /\ \A k \in Input..router.position : owner'[k] = Input
  BY <1>1, <1>2, CommitOwns
<1>4. ~Active' /\ Input' = router.position + 1
  BY <1>1, <1>3 DEF Active, Input
<1>5. DOMAIN calls' = {} /\ calls' \in [DOMAIN calls' -> Call]
  <2>1. <<>> \in Seq(Call) /\ Len(<<>>) = 0
    BY EmptySeq
  <2>2. <<>> \in [1..0 -> Call] /\ DOMAIN <<>> = 1..0
    BY <2>1, LenProperties
  <2>3. 1..0 = {}
    OBVIOUS
  <2> QED
    BY <1>1, <2>2, <2>3
<1>6. Typed'
  <2>1. inbox' \in Seq(Kind) /\ Len(inbox') <= MaxMessages /\ faults' \in 0..MaxFaults
    BY <1>1 DEF Typed
  <2>2. committed' \in 0..Len(inbox') /\ owner' \in Seq(Position) /\ Len(owner') = committed'
    BY <1>1, <1>2, <1>3
  <2>3. said' \in [DOMAIN said' -> SUBSET Position]
    BY <1>1 DEF Typed
  <2> QED
    BY <1>4, <1>5, <2>1, <2>2, <2>3 DEF Typed
<1>7. UsersTaken' /\ RoundsDone' /\ RepliedBeforeCommit'
  BY <1>4 DEF UsersTaken, RoundsDone, RepliedBeforeCommit
<1>8. SaidOfInputs'
  BY <1>1, <1>2, <1>4 DEF SaidOfInputs
<1>9. AnswerOfSummary'
  <2>1. Input' \in Nat /\ Input' > Input
    BY <1>2, <1>4
  <2>2. AnswerKey(Input') \notin DOMAIN said
    BY <2>1, NextInputUnanswered
  <2> QED
    BY <1>1, <1>4, <2>2 DEF AnswerOfSummary
<1>10. RepliedBeforeConsumed'
  <2> SUFFICES ASSUME NEW p \in 1..router.position, FromUser(p)
               PROVE  \/ FailureKey(owner'[p]) \in DOMAIN said
                      \/ /\ AnswerKey(owner'[p]) \in DOMAIN said
                         /\ p \in said[AnswerKey(owner'[p])]
    BY <1>1, <1>3 DEF RepliedBeforeConsumed, FromUser, FailureKey, AnswerKey
  <2>1. CASE p \in 1..committed
    BY <1>3, <2>1 DEF RepliedBeforeConsumed
  <2>2. CASE p \in Input..router.position
    <3>1. owner'[p] = Input /\ p \in Covered \cup router.additions
      BY <1>1, <1>3, <2>2 DEF UsersTaken
    <3> QED
      BY <1>1, <3>1 DEF RepliedBeforeCommit
  <2> QED
    BY <1>2, <2>1, <2>2
<1>11. EvidenceComplete'
  BY <1>5 DEF EvidenceComplete
<1> QED
  BY <1>6, <1>7, <1>8, <1>9, <1>10, <1>11

\* A message that is not of a user is passed over without a reply.
LEMMA SkipKeeps == ASSUME RouterInv, Skip PROVE RouterInv'
<1> USE DEF RouterInv
<1>1. /\ router = Idle /\ committed < Len(inbox) /\ ~FromUser(committed + 1)
      /\ CommitThrough(committed + 1, committed + 1)
      /\ UNCHANGED <<inbox, calls, said, router, faults>>
  BY DEF Skip
<1>2. /\ committed \in Nat /\ Input = committed + 1 /\ Input \in Position /\ Input <= Len(inbox)
      /\ Input >= Input /\ Len(inbox) \in Nat
  BY <1>1, RouterBounds DEF Typed, Input, Position
<1>3. /\ committed' = Input /\ owner' \in Seq(Position) /\ Len(owner') = Input
      /\ \A k \in 1..committed : owner'[k] = owner[k]
  BY <1>1, <1>2, CommitOwns
<1>4. ~Active' /\ Input' = Input + 1
  BY <1>1, <1>3 DEF Active, Input
<1>5. Typed'
  <2>1. inbox' \in Seq(Kind) /\ Len(inbox') <= MaxMessages /\ faults' \in 0..MaxFaults
    BY <1>1 DEF Typed
  <2>2. committed' \in 0..Len(inbox') /\ owner' \in Seq(Position) /\ Len(owner') = committed'
    BY <1>1, <1>2, <1>3
  <2>3. said' \in [DOMAIN said' -> SUBSET Position]
    BY <1>1 DEF Typed
  <2>4. /\ calls' \in [DOMAIN calls' -> Call] /\ DOMAIN calls' \subseteq Key
        /\ \A key \in DOMAIN calls' : calls'[key].result \in Result(key) \cup {Running}
    BY <1>1 DEF Typed
  <2> QED
    BY <1>4, <2>1, <2>2, <2>3, <2>4 DEF Typed
<1>6. UsersTaken' /\ RoundsDone' /\ RepliedBeforeCommit'
  BY <1>4 DEF UsersTaken, RoundsDone, RepliedBeforeCommit
<1>7. SaidOfInputs'
  BY <1>1, <1>2, <1>4 DEF SaidOfInputs
<1>8. AnswerOfSummary'
  <2>1. Input' \in Nat /\ Input' > Input
    BY <1>2, <1>4
  <2>2. AnswerKey(Input') \notin DOMAIN said
    BY <2>1, NextInputUnanswered
  <2> QED
    BY <1>1, <1>4, <2>2 DEF AnswerOfSummary
<1>9. RepliedBeforeConsumed'
  <2> SUFFICES ASSUME NEW p \in 1..Input, FromUser(p)
               PROVE  \/ FailureKey(owner'[p]) \in DOMAIN said
                      \/ /\ AnswerKey(owner'[p]) \in DOMAIN said
                         /\ p \in said[AnswerKey(owner'[p])]
    BY <1>1, <1>3 DEF RepliedBeforeConsumed, FromUser, FailureKey, AnswerKey
  <2>1. p \in 1..committed
    BY <1>1, <1>2
  <2> QED
    BY <1>3, <2>1 DEF RepliedBeforeConsumed
<1>10. EvidenceComplete'
  BY <1>1 DEF EvidenceComplete, RoundsTold, Succeeded, Issued
<1> QED
  BY <1>5, <1>6, <1>7, <1>8, <1>9, <1>10

-----------------------------------------------------------------------------
\* The invariant.

\* The conversation is empty at the start.
LEMMA InitRouterInv == Init => RouterInv
<1> SUFFICES ASSUME Init PROVE RouterInv
  OBVIOUS
<1>1. ~Active
  BY DEF Init, Active
<1>2. \A S : <<>> \in Seq(S) /\ Len(<<>>) = 0 /\ <<>> \in [{} -> S] /\ DOMAIN <<>> = {}
  <2> SUFFICES ASSUME NEW S PROVE <<>> \in Seq(S) /\ Len(<<>>) = 0 /\ <<>> \in [{} -> S] /\ DOMAIN <<>> = {}
    OBVIOUS
  <2>1. <<>> \in Seq(S) /\ Len(<<>>) = 0
    BY EmptySeq
  <2>2. <<>> \in [1..0 -> S] /\ DOMAIN <<>> = 1..0
    BY <2>1, LenProperties
  <2>3. 1..0 = {}
    OBVIOUS
  <2> QED
    BY <2>1, <2>2, <2>3
<1>3. DOMAIN calls = {} /\ DOMAIN said = {}
  BY <1>2 DEF Init
<1>4. Typed
  <2>1. inbox \in Seq(Kind) /\ Len(inbox) = 0 /\ owner \in Seq(Position) /\ Len(owner) = 0
    BY <1>2 DEF Init
  <2>2. committed = 0 /\ faults = 0 /\ MaxMessages \in Nat /\ MaxFaults \in Nat
    BY RouterBounds DEF Init
  <2>3. calls \in [DOMAIN calls -> Call] /\ said \in [DOMAIN said -> SUBSET Position]
    BY <1>2, <1>3 DEF Init
  <2>4. Len(inbox) <= MaxMessages /\ committed \in 0..Len(inbox) /\ faults \in 0..MaxFaults
        /\ Len(owner) = committed
    BY <2>1, <2>2
  <2>5. /\ DOMAIN calls \subseteq Key
        /\ \A key \in DOMAIN calls : calls[key].result \in Result(key) \cup {Running}
    BY <1>3
  <2> QED
    BY <1>1, <2>1, <2>3, <2>4, <2>5 DEF Typed
<1>5. UsersTaken /\ RoundsDone /\ RepliedBeforeCommit
  BY <1>1 DEF UsersTaken, RoundsDone, RepliedBeforeCommit
<1>6. SaidOfInputs /\ AnswerOfSummary /\ EvidenceComplete
  BY <1>1, <1>3 DEF SaidOfInputs, AnswerOfSummary, EvidenceComplete
<1>7. RepliedBeforeConsumed
  BY DEF Init, RepliedBeforeConsumed
<1> QED
  BY <1>4, <1>5, <1>6, <1>7 DEF RouterInv

\* Every step of the reconciliation, the harness runs and the faults keeps it.
LEMMA NextRouterInv == RouterInv /\ [Next]_vars => RouterInv'
<1> SUFFICES ASSUME RouterInv, [Next]_vars PROVE RouterInv'
  OBVIOUS
<1>1. CASE Reconcile
  BY <1>1, SkipKeeps, ReceiveKeeps, PromptsKeep, MovesKeep, PollKeeps, ProgressKeeps, AnswerKeeps,
     FailKeeps, CommitKeeps DEF Reconcile
<1>2. CASE \E key \in DOMAIN calls : EndCall(key)
  BY <1>2, EndCallKeeps
<1>3. CASE Post \/ CallFails \/ Stop
  BY <1>3, PostKeeps, MovesKeep, StopKeeps
<1>4. CASE UNCHANGED vars
  <2>1. UNCHANGED <<inbox, committed, calls, said, router, faults, owner>>
    BY <1>4 DEF vars
  <2>2. CallsGrow /\ EvidenceComplete'
    BY <2>1 DEF CallsGrow, RouterInv, EvidenceComplete, RoundsTold, Succeeded, Issued
  <2>3. /\ calls' \in [DOMAIN calls' -> Call] /\ DOMAIN calls' \subseteq Key
        /\ \A key \in DOMAIN calls' : calls'[key].result \in Result(key) \cup {Running}
    BY <2>1 DEF RouterInv, Typed
  <2> QED
    BY <2>1, <2>2, <2>3, CallsKeep
<1> QED
  BY <1>1, <1>2, <1>3, <1>4 DEF Next

\* The state is typed; in particular a reconciliation has at most as many rounds as
\* its messages, so its keys are.
THEOREM RouterTypeCorrect == Spec => []TypeOK
<1>1. RouterInv => TypeOK
  BY TypedIsTypeOK DEF RouterInv
<1> QED
  BY <1>1, InitRouterInv, NextRouterInv, PTL DEF Spec

\* No message of a user is consumed without a reply about it, however often the
\* reconciliation starts again over what an earlier one has asked and said.
THEOREM RepliedBeforeConsumedHolds == Spec => []RepliedBeforeConsumed
<1>1. RouterInv => RepliedBeforeConsumed
  BY DEF RouterInv
<1> QED
  BY <1>1, InitRouterInv, NextRouterInv, PTL DEF Spec

\* A prompt is issued when every batch it tells about has returned.
THEOREM EvidenceCompleteHolds == Spec => []EvidenceComplete
<1>1. RouterInv => EvidenceComplete
  BY DEF RouterInv
<1> QED
  BY <1>1, InitRouterInv, NextRouterInv, PTL DEF Spec

=============================================================================
