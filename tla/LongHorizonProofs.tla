------------------------- MODULE LongHorizonProofs --------------------------
(***************************************************************************)
(* Proofs about LongHorizon, for any users, messages and decisions, and    *)
(* any bounds.                                                             *)
(***************************************************************************)
EXTENDS LongHorizon, FiniteSetTheorems, TLAPS

-----------------------------------------------------------------------------
\* Who owns the inbox.

Same(r, old) ==
  r.user = old.user /\ r.through = old.through /\ r.inputs = old.inputs
  /\ r.guidance = old.guidance

\* A Run with status r has recorded what it has passed.
Taking(i, r) ==
  /\ i <= Len(inbox) /\ IsGoal(i) /\ r.user = inbox[i].user
  /\ r.phase = "New" => committed = i - 1 /\ r.inputs = {}
  /\ r.phase # "New" =>
       /\ i - 1 <= committed /\ committed <= r.through /\ r.through <= Len(inbox)
       /\ r.inputs \subseteq i..r.through
       /\ r.inputs \X {i} \subseteq taken
       /\ \A p \in i..r.through : IsInput(p) => p \in r.inputs

Polled ==
  ingress # Idle =>
    /\ Run = {}
    /\ ingress.message = committed + 1
    /\ ingress.message <= Len(inbox)
    /\ ingress.at = "commit" /\ IsInput(ingress.message) => ingress.message \in refused

Patching ==
  manager # Idle =>
    /\ manager.run \in Run
    /\ runs[manager.run].phase # "New" /\ manager.next.phase # "New"
    /\ Same(manager.next, runs[manager.run])

\* What is taken is behind, or an input of the one Run there is.
TakenOnce ==
  /\ \A s, t \in taken : s[1] = t[1] => s = t
  /\ \A t \in taken : Run = {} => t[1] <= committed
  /\ \A t \in taken : \A i \in Run : t[1] < i \/ (t[2] = i /\ t[1] \in runs[i].inputs)

SettledSoFar == \A p \in 1..committed : IsInput(p) => Settled(p)

Owned ==
  /\ \A i, j \in Run : i = j
  /\ committed <= Len(inbox)
  /\ \A i \in Run : Taking(i, runs[i])
  /\ Polled
  /\ Patching
  /\ TakenOnce
  /\ SettledSoFar

-----------------------------------------------------------------------------
\* A Run of status r, with its children x and a and its calls m, e and c.

AsWork(w, child, r) ==
  [version |-> child.version, guidance |-> IF w = "auditor" THEN r.guidance ELSE {}]

\* A child, and the call that works on it.
ChildFits(w, r, child, call) ==
  /\ child # None => (child.round <= r.round /\ (child.round < r.round => child.reported))
  /\ call # None => /\ call.round <= r.round
                    /\ call.round = r.round => Names(child, r.round)
                    /\ call.result = None => Names(child, call.round) /\ ~child.reported
  /\ Names(child, r.round) /\ child.reported => Names(call, r.round) /\ call.result # None
  /\ Names(child, r.round) /\ Names(call, r.round) => call.request = AsWork(w, child, r)

\* Phases whose round has not been planned.
Unplanned(r) ==
  r.phase = "Receiving" \/ (r.phase = "WaitingForHuman" /\ r.reason \in {"budget", "failure"})

StatusFits(r) ==
  /\ r.budget <= MaxBudget
  /\ r.round <= r.budget + 1
  /\ r.phase \in {"Executing", "Auditing"} => r.round <= r.budget
  /\ r.phase = "WaitingForHuman" => /\ r.reason # "none"
                                    /\ r.reason = "ask" => r.round <= r.budget
  /\ r.phase = "New" => r.inputs = {} /\ r.round = 0 /\ r.last = None /\ r.version = 0
  /\ r.phase # "New" => r.round >= 1
  /\ Cardinality(r.inputs) <= MaxInputs
  /\ r.version <= Cardinality(r.inputs) + r.round
  /\ Unplanned(r) \/ r.phase = "Planning" =>
       r.version + 1 <= Cardinality(r.inputs) + r.round

PhaseFits(r, x, a, m, e, c) ==
  /\ r.phase = "New" => x = None /\ a = None /\ m = None /\ e = None /\ c = None
  /\ m # None => m.round <= r.round
  /\ Names(m, r.round) => r.round <= r.budget
  /\ Names(a, r.round) => Names(x, r.round) /\ x.reported
  /\ Unplanned(r) => ~Names(m, r.round) /\ ~Names(x, r.round)
  /\ r.phase = "Planning" =>
       /\ Names(m, r.round) => m.request = PlanRequest(r)
       /\ ~Names(a, r.round)
       /\ Names(x, r.round) => /\ Names(m, r.round)
                               /\ m.result # None
                               /\ m.result.next = "cli"
                               /\ x.version = WithContract(r, m.result).version
  /\ r.phase = "WaitingForHuman" => ~Names(x, r.round)
  /\ r.phase = "Executing" => (x # None => x.round = r.round)
  /\ r.phase = "Auditing" => (a # None => a.round = r.round)

\* The last audit is of what the Run stands for, unless work has begun again.
LastFits(r, x, e) ==
  /\ r.last # None => /\ r.last.told = r.guidance
                      /\ ~Names(x, r.round) => Names(e, r.last.round)
  /\ r.phase \in {"Executing", "Auditing"} => r.last = None
  /\ r.phase = "Succeeded" => Done(r) /\ ~Names(x, r.round)

Fits(r, x, a, m, e, c) ==
  /\ StatusFits(r)
  /\ ChildFits("executor", r, x, e)
  /\ ChildFits("auditor", r, a, c)
  /\ PhaseFits(r, x, a, m, e, c)
  /\ LastFits(r, x, e)

FitsAt(i, r) ==
  Fits(r, executions[i], audits[i],
       calls[<<i, "manager">>], calls[<<i, "executor">>], calls[<<i, "auditor">>])

Absent(i) ==
  /\ executions[i] = None /\ audits[i] = None
  /\ \A role \in Role : calls[<<i, role>>] = None

\* What a worker is about to prompt.
PromptFits(w, me) ==
  /\ me.run \in Run
  /\ Names(Child(w, me.run), me.round)
  /\ ~Child(w, me.run).reported
  /\ ~Names(calls[<<me.run, w>>], me.round)
  /\ me.request = AsWork(w, Child(w, me.run), runs[me.run])

Prompting == \A w \in Worker : worker[w] # Idle => PromptFits(w, worker[w])

RoundInv ==
  /\ \A i \in Run : FitsAt(i, runs[i])
  /\ \A i \in Position \ Run : Absent(i)
  /\ manager # Idle => FitsAt(manager.run, manager.next)
  /\ Prompting

LongInv == Typed /\ Owned /\ RoundInv

-----------------------------------------------------------------------------
\* All that no change of phase touches.
SameWork(n, r) ==
  Same(n, r) /\ n.version = r.version /\ n.budget = r.budget /\ n.last = r.last

\* A new phase changes no part of the work.
LEMMA PhaseFields ==
  ASSUME NEW r \in RunType, NEW ph \in Phase
  PROVE  LET n == [r EXCEPT !.phase = ph]
         IN n \in RunType /\ n.phase = ph /\ SameWork(n, r) /\ n.round = r.round
            /\ n.reason = r.reason /\ n.asked = r.asked
BY DEF RunType, Same, SameWork

\* Nor does a phase with the reason a person is asked for.
LEMMA ReasonFields ==
  ASSUME NEW r \in RunType, NEW ph \in Phase, NEW why \in Reason
  PROVE  LET n == [r EXCEPT !.phase = ph, !.reason = why]
         IN n \in RunType /\ n.phase = ph /\ n.reason = why /\ SameWork(n, r)
            /\ n.round = r.round
BY DEF RunType, Same, SameWork

\* finish: the final message is recorded, nothing else.
LEMMA FinalFields ==
  ASSUME NEW r \in RunType
  PROVE  LET n == [r EXCEPT !.final = TRUE]
         IN n \in RunType /\ n.phase = r.phase /\ n.reason = r.reason /\ SameWork(n, r)
            /\ n.round = r.round
<1>1. PICK yes \in BOOLEAN : yes = TRUE
  OBVIOUS
<1> QED  BY <1>1 DEF RunType, Same, SameWork

\* human: the question is recorded, nothing else.
LEMMA AskedFields ==
  ASSUME NEW r \in RunType
  PROVE  LET n == [r EXCEPT !.asked = TRUE]
         IN n \in RunType /\ n.phase = r.phase /\ n.reason = r.reason /\ SameWork(n, r)
            /\ n.round = r.round
<1>1. PICK yes \in BOOLEAN : yes = TRUE
  OBVIOUS
<1> QED  BY <1>1 DEF RunType, Same, SameWork

\* advance: the next round begins with the work as it is.
LEMMA AdvanceFields ==
  ASSUME NEW r \in RunType
  PROVE  LET n == Advance(r)
         IN n \in RunType /\ n.phase = "Receiving" /\ n.round = r.round + 1 /\ SameWork(n, r)
            /\ n.failures = r.failures
<1>1. PICK no \in BOOLEAN : no = FALSE
  OBVIOUS
<1>2. PICK k \in Nat : k = r.round + 1
  BY DEF RunType
<1>3. Advance(r) = [r EXCEPT !.round = k, !.phase = "Receiving", !.asked = no, !.reason = "none"]
  BY <1>1, <1>2 DEF Advance
<1> QED  BY <1>2, <1>3 DEF RunType, Phase, Reason, Same, SameWork

\* After FailureLimit failures a person is asked; nothing else changes.
LEMMA EscalateFields ==
  ASSUME NEW r \in RunType
  PROVE  LET n == Escalate(r)
         IN /\ n \in RunType
            /\ n = r \/ (n.phase = "WaitingForHuman" /\ n.reason = "failure")
            /\ n.round = r.round /\ SameWork(n, r)
<1>1. CASE r.failures >= FailureLimit
  <2>1. PICK n : n = [r EXCEPT !.phase = "WaitingForHuman", !.reason = "failure"]
    OBVIOUS
  <2>2. /\ n \in RunType /\ n.phase = "WaitingForHuman" /\ n.reason = "failure"
        /\ n.round = r.round /\ SameWork(n, r)
    BY <2>1 DEF RunType, Phase, Reason, Same, SameWork
  <2>3. Escalate(r) = n
    BY <1>1, <2>1, Zenon DEF Escalate
  <2> QED  BY <2>2, <2>3
<1>2. CASE ~(r.failures >= FailureLimit)
  <2>1. Escalate(r) = r
    BY <1>2, Zenon DEF Escalate
  <2> QED  BY <2>1 DEF Same, SameWork
<1> QED  BY <1>1, <1>2

\* A round that is consumed: its successor is not planned yet.
LEMMA EscalateUnplanned ==
  ASSUME NEW r \in RunType, r.phase = "Receiving"
  PROVE  LET n == Escalate(r)
         IN n \in RunType /\ Unplanned(n) /\ n.round = r.round /\ SameWork(n, r)
<1>1. PICK n : n = Escalate(r)
  OBVIOUS
<1>2. /\ n \in RunType
      /\ n = r \/ (n.phase = "WaitingForHuman" /\ n.reason = "failure")
      /\ n.round = r.round /\ SameWork(n, r)
  BY <1>1, EscalateFields
<1>3. Unplanned(n)
  BY <1>2 DEF Unplanned
<1> QED  BY <1>1, <1>2, <1>3

\* failure: the next round, or a person.
LEMMA FailedFields ==
  ASSUME NEW r \in RunType
  PROVE  LET n == Failed(r)
         IN n \in RunType /\ Unplanned(n) /\ n.round = r.round + 1 /\ SameWork(n, r)
<1>1. PICK ad \in RunType : ad = Advance(r)
  BY AdvanceFields
<1>2. ad.phase = "Receiving" /\ ad.round = r.round + 1 /\ SameWork(ad, r)
  BY <1>1, AdvanceFields
<1>3. PICK k \in Nat : k = ad.failures + 1
  BY DEF RunType
<1>4. PICK b : b = [ad EXCEPT !.failures = k]
  OBVIOUS
<1>5. b \in RunType /\ b.phase = "Receiving" /\ b.round = r.round + 1 /\ SameWork(b, r)
  BY <1>2, <1>4 DEF RunType, Same, SameWork
<1>6. Failed(r) = Escalate(b)
  BY <1>1, <1>3, <1>4 DEF Failed
<1>7. PICK n : n = Escalate(b)
  OBVIOUS
<1>8. n \in RunType /\ Unplanned(n) /\ n.round = b.round /\ SameWork(n, b)
  BY <1>5, <1>7, EscalateUnplanned
<1> QED  BY <1>5, <1>6, <1>7, <1>8 DEF Same, SameWork

\* The round that ends with an audit.
LEMMA AuditedFields ==
  ASSUME NEW r \in RunType, NEW e \in EvidenceType, NEW k \in Nat
  PROVE  LET n == Escalate([Advance(r) EXCEPT !.last = e, !.failures = k])
         IN /\ n \in RunType /\ Unplanned(n) /\ n.round = r.round + 1 /\ Same(n, r)
            /\ n.version = r.version /\ n.budget = r.budget /\ n.last = e
<1>1. PICK ad \in RunType : ad = Advance(r)
  BY AdvanceFields
<1>2. ad.phase = "Receiving" /\ ad.round = r.round + 1 /\ SameWork(ad, r)
  BY <1>1, AdvanceFields
<1>4. PICK b : b = [ad EXCEPT !.last = e, !.failures = k]
  OBVIOUS
<1>5. b \in RunType /\ b.phase = "Receiving" /\ b.round = r.round + 1 /\ b.last = e
      /\ Same(b, r) /\ b.version = r.version /\ b.budget = r.budget
  BY <1>2, <1>4 DEF RunType, Same, SameWork
<1>7. PICK n : n = Escalate(b)
  OBVIOUS
<1>8. n \in RunType /\ Unplanned(n) /\ n.round = b.round /\ SameWork(n, b)
  BY <1>5, <1>7, EscalateUnplanned
<1> QED  BY <1>1, <1>4, <1>5, <1>7, <1>8 DEF Same, SameWork

\* A decision changes the contract by one version at most.
LEMMA ContractFields ==
  ASSUME NEW r \in RunType, NEW d \in Decision
  PROVE  LET n == WithContract(r, d)
         IN /\ n \in RunType /\ n.phase = r.phase /\ n.reason = r.reason
            /\ n.round = r.round /\ Same(n, r) /\ n.budget = r.budget /\ n.last = r.last
            /\ n.version \in {r.version, r.version + 1}
<1>1. PICK v \in Nat : v = IF d.contract THEN r.version + 1 ELSE r.version
  BY DEF RunType
<1>2. WithContract(r, d) = [r EXCEPT !.version = v]
  BY <1>1 DEF WithContract
<1>3. v \in {r.version, r.version + 1}
  BY <1>1
<1> QED  BY <1>2, <1>3 DEF RunType, Same

\* An execution starts without the evidence of an earlier audit.
LEMMA StartFields ==
  ASSUME NEW r \in RunType
  PROVE  LET n == StartExecution(r)
         IN /\ n \in RunType /\ n.phase = "Executing" /\ n.last = None
            /\ n.round = r.round /\ Same(n, r) /\ n.budget = r.budget
            /\ n.version = r.version
BY DEF StartExecution, RunType, Phase, Same

\* human: an answer starts a round and drops the evidence.
LEMMA AnsweredFields ==
  ASSUME NEW r \in RunType
  PROVE  LET n == Answered(r)
         IN /\ n \in RunType /\ n.phase = "Receiving" /\ n.round = r.round + 1
            /\ n.last = None /\ n.version = r.version /\ n.budget = r.budget
            /\ n.user = r.user /\ n.through = r.through /\ n.inputs = r.inputs
<1>1. PICK ad \in RunType : ad = Advance(r)
  BY AdvanceFields
<1>2. ad.phase = "Receiving" /\ ad.round = r.round + 1 /\ SameWork(ad, r)
  BY <1>1, AdvanceFields
<1>3. PICK g \in Guidance : g = ad.guidance \cup {<<"answer", r.round>>}
  <2>1. ad.guidance \in Guidance /\ r.round \in Nat
    BY DEF RunType
  <2>2. <<"answer", r.round>> \in {"answer"} \X Nat
    BY <2>1
  <2>3. ad.guidance \cup {<<"answer", r.round>>} \in Guidance
    BY <2>1, <2>2 DEF Guidance
  <2> QED  BY <2>3
<1>4. Answered(r) = [ad EXCEPT !.guidance = g, !.last = None]
  BY <1>1, <1>3 DEF Answered
<1> QED  BY <1>2, <1>4 DEF RunType, Same, SameWork

\* human: a confirmation goes on with the same round.
LEMMA ResumedFields ==
  ASSUME NEW r \in RunType
  PROVE  LET n == Resumed(r)
         IN n \in RunType /\ n.phase = "Receiving" /\ n.round = r.round /\ SameWork(n, r)
<1>1. PICK no \in BOOLEAN : no = FALSE
  OBVIOUS
<1>2. Resumed(r) = [r EXCEPT !.asked = no, !.reason = "none", !.phase = "Receiving"]
  BY <1>1 DEF Resumed
<1> QED  BY <1>2 DEF RunType, Phase, Reason, Same, SameWork

\* The children and calls of one Run.
Family(x, a, m, e, c) ==
  /\ x \in ExecutionType \cup {None}
  /\ a \in AuditType \cup {None}
  /\ m \in CallType("manager") \cup {None}
  /\ e \in CallType("executor") \cup {None}
  /\ c \in CallType("auditor") \cup {None}

Dropped(child, kept, r) == kept = child \/ (kept = None /\ child.round < r.round)

\* cleanup: a child of an earlier round may go.
LEMMA FitsCleanup ==
  ASSUME NEW r \in RunType, NEW x, NEW a, NEW m, NEW e, NEW c, Family(x, a, m, e, c),
         NEW x1, NEW a1, Dropped(x, x1, r), Dropped(a, a1, r), Fits(r, x, a, m, e, c)
  PROVE  Fits(r, x1, a1, m, e, c)
<1>1. PICK k \in Nat : k = r.round
  BY DEF RunType
<1>2. /\ Names(x1, k) <=> Names(x, k)
      /\ Names(a1, k) <=> Names(a, k)
      /\ x1 # None => x1 = x
      /\ a1 # None => a1 = a
  BY <1>1 DEF Dropped, Names, Family, ExecutionType, AuditType
<1>3. ChildFits("executor", r, x1, e)
  BY <1>1, <1>2 DEF Fits, ChildFits, AsWork, Names, Dropped, Family, ExecutionType, CallType
<1>4. ChildFits("auditor", r, a1, c)
  BY <1>1, <1>2 DEF Fits, ChildFits, AsWork, Names, Dropped, Family, AuditType, CallType
<1>5. PhaseFits(r, x1, a1, m, e, c)
  <2>1. Names(x, k) => x1 = x
    BY <1>2 DEF Names
  <2> QED  BY <1>1, <1>2, <2>1 DEF Fits, PhaseFits
<1>6. LastFits(r, x1, e)
  BY <1>1, <1>2 DEF Fits, LastFits
<1> QED  BY <1>3, <1>4, <1>5, <1>6 DEF Fits

\* A result that is not read again.
Forgotten(call, after, r) ==
  \/ after = call
  \/ /\ call # None /\ after # None /\ after.round = call.round /\ call.round < r.round
     /\ call.result # None /\ after.result # None

\* The result of an earlier round may be forgotten.
LEMMA FitsForget ==
  ASSUME NEW r \in RunType, NEW x, NEW a, NEW m, NEW e, NEW c, Family(x, a, m, e, c),
         NEW m1, NEW e1, NEW c1,
         Forgotten(m, m1, r), Forgotten(e, e1, r), Forgotten(c, c1, r),
         Fits(r, x, a, m, e, c)
  PROVE  Fits(r, x, a, m1, e1, c1)
<1>1. PICK k \in Nat : k = r.round
  BY DEF RunType
<1>3. ChildFits("executor", r, x, e1)
  BY <1>1 DEF Fits, ChildFits, AsWork, Names, Forgotten, Family, ExecutionType, CallType
<1>4. ChildFits("auditor", r, a, c1)
  BY <1>1 DEF Fits, ChildFits, AsWork, Names, Forgotten, Family, AuditType, CallType
<1>5. PhaseFits(r, x, a, m1, e1, c1)
  <2>1. Names(m, k) => m1 = m
    BY <1>1 DEF Names, Forgotten, Family, CallType
  <2>2. Names(m1, k) => Names(m, k)
    BY <1>1 DEF Names, Forgotten, Family, CallType
  <2>3. m1 # None => m # None /\ m1.round = m.round
    BY DEF Forgotten
  <2>4. e = None /\ c = None /\ m = None => e1 = None /\ c1 = None /\ m1 = None
    BY DEF Forgotten
  <2> QED  BY <1>1, <2>1, <2>2, <2>3, <2>4 DEF Fits, PhaseFits
<1>6. LastFits(r, x, e1)
  <2>1. \A n : Names(e, n) => Names(e1, n)
    BY DEF Forgotten, Names
  <2> QED  BY <2>1 DEF Fits, LastFits
<1> QED  BY <1>3, <1>4, <1>5, <1>6 DEF Fits

-----------------------------------------------------------------------------
\* The changes of a status.

\* A Run may be stopped or fail at any time.
LEMMA FitsEnded ==
  ASSUME NEW r \in RunType, NEW x, NEW a, NEW m, NEW e, NEW c,
         NEW n \in RunType, SameWork(n, r), n.round = r.round, r.phase # "New",
         n.phase \in {"Failed", "Stopped"}, Fits(r, x, a, m, e, c)
  PROVE  Fits(n, x, a, m, e, c)
<1>1. StatusFits(n)
  BY DEF Fits, StatusFits, SameWork, Same, Unplanned
<1>2. ChildFits("executor", n, x, e)
  BY DEF Fits, ChildFits, AsWork, SameWork, Same
<1>3. ChildFits("auditor", n, a, c)
  BY DEF Fits, ChildFits, AsWork, SameWork, Same
<1>4. PhaseFits(n, x, a, m, e, c)
  BY DEF Fits, PhaseFits, SameWork, Same, Unplanned
<1>5. LastFits(n, x, e)
  BY DEF Fits, LastFits, SameWork, Same
<1> QED  BY <1>1, <1>2, <1>3, <1>4, <1>5 DEF Fits

\* A status may record a message or a question that was sent.
LEMMA FitsMarked ==
  ASSUME NEW r \in RunType, NEW x, NEW a, NEW m, NEW e, NEW c,
         NEW n \in RunType, SameWork(n, r), n.round = r.round,
         n.phase = r.phase, n.reason = r.reason, r.phase # "Planning",
         Fits(r, x, a, m, e, c)
  PROVE  Fits(n, x, a, m, e, c)
<1>1. StatusFits(n)
  BY DEF Fits, StatusFits, SameWork, Same, Unplanned
<1>2. ChildFits("executor", n, x, e)
  BY DEF Fits, ChildFits, AsWork, SameWork, Same
<1>3. ChildFits("auditor", n, a, c)
  BY DEF Fits, ChildFits, AsWork, SameWork, Same
<1>4. PhaseFits(n, x, a, m, e, c)
  BY DEF Fits, PhaseFits, SameWork, Same, Unplanned
<1>5. LastFits(n, x, e)
  BY DEF Fits, LastFits, SameWork, Same, Done
<1> QED  BY <1>1, <1>2, <1>3, <1>4, <1>5 DEF Fits

\* The round is over: nothing of it is at work.
LEMMA FitsNextRound ==
  ASSUME NEW r \in RunType, NEW x, NEW a, NEW m, NEW e, NEW c, Family(x, a, m, e, c),
         NEW n \in RunType, Unplanned(n), n.round = r.round + 1, n.budget = r.budget,
         n.inputs = r.inputs, n.version <= Cardinality(n.inputs) + r.round,
         Cardinality(n.inputs) \in Nat,
         r.round <= r.budget,
         x # None => x.reported, a # None => a.reported,
         n.last # None => n.last.told = n.guidance /\ Names(e, n.last.round),
         Fits(r, x, a, m, e, c)
  PROVE  Fits(n, x, a, m, e, c)
<1>0. PICK k \in Nat : k = r.round
  BY DEF RunType
<1>1. StatusFits(n)
  <2>1. PICK size \in Nat : size = Cardinality(n.inputs)
    OBVIOUS
  <2>2. /\ n.version \in Nat /\ r.budget \in Nat
        /\ n.version <= size + k /\ n.round = k + 1 /\ k <= r.budget
    BY <1>0, <2>1 DEF RunType
  <2>6. Cardinality(r.inputs) <= MaxInputs /\ r.budget <= MaxBudget
    BY DEF Fits, StatusFits
  <2>7. size <= MaxInputs
    BY <2>1, <2>6
  <2>3. n.phase \in {"Receiving", "WaitingForHuman"}
        /\ (n.phase = "WaitingForHuman" => n.reason \in {"budget", "failure"})
    BY DEF Unplanned, RunType, Reason
  <2>4. n.phase # "New" /\ n.phase # "Planning" /\ n.phase \notin {"Executing", "Auditing"}
    BY <2>3
  <2>5. n.version <= size + n.round /\ n.version + 1 <= size + n.round
        /\ n.round <= n.budget + 1 /\ n.round >= 1
    BY <2>2
  <2> QED  BY <2>1, <2>2, <2>3, <2>4, <2>5, <2>6, <2>7 DEF StatusFits
<1>2. ChildFits("executor", n, x, e)
  BY <1>0 DEF Fits, ChildFits, Names, Family, ExecutionType, CallType
<1>3. ChildFits("auditor", n, a, c)
  BY <1>0 DEF Fits, ChildFits, Names, Family, AuditType, CallType
<1>4. ~Names(m, n.round) /\ ~Names(x, n.round) /\ ~Names(a, n.round)
  BY <1>0 DEF Fits, PhaseFits, ChildFits, Names, Family, ExecutionType, AuditType, CallType
<1>5. PhaseFits(n, x, a, m, e, c)
  <2>1. m # None => m.round <= n.round
    BY <1>0 DEF Fits, PhaseFits, Family, CallType
  <2> QED  BY <1>4, <2>1 DEF PhaseFits, Unplanned
<1>6. LastFits(n, x, e)
  BY DEF LastFits, Unplanned
<1> QED  BY <1>1, <1>2, <1>3, <1>5, <1>6 DEF Fits

\* No more work is planned in this round.
LEMMA FitsDecided ==
  ASSUME NEW r \in RunType, NEW x, NEW a, NEW m, NEW e, NEW c,
         NEW n \in RunType, n.round = r.round, Same(n, r), n.budget = r.budget,
         n.last = r.last, n.version \in {r.version, r.version + 1},
         Cardinality(r.inputs) \in Nat,
         r.phase = "Planning", r.round <= r.budget, ~Names(x, r.round),
         \/ n.phase = "WaitingForHuman" /\ n.reason = "ask"
         \/ n.phase = "Succeeded" /\ Done(n),
         Fits(r, x, a, m, e, c)
  PROVE  Fits(n, x, a, m, e, c)
<1>1. StatusFits(n)
  BY DEF Fits, StatusFits, Same, Unplanned, RunType
<1>2. ChildFits("executor", n, x, e)
  BY DEF Fits, ChildFits, AsWork, Same
<1>3. ChildFits("auditor", n, a, c)
  BY DEF Fits, ChildFits, AsWork, Same
<1>4. PhaseFits(n, x, a, m, e, c)
  BY DEF Fits, PhaseFits, Same, Unplanned
<1>5. LastFits(n, x, e)
  BY DEF Fits, LastFits, Same
<1> QED  BY <1>1, <1>2, <1>3, <1>4, <1>5 DEF Fits

\* A round beyond the budget waits for a person.
LEMMA FitsBudget ==
  ASSUME NEW r \in RunType, NEW x, NEW a, NEW m, NEW e, NEW c,
         NEW n \in RunType, SameWork(n, r), n.round = r.round,
         n.phase = "WaitingForHuman", n.reason = "budget",
         r.phase = "Planning", r.round > r.budget,
         Fits(r, x, a, m, e, c)
  PROVE  Fits(n, x, a, m, e, c)
<1>0. ~Names(m, r.round) /\ ~Names(x, r.round)
  BY DEF Fits, PhaseFits, RunType
<1>1. StatusFits(n)
  BY DEF Fits, StatusFits, SameWork, Same, Unplanned
<1>2. ChildFits("executor", n, x, e)
  BY DEF Fits, ChildFits, AsWork, SameWork, Same
<1>3. ChildFits("auditor", n, a, c)
  BY DEF Fits, ChildFits, AsWork, SameWork, Same
<1>4. PhaseFits(n, x, a, m, e, c)
  BY <1>0 DEF Fits, PhaseFits, SameWork, Same, Unplanned
<1>5. LastFits(n, x, e)
  BY DEF Fits, LastFits, SameWork, Same
<1> QED  BY <1>1, <1>2, <1>3, <1>4, <1>5 DEF Fits

\* A confirmed Run receives again, in the round nobody has planned.
LEMMA FitsResumed ==
  ASSUME NEW r \in RunType, NEW x, NEW a, NEW m, NEW e, NEW c,
         NEW n \in RunType, Same(n, r), n.version = r.version, n.last = r.last,
         n.round = r.round, n.phase = "Receiving",
         n.budget <= MaxBudget, r.budget <= n.budget,
         r.phase = "WaitingForHuman", Unplanned(r),
         Fits(r, x, a, m, e, c)
  PROVE  Fits(n, x, a, m, e, c)
<1>1. StatusFits(n)
  BY DEF Fits, StatusFits, Same, Unplanned, RunType
<1>2. ChildFits("executor", n, x, e)
  BY DEF Fits, ChildFits, AsWork, Same
<1>3. ChildFits("auditor", n, a, c)
  BY DEF Fits, ChildFits, AsWork, Same
<1>4. PhaseFits(n, x, a, m, e, c)
  BY DEF Fits, PhaseFits, Same, Unplanned
<1>5. LastFits(n, x, e)
  BY DEF Fits, LastFits, Same
<1> QED  BY <1>1, <1>2, <1>3, <1>4, <1>5 DEF Fits

\* receive: new inputs drop the evidence that does not know them.
LEMMA FitsReceived ==
  ASSUME NEW r \in RunType, NEW x, NEW a, NEW m, NEW e, NEW c, Family(x, a, m, e, c),
         NEW n \in RunType, n.phase = "Planning", n.round = r.round, n.budget = r.budget,
         n.last = None \/ (n.last = r.last /\ n.guidance = r.guidance),
         Cardinality(n.inputs) <= MaxInputs,
         n.version + 1 <= Cardinality(n.inputs) + n.round, Cardinality(n.inputs) \in Nat,
         r.phase = "Receiving",
         Fits(r, x, a, m, e, c)
  PROVE  Fits(n, x, a, m, e, c)
<1>0. ~Names(m, r.round) /\ ~Names(x, r.round) /\ ~Names(a, r.round)
  BY DEF Fits, PhaseFits, Unplanned
<1>1. StatusFits(n)
  BY DEF Fits, StatusFits, Unplanned, RunType
<1>2. ChildFits("executor", n, x, e)
  BY <1>0 DEF Fits, ChildFits
<1>3. ChildFits("auditor", n, a, c)
  BY <1>0 DEF Fits, ChildFits
<1>4. PhaseFits(n, x, a, m, e, c)
  BY <1>0 DEF Fits, PhaseFits, Unplanned
<1>5. LastFits(n, x, e)
  BY DEF Fits, LastFits
<1> QED  BY <1>1, <1>2, <1>3, <1>4, <1>5 DEF Fits

\* The Manager's call of a round is submitted.
LEMMA FitsPlanPrompt ==
  ASSUME NEW r \in RunType, NEW x, NEW a, NEW m, NEW e, NEW c,
         NEW m1, m1.round = r.round, m1.request = PlanRequest(r),
         r.phase = "Planning", r.round <= r.budget, ~Names(m, r.round),
         Fits(r, x, a, m, e, c)
  PROVE  Fits(r, x, a, m1, e, c)
<1>1. PhaseFits(r, x, a, m1, e, c)
  BY DEF Fits, PhaseFits, Unplanned, RunType
<1> QED  BY <1>1 DEF Fits

\* The child of a round is created: no call of its name was there before.
LEMMA FitsNewExecution ==
  ASSUME NEW r \in RunType, NEW x, NEW a, NEW m, NEW e, NEW c, Family(x, a, m, e, c),
         NEW x1, x1 # None, x1.round = r.round, x1.reported = FALSE,
         x1.version = WithContract(r, m.result).version,
         r.phase = "Planning", ~Names(x, r.round),
         Names(m, r.round), m.result # None, m.result.next = "cli",
         Fits(r, x, a, m, e, c)
  PROVE  Fits(r, x1, a, m, e, c)
<1>0. PICK k \in Nat : k = r.round
  BY DEF RunType
<1>1. ~Names(e, k) /\ Names(x1, k)
  BY <1>0 DEF Fits, ChildFits, Names
<1>2. e # None => e.round < k /\ e.result # None
  BY <1>0, <1>1 DEF Fits, ChildFits, Names, Family, ExecutionType, CallType
<1>3. ChildFits("executor", r, x1, e)
  BY <1>0, <1>1, <1>2 DEF Fits, ChildFits, Names
<1>4. PhaseFits(r, x1, a, m, e, c)
  BY <1>0, <1>1 DEF Fits, PhaseFits, Unplanned
<1>5. LastFits(r, x1, e)
  BY <1>0, <1>1 DEF Fits, LastFits
<1> QED  BY <1>3, <1>4, <1>5 DEF Fits

\* observeExecution: the audit of an execution that has reported.
LEMMA FitsNewAudit ==
  ASSUME NEW r \in RunType, NEW x, NEW a, NEW m, NEW e, NEW c, Family(x, a, m, e, c),
         NEW a1, a1 # None, a1.round = r.round, a1.reported = FALSE,
         r.phase = "Executing", ~Names(a, r.round), x # None, x.reported,
         Fits(r, x, a, m, e, c)
  PROVE  Fits(r, x, a1, m, e, c)
<1>0. PICK k \in Nat : k = r.round
  BY DEF RunType
<1>1. ~Names(c, k) /\ Names(a1, k) /\ Names(x, k)
  BY <1>0 DEF Fits, ChildFits, PhaseFits, Names
<1>2. c # None => c.round < k /\ c.result # None
  BY <1>0, <1>1 DEF Fits, ChildFits, Names, Family, AuditType, CallType
<1>3. ChildFits("auditor", r, a1, c)
  BY <1>0, <1>1, <1>2 DEF Fits, ChildFits, Names
<1>4. PhaseFits(r, x, a1, m, e, c)
  BY <1>0, <1>1 DEF Fits, PhaseFits, Unplanned
<1> QED  BY <1>3, <1>4 DEF Fits

\* The patch after a child has been created.
LEMMA FitsExecuting ==
  ASSUME NEW r \in RunType, NEW x, NEW a, NEW m, NEW e, NEW c,
         NEW n \in RunType, n.phase = "Executing", n.last = None, n.round = r.round,
         Same(n, r), n.budget = r.budget, n.version \in {r.version, r.version + 1},
         Cardinality(r.inputs) \in Nat,
         r.phase = "Planning", r.round <= r.budget, Names(x, r.round),
         Fits(r, x, a, m, e, c)
  PROVE  Fits(n, x, a, m, e, c)
<1>1. StatusFits(n)
  BY DEF Fits, StatusFits, Same, Unplanned, RunType
<1>2. ChildFits("executor", n, x, e)
  BY DEF Fits, ChildFits, AsWork, Same
<1>3. ChildFits("auditor", n, a, c)
  BY DEF Fits, ChildFits, AsWork, Same
<1>4. PhaseFits(n, x, a, m, e, c)
  BY DEF Fits, PhaseFits, Same, Unplanned, Names
<1>5. LastFits(n, x, e)
  BY DEF Fits, LastFits, Same
<1> QED  BY <1>1, <1>2, <1>3, <1>4, <1>5 DEF Fits

\* The Run moves on once its Audit exists.
LEMMA FitsAuditing ==
  ASSUME NEW r \in RunType, NEW x, NEW a, NEW m, NEW e, NEW c,
         NEW n \in RunType, n.phase = "Auditing", n.round = r.round, SameWork(n, r),
         r.phase = "Executing", Names(a, r.round),
         Fits(r, x, a, m, e, c)
  PROVE  Fits(n, x, a, m, e, c)
<1>1. StatusFits(n)
  BY DEF Fits, StatusFits, SameWork, Same, Unplanned
<1>2. ChildFits("executor", n, x, e)
  BY DEF Fits, ChildFits, AsWork, SameWork, Same
<1>3. ChildFits("auditor", n, a, c)
  BY DEF Fits, ChildFits, AsWork, SameWork, Same
<1>4. PhaseFits(n, x, a, m, e, c)
  BY DEF Fits, PhaseFits, SameWork, Same, Unplanned, Names
<1>5. LastFits(n, x, e)
  BY DEF Fits, LastFits, SameWork, Same
<1> QED  BY <1>1, <1>2, <1>3, <1>4, <1>5 DEF Fits

-----------------------------------------------------------------------------
\* A Run without children and calls.

\* A Run without children and calls.
LEMMA FitsAlone ==
  ASSUME NEW r \in RunType, StatusFits(r), r.last = None,
         r.phase \in {"New", "Receiving"}
  PROVE  Fits(r, None, None, None, None, None)
BY DEF Fits, ChildFits, PhaseFits, LastFits, Names, Unplanned

-----------------------------------------------------------------------------
\* The workers and their calls.

\* The call of an executor, for an execution that has not reported.
LEMMA FitsExecutorPrompt ==
  ASSUME NEW r \in RunType, NEW x, NEW a, NEW m, NEW e, NEW c, Family(x, a, m, e, c),
         NEW e1 \in CallType("executor"), x # None, ~x.reported, e1.round = x.round,
         e1.request = AsWork("executor", x, r), r.phase # "New",
         Fits(r, x, a, m, e, c)
  PROVE  Fits(r, x, a, m, e1, c)
<1>0. PICK k \in Nat : k = r.round
  BY DEF RunType
<1>1. x.round = k /\ Names(x, k) /\ Names(e1, k)
  BY <1>0, NoneAssumption DEF Fits, ChildFits, Names, Family, ExecutionType, Role, Worker
<1>2. ChildFits("executor", r, x, e1)
  BY <1>0, <1>1 DEF ChildFits, Names
<1>3. PhaseFits(r, x, a, m, e1, c)
  BY DEF Fits, PhaseFits
<1>4. LastFits(r, x, e1)
  BY <1>0, <1>1 DEF Fits, LastFits
<1> QED  BY <1>2, <1>3, <1>4 DEF Fits

\* The call of an auditor, with the guidance of the Run.
LEMMA FitsAuditorPrompt ==
  ASSUME NEW r \in RunType, NEW x, NEW a, NEW m, NEW e, NEW c, Family(x, a, m, e, c),
         NEW c1 \in CallType("auditor"), a # None, ~a.reported, c1.round = a.round,
         c1.request = AsWork("auditor", a, r), r.phase # "New",
         Fits(r, x, a, m, e, c)
  PROVE  Fits(r, x, a, m, e, c1)
<1>0. PICK k \in Nat : k = r.round
  BY DEF RunType
<1>1. a.round = k /\ Names(a, k) /\ Names(c1, k)
  BY <1>0, NoneAssumption DEF Fits, ChildFits, Names, Family, AuditType, Role, Worker
<1>2. ChildFits("auditor", r, a, c1)
  BY <1>0, <1>1 DEF ChildFits, Names
<1>3. PhaseFits(r, x, a, m, e, c1)
  BY DEF Fits, PhaseFits
<1> QED  BY <1>2, <1>3 DEF Fits

\* The report of an execution, from a call that is over.
LEMMA FitsExecutorReport ==
  ASSUME NEW r \in RunType, NEW x, NEW a, NEW m, NEW e, NEW c, Family(x, a, m, e, c),
         NEW x1, x1 # None, x1.round = x.round, x1.version = x.version, x1.reported,
         x # None, ~x.reported, Names(e, x.round), e.result # None,
         Fits(r, x, a, m, e, c)
  PROVE  Fits(r, x1, a, m, e, c)
<1>0. PICK k \in Nat : k = r.round
  BY DEF RunType
<1>1. x.round = k /\ Names(x, k) /\ Names(x1, k)
  BY <1>0 DEF Fits, ChildFits, Names, Family, ExecutionType
<1>2. ChildFits("executor", r, x1, e)
  BY <1>0, <1>1 DEF Fits, ChildFits, Names, AsWork
<1>3. PhaseFits(r, x1, a, m, e, c)
  BY <1>0, <1>1 DEF Fits, PhaseFits
<1>4. LastFits(r, x1, e)
  BY <1>0, <1>1 DEF Fits, LastFits
<1> QED  BY <1>2, <1>3, <1>4 DEF Fits

\* The report of an audit, from a call that is over.
LEMMA FitsAuditorReport ==
  ASSUME NEW r \in RunType, NEW x, NEW a, NEW m, NEW e, NEW c, Family(x, a, m, e, c),
         NEW a1, a1 # None, a1.round = a.round, a1.version = a.version, a1.reported,
         a # None, ~a.reported, Names(c, a.round), c.result # None,
         Fits(r, x, a, m, e, c)
  PROVE  Fits(r, x, a1, m, e, c)
<1>0. PICK k \in Nat : k = r.round
  BY DEF RunType
<1>1. a.round = k /\ Names(a, k) /\ Names(a1, k)
  BY <1>0 DEF Fits, ChildFits, Names, Family, AuditType
<1>2. ChildFits("auditor", r, a1, c)
  BY <1>0, <1>1 DEF Fits, ChildFits, Names, AsWork
<1>3. PhaseFits(r, x, a1, m, e, c)
  BY <1>0, <1>1 DEF Fits, PhaseFits
<1> QED  BY <1>2, <1>3 DEF Fits

\* A call that was running is over.
Answer(call, after) ==
  /\ call # None /\ after # None /\ call.result = None
  /\ after.round = call.round /\ after.request = call.request

\* The Manager's call ends.
LEMMA FitsPlanEnd ==
  ASSUME NEW r \in RunType, NEW x, NEW a, NEW m, NEW e, NEW c,
         NEW m1, Answer(m, m1), Fits(r, x, a, m, e, c)
  PROVE  Fits(r, x, a, m1, e, c)
<1>1. \A k : Names(m1, k) <=> Names(m, k)
  BY DEF Answer, Names
<1>2. PhaseFits(r, x, a, m1, e, c)
  BY <1>1 DEF Fits, PhaseFits, Answer
<1> QED  BY <1>2 DEF Fits

\* The executor's call ends.
LEMMA FitsExecutorEnd ==
  ASSUME NEW r \in RunType, NEW x, NEW a, NEW m, NEW e, NEW c, Family(x, a, m, e, c),
         NEW e1, Answer(e, e1), Fits(r, x, a, m, e, c)
  PROVE  Fits(r, x, a, m, e1, c)
<1>1. \A k : Names(e1, k) <=> Names(e, k)
  BY DEF Answer, Names
<1>2. ChildFits("executor", r, x, e1)
  BY <1>1 DEF Fits, ChildFits, Answer, Names
<1>3. PhaseFits(r, x, a, m, e1, c)
  BY DEF Fits, PhaseFits, Answer
<1>4. LastFits(r, x, e1)
  BY <1>1 DEF Fits, LastFits
<1> QED  BY <1>2, <1>3, <1>4 DEF Fits

\* The auditor's call ends.
LEMMA FitsAuditorEnd ==
  ASSUME NEW r \in RunType, NEW x, NEW a, NEW m, NEW e, NEW c, Family(x, a, m, e, c),
         NEW c1, Answer(c, c1), Fits(r, x, a, m, e, c)
  PROVE  Fits(r, x, a, m, e, c1)
<1>1. \A k : Names(c1, k) <=> Names(c, k)
  BY DEF Answer, Names
<1>2. ChildFits("auditor", r, a, c1)
  BY <1>1 DEF Fits, ChildFits, Answer, Names
<1>3. PhaseFits(r, x, a, m, e, c1)
  BY DEF Fits, PhaseFits, Answer
<1> QED  BY <1>2, <1>3 DEF Fits

\* Nothing exists at first.
LEMMA TypedInit == ASSUME Init PROVE Typed
BY LongHorizonBounds DEF Init, Typed, Idle, Position

\* A message arrives.
LEMMA PostTyped == ASSUME Typed, Post PROVE Typed'
BY LongHorizonBounds DEF Typed, Post, reconcilers, resources

\* Create: the Run resource of a goal.
LEMMA NewRunTyped ==
  ASSUME NEW p, inbox[p] \in Message, IsGoal(p)
  PROVE  NewRun(p) \in RunType /\ NewRun(p).phase = "New" /\ NewRun(p).last = None
         /\ StatusFits(NewRun(p)) /\ NewRun(p).user = inbox[p].user
         /\ NewRun(p).inputs = {}
<1>1. inbox[p].user \in User
  BY LongHorizonBounds DEF IsGoal
<1>2. PICK no \in BOOLEAN : no = FALSE
  OBVIOUS
<1>3. {} \in Guidance /\ 0 \in 0..MaxMessages
  BY LongHorizonBounds DEF Guidance
<1>4. PICK r : r = NewRun(p)
  OBVIOUS
<1>5. /\ r = [user |-> inbox[p].user, phase |-> "New", round |-> 0, budget |-> 0,
              failures |-> 0, version |-> 0, through |-> 0, inputs |-> {},
              guidance |-> {}, last |-> None, reason |-> "none", asked |-> no,
              final |-> no]
  BY <1>2, <1>4 DEF NewRun
<1>6. r \in RunType
  BY <1>1, <1>3, <1>5 DEF RunType, Phase, Reason
<1>7. Cardinality({}) = 0
  BY FS_EmptySet
<1>8. StatusFits(r)
  BY <1>5, <1>7, LongHorizonBounds DEF StatusFits, Unplanned
<1> QED  BY <1>4, <1>5, <1>6, <1>8

\* Ingress polls, refuses, commits and creates within the types.
LEMMA IngressTyped == ASSUME Typed, Ingress PROVE Typed'
<1>0. /\ DOMAIN inbox = 1..Len(inbox)
      /\ ingress \in {Idle} \cup [at : {"act", "commit"}, message : DOMAIN inbox]
  BY DEF Typed
<1>1. CASE IngressPoll
  <2>1. committed + 1 \in DOMAIN inbox
    BY <1>1 DEF Typed, IngressPoll
  <2> QED  BY <1>1, <2>1 DEF Typed, IngressPoll, resources, services
<1>2. CASE IngressRefuse
  <2>1. ingress \in [at : {"act", "commit"}, message : 1..Len(inbox)]
    BY <1>2, <1>0 DEF IngressRefuse, Idle
  <2>2. ingress' \in [at : {"act", "commit"}, message : 1..Len(inbox)]
    BY <1>2, <2>1 DEF IngressRefuse
  <2>3. refused' \subseteq Position
    BY <1>2, <2>1, LongHorizonBounds DEF IngressRefuse, Typed, Position
  <2>4. ingress' \in {Idle} \cup [at : {"act", "commit"}, message : DOMAIN inbox']
    BY <1>0, <1>2, <2>2 DEF IngressRefuse
  <2> QED  BY <1>2, <2>3, <2>4 DEF Typed, IngressRefuse, resources
<1>3. CASE IngressCommit
  <2>1. ingress \in [at : {"act", "commit"}, message : 1..Len(inbox)]
    BY <1>3, <1>0 DEF IngressCommit, Idle
  <2>2. committed' \in 0..MaxMessages
    BY <1>3, <2>1, LongHorizonBounds DEF IngressCommit, Typed, Later
  <2> QED  BY <1>3, <2>2 DEF Typed, IngressCommit, resources
<1>4. CASE IngressCreate
  <2>1. ingress \in [at : {"act", "commit"}, message : DOMAIN inbox]
    BY <1>4, <1>0 DEF IngressCreate, Idle
  <2>2. PICK p \in DOMAIN inbox : p = ingress.message
    BY <2>1
  <2>3. p \in Position /\ inbox[p] \in Message
    BY <1>0, LongHorizonBounds DEF Typed, Position
  <2>4. NewRun(p) \in RunType
    BY <1>4, <2>2, <2>3, NewRunTyped DEF IngressCreate, IsGoal
  <2>5. runs' \in [Position -> RunType \cup {None}] /\ ingress' = Idle
    BY <1>4, <2>2, <2>3, <2>4 DEF Typed, IngressCreate
  <2> QED  BY <1>4, <2>5 DEF Typed, IngressCreate, services
<1> QED  BY <1>1, <1>2, <1>3, <1>4 DEF Ingress

\* What cleanup leaves of a child.
LEMMA KeptTyped ==
  ASSUME Typed, NEW i \in Run
  PROVE  /\ Kept(i, executions[i]) \in ExecutionType \cup {None}
         /\ Kept(i, audits[i]) \in AuditType \cup {None}
         /\ Dropped(executions[i], Kept(i, executions[i]), runs[i])
         /\ Dropped(audits[i], Kept(i, audits[i]), runs[i])
BY DEF Typed, Run, Kept, Collectible, Dropped

\* What a status patch leaves of the calls.
LEMMA ForgetTyped ==
  ASSUME Typed, NEW i \in Position, NEW r \in RunType
  PROVE  /\ DOMAIN Forget(i, r) = Position \X Role
         /\ \A k \in Position \X Role : Forget(i, r)[k] \in CallType(k[2]) \cup {None}
         /\ \A role \in Role : Forgotten(calls[<<i, role>>], Forget(i, r)[<<i, role>>], r)
         /\ \A j \in Position \ {i}, role \in Role :
              Forget(i, r)[<<j, role>>] = calls[<<j, role>>]
<1>1. DOMAIN Forget(i, r) = Position \X Role
  BY DEF Forget
<1>2. ASSUME NEW k \in Position \X Role
      PROVE  /\ Forget(i, r)[k] \in CallType(k[2]) \cup {None}
             /\ Forgotten(calls[k], Forget(i, r)[k], r)
             /\ k[1] # i => Forget(i, r)[k] = calls[k]
  <2> DEFINE stale == k[1] = i /\ calls[k] # None /\ calls[k].round < r.round
                      /\ calls[k].result # None
  <2>1. CASE ~stale
    BY <2>1 DEF Forget, Forgotten, Typed
  <2>2. CASE stale
    <3>1. PICK role \in Role : role = k[2]
      OBVIOUS
    <3>2. calls[k] \in CallType(role)
      BY <2>2, <3>1 DEF Typed
    <3>3. calls[k].result \in Results(role)
      BY <2>2, <3>2 DEF CallType
    <3>4. PICK v \in Results(role) : v = CHOOSE x \in Results(role) : TRUE
      BY <3>3
    <3>5. Forget(i, r)[k] = [calls[k] EXCEPT !.request = None, !.result = v]
      BY <2>2, <3>1, <3>4 DEF Forget
    <3>6. PICK after : after = [calls[k] EXCEPT !.request = None, !.result = v]
      OBVIOUS
    <3>7. after \in CallType(role) /\ after.round = calls[k].round /\ after.result = v
      <4>1. PICK call \in CallType(role) : call = calls[k]
        BY <3>2
      <4>2. after = [call EXCEPT !.request = None, !.result = v]
        BY <3>6, <4>1
      <4> DEFINE requests == {None} \cup IF role = "manager" THEN PlanType ELSE RequestType
                 results == Results(role) \cup {None}
      <4>3. CallType(role) = [round : Nat, request : requests, result : results]
        BY DEF CallType
      <4>4. None \in requests /\ v \in results
        BY <3>4
      <4> HIDE DEF requests, results
      <4>5. after \in CallType(role) /\ after.round = call.round /\ after.result = v
        <5>1. call \in [round : Nat, request : requests, result : results]
          BY <4>1, <4>3
        <5>2. after \in [round : Nat, request : requests, result : results]
          BY <5>1, <4>2, <4>4
        <5>3. after.round = call.round /\ after.result = v
          BY <5>1, <4>2
        <5> QED  BY <5>2, <5>3, <4>3
      <4> QED  BY <4>1, <4>5
    <3>8. after # None /\ v # None
      BY <3>7, NoneAssumption
    <3> QED  BY <2>2, <3>1, <3>5, <3>6, <3>7, <3>8 DEF Forgotten
  <2> QED  BY <2>1, <2>2
<1>3. \A j \in Position, role \in Role : <<j, role>> \in Position \X Role /\ <<j, role>>[1] = j
  OBVIOUS
<1> QED  BY <1>1, <1>2, <1>3

\* A status patch.
LEMMA WriteTyped ==
  ASSUME Typed, NEW i \in Position, NEW r \in RunType, Write(i, r)
  PROVE  /\ runs' \in [Position -> RunType \cup {None}]
         /\ DOMAIN calls' = Position \X Role
         /\ \A k \in Position \X Role : calls'[k] \in CallType(k[2]) \cup {None}
         /\ taken' \subseteq Position \X Position
<1>1. calls' = Forget(i, r)
  BY DEF Write
<1>2. r.inputs \subseteq Position
  BY DEF RunType
<1>3. runs' \in [Position -> RunType \cup {None}]
  BY DEF Typed, Write
<1>4. taken' \subseteq Position \X Position
  BY <1>2 DEF Typed, Write
<1>5. /\ DOMAIN calls' = Position \X Role
      /\ \A k \in Position \X Role : calls'[k] \in CallType(k[2]) \cup {None}
  BY <1>1, ForgetTyped
<1> QED  BY <1>3, <1>4, <1>5

\* The commit every pass begins with.
LEMMA BeginTyped ==
  ASSUME Typed, NEW i \in Position, Begin(i)
  PROVE  committed' \in 0..MaxMessages /\ runs[i] \in RunType /\ i \in Run
BY DEF Typed, Begin, Run, RunType, Later

\* A pass that writes a status and cleans up.
LEMMA PassTyped ==
  ASSUME Typed, NEW i \in Position, Pass(i), NEW r \in RunType, Write(i, r)
  PROVE  Typed'
<1>1. committed' \in 0..MaxMessages /\ runs[i] \in RunType /\ i \in Run
  BY BeginTyped DEF Pass
<1>2. /\ executions' \in [Position -> ExecutionType \cup {None}]
      /\ audits' \in [Position -> AuditType \cup {None}]
  BY <1>1, KeptTyped DEF Pass, Cleanup, Children, Typed
<1>3. UNCHANGED <<inbox, questions, expired, refused, reconcilers>>
  BY DEF Pass
<1> QED  BY <1>1, <1>2, <1>3, WriteTyped DEF Typed, reconcilers

\* A pass that has created something, and holds the status it will patch.
LEMMA PatchTyped ==
  ASSUME Typed, NEW i \in Position, NEW r \in RunType, Begin(i), Patch(i, r),
         executions' \in [Position -> ExecutionType \cup {None}],
         audits' \in [Position -> AuditType \cup {None}],
         questions' \in [Position -> QuestionType \cup {None}],
         UNCHANGED <<runs, inbox, calls, expired, refused, ingress, worker, taken>>
  PROVE  Typed'
<1>1. committed' \in 0..MaxMessages
  BY BeginTyped
<1> QED  BY <1>1 DEF Typed, Patch

\* The children and calls of a Run have their types.
LEMMA FamilyOf ==
  ASSUME Typed, NEW i \in Position
  PROVE  Family(executions[i], audits[i], calls[<<i, "manager">>],
                calls[<<i, "executor">>], calls[<<i, "auditor">>])
<1>1. ASSUME NEW role \in Role
      PROVE  calls[<<i, role>>] \in CallType(role) \cup {None}
  <2>1. PICK k \in Position \X Role : k = <<i, role>>
    OBVIOUS
  <2>2. calls[k] \in CallType(k[2]) \cup {None} /\ k[2] = role
    BY <2>1 DEF Typed
  <2> QED  BY <2>1, <2>2
<1>2. {"manager", "executor", "auditor"} = Role
  BY DEF Role, Worker
<1> QED  BY <1>1, <1>2 DEF Family, Typed

\* A status that fits still does after cleanup, its old results forgotten.
LEMMA ForgetFits ==
  ASSUME Typed, NEW i \in Position, NEW n \in RunType, FitsAt(i, n),
         NEW x1, NEW a1, NEW r \in RunType, r.round <= n.round,
         Dropped(executions[i], x1, r), Dropped(audits[i], a1, r),
         x1 \in ExecutionType \cup {None}, a1 \in AuditType \cup {None}
  PROVE  Fits(n, x1, a1, Forget(i, n)[<<i, "manager">>],
              Forget(i, n)[<<i, "executor">>], Forget(i, n)[<<i, "auditor">>])
<1>1. PICK x, a, m, e, c : /\ x = executions[i] /\ a = audits[i]
                           /\ m = calls[<<i, "manager">>]
                           /\ e = calls[<<i, "executor">>]
                           /\ c = calls[<<i, "auditor">>]
  OBVIOUS
<1>2. PICK m1, e1, c1 : /\ m1 = Forget(i, n)[<<i, "manager">>]
                        /\ e1 = Forget(i, n)[<<i, "executor">>]
                        /\ c1 = Forget(i, n)[<<i, "auditor">>]
  OBVIOUS
<1>3. Family(x, a, m, e, c) /\ Fits(n, x, a, m, e, c)
  BY <1>1, FamilyOf DEF FitsAt
<1>4. Dropped(x, x1, n) /\ Dropped(a, a1, n)
  BY <1>1, <1>3 DEF Dropped, Family, ExecutionType, AuditType, RunType
<1>5. Fits(n, x1, a1, m, e, c)
  BY <1>3, <1>4, FitsCleanup
<1>6. Forgotten(m, m1, n) /\ Forgotten(e, e1, n) /\ Forgotten(c, c1, n)
  BY <1>1, <1>2, ForgetTyped DEF Role, Worker
<1>7. Family(x1, a1, m, e, c)
  BY <1>3 DEF Family
<1>8. Fits(n, x1, a1, m1, e1, c1)
  BY <1>5, <1>6, <1>7, FitsForget
<1> QED  BY <1>2, <1>8

\* A forgotten result is still issued: its key is never used again.
LEMMA ForgetIssued ==
  ASSUME Typed, NEW i \in Position, NEW n \in RunType, NEW j \in Position,
         NEW role \in Role, NEW k
  PROVE  Names(Forget(i, n)[<<j, role>>], k) <=> Names(calls[<<j, role>>], k)
<1>1. CASE j = i
  BY <1>1, ForgetTyped DEF Forgotten, Names
<1>2. CASE j # i
  BY <1>2, ForgetTyped
<1> QED  BY <1>1, <1>2

\* A pass that creates nothing.
LEMMA PassRound ==
  ASSUME Typed, RoundInv, NEW i \in Position, Pass(i), NEW n \in RunType, Write(i, n),
         FitsAt(i, n), runs[i].round <= n.round,
         audits[i] # None /\ ~audits[i].reported => n.guidance = runs[i].guidance
  PROVE  RoundInv'
<1>1. /\ runs[i] \in RunType /\ i \in Run /\ manager = Idle /\ manager' = Idle
      /\ worker' = worker
  BY BeginTyped DEF Pass, Begin, reconcilers
<1>2. PICK x1, a1 : /\ executions' = [executions EXCEPT ![i] = x1]
                    /\ audits' = [audits EXCEPT ![i] = a1]
                    /\ x1 = Kept(i, executions[i]) /\ a1 = Kept(i, audits[i])
                    /\ x1 \in ExecutionType \cup {None} /\ a1 \in AuditType \cup {None}
                    /\ Dropped(executions[i], x1, runs[i])
                    /\ Dropped(audits[i], a1, runs[i])
  BY <1>1, KeptTyped DEF Pass, Cleanup, Children
<1>3. runs' = [runs EXCEPT ![i] = n] /\ calls' = Forget(i, n)
  BY DEF Write
<1>4. n # None /\ Run' = Run
  BY <1>1, <1>3, NoneAssumption DEF Run, Typed
<1>5. FitsAt(i, runs[i])'
  <2>1. Fits(n, x1, a1, Forget(i, n)[<<i, "manager">>],
             Forget(i, n)[<<i, "executor">>], Forget(i, n)[<<i, "auditor">>])
    BY <1>1, <1>2, ForgetFits
  <2>2. runs'[i] = n /\ executions'[i] = x1 /\ audits'[i] = a1
    BY <1>2, <1>3 DEF Typed
  <2> QED  BY <1>3, <2>1, <2>2 DEF FitsAt
<1>6. ASSUME NEW j \in Position, j # i
      PROVE  /\ runs'[j] = runs[j] /\ executions'[j] = executions[j]
             /\ audits'[j] = audits[j]
             /\ \A role \in Role : calls'[<<j, role>>] = calls[<<j, role>>]
  BY <1>2, <1>3, <1>6, ForgetTyped DEF Typed
<1>7. \A j \in Run' : FitsAt(j, runs[j])'
  <2> SUFFICES ASSUME NEW j \in Run, j # i PROVE FitsAt(j, runs[j])'
    BY <1>4, <1>5
  <2>1. j \in Position /\ FitsAt(j, runs[j])
    BY DEF Run, RoundInv
  <2> QED  BY <1>6, <2>1 DEF FitsAt, Role, Worker
<1>8. \A j \in Position \ Run' : Absent(j)'
  BY <1>1, <1>4, <1>6 DEF Absent, RoundInv
<1>9. Prompting'
  <2> SUFFICES ASSUME NEW w \in Worker, NEW me, me = worker[w], me # Idle
               PROVE  PromptFits(w, me)'
    BY <1>1 DEF Prompting
  <2>1. PICK j \in Position, k \in {me.round} : j = me.run /\ k = me.round
    BY DEF RoundInv, Prompting, PromptFits, Run
  <2>2. /\ j \in Run
        /\ Names(Child(w, j), k) /\ ~Child(w, j).reported
        /\ ~Names(calls[<<j, w>>], k)
        /\ me.request = AsWork(w, Child(w, j), runs[j])
    BY <2>1 DEF RoundInv, Prompting, PromptFits
  <2>3. Child(w, j)' = Child(w, j)
    <3>1. CASE j # i
      BY <1>6, <3>1 DEF Child
    <3>2. CASE j = i /\ w = "executor"
      BY <1>2, <2>2, <3>2 DEF Child, Kept, Collectible, Typed
    <3>3. CASE j = i /\ w # "executor"
      BY <1>2, <2>2, <3>3 DEF Child, Kept, Collectible, Typed
    <3> QED  BY <3>1, <3>2, <3>3
  <2>4. ~Names(calls'[<<j, w>>], k)
    BY <1>3, <2>2, ForgetIssued DEF Role
  <2>5. AsWork(w, Child(w, j), runs'[j]) = AsWork(w, Child(w, j), runs[j])
    <3>1. CASE j # i
      BY <1>6, <3>1
    <3>2. CASE j = i
      <4>1. runs'[j] = n
        BY <1>3, <3>2 DEF Typed
      <4>2. w = "auditor" => n.guidance = runs[i].guidance
        BY <2>2, <3>2 DEF Names, Child
      <4>3. \A child : AsWork(w, child, n) = AsWork(w, child, runs[i])
        BY <4>2 DEF AsWork
      <4> QED  BY <3>2, <4>1, <4>3
    <3> QED  BY <3>1, <3>2
  <2> QED  BY <1>4, <2>1, <2>2, <2>3, <2>4, <2>5 DEF PromptFits
<1> QED  BY <1>1, <1>7, <1>8, <1>9 DEF RoundInv

\* A pass that leaves the statuses alone: it cleans up or creates a child, and
\* may submit the Manager's call or hold a status that it will patch.
LEMMA TendRound ==
  ASSUME Typed, RoundInv, NEW i \in Position, Begin(i), NEW x1, NEW a1, NEW m1,
         executions' = [executions EXCEPT ![i] = x1],
         audits' = [audits EXCEPT ![i] = a1],
         executions[i] # None /\ ~executions[i].reported => x1 = executions[i],
         audits[i] # None /\ ~audits[i].reported => a1 = audits[i],
         calls'[<<i, "manager">>] = m1,
         \A j \in Position, role \in Role :
           <<j, role>> # <<i, "manager">> => calls'[<<j, role>>] = calls[<<j, role>>],
         Fits(runs[i], x1, a1, m1, calls[<<i, "executor">>], calls[<<i, "auditor">>]),
         UNCHANGED <<runs, worker>>,
         manager' # Idle =>
           /\ manager'.run = i
           /\ Fits(manager'.next, x1, a1, m1, calls[<<i, "executor">>], calls[<<i, "auditor">>])
  PROVE  RoundInv'
<1>0. i \in Run /\ manager = Idle /\ runs' = runs /\ worker' = worker /\ Run' = Run
  BY DEF Begin, Run
<1>1. /\ executions'[i] = x1 /\ audits'[i] = a1
      /\ \A j \in Position \ {i} : /\ executions'[j] = executions[j]
                                   /\ audits'[j] = audits[j]
  BY DEF Typed
<1>2. \A j \in Position, w \in Worker : calls'[<<j, w>>] = calls[<<j, w>>]
  BY DEF Role, Worker
<1>3. \A j \in Position \ {i}, role \in Role : calls'[<<j, role>>] = calls[<<j, role>>]
  OBVIOUS
<1>4. FitsAt(i, runs[i])'
  BY <1>0, <1>1, <1>2 DEF FitsAt, Worker
<1>5. \A j \in Run' : FitsAt(j, runs[j])'
  <2> SUFFICES ASSUME NEW j \in Run, j # i PROVE FitsAt(j, runs[j])'
    BY <1>0, <1>4
  <2>1. j \in Position /\ FitsAt(j, runs[j])
    BY DEF Run, RoundInv
  <2> QED  BY <1>0, <1>1, <1>3, <2>1 DEF FitsAt, Role, Worker
<1>6. \A j \in Position \ Run' : Absent(j)'
  BY <1>0, <1>1, <1>3 DEF Absent, RoundInv
<1>7. manager' # Idle => FitsAt(manager.run, manager.next)'
  <2> SUFFICES ASSUME manager' # Idle PROVE FitsAt(manager.run, manager.next)'
    OBVIOUS
  <2>1. PICK n : n = manager'.next
    OBVIOUS
  <2>2. FitsAt(i, n)'
    BY <1>1, <1>2, <2>1 DEF FitsAt, Worker
  <2> QED  BY <2>1, <2>2
<1>8. Prompting'
  <2> SUFFICES ASSUME NEW w \in Worker, NEW me, me = worker[w], me # Idle
               PROVE  PromptFits(w, me)'
    BY <1>0 DEF Prompting
  <2>1. PICK j \in Position, k \in {me.round} : j = me.run /\ k = me.round
    BY DEF RoundInv, Prompting, PromptFits, Run
  <2>2. /\ j \in Run
        /\ Names(Child(w, j), k) /\ ~Child(w, j).reported
        /\ ~Names(calls[<<j, w>>], k)
        /\ me.request = AsWork(w, Child(w, j), runs[j])
    BY <2>1 DEF RoundInv, Prompting, PromptFits
  <2>3. Child(w, j)' = Child(w, j)
    BY <1>1, <2>2 DEF Child, Names
  <2> QED  BY <1>0, <1>2, <2>1, <2>2, <2>3 DEF PromptFits
<1> QED  BY <1>5, <1>6, <1>7, <1>8 DEF RoundInv

\* What does not touch a Run's resources and calls.
LEMMA RoundFrame ==
  ASSUME RoundInv, UNCHANGED <<runs, executions, audits, calls>>,
         manager' \in {manager, Idle},
         \A w \in Worker : worker'[w] \in {worker[w], Idle}
  PROVE  RoundInv'
<1>1. Run' = Run
  BY DEF Run
<1>2. /\ \A i \in Run : FitsAt(i, runs[i])'
      /\ \A i \in Position \ Run : Absent(i)'
  BY DEF RoundInv, FitsAt, Absent
<1>3. manager' # Idle => FitsAt(manager.run, manager.next)'
  BY DEF RoundInv, FitsAt
<1>4. Prompting'
  <2> SUFFICES ASSUME NEW w \in Worker, NEW me, me = worker[w], me # Idle
               PROVE  PromptFits(w, me)'
    BY DEF Prompting
  <2>1. PromptFits(w, me)
    BY DEF RoundInv, Prompting
  <2> QED  BY <1>1, <2>1 DEF PromptFits, Child
<1> QED  BY <1>1, <1>2, <1>3, <1>4 DEF RoundInv

-----------------------------------------------------------------------------
\* The workers.

\* What a worker checks before its prompt fits its child.
LEMMA WorkerCheckRound ==
  ASSUME Typed, RoundInv, NEW w \in Worker, NEW i \in Position, WorkerCheck(w, i)
  PROVE  RoundInv'
<1>1. /\ i \in Run /\ Run' = Run /\ manager' = manager
      /\ UNCHANGED <<runs, executions, audits, calls>>
  BY DEF WorkerCheck, Unreported, Live, resources, services, Run
<1>2. /\ \A j \in Run : FitsAt(j, runs[j])'
      /\ \A j \in Position \ Run : Absent(j)'
      /\ manager' # Idle => FitsAt(manager.run, manager.next)'
  BY <1>1 DEF RoundInv, FitsAt, Absent
<1>3. PICK me : me = [at |-> "prompt", run |-> i, round |-> Child(w, i).round,
                      request |-> WorkRequest(w, i)]
  OBVIOUS
<1>4. \A v \in Worker : worker'[v] = IF v = w THEN me ELSE worker[v]
  BY <1>3 DEF WorkerCheck, Typed
<1>5. me.run = i /\ me.round = Child(w, i).round /\ me.request = WorkRequest(w, i)
  BY <1>3
<1>6. PromptFits(w, me)
  BY <1>1, <1>5 DEF WorkerCheck, Unreported, PromptFits, Issued, Names, WorkRequest, AsWork
<1>7. Prompting'
  <2> SUFFICES ASSUME NEW v \in Worker, NEW one, one = worker'[v], one # Idle
               PROVE  PromptFits(v, one)'
    BY DEF Prompting
  <2>1. PromptFits(v, one)
    BY <1>4, <1>6 DEF RoundInv, Prompting
  <2> QED  BY <1>1, <2>1 DEF PromptFits, Child
<1> QED  BY <1>1, <1>2, <1>7 DEF RoundInv

\* A step that suits every status Run i may have.
KeepsFits(i) ==
  \A r \in RunType : Same(r, runs[i]) /\ r.phase # "New" /\ FitsAt(i, r) => FitsAt(i, r)'

\* The worker that submits a call is done with it, and no other is about to.
KeepsPrompts(i, role, call) ==
  \A w \in Worker : \/ worker'[w] = Idle
                    \/ /\ worker'[w] = worker[w]
                       /\ worker[w] # Idle /\ worker[w].run = i /\ w = role
                            => call.round # worker[w].round

\* A change of one call of Run i.
LEMMA CallRound ==
  ASSUME Typed, RoundInv, NEW i \in Run, NEW role \in Role, NEW call,
         calls' = [calls EXCEPT ![<<i, role>>] = call],
         KeepsFits(i), KeepsPrompts(i, role, call),
         runs[i].phase # "New",
         manager # Idle /\ manager.run = i
           => Same(manager.next, runs[i]) /\ manager.next.phase # "New",
         UNCHANGED <<runs, executions, audits, manager>>
  PROVE  RoundInv'
<1>1. Run' = Run /\ i \in Position /\ runs[i] \in RunType
  BY DEF Run, Typed
<1>2. \A j \in Position, other \in Role :
        <<j, other>> # <<i, role>> => calls'[<<j, other>>] = calls[<<j, other>>]
  BY DEF Typed
<1>3. \A j \in Position \ {i} : \A r : FitsAt(j, r) => FitsAt(j, r)'
  BY <1>2 DEF FitsAt, Role, Worker
<1>4. \A j \in Run : FitsAt(j, runs[j])'
  <2> SUFFICES ASSUME NEW j \in Run, NEW r, r = runs[j] PROVE FitsAt(j, r)'
    OBVIOUS
  <2>1. j \in Position /\ FitsAt(j, r) /\ r \in RunType
    BY DEF RoundInv, Run, Typed
  <2> QED  BY <1>3, <2>1 DEF Same, KeepsFits
<1>5. \A j \in Position \ Run : Absent(j)'
  BY <1>1, <1>2 DEF Absent, RoundInv
<1>6. manager' # Idle => FitsAt(manager.run, manager.next)'
  <2> SUFFICES ASSUME manager # Idle, NEW j, NEW r, j = manager.run, r = manager.next
               PROVE  FitsAt(j, r)'
    OBVIOUS
  <2>1. j \in Position /\ FitsAt(j, r) /\ r \in RunType
    BY DEF RoundInv, Typed
  <2> QED  BY <1>3, <2>1 DEF KeepsFits
<1>7. Prompting'
  <2> SUFFICES ASSUME NEW w \in Worker, NEW me, me = worker'[w], me # Idle
               PROVE  PromptFits(w, me)'
    BY DEF Prompting
  <2>1. me = worker[w] /\ PromptFits(w, me) /\ (me.run = i /\ w = role => call.round # me.round)
    BY DEF RoundInv, Prompting, KeepsPrompts
  <2>2. ~Names(calls'[<<me.run, w>>], me.round)
    <3>1. PICK j \in Position : j = me.run
      BY <2>1 DEF PromptFits, Run
    <3>2. CASE j = i /\ w = role
      BY <2>1, <3>1, <3>2 DEF Names, Typed
    <3>3. CASE ~(j = i /\ w = role)
      <4>1. calls'[<<j, w>>] = calls[<<j, w>>]
        BY <1>2, <3>3 DEF Role
      <4> QED  BY <2>1, <3>1, <4>1 DEF PromptFits
    <3> QED  BY <3>2, <3>3
  <2> QED  BY <1>1, <2>1, <2>2 DEF PromptFits, Child
<1> QED  BY <1>1, <1>4, <1>5, <1>6, <1>7 DEF RoundInv

\* What is pending is about a Run that has begun.
LEMMA Begun ==
  ASSUME Typed, RoundInv, NEW i \in Run,
         executions[i] # None \/ audits[i] # None \/ \E role \in Role : calls[<<i, role>>] # None
  PROVE  runs[i].phase # "New"
<1>1. FitsAt(i, runs[i]) /\ i \in Position
  BY DEF RoundInv, Run
<1> QED  BY <1>1 DEF FitsAt, Fits, PhaseFits, Role, Worker

\* The Run may have ended since the check: the prompt still fits.
LEMMA WorkerPromptRound ==
  ASSUME Typed, RoundInv, Patching, NEW w \in Worker, WorkerPrompt(w)
  PROVE  RoundInv' /\ DOMAIN calls' = Position \X Role
         /\ \A k \in Position \X Role : calls'[k] \in CallType(k[2]) \cup {None}
<1>1. worker[w] # Idle
  BY DEF WorkerPrompt, Idle
<1>2. PICK me \in [at : {"prompt"}, run : Position, round : Nat, request : RequestType] :
        me = worker[w]
  BY <1>1 DEF Typed
<1>3. PICK i \in Position : i = me.run
  BY <1>2
<1>4. PromptFits(w, me)
  BY <1>1, <1>2 DEF RoundInv, Prompting
<1>5. PICK call : call = [round |-> me.round, request |-> me.request, result |-> None]
  OBVIOUS
<1>6. /\ call \in CallType(w) /\ call.round = me.round /\ call.request = me.request
      /\ w # "manager" /\ w \in Role
  BY <1>2, <1>5 DEF CallType, Worker, Role
<1>7. calls' = [calls EXCEPT ![<<i, w>>] = call]
  BY <1>2, <1>3, <1>5 DEF WorkerPrompt, Submit
<1>8. i \in Run /\ runs[i].phase # "New"
  <2>1. i \in Run /\ (executions[i] # None \/ audits[i] # None)
    BY <1>3, <1>4 DEF PromptFits, Names, Child
  <2> QED  BY <2>1, Begun
<1>9. ASSUME NEW r \in RunType, Same(r, runs[i]), r.phase # "New", FitsAt(i, r)
      PROVE  FitsAt(i, r)'
  <2>1. PICK x, a, m, e, c : /\ x = executions[i] /\ a = audits[i]
                             /\ m = calls[<<i, "manager">>]
                             /\ e = calls[<<i, "executor">>]
                             /\ c = calls[<<i, "auditor">>]
    OBVIOUS
  <2>2. Family(x, a, m, e, c) /\ Fits(r, x, a, m, e, c)
    BY <1>9, <2>1, FamilyOf DEF FitsAt
  <2>3. executions' = executions /\ audits' = audits
    BY DEF WorkerPrompt, resources
  <2>4. CASE w = "executor"
    <3>1. x # None /\ ~x.reported /\ call.round = x.round /\ call.request = AsWork("executor", x, r)
      BY <1>3, <1>4, <1>6, <2>1, <2>4 DEF PromptFits, Names, Child, AsWork
    <3>2. Fits(r, x, a, m, call, c)
      BY <1>6, <1>9, <2>2, <2>4, <3>1, FitsExecutorPrompt
    <3>3. /\ calls'[<<i, "executor">>] = call /\ calls'[<<i, "auditor">>] = c
          /\ calls'[<<i, "manager">>] = m
      BY <1>7, <2>1, <2>4 DEF Typed, Role, Worker
    <3> QED  BY <2>1, <2>3, <3>2, <3>3 DEF FitsAt
  <2>5. CASE w = "auditor"
    <3>0. AsWork("auditor", a, r) = AsWork("auditor", a, runs[i])
      BY <1>9 DEF AsWork, Same
    <3>1. a # None /\ ~a.reported /\ call.round = a.round /\ call.request = AsWork("auditor", a, r)
      BY <1>3, <1>4, <1>6, <2>1, <2>5, <3>0 DEF PromptFits, Names, Child
    <3>2. Fits(r, x, a, m, e, call)
      BY <1>6, <1>9, <2>2, <2>5, <3>1, FitsAuditorPrompt
    <3>3. /\ calls'[<<i, "auditor">>] = call /\ calls'[<<i, "executor">>] = e
          /\ calls'[<<i, "manager">>] = m
      BY <1>7, <2>1, <2>5 DEF Typed, Role, Worker
    <3> QED  BY <2>1, <2>3, <3>2, <3>3 DEF FitsAt
  <2> QED  BY <2>4, <2>5 DEF Worker
<1>10. manager # Idle /\ manager.run = i
         => Same(manager.next, runs[i]) /\ manager.next.phase # "New"
  BY DEF Patching
<1>11. UNCHANGED <<runs, executions, audits, manager>>
  BY DEF WorkerPrompt, resources
<1>12. KeepsPrompts(i, w, call)
  BY DEF WorkerPrompt, Typed, KeepsPrompts
<1>16. KeepsFits(i)
  BY <1>9 DEF KeepsFits
<1>13. RoundInv'
  BY <1>6, <1>7, <1>8, <1>9, <1>10, <1>11, <1>12, <1>16, CallRound
<1>14. ASSUME NEW k \in Position \X Role
       PROVE  calls'[k] \in CallType(k[2]) \cup {None}
  BY <1>6, <1>7 DEF Typed
<1>15. DOMAIN calls' = Position \X Role
  BY <1>7 DEF Typed
<1> QED  BY <1>13, <1>14, <1>15

\* A call that ends leaves every status it may be read with.
LEMMA EndCallRound ==
  ASSUME Typed, RoundInv, Patching, NEW i \in Position, NEW role \in Role, EndCall(i, role)
  PROVE  RoundInv' /\ DOMAIN calls' = Position \X Role
         /\ \A k \in Position \X Role : calls'[k] \in CallType(k[2]) \cup {None}
<1>1. PICK result \in Results(role) : calls' = [calls EXCEPT ![<<i, role>>].result = result]
  BY DEF EndCall
<1>2. PICK old \in CallType(role) : old = calls[<<i, role>>] /\ old.result = None
  <2>1. PICK k \in Position \X Role : k = <<i, role>>
    OBVIOUS
  <2>2. calls[k] \in CallType(k[2]) \cup {None} /\ k[2] = role
    BY <2>1 DEF Typed
  <2> QED  BY <2>1, <2>2 DEF EndCall
<1>3. PICK call : call = [old EXCEPT !.result = result]
  OBVIOUS
<1>4. call \in CallType(role) /\ call.round = old.round /\ call.request = old.request
  <2> DEFINE requests == {None} \cup IF role = "manager" THEN PlanType ELSE RequestType
             results == Results(role) \cup {None}
  <2>1. CallType(role) = [round : Nat, request : requests, result : results]
    BY DEF CallType
  <2>2. result \in results
    OBVIOUS
  <2> HIDE DEF requests, results
  <2>3. old \in [round : Nat, request : requests, result : results]
    BY <1>2, <2>1
  <2>4. call \in [round : Nat, request : requests, result : results]
    BY <1>3, <2>2, <2>3
  <2>5. call.round = old.round /\ call.request = old.request
    BY <1>3, <2>3
  <2> QED  BY <2>1, <2>4, <2>5
<1>5. old # None /\ call # None
  BY <1>2, <1>4, NoneAssumption
<1>6. calls' = [calls EXCEPT ![<<i, role>>] = call]
  BY <1>1, <1>2, <1>3
<1>7. i \in Run /\ runs[i].phase # "New"
  BY <1>2, <1>5, Begun DEF EndCall
<1>8. Answer(old, call)
  BY <1>2, <1>4, <1>5 DEF Answer
<1>9. ASSUME NEW r \in RunType, Same(r, runs[i]), r.phase # "New", FitsAt(i, r)
      PROVE  FitsAt(i, r)'
  <2>1. PICK x, a, m, e, c : /\ x = executions[i] /\ a = audits[i]
                             /\ m = calls[<<i, "manager">>]
                             /\ e = calls[<<i, "executor">>]
                             /\ c = calls[<<i, "auditor">>]
    OBVIOUS
  <2>2. Family(x, a, m, e, c) /\ Fits(r, x, a, m, e, c)
    BY <1>9, <2>1, FamilyOf DEF FitsAt
  <2>3. executions' = executions /\ audits' = audits
    BY DEF EndCall, resources
  <2>4. CASE role = "executor"
    <3>1. Fits(r, x, a, m, call, c)
      BY <1>2, <1>8, <2>1, <2>2, <2>4, FitsExecutorEnd
    <3>2. /\ calls'[<<i, "executor">>] = call /\ calls'[<<i, "auditor">>] = c
          /\ calls'[<<i, "manager">>] = m
      BY <1>6, <2>1, <2>4 DEF Typed, Role, Worker
    <3> QED  BY <2>1, <2>3, <3>1, <3>2 DEF FitsAt
  <2>5. CASE role = "auditor"
    <3>1. Fits(r, x, a, m, e, call)
      BY <1>2, <1>8, <2>1, <2>2, <2>5, FitsAuditorEnd
    <3>2. /\ calls'[<<i, "executor">>] = e /\ calls'[<<i, "auditor">>] = call
          /\ calls'[<<i, "manager">>] = m
      BY <1>6, <2>1, <2>5 DEF Typed, Role, Worker
    <3> QED  BY <2>1, <2>3, <3>1, <3>2 DEF FitsAt
  <2>6. CASE role = "manager"
    <3>1. Fits(r, x, a, call, e, c)
      BY <1>2, <1>8, <2>1, <2>2, <2>6, FitsPlanEnd
    <3>2. /\ calls'[<<i, "executor">>] = e /\ calls'[<<i, "auditor">>] = c
          /\ calls'[<<i, "manager">>] = call
      BY <1>6, <2>1, <2>6 DEF Typed, Role, Worker
    <3> QED  BY <2>1, <2>3, <3>1, <3>2 DEF FitsAt
  <2> QED  BY <2>4, <2>5, <2>6 DEF Role, Worker
<1>10. manager # Idle /\ manager.run = i
         => Same(manager.next, runs[i]) /\ manager.next.phase # "New"
  BY DEF Patching
<1>11. UNCHANGED <<runs, executions, audits, manager, worker>>
  BY DEF EndCall, resources, reconcilers
<1>12. KeepsPrompts(i, role, call)
  <2> SUFFICES ASSUME NEW v \in Worker, worker[v] # Idle, worker[v].run = i, v = role
               PROVE  call.round # worker[v].round
    BY <1>11 DEF KeepsPrompts
  <2>1. ~Names(calls[<<i, role>>], worker[v].round)
    BY DEF RoundInv, Prompting, PromptFits
  <2> QED  BY <1>2, <1>4, <1>5, <2>1 DEF Names
<1>16. KeepsFits(i)
  BY <1>9 DEF KeepsFits
<1>13. RoundInv'
  BY <1>6, <1>7, <1>9, <1>10, <1>11, <1>12, <1>16, CallRound
<1>14. ASSUME NEW k \in Position \X Role
       PROVE  calls'[k] \in CallType(k[2]) \cup {None}
  BY <1>4, <1>6 DEF Typed
<1>15. DOMAIN calls' = Position \X Role
  BY <1>6 DEF Typed
<1> QED  BY <1>13, <1>14, <1>15

\* A report is patched into the worker's own child.
LEMMA WorkerReportRound ==
  ASSUME Typed, RoundInv, NEW w \in Worker, NEW i \in Position, WorkerReport(w, i)
  PROVE  /\ RoundInv'
         /\ executions' \in [Position -> ExecutionType \cup {None}]
         /\ audits' \in [Position -> AuditType \cup {None}]
<1>0. /\ UNCHANGED <<runs, calls, manager, worker>> /\ Run' = Run
      /\ i \in Run /\ Child(w, i) # None /\ ~Child(w, i).reported /\ worker[w] = Idle
      /\ Names(calls[<<i, w>>], Child(w, i).round) /\ calls[<<i, w>>].result # None
  BY DEF WorkerReport, Unreported, Issued, services, reconcilers, Run
<1>1. PICK x, a, m, e, c : /\ x = executions[i] /\ a = audits[i]
                           /\ m = calls[<<i, "manager">>]
                           /\ e = calls[<<i, "executor">>]
                           /\ c = calls[<<i, "auditor">>]
  OBVIOUS
<1>2. Family(x, a, m, e, c)
  BY <1>1, FamilyOf
<1>3. PICK yes \in BOOLEAN : yes = TRUE
  OBVIOUS
<1>4. PICK x1, a1 : /\ executions' = [executions EXCEPT ![i] = x1]
                    /\ audits' = [audits EXCEPT ![i] = a1]
                    /\ x1 \in ExecutionType \cup {None} /\ a1 \in AuditType \cup {None}
                    /\ \A r \in RunType : Fits(r, x, a, m, e, c) => Fits(r, x1, a1, m, e, c)
                    /\ IF w = "executor" THEN a1 = a ELSE x1 = x
  <2>1. CASE w = "executor"
    <3>1. x \in ExecutionType /\ ~x.reported /\ x # None /\ Names(e, x.round) /\ e.result # None
      BY <1>0, <1>1, <1>2, <2>1 DEF Child, Family
    <3>2. PICK x1 : x1 = [x EXCEPT !.reported = yes]
      OBVIOUS
    <3>3. /\ x1 \in ExecutionType /\ x1.round = x.round /\ x1.version = x.version
          /\ x1.reported = yes
      BY <1>3, <3>1, <3>2 DEF ExecutionType
    <3>4. x1 # None /\ x1.reported
      BY <1>3, <3>3, NoneAssumption
    <3>5. \A r \in RunType : Fits(r, x, a, m, e, c) => Fits(r, x1, a, m, e, c)
      BY <1>2, <3>1, <3>3, <3>4, FitsExecutorReport
    <3>6. /\ executions' = [executions EXCEPT ![i] = x1]
          /\ audits' = [audits EXCEPT ![i] = a]
      BY <1>1, <1>3, <2>1, <3>2 DEF WorkerReport, Children
    <3> QED  BY <1>2, <2>1, <3>3, <3>5, <3>6 DEF Family
  <2>2. CASE w = "auditor"
    <3>1. a \in AuditType /\ ~a.reported /\ a # None /\ Names(c, a.round) /\ c.result # None
      BY <1>0, <1>1, <1>2, <2>2 DEF Child, Family
    <3>2. PICK verdict \in Results("auditor") : verdict = c.result
      BY <1>2, <3>1 DEF Names, Family, CallType
    <3>3. PICK a1 : a1 = [a EXCEPT !.reported = yes, !.verdict = verdict]
      OBVIOUS
    <3>4. /\ a1 \in AuditType /\ a1.round = a.round /\ a1.version = a.version
          /\ a1.reported = yes
      BY <1>3, <3>1, <3>3 DEF AuditType
    <3>5. a1 # None /\ a1.reported
      BY <1>3, <3>4, NoneAssumption
    <3>6. \A r \in RunType : Fits(r, x, a, m, e, c) => Fits(r, x, a1, m, e, c)
      BY <1>2, <3>1, <3>4, <3>5, FitsAuditorReport
    <3>7. /\ executions' = [executions EXCEPT ![i] = x]
          /\ audits' = [audits EXCEPT ![i] = a1]
      BY <1>1, <1>3, <2>2, <3>2, <3>3 DEF WorkerReport, Children
    <3> QED  BY <1>2, <2>2, <3>4, <3>6, <3>7 DEF Family
  <2> QED  BY <2>1, <2>2 DEF Worker
<1>5. /\ executions'[i] = x1 /\ audits'[i] = a1
      /\ \A j \in Position \ {i} : executions'[j] = executions[j] /\ audits'[j] = audits[j]
  BY <1>4 DEF Typed
<1>6. \A j \in Position, r \in RunType : FitsAt(j, r) => FitsAt(j, r)'
  <2> SUFFICES ASSUME NEW j \in Position, NEW r \in RunType, FitsAt(j, r)
               PROVE  FitsAt(j, r)'
    OBVIOUS
  <2>1. CASE j = i
    <3>1. Fits(r, x1, a1, m, e, c)
      BY <1>1, <1>4, <2>1 DEF FitsAt
    <3> QED  BY <1>0, <1>1, <1>5, <2>1, <3>1 DEF FitsAt
  <2>2. CASE j # i
    BY <1>0, <1>5, <2>2 DEF FitsAt
  <2> QED  BY <2>1, <2>2
<1>7. \A j \in Run' : FitsAt(j, runs[j])'
  <2> SUFFICES ASSUME NEW j \in Run, NEW r, r = runs[j] PROVE FitsAt(j, r)'
    BY <1>0
  <2>1. j \in Position /\ FitsAt(j, r) /\ r \in RunType
    BY DEF RoundInv, Run, Typed
  <2> QED  BY <1>6, <2>1
<1>8. \A j \in Position \ Run' : Absent(j)'
  BY <1>0, <1>5 DEF Absent, RoundInv
<1>9. manager' # Idle => FitsAt(manager.run, manager.next)'
  <2> SUFFICES ASSUME manager # Idle, NEW j, NEW r, j = manager.run, r = manager.next
               PROVE  FitsAt(j, r)'
    BY <1>0
  <2>1. j \in Position /\ FitsAt(j, r) /\ r \in RunType
    BY DEF RoundInv, Typed
  <2> QED  BY <1>6, <2>1
<1>10. Prompting'
  <2> SUFFICES ASSUME NEW v \in Worker, NEW me, me = worker[v], me # Idle
               PROVE  PromptFits(v, me)'
    BY <1>0 DEF Prompting
  <2>1. v # w /\ PromptFits(v, me)
    BY <1>0 DEF RoundInv, Prompting
  <2>2. PICK j \in Position : j = me.run
    BY <2>1 DEF PromptFits, Run
  <2>3. Child(v, j)' = Child(v, j)
    BY <1>1, <1>4, <1>5, <2>1 DEF Child, Worker
  <2> QED  BY <1>0, <2>1, <2>2, <2>3 DEF PromptFits
<1>11. /\ executions' \in [Position -> ExecutionType \cup {None}]
       /\ audits' \in [Position -> AuditType \cup {None}]
  BY <1>4 DEF Typed
<1> QED  BY <1>0, <1>7, <1>8, <1>9, <1>10, <1>11 DEF RoundInv

-----------------------------------------------------------------------------
\* The beginning and the end of a Run, and the pending patch.

\* A Run goes with its children, calls and questions.
LEMMA RetireRound ==
  ASSUME Typed, RoundInv, NEW i \in Position, Retire(i)
  PROVE  RoundInv'
<1>1. /\ runs' = [runs EXCEPT ![i] = None] /\ manager = Idle /\ manager' = Idle
      /\ executions' = [executions EXCEPT ![i] = None]
      /\ audits' = [audits EXCEPT ![i] = None]
      /\ calls' = [k \in Position \X Role |-> IF k[1] = i THEN None ELSE calls[k]]
      /\ worker' = [w \in Worker |-> IF worker[w] # Idle /\ worker[w].run = i
                                     THEN Idle ELSE worker[w]]
  BY DEF Retire, Begin, Children
<1>2. Run' = Run \ {i}
  BY <1>1 DEF Run, Typed
<1>3. \A j \in Position, role \in Role :
        calls'[<<j, role>>] = IF j = i THEN None ELSE calls[<<j, role>>]
  BY <1>1
<1>4. Absent(i)'
  BY <1>1, <1>3 DEF Absent, Typed
<1>5. \A j \in Position \ {i} : /\ runs'[j] = runs[j] /\ executions'[j] = executions[j]
                                /\ audits'[j] = audits[j]
                                /\ \A role \in Role : calls'[<<j, role>>] = calls[<<j, role>>]
  BY <1>1, <1>3 DEF Typed
<1>6. \A j \in Run' : FitsAt(j, runs[j])'
  <2> SUFFICES ASSUME NEW j \in Run, j # i PROVE FitsAt(j, runs[j])'
    BY <1>2
  <2>1. j \in Position /\ FitsAt(j, runs[j])
    BY DEF Run, RoundInv
  <2> QED  BY <1>5, <2>1 DEF FitsAt, Role, Worker
<1>7. \A j \in Position \ Run' : Absent(j)'
  BY <1>2, <1>4, <1>5 DEF Absent, RoundInv
<1>8. Prompting'
  <2> SUFFICES ASSUME NEW w \in Worker, NEW me, me = worker'[w], me # Idle
               PROVE  PromptFits(w, me)'
    BY DEF Prompting
  <2>1. me = worker[w] /\ me.run # i /\ PromptFits(w, me)
    BY <1>1 DEF RoundInv, Prompting
  <2>2. PICK j \in Position : j = me.run
    BY <2>1 DEF PromptFits, Run
  <2>3. Child(w, j)' = Child(w, j) /\ calls'[<<j, w>>] = calls[<<j, w>>] /\ runs'[j] = runs[j]
    BY <1>5, <2>1, <2>2 DEF Child, Role
  <2> QED  BY <1>2, <2>1, <2>2, <2>3 DEF PromptFits
<1> QED  BY <1>1, <1>6, <1>7, <1>8 DEF RoundInv

\* The first status of a Run.
LEMMA InitialFields ==
  ASSUME Typed, NEW i \in Position, runs[i] \in RunType
  PROVE  LET n == InitialStatus(i)
         IN /\ n \in RunType /\ n.phase = "Receiving" /\ n.round = 1 /\ n.budget = MaxRounds
            /\ n.version = 1 /\ n.through = i /\ n.inputs = {i} /\ n.user = runs[i].user
            /\ n.last = runs[i].last /\ n.guidance = runs[i].guidance
<1>1. PICK r \in RunType : r = runs[i]
  OBVIOUS
<1>2. PICK mine \in SUBSET Position : mine = {i}
  OBVIOUS
<1>3. InitialStatus(i) = [r EXCEPT !.phase = "Receiving", !.round = 1, !.budget = MaxRounds,
                                   !.version = 1, !.through = i, !.inputs = mine]
  BY <1>1, <1>2 DEF InitialStatus
<1>4. MaxRounds \in Nat /\ i \in 0..MaxMessages
  BY LongHorizonBounds DEF Position
<1>5. PICK budget \in Nat, through \in 0..MaxMessages : budget = MaxRounds /\ through = i
  BY <1>4
<1>6. PICK n : n = [r EXCEPT !.phase = "Receiving", !.round = 1, !.budget = budget,
                             !.version = 1, !.through = through, !.inputs = mine]
  OBVIOUS
<1>7. /\ n \in RunType /\ n.phase = "Receiving" /\ n.round = 1 /\ n.budget = budget
      /\ n.version = 1 /\ n.through = through /\ n.inputs = mine /\ n.user = r.user
      /\ n.last = r.last /\ n.guidance = r.guidance
  BY <1>2, <1>5, <1>6 DEF RunType, Phase
<1>8. InitialStatus(i) = n
  BY <1>3, <1>5, <1>6
<1> QED  BY <1>1, <1>2, <1>5, <1>7, <1>8

\* A status is written whose Run has the children it had.
LEMMA WriteRound ==
  ASSUME Typed, RoundInv, NEW i \in Run, NEW n \in RunType, Write(i, n),
         FitsAt(i, n), UNCHANGED <<executions, audits, worker>>, manager' = Idle,
         \A w \in Worker : worker[w] # Idle /\ worker[w].run = i
           => n.guidance = runs[i].guidance
  PROVE  RoundInv'
<1>0. i \in Position /\ runs' = [runs EXCEPT ![i] = n] /\ calls' = Forget(i, n)
  BY DEF Run, Write
<1>1. Run' = Run
  BY <1>0, NoneAssumption DEF Run, Typed
<1>2. FitsAt(i, runs[i])'
  <2>1. /\ Dropped(executions[i], executions[i], n) /\ Dropped(audits[i], audits[i], n)
        /\ n.round <= n.round
        /\ executions[i] \in ExecutionType \cup {None} /\ audits[i] \in AuditType \cup {None}
    BY <1>0 DEF Dropped, Typed, RunType
  <2>2. Fits(n, executions[i], audits[i], Forget(i, n)[<<i, "manager">>],
             Forget(i, n)[<<i, "executor">>], Forget(i, n)[<<i, "auditor">>])
    BY <1>0, <2>1, ForgetFits
  <2>3. runs'[i] = n
    BY <1>0 DEF Typed
  <2> QED  BY <1>0, <2>2, <2>3 DEF FitsAt
<1>3. \A j \in Position \ {i} : /\ runs'[j] = runs[j]
                                /\ \A role \in Role : calls'[<<j, role>>] = calls[<<j, role>>]
  BY <1>0, ForgetTyped DEF Typed
<1>4. \A j \in Run' : FitsAt(j, runs[j])'
  <2> SUFFICES ASSUME NEW j \in Run, j # i PROVE FitsAt(j, runs[j])'
    BY <1>1, <1>2
  <2>1. j \in Position /\ FitsAt(j, runs[j])
    BY DEF Run, RoundInv
  <2> QED  BY <1>3, <2>1 DEF FitsAt, Role, Worker
<1>5. \A j \in Position \ Run' : Absent(j)'
  BY <1>1, <1>3 DEF Absent, RoundInv
<1>6. Prompting'
  <2> SUFFICES ASSUME NEW w \in Worker, NEW me, me = worker[w], me # Idle
               PROVE  PromptFits(w, me)'
    BY DEF Prompting
  <2>1. PromptFits(w, me)
    BY DEF RoundInv, Prompting
  <2>2. PICK j \in Position, k \in {me.round} : j = me.run /\ k = me.round
    BY <2>1 DEF PromptFits, Run
  <2>3. ~Names(calls'[<<j, w>>], k)
    BY <1>0, <2>1, <2>2, ForgetIssued DEF Role, PromptFits
  <2>4. \A child : AsWork(w, child, runs'[j]) = AsWork(w, child, runs[j])
    <3>1. CASE j # i
      BY <1>3, <3>1
    <3>2. CASE j = i
      <4>1. runs'[j] = n /\ n.guidance = runs[i].guidance
        BY <1>0, <2>2, <3>2 DEF Typed
      <4> QED  BY <3>2, <4>1 DEF AsWork
    <3> QED  BY <3>1, <3>2
  <2>5. Child(w, j)' = Child(w, j)
    BY DEF Child
  <2> QED  BY <1>1, <2>1, <2>2, <2>3, <2>4, <2>5 DEF PromptFits
<1> QED  BY <1>4, <1>5, <1>6 DEF RoundInv

\* The Manager initializes a Run that has no work.
LEMMA InitializeRound ==
  ASSUME Typed, RoundInv, NEW i \in Position, Initialize(i)
  PROVE  RoundInv'
<1>0. i \in Run /\ runs[i] \in RunType /\ runs[i].phase = "New" /\ FitsAt(i, runs[i])
  BY DEF Initialize, Run, Typed, RoundInv
<1>1. PICK n : n = InitialStatus(i)
  OBVIOUS
<1>2. /\ n \in RunType /\ n.phase = "Receiving" /\ n.round = 1 /\ n.budget = MaxRounds
      /\ n.version = 1 /\ n.inputs = {i} /\ n.last = runs[i].last
      /\ n.guidance = runs[i].guidance
  BY <1>0, <1>1, InitialFields
<1>3. /\ executions[i] = None /\ audits[i] = None /\ calls[<<i, "manager">>] = None
      /\ calls[<<i, "executor">>] = None /\ calls[<<i, "auditor">>] = None
      /\ runs[i].last = None
  BY <1>0 DEF FitsAt, Fits, PhaseFits, StatusFits
<1>4. StatusFits(n)
  <2>1. Cardinality({i}) = 1
    BY FS_Singleton
  <2> QED  BY <1>2, <2>1, LongHorizonBounds DEF StatusFits, Unplanned
<1>5. FitsAt(i, n)
  BY <1>2, <1>3, <1>4, FitsAlone DEF FitsAt
<1>6. Write(i, n) /\ UNCHANGED <<executions, audits, worker>> /\ manager' = Idle
  BY <1>1 DEF Initialize, reconcilers
<1> QED  BY <1>0, <1>2, <1>5, <1>6, WriteRound

\* The status a pass has held fits when it is patched.
LEMMA ManagerPatchRound ==
  ASSUME Typed, RoundInv, Patching, ManagerPatch
  PROVE  RoundInv'
<1>1. PICK i, n : i = manager.run /\ n = manager.next
  OBVIOUS
<1>2. i \in Run /\ n \in RunType /\ FitsAt(i, n) /\ Same(n, runs[i])
  BY <1>1 DEF ManagerPatch, Typed, Patching, RoundInv
<1>3. Write(i, n) /\ UNCHANGED <<executions, audits, worker>> /\ manager' = Idle
  BY <1>1 DEF ManagerPatch
<1>4. n.guidance = runs[i].guidance
  BY <1>2 DEF Same
<1> QED  BY <1>2, <1>3, <1>4, WriteRound

\* Create: a Run that exists is left alone.
LEMMA IngressCreateRound ==
  ASSUME Typed, RoundInv, IngressCreate
  PROVE  RoundInv'
<1>0. UNCHANGED <<executions, audits, calls, manager, worker>>
  BY DEF IngressCreate, services
<1>1. PICK p \in Position : p = ingress.message /\ inbox[p] \in Message /\ IsGoal(p)
  <2>1. ingress \in [at : {"act", "commit"}, message : DOMAIN inbox]
    BY DEF IngressCreate, Typed, Idle
  <2>2. PICK p \in DOMAIN inbox : p = ingress.message
    BY <2>1
  <2>3. p \in Position /\ inbox[p] \in Message
    BY LongHorizonBounds DEF Typed, Position
  <2> QED  BY <2>2, <2>3 DEF IngressCreate
<1>2. CASE p \in Run
  <2>1. runs' = runs
    BY <1>1, <1>2 DEF IngressCreate
  <2> QED  BY <1>0, <2>1, RoundFrame
<1>3. CASE p \notin Run
  <2>1. PICK n : n = NewRun(p)
    OBVIOUS
  <2>2. n \in RunType /\ StatusFits(n) /\ n.last = None /\ n.phase = "New"
    BY <1>1, <2>1, NewRunTyped
  <2>3. runs' = [runs EXCEPT ![p] = n]
    BY <1>1, <1>3, <2>1 DEF IngressCreate
  <2>4. Run' = Run \cup {p} /\ runs'[p] = n
    BY <2>2, <2>3, NoneAssumption DEF Run, Typed
  <2>5. \A j \in Run : runs'[j] = runs[j] /\ j \in Position
    BY <1>3, <2>3 DEF Typed, Run
  <2>6. FitsAt(p, runs[p])'
    <3>1. /\ executions[p] = None /\ audits[p] = None /\ calls[<<p, "manager">>] = None
          /\ calls[<<p, "executor">>] = None /\ calls[<<p, "auditor">>] = None
      BY <1>3 DEF RoundInv, Absent, Role, Worker
    <3> QED  BY <1>0, <2>2, <2>4, <3>1, FitsAlone DEF FitsAt
  <2>7. \A j \in Run' : FitsAt(j, runs[j])'
    BY <1>0, <2>4, <2>5, <2>6 DEF RoundInv, FitsAt
  <2>8. \A j \in Position \ Run' : Absent(j)'
    BY <1>0, <2>4 DEF RoundInv, Absent
  <2>9. manager' # Idle => FitsAt(manager.run, manager.next)'
    BY <1>0 DEF RoundInv, FitsAt
  <2>10. Prompting'
    <3> SUFFICES ASSUME NEW w \in Worker, NEW me, me = worker[w], me # Idle
                 PROVE  PromptFits(w, me)'
      BY <1>0 DEF Prompting
    <3>1. PromptFits(w, me)
      BY DEF RoundInv, Prompting
    <3> QED  BY <1>0, <2>4, <2>5, <3>1 DEF PromptFits, Child
  <2> QED  BY <2>7, <2>8, <2>9, <2>10 DEF RoundInv
<1> QED  BY <1>2, <1>3

SameInputs(n, r) == n.user = r.user /\ n.through = r.through /\ n.inputs = r.inputs

\* A pass of the Manager whose new status is n.
Passes(i, n) ==
  /\ Pass(i)
  /\ Write(i, n)
  /\ n \in RunType /\ n.phase # "New"
  /\ FitsAt(i, n)
  /\ runs[i].round <= n.round
  /\ audits[i] # None /\ ~audits[i].reported => n.guidance = runs[i].guidance

\* A Run's inputs are finitely many.
LEMMA SizeOfInputs ==
  ASSUME NEW r \in RunType
  PROVE  IsFiniteSet(r.inputs) /\ Cardinality(r.inputs) \in Nat
<1>1. IsFiniteSet(Position)
  BY FS_Interval, LongHorizonBounds DEF Position
<1>2. r.inputs \subseteq Position
  BY DEF RunType
<1>3. IsFiniteSet(r.inputs)
  BY <1>1, <1>2, FS_Subset
<1> QED  BY <1>3, FS_CardinalityType

\* What a pass of the Manager starts from.
LEMMA PassOf ==
  ASSUME Typed, RoundInv, NEW i \in Position, Begin(i)
  PROVE  /\ i \in Run /\ runs[i] \in RunType /\ runs[i].phase # "New"
         /\ FitsAt(i, runs[i])
         /\ Family(executions[i], audits[i], calls[<<i, "manager">>],
                   calls[<<i, "executor">>], calls[<<i, "auditor">>])
         /\ runs[i].round \in Nat
BY BeginTyped, FamilyOf DEF Begin, RoundInv, RunType

\* The deadline.
LEMMA StopOverduePasses ==
  ASSUME Typed, RoundInv, NEW i \in Position, StopOverdue(i)
  PROVE  \E n : Passes(i, n) /\ SameInputs(n, runs[i])
<1>1. /\ i \in Run /\ runs[i] \in RunType /\ runs[i].phase # "New"
      /\ FitsAt(i, runs[i]) /\ runs[i].round \in Nat
  BY PassOf DEF StopOverdue, Pass
<1>2. PICK r \in RunType : r = runs[i]
  BY <1>1
<1>3. PICK n : n = [r EXCEPT !.phase = "Failed"]
  OBVIOUS
<1>4. n \in RunType /\ n.phase = "Failed" /\ SameWork(n, r) /\ n.round = r.round
  BY <1>3, PhaseFields DEF Phase, Ended
<1>5. FitsAt(i, n)
  BY <1>1, <1>2, <1>4, FitsEnded DEF FitsAt
<1>6. Pass(i) /\ Write(i, n)
  BY <1>2, <1>3 DEF StopOverdue
<1>7. n.guidance = r.guidance /\ SameInputs(n, r) /\ r.round <= n.round
  BY <1>1, <1>2, <1>4 DEF SameWork, Same, SameInputs
<1> QED  BY <1>2, <1>4, <1>5, <1>6, <1>7 DEF Passes

\* finish.
LEMMA FinishPasses ==
  ASSUME Typed, RoundInv, NEW i \in Position, Finish(i)
  PROVE  \E n : Passes(i, n) /\ SameInputs(n, runs[i])
<1>1. /\ i \in Run /\ runs[i] \in RunType /\ runs[i].phase # "New"
      /\ FitsAt(i, runs[i]) /\ runs[i].round \in Nat
  BY PassOf DEF Finish, Pass
<1>2. PICK r \in RunType : r = runs[i]
  BY <1>1
<1>3. PICK n : n = [r EXCEPT !.final = TRUE]
  OBVIOUS
<1>4. /\ n \in RunType /\ n.phase = r.phase /\ n.reason = r.reason /\ SameWork(n, r)
      /\ n.round = r.round
  BY <1>3, FinalFields
<1>5. r.phase # "Planning"
  BY <1>2 DEF Finish, Terminal, Ended
<1>6. FitsAt(i, n)
  BY <1>1, <1>2, <1>4, <1>5, FitsMarked DEF FitsAt
<1>7. Pass(i) /\ Write(i, n)
  BY <1>2, <1>3 DEF Finish
<1>8. n.guidance = r.guidance /\ SameInputs(n, r) /\ r.round <= n.round
  BY <1>1, <1>2, <1>4 DEF SameWork, Same, SameInputs
<1> QED  BY <1>1, <1>2, <1>4, <1>6, <1>7, <1>8 DEF Passes

\* plan, beyond the budget.
LEMMA PlanBeyondBudgetPasses ==
  ASSUME Typed, RoundInv, NEW i \in Position, PlanBeyondBudget(i)
  PROVE  \E n : Passes(i, n) /\ SameInputs(n, runs[i])
<1>1. /\ i \in Run /\ runs[i] \in RunType /\ runs[i].phase # "New"
      /\ FitsAt(i, runs[i]) /\ runs[i].round \in Nat
  BY PassOf DEF PlanBeyondBudget, Pass
<1>2. PICK r \in RunType : r = runs[i]
  BY <1>1
<1>3. PICK n : n = IF r.budget >= MaxBudget
                   THEN [r EXCEPT !.phase = "Stopped"]
                   ELSE [r EXCEPT !.phase = "WaitingForHuman", !.reason = "budget"]
  OBVIOUS
<1>4. /\ n \in RunType /\ SameWork(n, r) /\ n.round = r.round
      /\ \/ n.phase = "Stopped"
         \/ n.phase = "WaitingForHuman" /\ n.reason = "budget"
  <2>1. CASE r.budget >= MaxBudget
    <3>1. n = [r EXCEPT !.phase = "Stopped"]
      BY <1>3, <2>1, Zenon
    <3>2. "Stopped" \in Phase
      BY DEF Phase, Ended
    <3> QED  BY <3>1, <3>2, PhaseFields
  <2>2. CASE ~(r.budget >= MaxBudget)
    <3>1. n = [r EXCEPT !.phase = "WaitingForHuman", !.reason = "budget"]
      BY <1>3, <2>2, Zenon
    <3>2. n \in RunType /\ n.phase = "WaitingForHuman" /\ n.reason = "budget"
          /\ SameWork(n, r) /\ n.round = r.round
      BY <3>1 DEF RunType, Phase, Reason, Same, SameWork
    <3> QED  BY <3>2
  <2> QED  BY <2>1, <2>2
<1>5. FitsAt(i, n)
  <2>1. r.phase = "Planning" /\ r.round > r.budget
    BY <1>2 DEF PlanBeyondBudget
  <2>2. CASE n.phase = "Stopped"
    BY <1>1, <1>2, <1>4, <2>2, FitsEnded DEF FitsAt
  <2>3. CASE n.phase = "WaitingForHuman" /\ n.reason = "budget"
    BY <1>1, <1>2, <1>4, <2>1, <2>3, FitsBudget DEF FitsAt
  <2> QED  BY <1>4, <2>2, <2>3
<1>6. Pass(i) /\ Write(i, n)
  BY <1>2, <1>3 DEF PlanBeyondBudget
<1>7. n.guidance = r.guidance /\ SameInputs(n, r) /\ r.round <= n.round /\ n.phase # "New"
  BY <1>1, <1>2, <1>4 DEF SameWork, Same, SameInputs
<1> QED  BY <1>2, <1>4, <1>5, <1>6, <1>7 DEF Passes

\* observeAudit: evidence, or a failure.
LEMMA ObserveAuditPasses ==
  ASSUME Typed, RoundInv, NEW i \in Position, ObserveAudit(i)
  PROVE  \E n : Passes(i, n) /\ SameInputs(n, runs[i])
<1>1. /\ i \in Run /\ runs[i] \in RunType /\ runs[i].phase # "New"
      /\ FitsAt(i, runs[i]) /\ runs[i].round \in Nat
      /\ Family(executions[i], audits[i], calls[<<i, "manager">>],
                calls[<<i, "executor">>], calls[<<i, "auditor">>])
  BY PassOf DEF ObserveAudit, Pass
<1>2. PICK r \in RunType : r = runs[i]
  BY <1>1
<1>3. PICK x, a, m, e, c : /\ x = executions[i] /\ a = audits[i]
                           /\ m = calls[<<i, "manager">>]
                           /\ e = calls[<<i, "executor">>]
                           /\ c = calls[<<i, "auditor">>]
  OBVIOUS
<1>4. /\ Family(x, a, m, e, c) /\ Fits(r, x, a, m, e, c)
      /\ r.phase = "Auditing" /\ a # None /\ a.reported /\ r.round \in Nat
  BY <1>1, <1>2, <1>3 DEF ObserveAudit, FitsAt
<1>5. Names(a, r.round) /\ Names(x, r.round) /\ x.reported /\ r.round <= r.budget
      /\ r.last = None /\ r.version <= Cardinality(r.inputs) + r.round
  BY <1>4 DEF Fits, PhaseFits, StatusFits, LastFits, Names
<1>6. Names(c, r.round) /\ c.request = AsWork("auditor", a, r) /\ Names(e, r.round)
  BY <1>4, <1>5 DEF Fits, ChildFits
<1>7. Cardinality(r.inputs) \in Nat
  BY SizeOfInputs
<1>8. ASSUME NEW n \in RunType, Unplanned(n), n.round = r.round + 1, Same(n, r),
             n.version = r.version, n.budget = r.budget,
             n.last # None => n.last.told = n.guidance /\ Names(e, n.last.round)
      PROVE  /\ FitsAt(i, n) /\ n.phase # "New" /\ runs[i].round <= n.round
             /\ n.guidance = runs[i].guidance /\ SameInputs(n, runs[i])
  <2>1. n.inputs = r.inputs
    BY <1>8 DEF Same
  <2>2. Fits(n, x, a, m, e, c)
    BY <1>4, <1>5, <1>7, <1>8, <2>1, FitsNextRound
  <2>3. n.phase # "New" /\ r.round <= n.round
    BY <1>4, <1>8 DEF Unplanned
  <2> QED  BY <1>2, <1>3, <1>8, <2>2, <2>3 DEF FitsAt, Same, SameInputs
<1>9. CASE audits[i].version # runs[i].version \/ audits[i].verdict = "invalid"
  <2>1. PICK n : n = Failed(r)
    OBVIOUS
  <2>2. n \in RunType /\ Unplanned(n) /\ n.round = r.round + 1 /\ SameWork(n, r)
    BY <2>1, FailedFields
  <2>3. /\ FitsAt(i, n) /\ n.phase # "New" /\ runs[i].round <= n.round
        /\ n.guidance = runs[i].guidance /\ SameInputs(n, runs[i])
    BY <1>5, <1>8, <2>2 DEF SameWork
  <2>4. Pass(i) /\ Write(i, n)
    BY <1>2, <1>9, <2>1 DEF ObserveAudit
  <2> QED  BY <2>2, <2>3, <2>4 DEF Passes
<1>10. CASE ~(audits[i].version # runs[i].version \/ audits[i].verdict = "invalid")
  <2>1. PICK evidence : evidence = Evidence(i)
    OBVIOUS
  <2>2. /\ evidence \in EvidenceType /\ evidence.round = r.round
        /\ evidence.told = r.guidance
    <3>1. PICK complete \in BOOLEAN : complete = (a.verdict = "complete")
      OBVIOUS
    <3>2. evidence = [round |-> a.round, version |-> a.version, complete |-> complete,
                      told |-> c.request.guidance]
      BY <1>3, <2>1, <3>1 DEF Evidence
    <3>3. c.request.guidance = r.guidance /\ r.guidance \in Guidance
      BY <1>6 DEF AsWork, RunType
    <3>4. a.round \in Nat /\ a.version \in Nat /\ a.round = r.round
      BY <1>4, <1>5 DEF Family, AuditType, Names
    <3> QED  BY <3>1, <3>2, <3>3, <3>4 DEF EvidenceType
  <2>3. PICK k \in Nat : k = IF ExecutionFailed(i) THEN r.failures + 1 ELSE 0
    BY DEF RunType
  <2>4. PICK n : n = Escalate([Advance(r) EXCEPT !.last = evidence, !.failures = k])
    OBVIOUS
  <2>5. /\ n \in RunType /\ Unplanned(n) /\ n.round = r.round + 1 /\ Same(n, r)
        /\ n.version = r.version /\ n.budget = r.budget /\ n.last = evidence
    BY <2>2, <2>4, AuditedFields
  <2>6. n = Audited(i)
    <3>1. Advance(r).failures = r.failures
      BY AdvanceFields
    <3>2. k = IF ExecutionFailed(i) THEN Advance(r).failures + 1 ELSE 0
      BY <2>3, <3>1
    <3> QED  BY <1>2, <2>1, <2>4, <3>2 DEF Audited
  <2>7. n.guidance = r.guidance
    BY <2>5 DEF Same
  <2>8. n.last # None => n.last.told = n.guidance /\ Names(e, n.last.round)
    BY <1>6, <2>2, <2>5, <2>7
  <2>9. /\ FitsAt(i, n) /\ n.phase # "New" /\ runs[i].round <= n.round
        /\ n.guidance = runs[i].guidance /\ SameInputs(n, runs[i])
    BY <1>8, <2>5, <2>8
  <2>10. Pass(i) /\ Write(i, n)
    BY <1>10, <2>6 DEF ObserveAudit
  <2> QED  BY <2>5, <2>9, <2>10 DEF Passes
<1> QED  BY <1>9, <1>10

\* human: every outcome of a question.
LEMMA DecidePasses ==
  ASSUME Typed, RoundInv, NEW i \in Position, Decide(i)
  PROVE  \E n : Passes(i, n) /\ SameInputs(n, runs[i])
<1>1. /\ i \in Run /\ runs[i] \in RunType /\ runs[i].phase # "New"
      /\ FitsAt(i, runs[i]) /\ runs[i].round \in Nat
      /\ Family(executions[i], audits[i], calls[<<i, "manager">>],
                calls[<<i, "executor">>], calls[<<i, "auditor">>])
  BY PassOf DEF Decide, Pass
<1>2. PICK r \in RunType : r = runs[i]
  BY <1>1
<1>3. PICK x, a, m, e, c : /\ x = executions[i] /\ a = audits[i]
                           /\ m = calls[<<i, "manager">>]
                           /\ e = calls[<<i, "executor">>]
                           /\ c = calls[<<i, "auditor">>]
  OBVIOUS
<1>4. /\ Family(x, a, m, e, c) /\ Fits(r, x, a, m, e, c)
      /\ r.phase = "WaitingForHuman" /\ r.round \in Nat
  BY <1>1, <1>2, <1>3 DEF Decide, FitsAt
<1>5. ~Names(x, r.round) /\ ~Names(a, r.round)
  BY <1>4 DEF Fits, PhaseFits
<1>6. (x # None => x.reported) /\ (a # None => a.reported)
  BY <1>4, <1>5 DEF Fits, ChildFits, Names, Family, ExecutionType, AuditType
<1>7. Cardinality(r.inputs) \in Nat /\ r.reason # "none"
      /\ r.version <= Cardinality(r.inputs) + r.round
      /\ (r.reason = "ask" => r.round <= r.budget)
  BY <1>4, SizeOfInputs DEF Fits, StatusFits
<1>8. PICK n : n \in {[r EXCEPT !.phase = "Stopped"]} \cup AfterHuman(r) /\ Write(i, n)
  BY <1>2 DEF Decide
<1>9. n \in RunType /\ Fits(n, x, a, m, e, c) /\ SameInputs(n, r) /\ n.phase # "New"
      /\ r.round <= n.round
  <2>1. CASE n = [r EXCEPT !.phase = "Stopped"]
    <3>1. n \in RunType /\ n.phase = "Stopped" /\ SameWork(n, r) /\ n.round = r.round
      BY <2>1, PhaseFields DEF Phase, Ended
    <3>2. Fits(n, x, a, m, e, c)
      BY <1>4, <3>1, FitsEnded
    <3> QED  BY <1>4, <3>1, <3>2 DEF SameWork, Same, SameInputs
  <2>2. CASE r.reason = "ask" /\ n = Answered(r)
    <3>1. /\ n \in RunType /\ n.phase = "Receiving" /\ n.round = r.round + 1
          /\ n.last = None /\ n.version = r.version /\ n.budget = r.budget
          /\ n.user = r.user /\ n.through = r.through /\ n.inputs = r.inputs
      BY <2>2, AnsweredFields
    <3>2. Unplanned(n)
      BY <3>1 DEF Unplanned
    <3>3. Fits(n, x, a, m, e, c)
      BY <1>4, <1>6, <1>7, <2>2, <3>1, <3>2, FitsNextRound
    <3> QED  BY <1>4, <3>1, <3>3 DEF SameInputs
  <2>3. CASE r.reason = "budget" /\ n = Resumed([r EXCEPT !.budget = Lesser(MaxBudget, @ + BudgetStep)])
    <3>1. PICK b \in Nat : b = Lesser(MaxBudget, r.budget + BudgetStep)
      BY LongHorizonBounds DEF Lesser, RunType
    <3>2. b <= MaxBudget /\ r.budget <= b
      BY <1>4, <3>1, LongHorizonBounds DEF Lesser, RunType, Fits, StatusFits
    <3>3. PICK s : s = [r EXCEPT !.budget = b]
      OBVIOUS
    <3>4. /\ s \in RunType /\ s.budget = b /\ Same(s, r) /\ s.version = r.version
          /\ s.last = r.last /\ s.round = r.round
      BY <3>1, <3>3 DEF RunType, Same
    <3>5. n = Resumed(s)
      BY <2>3, <3>1, <3>3
    <3>6. n \in RunType /\ n.phase = "Receiving" /\ n.round = s.round /\ SameWork(n, s)
      BY <3>4, <3>5, ResumedFields
    <3>7. /\ Same(n, r) /\ n.version = r.version /\ n.last = r.last /\ n.round = r.round
          /\ n.budget <= MaxBudget /\ r.budget <= n.budget
      BY <3>2, <3>4, <3>6 DEF SameWork, Same
    <3>8. Fits(n, x, a, m, e, c)
      BY <1>4, <2>3, <3>6, <3>7, FitsResumed DEF Unplanned
    <3> QED  BY <1>4, <3>6, <3>7, <3>8 DEF Same, SameInputs
  <2>4. CASE r.reason = "failure" /\ n = Resumed([r EXCEPT !.failures = 0])
    <3>3. PICK s : s = [r EXCEPT !.failures = 0]
      OBVIOUS
    <3>4. s \in RunType /\ SameWork(s, r) /\ s.round = r.round
      BY <3>3 DEF RunType, Same, SameWork
    <3>6. n \in RunType /\ n.phase = "Receiving" /\ n.round = s.round /\ SameWork(n, s)
      BY <2>4, <3>3, <3>4, ResumedFields
    <3>7. /\ Same(n, r) /\ n.version = r.version /\ n.last = r.last /\ n.round = r.round
          /\ n.budget = r.budget
      BY <3>4, <3>6 DEF SameWork, Same
    <3>9. r.budget <= MaxBudget /\ r.budget <= r.budget
      BY <1>4 DEF Fits, StatusFits, RunType
    <3>8. Fits(n, x, a, m, e, c)
      BY <1>4, <2>4, <3>6, <3>7, <3>9, FitsResumed DEF Unplanned
    <3> QED  BY <1>4, <3>6, <3>7, <3>8 DEF Same, SameInputs
  <2> QED
    <3>1. r.reason \in {"ask", "budget", "failure"}
      BY <1>7 DEF RunType, Reason
    <3> QED  BY <1>8, <2>1, <2>2, <2>3, <2>4, <3>1 DEF AfterHuman
<1>10. Pass(i)
  BY DEF Decide
<1> QED  BY <1>2, <1>3, <1>6, <1>8, <1>9, <1>10 DEF Passes, FitsAt

\* What a boundary records.
LEMMA ReceivedFields ==
  ASSUME Typed, NEW r \in RunType, NEW k \in 0..Len(inbox), NEW last \in Nat,
         r.through <= k, \A p \in r.inputs : p <= r.through, Accepts(r, last, k)
  PROVE  LET n == Received(r, k)
             new == Inputs(r.through + 1, k)
         IN /\ n \in RunType /\ n.phase = "Planning" /\ n.round = r.round
            /\ n.budget = r.budget /\ n.user = r.user /\ n.through = k
            /\ n.inputs = r.inputs \cup new
            /\ n.last = None \/ (n.last = r.last /\ n.guidance = r.guidance)
            /\ Cardinality(n.inputs) <= MaxInputs
            /\ Cardinality(n.inputs) \in Nat /\ Cardinality(r.inputs) \in Nat
            /\ n.version - r.version = Cardinality(n.inputs) - Cardinality(r.inputs)
<1>1. PICK new : new = Inputs(r.through + 1, k)
  OBVIOUS
<1>2. r.through \in 0..MaxMessages /\ k \in 0..MaxMessages
  BY LongHorizonBounds DEF Typed, RunType
<1>3. new \subseteq Position /\ \A p \in new : p > r.through
  BY <1>1, <1>2, LongHorizonBounds DEF Inputs, Position
<1>4. new = {p \in Inputs(r.through + 1, k) : inbox[p].user = r.user}
  BY <1>1 DEF Accepts
<1>5. IsFiniteSet(new) /\ Cardinality(new) \in Nat
  <2>1. IsFiniteSet(Position)
    BY FS_Interval, LongHorizonBounds DEF Position
  <2> QED  BY <1>3, <2>1, FS_Subset, FS_CardinalityType
<1>6. IsFiniteSet(r.inputs) /\ Cardinality(r.inputs) \in Nat
  BY SizeOfInputs
<1>7. Cardinality(r.inputs \cup new) = Cardinality(r.inputs) + Cardinality(new)
  <2>1. r.inputs \cap new = {}
    BY <1>2, <1>3 DEF Position, RunType
  <2>2. Cardinality(r.inputs \cap new) = 0
    BY <2>1, FS_EmptySet
  <2>3. /\ Cardinality(r.inputs \cup new) =
             Cardinality(r.inputs) + Cardinality(new) - Cardinality(r.inputs \cap new)
    BY <1>5, <1>6, FS_Union, Zenon
  <2> QED  BY <1>5, <1>6, <2>2, <2>3
<1>8. PICK size \in Nat : size = Cardinality(new)
  BY <1>5
<1>9. PICK told : told = r.guidance \cup {<<"input", p>> : p \in new}
  OBVIOUS
<1>10. told \in Guidance
  BY <1>3, <1>9 DEF RunType, Guidance
<1>11. PICK evidence \in EvidenceType \cup {None} :
         evidence = IF new = {} THEN r.last ELSE None
  BY DEF RunType
<1>12. PICK version \in Nat : version = r.version + size
  BY DEF RunType
<1>13. PICK n : n = [r EXCEPT !.phase = "Planning", !.through = k,
                              !.inputs = r.inputs \cup new, !.guidance = told,
                              !.version = version, !.last = evidence]
  OBVIOUS
<1>14. n = Received(r, k)
  BY <1>4, <1>8, <1>9, <1>11, <1>13, <1>12 DEF Received
<1>15. PICK all : all = r.inputs \cup new
  OBVIOUS
<1>16. all \in SUBSET Position
  BY <1>3, <1>15 DEF RunType
<1>17. n \in RunType
  BY <1>2, <1>10, <1>13, <1>15, <1>16, <1>12 DEF RunType, Phase
<1>18. /\ n.phase = "Planning" /\ n.round = r.round /\ n.budget = r.budget
       /\ n.user = r.user /\ n.through = k /\ n.inputs = all /\ n.guidance = told
       /\ n.version = r.version + size /\ n.last = evidence
  BY <1>13, <1>15, <1>12 DEF RunType
<1>19. n.last = None \/ (n.last = r.last /\ n.guidance = r.guidance)
  BY <1>9, <1>11, <1>18
<1>20. Cardinality(n.inputs) <= MaxInputs
  BY <1>1, <1>15, <1>18 DEF Accepts
<1>21. Cardinality(n.inputs) = Cardinality(r.inputs) + size
  BY <1>7, <1>8, <1>15, <1>18
<1>22. n.version - r.version = Cardinality(n.inputs) - Cardinality(r.inputs)
  BY <1>6, <1>8, <1>18, <1>21 DEF RunType
<1> QED  BY <1>1, <1>6, <1>14, <1>15, <1>17, <1>18, <1>19, <1>20, <1>21, <1>22

\* A boundary that accepts the inbox up to n.through.
Receives(i, n) ==
  LET r == runs[i]
  IN /\ n.user = r.user
     /\ n.through \in r.through..Len(inbox)
     /\ n.inputs = r.inputs \cup Inputs(r.through + 1, n.through)

\* receive: the prefix of the inbox a boundary accepts.
LEMMA ReceivePasses ==
  ASSUME Typed, Owned, RoundInv, NEW i \in Position, Receive(i)
  PROVE  \E n : Passes(i, n) /\ Receives(i, n)
<1>1. /\ i \in Run /\ runs[i] \in RunType /\ runs[i].phase # "New"
      /\ FitsAt(i, runs[i]) /\ runs[i].round \in Nat
      /\ Family(executions[i], audits[i], calls[<<i, "manager">>],
                calls[<<i, "executor">>], calls[<<i, "auditor">>])
  BY PassOf DEF Receive, Pass
<1>2. PICK r \in RunType : r = runs[i]
  BY <1>1
<1>3. PICK x, a, m, e, c : /\ x = executions[i] /\ a = audits[i]
                           /\ m = calls[<<i, "manager">>]
                           /\ e = calls[<<i, "executor">>]
                           /\ c = calls[<<i, "auditor">>]
  OBVIOUS
<1>4. Family(x, a, m, e, c) /\ Fits(r, x, a, m, e, c) /\ r.phase = "Receiving"
  BY <1>1, <1>2, <1>3 DEF Receive, FitsAt
<1>5. r.inputs \subseteq i..r.through /\ r.through \in 0..Len(inbox) /\ Len(inbox) \in Nat
  <2>1. Taking(i, r)
    BY <1>1, <1>2 DEF Owned
  <2>2. r.through \in 0..MaxMessages /\ Len(inbox) \in Nat
    BY DEF RunType, Typed
  <2> QED  BY <1>1, <1>2, <2>1, <2>2 DEF Taking
<1>6. Cardinality(r.inputs) \in Nat
  BY SizeOfInputs
<1>7. PICK last \in Nat : /\ last = IF Cardinality(r.inputs) < MaxInputs
                                     THEN Lesser(Len(inbox), r.through + PageLimit)
                                     ELSE r.through
                          /\ r.through <= last /\ last <= Len(inbox)
  <2>1. PageLimit \in Nat
    BY LongHorizonBounds
  <2> QED  BY <1>5, <2>1 DEF Lesser
<1>8. PICK k \in r.through..last : Accepts(r, last, k) /\ Write(i, Received(r, k))
  BY <1>2, <1>7 DEF Receive
<1>9. PICK n : n = Received(r, k)
  OBVIOUS
<1>10. k \in 0..Len(inbox) /\ r.through <= k /\ \A p \in r.inputs : p <= r.through
  BY <1>5, <1>7, <1>8
<1>11. /\ n \in RunType /\ n.phase = "Planning" /\ n.round = r.round
       /\ n.budget = r.budget /\ n.user = r.user /\ n.through = k
       /\ n.inputs = r.inputs \cup Inputs(r.through + 1, k)
       /\ n.last = None \/ (n.last = r.last /\ n.guidance = r.guidance)
       /\ Cardinality(n.inputs) <= MaxInputs
       /\ Cardinality(n.inputs) \in Nat
       /\ n.version - r.version = Cardinality(n.inputs) - Cardinality(r.inputs)
  BY <1>8, <1>9, <1>10, ReceivedFields
<1>12. n.version + 1 <= Cardinality(n.inputs) + n.round
  <2>1. r.version + 1 <= Cardinality(r.inputs) + r.round
    BY <1>4 DEF Fits, StatusFits, Unplanned
  <2>2. r.version \in Nat /\ n.version \in Nat /\ r.round \in Nat
    BY <1>11 DEF RunType
  <2> QED  BY <1>6, <1>11, <2>1, <2>2
<1>13. Fits(n, x, a, m, e, c)
  BY <1>4, <1>11, <1>12, FitsReceived
<1>14. a # None => a.reported
  <2>1. ~Names(a, r.round)
    BY <1>4 DEF Fits, PhaseFits, Unplanned
  <2> QED  BY <1>4, <2>1 DEF Fits, ChildFits, Names, Family, AuditType, RunType
<1>15. Pass(i) /\ Write(i, n)
  BY <1>8, <1>9 DEF Receive
<1>16. Passes(i, n)
  BY <1>1, <1>2, <1>3, <1>11, <1>13, <1>14, <1>15 DEF Passes, FitsAt
<1>17. Receives(i, n)
  BY <1>2, <1>5, <1>10, <1>11 DEF Receives
<1> QED  BY <1>16, <1>17

\* What a pass leaves to be patched.
Patches(i) ==
  manager' # Idle => /\ manager'.run = i
                     /\ manager'.next.phase # "New"
                     /\ Same(manager'.next, runs[i])

\* A status fits what cleanup leaves.
LEMMA CleanupFits ==
  ASSUME Typed, NEW i \in Run, NEW n \in RunType, n.round = runs[i].round,
         NEW m, NEW e, NEW c,
         Family(executions[i], audits[i], m, e, c),
         Fits(n, executions[i], audits[i], m, e, c)
  PROVE  Fits(n, Kept(i, executions[i]), Kept(i, audits[i]), m, e, c)
<1>1. PICK x1, a1 : x1 = Kept(i, executions[i]) /\ a1 = Kept(i, audits[i])
  OBVIOUS
<1>2. Dropped(executions[i], x1, n) /\ Dropped(audits[i], a1, n)
  BY <1>1, KeptTyped DEF Dropped
<1> QED  BY <1>1, <1>2, FitsCleanup

\* A pass that leaves the status alone or to its patch.
LEMMA PatchRound ==
  ASSUME Typed, RoundInv, NEW i \in Position, Begin(i), NEW n \in RunType, Patch(i, n),
         NEW x1 \in ExecutionType \cup {None}, NEW a1 \in AuditType \cup {None},
         executions' = [executions EXCEPT ![i] = x1],
         audits' = [audits EXCEPT ![i] = a1],
         executions[i] # None /\ ~executions[i].reported => x1 = executions[i],
         audits[i] # None /\ ~audits[i].reported => a1 = audits[i],
         Fits(runs[i], x1, a1, calls[<<i, "manager">>], calls[<<i, "executor">>],
              calls[<<i, "auditor">>]),
         Fits(n, x1, a1, calls[<<i, "manager">>], calls[<<i, "executor">>],
              calls[<<i, "auditor">>]),
         n.phase # "New", Same(n, runs[i]),
         questions' \in [Position -> QuestionType \cup {None}],
         UNCHANGED <<runs, inbox, calls, expired, refused, ingress, worker, taken>>
  PROVE  Typed' /\ RoundInv' /\ Patches(i)
<1>1. manager'.run = i /\ manager'.next = n
  BY DEF Patch
<1>2. RoundInv'
  <2>1. PICK m1 : m1 = calls[<<i, "manager">>] /\ calls' = calls
    OBVIOUS
  <2>2. Fits(runs[i], x1, a1, m1, calls[<<i, "executor">>], calls[<<i, "auditor">>])
    BY <2>1
  <2>3. manager' # Idle =>
          /\ manager'.run = i
          /\ Fits(manager'.next, x1, a1, m1, calls[<<i, "executor">>], calls[<<i, "auditor">>])
    BY <1>1, <2>1
  <2>4. calls'[<<i, "manager">>] = m1
    BY <2>1
  <2>5. \A j \in Position, role \in Role :
          <<j, role>> # <<i, "manager">> => calls'[<<j, role>>] = calls[<<j, role>>]
    BY <2>1
  <2> QED  BY <2>2, <2>3, <2>4, <2>5, TendRound
<1>3. Typed'
  <2>1. /\ executions' \in [Position -> ExecutionType \cup {None}]
        /\ audits' \in [Position -> AuditType \cup {None}]
    BY DEF Typed
  <2> QED  BY <2>1, PatchTyped
<1> QED  BY <1>1, <1>2, <1>3 DEF Patches

\* A pass that only commits and cleans up.
LEMMA CleanupRound ==
  ASSUME Typed, RoundInv, NEW i \in Position, Begin(i), Cleanup(i),
         UNCHANGED <<runs, inbox, calls, questions, expired, refused, reconcilers, taken>>
  PROVE  Typed' /\ RoundInv'
<1>1. /\ i \in Run /\ runs[i] \in RunType /\ runs[i].phase # "New"
      /\ FitsAt(i, runs[i]) /\ runs[i].round \in Nat /\ manager = Idle
      /\ Family(executions[i], audits[i], calls[<<i, "manager">>],
                calls[<<i, "executor">>], calls[<<i, "auditor">>])
  BY PassOf DEF Begin
<1>2. PICK x1, a1, m1 : /\ x1 = Kept(i, executions[i]) /\ a1 = Kept(i, audits[i])
                        /\ m1 = calls[<<i, "manager">>]
  OBVIOUS
<1>3. /\ x1 \in ExecutionType \cup {None} /\ a1 \in AuditType \cup {None}
      /\ executions[i] # None /\ ~executions[i].reported => x1 = executions[i]
      /\ audits[i] # None /\ ~audits[i].reported => a1 = audits[i]
  BY <1>1, <1>2, KeptTyped DEF Kept, Collectible
<1>4. /\ executions' = [executions EXCEPT ![i] = x1]
      /\ audits' = [audits EXCEPT ![i] = a1]
  BY <1>2 DEF Cleanup, Children
<1>5. Fits(runs[i], x1, a1, m1, calls[<<i, "executor">>], calls[<<i, "auditor">>])
  BY <1>1, <1>2, CleanupFits DEF FitsAt
<1>6. manager' = Idle /\ UNCHANGED <<runs, worker>> /\ calls' = calls
  BY <1>1 DEF reconcilers
<1>7. RoundInv'
  <2>1. calls'[<<i, "manager">>] = m1
    BY <1>2, <1>6
  <2>2. \A j \in Position, role \in Role :
          <<j, role>> # <<i, "manager">> => calls'[<<j, role>>] = calls[<<j, role>>]
    BY <1>6
  <2> QED  BY <1>3, <1>4, <1>5, <1>6, <2>1, <2>2, TendRound
<1>8. Typed'
  <2>1. committed' \in 0..MaxMessages
    BY BeginTyped
  <2>2. /\ executions' \in [Position -> ExecutionType \cup {None}]
        /\ audits' \in [Position -> AuditType \cup {None}]
    BY <1>3, <1>4 DEF Typed
  <2> QED  BY <2>1, <2>2 DEF Typed, reconcilers
<1> QED  BY <1>7, <1>8

\* plan: the Manager's call is submitted.
LEMMA PlanPromptRound ==
  ASSUME Typed, RoundInv, NEW i \in Position, PlanPrompt(i)
  PROVE  Typed' /\ RoundInv'
<1>0. Begin(i) /\ Planning(i)
  BY DEF PlanPrompt, Planning
<1>1. /\ i \in Run /\ runs[i] \in RunType /\ runs[i].phase # "New"
      /\ FitsAt(i, runs[i]) /\ runs[i].round \in Nat /\ manager = Idle
      /\ Family(executions[i], audits[i], calls[<<i, "manager">>],
                calls[<<i, "executor">>], calls[<<i, "auditor">>])
  BY <1>0, PassOf DEF Begin
<1>2. PICK r \in RunType : r = runs[i]
  BY <1>1
<1>3. PICK m1 : m1 = [round |-> r.round, request |-> PlanRequest(r), result |-> None]
  OBVIOUS
<1>4. calls' = [calls EXCEPT ![<<i, "manager">>] = m1]
  BY <1>2, <1>3 DEF PlanPrompt, Submit
<1>5. m1.round = r.round /\ m1.request = PlanRequest(r) /\ m1 \in CallType("manager")
  <2>1. PlanRequest(r) \in PlanType
    BY DEF PlanRequest, PlanType, RunType
  <2>2. r.round \in Nat
    BY DEF RunType
  <2> QED  BY <1>3, <2>1, <2>2 DEF CallType
<1>6. PICK x, a, m, e, c : /\ x = executions[i] /\ a = audits[i]
                           /\ m = calls[<<i, "manager">>]
                           /\ e = calls[<<i, "executor">>]
                           /\ c = calls[<<i, "auditor">>]
  OBVIOUS
<1>7. Fits(r, x, a, m1, e, c)
  <2>1. r.phase = "Planning" /\ r.round <= r.budget /\ ~Names(m, r.round)
    BY <1>2, <1>6 DEF PlanPrompt, Planning, Issued
  <2>2. Fits(r, x, a, m, e, c)
    BY <1>1, <1>2, <1>6 DEF FitsAt
  <2> QED  BY <1>5, <2>1, <2>2, FitsPlanPrompt
<1>8. Family(x, a, m1, e, c)
  BY <1>1, <1>5, <1>6 DEF Family
<1>9. PICK x1, a1 : x1 = Kept(i, executions[i]) /\ a1 = Kept(i, audits[i])
  OBVIOUS
<1>10. /\ x1 \in ExecutionType \cup {None} /\ a1 \in AuditType \cup {None}
       /\ executions[i] # None /\ ~executions[i].reported => x1 = executions[i]
       /\ audits[i] # None /\ ~audits[i].reported => a1 = audits[i]
  BY <1>1, <1>9, KeptTyped DEF Kept, Collectible
<1>11. /\ executions' = [executions EXCEPT ![i] = x1]
       /\ audits' = [audits EXCEPT ![i] = a1]
  BY <1>9 DEF PlanPrompt, Cleanup, Children
<1>12. Fits(runs[i], x1, a1, m1, calls[<<i, "executor">>], calls[<<i, "auditor">>])
  BY <1>1, <1>2, <1>6, <1>7, <1>8, <1>9, CleanupFits
<1>13. manager' = Idle /\ UNCHANGED <<runs, worker>>
  BY <1>1 DEF PlanPrompt, reconcilers
<1>14. /\ DOMAIN calls' = Position \X Role
       /\ calls'[<<i, "manager">>] = m1
       /\ \A k \in Position \X Role : k # <<i, "manager">> => calls'[k] = calls[k]
  BY <1>4 DEF Typed, Role
<1>15. RoundInv'
  <2>1. \A j \in Position, role \in Role :
          <<j, role>> # <<i, "manager">> => calls'[<<j, role>>] = calls[<<j, role>>]
    BY <1>14
  <2> QED  BY <1>0, <1>10, <1>11, <1>12, <1>13, <1>14, <2>1, TendRound
<1>16. Typed'
  <2>1. committed' \in 0..MaxMessages
    BY <1>0, BeginTyped
  <2>2. /\ executions' \in [Position -> ExecutionType \cup {None}]
        /\ audits' \in [Position -> AuditType \cup {None}]
    BY <1>10, <1>11 DEF Typed
  <2>3. \A k \in Position \X Role : calls'[k] \in CallType(k[2]) \cup {None}
    <3> SUFFICES ASSUME NEW k \in Position \X Role PROVE calls'[k] \in CallType(k[2]) \cup {None}
      OBVIOUS
    <3>1. CASE k = <<i, "manager">>
      <4>1. k[2] = "manager" /\ calls'[k] = m1
        BY <1>14, <3>1
      <4> QED  BY <1>5, <4>1
    <3>2. CASE k # <<i, "manager">>
      BY <1>14, <3>2 DEF Typed
    <3> QED  BY <3>1, <3>2
  <2> QED  BY <1>14, <2>1, <2>2, <2>3 DEF Typed, PlanPrompt, reconcilers
<1> QED  BY <1>15, <1>16

\* human: the question is asked, and its patch held.
LEMMA AskRound ==
  ASSUME Typed, RoundInv, NEW i \in Position, Ask(i)
  PROVE  Typed' /\ RoundInv' /\ Patches(i)
<1>0. Begin(i)
  BY DEF Ask
<1>1. /\ i \in Run /\ runs[i] \in RunType /\ runs[i].phase # "New"
      /\ FitsAt(i, runs[i]) /\ runs[i].round \in Nat
      /\ Family(executions[i], audits[i], calls[<<i, "manager">>],
                calls[<<i, "executor">>], calls[<<i, "auditor">>])
  BY <1>0, PassOf
<1>2. PICK r \in RunType : r = runs[i]
  BY <1>1
<1>3. r.phase = "WaitingForHuman"
  BY <1>2 DEF Ask
<1>4. PICK n : n = [r EXCEPT !.asked = TRUE]
  OBVIOUS
<1>5. /\ n \in RunType /\ n.phase = r.phase /\ n.reason = r.reason /\ SameWork(n, r)
      /\ n.round = r.round
  BY <1>4, AskedFields
<1>6. FitsAt(i, n)
  BY <1>1, <1>2, <1>3, <1>5, FitsMarked DEF FitsAt
<1>7. PICK x1, a1 : x1 = Kept(i, executions[i]) /\ a1 = Kept(i, audits[i])
  OBVIOUS
<1>8. /\ x1 \in ExecutionType \cup {None} /\ a1 \in AuditType \cup {None}
      /\ executions[i] # None /\ ~executions[i].reported => x1 = executions[i]
      /\ audits[i] # None /\ ~audits[i].reported => a1 = audits[i]
      /\ executions' = [executions EXCEPT ![i] = x1]
      /\ audits' = [audits EXCEPT ![i] = a1]
  BY <1>1, <1>7, KeptTyped DEF Ask, Cleanup, Children, Kept, Collectible
<1>9. /\ Fits(runs[i], x1, a1, calls[<<i, "manager">>], calls[<<i, "executor">>],
              calls[<<i, "auditor">>])
      /\ Fits(n, x1, a1, calls[<<i, "manager">>], calls[<<i, "executor">>],
              calls[<<i, "auditor">>])
  BY <1>1, <1>2, <1>5, <1>6, <1>7, CleanupFits DEF FitsAt
<1>10. questions' \in [Position -> QuestionType \cup {None}]
  <2>1. r.round \in Nat /\ r.reason \in Reason
    BY DEF RunType
  <2>2. [round |-> r.round, reason |-> r.reason, outcome |-> "pending"] \in QuestionType
    BY <2>1 DEF QuestionType
  <2> QED  BY <1>2, <2>2 DEF Ask, Typed
<1>11. Patch(i, n) /\ UNCHANGED <<runs, inbox, calls, expired, refused, ingress, worker, taken>>
  BY <1>2, <1>4 DEF Ask
<1>12. n.phase # "New" /\ Same(n, runs[i])
  BY <1>1, <1>2, <1>5 DEF SameWork
<1> QED  BY <1>0, <1>5, <1>8, <1>9, <1>10, <1>11, <1>12, PatchRound

\* observeExecution: the Audit is created, and the patch held.
LEMMA ObserveExecutionRound ==
  ASSUME Typed, RoundInv, NEW i \in Position, ObserveExecution(i)
  PROVE  Typed' /\ RoundInv' /\ Patches(i)
<1>0. Begin(i)
  BY DEF ObserveExecution
<1>1. /\ i \in Run /\ runs[i] \in RunType /\ runs[i].phase # "New"
      /\ FitsAt(i, runs[i]) /\ runs[i].round \in Nat
      /\ Family(executions[i], audits[i], calls[<<i, "manager">>],
                calls[<<i, "executor">>], calls[<<i, "auditor">>])
  BY <1>0, PassOf
<1>2. PICK r \in RunType : r = runs[i]
  BY <1>1
<1>3. PICK x, a, m, e, c : /\ x = executions[i] /\ a = audits[i]
                           /\ m = calls[<<i, "manager">>]
                           /\ e = calls[<<i, "executor">>]
                           /\ c = calls[<<i, "auditor">>]
  OBVIOUS
<1>4. /\ Family(x, a, m, e, c) /\ Fits(r, x, a, m, e, c)
      /\ r.phase = "Executing" /\ x # None /\ x.reported /\ r.round \in Nat
  BY <1>1, <1>2, <1>3 DEF ObserveExecution, ExecutionOver, FitsAt
<1>5. x \in ExecutionType /\ x.round = r.round /\ Kept(i, x) = x
  BY <1>2, <1>4 DEF Family, Fits, PhaseFits, Kept, Collectible
<1>6. PICK no \in BOOLEAN : no = FALSE
  OBVIOUS
<1>7. PICK spec : spec = [round |-> r.round, version |-> x.version,
                          reported |-> no, verdict |-> "invalid"]
  OBVIOUS
<1>8. spec \in AuditType /\ spec # None /\ spec.round = r.round /\ spec.reported = FALSE
  <2>1. x.version \in Nat /\ "invalid" \in Results("auditor")
    BY <1>5 DEF ExecutionType, Results
  <2>2. spec \in AuditType
    BY <1>4, <1>7, <2>1 DEF AuditType
  <2> QED  BY <1>6, <1>7, <2>2, NoneAssumption
<1>9. PICK a1 : a1 = IF Names(a, r.round) THEN a ELSE spec
  OBVIOUS
<1>10. /\ a1 \in AuditType \cup {None} /\ Names(a1, r.round)
       /\ a # None /\ ~a.reported => a1 = a
       /\ Fits(r, x, a1, m, e, c)
  <2>1. CASE Names(a, r.round)
    BY <1>4, <1>9, <2>1 DEF Family
  <2>2. CASE ~Names(a, r.round)
    <3>1. a1 = spec
      BY <1>9, <2>2
    <3>2. Fits(r, x, a1, m, e, c)
      BY <1>4, <1>8, <2>2, <3>1, FitsNewAudit
    <3>3. a # None => a.reported
      BY <1>4, <2>2 DEF Fits, ChildFits, Names, Family, AuditType
    <3> QED  BY <1>8, <3>1, <3>2, <3>3 DEF Names
  <2> QED  BY <2>1, <2>2
<1>11. PICK n : n = [r EXCEPT !.phase = "Auditing"]
  OBVIOUS
<1>12. n \in RunType /\ n.phase = "Auditing" /\ SameWork(n, r) /\ n.round = r.round
  BY <1>11, PhaseFields DEF Phase, Ended
<1>13. Fits(n, x, a1, m, e, c)
  BY <1>4, <1>10, <1>12, FitsAuditing
<1>14. /\ executions' = [executions EXCEPT ![i] = x]
       /\ audits' = [audits EXCEPT ![i] = a1]
  BY <1>2, <1>3, <1>5, <1>6, <1>7, <1>9 DEF ObserveExecution, Children
<1>15. questions' \in [Position -> QuestionType \cup {None}]
  BY DEF ObserveExecution, Typed
<1>16. Patch(i, n) /\ UNCHANGED <<runs, inbox, calls, expired, refused, ingress, worker, taken>>
  BY <1>2, <1>11 DEF ObserveExecution
<1>17. n.phase # "New" /\ Same(n, runs[i])
  BY <1>2, <1>12 DEF SameWork
<1>18. x \in ExecutionType \cup {None}
  BY <1>5
<1> QED
  BY <1>0, <1>2, <1>3, <1>10, <1>12, <1>13, <1>14, <1>15, <1>16, <1>17, <1>18, PatchRound

Decided(n, s) ==
  \/ n = [s EXCEPT !.phase = "WaitingForHuman", !.reason = "ask"]
  \/ n = [s EXCEPT !.phase = "Succeeded"] /\ Done(s)
  \/ n = Failed(s)

\* The status a decision leads to, when it starts no execution.
LEMMA DecisionFits ==
  ASSUME NEW r \in RunType, NEW x, NEW a, NEW m, NEW e, NEW c, Family(x, a, m, e, c),
         NEW d \in Decision, NEW s, s = WithContract(r, d), NEW n,
         r.phase = "Planning", r.round <= r.budget, ~Names(x, r.round),
         Decided(n, s),
         Fits(r, x, a, m, e, c)
  PROVE  /\ n \in RunType /\ Fits(n, x, a, m, e, c) /\ n.phase # "New" /\ Same(n, r)
         /\ n.round \in {r.round, r.round + 1}
<1>1. /\ s \in RunType /\ s.round = r.round /\ Same(s, r) /\ s.budget = r.budget
      /\ s.last = r.last /\ s.version \in {r.version, r.version + 1}
  BY ContractFields
<1>2. Cardinality(r.inputs) \in Nat
  BY SizeOfInputs
<1>3. CASE n = [s EXCEPT !.phase = "WaitingForHuman", !.reason = "ask"]
  <2>1. /\ n \in RunType /\ n.phase = "WaitingForHuman" /\ n.reason = "ask"
        /\ SameWork(n, s) /\ n.round = s.round
    <3>1. PICK ph \in Phase, why \in Reason : ph = "WaitingForHuman" /\ why = "ask"
      BY DEF Phase, Reason
    <3>2. n = [s EXCEPT !.phase = ph, !.reason = why]
      BY <1>3, <3>1
    <3>3. PICK t \in RunType : t = s
      BY <1>1
    <3>4. n = [t EXCEPT !.phase = ph, !.reason = why]
      BY <3>2, <3>3
    <3>5. n \in RunType /\ n.phase = ph /\ n.reason = why /\ SameWork(n, t) /\ n.round = t.round
      BY <3>1, <3>3, <3>4 DEF RunType, SameWork, Same
    <3> QED  BY <3>1, <3>3, <3>5
  <2>2. /\ n.round = r.round /\ Same(n, r) /\ n.budget = r.budget /\ n.last = r.last
        /\ n.version \in {r.version, r.version + 1}
    BY <1>1, <2>1 DEF SameWork, Same
  <2> QED  BY <1>2, <2>1, <2>2, FitsDecided
<1>4. CASE n = [s EXCEPT !.phase = "Succeeded"] /\ Done(s)
  <2>1. n \in RunType /\ n.phase = "Succeeded" /\ SameWork(n, s) /\ n.round = s.round
    BY <1>1, <1>4, PhaseFields DEF Phase, Ended
  <2>2. /\ n.round = r.round /\ Same(n, r) /\ n.budget = r.budget /\ n.last = r.last
        /\ n.version \in {r.version, r.version + 1}
    BY <1>1, <2>1 DEF SameWork, Same
  <2>3. Done(n)
    BY <1>4, <2>1 DEF Done, SameWork
  <2> QED  BY <1>2, <2>1, <2>2, <2>3, FitsDecided
<1>5. CASE n = Failed(s)
  <2>1. n \in RunType /\ Unplanned(n) /\ n.round = s.round + 1 /\ SameWork(n, s)
    BY <1>1, <1>5, FailedFields
  <2>2. /\ n.round = r.round + 1 /\ Same(n, r) /\ n.budget = r.budget /\ n.last = r.last
        /\ n.version \in {r.version, r.version + 1}
    BY <1>1, <2>1 DEF SameWork, Same
  <2>3. r.version + 1 <= Cardinality(r.inputs) + r.round
    BY DEF Fits, StatusFits
  <2>4. n.inputs = r.inputs /\ n.guidance = r.guidance
    BY <2>2 DEF Same
  <2>5. n.version <= Cardinality(n.inputs) + r.round
    BY <1>2, <2>2, <2>3, <2>4 DEF RunType
  <2>6. ~Names(a, r.round)
    BY DEF Fits, PhaseFits
  <2>7. (x # None => x.reported) /\ (a # None => a.reported)
    BY <2>6 DEF Fits, ChildFits, Names, Family, ExecutionType, AuditType, RunType
  <2>8. n.last # None => n.last.told = n.guidance /\ Names(e, n.last.round)
    BY <2>2, <2>4 DEF Fits, LastFits
  <2>9. Fits(n, x, a, m, e, c)
    BY <1>2, <2>1, <2>2, <2>4, <2>5, <2>7, <2>8, FitsNextRound
  <2>10. n.phase # "New"
    BY <2>1 DEF Unplanned
  <2> QED  BY <2>1, <2>2, <2>9, <2>10
<1> QED  BY <1>3, <1>4, <1>5 DEF Decided

\* What the call of a decision and its Execution make of a Run.
LEMMA StartingFits ==
  ASSUME NEW r \in RunType, NEW x, NEW a, NEW m, NEW e, NEW c, Family(x, a, m, e, c),
         NEW d \in Decision, NEW n, n = StartExecution(WithContract(r, d)),
         r.phase = "Planning", r.round <= r.budget, Names(x, r.round),
         Fits(r, x, a, m, e, c)
  PROVE  n \in RunType /\ Fits(n, x, a, m, e, c) /\ n.phase # "New" /\ Same(n, r)
<1>1. PICK s : s = WithContract(r, d)
  OBVIOUS
<1>2. /\ s \in RunType /\ s.round = r.round /\ Same(s, r) /\ s.budget = r.budget
      /\ s.last = r.last /\ s.version \in {r.version, r.version + 1}
  BY <1>1, ContractFields
<1>3. /\ n \in RunType /\ n.phase = "Executing" /\ n.last = None /\ n.round = s.round
      /\ Same(n, s) /\ n.budget = s.budget /\ n.version = s.version
  BY <1>1, <1>2, StartFields
<1>4. /\ n.round = r.round /\ Same(n, r) /\ n.budget = r.budget
      /\ n.version \in {r.version, r.version + 1}
  BY <1>2, <1>3 DEF Same
<1>5. Cardinality(r.inputs) \in Nat
  BY SizeOfInputs
<1>6. Fits(n, x, a, m, e, c)
  BY <1>3, <1>4, <1>5, FitsExecuting
<1> QED  BY <1>3, <1>4, <1>6

\* plan: the decision, its Execution created before the patch.
LEMMA PlanDecideRound ==
  ASSUME Typed, RoundInv, NEW i \in Position, PlanDecide(i)
  PROVE  Typed' /\ RoundInv' /\ Patches(i)
<1>0. Begin(i) /\ Planning(i)
  BY DEF PlanDecide, Planning
<1>1. /\ i \in Run /\ runs[i] \in RunType /\ runs[i].phase # "New"
      /\ FitsAt(i, runs[i]) /\ runs[i].round \in Nat
      /\ Family(executions[i], audits[i], calls[<<i, "manager">>],
                calls[<<i, "executor">>], calls[<<i, "auditor">>])
  BY <1>0, PassOf
<1>2. PICK r \in RunType : r = runs[i]
  BY <1>1
<1>3. PICK x, a, m, e, c : /\ x = executions[i] /\ a = audits[i]
                           /\ m = calls[<<i, "manager">>]
                           /\ e = calls[<<i, "executor">>]
                           /\ c = calls[<<i, "auditor">>]
  OBVIOUS
<1>4. /\ Family(x, a, m, e, c) /\ Fits(r, x, a, m, e, c)
      /\ r.phase = "Planning" /\ r.round <= r.budget /\ r.round \in Nat
  BY <1>0, <1>1, <1>2, <1>3 DEF Planning, FitsAt
<1>5. Names(m, r.round) /\ m.result # None
  BY <1>2, <1>3 DEF PlanDecide, Issued
<1>6. PICK d \in Decision : d = m.result
  <2>1. m \in CallType("manager")
    BY <1>4, <1>5 DEF Family, Names
  <2>2. m.result \in Results("manager") \cup {None}
    BY <2>1 DEF CallType
  <2> QED  BY <1>5, <2>2 DEF Results
<1>7. PICK s : s = WithContract(r, d)
  OBVIOUS
<1>8. /\ s \in RunType /\ s.round = r.round /\ Same(s, r) /\ s.budget = r.budget
      /\ s.last = r.last /\ s.version \in {r.version, r.version + 1}
  BY <1>7, ContractFields
<1>9. PICK no \in BOOLEAN : no = FALSE
  OBVIOUS
<1>10. PICK spec : spec = [round |-> s.round, version |-> s.version, reported |-> no]
  OBVIOUS
<1>11. /\ spec \in ExecutionType /\ spec # None /\ spec.round = r.round
       /\ spec.reported = FALSE /\ spec.version = s.version
  <2>1. s.round \in Nat /\ s.version \in Nat
    BY <1>8 DEF RunType
  <2>2. spec \in ExecutionType
    BY <1>10, <2>1 DEF ExecutionType
  <2> QED  BY <1>8, <1>9, <1>10, <2>2, NoneAssumption
<1>12. PICK x1, a1 : /\ x1 = IF d.next = "cli" /\ ~Names(x, r.round) THEN spec ELSE Kept(i, x)
                     /\ a1 = Kept(i, a)
  OBVIOUS
<1>13. PICK n : n = CASE d.next = "cli" -> StartExecution(s)
                      [] d.next = "ask" ->
                           [s EXCEPT !.phase = "WaitingForHuman", !.reason = "ask"]
                      [] d.next = "done" /\ Done(s) -> [s EXCEPT !.phase = "Succeeded"]
                      [] OTHER -> Failed(s)
  OBVIOUS
<1>14. /\ executions' = [executions EXCEPT ![i] = x1]
       /\ audits' = [audits EXCEPT ![i] = a1]
       /\ Patch(i, n)
       /\ UNCHANGED <<runs, inbox, calls, questions, expired, refused, ingress, worker,
                      taken>>
  BY <1>2, <1>3, <1>6, <1>7, <1>8, <1>9, <1>10, <1>12, <1>13 DEF PlanDecide, Children
<1>15. /\ Kept(i, x) \in ExecutionType \cup {None} /\ a1 \in AuditType \cup {None}
       /\ Dropped(x, Kept(i, x), r) /\ Dropped(a, a1, r)
       /\ x # None /\ ~x.reported => Kept(i, x) = x
       /\ a # None /\ ~a.reported => a1 = a
  BY <1>1, <1>2, <1>3, <1>12, KeptTyped DEF Kept, Collectible
<1>16. CASE d.next = "cli"
  <2>1. n = StartExecution(WithContract(r, d))
    BY <1>7, <1>13, <1>16
  <2>2. /\ x1 \in ExecutionType \cup {None} /\ Names(x1, r.round)
        /\ x # None /\ ~x.reported => x1 = x
        /\ Fits(r, x1, a, m, e, c)
    <3>1. CASE ~Names(x, r.round)
      <4>1. x1 = spec
        BY <1>12, <1>16, <3>1, Zenon
      <4>2. Fits(r, x1, a, m, e, c)
        BY <1>4, <1>5, <1>6, <1>7, <1>11, <1>16, <3>1, <4>1, FitsNewExecution
      <4>3. x # None => x.reported
        BY <1>4, <3>1 DEF Fits, ChildFits, Names, Family, ExecutionType
      <4> QED  BY <1>11, <4>1, <4>2, <4>3 DEF Names
    <3>2. CASE Names(x, r.round)
      <4>1. x1 = Kept(i, x)
        BY <1>12, <3>2, Zenon
      <4>2. x1 = x
        BY <1>2, <1>4, <3>2, <4>1 DEF Kept, Collectible, Names
      <4> QED  BY <1>4, <3>2, <4>2 DEF Family
    <3> QED  BY <3>1, <3>2
  <2>3. Family(x1, a, m, e, c)
    BY <1>4, <2>2 DEF Family
  <2>4. Fits(r, x1, a1, m, e, c)
    BY <1>15, <2>2, <2>3, FitsCleanup DEF Dropped
  <2>5. Family(x1, a1, m, e, c)
    BY <1>15, <2>3 DEF Family
  <2>6. n \in RunType /\ Fits(n, x1, a1, m, e, c) /\ n.phase # "New" /\ Same(n, r)
    BY <1>4, <2>1, <2>2, <2>4, <2>5, StartingFits
  <2>7. questions' \in [Position -> QuestionType \cup {None}]
    BY <1>14 DEF Typed
  <2> QED  BY <1>0, <1>2, <1>3, <1>14, <1>15, <2>2, <2>4, <2>6, <2>7, PatchRound
<1>17. CASE d.next # "cli"
  <2>1. Decided(n, s)
    BY <1>13, <1>17, Zenon DEF Decided
  <2>2. x1 = Kept(i, x)
    BY <1>12, <1>17, Zenon
  <2>3. ~Names(x, r.round)
    BY <1>4, <1>6, <1>17 DEF Fits, PhaseFits
  <2>4. /\ n \in RunType /\ Fits(n, x, a, m, e, c) /\ n.phase # "New" /\ Same(n, r)
        /\ n.round \in {r.round, r.round + 1}
    BY <1>4, <1>7, <2>1, <2>3, DecisionFits
  <2>5. Fits(r, x1, a1, m, e, c)
    BY <1>4, <1>15, <2>2, FitsCleanup
  <2>6. n.round \in Nat /\ r.round <= n.round
    BY <1>4, <2>4
  <2>7. Dropped(x, x1, n) /\ Dropped(a, a1, n)
    BY <1>4, <1>15, <2>2, <2>6 DEF Dropped, Family, ExecutionType, AuditType
  <2>8. Fits(n, x1, a1, m, e, c)
    BY <1>4, <2>4, <2>7, FitsCleanup
  <2>9. questions' \in [Position -> QuestionType \cup {None}]
    BY <1>14 DEF Typed
  <2> QED  BY <1>0, <1>2, <1>3, <1>14, <1>15, <2>2, <2>4, <2>5, <2>8, <2>9, PatchRound
<1> QED  BY <1>16, <1>17

\* What the one Run has taken and passed.
LEMMA TakingOf ==
  ASSUME Typed, Owned, NEW i \in Run, NEW r, r = runs[i], r.phase # "New"
  PROVE  /\ i \in Nat \ {0} /\ Run = {i} /\ r \in RunType
         /\ committed \in Nat /\ r.through \in Nat /\ Len(inbox) \in Nat
         /\ i - 1 <= committed /\ committed <= r.through /\ r.through <= Len(inbox)
         /\ r.inputs \subseteq i..r.through
         /\ r.inputs \X {i} \subseteq taken
         /\ \A p \in i..r.through : IsInput(p) => p \in r.inputs
         /\ Later(committed, r.through) = r.through
         /\ ingress = Idle
         /\ \A p \in 1..r.through : IsInput(p) => Settled(p)
<1>1. i \in Nat \ {0} /\ Run = {i} /\ r \in RunType /\ ingress = Idle /\ i \in Position
  BY DEF Typed, Owned, Run, Position, Polled
<1>2. committed \in Nat /\ r.through \in Nat /\ Len(inbox) \in Nat
  BY <1>1 DEF Typed, RunType
<1>3. /\ i - 1 <= committed /\ committed <= r.through /\ r.through <= Len(inbox)
      /\ r.inputs \subseteq i..r.through
      /\ r.inputs \X {i} \subseteq taken
      /\ \A p \in i..r.through : IsInput(p) => p \in r.inputs
  <2>1. Taking(i, r)
    BY DEF Owned
  <2> QED  BY <2>1 DEF Taking
<1>4. Later(committed, r.through) = r.through
  BY <1>2, <1>3 DEF Later
<1>5. ASSUME NEW p \in 1..r.through, IsInput(p) PROVE Settled(p)
  <2>1. CASE p <= committed
    BY <1>2, <1>5, <2>1 DEF Owned, SettledSoFar
  <2>2. CASE ~(p <= committed)
    <3>1. p \in i..r.through
      BY <1>1, <1>2, <1>3, <2>2
    <3>2. <<p, i>> \in taken
      BY <1>3, <1>5, <3>1
    <3> QED  BY <1>1, <3>2 DEF Settled
  <2> QED  BY <2>1, <2>2
<1> QED  BY <1>1, <1>2, <1>3, <1>4, <1>5

\* A pass that writes no status.
LEMMA TendOwned ==
  ASSUME Typed, Owned, NEW i \in Position, Begin(i), Patches(i),
         UNCHANGED <<runs, inbox, refused, ingress, taken>>
  PROVE  Owned'
<1>1. PICK r : r = runs[i]
  OBVIOUS
<1>2. i \in Run /\ r.phase # "New" /\ committed' = Later(committed, r.through) /\ Run' = Run
  BY <1>1 DEF Begin, Run
<1>3. /\ Run = {i} /\ committed \in Nat /\ r.through \in Nat /\ committed' = r.through
      /\ i - 1 <= committed' /\ committed' <= r.through /\ r.through <= Len(inbox)
      /\ ingress = Idle
      /\ \A p \in 1..r.through : IsInput(p) => Settled(p)
  BY <1>1, <1>2, TakingOf DEF Position
<1>4. Taking(i, r)'
  <2>1. Taking(i, r)
    BY <1>1, <1>2 DEF Owned
  <2> QED  BY <1>2, <1>3, <2>1 DEF Taking, IsGoal, IsInput
<1>5. \A j \in Run' : Taking(j, runs[j])'
  BY <1>1, <1>2, <1>3, <1>4
<1>6. Polled' /\ Patching'
  BY <1>1, <1>2, <1>3 DEF Polled, Patching, Patches
<1>7. TakenOnce'
  BY <1>2, <1>3 DEF Owned, TakenOnce
<1>8. SettledSoFar'
  BY <1>3 DEF SettledSoFar, IsInput, Settled
<1> QED  BY <1>2, <1>3, <1>5, <1>6, <1>7, <1>8 DEF Owned

\* A status with the same inputs receives nothing.
LEMMA SameReceives ==
  ASSUME Typed, Owned, NEW i \in Run, runs[i].phase # "New",
         NEW n, SameInputs(n, runs[i])
  PROVE  Receives(i, n)
<1>1. /\ runs[i].through \in Nat /\ runs[i].through <= Len(inbox) /\ Len(inbox) \in Nat
  BY TakingOf
<1>2. Inputs(runs[i].through + 1, runs[i].through) = {}
  BY <1>1 DEF Inputs
<1> QED  BY <1>1, <1>2 DEF Receives, SameInputs

\* A status that is written after its inputs have been read.
LEMMA WriteOwned ==
  ASSUME Typed, Owned, NEW i \in Run, runs[i].phase # "New", NEW n \in RunType,
         n.phase # "New", Write(i, n), Receives(i, n), manager' = Idle,
         committed' \in {committed, Later(committed, runs[i].through)},
         UNCHANGED <<inbox, refused, ingress>>
  PROVE  Owned'
<1>1. PICK r : r = runs[i]
  OBVIOUS
<1>2. /\ i \in Nat \ {0} /\ Run = {i}
      /\ committed \in Nat /\ r.through \in Nat /\ Len(inbox) \in Nat
      /\ i - 1 <= committed /\ committed <= r.through /\ r.through <= Len(inbox)
      /\ r.inputs \subseteq i..r.through
      /\ \A p \in i..r.through : IsInput(p) => p \in r.inputs
      /\ Later(committed, r.through) = r.through
      /\ ingress = Idle
      /\ \A p \in 1..r.through : IsInput(p) => Settled(p)
  BY <1>1, TakingOf
<1>3. /\ committed' \in Nat /\ i - 1 <= committed' /\ committed' <= r.through
  BY <1>1, <1>2
<1>4. /\ n.user = r.user /\ n.through \in Nat /\ r.through <= n.through
      /\ n.through <= Len(inbox)
      /\ n.inputs = r.inputs \cup Inputs(r.through + 1, n.through)
  BY <1>1, <1>2 DEF Receives
<1>5. Run' = {i} /\ runs'[i] = n /\ taken' = taken \cup (n.inputs \X {i})
  BY <1>2, NoneAssumption DEF Write, Run, Typed
<1>6. n.inputs \subseteq i..n.through
  BY <1>2, <1>4 DEF Inputs
<1>7. \A p \in i..n.through : IsInput(p) => p \in n.inputs
  BY <1>2, <1>4 DEF Inputs
<1>8. Taking(i, n)'
  <2>1. i <= Len(inbox) /\ IsGoal(i) /\ n.user = inbox[i].user
    BY <1>1, <1>4 DEF Owned, Taking
  <2> QED  BY <1>2, <1>3, <1>4, <1>5, <1>6, <1>7, <2>1 DEF Taking, IsGoal, IsInput
<1>9. \A j \in Run' : Taking(j, runs[j])'
  BY <1>5, <1>8
<1>10. ASSUME NEW t \in taken, t[1] \in n.inputs PROVE t = <<t[1], i>>
  <2>1. t[1] < i \/ (t[2] = i /\ t[1] \in runs[i].inputs)
    BY DEF Owned, TakenOnce
  <2>2. t[1] \in i..n.through
    BY <1>6, <1>10
  <2>3. t \in Position \X Position
    BY DEF Typed
  <2> QED  BY <1>2, <2>1, <2>2, <2>3
<1>11. TakenOnce'
  <2>1. ASSUME NEW s \in taken', NEW t \in taken', s[1] = t[1] PROVE s = t
    <3>1. (s \in taken /\ t \in taken) => s = t
      BY <2>1 DEF Owned, TakenOnce
    <3>2. s \in n.inputs \X {i} => s = <<s[1], i>> /\ s[1] \in n.inputs
      OBVIOUS
    <3>3. t \in n.inputs \X {i} => t = <<t[1], i>> /\ t[1] \in n.inputs
      OBVIOUS
    <3> QED  BY <1>5, <1>10, <2>1, <3>1, <3>2, <3>3
  <2>2. ASSUME NEW t \in taken' PROVE t[1] < i \/ (t[2] = i /\ t[1] \in n.inputs)
    <3>1. t \in taken => t[1] < i \/ (t[2] = i /\ t[1] \in runs[i].inputs)
      BY DEF Owned, TakenOnce
    <3>2. t \in n.inputs \X {i} => t[2] = i /\ t[1] \in n.inputs
      OBVIOUS
    <3> QED  BY <1>1, <1>4, <1>5, <3>1, <3>2
  <2> QED  BY <1>5, <2>1, <2>2 DEF TakenOnce
<1>12. SettledSoFar'
  BY <1>2, <1>3, <1>5 DEF SettledSoFar, IsInput, Settled
<1>13. Polled' /\ Patching'
  BY <1>2 DEF Polled, Patching
<1>14. committed' <= Len(inbox')
  BY <1>2, <1>3
<1> QED  BY <1>5, <1>9, <1>11, <1>12, <1>13, <1>14 DEF Owned

\* A new Run takes the message that names it.
LEMMA InitializeOwned ==
  ASSUME Typed, Owned, NEW i \in Position, Initialize(i)
  PROVE  Owned'
<1>1. PICK r : r = runs[i]
  OBVIOUS
<1>2. /\ i \in Run /\ Run = {i} /\ r.phase = "New" /\ r \in RunType /\ ingress = Idle
      /\ i \in Nat \ {0} /\ Taking(i, r)
  BY <1>1 DEF Initialize, Owned, Run, Typed, Polled, Position
<1>3. PICK n : n = InitialStatus(i)
  OBVIOUS
<1>4. /\ n \in RunType /\ n.phase = "Receiving" /\ n.through = i /\ n.inputs = {i}
      /\ n.user = r.user
  BY <1>1, <1>2, <1>3, InitialFields
<1>5. Run' = {i} /\ runs'[i] = n /\ taken' = taken \cup ({i} \X {i})
  BY <1>2, <1>3, <1>4, NoneAssumption DEF Initialize, Write, Run, Typed
<1>6. /\ UNCHANGED <<inbox, committed, refused, ingress, manager>> /\ manager = Idle
  BY DEF Initialize, reconcilers
<1>7. Taking(i, n)'
  BY <1>2, <1>4, <1>5, <1>6 DEF Taking, IsGoal, IsInput
<1>8. TakenOnce'
  <2>1. ASSUME NEW t \in taken PROVE t[1] < i
    BY <1>1, <1>2 DEF Owned, TakenOnce, Taking
  <2>2. \A t \in taken' : t[1] < i \/ (t[2] = i /\ t[1] = i /\ t = <<i, i>>)
    BY <1>5, <2>1
  <2>3. \A s, t \in taken' : s[1] = t[1] => s = t
    BY <1>2, <1>5, <2>1, <2>2 DEF Owned, TakenOnce
  <2> QED  BY <1>4, <1>5, <2>2, <2>3 DEF TakenOnce
<1>9. SettledSoFar'
  BY <1>5, <1>6 DEF Owned, SettledSoFar, IsInput, Settled
<1> QED  BY <1>2, <1>5, <1>6, <1>7, <1>8, <1>9 DEF Owned, Polled, Patching

\* A Run goes after its inputs are committed.
LEMMA RetireOwned ==
  ASSUME Typed, Owned, NEW i \in Position, Retire(i)
  PROVE  Owned'
<1>1. PICK r : r = runs[i]
  OBVIOUS
<1>2. /\ i \in Run /\ r.phase # "New" /\ committed' = Later(committed, r.through)
      /\ manager = Idle
  BY <1>1 DEF Retire, Begin
<1>3. /\ i \in Nat \ {0} /\ Run = {i}
      /\ r.through \in Nat /\ committed' = r.through /\ Len(inbox) \in Nat
      /\ committed \in Nat
      /\ i - 1 <= committed /\ committed <= r.through /\ r.through <= Len(inbox)
      /\ r.inputs \subseteq i..r.through
      /\ ingress = Idle
      /\ \A p \in 1..r.through : IsInput(p) => Settled(p)
  BY <1>1, <1>2, TakingOf
<1>4. Run' = {} /\ UNCHANGED <<inbox, refused, ingress, manager, taken>>
  BY <1>3 DEF Retire, Run, Typed
<1>5. TakenOnce'
  <2>1. ASSUME NEW t \in taken PROVE t[1] <= r.through
    <3>1. t[1] < i \/ t[1] \in r.inputs
      BY <1>1, <1>2 DEF Owned, TakenOnce
    <3>2. t[1] \in Position
      BY DEF Typed
    <3> QED  BY <1>3, <3>1, <3>2 DEF Position
  <2> QED  BY <1>3, <1>4, <2>1 DEF Owned, TakenOnce
<1>6. SettledSoFar'
  BY <1>3, <1>4 DEF SettledSoFar, IsInput, Settled
<1> QED  BY <1>2, <1>3, <1>4, <1>5, <1>6 DEF Owned, Polled, Patching

\* What touches neither the Runs nor the inbox.
LEMMA OwnedFrame ==
  ASSUME Owned, UNCHANGED <<runs, inbox, committed, refused, taken>>,
         ingress' \in {ingress, Idle}, manager' \in {manager, Idle}
  PROVE  Owned'
<1>1. Run' = Run
  BY DEF Run
<1>2. \A i \in Run : Taking(i, runs[i])'
  BY DEF Owned, Taking, IsGoal, IsInput
<1>3. Polled'
  BY <1>1 DEF Owned, Polled, IsInput
<1>4. Patching'
  BY <1>1 DEF Owned, Patching
<1>5. TakenOnce' /\ SettledSoFar'
  BY <1>1 DEF Owned, TakenOnce, SettledSoFar, IsInput, Settled
<1> QED  BY <1>1, <1>2, <1>3, <1>4, <1>5 DEF Owned

\* A message arrives behind what is taken.
LEMMA PostOwned == ASSUME Typed, Owned, Post PROVE Owned'
<1>1. PICK m \in Message : inbox' = Append(inbox, m)
  BY DEF Post
<1>2. /\ UNCHANGED <<runs, committed, refused, ingress, manager, taken>> /\ Run' = Run
  BY DEF Post, resources, reconcilers, Run
<1>3. /\ Len(inbox) \in Nat /\ Len(inbox') = Len(inbox) + 1
      /\ \A p \in 1..Len(inbox) : inbox'[p] = inbox[p]
  BY <1>1 DEF Typed
<1>4. committed \in Nat /\ committed <= Len(inbox)
  BY DEF Typed, Owned
<1>5. \A p \in 1..Len(inbox) : IsInput(p)' = IsInput(p) /\ IsGoal(p)' = IsGoal(p)
  BY <1>3 DEF IsInput, IsGoal
<1>6. ASSUME NEW i \in Run PROVE Taking(i, runs[i])'
  <2>1. PICK r : r = runs[i]
    OBVIOUS
  <2>2. Taking(i, r) /\ r \in RunType /\ i \in Nat \ {0}
    <3>1. Taking(i, r)
      BY <2>1 DEF Owned
    <3>2. i \in Position /\ r \in RunType
      BY <2>1 DEF Typed, Run
    <3> QED  BY <3>1, <3>2 DEF Position
  <2>3. r.through \in Nat
    BY <2>2 DEF RunType
  <2>4. i \in 1..Len(inbox) /\ inbox'[i] = inbox[i] /\ IsGoal(i)'
    BY <1>3, <1>5, <2>2 DEF Taking
  <2>5. ASSUME r.phase # "New", NEW p \in i..r.through, IsInput(p)' PROVE p \in r.inputs
    <3>1. p \in 1..Len(inbox)
      BY <1>3, <2>2, <2>3, <2>5 DEF Taking
    <3>2. IsInput(p)
      BY <1>5, <2>5, <3>1
    <3> QED  BY <2>2, <2>5, <3>2 DEF Taking
  <2>6. Taking(i, r)'
    BY <1>2, <1>3, <2>2, <2>3, <2>4, <2>5 DEF Taking
  <2> QED  BY <1>2, <2>1, <2>6
<1>7. Polled'
  BY <1>2, <1>3, <1>4, <1>5 DEF Owned, Polled
<1>8. Patching' /\ TakenOnce'
  BY <1>2 DEF Owned, Patching, TakenOnce
<1>9. SettledSoFar'
  <2> SUFFICES ASSUME NEW p \in 1..committed, IsInput(p)' PROVE Settled(p)'
    BY <1>2 DEF SettledSoFar
  <2>1. p \in 1..Len(inbox)
    BY <1>3, <1>4
  <2>2. IsInput(p)
    BY <1>5, <2>1
  <2>3. Settled(p)
    BY <2>2 DEF Owned, SettledSoFar
  <2> QED  BY <1>2, <2>3 DEF Settled
<1>10. committed' <= Len(inbox')
  BY <1>2, <1>3, <1>4
<1> QED  BY <1>2, <1>6, <1>7, <1>8, <1>9, <1>10 DEF Owned

\* Ingress acts only while there is no Run.
LEMMA IngressOwned == ASSUME Typed, Owned, Ingress PROVE Owned'
<1>0. committed \in Nat /\ Len(inbox) \in Nat /\ committed <= Len(inbox)
  BY DEF Typed, Owned
<1>1. CASE IngressPoll
  <2>1. /\ UNCHANGED <<runs, inbox, committed, refused, manager, taken>> /\ Run' = Run
    BY <1>1 DEF IngressPoll, resources, services, Run
  <2>2. ingress'.message = committed + 1 /\ ingress'.at = "act" /\ Run = {}
        /\ committed < Len(inbox)
    BY <1>1 DEF IngressPoll
  <2>3. Polled'
    BY <1>0, <2>1, <2>2 DEF Polled
  <2>4. \A i \in Run' : Taking(i, runs[i])'
    BY <2>1, <2>2
  <2>5. Patching' /\ TakenOnce' /\ SettledSoFar'
    BY <2>1 DEF Owned, Patching, TakenOnce, SettledSoFar, IsInput, Settled
  <2> QED  BY <1>0, <2>1, <2>2, <2>3, <2>4, <2>5 DEF Owned
<1>2. CASE IngressRefuse
  <2>1. /\ UNCHANGED <<runs, inbox, committed, manager, taken>> /\ Run' = Run
    BY <1>2 DEF IngressRefuse, resources, Run
  <2>2. ingress # Idle /\ ingress \in [at : {"act", "commit"}, message : DOMAIN inbox]
    BY <1>2 DEF IngressRefuse, Idle, Typed
  <2>3. Run = {} /\ ingress.message = committed + 1 /\ ingress.message <= Len(inbox)
    BY <2>2 DEF Owned, Polled
  <2>4. PICK p : p = ingress.message
    OBVIOUS
  <2>5. /\ refused' = IF IsInput(p) THEN refused \cup {p} ELSE refused
        /\ ingress'.message = p
    BY <1>2, <2>2, <2>4 DEF IngressRefuse
  <2>6. refused \subseteq refused' /\ (IsInput(p) => p \in refused')
    BY <2>5
  <2>7. Polled'
    BY <2>1, <2>3, <2>4, <2>5, <2>6 DEF Polled, IsInput
  <2>8. SettledSoFar'
    BY <2>1, <2>6 DEF Owned, SettledSoFar, IsInput, Settled
  <2>9. Patching' /\ TakenOnce'
    BY <2>1 DEF Owned, Patching, TakenOnce
  <2> QED  BY <1>0, <2>1, <2>3, <2>7, <2>8, <2>9 DEF Owned
<1>3. CASE IngressCommit
  <2>1. /\ UNCHANGED <<runs, inbox, refused, manager, taken>> /\ Run' = Run /\ ingress' = Idle
    BY <1>3 DEF IngressCommit, resources, Run
  <2>2. ingress # Idle
    BY <1>3 DEF IngressCommit, Idle
  <2>3. /\ Run = {} /\ ingress.message = committed + 1 /\ ingress.message <= Len(inbox)
        /\ IsInput(committed + 1) => committed + 1 \in refused
    BY <1>3, <2>2 DEF IngressCommit, Owned, Polled
  <2>4. committed' = committed + 1
    BY <1>0, <1>3, <2>3 DEF IngressCommit, Later
  <2>5. TakenOnce'
    <3>1. ASSUME NEW t \in taken PROVE t[1] <= committed'
      <4>1. t[1] <= committed /\ t[1] \in Position
        BY <2>3 DEF Owned, TakenOnce, Typed
      <4> QED  BY <1>0, <2>4, <4>1 DEF Position
    <3> QED  BY <2>1, <2>3, <3>1 DEF Owned, TakenOnce
  <2>6. SettledSoFar'
    <3>1. ASSUME NEW p \in 1..(committed + 1), IsInput(p) PROVE Settled(p)
      <4>1. CASE p = committed + 1
        BY <2>3, <3>1, <4>1 DEF Settled
      <4>2. CASE p # committed + 1
        BY <1>0, <3>1, <4>2 DEF Owned, SettledSoFar
      <4> QED  BY <4>1, <4>2
    <3> QED  BY <2>1, <2>4, <3>1 DEF SettledSoFar, IsInput, Settled
  <2>7. Polled' /\ Patching'
    BY <2>1 DEF Owned, Polled, Patching
  <2> QED  BY <2>1, <2>3, <2>4, <2>5, <2>6, <2>7 DEF Owned
<1>4. CASE IngressCreate
  <2>1. /\ UNCHANGED <<inbox, committed, refused, manager, taken>> /\ ingress' = Idle
    BY <1>4 DEF IngressCreate, services
  <2>2. ingress # Idle /\ ingress \in [at : {"act", "commit"}, message : DOMAIN inbox]
    BY <1>4 DEF IngressCreate, Idle, Typed
  <2>3. Run = {} /\ ingress.message = committed + 1
    BY <2>2 DEF Owned, Polled
  <2>4. PICK p \in DOMAIN inbox : p = ingress.message
    BY <2>2
  <2>5. p \in 1..Len(inbox) /\ p \in Position /\ inbox[p] \in Message /\ IsGoal(p)
    BY <1>4, <2>4, LongHorizonBounds DEF IngressCreate, Typed, Position
  <2>6. PICK n : n = NewRun(p)
    OBVIOUS
  <2>7. n \in RunType /\ n.phase = "New" /\ n.user = inbox[p].user /\ n.inputs = {}
    BY <2>5, <2>6, NewRunTyped
  <2>8. runs' = [runs EXCEPT ![p] = n]
    BY <1>4, <2>3, <2>4, <2>6 DEF IngressCreate
  <2>9. Run' = {p} /\ runs'[p] = n
    BY <2>3, <2>5, <2>7, <2>8, NoneAssumption DEF Run, Typed
  <2>10. Taking(p, n)'
    BY <1>0, <2>1, <2>3, <2>4, <2>5, <2>7 DEF Taking, IsGoal
  <2>11. \A j \in Run' : Taking(j, runs[j])'
    BY <2>9, <2>10
  <2>12. manager = Idle
    BY <2>3 DEF Owned, Patching
  <2>13. TakenOnce'
    <3>1. ASSUME NEW t \in taken PROVE t[1] < p
      <4>1. t[1] <= committed /\ t[1] \in Position
        BY <2>3 DEF Owned, TakenOnce, Typed
      <4> QED  BY <1>0, <2>3, <2>4, <4>1 DEF Position
    <3> QED  BY <2>1, <2>9, <3>1 DEF Owned, TakenOnce
  <2>14. SettledSoFar'
    BY <2>1 DEF Owned, SettledSoFar, IsInput, Settled
  <2> QED  BY <1>0, <2>1, <2>9, <2>11, <2>12, <2>13, <2>14 DEF Owned, Polled, Patching
<1> QED  BY <1>1, <1>2, <1>3, <1>4 DEF Ingress

\* The other writes of a status.
LEMMA StatusTyped ==
  ASSUME Typed, NEW i \in Position,
         Initialize(i) \/ Retire(i) \/ ManagerPatch
  PROVE  Typed'
<1>1. CASE Initialize(i)
  <2>1. runs[i] \in RunType
    BY <1>1 DEF Initialize, Run, Typed
  <2>2. PICK n \in RunType : n = InitialStatus(i)
    BY <2>1, InitialFields
  <2>3. Write(i, n)
    BY <1>1, <2>2 DEF Initialize
  <2> QED  BY <1>1, <2>3, WriteTyped DEF Typed, Initialize, reconcilers
<1>2. CASE Retire(i)
  <2>1. committed' \in 0..MaxMessages
    BY <1>2, BeginTyped DEF Retire
  <2>2. /\ DOMAIN calls' = Position \X Role
        /\ \A k \in Position \X Role : calls'[k] \in CallType(k[2]) \cup {None}
    BY <1>2 DEF Retire, Typed
  <2>3. worker' \in [Worker -> {Idle} \cup [at : {"prompt"}, run : Position, round : Nat,
                                           request : RequestType]]
    BY <1>2 DEF Retire, Typed
  <2>4. /\ runs' \in [Position -> RunType \cup {None}]
        /\ executions' \in [Position -> ExecutionType \cup {None}]
        /\ audits' \in [Position -> AuditType \cup {None}]
        /\ questions' \in [Position -> QuestionType \cup {None}]
        /\ expired' \cup refused' \subseteq Position
        /\ UNCHANGED <<inbox, refused, ingress, manager, taken>>
    BY <1>2 DEF Retire, Children, Typed
  <2> QED  BY <2>1, <2>2, <2>3, <2>4 DEF Typed
<1>3. CASE ManagerPatch
  <2>1. PICK j \in Position, n \in RunType : j = manager.run /\ n = manager.next
    BY <1>3 DEF ManagerPatch, Typed
  <2>2. Write(j, n)
    BY <1>3, <2>1 DEF ManagerPatch
  <2> QED  BY <1>3, <2>2, WriteTyped DEF Typed, ManagerPatch
<1> QED  BY <1>1, <1>2, <1>3

\* What a worker holds until its prompt.
LEMMA WorkerCheckTyped ==
  ASSUME Typed, NEW w \in Worker, NEW i \in Position, WorkerCheck(w, i)
  PROVE  Typed'
<1>1. PICK child : child = Child(w, i)
  OBVIOUS
<1>2. child.round \in Nat /\ child.version \in Nat
  BY <1>1 DEF WorkerCheck, Unreported, Child, Typed, ExecutionType, AuditType
<1>3. i \in Run /\ runs[i] \in RunType
  BY DEF WorkerCheck, Unreported, Live, Run, Typed
<1>4. PICK told \in Guidance : told = IF w = "auditor" THEN runs[i].guidance ELSE {}
  <2>1. runs[i].guidance \in Guidance
    BY <1>3 DEF RunType
  <2>2. {} \in Guidance
    BY DEF Guidance
  <2> QED  BY <2>1, <2>2
<1>5. PICK request \in RequestType : request = WorkRequest(w, i)
  BY <1>1, <1>2, <1>4 DEF WorkRequest, RequestType
<1>6. PICK me : me = [at |-> "prompt", run |-> i, round |-> child.round, request |-> request]
  OBVIOUS
<1>7. me \in [at : {"prompt"}, run : Position, round : Nat, request : RequestType]
  BY <1>2, <1>5, <1>6
<1>8. worker' = [worker EXCEPT ![w] = me]
  BY <1>1, <1>5, <1>6 DEF WorkerCheck
<1> QED  BY <1>7, <1>8 DEF WorkerCheck, Typed, resources, services

\* Answers, deadlines and failures.
LEMMA ServiceTyped ==
  ASSUME Typed, NEW i \in Position, EndQuestion(i) \/ Expire(i) \/ CallFails \/ Restart
  PROVE  Typed'
<1>1. CASE EndQuestion(i)
  <2>1. PICK outcome \in {"accepted", "declined"} :
          questions' = [questions EXCEPT ![i].outcome = outcome]
    BY <1>1 DEF EndQuestion
  <2>2. PICK question \in QuestionType : question = questions[i]
    BY <1>1 DEF EndQuestion, Typed
  <2>3. [question EXCEPT !.outcome = outcome] \in QuestionType
    BY <2>2 DEF QuestionType
  <2>4. questions' = [questions EXCEPT ![i] = [question EXCEPT !.outcome = outcome]]
    BY <2>1, <2>2
  <2>5. questions' \in [Position -> QuestionType \cup {None}]
    BY <2>3, <2>4 DEF Typed
  <2> QED  BY <1>1, <2>5 DEF EndQuestion, Typed, resources, reconcilers
<1>2. CASE Expire(i)
  BY <1>2 DEF Expire, Typed, resources, reconcilers
<1>3. CASE CallFails
  BY <1>3 DEF CallFails, Typed, resources, services
<1>4. CASE Restart
  BY <1>4 DEF Restart, Typed, resources, services
<1> QED  BY <1>1, <1>2, <1>3, <1>4

\* A pass that writes its status.
LEMMA PassesStep ==
  ASSUME LongInv, NEW i \in Position, NEW n, Passes(i, n),
         Receives(i, n) \/ SameInputs(n, runs[i])
  PROVE  LongInv'
<1>1. /\ Typed /\ Owned /\ RoundInv /\ Pass(i) /\ Write(i, n) /\ n \in RunType
      /\ n.phase # "New" /\ FitsAt(i, n) /\ runs[i].round <= n.round
      /\ audits[i] # None /\ ~audits[i].reported => n.guidance = runs[i].guidance
  BY DEF LongInv, Passes
<1>2. i \in Run /\ runs[i].phase # "New" /\ committed' = Later(committed, runs[i].through)
      /\ UNCHANGED <<inbox, refused, ingress>> /\ manager' = Idle
  BY <1>1 DEF Pass, Begin, reconcilers
<1>3. Receives(i, n)
  BY <1>1, <1>2, SameReceives
<1>4. Typed'
  BY <1>1, PassTyped
<1>5. RoundInv'
  BY <1>1, PassRound
<1>6. Owned'
  BY <1>1, <1>2, <1>3, WriteOwned
<1> QED  BY <1>4, <1>5, <1>6 DEF LongInv

\* Every pass of the Manager.
LEMMA ManagerStep ==
  ASSUME LongInv, NEW i \in Position, Manager(i)
  PROVE  LongInv'
<1>0. Typed /\ Owned /\ RoundInv
  BY DEF LongInv
<1>1. CASE Initialize(i)
  BY <1>0, <1>1, StatusTyped, InitializeRound, InitializeOwned DEF LongInv
<1>2. CASE StopOverdue(i)
  BY <1>0, <1>2, StopOverduePasses, PassesStep
<1>3. CASE Finish(i)
  BY <1>0, <1>3, FinishPasses, PassesStep
<1>4. CASE Retire(i)
  BY <1>0, <1>4, StatusTyped, RetireRound, RetireOwned DEF LongInv
<1>5. CASE Receive(i)
  BY <1>0, <1>5, ReceivePasses, PassesStep
<1>6. CASE PlanBeyondBudget(i)
  BY <1>0, <1>6, PlanBeyondBudgetPasses, PassesStep
<1>7. CASE PlanPrompt(i)
  <2>1. Begin(i) /\ manager = Idle /\ UNCHANGED <<runs, inbox, refused, reconcilers, taken>>
    BY <1>7 DEF PlanPrompt, Planning, Begin
  <2>2. Patches(i) /\ ingress' = ingress
    BY <2>1 DEF Patches, reconcilers
  <2>3. Owned'
    BY <1>0, <2>1, <2>2, TendOwned
  <2> QED  BY <1>0, <1>7, <2>3, PlanPromptRound DEF LongInv
<1>8. CASE PlanDecide(i)
  <2>1. Begin(i) /\ UNCHANGED <<runs, inbox, refused, ingress, taken>>
    BY <1>8 DEF PlanDecide, Planning
  <2>2. Typed' /\ RoundInv' /\ Patches(i)
    BY <1>0, <1>8, PlanDecideRound
  <2> QED  BY <1>0, <2>1, <2>2, TendOwned DEF LongInv
<1>9. CASE ObserveExecution(i)
  <2>1. Begin(i) /\ UNCHANGED <<runs, inbox, refused, ingress, taken>>
    BY <1>9 DEF ObserveExecution
  <2>2. Typed' /\ RoundInv' /\ Patches(i)
    BY <1>0, <1>9, ObserveExecutionRound
  <2> QED  BY <1>0, <2>1, <2>2, TendOwned DEF LongInv
<1>10. CASE ObserveAudit(i)
  BY <1>0, <1>10, ObserveAuditPasses, PassesStep
<1>11. CASE Ask(i)
  <2>1. Begin(i) /\ UNCHANGED <<runs, inbox, refused, ingress, taken>>
    BY <1>11 DEF Ask
  <2>2. Typed' /\ RoundInv' /\ Patches(i)
    BY <1>0, <1>11, AskRound
  <2> QED  BY <1>0, <2>1, <2>2, TendOwned DEF LongInv
<1>12. CASE Decide(i)
  BY <1>0, <1>12, DecidePasses, PassesStep
<1>13. CASE Wait(i)
  <2>1. /\ Begin(i) /\ Cleanup(i) /\ manager = Idle
        /\ UNCHANGED <<runs, inbox, calls, questions, expired, refused, reconcilers, taken>>
    BY <1>13 DEF Wait, Pass, Begin
  <2>2. Patches(i) /\ ingress' = ingress
    BY <2>1 DEF Patches, reconcilers
  <2>3. Owned'
    BY <1>0, <2>1, <2>2, TendOwned
  <2> QED  BY <1>0, <2>1, <2>3, CleanupRound DEF LongInv
<1> QED
  BY <1>1, <1>2, <1>3, <1>4, <1>5, <1>6, <1>7, <1>8, <1>9, <1>10, <1>11, <1>12, <1>13
     DEF Manager

\* Every step of Executor and Auditor.
LEMMA WorkStep ==
  ASSUME LongInv, NEW w \in Worker, Work(w)
  PROVE  LongInv'
<1>0. Typed /\ Owned /\ RoundInv /\ Patching
  BY DEF LongInv, Owned
<1>1. ASSUME NEW i \in Position, WorkerCheck(w, i) PROVE LongInv'
  <2>1. UNCHANGED <<runs, inbox, committed, refused, taken, ingress, manager>>
    BY <1>1 DEF WorkerCheck, resources, services
  <2>2. Owned'
    BY <1>0, <2>1, OwnedFrame
  <2> QED  BY <1>0, <1>1, <2>2, WorkerCheckTyped, WorkerCheckRound DEF LongInv
<1>2. ASSUME NEW i \in Position, WorkerReport(w, i) PROVE LongInv'
  <2>1. UNCHANGED <<runs, services, reconcilers, taken>>
    BY <1>2 DEF WorkerReport
  <2>2. Owned'
    BY <1>0, <2>1, OwnedFrame DEF services, reconcilers
  <2>3. /\ RoundInv'
        /\ executions' \in [Position -> ExecutionType \cup {None}]
        /\ audits' \in [Position -> AuditType \cup {None}]
    BY <1>0, <1>2, WorkerReportRound
  <2>4. Typed'
    BY <1>0, <2>1, <2>3 DEF Typed, services, reconcilers
  <2> QED  BY <2>2, <2>3, <2>4 DEF LongInv
<1>3. CASE WorkerPrompt(w)
  <2>1. /\ UNCHANGED <<resources, inbox, committed, questions, expired, refused,
                       ingress, manager, taken>>
        /\ worker' = [worker EXCEPT ![w] = Idle]
    BY <1>3 DEF WorkerPrompt
  <2>2. Owned'
    BY <1>0, <2>1, OwnedFrame DEF resources
  <2>3. RoundInv' /\ DOMAIN calls' = Position \X Role
         /\ \A k \in Position \X Role : calls'[k] \in CallType(k[2]) \cup {None}
    BY <1>0, <1>3, WorkerPromptRound
  <2>4. Typed'
    BY <1>0, <2>1, <2>3 DEF Typed, resources
  <2> QED  BY <2>2, <2>3, <2>4 DEF LongInv
<1> QED  BY <1>1, <1>2, <1>3 DEF Work

\* The services, time and failures.
LEMMA ServiceStep ==
  ASSUME LongInv, NEW i \in Position, EndQuestion(i) \/ Expire(i) \/ CallFails \/ Restart
  PROVE  LongInv'
<1>0. Typed /\ Owned /\ RoundInv
  BY DEF LongInv
<1>1. /\ UNCHANGED <<resources, inbox, committed, calls, refused, taken>>
      /\ ingress' \in {ingress, Idle} /\ manager' \in {manager, Idle}
      /\ \A w \in Worker : worker'[w] \in {worker[w], Idle}
  BY <1>0 DEF EndQuestion, Expire, CallFails, Restart, services, reconcilers, Typed
<1>2. Owned'
  BY <1>0, <1>1, OwnedFrame DEF resources
<1>3. RoundInv'
  BY <1>0, <1>1, RoundFrame DEF resources
<1> QED  BY <1>0, <1>2, <1>3, ServiceTyped DEF LongInv

\* A harness call ends.
LEMMA EndCallStep ==
  ASSUME LongInv, NEW i \in Position, NEW role \in Role, EndCall(i, role)
  PROVE  LongInv'
<1>0. Typed /\ Owned /\ RoundInv /\ Patching
  BY DEF LongInv, Owned
<1>1. /\ UNCHANGED <<resources, inbox, committed, questions, expired, refused,
                     reconcilers, taken>>
  BY DEF EndCall
<1>2. Owned'
  BY <1>0, <1>1, OwnedFrame DEF resources, reconcilers
<1>3. RoundInv' /\ DOMAIN calls' = Position \X Role
       /\ \A k \in Position \X Role : calls'[k] \in CallType(k[2]) \cup {None}
  BY <1>0, EndCallRound
<1>4. Typed'
  BY <1>0, <1>1, <1>3 DEF Typed, resources, reconcilers
<1> QED  BY <1>2, <1>3, <1>4 DEF LongInv

\* Every step of Ingress.
LEMMA IngressStep == ASSUME LongInv, Ingress PROVE LongInv'
<1>0. Typed /\ Owned /\ RoundInv
  BY DEF LongInv
<1>1. CASE IngressCreate
  BY <1>0, <1>1, IngressTyped, IngressOwned, IngressCreateRound DEF LongInv, Ingress
<1>2. CASE ~IngressCreate
  <2>1. UNCHANGED <<runs, executions, audits, calls, manager, worker>>
    BY <1>2 DEF Ingress, IngressPoll, IngressRefuse, IngressCommit, resources, services
  <2>2. RoundInv'
    BY <1>0, <2>1, RoundFrame
  <2> QED  BY <1>0, <2>2, IngressTyped, IngressOwned DEF LongInv
<1> QED  BY <1>1, <1>2

(***************************************************************************)
(* No Run, no call and nothing held: the invariant holds initially.        *)
(***************************************************************************)
THEOREM LongInvInit == Init => LongInv
<1> SUFFICES ASSUME Init PROVE LongInv
  OBVIOUS
<1>1. Run = {} /\ manager = Idle /\ ingress = Idle /\ \A w \in Worker : worker[w] = Idle
  BY DEF Init, Run
<1>2. Owned
  BY <1>1 DEF Init, Owned, Polled, Patching, TakenOnce, SettledSoFar
<1>3. RoundInv
  BY <1>1 DEF Init, RoundInv, Absent, Prompting
<1> QED  BY <1>2, <1>3, TypedInit DEF LongInv

(***************************************************************************)
(* Every step keeps the invariant: each pass of the Manager with its cleanup*)
(* and patch, each check, prompt and report of a worker, Ingress, the services,*)
(* and a failure or restart between any two of them.                       *)
(***************************************************************************)
THEOREM LongInvNext == LongInv /\ [Next]_vars => LongInv'
<1> SUFFICES ASSUME LongInv, [Next]_vars PROVE LongInv'
  OBVIOUS
<1>0. Typed /\ Owned /\ RoundInv
  BY DEF LongInv
<1>1. CASE Post
  <2>1. UNCHANGED <<runs, executions, audits, calls, manager, worker>>
    BY <1>1 DEF Post, resources, reconcilers
  <2>2. RoundInv'
    BY <1>0, <2>1, RoundFrame
  <2> QED  BY <1>0, <1>1, <2>2, PostTyped, PostOwned DEF LongInv
<1>2. CASE Ingress
  BY <1>2, IngressStep
<1>3. ASSUME NEW i \in Position, Manager(i) PROVE LongInv'
  BY <1>3, ManagerStep
<1>4. ASSUME NEW i \in Position, EndQuestion(i) \/ Expire(i) PROVE LongInv'
  BY <1>4, ServiceStep
<1>5. ASSUME NEW i \in Position, PassFails(i) PROVE LongInv'
  <2>1. /\ Begin(i) /\ Cleanup(i) /\ manager = Idle
        /\ UNCHANGED <<runs, inbox, calls, questions, expired, refused, reconcilers, taken>>
    BY <1>5 DEF PassFails, Begin
  <2>2. Patches(i) /\ ingress' = ingress
    BY <2>1 DEF Patches, reconcilers
  <2>3. Owned'
    BY <1>0, <2>1, <2>2, TendOwned
  <2> QED  BY <1>0, <2>1, <2>3, CleanupRound DEF LongInv
<1>6. CASE ManagerPatch
  <2>1. PICK i, n : i = manager.run /\ n = manager.next
    OBVIOUS
  <2>2. /\ i \in Run /\ n \in RunType /\ Write(i, n) /\ runs[i].phase # "New"
        /\ n.phase # "New" /\ Same(n, runs[i]) /\ manager' = Idle
        /\ UNCHANGED <<committed, inbox, refused, ingress>>
    BY <1>0, <1>6, <2>1 DEF ManagerPatch, Owned, Patching, Typed
  <2>3. Receives(i, n)
    BY <1>0, <2>2, SameReceives DEF Same, SameInputs
  <2>4. Owned'
    BY <1>0, <2>2, <2>3, WriteOwned
  <2>5. RoundInv'
    BY <1>0, <1>6, ManagerPatchRound DEF Owned
  <2>6. Typed'
    BY <1>0, <1>6, <2>2, StatusTyped DEF Run
  <2> QED  BY <2>4, <2>5, <2>6 DEF LongInv
<1>7. ASSUME NEW w \in Worker, Work(w) PROVE LongInv'
  BY <1>7, WorkStep
<1>8. ASSUME NEW i \in Position, NEW role \in Role, EndCall(i, role) PROVE LongInv'
  BY <1>8, EndCallStep
<1>9. CASE CallFails \/ Restart
  <2>1. CASE Position = {}
    <3>1. /\ UNCHANGED <<resources, services, taken>>
          /\ ingress' \in {ingress, Idle} /\ manager' \in {manager, Idle}
          /\ \A w \in Worker : worker'[w] \in {worker[w], Idle}
          /\ Typed'
      BY <1>0, <1>9 DEF CallFails, Restart, Typed, resources, services
    <3> QED  BY <1>0, <3>1, OwnedFrame, RoundFrame DEF LongInv, resources, services
  <2>2. CASE Position # {}
    BY <1>9, <2>2, ServiceStep
  <2> QED  BY <2>1, <2>2
<1>10. CASE UNCHANGED vars
  <2>1. UNCHANGED <<resources, services, reconcilers, taken>>
    BY <1>10 DEF vars
  <2>2. Typed'
    BY <1>0, <2>1 DEF Typed, resources, services, reconcilers
  <2> QED
    BY <1>0, <2>1, <2>2, OwnedFrame, RoundFrame DEF LongInv, resources, services, reconcilers
<1> QED
  BY <1>1, <1>2, <1>3, <1>4, <1>5, <1>6, <1>7, <1>8, <1>9, <1>10 DEF Next

(***************************************************************************)
(* The invariant holds for ever.  Owned says whose the inbox is, and RoundInv*)
(* what the status, the children and the calls of a round have to do with each*)
(* other, also while a reconciler holds what it has read.                  *)
(***************************************************************************)
THEOREM LongInvariant == Spec => []LongInv
BY LongInvInit, LongInvNext, PTL DEF Spec

\* What the invariant says of one Run.
LEMMA FitsOf ==
  ASSUME LongInv, NEW i \in Run, NEW r, r = runs[i],
         NEW x, NEW a, NEW m, NEW e, NEW c, x = executions[i], a = audits[i],
         m = calls[<<i, "manager">>], e = calls[<<i, "executor">>],
         c = calls[<<i, "auditor">>]
  PROVE  r \in RunType /\ Family(x, a, m, e, c) /\ Fits(r, x, a, m, e, c)
<1>1. i \in Position /\ r \in RunType
  BY DEF LongInv, Typed, Run
<1>2. FitsAt(i, r)
  BY DEF LongInv, RoundInv
<1> QED  BY <1>1, <1>2, FamilyOf DEF LongInv, FitsAt

(***************************************************************************)
(* Types and bounds: a Run never records more than MaxInputs inputs, nor a *)
(* round beyond its budget but the one that asks for more, nor a contract  *)
(* version that neither an input nor a round accounts for (receive, plan). *)
(***************************************************************************)
THEOREM LongTypeCorrect == Spec => []TypeOK
<1>1. ASSUME LongInv PROVE TypeOK
  <2>1. ASSUME NEW i \in Run PROVE Bounded(i)
    <3>1. FitsAt(i, runs[i])
      BY <1>1 DEF LongInv, RoundInv
    <3> QED  BY <3>1 DEF FitsAt, Fits, StatusFits, Bounded
  <2> QED  BY <1>1, <2>1 DEF LongInv, Owned, TypeOK
<1> QED  BY <1>1, LongInvariant, PTL

(***************************************************************************)
(* One Run at a time owns the inbox; a user's message that is consumed is  *)
(* recorded by a Run or was refused, and never by two (Ingress, receive, the*)
(* commit of InputThrough), whatever fails between a poll and its patch.   *)
(***************************************************************************)
THEOREM EachInputTakenOnceHolds == Spec => []EachInputTakenOnce
<1>1. ASSUME LongInv PROVE EachInputTakenOnce
  <2>1. Cardinality(Run) <= 1
    <3>1. CASE Run = {}
      BY <3>1, FS_EmptySet
    <3>2. ASSUME NEW i \in Run PROVE Cardinality(Run) <= 1
      <4>1. Run = {i}
        BY <1>1 DEF LongInv, Owned
      <4>2. Cardinality({i}) = 1
        BY FS_Singleton
      <4> QED  BY <4>1, <4>2
    <3> QED  BY <3>1, <3>2
  <2>2. SettledSoFar /\ TakenOnce
    BY <1>1 DEF LongInv, Owned
  <2>3. \A s, t \in taken : s[1] = t[1] => s = t
    BY <2>2, Zenon DEF TakenOnce
  <2> QED  BY <2>1, <2>2, <2>3, Zenon DEF SettledSoFar, EachInputTakenOnce
<1> QED  BY <1>1, LongInvariant, PTL

(***************************************************************************)
(* A step that is repeated asks for exactly what it asked before: no call  *)
(* comes back with a conflict (invoke's keys, the Execution's spec).       *)
(***************************************************************************)
THEOREM StepsAgreeHolds == Spec => []StepsAgree
<1>1. ASSUME LongInv PROVE StepsAgree
  <2> SUFFICES ASSUME NEW i \in Run, NEW r, r = runs[i],
                      NEW x, NEW a, NEW m, NEW e, NEW c, x = executions[i], a = audits[i],
                      m = calls[<<i, "manager">>], e = calls[<<i, "executor">>],
                      c = calls[<<i, "auditor">>]
               PROVE  /\ r.phase = "Planning" /\ Names(m, r.round) =>
                           /\ m.request = PlanRequest(r)
                           /\ Names(x, r.round) => x.version = WithContract(r, m.result).version
                      /\ x # None /\ Names(e, x.round) /\ ~x.reported
                           => e.request = AsWork("executor", x, r)
                      /\ a # None /\ Names(c, a.round) /\ ~a.reported
                           => c.request = AsWork("auditor", a, r)
    BY DEF StepsAgree, Issued, Worker, Child, WorkRequest, AsWork
  <2>1. r \in RunType /\ Family(x, a, m, e, c) /\ Fits(r, x, a, m, e, c)
    BY <1>1, FitsOf
  <2>2. x # None /\ ~x.reported => Names(x, r.round) /\ x.round = r.round
    BY <2>1 DEF Fits, ChildFits, Names, RunType, Family, ExecutionType
  <2>3. a # None /\ ~a.reported => Names(a, r.round) /\ a.round = r.round
    BY <2>1 DEF Fits, ChildFits, Names, RunType, Family, AuditType
  <2> QED  BY <2>1, <2>2, <2>3 DEF Fits, PhaseFits, ChildFits
<1> QED  BY <1>1, LongInvariant, PTL

(***************************************************************************)
(* Executor and auditor of a Run never work together, nor in a round its   *)
(* status has left (observeExecution, observeAudit).                       *)
(***************************************************************************)
THEOREM WorkspaceAtRestHolds == Spec => []WorkspaceAtRest
<1>1. ASSUME LongInv PROVE WorkspaceAtRest
  <2> SUFFICES ASSUME NEW i \in Run
               PROVE  /\ ~(Running(i, "executor") /\ Running(i, "auditor"))
                      /\ \A w \in Worker : Running(i, w) => calls[<<i, w>>].round = runs[i].round
    BY DEF WorkspaceAtRest
  <2>1. PICK r, x, a, m, e, c :
          /\ r = runs[i] /\ x = executions[i] /\ a = audits[i]
          /\ m = calls[<<i, "manager">>] /\ e = calls[<<i, "executor">>]
          /\ c = calls[<<i, "auditor">>]
    OBVIOUS
  <2>2. r \in RunType /\ Family(x, a, m, e, c) /\ Fits(r, x, a, m, e, c)
    BY <1>1, <2>1, FitsOf
  <2>3. Running(i, "executor") => e.round = r.round /\ Names(x, r.round) /\ ~x.reported
    BY <2>1, <2>2 DEF Fits, ChildFits, Names, RunType, Family, ExecutionType, Running
  <2>4. Running(i, "auditor") => c.round = r.round /\ Names(a, r.round)
    BY <2>1, <2>2 DEF Fits, ChildFits, Names, RunType, Family, AuditType, Running
  <2>5. Names(a, r.round) => x.reported
    BY <2>2 DEF Fits, PhaseFits
  <2> QED  BY <2>1, <2>3, <2>4, <2>5 DEF Worker
<1> QED  BY <1>1, LongInvariant, PTL

(***************************************************************************)
(* A Run that succeeds was audited as it stands: with the current contract,*)
(* by an auditor told all its guidance, and nothing executed since (canFinish).*)
(***************************************************************************)
THEOREM DoneIsAuditedHolds == Spec => []DoneIsAudited
<1>1. ASSUME LongInv PROVE DoneIsAudited
  <2> SUFFICES ASSUME NEW i \in Run, NEW r, r = runs[i], r.phase = "Succeeded",
                      NEW e, e = calls[<<i, "executor">>]
               PROVE  /\ r.last # None /\ r.last.complete /\ r.last.version = r.version
                      /\ r.last.told = r.guidance /\ Names(e, r.last.round)
    BY DEF DoneIsAudited, Issued
  <2>1. PICK x : x = executions[i] /\ LastFits(r, x, e)
    BY <1>1 DEF LongInv, RoundInv, FitsAt, Fits
  <2> QED  BY <2>1 DEF LastFits, Done
<1> QED  BY <1>1, LongInvariant, PTL

=============================================================================
