-------------------------- MODULE HarnessRunProofs --------------------------
(***************************************************************************)
(* What holds of a Harness run for any replicas, any harness and any       *)
(* number of faults: the safety properties of HarnessRun as theorems.      *)
(***************************************************************************)
EXTENDS HarnessRun, SequenceTheorems, TLAPS

\* An accepted run starts well-typed.
LEMMA InitTypeOK == Init => TypeOK
<1> SUFFICES ASSUME Init PROVE TypeOK
  OBVIOUS
<1>1. run \in Run
  BY HarnessAssumption DEF Init, NewRun, Run, Open, Output
<1>2. msg \in Message
  BY DEF Init, NewMessage, Message
<1>3. saw \in [Process -> View]
  BY DEF Init, NoView, View, Open, Output
<1>4. pc \in [Process -> Step]
  BY DEF Init, Step
<1>5. /\ seen \in [Process -> Seq(Output)]
      /\ ref \in [Process -> Ref]
      /\ want \in [Process -> Ended]
  BY HarnessAssumption DEF Init, Ended
<1>6. owner \in Process \cup {Nobody, Orphan} /\ lapsed \in BOOLEAN
  BY DEF Init, L!LeaseInit
<1>7. faults \in 0..MaxFaults /\ prompts \in Nat
  BY HarnessBounds DEF Init
<1>8. deadline \in {"ahead", "disputed", "passed"} /\ delayed \in BOOLEAN
  BY DEF Init
<1> QED
  BY <1>1, <1>2, <1>3, <1>4, <1>5, <1>6, <1>7, <1>8 DEF TypeOK

\* A call that returns leaves well-typed local variables.
LEMMA LeaveType ==
  ASSUME TypeOK, NEW p \in Process, Leave(p)
  PROVE  /\ pc' \in [Process -> Step]
         /\ saw' \in [Process -> View]
         /\ seen' \in [Process -> Seq(Output)]
         /\ ref' \in [Process -> Ref]
         /\ want' \in [Process -> Ended]
<1>1. NoView \in View
  BY DEF NoView, View, Open
<1>2. saw' \in [Process -> View]
  BY <1>1 DEF Leave, TypeOK
<1> QED
  BY <1>2, HarnessAssumption DEF Leave, TypeOK, Goto, Step, Ended

\* Every step of a driver, a maintainer or the environment keeps the types.
\* finishError never asks for a success.
LEMMA ErrorEnds == AdapterEnds \cup StopReasons \subseteq Ended \ {"succeeded"}
  BY HarnessAssumption DEF StopReasons, Ended

LEMMA NextTypeOK == TypeOK /\ [Next]_vars => TypeOK'
<1> SUFFICES ASSUME TypeOK, [Next]_vars PROVE TypeOK'
  OBVIOUS
<1> USE DEF TypeOK, rows, clocks, lease, local, Goto, GotoFinish, Denied
<1>1. ASSUME NEW d \in Driver, Start(d) PROVE TypeOK'
  <2>1. CASE Denied(d)
    BY <1>1, <2>1 DEF Start, Step, Process
  <2>2. CASE ~Denied(d)
    <3> DEFINE view == [phase |-> run.phase, checkpoint |-> run.checkpoint,
                        replayHash |-> run.replayHash]
    <3>1. view \in View
      BY <1>1, <2>2 DEF Start, FencedOpen, Terminal, Run, View, Open, Ended
    <3>2. saw' \in [Process -> View]
      BY <1>1, <2>2, <3>1 DEF Start, Process
    <3>3. run' \in Run
      BY <1>1, <2>2 DEF Start, Run, Open
    <3>4. pc' \in [Process -> Step] /\ want' \in [Process -> Ended]
      BY <1>1, <2>2 DEF Start, Step, Ended, Process
    <3> QED
      BY <1>1, <2>2, <3>2, <3>3, <3>4 DEF Start
  <2> QED
    BY <2>1, <2>2
<1>2. ASSUME NEW d \in Driver, Prompt(d) PROVE TypeOK'
  <2>1. CASE Connected(d)
    BY <1>2, <2>1 DEF Prompt, Connected, Step, Process
  <2>2. CASE AdapterError(d) /\ UNCHANGED ref
    <3>1. pc' \in [Process -> Step] /\ want' \in [Process -> Ended]
      BY <2>2, ErrorEnds DEF AdapterError, Step, Process
    <3> QED
      BY <1>2, <2>2, <3>1 DEF Prompt
  <2> QED
    BY <1>2, <2>1, <2>2 DEF Prompt
<1>3. ASSUME NEW d \in Driver, Resume(d) PROVE TypeOK'
  <2>1. CASE AdapterError(d) /\ UNCHANGED ref
    <3>1. pc' \in [Process -> Step] /\ want' \in [Process -> Ended]
      BY <2>1, ErrorEnds DEF AdapterError, Step, Process
    <3> QED
      BY <1>3, <2>1, <3>1 DEF Resume
  <2>2. CASE ~(AdapterError(d) /\ UNCHANGED ref)
    BY <1>3, <2>2 DEF Resume, Connected, Step, Ended, Process
  <2> QED
    BY <2>1, <2>2
<1>4. ASSUME NEW d \in Driver, Bind(d) PROVE TypeOK'
  BY <1>4 DEF Bind, Run, Step, Open, Ended, Process
<1>5. ASSUME NEW d \in Driver, NEW e \in Output, Replay(d, e) PROVE TypeOK'
  <2>1. seen' \in [Process -> Seq(Output)]
    BY <1>5 DEF Replay, Process
  <2>2. pc' \in [Process -> Step] /\ want' \in [Process -> Ended]
    BY <1>5 DEF Replay, Step, Ended, Process
  <2> QED
    BY <1>5, <2>1, <2>2 DEF Replay
<1>6. ASSUME NEW d \in Driver, NEW e \in Output, AppendOutput(d, e) PROVE TypeOK'
  <2>1. CASE Denied(d)
    BY <1>6, <2>1 DEF AppendOutput, Step, Process
  <2>2. CASE Accepted(d, e)
    <3>1. seen[d] \in Seq(Output) /\ Append(seen[d], e) \in Seq(Output)
      BY DEF Process
    <3>2. seen' \in [Process -> Seq(Output)]
      BY <2>2, <3>1 DEF Accepted
    <3>3. CASE AppendAnswer(d, e) = "ok"
      <4>1. e \in Event
        BY <3>3 DEF AppendAnswer, Output
      <4>2. msg.blocks \in Seq(Event) /\ msg.revision \in Nat
        BY DEF Message
      <4>3. Append(msg.blocks, e) \in Seq(Event)
        BY <4>1, <4>2
      <4>4. msg' \in Message
        <5>1. msg' = [msg EXCEPT !.blocks = Append(msg.blocks, e),
                                 !.revision = msg.revision + 1]
          BY <2>2, <3>3 DEF Accepted, ProjectEvent
        <5>2. msg.revision + 1 \in Nat
          BY <4>2
        <5> QED
          BY <4>3, <5>1, <5>2 DEF Message
      <4>5. Len(seen[d]) + 1 \in Nat
        BY <3>1, LenProperties
      <4>6. run' \in Run
        BY <2>2, <3>1, <3>3, <4>5 DEF Accepted, Run
      <4> QED
        BY <1>6, <2>2, <3>2, <4>4, <4>6 DEF AppendOutput, Accepted
    <3>4. CASE AppendAnswer(d, e) # "ok"
      BY <1>6, <2>2, <3>2, <3>4 DEF AppendOutput, Accepted
    <3> QED
      BY <3>3, <3>4
  <2>3. CASE Rejected(d, e)
    BY <1>6, <2>3 DEF AppendOutput, Rejected, Step, Ended, Process
  <2> QED
    BY <1>6, <2>1, <2>2, <2>3 DEF AppendOutput
<1>7. ASSUME NEW d \in Driver, ObservationStops(d) PROVE TypeOK'
  BY <1>7 DEF ObservationStops, StopReasons, Step, Ended, Process
<1>8. ASSUME NEW d \in Driver, StreamEnds(d) PROVE TypeOK'
  <2>1. pc' \in [Process -> Step] /\ want' \in [Process -> Ended]
    <3>1. CASE AdapterError(d)
      BY <3>1, ErrorEnds DEF AdapterError, Step, Process
    <3>2. CASE ~AdapterError(d)
      BY <1>8, <3>2 DEF StreamEnds, Step, Ended, Process
    <3> QED
      BY <3>1, <3>2
  <2> QED
    BY <1>8, <2>1 DEF StreamEnds
<1>9. ASSUME NEW d \in Driver, Retry(d) PROVE TypeOK'
  BY <1>9 DEF Retry, Step, Process
<1>10. ASSUME NEW m \in Maintainer, Recheck(m) PROVE TypeOK'
  BY <1>10 DEF Recheck, Step, Ended, Process
<1>11. ASSUME NEW p \in Process, Scan(p) PROVE TypeOK'
  BY <1>11 DEF Scan, Step
<1>12. ASSUME NEW p \in Process, Lock(p) PROVE TypeOK'
  BY <1>12 DEF Lock, Step, L!Acquire
<1>13. ASSUME NEW p \in Process, Finish(p) PROVE TypeOK'
  <2>1. CASE Denied(p)
    BY <1>13, <2>1 DEF Finish, Step
  <2>2. CASE ~Denied(p)
    <3>1. PICK due \in Overdue : /\ run' = [run EXCEPT !.phase = Verdict(want[p], due)]
                                /\ EndMessage(Verdict(want[p], due))
      BY <1>13, <2>2 DEF Finish
    <3>2. Verdict(want[p], due) \in Ended
      BY DEF Verdict, Ended
    <3>3. run' \in Run
      BY <3>1, <3>2 DEF Run
    <3>4. StatusOf(Verdict(want[p], due)) \in {"completed", "failed", "cancelled"}
      BY DEF StatusOf
    <3>5. msg.revision + 2 \in Nat
      BY DEF Message
    <3>6. msg' \in Message
      BY <3>1, <3>4, <3>5 DEF EndMessage, Message
    <3> QED
      BY <1>13, <2>2, <3>3, <3>6 DEF Finish, Step
  <2> QED
    BY <2>1, <2>2
<1>14. ASSUME NEW p \in Process, Unlock(p) PROVE TypeOK'
  BY <1>14, LeaveType DEF Unlock, L!Release
<1>15. ASSUME NEW p \in Process, Renew(p) PROVE TypeOK'
  BY <1>15 DEF Renew, L!Renew
<1>16. ASSUME NEW p \in Process, GiveUp(p) PROVE TypeOK'
  BY <1>16, HarnessBounds DEF GiveUp, Fault, Step
<1>17. ASSUME NEW p \in Process, Crash(p) PROVE TypeOK'
  BY <1>17, LeaveType, HarnessBounds DEF Crash, Fault, L!Abandon
<1>18. CASE Cancel
  BY <1>18 DEF Cancel, Run
<1>19. CASE LeaseLapses
  BY <1>19, HarnessBounds DEF LeaseLapses, Fault, L!Lapse
<1>20. CASE Time
  BY <1>20 DEF Time, OrphanLapses, DeadlineNears, DelayPasses, L!Lapse
<1>21. CASE UNCHANGED vars
  BY <1>21 DEF vars
<1> QED
  BY <1>1, <1>2, <1>3, <1>4, <1>5, <1>6, <1>7, <1>8, <1>9, <1>10, <1>11, <1>12,
     <1>13, <1>14, <1>15, <1>16, <1>17, <1>18, <1>19, <1>20, <1>21
  DEF Next, DriverStep, ProcessStep

(***************************************************************************)
(* Every variable of the run, its message, its lease and its processes     *)
(* keeps its type in every reachable state.                                *)
(***************************************************************************)
THEOREM TypeCorrect == Spec => []TypeOK
  BY InitTypeOK, NextTypeOK, PTL DEF Spec

-----------------------------------------------------------------------------
(***************************************************************************)
(* How the two rows change: every write but the cancel request is one of   *)
(* four transactions of the process that owns the lease of an open run.    *)
(***************************************************************************)
WriteStarting(p) ==
  /\ pc[p] = "locked"
  /\ run' = [run EXCEPT !.phase = "starting"]
  /\ msg' = msg

WriteRunning(p) ==
  /\ pc[p] = "bind"
  /\ run' = [run EXCEPT !.executionRef = ref[p], !.phase = "running"]
  /\ msg' = msg

WriteOutput(p) ==
  /\ pc[p] = "observe"
  /\ ~run.cancelRequested
  /\ Len(seen[p]) >= saw[p].checkpoint
  /\ \E e \in Event :
       /\ msg' = ProjectEvent(msg, e)
       /\ run' = [run EXCEPT !.checkpoint = Len(seen[p]) + 1,
                             !.replayHash = Append(seen[p], e)]
       /\ seen' = [seen EXCEPT ![p] = Append(seen[p], e)]

WriteEnd(p) ==
  /\ pc[p] = "finish"
  /\ \E due \in Overdue :
       /\ run' = [run EXCEPT !.phase = Verdict(want[p], due)]
       /\ EndMessage(Verdict(want[p], due))

OwnerWrites(p) ==
  /\ FencedOpen(p)
  /\ owner' = owner
  /\ WriteStarting(p) \/ WriteRunning(p) \/ WriteOutput(p) \/ WriteEnd(p)

\* What a step can do to the rows: nothing, a cancel request, or one of the
\* four writes of the process that owns the lease.
LEMMA RowSteps ==
  ASSUME TypeOK, [Next]_vars
  PROVE  UNCHANGED rows \/ Cancel \/ \E p \in Process : OwnerWrites(p)
<1> USE DEF lease
<1>1. ASSUME NEW d \in Driver, DriverStep(d)
      PROVE  UNCHANGED rows \/ OwnerWrites(d)
  <2>1. CASE Start(d)
    BY <2>1 DEF Start, Denied, OwnerWrites, WriteStarting
  <2>2. CASE Prompt(d) \/ Resume(d) \/ ObservationStops(d) \/ StreamEnds(d)
    BY <2>2 DEF Prompt, Resume, ObservationStops, StreamEnds, rows
  <2>3. CASE Bind(d)
    BY <2>3 DEF Bind, Denied, OwnerWrites, WriteRunning
  <2>4. ASSUME NEW e \in Output, Replay(d, e) PROVE UNCHANGED rows
    BY <2>4 DEF Replay
  <2>5. ASSUME NEW e \in Output, AppendOutput(d, e)
        PROVE  UNCHANGED rows \/ OwnerWrites(d)
    <3>1. CASE Denied(d) \/ Rejected(d, e)
      BY <3>1 DEF Denied, Rejected
    <3>2. CASE Accepted(d, e) /\ AppendAnswer(d, e) # "ok"
      BY <3>2 DEF Accepted
    <3>3. CASE Accepted(d, e) /\ AppendAnswer(d, e) = "ok"
      <4>1. e \in Event /\ ~run.cancelRequested
        BY <3>3 DEF AppendAnswer, Output
      <4>2. WriteOutput(d)
        BY <2>5, <3>3, <4>1 DEF AppendOutput, Accepted, WriteOutput
      <4> QED
        BY <2>5, <3>3, <4>2 DEF AppendOutput, Accepted, OwnerWrites
    <3> QED
      BY <2>5, <3>1, <3>2, <3>3 DEF AppendOutput
  <2>6. CASE Retry(d)
    BY <2>6 DEF Retry, Denied
  <2> QED
    BY <1>1, <2>1, <2>2, <2>3, <2>4, <2>5, <2>6 DEF DriverStep
<1>2. ASSUME NEW p \in Process, ProcessStep(p)
      PROVE  UNCHANGED rows \/ OwnerWrites(p)
  <2>1. CASE Finish(p)
    BY <2>1 DEF Finish, Denied, OwnerWrites, WriteEnd
  <2>2. CASE Scan(p) \/ Lock(p) \/ Unlock(p)
    BY <2>2 DEF Scan, Lock, Unlock
  <2> QED
    BY <1>2, <2>1, <2>2 DEF ProcessStep
<1>3. ASSUME NEW m \in Maintainer, Recheck(m) PROVE UNCHANGED rows
  BY <1>3 DEF Recheck
<1>4. ASSUME NEW p \in Process, Renew(p) \/ GiveUp(p) \/ Crash(p) PROVE UNCHANGED rows
  BY <1>4 DEF Renew, GiveUp, Crash
<1>5. CASE LeaseLapses \/ Time
  BY <1>5 DEF LeaseLapses, Time, OrphanLapses, DeadlineNears, DelayPasses
<1>6. CASE UNCHANGED vars
  BY <1>6 DEF vars, rows
<1> QED
  BY <1>1, <1>2, <1>3, <1>4, <1>5, <1>6 DEF Next, Process

\* StartHarnessRun and BindHarnessExecution leave the output alone.
LEMMA OpenWrites ==
  ASSUME TypeOK, NEW p \in Process, WriteStarting(p) \/ WriteRunning(p)
  PROVE  /\ msg' = msg
         /\ run'.phase \in {"starting", "running"}
         /\ run'.checkpoint = run.checkpoint
         /\ run'.replayHash = run.replayHash
<1>1. CASE WriteStarting(p)
  BY <1>1 DEF WriteStarting, TypeOK, Run
<1>2. CASE WriteRunning(p)
  BY <1>2 DEF WriteRunning, TypeOK, Run
<1> QED
  BY <1>1, <1>2

-----------------------------------------------------------------------------

\* Only FinishHarnessRun touches what EndsTogether relates, and it writes both rows.
LEMMA NextEndsTogether == TypeOK /\ EndsTogether /\ [Next]_vars => EndsTogether'
<1> SUFFICES ASSUME TypeOK, EndsTogether, [Next]_vars PROVE EndsTogether'
  OBVIOUS
<1> USE DEF EndsTogether, Terminal
<1>1. CASE UNCHANGED rows
  BY <1>1 DEF rows, StatusOf
<1>2. CASE Cancel
  BY <1>2 DEF Cancel, TypeOK, Run, StatusOf
<1>3. ASSUME NEW p \in Process, OwnerWrites(p) PROVE EndsTogether'
  <2>1. CASE WriteStarting(p) \/ WriteRunning(p)
    <3>1. msg' = msg /\ run'.phase \in {"starting", "running"}
      BY <2>1, OpenWrites
    <3>2. msg.status = "streaming" /\ ~msg.result
      BY <1>3 DEF OwnerWrites, FencedOpen, Ended, TypeOK, Message
    <3> QED
      BY <3>1, <3>2 DEF Ended
  <2>2. CASE WriteOutput(p)
    <3>1. run'.phase = run.phase
      BY <2>2 DEF WriteOutput, TypeOK, Run
    <3>2. msg'.status = msg.status /\ msg'.result = msg.result
      BY <2>2 DEF WriteOutput, ProjectEvent, TypeOK, Message
    <3> QED
      BY <3>1, <3>2 DEF StatusOf
  <2>3. CASE WriteEnd(p)
    <3>1. PICK due \in Overdue : /\ run' = [run EXCEPT !.phase = Verdict(want[p], due)]
                                /\ EndMessage(Verdict(want[p], due))
      BY <2>3 DEF WriteEnd
    <3> DEFINE phase == Verdict(want[p], due)
    <3>2. phase \in Ended
      BY DEF Verdict, Ended, TypeOK
    <3>3. run'.phase = phase /\ msg'.status = StatusOf(phase) /\ msg'.result = (phase = "succeeded")
      BY <3>1 DEF EndMessage, TypeOK, Run, Message
    <3>4. StatusOf(phase) # "streaming"
      BY DEF StatusOf
    <3> QED
      BY <3>2, <3>3, <3>4
  <2> QED
    BY <1>3, <2>1, <2>2, <2>3 DEF OwnerWrites
<1> QED
  BY <1>1, <1>2, <1>3, RowSteps

(***************************************************************************)
(* The run and its message reach their terminal states in one step, the    *)
(* status is the phase's, and a success has its result block.              *)
(***************************************************************************)
THEOREM EndsTogetherHolds == Spec => []EndsTogether
<1>1. Init => EndsTogether
  BY DEF Init, EndsTogether, NewRun, NewMessage, Terminal, Ended
<1> QED
  BY <1>1, NextEndsTogether, TypeCorrect, PTL DEF Spec

(***************************************************************************)
(* No step changes an ended run or its message.                            *)
(***************************************************************************)
THEOREM EndIsFinalHolds == Spec => EndIsFinal
<1>1. ASSUME TypeOK, [Next]_vars, Terminal PROVE UNCHANGED rows
  BY <1>1, RowSteps DEF OwnerWrites, FencedOpen, Cancel
<1>2. TypeOK /\ [Next]_vars => [Terminal => UNCHANGED rows]_vars
  BY <1>1
<1> QED
  BY <1>2, TypeCorrect, PTL DEF Spec, EndIsFinal

(***************************************************************************)
(* Only the process that owns the lease, and keeps it across the step,     *)
(* changes the message, the phase or the checkpoint.                       *)
(***************************************************************************)
THEOREM RowsChangeUnderLeaseHolds == Spec => RowsChangeUnderLease
<1> DEFINE Changed == msg' # msg \/ run'.phase # run.phase \/ run'.checkpoint # run.checkpoint
           ByOwner == /\ owner \in Process /\ owner' = owner
                      /\ pc[owner] \in {"locked", "bind", "observe", "finish"}
<1>1. ASSUME TypeOK, [Next]_vars, Changed PROVE ByOwner
  <2>1. ~UNCHANGED rows
    BY <1>1 DEF rows
  <2>2. ~Cancel
    BY <1>1 DEF Cancel, TypeOK, Run
  <2>3. PICK p \in Process : OwnerWrites(p)
    BY <1>1, <2>1, <2>2, RowSteps
  <2> QED
    BY <2>3 DEF OwnerWrites, FencedOpen, Fence, WriteStarting, WriteRunning, WriteOutput, WriteEnd
<1>2. TypeOK /\ [Next]_vars => [Changed => ByOwner]_vars
  BY <1>1
<1> QED
  BY <1>2, TypeCorrect, PTL DEF Spec, RowsChangeUnderLease

(***************************************************************************)
(* After an accepted cancel request no output is added, and the only       *)
(* terminal phase the run can reach is cancelled.                          *)
(***************************************************************************)
THEOREM CancelWinsHolds == Spec => CancelWins
<1> DEFINE Won == /\ msg'.blocks = msg.blocks
                  /\ run'.phase \in {run.phase, "starting", "running", "cancelled"}
<1>1. ASSUME TypeOK, [Next]_vars, run.cancelRequested PROVE Won
  <2>1. CASE UNCHANGED rows
    BY <2>1 DEF rows
  <2>2. CASE Cancel
    BY <1>1, <2>2 DEF Cancel
  <2>3. ASSUME NEW p \in Process, OwnerWrites(p) PROVE Won
    <3>1. CASE WriteStarting(p) \/ WriteRunning(p)
      BY <1>1, <3>1, OpenWrites
    <3>2. ~WriteOutput(p)
      BY <1>1 DEF WriteOutput
    <3>3. CASE WriteEnd(p)
      <4>1. PICK due \in Overdue : /\ run' = [run EXCEPT !.phase = Verdict(want[p], due)]
                                  /\ EndMessage(Verdict(want[p], due))
        BY <3>3 DEF WriteEnd
      <4>2. Verdict(want[p], due) = "cancelled"
        BY <1>1 DEF Verdict, TypeOK, Run
      <4>3. run'.phase = "cancelled"
        BY <4>1, <4>2 DEF TypeOK, Run
      <4>4. msg'.blocks = msg.blocks
        BY <4>1 DEF EndMessage, TypeOK, Message
      <4> QED
        BY <4>3, <4>4
    <3> QED
      BY <2>3, <3>1, <3>2, <3>3 DEF OwnerWrites
  <2> QED
    BY <1>1, <2>1, <2>2, <2>3, RowSteps
<1>2. TypeOK /\ [Next]_vars => [run.cancelRequested => Won]_vars
  BY <1>1
<1> QED
  BY <1>2, TypeCorrect, PTL DEF Spec, CancelWins

-----------------------------------------------------------------------------
\* OutputInv: the owner's observation agrees with the persisted prefix.

\* An accepted run has no output and nobody observes it.
LEMMA InitOutputInv == Init => OutputInv
  BY DEF Init, OutputInv, OutputExactlyOnce, FreshObservation, OwnerInStep,
         NewRun, NewMessage, Terminal, Ended, L!LeaseInit

\* The owner appends to the message exactly what it appends to the replay hash.
LEMMA NextOutputExactlyOnce ==
  ASSUME TypeOK, EndsTogether, OutputInv, [Next]_vars
  PROVE  OutputExactlyOnce'
<1> USE DEF OutputExactlyOnce, Terminal
<1>1. CASE UNCHANGED rows
  BY <1>1 DEF rows, OutputInv
<1>2. CASE Cancel
  BY <1>2 DEF Cancel, OutputInv, TypeOK, Run
<1>3. ASSUME NEW p \in Process, OwnerWrites(p) PROVE OutputExactlyOnce'
  <2>1. CASE WriteStarting(p) \/ WriteRunning(p)
    BY <1>3, <2>1, OpenWrites DEF OwnerWrites, FencedOpen, OutputInv
  <2>2. CASE WriteOutput(p)
    <3>1. seen[p] = run.replayHash
      BY <1>3, <2>2 DEF OwnerWrites, FencedOpen, Fence, WriteOutput, OutputInv, OwnerInStep, InStep
    <3>2. PICK e \in Event :
            /\ msg' = ProjectEvent(msg, e)
            /\ run' = [run EXCEPT !.checkpoint = Len(seen[p]) + 1,
                                  !.replayHash = Append(seen[p], e)]
      BY <2>2 DEF WriteOutput
    <3>3. msg.blocks \in Seq(Event) /\ msg.revision \in Nat
      BY DEF TypeOK, Message
    <3>4. msg'.blocks = Append(msg.blocks, e) /\ msg'.revision = msg.revision + 1
      BY <3>2 DEF ProjectEvent, TypeOK, Message
    <3>5. /\ run'.checkpoint = Len(msg.blocks) + 1
          /\ run'.replayHash = Append(msg.blocks, e)
          /\ run'.phase = run.phase
      BY <3>1, <3>2 DEF OutputInv, TypeOK, Run
    <3>6. Len(Append(msg.blocks, e)) = Len(msg.blocks) + 1
      BY <3>3
    <3>7. ~Terminal /\ msg.revision = Len(msg.blocks) + 1
      BY <1>3 DEF OwnerWrites, FencedOpen, OutputInv
    <3> QED
      BY <3>3, <3>4, <3>5, <3>6, <3>7
  <2>3. CASE WriteEnd(p)
    <3>1. PICK due \in Overdue : /\ run' = [run EXCEPT !.phase = Verdict(want[p], due)]
                                /\ EndMessage(Verdict(want[p], due))
      BY <2>3 DEF WriteEnd
    <3>2. Verdict(want[p], due) \in Ended
      BY DEF Verdict, Ended, TypeOK
    <3>3. run'.phase \in Ended /\ run'.checkpoint = run.checkpoint /\ run'.replayHash = run.replayHash
      BY <3>1, <3>2 DEF TypeOK, Run
    <3>4. msg'.blocks = msg.blocks
      BY <3>1 DEF EndMessage, TypeOK, Message
    <3> QED
      BY <3>3, <3>4 DEF OutputInv
  <2> QED
    BY <1>3, <2>1, <2>2, <2>3 DEF OwnerWrites
<1> QED
  BY <1>1, <1>2, <1>3, RowSteps

\* A driver receives events only after Bind, and a call that returns forgets them.
LEMMA NextFreshObservation ==
  ASSUME TypeOK, OutputInv, [Next]_vars
  PROVE  FreshObservation'
<1> USE DEF FreshObservation, Goto, GotoFinish, local, TypeOK
<1>0. FreshObservation
  BY DEF OutputInv
<1>1. ASSUME NEW d \in Driver, DriverStep(d) PROVE FreshObservation'
  <2>1. CASE Start(d) \/ Prompt(d) \/ Resume(d) \/ Bind(d)
    BY <1>0, <2>1 DEF Start, Prompt, Resume, Bind, Denied, Connected, AdapterError, Process
  <2>2. ASSUME NEW e \in Output, Replay(d, e) PROVE FreshObservation'
    BY <1>0, <2>2 DEF Replay, Process
  <2>3. ASSUME NEW e \in Output, AppendOutput(d, e) PROVE FreshObservation'
    BY <1>0, <2>3 DEF AppendOutput, Denied, Accepted, Rejected, Process
  <2>4. CASE ObservationStops(d) \/ StreamEnds(d) \/ Retry(d)
    BY <1>0, <2>4 DEF ObservationStops, StreamEnds, AdapterError, Retry, Denied, Process
  <2> QED
    BY <1>1, <2>1, <2>2, <2>3, <2>4 DEF DriverStep
<1>2. ASSUME NEW p \in Process, ProcessStep(p) PROVE FreshObservation'
  <2>1. CASE Scan(p) \/ Lock(p) \/ Finish(p)
    BY <1>0, <2>1 DEF Scan, Lock, Finish, Denied
  <2>2. CASE Unlock(p)
    BY <1>0, <2>2 DEF Unlock, Leave
  <2> QED
    BY <1>2, <2>1, <2>2 DEF ProcessStep
<1>3. ASSUME NEW m \in Maintainer, Recheck(m) PROVE FreshObservation'
  BY <1>0, <1>3 DEF Recheck, Process
<1>4. ASSUME NEW p \in Process, Renew(p) \/ GiveUp(p) PROVE FreshObservation'
  BY <1>0, <1>4 DEF Renew, GiveUp
<1>5. ASSUME NEW p \in Process, Crash(p) PROVE FreshObservation'
  BY <1>0, <1>5 DEF Crash, Leave
<1>6. CASE Cancel \/ LeaseLapses \/ Time
  BY <1>0, <1>6 DEF Cancel, LeaseLapses, Time, OrphanLapses, DeadlineNears, DelayPasses
<1>7. CASE UNCHANGED vars
  BY <1>0, <1>7 DEF vars
<1> QED
  BY <1>1, <1>2, <1>3, <1>4, <1>5, <1>6, <1>7 DEF Next

\* The owner stays in step: nobody else writes, and a new owner reads the row first.
LEMMA NextOwnerInStep ==
  ASSUME TypeOK, OutputInv, [Next]_vars
  PROVE  OwnerInStep'
<1> USE DEF OwnerInStep, InStep, Goto, GotoFinish, rows, lease, local, TypeOK
<1>0. OwnerInStep
  BY DEF OutputInv
<1>1. ASSUME NEW d \in Driver, DriverStep(d) PROVE OwnerInStep'
  <2>1. CASE Start(d)
    BY <1>0, <2>1 DEF Start, Denied, FencedOpen, Fence, OutputInv, OutputExactlyOnce, FreshObservation, Process, Run
  <2>2. CASE Prompt(d) \/ Resume(d)
    BY <1>0, <2>2, ErrorEnds DEF Prompt, Resume, Connected, AdapterError, Process
  <2>3. CASE Bind(d)
    BY <1>0, <2>3 DEF Bind, Denied, FencedOpen, Fence, Process, Run
  <2>4. ASSUME NEW e \in Output, Replay(d, e) PROVE OwnerInStep'
    <3>1. d \in Process /\ seen[d] \in Seq(Output) /\ seen'[d] = Append(seen[d], e)
      BY <2>4 DEF Replay, Process
    <3>2. Len(seen'[d]) = Len(seen[d]) + 1
      BY <3>1
    <3>3. /\ saw' = saw /\ run' = run /\ owner' = owner
          /\ \A q \in Process \ {d} : pc'[q] = pc[q] /\ want'[q] = want[q] /\ seen'[q] = seen[q]
      BY <2>4 DEF Replay
    <3>4. SUFFICES ASSUME owner = d
                   PROVE  /\ pc'[d] \in {"call", "bind", "observe"} => InStep(d)'
                          /\ ~(pc'[d] = "finish" /\ want'[d] = "succeeded")
      BY <1>0, <3>3
    <3>5. saw[d].checkpoint = run.checkpoint /\ saw[d].replayHash = run.replayHash
      BY <1>0, <2>4, <3>1, <3>4 DEF Replay
    <3>6. saw[d].checkpoint \in Nat /\ Len(seen[d]) \in Nat
      BY <3>1 DEF View
    <3>7. CASE pc' = pc
      <4>1. pc'[d] = "observe"
        BY <2>4, <3>7 DEF Replay
      <4>2. Len(seen'[d]) = saw[d].checkpoint => seen'[d] = saw[d].replayHash
        BY <2>4, <3>1, <3>2, <4>1 DEF Replay
      <4>3. Len(seen'[d]) <= saw[d].checkpoint
        BY <2>4, <3>2, <3>6 DEF Replay
      <4> QED
        BY <3>2, <3>3, <3>5, <3>6, <4>1, <4>2, <4>3
    <3>8. CASE pc'[d] = "finish" /\ want'[d] = "failed"
      BY <3>8
    <3> QED
      BY <2>4, <3>1, <3>7, <3>8 DEF Replay
  <2>5. ASSUME NEW e \in Output, AppendOutput(d, e) PROVE OwnerInStep'
    <3>1. CASE Denied(d)
      BY <1>0, <2>5, <3>1 DEF AppendOutput, Denied, Process
    <3>2. CASE Rejected(d, e)
      BY <1>0, <2>5, <3>2 DEF AppendOutput, Rejected, Process
    <3>3. CASE Accepted(d, e)
      <4>1. d \in Process /\ owner = d /\ owner' = d
        BY <2>5, <3>3 DEF AppendOutput, Accepted, FencedOpen, Fence, Process
      <4>2. seen[d] \in Seq(Output) /\ seen'[d] = Append(seen[d], e)
        BY <3>3, <4>1 DEF Accepted
      <4>3. seen[d] = run.replayHash /\ Len(seen[d]) = run.checkpoint
        BY <1>0, <2>5, <4>1 DEF AppendOutput, OutputInv, OutputExactlyOnce
      <4>4. AppendAnswer(d, e) = "ok"
        BY <3>3, <4>2, <4>3 DEF Accepted, AppendAnswer, Run
      <4>5. run'.replayHash = seen'[d]
        BY <3>3, <4>2, <4>4 DEF Accepted, Run
      <4>6. Len(seen'[d]) >= saw[d].checkpoint
        BY <2>5, <4>1, <4>2 DEF AppendOutput, View
      <4>7. pc' = pc /\ saw' = saw /\ pc[d] = "observe"
        BY <2>5, <3>3 DEF AppendOutput, Accepted
      <4>8. ~(Len(seen'[d]) < saw[d].checkpoint)
        BY <4>1, <4>2, <4>6 DEF View
      <4> QED
        BY <4>1, <4>5, <4>7, <4>8
    <3> QED
      BY <2>5, <3>1, <3>2, <3>3 DEF AppendOutput
  <2>6. CASE ObservationStops(d) \/ StreamEnds(d)
    BY <1>0, <2>6, ErrorEnds DEF ObservationStops, StreamEnds, AdapterError, Process
  <2>7. CASE Retry(d)
    BY <1>0, <2>7 DEF Retry, Denied, Process
  <2> QED
    BY <1>1, <2>1, <2>2, <2>3, <2>4, <2>5, <2>6, <2>7 DEF DriverStep
<1>2. ASSUME NEW p \in Process, ProcessStep(p) PROVE OwnerInStep'
  <2>1. CASE Scan(p)
    BY <1>0, <2>1 DEF Scan
  <2>2. CASE Lock(p)
    BY <1>0, <2>2 DEF Lock, L!Acquire
  <2>3. CASE Finish(p)
    BY <1>0, <2>3 DEF Finish, Denied, Run
  <2>4. CASE Unlock(p)
    BY <1>0, <2>4, ProcessAssumption DEF Unlock, Leave, L!Release
  <2> QED
    BY <1>2, <2>1, <2>2, <2>3, <2>4 DEF ProcessStep
<1>3. ASSUME NEW m \in Maintainer, Recheck(m) PROVE OwnerInStep'
  BY <1>0, <1>3 DEF Recheck, Process
<1>4. ASSUME NEW p \in Process, Renew(p) \/ GiveUp(p) PROVE OwnerInStep'
  BY <1>0, <1>4 DEF Renew, GiveUp, L!Renew
<1>5. ASSUME NEW p \in Process, Crash(p) PROVE OwnerInStep'
  BY <1>0, <1>5, ProcessAssumption DEF Crash, Leave, L!Abandon
<1>6. CASE Cancel
  BY <1>0, <1>6 DEF Cancel, Run
<1>7. CASE LeaseLapses \/ Time
  BY <1>0, <1>7 DEF LeaseLapses, Time, OrphanLapses, DeadlineNears, DelayPasses, L!Lapse
<1>8. CASE UNCHANGED vars
  BY <1>0, <1>8 DEF vars
<1> QED
  BY <1>1, <1>2, <1>3, <1>4, <1>5, <1>6, <1>7, <1>8 DEF Next

\* OutputInv is inductive, given the types and EndsTogether.
LEMMA OutputInvHolds == Spec => []OutputInv
<1>1. TypeOK /\ EndsTogether /\ OutputInv /\ [Next]_vars => OutputInv'
  BY NextOutputExactlyOnce, NextFreshObservation, NextOwnerInStep DEF OutputInv
<1> QED
  BY <1>1, InitOutputInv, TypeCorrect, EndsTogetherHolds, PTL DEF Spec

(***************************************************************************)
(* Exactly-once output through any number of crashes, take-overs and       *)
(* replays, whatever the harness sends.                                    *)
(***************************************************************************)
THEOREM OutputExactlyOnceHolds == Spec => []OutputExactlyOnce
<1>1. OutputInv => OutputExactlyOnce
  BY DEF OutputInv
<1> QED
  BY <1>1, OutputInvHolds, PTL

\* A maintainer never asks for a success.
OnlyDriversSucceed ==
  \A m \in Maintainer : want[m] # "succeeded"

\* Maintain asks FinishHarnessRun for cancelled or timed_out only.
LEMMA OnlyDriversSucceedHolds == Spec => []OnlyDriversSucceed
<1> USE DEF OnlyDriversSucceed
<1>1. Init => OnlyDriversSucceed
  BY DEF Init, Process
<1>2. ASSUME TypeOK, OnlyDriversSucceed, [Next]_vars PROVE OnlyDriversSucceed'
  <2> USE DEF Goto, GotoFinish, local, TypeOK
  <2>1. ASSUME NEW d \in Driver, DriverStep(d) PROVE OnlyDriversSucceed'
    <3> DEFINE Same == want' = want \/ \E w : want' = [want EXCEPT ![d] = w]
    <3>1. Same
      <4>1. CASE Start(d)
        BY <4>1 DEF Start, Denied
      <4>2. ASSUME AdapterError(d) PROVE Same
        BY <4>2 DEF AdapterError
      <4>3. CASE Prompt(d)
        BY <4>2, <4>3 DEF Prompt, Connected
      <4>4. CASE Resume(d)
        BY <4>2, <4>4 DEF Resume, Connected
      <4>5. CASE Bind(d) \/ Retry(d)
        BY <4>5 DEF Bind, Retry, Denied
      <4>6. ASSUME NEW e \in Output, Replay(d, e) PROVE Same
        BY <4>6 DEF Replay
      <4>7. ASSUME NEW e \in Output, AppendOutput(d, e) PROVE Same
        BY <4>7 DEF AppendOutput, Denied, Accepted, Rejected
      <4>8. CASE ObservationStops(d)
        BY <4>8 DEF ObservationStops
      <4>9. CASE StreamEnds(d)
        BY <4>2, <4>9 DEF StreamEnds
      <4> QED
        BY <2>1, <4>1, <4>3, <4>4, <4>5, <4>6, <4>7, <4>8, <4>9 DEF DriverStep
    <3> QED
      BY <1>2, <3>1, ProcessAssumption DEF Process
  <2>2. ASSUME NEW p \in Process, ProcessStep(p) PROVE OnlyDriversSucceed'
    BY <1>2, <2>2 DEF ProcessStep, Scan, Lock, Finish, Denied, Unlock, Leave, Process
  <2>3. ASSUME NEW m \in Maintainer, Recheck(m) PROVE OnlyDriversSucceed'
    BY <1>2, <2>3 DEF Recheck, Process
  <2>4. ASSUME NEW p \in Process, Renew(p) \/ GiveUp(p) \/ Crash(p) PROVE OnlyDriversSucceed'
    BY <1>2, <2>4 DEF Renew, GiveUp, Crash, Leave, Process
  <2>5. CASE Cancel \/ LeaseLapses \/ Time
    BY <1>2, <2>5 DEF Cancel, LeaseLapses, Time, OrphanLapses, DeadlineNears, DelayPasses
  <2>6. CASE UNCHANGED vars
    BY <1>2, <2>6 DEF vars
  <2> QED
    BY <1>2, <2>1, <2>2, <2>3, <2>4, <2>5, <2>6 DEF Next
<1> QED
  BY <1>1, <1>2, TypeCorrect, PTL DEF Spec

\* A row becomes succeeded only when its owner finishes it with a success.
LEMMA SuccessIsAsked ==
  ASSUME TypeOK, [Next]_vars, run.phase # "succeeded", run'.phase = "succeeded"
  PROVE  \E p \in Process : owner = p /\ pc[p] = "finish" /\ want[p] = "succeeded"
<1>1. ~UNCHANGED rows /\ ~Cancel
  BY DEF rows, Cancel, TypeOK, Run
<1>2. PICK p \in Process : OwnerWrites(p)
  BY <1>1, RowSteps
<1>3. ~(WriteStarting(p) \/ WriteRunning(p))
  BY <1>2, OpenWrites
<1>4. ~WriteOutput(p)
  BY DEF WriteOutput, TypeOK, Run
<1>5. WriteEnd(p)
  BY <1>2, <1>3, <1>4 DEF OwnerWrites
<1>6. PICK due \in Overdue : run' = [run EXCEPT !.phase = Verdict(want[p], due)]
  BY <1>5 DEF WriteEnd
<1>7. Verdict(want[p], due) = "succeeded"
  BY <1>6 DEF TypeOK, Run
<1>8. want[p] = "succeeded"
  BY <1>7 DEF Verdict
<1> QED
  BY <1>2, <1>5, <1>8 DEF OwnerWrites, FencedOpen, Fence, WriteEnd

(***************************************************************************)
(* A run succeeds only with the whole output of the observation of the     *)
(* driver that finishes it.                                                *)
(***************************************************************************)
THEOREM SuccessIsOneObservationHolds == Spec => SuccessIsOneObservation
<1> DEFINE Succeeds == run.phase # "succeeded" /\ run'.phase = "succeeded"
           Whole == \E d \in Driver : owner = d /\ msg.blocks = seen[d]
<1>1. ASSUME TypeOK, OutputInv, OnlyDriversSucceed, [Next]_vars, Succeeds PROVE Whole
  <2>1. PICK p \in Process : owner = p /\ pc[p] = "finish" /\ want[p] = "succeeded"
    BY <1>1, SuccessIsAsked
  <2>2. seen[p] = run.replayHash /\ run.replayHash = msg.blocks
    BY <1>1, <2>1 DEF OutputInv, OwnerInStep, OutputExactlyOnce
  <2>3. p \in Driver
    BY <1>1, <2>1 DEF OnlyDriversSucceed, Process
  <2> QED
    BY <2>1, <2>2, <2>3
<1>2. TypeOK /\ OutputInv /\ OnlyDriversSucceed /\ [Next]_vars => [Succeeds => Whole]_vars
  BY <1>1
<1> QED
  BY <1>2, TypeCorrect, OutputInvHolds, OnlyDriversSucceedHolds, PTL
  DEF Spec, SuccessIsOneObservation

-----------------------------------------------------------------------------

\* StartHarnessRun moves the run out of pending before its driver can prompt.
LEMMA NextSolePrompt ==
  ASSUME TypeOK, SolePrompt, [Next]_vars
  PROVE  SolePrompt'
<1> USE DEF SolePrompt, PromptedOnce, Prompting, Goto, GotoFinish, rows, local, TypeOK
<1>1. ASSUME NEW d \in Driver, DriverStep(d) PROVE SolePrompt'
  <2>1. CASE Start(d)
    <3>1. CASE Denied(d)
      BY <2>1, <3>1 DEF Start, Denied, Process
    <3>2. CASE ~Denied(d)
      <4>1. run'.phase = "starting" /\ prompts' = prompts
        BY <2>1, <3>2 DEF Start, Run
      <4>2. saw' = [saw EXCEPT ![d] = [phase |-> run.phase,
                                       checkpoint |-> run.checkpoint,
                                       replayHash |-> run.replayHash]]
        BY <2>1, <3>2 DEF Start
      <4>3. \E step : pc' = [pc EXCEPT ![d] = step]
        BY <2>1, <3>2 DEF Start
      <4>4. d \in Process /\ saw'[d].phase = run.phase
        BY <4>2 DEF Process
      <4>5. \A p \in Process : p # d => pc'[p] = pc[p] /\ saw'[p] = saw[p]
        BY <4>2, <4>3
      <4> QED
        BY <4>1, <4>4, <4>5
    <3> QED
      BY <3>1, <3>2
  <2>2. CASE Prompt(d)
    <3>1. d \in Process /\ Prompting(d) /\ prompts' = prompts + 1 /\ run' = run /\ saw' = saw
      BY <2>2 DEF Prompt, Process
    <3>2. \E step \in {"bind", "retry", "finish"} : pc' = [pc EXCEPT ![d] = step]
      BY <2>2 DEF Prompt, Connected, AdapterError
    <3> QED
      BY <3>1, <3>2
  <2>3. CASE Resume(d)
    <3>1. d \in Process /\ prompts' = prompts /\ run' = run /\ saw' = saw
      BY <2>3 DEF Resume, Process
    <3>2. \E step \in {"bind", "retry", "finish"} : pc' = [pc EXCEPT ![d] = step]
      BY <2>3 DEF Resume, Connected, AdapterError
    <3> QED
      BY <3>1, <3>2
  <2>4. CASE Bind(d)
    BY <2>4 DEF Bind, Denied, Process, Run
  <2>5. ASSUME NEW e \in Output, Replay(d, e) PROVE SolePrompt'
    BY <2>5 DEF Replay, Process
  <2>6. ASSUME NEW e \in Output, AppendOutput(d, e) PROVE SolePrompt'
    BY <2>6 DEF AppendOutput, Denied, Accepted, Rejected, Process, Run
  <2>7. CASE ObservationStops(d) \/ StreamEnds(d)
    BY <2>7 DEF ObservationStops, StreamEnds, AdapterError, StopReasons, Process
  <2>8. CASE Retry(d)
    BY <2>8 DEF Retry, Denied, Process
  <2> QED
    BY <1>1, <2>1, <2>2, <2>3, <2>4, <2>5, <2>6, <2>7, <2>8 DEF DriverStep
<1>2. ASSUME NEW p \in Process, ProcessStep(p) PROVE SolePrompt'
  <2>1. CASE Scan(p) \/ Lock(p)
    BY <2>1 DEF Scan, Lock
  <2>2. CASE Finish(p)
    <3>1. run' = run \/ \E due \in Overdue : run' = [run EXCEPT !.phase = Verdict(want[p], due)]
      BY <2>2 DEF Finish, Denied
    <3>2. \A due : Verdict(want[p], due) # "pending"
      BY DEF Verdict, Ended
    <3>3. run'.phase = "pending" => run.phase = "pending"
      BY <3>1, <3>2 DEF Run
    <3>4. pc' = [pc EXCEPT ![p] = "exit"] /\ saw' = saw /\ prompts' = prompts
      BY <2>2 DEF Finish, Denied
    <3> QED
      BY <3>3, <3>4
  <2>3. CASE Unlock(p)
    BY <2>3 DEF Unlock, Leave
  <2> QED
    BY <1>2, <2>1, <2>2, <2>3 DEF ProcessStep
<1>3. ASSUME NEW m \in Maintainer, Recheck(m) PROVE SolePrompt'
  BY <1>3 DEF Recheck, Process
<1>4. ASSUME NEW p \in Process, Renew(p) \/ GiveUp(p) PROVE SolePrompt'
  BY <1>4 DEF Renew, GiveUp
<1>5. ASSUME NEW p \in Process, Crash(p) PROVE SolePrompt'
  BY <1>5 DEF Crash, Leave
<1>6. CASE Cancel
  BY <1>6 DEF Cancel, Run
<1>7. CASE LeaseLapses \/ Time
  BY <1>7 DEF LeaseLapses, Time, OrphanLapses, DeadlineNears, DelayPasses
<1>8. CASE UNCHANGED vars
  BY <1>8 DEF vars
<1> QED
  BY <1>1, <1>2, <1>3, <1>4, <1>5, <1>6, <1>7, <1>8 DEF Next

(***************************************************************************)
(* No run is ever prompted twice, even by a driver that has lost its lease *)
(* and does not know it.                                                   *)
(***************************************************************************)
THEOREM PromptedOnceHolds == Spec => []PromptedOnce
<1>1. Init => SolePrompt
  BY DEF Init, SolePrompt, PromptedOnce, Prompting, NewRun
<1>2. TypeOK /\ SolePrompt /\ [Next]_vars => SolePrompt'
  BY NextSolePrompt
<1>3. SolePrompt => PromptedOnce
  BY DEF SolePrompt
<1> QED
  BY <1>1, <1>2, <1>3, TypeCorrect, PTL DEF Spec

-----------------------------------------------------------------------------

\* p starts or reads an execution, or is about to report its success.
Attached(p) ==
  pc[p] \in {"bind", "observe"} \/ (pc[p] = "finish" /\ want[p] = "succeeded")

MayAttach(p) == p \in Recoverable \/ saw[p].phase = "pending"

\* The inductive invariant behind OnlyRecoverableResumes.
RecoverableAttached == \A p \in Process : Attached(p) => MayAttach(p)

\* Only Drive's prompt and a recoverable adapter's Connect reach an execution.
LEMMA NextRecoverableAttached ==
  ASSUME TypeOK, RecoverableAttached, [Next]_vars
  PROVE  RecoverableAttached'
<1> USE DEF RecoverableAttached, Attached, MayAttach, Goto, GotoFinish, local, TypeOK
<1>1. ASSUME NEW d \in Driver, DriverStep(d) PROVE RecoverableAttached'
  <2> d \in Process
    BY DEF Process
  <2>1. CASE Start(d)
    <3>1. CASE Denied(d)
      BY <2>1, <3>1 DEF Start, Denied
    <3>2. CASE ~Denied(d)
      <4>1. /\ pc'[d] = "call" \/ (pc'[d] = "finish" /\ want'[d] # "succeeded")
            /\ \A p \in Process : p # d => pc'[p] = pc[p] /\ want'[p] = want[p]
                                            /\ saw'[p] = saw[p]
        BY <2>1, <3>2 DEF Start
      <4> QED
        BY <4>1
    <3> QED
      BY <3>1, <3>2
  <2>2. CASE Prompt(d)
    <3>1. MayAttach(d) /\ saw' = saw
      BY <2>2 DEF Prompt
    <3>2. \A p \in Process : p # d => pc'[p] = pc[p] /\ want'[p] = want[p]
      BY <2>2 DEF Prompt, Connected, AdapterError
    <3> QED
      BY <3>1, <3>2
  <2>3. CASE Resume(d)
    <3>1. saw' = saw /\ \A p \in Process : p # d => pc'[p] = pc[p] /\ want'[p] = want[p]
      BY <2>3 DEF Resume, Connected, AdapterError
    <3>2. d \in Recoverable \/ (pc'[d] = "finish" /\ want'[d] = "unknown")
      BY <2>3 DEF Resume
    <3> QED
      BY <3>1, <3>2
  <2>4. CASE Bind(d)
    BY <2>4 DEF Bind, Denied
  <2>5. ASSUME NEW e \in Output, Replay(d, e) PROVE RecoverableAttached'
    BY <2>5 DEF Replay
  <2>6. ASSUME NEW e \in Output, AppendOutput(d, e) PROVE RecoverableAttached'
    BY <2>6 DEF AppendOutput, Denied, Accepted, Rejected
  <2>7. CASE ObservationStops(d) \/ StreamEnds(d)
    <3>1. MayAttach(d) /\ saw' = saw
      BY <2>7 DEF ObservationStops, StreamEnds
    <3>2. \A p \in Process : p # d => pc'[p] = pc[p] /\ want'[p] = want[p]
      BY <2>7 DEF ObservationStops, StreamEnds, AdapterError
    <3> QED
      BY <3>1, <3>2
  <2>8. CASE Retry(d)
    BY <2>8 DEF Retry, Denied
  <2> QED
    BY <1>1, <2>1, <2>2, <2>3, <2>4, <2>5, <2>6, <2>7, <2>8 DEF DriverStep
<1>2. ASSUME NEW p \in Process, ProcessStep(p) PROVE RecoverableAttached'
  BY <1>2 DEF ProcessStep, Scan, Lock, Finish, Denied, Unlock, Leave
<1>3. ASSUME NEW m \in Maintainer, Recheck(m) PROVE RecoverableAttached'
  BY <1>3 DEF Recheck, Process
<1>4. ASSUME NEW p \in Process, Renew(p) \/ GiveUp(p) \/ Crash(p)
      PROVE  RecoverableAttached'
  BY <1>4 DEF Renew, GiveUp, Crash, Leave
<1>5. CASE Cancel \/ LeaseLapses \/ Time
  BY <1>5 DEF Cancel, LeaseLapses, Time, OrphanLapses, DeadlineNears, DelayPasses
<1>6. CASE UNCHANGED vars
  BY <1>6 DEF vars
<1> QED
  BY <1>1, <1>2, <1>3, <1>4, <1>5, <1>6 DEF Next

(***************************************************************************)
(* A run driven by an adapter that cannot resume succeeds only through the *)
(* driver that found it pending and prompted.                              *)
(***************************************************************************)
THEOREM OnlyRecoverableResumesHolds == Spec => OnlyRecoverableResumes
<1> DEFINE Succeeds == run.phase # "succeeded" /\ run'.phase = "succeeded"
           Allowed == owner \in Recoverable \/ saw[owner].phase = "pending"
<1>1. Init => RecoverableAttached
  BY DEF Init, RecoverableAttached, Attached
<1>2. TypeOK /\ RecoverableAttached /\ [Next]_vars => RecoverableAttached'
  BY NextRecoverableAttached
<1>3. TypeOK /\ RecoverableAttached /\ [Next]_vars => [Succeeds => Allowed]_vars
  BY SuccessIsAsked DEF RecoverableAttached, Attached, MayAttach
<1> QED
  BY <1>1, <1>2, <1>3, TypeCorrect, PTL DEF Spec, OnlyRecoverableResumes
=============================================================================
