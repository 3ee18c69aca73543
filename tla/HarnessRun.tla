----------------------------- MODULE HarnessRun -----------------------------
(***************************************************************************)
(* One accepted Harness run and its output message, driven by the Server   *)
(* replicas until a terminal phase                                         *)
(* (server/internal/component/harness_runner.go,                           *)
(*  server/internal/repo/harness_run.go).                                  *)
(*                                                                         *)
(* Each replica has a driver (Drive) and a maintainer (Maintain).  Both    *)
(* take the run's lease and write the run and the message only in          *)
(* transactions fenced by it.  A driver that stops anywhere leaves the run *)
(* to the next one, which observes the harness from its first event again  *)
(* and skips what is already persisted.                                    *)
(*                                                                         *)
(* Abstractions.  One transaction is one step.  An event of the harness is *)
(* a member of Event, or Invalid for output the store refuses; the harness *)
(* is free to send anything, the same or not on a replay.  The cumulative  *)
(* replay hash is the sequence of events it is computed from (no           *)
(* collisions).  Clocks of the replicas differ: a deadline or an expiry is *)
(* first reached on some clock only ("disputed"), then on all.             *)
(***************************************************************************)
EXTENDS Naturals, Sequences

CONSTANTS
  Driver, Maintainer, \* the driving and maintaining goroutines of the replicas
  Configured,         \* drivers whose replica has the run's target configured
  Recoverable,        \* drivers whose adapter implements Resume
  AdapterEnds,        \* phases an adapter's own error may end the run in
  Event, Invalid,     \* harness output: acceptable events, refused output
  Ref, NoRef,         \* execution references an adapter may return
  MaxEvents,          \* bound on the events of one observation
  MaxFaults,          \* bound on crashes, failed statements and lost leases
  Nobody, Orphan      \* see Lease

Process == Driver \cup Maintainer

ASSUME ProcessAssumption ==
  /\ Driver \cap Maintainer = {}
  /\ Configured \subseteq Driver
  /\ Nobody # Orphan
  /\ Nobody \notin Process
  /\ Orphan \notin Process
ASSUME HarnessAssumption ==
  /\ Recoverable \subseteq Driver
  /\ AdapterEnds \subseteq {"failed", "cancelled", "unknown", "timed_out"}
  /\ Invalid \notin Event
  /\ NoRef \in Ref
ASSUME HarnessBounds == MaxEvents \in Nat /\ MaxFaults \in Nat

VARIABLES
  run,      \* the harness_runs row
  msg,      \* the output message row and its content
  deadline, \* the run's deadline on the replicas' clocks
  delayed,  \* the run's next_attempt_at lies in the future
  owner, lapsed, \* the lease of harness-run/<id>
  pc,       \* where each process is
  saw,      \* the run a driver read in StartHarnessRun
  seen,     \* events a driver has received in its observation
  ref,      \* execution reference of the driver's call
  want,     \* the phase a process asks FinishHarnessRun for
  prompts,  \* history: how many times the adapter's Prompt was called
  faults    \* crashes, failed statements and lost leases so far

rows == <<run, msg>>
lease == <<owner, lapsed>>
local == <<pc, saw, seen, ref, want>>
clocks == <<deadline, delayed>>
vars == <<run, msg, clocks, lease, local, prompts, faults>>

L == INSTANCE Lease

Open == {"pending", "starting", "running"}
Ended == {"succeeded", "failed", "cancelled", "unknown", "timed_out"}
Terminal == run.phase \in Ended

Output == Event \cup {Invalid}
Run == [phase : Open \cup Ended, cancelRequested : BOOLEAN, executionRef : Ref,
        checkpoint : Nat, replayHash : Seq(Output)]
\* What Drive keeps of the row StartHarnessRun returned.
View == [phase : Open, checkpoint : Nat, replayHash : Seq(Output)]
Message == [status : {"streaming", "completed", "failed", "cancelled"},
            revision : Nat, blocks : Seq(Event), result : BOOLEAN]
Step == {"idle", "listed", "locked", "call", "bind", "observe", "retry", "finish", "exit"}

NewRun == [phase |-> "pending", cancelRequested |-> FALSE, executionRef |-> NoRef,
           checkpoint |-> 0, replayHash |-> <<>>]
NoView == [phase |-> "pending", checkpoint |-> 0, replayHash |-> <<>>]
NewMessage == [status |-> "streaming", revision |-> 1, blocks |-> <<>>, result |-> FALSE]

TypeOK ==
  /\ run \in Run
  /\ msg \in Message
  /\ deadline \in {"ahead", "disputed", "passed"}
  /\ delayed \in BOOLEAN
  /\ owner \in Process \cup {Nobody, Orphan}
  /\ lapsed \in BOOLEAN
  /\ pc \in [Process -> Step]
  /\ saw \in [Process -> View]
  /\ seen \in [Process -> Seq(Output)]
  /\ ref \in [Process -> Ref]
  /\ want \in [Process -> Ended]
  /\ prompts \in Nat
  /\ faults \in 0..MaxFaults

(***************************************************************************)
(* CreateHarnessRun committed the pair; the submitting replica launches    *)
(* its driver, unless it stopped first.                                    *)
(***************************************************************************)
Init ==
  /\ run = NewRun
  /\ msg = NewMessage
  /\ deadline = "ahead"
  /\ delayed = FALSE
  /\ L!LeaseInit
  /\ \E launched \in SUBSET Driver :
       /\ \A d, e \in launched : d = e
       /\ pc = [p \in Process |-> IF p \in launched THEN "listed" ELSE "idle"]
  /\ saw = [p \in Process |-> NoView]
  /\ seen = [p \in Process |-> <<>>]
  /\ ref = [p \in Process |-> NoRef]
  /\ want = [p \in Process |-> "failed"]
  /\ prompts = 0
  /\ faults = 0

-----------------------------------------------------------------------------
\* The store.

\* Mutant of Overdue: the deadline is never found to have passed.
OverdueNever == {FALSE}

\* A clock's verdict on the deadline.
Overdue == {b \in BOOLEAN : (b => deadline # "ahead") /\ (~b => deadline # "passed")}

Goto(p, step) == pc' = [pc EXCEPT ![p] = step]

GotoFinish(p, phase) ==
  /\ Goto(p, "finish")
  /\ want' = [want EXCEPT ![p] = phase]

\* The call returns: its local variables are gone.
Leave(p) ==
  /\ Goto(p, "idle")
  /\ saw' = [saw EXCEPT ![p] = NoView]
  /\ seen' = [seen EXCEPT ![p] = <<>>]
  /\ ref' = [ref EXCEPT ![p] = NoRef]
  /\ want' = [want EXCEPT ![p] = "failed"]

\* Mutant of Fence: the lease is not checked.
FenceNothing(p) == p \in Process

(***************************************************************************)
(* harnessTransaction: fence, then refuse a terminal run.  fence compares  *)
(* the expiry with a time read before it waited for the row, so the owner  *)
(* of a lapsed lease may pass or fail.                                     *)
(***************************************************************************)
Fence(p) == owner = p

FencedOpen(p) == Fence(p) /\ ~Terminal

Refused(p) == ~FencedOpen(p) \/ lapsed

\* ErrLost or ErrConflict: nothing is written and WithLease unwinds.
Denied(p) ==
  /\ Refused(p)
  /\ Goto(p, "exit")
  /\ UNCHANGED <<rows, delayed, saw, seen, ref, want>>

\* Mutant of StatusOf: the phase is stored as the message status.
StatusVerbatim(phase) == phase

StatusOf(phase) ==
  CASE phase = "succeeded" -> "completed"
    [] phase = "cancelled" -> "cancelled"
    [] OTHER -> "failed"

\* Mutant of Verdict: the deadline takes precedence over a cancel request.
VerdictDeadlineFirst(asked, due) ==
  CASE due -> "timed_out"
    [] ~due /\ run.cancelRequested -> "cancelled"
    [] OTHER -> asked

(***************************************************************************)
(* FinishHarnessRun's verdict: a cancel request, then the deadline, take   *)
(* precedence over what the caller asks for.                               *)
(***************************************************************************)
Verdict(asked, due) ==
  CASE run.cancelRequested -> "cancelled"
    [] ~run.cancelRequested /\ due -> "timed_out"
    [] OTHER -> asked

\* Mutant of EndMessage: only a success ends the message.
EndOnSuccess(phase) ==
  msg' = IF phase = "succeeded"
         THEN [msg EXCEPT !.result = TRUE, !.revision = @ + 2, !.status = "completed"]
         ELSE msg

\* The result block or meta.error, then End: two revisions.
EndMessage(phase) ==
  msg' = [msg EXCEPT !.result = (phase = "succeeded"),
                     !.revision = @ + 2,
                     !.status = StatusOf(phase)]

\* CancelHarnessRun: a terminal run is left alone.
Cancel ==
  /\ ~Terminal
  /\ ~run.cancelRequested
  /\ run' = [run EXCEPT !.cancelRequested = TRUE]
  /\ delayed' = FALSE
  /\ UNCHANGED <<msg, deadline, lease, local, prompts, faults>>

-----------------------------------------------------------------------------
\* The lease around a driver or a maintainer.

\* ListRunnableHarnessRuns
Runnable == ~Terminal /\ L!Acquirable /\ ~delayed

\* ListDueHarnessRuns ignores the retry delay.
Due == ~Terminal /\ L!Acquirable /\ (run.cancelRequested \/ deadline # "ahead")

\* A scan lists the run; by the time it is driven the row may have changed.
Scan(p) ==
  /\ pc[p] = "idle"
  /\ IF p \in Driver THEN Runnable ELSE Due
  /\ Goto(p, "listed")
  /\ UNCHANGED <<rows, clocks, lease, saw, seen, ref, want, prompts, faults>>

Lock(p) ==
  /\ pc[p] = "listed"
  /\ \/ /\ L!Acquire(p) /\ ~lapsed'
        /\ Goto(p, "locked")
     \/ /\ ~L!Acquirable        \* ErrLocked
        /\ Goto(p, "idle")
        /\ UNCHANGED lease
  /\ UNCHANGED <<rows, clocks, saw, seen, ref, want, prompts, faults>>

Working(p) == pc[p] \in {"locked", "call", "bind", "observe", "retry", "finish"}

Renew(p) ==
  /\ Working(p)
  /\ lapsed
  /\ L!Renew(p) /\ ~lapsed'
  /\ UNCHANGED <<rows, clocks, local, prompts, faults>>

Unlock(p) ==
  /\ pc[p] = "exit"
  /\ \/ L!Release(p)
     \/ owner # p /\ UNCHANGED lease
  /\ Leave(p)
  /\ UNCHANGED <<rows, clocks, prompts, faults>>

-----------------------------------------------------------------------------
\* Drive

\* StartHarnessRun returns the row as it was and moves it to starting.
Start(d) ==
  /\ pc[d] = "locked"
  /\ \/ Denied(d)
     \/ /\ FencedOpen(d)
        /\ saw' = [saw EXCEPT ![d] = [phase |-> run.phase,
                                      checkpoint |-> run.checkpoint,
                                      replayHash |-> run.replayHash]]
        /\ run' = [run EXCEPT !.phase = "starting"]
        /\ delayed' = FALSE
        /\ \/ run.cancelRequested /\ GotoFinish(d, "cancelled")
           \/ \E due \in Overdue :
                /\ ~run.cancelRequested
                /\ \/ due /\ GotoFinish(d, "timed_out")
                   \/ ~due /\ d \notin Configured /\ GotoFinish(d, "unknown")
                   \/ ~due /\ d \in Configured /\ Goto(d, "call") /\ UNCHANGED want
        /\ UNCHANGED <<msg, seen, ref>>
  /\ UNCHANGED <<deadline, lease, prompts, faults>>

\* Why the observation context may be done: the cancel watcher, the deadline.
StopReasons ==
  {w \in {"cancelled", "timed_out"} :
     (w = "cancelled" => run.cancelRequested) /\ (w = "timed_out" => deadline # "ahead")}

(***************************************************************************)
(* finishError: what can be observed again is retried.  Any other error    *)
(* ends the run by its kind: the end of the observation context, or an     *)
(* adapter's own refusal to recover, cancellation, timeout or failure.     *)
(***************************************************************************)
AdapterError(d) ==
  \/ Goto(d, "retry") /\ UNCHANGED want
  \/ \E w \in AdapterEnds \cup StopReasons : GotoFinish(d, w)

Connected(d) ==
  \E r \in Ref :
    /\ ref' = [ref EXCEPT ![d] = r]
    /\ Goto(d, "bind")
    /\ UNCHANGED want

\* Mutant of Prompt: the phase that StartHarnessRun returned is not checked.
PromptAgain(d) ==
  /\ pc[d] = "call"
  /\ prompts' = prompts + 1
  /\ \/ Connected(d)
     \/ AdapterError(d) /\ UNCHANGED ref
  /\ UNCHANGED <<rows, clocks, lease, saw, seen, faults>>

\* Only the driver that found the run pending prompts.
Prompt(d) ==
  /\ pc[d] = "call"
  /\ saw[d].phase = "pending"
  /\ prompts' = prompts + 1
  /\ \/ Connected(d)
     \/ AdapterError(d) /\ UNCHANGED ref
  /\ UNCHANGED <<rows, clocks, lease, saw, seen, faults>>

\* Mutant of Resume: every adapter is taken to be recoverable.
ResumeAnyway(d) ==
  /\ pc[d] = "call"
  /\ saw[d].phase # "pending"
  /\ \/ Connected(d)
     \/ AdapterError(d) /\ UNCHANGED ref
  /\ UNCHANGED <<rows, clocks, lease, saw, seen, prompts, faults>>

Resume(d) ==
  /\ pc[d] = "call"
  /\ saw[d].phase # "pending"
  /\ \/ d \in Recoverable /\ Connected(d)
     \/ d \in Recoverable /\ AdapterError(d) /\ UNCHANGED ref
     \/ d \notin Recoverable /\ GotoFinish(d, "unknown") /\ UNCHANGED ref
  /\ UNCHANGED <<rows, clocks, lease, saw, seen, prompts, faults>>

RefConflict(d) == run.executionRef # NoRef /\ run.executionRef # ref[d]

\* BindHarnessExecution
Bind(d) ==
  /\ pc[d] = "bind"
  /\ \/ Denied(d)
     \/ /\ FencedOpen(d) /\ RefConflict(d)
        /\ Goto(d, "exit")
        /\ UNCHANGED <<rows, delayed, saw, seen, ref, want>>
     \/ /\ FencedOpen(d) /\ ~RefConflict(d)
        /\ run' = [run EXCEPT !.executionRef = ref[d], !.phase = "running"]
        /\ Goto(d, "observe")
        /\ UNCHANGED <<msg, delayed, saw, seen, ref, want>>
  /\ UNCHANGED <<deadline, lease, prompts, faults>>

\* Mutant of Replay: the cumulative hash is not compared.
ReplayUnchecked(d, e) ==
  /\ pc[d] = "observe"
  /\ Len(seen[d]) < saw[d].checkpoint
  /\ seen' = [seen EXCEPT ![d] = Append(@, e)]
  /\ UNCHANGED <<rows, clocks, lease, pc, want, saw, ref, prompts, faults>>

(***************************************************************************)
(* An event below the checkpoint that StartHarnessRun read is a replay: it *)
(* is skipped, and at the checkpoint the cumulative hash must agree.       *)
(***************************************************************************)
Replay(d, e) ==
  /\ pc[d] = "observe"
  /\ Len(seen[d]) < saw[d].checkpoint
  /\ seen' = [seen EXCEPT ![d] = Append(@, e)]
  /\ LET index == Len(seen[d]) + 1
         differs == index = saw[d].checkpoint /\ Append(seen[d], e) # saw[d].replayHash
     IN \/ ~differs /\ UNCHANGED <<pc, want>>
        \/ differs /\ GotoFinish(d, "failed")
  /\ UNCHANGED <<rows, clocks, lease, saw, ref, prompts, faults>>

(***************************************************************************)
(* AppendHarnessOutput: what the transaction answers for event e with      *)
(* index and cumulative hash of d's observation.                           *)
(***************************************************************************)
AppendAnswer(d, e) ==
  LET index == Len(seen[d]) + 1 IN
  CASE run.cancelRequested -> "cancelled"
    [] ~run.cancelRequested /\ index < run.checkpoint -> "skip"
    [] ~run.cancelRequested /\ index = run.checkpoint ->
         IF Append(seen[d], e) = run.replayHash THEN "skip" ELSE "conflict"
    [] ~run.cancelRequested /\ index > run.checkpoint + 1 -> "conflict"
    [] OTHER -> IF e = Invalid THEN "invalid" ELSE "ok"

\* One projected event: the block and the next revision.
ProjectEvent(m, e) == [m EXCEPT !.blocks = Append(@, e), !.revision = @ + 1]

\* The event, the checkpoint and the hash are committed together.
Accepted(d, e) ==
  /\ FencedOpen(d)
  /\ AppendAnswer(d, e) \in {"ok", "skip"}
  /\ seen' = [seen EXCEPT ![d] = Append(@, e)]
  /\ IF AppendAnswer(d, e) = "ok"
     THEN /\ msg' = ProjectEvent(msg, e)
          /\ run' = [run EXCEPT !.checkpoint = Len(seen[d]) + 1,
                                !.replayHash = Append(seen[d], e)]
     ELSE UNCHANGED rows
  /\ UNCHANGED <<delayed, pc, want, saw, ref>>

\* Canceled and ErrInvalidContent end the run, other errors leave it open.
Rejected(d, e) ==
  /\ FencedOpen(d)
  /\ AppendAnswer(d, e) \notin {"ok", "skip"}
  /\ IF AppendAnswer(d, e) = "conflict"
     THEN Goto(d, "exit") /\ UNCHANGED want
     ELSE GotoFinish(d, "cancelled")
  /\ UNCHANGED <<rows, delayed, saw, seen, ref>>

AppendOutput(d, e) ==
  /\ pc[d] = "observe"
  /\ Len(seen[d]) >= saw[d].checkpoint
  /\ Len(seen[d]) < MaxEvents
  /\ Denied(d) \/ Accepted(d, e) \/ Rejected(d, e)
  /\ UNCHANGED <<deadline, lease, prompts, faults>>

\* The watcher saw the cancel request, or the deadline context fired.
ObservationStops(d) ==
  /\ pc[d] = "observe"
  /\ \E w \in StopReasons : GotoFinish(d, w)
  /\ UNCHANGED <<rows, clocks, lease, saw, seen, ref, prompts, faults>>

\* Mutant of StreamEnds: a replay that stops early is taken for the end.
StreamEndsEarly(d) ==
  /\ pc[d] = "observe"
  /\ AdapterError(d) \/ GotoFinish(d, "succeeded")
  /\ UNCHANGED <<rows, clocks, lease, saw, seen, ref, prompts, faults>>

\* The event channel closed: Wait, then the replay must have been complete.
StreamEnds(d) ==
  /\ pc[d] = "observe"
  /\ \/ AdapterError(d)
     \/ Len(seen[d]) < saw[d].checkpoint /\ GotoFinish(d, "failed")
     \/ Len(seen[d]) >= saw[d].checkpoint /\ GotoFinish(d, "succeeded")
  /\ UNCHANGED <<rows, clocks, lease, saw, seen, ref, prompts, faults>>

\* RetryHarnessRun
Retry(d) ==
  /\ pc[d] = "retry"
  /\ \/ Denied(d)
     \/ /\ FencedOpen(d)
        /\ delayed' = TRUE
        /\ Goto(d, "exit")
        /\ UNCHANGED <<rows, saw, seen, ref, want>>
  /\ UNCHANGED <<deadline, lease, prompts, faults>>

-----------------------------------------------------------------------------
\* Maintain re-reads the run under the lease, outside a transaction.
Recheck(m) ==
  /\ pc[m] = "locked"
  /\ \/ Terminal /\ Goto(m, "exit") /\ UNCHANGED want
     \/ ~Terminal /\ run.cancelRequested /\ GotoFinish(m, "cancelled")
     \/ \E due \in Overdue :
          /\ ~Terminal /\ ~run.cancelRequested
          /\ \/ due /\ GotoFinish(m, "timed_out")
             \/ ~due /\ Goto(m, "exit") /\ UNCHANGED want
  /\ UNCHANGED <<rows, clocks, lease, saw, seen, ref, prompts, faults>>

\* FinishHarnessRun: final block, message status and run phase in one commit.
Finish(p) ==
  /\ pc[p] = "finish"
  /\ \/ Denied(p)
     \/ /\ FencedOpen(p)
        /\ \E due \in Overdue :
             LET phase == Verdict(want[p], due) IN
             /\ run' = [run EXCEPT !.phase = phase]
             /\ EndMessage(phase)
        /\ Goto(p, "exit")
        /\ UNCHANGED <<delayed, saw, seen, ref, want>>
  /\ UNCHANGED <<deadline, lease, prompts, faults>>

-----------------------------------------------------------------------------
\* The environment.

Fault == faults < MaxFaults /\ faults' = faults + 1

(***************************************************************************)
(* A statement fails or its answer is lost after the commit, or the        *)
(* renewal goroutine cancels the work: the driver unwinds without          *)
(* another write.                                                          *)
(***************************************************************************)
GiveUp(p) ==
  /\ Working(p)
  /\ Fault
  /\ Goto(p, "exit")
  /\ UNCHANGED <<rows, clocks, lease, saw, seen, ref, want, prompts>>

\* The replica crashes, or Unlock fails: the row stays with a dead token.
Crash(p) ==
  /\ pc[p] # "idle"
  /\ Fault
  /\ \/ L!Abandon(p)
     \/ owner # p /\ UNCHANGED lease
  /\ Leave(p)
  /\ UNCHANGED <<rows, clocks, prompts>>

\* A live holder is too slow to renew.
LeaseLapses ==
  /\ owner \in Process
  /\ L!Lapse
  /\ Fault
  /\ UNCHANGED <<rows, clocks, local, prompts>>

\* A dead holder's lease runs out.
OrphanLapses ==
  /\ owner = Orphan
  /\ L!Lapse
  /\ UNCHANGED <<rows, clocks, local, prompts, faults>>

DeadlineNears ==
  /\ deadline # "passed"
  /\ deadline' = IF deadline = "ahead" THEN "disputed" ELSE "passed"
  /\ UNCHANGED <<rows, delayed, lease, local, prompts, faults>>

\* next_attempt_at is reached.
DelayPasses ==
  /\ delayed
  /\ delayed' = FALSE
  /\ UNCHANGED <<rows, deadline, lease, local, prompts, faults>>

DriverStep(d) ==
  \/ Start(d) \/ Prompt(d) \/ Resume(d) \/ Bind(d)
  \/ \E e \in Output : Replay(d, e) \/ AppendOutput(d, e)
  \/ ObservationStops(d) \/ StreamEnds(d) \/ Retry(d)

ProcessStep(p) == Scan(p) \/ Lock(p) \/ Finish(p) \/ Unlock(p)

Time == OrphanLapses \/ DeadlineNears \/ DelayPasses

Next ==
  \/ \E d \in Driver : DriverStep(d)
  \/ \E m \in Maintainer : Recheck(m)
  \/ \E p \in Process : ProcessStep(p) \/ Renew(p) \/ GiveUp(p) \/ Crash(p)
  \/ Cancel
  \/ LeaseLapses
  \/ Time

Spec == Init /\ [][Next]_vars

(***************************************************************************)
(* Goroutines run, clocks advance, dead leases run out.  Nothing is        *)
(* assumed of cancel requests, renewals or faults; faults are finitely     *)
(* many.                                                                   *)
(***************************************************************************)
Fairness ==
  /\ \A d \in Driver : WF_vars(DriverStep(d))
  /\ \A m \in Maintainer : WF_vars(Recheck(m))
  /\ \A p \in Process : WF_vars(ProcessStep(p))
  /\ WF_vars(OrphanLapses) /\ WF_vars(DeadlineNears) /\ WF_vars(DelayPasses)

FairSpec == Spec /\ Fairness

-----------------------------------------------------------------------------
\* Properties.

(***************************************************************************)
(* The run and its message end in the same commit: a reader never sees one *)
(* ended without the other, nor a success without its result block         *)
(* (FinishHarnessRun), whichever process ends the run.                     *)
(***************************************************************************)
EndsTogether ==
  /\ Terminal <=> msg.status # "streaming"
  /\ Terminal => msg.status = StatusOf(run.phase)
  /\ msg.result <=> run.phase = "succeeded"

(***************************************************************************)
(* Exactly-once output: through crashes, take-overs and replays the        *)
(* message holds each persisted event once, the checkpoint counts them and *)
(* the stored hash is theirs; while the run is open the next event's       *)
(* revision is its index + 1, which Drive relies on when it publishes      *)
(* value.Seq = index + 1.                                                  *)
(***************************************************************************)
OutputExactlyOnce ==
  /\ run.checkpoint = Len(msg.blocks)
  /\ run.replayHash = msg.blocks
  /\ ~Terminal => msg.revision = run.checkpoint + 1

(***************************************************************************)
(* A run succeeds only with the complete output of the one observation     *)
(* whose driver finishes it: never a mixture of two replays, never a       *)
(* stream that ended before the persisted checkpoint (Drive's replay       *)
(* checks).                                                                *)
(***************************************************************************)
SuccessIsOneObservation ==
  [][(run.phase # "succeeded" /\ run'.phase = "succeeded")
       => \E d \in Driver : owner = d /\ msg.blocks = seen[d]]_vars

(***************************************************************************)
(* The adapter is prompted at most once per run, however often drivers     *)
(* stop and take over: later drivers only resume (StartHarnessRun persists *)
(* starting before the call).                                              *)
(***************************************************************************)
PromptedOnce == prompts <= 1

(***************************************************************************)
(* Rows change only under the lease: a step that changes the message, the  *)
(* phase or the checkpoint belongs to a process that owns the lease and    *)
(* keeps it; a holder that was superseded writes nothing, however late its *)
(* transaction runs.                                                       *)
(***************************************************************************)
RowsChangeUnderLease ==
  [][(msg' # msg \/ run'.phase # run.phase \/ run'.checkpoint # run.checkpoint)
       => /\ owner \in Process /\ owner' = owner
          /\ pc[owner] \in {"locked", "bind", "observe", "finish"}]_vars

(***************************************************************************)
(* A cancel request accepted while the run is open wins every race: no     *)
(* later step adds output, and the run never ends in anything but          *)
(* cancelled.                                                              *)
(***************************************************************************)
CancelWins ==
  [][run.cancelRequested =>
       /\ msg'.blocks = msg.blocks
       /\ run'.phase \in {run.phase, "starting", "running", "cancelled"}]_vars

(***************************************************************************)
(* docs/harness.md: an adapter that cannot resume never starts or observes *)
(* a second execution; its run succeeds only through the driver that       *)
(* prompted, and a take-over by such an adapter ends it.                   *)
(***************************************************************************)
OnlyRecoverableResumes ==
  [][(run.phase # "succeeded" /\ run'.phase = "succeeded")
       => owner \in Recoverable \/ saw[owner].phase = "pending"]_vars

\* The first terminal state is the last: ended runs and messages never change.
EndIsFinal == [][Terminal => UNCHANGED rows]_vars

(***************************************************************************)
(* docs/harness.md: every accepted run reaches a terminal state, by its    *)
(* deadline at the latest, even if its driver crashes, its adapter hangs   *)
(* or loses the connection, or no replica can drive it.                    *)
(***************************************************************************)
EventuallyEnds == <>[]Terminal

(***************************************************************************)
(* server/docs/ue.md: "failed means the output failed, cancelled means the *)
(* output was cancelled".  finishError reports refused output as           *)
(* cancelled, so the code does not satisfy this.                           *)
(***************************************************************************)
CancelledOnlyOnRequest == run.phase = "cancelled" => run.cancelRequested

-----------------------------------------------------------------------------
\* The inductive invariant behind OutputExactlyOnce and PromptedOnce.

\* Before its observation begins a process has received nothing.
FreshObservation ==
  \A p \in Process :
    pc[p] \in {"idle", "listed", "locked", "call", "bind"} => seen[p] = <<>>

\* What p has received agrees with what is persisted, as far as p has got.
InStep(p) ==
  /\ Len(seen[p]) < saw[p].checkpoint =>
       saw[p].checkpoint = run.checkpoint /\ saw[p].replayHash = run.replayHash
  /\ Len(seen[p]) >= saw[p].checkpoint => seen[p] = run.replayHash

(***************************************************************************)
(* The owner of the lease is in step with the row.  A superseded driver    *)
(* need not be: its view is stale, and the fence keeps it from writing.    *)
(***************************************************************************)
OwnerInStep ==
  \A p \in Process : owner = p =>
    /\ pc[p] \in {"call", "bind", "observe"} => InStep(p)
    /\ pc[p] = "finish" /\ want[p] = "succeeded" => seen[p] = run.replayHash

\* A driver that is about to prompt, possibly after losing the lease.
Prompting(p) == pc[p] = "call" /\ saw[p].phase = "pending"

SolePrompt ==
  /\ PromptedOnce
  /\ run.phase = "pending" => prompts = 0 /\ \A p \in Process : ~Prompting(p)
  /\ \A p \in Process : Prompting(p) => prompts = 0
  /\ \A p, q \in Process : Prompting(p) /\ Prompting(q) => p = q

OutputInv == OutputExactlyOnce /\ FreshObservation /\ OwnerInStep
=============================================================================
