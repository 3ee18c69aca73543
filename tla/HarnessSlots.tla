----------------------------- MODULE HarnessSlots ----------------------------
(***************************************************************************)
(* The execution slots of the Server replicas                              *)
(* (server/internal/component/harness_runner.go: Submit, Run).             *)
(*                                                                         *)
(* A replica s executes at most Concurrency[s] runs.  A slot is an         *)
(* entry of its `active` map, shared by the submissions that have not      *)
(* committed, committed runs that are ready to launch, runs a scan has     *)
(* found, and the goroutines that drive them.  What a driver does with the *)
(* run is module HarnessRun; here it holds the lease and may end the run.  *)
(*                                                                         *)
(* An attempt is one transaction of CreateHarnessRun, with the run id it   *)
(* has generated; attempts of one request share its submission key.  The   *)
(* wake channel is left out: the ticker may fire at any moment.            *)
(***************************************************************************)
EXTENDS Naturals, FiniteSets

CONSTANTS
  Server,       \* replicas
  Attempt,      \* calls of Submit: each generates a run id
  Request,      \* submission keys
  RequestOf,    \* the request of each attempt
  Concurrency,  \* slots of each replica (50)
  MaxFaults,    \* bound on lost answers, crashes, lost leases and drivers that give up
  Nobody, Orphan \* no holder of a lease; a holder that is gone

ASSUME SlotsAssumption ==
  /\ RequestOf \in [Attempt -> Request]
  /\ Concurrency \in [Server -> Nat \ {0}]
  /\ MaxFaults \in Nat
  /\ Nobody # Orphan /\ {Nobody, Orphan} \cap Server = {}

VARIABLES
  rows,    \* committed runs
  ended,   \* those in a terminal phase
  lease,   \* of each run: the replica that holds it
  active,  \* of each replica: the runs with an entry, those marked ready
  submit,  \* of each attempt: where it is, and on which replica
  loop,    \* of each replica: where Run is, and the runs it will launch
  drivers, \* of each replica, run and stage: how many goroutines
  faults

store == <<rows, ended, lease>>
vars == <<store, active, submit, loop, drivers, faults>>

Stage == {"launched", "driving", "leaving"}

Init ==
  /\ rows = {}
  /\ ended = {}
  /\ lease = [a \in Attempt |-> Nobody]
  /\ active = [s \in Server |-> [entries |-> {}, ready |-> {}]]
  /\ submit = [a \in Attempt |-> [at |-> "new"]]
  /\ loop = [s \in Server |-> [at |-> "ready"]]
  /\ drivers = [d \in Server \X Attempt \X Stage |-> 0]
  /\ faults = 0

-----------------------------------------------------------------------------
\* The map, under the runner's mutex.

\* Mutant of Admits: the limit is off by one.
AdmitsOneMore(s, a) ==
  a \notin active[s].entries /\ Cardinality(active[s].entries) <= Concurrency[s]

\* reserve: no second entry, and no entry beyond the limit.
Admits(s, a) ==
  a \notin active[s].entries /\ Cardinality(active[s].entries) < Concurrency[s]

Reserve(s, a) == active' = [active EXCEPT ![s].entries = @ \cup {a}]

Release(s, a) ==
  active' = [active EXCEPT ![s] = [entries |-> @.entries \ {a}, ready |-> @.ready \ {a}]]

Faulty == faults < MaxFaults /\ faults' = faults + 1

-----------------------------------------------------------------------------
\* Submit.

At(a, place) == submit[a].at = place
Move(a, place) == submit' = [submit EXCEPT ![a].at = place]
Same(a) == {b \in Attempt : RequestOf[b] = RequestOf[a]}

(***************************************************************************)
(* In the transaction, under the lock of the conversation: a request that  *)
(* has a row is a replay and reserves nothing; a new one needs a slot, or  *)
(* it is refused.                                                          *)
(***************************************************************************)
Admit(s, a) ==
  /\ At(a, "new")
  /\ \A b \in Same(a) : ~At(b, "open")
  /\ IF Same(a) \cap rows = {} /\ Admits(s, a)
     THEN /\ Reserve(s, a)
          /\ submit' = [submit EXCEPT ![a] = [at |-> "open", server |-> s]]
     ELSE /\ submit' = [submit EXCEPT ![a] = [at |-> "done"]]
          /\ UNCHANGED active
  /\ UNCHANGED <<store, loop, drivers, faults>>

Commit(a) ==
  /\ At(a, "open")
  /\ rows' = rows \cup {a}
  /\ Move(a, "committed")
  /\ UNCHANGED <<ended, lease, active, loop, drivers, faults>>

\* The transaction fails, or it commits and its answer is lost.
CommitFails(a) ==
  /\ At(a, "open")
  /\ Faulty
  /\ rows' \in {rows, rows \cup {a}}
  /\ Move(a, "failed")
  /\ UNCHANGED <<ended, lease, active, loop, drivers>>

GiveBack(a) ==
  /\ At(a, "failed")
  /\ Release(submit[a].server, a)
  /\ submit' = [submit EXCEPT ![a] = [at |-> "done"]]
  /\ UNCHANGED <<store, loop, drivers, faults>>

\* The slot is handed to Run.
HandOver(a) ==
  /\ At(a, "committed")
  /\ active' = [active EXCEPT ![submit[a].server] = [entries |-> @.entries \cup {a},
                                                     ready |-> @.ready \cup {a}]]
  /\ submit' = [submit EXCEPT ![a] = [at |-> "done"]]
  /\ UNCHANGED <<store, loop, drivers, faults>>

-----------------------------------------------------------------------------
\* Run: one iteration of the loop.

Launched(s, started) ==
  [d \in DOMAIN drivers |-> IF d[1] = s /\ d[2] \in started /\ d[3] = "launched"
                            THEN drivers[d] + 1 ELSE drivers[d]]

\* Mutant of Look: the test for a free slot is inverted.
LookWhenFull(s) ==
  LET held == Cardinality(active[s].entries)
  IN loop' = [loop EXCEPT ![s] = IF held < Concurrency[s]
                                 THEN [at |-> "ready"]
                                 ELSE [at |-> "scan", limit |-> Concurrency[s] - held]]

\* available: without a free slot there is nothing to scan for.
Look(s) ==
  LET held == Cardinality(active[s].entries)
  IN loop' = [loop EXCEPT ![s] = IF held >= Concurrency[s]
                                 THEN [at |-> "ready"]
                                 ELSE [at |-> "scan", limit |-> Concurrency[s] - held]]

\* Mutant of LaunchReady: the flag is not cleared.
LaunchReadyAgain(s) ==
  /\ loop[s].at = "ready"
  /\ drivers' = Launched(s, active[s].ready)
  /\ Look(s)
  /\ UNCHANGED <<store, active, submit, faults>>

\* The flags are read and cleared, then the slots are counted (the limit may
\* be out of date when it is used, and `reserve` decides again).
LaunchReady(s) ==
  /\ loop[s].at = "ready"
  /\ drivers' = Launched(s, active[s].ready)
  /\ active' = [active EXCEPT ![s].ready = {}]
  /\ Look(s)
  /\ UNCHANGED <<store, submit, faults>>

\* ListRunnableHarnessRuns: open runs without a lease (in which order, and
\* which of them wait for their next attempt, makes no difference here).
Runnable == {a \in rows \ ended : lease[a] = Nobody}

Scan(s) ==
  /\ loop[s].at = "scan"
  /\ \E found \in SUBSET Runnable :
       /\ Cardinality(found) = IF Cardinality(Runnable) < loop[s].limit
                               THEN Cardinality(Runnable) ELSE loop[s].limit
       /\ loop' = [loop EXCEPT ![s] = [at |-> "launch", found |-> found]]
  /\ UNCHANGED <<store, active, submit, drivers, faults>>

Launch(s) ==
  /\ loop[s].at = "launch"
  /\ IF loop[s].found = {}
     THEN /\ loop' = [loop EXCEPT ![s] = [at |-> "ready"]]
          /\ UNCHANGED <<active, drivers>>
     ELSE \E a \in loop[s].found :
            /\ loop' = [loop EXCEPT ![s].found = @ \ {a}]
            /\ IF Admits(s, a)
               THEN Reserve(s, a) /\ drivers' = Launched(s, {a})
               ELSE UNCHANGED <<active, drivers>>
  /\ UNCHANGED <<store, submit, faults>>

-----------------------------------------------------------------------------
\* The goroutine of a launched run.

Driver(s, a, stage) == drivers[<<s, a, stage>>] > 0

Step(s, a, from, to) ==
  drivers' = [drivers EXCEPT ![<<s, a, from>>] = @ - 1, ![<<s, a, to>>] = @ + 1]

\* Drive takes the lease, or finds it locked and returns.
Acquire(s, a) ==
  /\ Driver(s, a, "launched")
  /\ IF lease[a] = Nobody
     THEN lease' = [lease EXCEPT ![a] = s] /\ Step(s, a, "launched", "driving")
     ELSE UNCHANGED lease /\ Step(s, a, "launched", "leaving")
  /\ UNCHANGED <<rows, ended, active, submit, loop, faults>>

Free(s, a) == lease' = IF lease[a] = s THEN [lease EXCEPT ![a] = Nobody] ELSE lease

\* The holder of the lease ends the run; without it the writes are refused.
Finish(s, a) ==
  /\ Driver(s, a, "driving")
  /\ ended' = IF lease[a] = s THEN ended \cup {a} ELSE ended
  /\ Free(s, a)
  /\ Step(s, a, "driving", "leaving")
  /\ UNCHANGED <<rows, active, submit, loop, faults>>

\* The attempt ends without a terminal phase; the run is tried again later.
GiveUp(s, a) ==
  /\ Driver(s, a, "driving")
  /\ Faulty
  /\ Free(s, a)
  /\ Step(s, a, "driving", "leaving")
  /\ UNCHANGED <<rows, ended, active, submit, loop>>

\* The deferred release, after a pause if the attempt has failed.
Leave(s, a) ==
  /\ Driver(s, a, "leaving")
  /\ drivers' = [drivers EXCEPT ![<<s, a, "leaving">>] = @ - 1]
  /\ Release(s, a)
  /\ UNCHANGED <<store, submit, loop, faults>>

-----------------------------------------------------------------------------
\* Other replicas, time and crashes.

\* Maintain ends an overdue or cancelled run that nobody holds: no slot is used.
Maintain(a) ==
  /\ a \in Runnable
  /\ ended' = ended \cup {a}
  /\ UNCHANGED <<rows, lease, active, submit, loop, drivers, faults>>

\* A holder that does not renew in time loses the lease, but goes on.
Lapse(a) ==
  /\ lease[a] \in Server
  /\ Faulty
  /\ lease' = [lease EXCEPT ![a] = Nobody]
  /\ UNCHANGED <<rows, ended, active, submit, loop, drivers>>

\* The lease of a holder that is gone.
Expire(a) ==
  /\ lease[a] = Orphan
  /\ lease' = [lease EXCEPT ![a] = Nobody]
  /\ UNCHANGED <<rows, ended, active, submit, loop, drivers, faults>>

\* A replica restarts: its map and goroutines are gone, its transactions abort.
Crash(s) ==
  /\ Faulty
  /\ lease' = [a \in Attempt |-> IF lease[a] = s THEN Orphan ELSE lease[a]]
  /\ active' = [active EXCEPT ![s] = [entries |-> {}, ready |-> {}]]
  /\ submit' = [a \in Attempt |-> IF submit[a].at \in {"new", "done"} THEN submit[a]
                                  ELSE IF submit[a].server = s THEN [at |-> "done"]
                                  ELSE submit[a]]
  /\ loop' = [loop EXCEPT ![s] = [at |-> "ready"]]
  /\ drivers' = [d \in DOMAIN drivers |-> IF d[1] = s THEN 0 ELSE drivers[d]]
  /\ UNCHANGED <<rows, ended>>

Submission(a) == Commit(a) \/ GiveBack(a) \/ HandOver(a)
Loop(s) == LaunchReady(s) \/ Scan(s) \/ Launch(s)
Drive(s, a) == Acquire(s, a) \/ Finish(s, a) \/ Leave(s, a)

Next ==
  \/ \E s \in Server : Loop(s) \/ Crash(s)
  \/ \E s \in Server, a \in Attempt : Admit(s, a) \/ Drive(s, a) \/ GiveUp(s, a)
  \/ \E a \in Attempt : \/ Submission(a) \/ CommitFails(a)
                        \/ Maintain(a) \/ Lapse(a) \/ Expire(a)

Spec == Init /\ [][Next]_vars

\* Goroutines run, leases expire, and a driver returns (HarnessRun).
Fairness ==
  /\ WF_vars(\E a \in Attempt : Submission(a) \/ Expire(a))
  /\ \A s \in Server : WF_vars(Loop(s)) /\ WF_vars(\E a \in Attempt : Drive(s, a))

FairSpec == Spec /\ Fairness

-----------------------------------------------------------------------------
\* Properties.

\* A replica never holds more entries than it has slots.
TypeOK ==
  /\ ended \subseteq rows /\ rows \subseteq Attempt
  /\ lease \in [Attempt -> Server \cup {Nobody, Orphan}]
  /\ active \in [Server -> [entries : SUBSET Attempt, ready : SUBSET Attempt]]
  /\ \A s \in Server : /\ active[s].ready \subseteq active[s].entries
                       /\ Cardinality(active[s].entries) <= Concurrency[s]
  /\ submit \in [Attempt -> [at : {"new", "done"}]
                       \cup [at : {"open", "committed", "failed"}, server : Server]]
  /\ loop \in [Server -> [at : {"ready"}] \cup [at : {"scan"}, limit : Nat \ {0}]
                         \cup [at : {"launch"}, found : SUBSET rows]]
  /\ drivers \in [Server \X Attempt \X Stage -> Nat]
  /\ faults \in 0..MaxFaults

(***************************************************************************)
(* Every slot has exactly one holder and every holder a slot: a submission *)
(* that has not handed it over, the ready flag, or one goroutine.  None is *)
(* leaked when a transaction fails, and no run is driven twice on a        *)
(* replica, even when its lease has lapsed and a scan lists it again.      *)
(***************************************************************************)
Submitting(s, a) == submit[a].at \in {"open", "committed", "failed"} /\ submit[a].server = s

Holders(s, a) ==
  (IF Submitting(s, a) THEN 1 ELSE 0) + (IF a \in active[s].ready THEN 1 ELSE 0) +
  drivers[<<s, a, "launched">>] + drivers[<<s, a, "driving">>] + drivers[<<s, a, "leaving">>]

OneHolderPerSlot ==
  \A s \in Server, a \in Attempt :
    Holders(s, a) = IF a \in active[s].entries THEN 1 ELSE 0

(***************************************************************************)
(* A run that was accepted ends, whether its submitter learnt of it or     *)
(* not and whatever replica stops: a slot becomes free and a scan finds it.*)
(***************************************************************************)
AcceptedRunsEnd == <>[](rows = ended)

=============================================================================
