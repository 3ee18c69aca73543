------------------------- MODULE HarnessSlotsProofs --------------------------
(***************************************************************************)
(* Slots are neither leaked, nor shared, nor exceeded: the safety          *)
(* properties of HarnessSlots for any replicas, numbers of slots,          *)
(* submissions (which may repeat requests) and faults.                     *)
(***************************************************************************)
EXTENDS HarnessSlots, FiniteSetTheorems, TLAPS

Finite == \A s \in Server : IsFiniteSet(active[s].entries)

\* What is handed over, launched or driven has been committed.
Committed ==
  /\ \A a \in Attempt : submit[a].at = "committed" => a \in rows
  /\ \A s \in Server : active[s].ready \subseteq rows
  /\ \A s \in Server, a \in Attempt, stage \in Stage : Driver(s, a, stage) => a \in rows

\* The map: typed, flags on entries only, within the limit.
Bounded ==
  /\ active \in [Server -> [entries : SUBSET Attempt, ready : SUBSET Attempt]]
  /\ \A s \in Server : /\ active[s].ready \subseteq active[s].entries
                       /\ Cardinality(active[s].entries) <= Concurrency[s]
                       /\ IsFiniteSet(active[s].entries)

\* The two properties, and what they need to be kept by every step.
SlotInv == TypeOK /\ Finite /\ Committed /\ OneHolderPerSlot

-----------------------------------------------------------------------------
\* The slot of run a on replica s: who can hold it.

Ready(s, a) == a \in active[s].ready
Entry(s, a) == a \in active[s].entries

OneHolder(s, a) == Holders(s, a) = IF Entry(s, a) THEN 1 ELSE 0

\* A step that is not about this slot.
Untouched(s, a) ==
  /\ Submitting(s, a)' <=> Submitting(s, a)
  /\ Ready(s, a)' <=> Ready(s, a)
  /\ Entry(s, a)' <=> Entry(s, a)
  /\ \A stage \in Stage : drivers'[<<s, a, stage>>] = drivers[<<s, a, stage>>]

\* A slot no step touches keeps its holder.
LEMMA UntouchedKeeps ==
  ASSUME NEW s \in Server, NEW a \in Attempt, OneHolder(s, a), Untouched(s, a)
  PROVE  OneHolder(s, a)'
<1>1. \A stage \in {"launched", "driving", "leaving"} :
        drivers'[<<s, a, stage>>] = drivers[<<s, a, stage>>]
  BY DEF Untouched, Stage
<1>2. Holders(s, a)' = Holders(s, a)
  BY <1>1 DEF Untouched, Holders, Ready
<1> QED
  BY <1>2 DEF OneHolder, Untouched

\* The number of goroutines at each stage is a natural.
LEMMA DriverCounts ==
  ASSUME TypeOK, NEW s \in Server, NEW a \in Attempt
  PROVE  /\ drivers[<<s, a, "launched">>] \in Nat
         /\ drivers[<<s, a, "driving">>] \in Nat
         /\ drivers[<<s, a, "leaving">>] \in Nat
<1>1. \A stage \in Stage : <<s, a, stage>> \in Server \X Attempt \X Stage
  OBVIOUS
<1> QED
  BY <1>1 DEF TypeOK, Stage

\* What the holders of a slot are, spelt out.
LEMMA HolderCases ==
  ASSUME TypeOK, NEW s \in Server, NEW a \in Attempt, OneHolder(s, a)
  PROVE  /\ ~Entry(s, a) =>
              /\ ~Submitting(s, a) /\ ~Ready(s, a)
              /\ \A stage \in Stage : drivers[<<s, a, stage>>] = 0
         /\ Submitting(s, a) =>
              /\ Entry(s, a) /\ ~Ready(s, a)
              /\ \A stage \in Stage : drivers[<<s, a, stage>>] = 0
         /\ Ready(s, a) =>
              /\ Entry(s, a) /\ ~Submitting(s, a)
              /\ \A stage \in Stage : drivers[<<s, a, stage>>] = 0
         /\ \A stage \in Stage : Driver(s, a, stage) =>
              /\ Entry(s, a) /\ ~Submitting(s, a) /\ ~Ready(s, a)
              /\ drivers[<<s, a, stage>>] = 1
              /\ \A other \in Stage \ {stage} : drivers[<<s, a, other>>] = 0
<1> DEFINE l == drivers[<<s, a, "launched">>]
           d == drivers[<<s, a, "driving">>]
           v == drivers[<<s, a, "leaving">>]
           i == IF Submitting(s, a) THEN 1 ELSE 0
           r == IF Ready(s, a) THEN 1 ELSE 0
<1>1. l \in Nat /\ d \in Nat /\ v \in Nat
  BY DriverCounts
<1>2. i + r + l + d + v = IF Entry(s, a) THEN 1 ELSE 0
  BY DEF OneHolder, Holders, Ready
<1>3. i \in {0, 1} /\ r \in {0, 1} /\ (i = 1 <=> Submitting(s, a)) /\ (r = 1 <=> Ready(s, a))
  OBVIOUS
<1> HIDE DEF l, d, v, i, r
<1>4. /\ ~Entry(s, a) => i = 0 /\ r = 0 /\ l = 0 /\ d = 0 /\ v = 0
      /\ i = 1 => Entry(s, a) /\ r = 0 /\ l = 0 /\ d = 0 /\ v = 0
      /\ r = 1 => Entry(s, a) /\ i = 0 /\ l = 0 /\ d = 0 /\ v = 0
      /\ l > 0 => Entry(s, a) /\ i = 0 /\ r = 0 /\ l = 1 /\ d = 0 /\ v = 0
      /\ d > 0 => Entry(s, a) /\ i = 0 /\ r = 0 /\ l = 0 /\ d = 1 /\ v = 0
      /\ v > 0 => Entry(s, a) /\ i = 0 /\ r = 0 /\ l = 0 /\ d = 0 /\ v = 1
  BY <1>1, <1>2, <1>3
<1>5. ASSUME NEW stage \in Stage
      PROVE  \/ stage = "launched" /\ drivers[<<s, a, stage>>] = l
             \/ stage = "driving" /\ drivers[<<s, a, stage>>] = d
             \/ stage = "leaving" /\ drivers[<<s, a, stage>>] = v
  BY DEF Stage, l, d, v
<1>6. ASSUME l = 0, d = 0, v = 0 PROVE \A stage \in Stage : drivers[<<s, a, stage>>] = 0
  BY <1>5, <1>6
<1>7. ASSUME NEW stage \in Stage, Driver(s, a, stage)
      PROVE  /\ Entry(s, a) /\ ~Submitting(s, a) /\ ~Ready(s, a)
             /\ drivers[<<s, a, stage>>] = 1
             /\ \A other \in Stage \ {stage} : drivers[<<s, a, other>>] = 0
  <2>1. drivers[<<s, a, stage>>] > 0
    BY <1>7 DEF Driver
  <2>2. CASE stage = "launched"
    BY <1>3, <1>4, <1>5, <2>1, <2>2
  <2>3. CASE stage = "driving"
    BY <1>3, <1>4, <1>5, <2>1, <2>3
  <2>4. CASE stage = "leaving"
    BY <1>3, <1>4, <1>5, <2>1, <2>4
  <2> QED
    BY <2>2, <2>3, <2>4 DEF Stage
<1> QED
  BY <1>3, <1>4, <1>6, <1>7

\* One goroutine of s that drives a is now at another stage.
Moved(s, a, from, to) ==
  /\ drivers' \in [Server \X Attempt \X Stage -> Nat]
  /\ drivers'[<<s, a, from>>] = drivers[<<s, a, from>>] - 1
  /\ drivers'[<<s, a, to>>] = drivers[<<s, a, to>>] + 1
  /\ \A d \in Server \X Attempt \X Stage :
       d \notin {<<s, a, from>>, <<s, a, to>>} => drivers'[d] = drivers[d]

\* Driving goes from one stage to another: nobody comes or goes.
LEMMA StepMoves ==
  ASSUME TypeOK, NEW s \in Server, NEW a \in Attempt,
         NEW from \in Stage, NEW to \in Stage, from # to,
         Driver(s, a, from), Step(s, a, from, to)
  PROVE  Moved(s, a, from, to)
<1> DEFINE D == Server \X Attempt \X Stage
           f == <<s, a, from>>
           t == <<s, a, to>>
<1>1. f \in D /\ t \in D /\ f # t
  OBVIOUS
<1>2. drivers \in [D -> Nat] /\ drivers[f] > 0
  BY DEF TypeOK, Driver
<1>3. drivers' = [[drivers EXCEPT ![f] = drivers[f] - 1] EXCEPT ![t] = drivers[t] + 1]
  BY <1>1, <1>2 DEF Step
<1> HIDE DEF D, f, t
<1>4. drivers[f] - 1 \in Nat /\ drivers[t] + 1 \in Nat
  BY <1>1, <1>2
<1>5. /\ drivers' \in [D -> Nat]
      /\ drivers'[f] = drivers[f] - 1 /\ drivers'[t] = drivers[t] + 1
      /\ \A d \in D : d \notin {f, t} => drivers'[d] = drivers[d]
  BY <1>1, <1>2, <1>3, <1>4
<1> QED
  BY <1>5 DEF D, f, t, Moved

\* Goroutines are started for the given runs of one replica.
LEMMA LaunchedAdds ==
  ASSUME TypeOK, NEW s \in Server, NEW started \in SUBSET Attempt,
         drivers' = Launched(s, started)
  PROVE  /\ drivers' \in [Server \X Attempt \X Stage -> Nat]
         /\ \A t \in Server, b \in Attempt, stage \in Stage :
              drivers'[<<t, b, stage>>] =
                IF t = s /\ b \in started /\ stage = "launched"
                THEN drivers[<<t, b, stage>>] + 1 ELSE drivers[<<t, b, stage>>]
<1> DEFINE D == Server \X Attempt \X Stage
<1>1. DOMAIN drivers = D /\ drivers \in [D -> Nat]
  BY DEF TypeOK
<1>2. drivers' \in [D -> Nat]
  BY <1>1 DEF Launched
<1>3. ASSUME NEW t \in Server, NEW b \in Attempt, NEW stage \in Stage
      PROVE  drivers'[<<t, b, stage>>] =
                IF t = s /\ b \in started /\ stage = "launched"
                THEN drivers[<<t, b, stage>>] + 1 ELSE drivers[<<t, b, stage>>]
  <2>1. <<t, b, stage>> \in D
    OBVIOUS
  <2> QED
    BY <1>1, <2>1 DEF Launched
<1> QED
  BY <1>2, <1>3

\* What the map says of a slot after an entry was written: Server s, entries and
\* flags of s.
LEMMA MapWritten ==
  ASSUME SlotInv, NEW s \in Server, NEW entries \in SUBSET Attempt, NEW ready \in SUBSET entries,
         active' = [active EXCEPT ![s] = [entries |-> entries, ready |-> ready]],
         IsFiniteSet(entries), Cardinality(entries) <= Concurrency[s]
  PROVE  /\ Bounded'
         /\ \A b \in Attempt : (Entry(s, b)' <=> b \in entries) /\ (Ready(s, b)' <=> b \in ready)
         /\ \A t \in Server \ {s}, b \in Attempt :
              (Entry(t, b)' <=> Entry(t, b)) /\ (Ready(t, b)' <=> Ready(t, b))
<1>1. active \in [Server -> [entries : SUBSET Attempt, ready : SUBSET Attempt]]
  BY DEF SlotInv, TypeOK
<1>2. active'[s] = [entries |-> entries, ready |-> ready]
  BY <1>1
<1>3. \A t \in Server \ {s} : active'[t] = active[t]
  BY <1>1
<1>4. active' \in [Server -> [entries : SUBSET Attempt, ready : SUBSET Attempt]]
  BY <1>1
<1>5. active'[s].entries = entries /\ active'[s].ready = ready
  BY <1>2
<1>6. \A t \in Server \ {s} : active'[t].entries = active[t].entries /\ active'[t].ready = active[t].ready
  BY <1>3
<1>7. Bounded'
  BY <1>4, <1>5, <1>6 DEF Bounded, SlotInv, TypeOK, Finite
<1> QED
  BY <1>5, <1>6, <1>7 DEF Entry, Ready

\* reserve adds an entry within the limit.
LEMMA ReserveAdds ==
  ASSUME SlotInv, NEW s \in Server, NEW a \in Attempt, Admits(s, a), Reserve(s, a)
  PROVE  /\ Bounded' /\ ~Entry(s, a) /\ Entry(s, a)'
         /\ \A t \in Server, b \in Attempt :
              /\ Ready(t, b)' <=> Ready(t, b)
              /\ <<t, b>> # <<s, a>> => (Entry(t, b)' <=> Entry(t, b))
<1> DEFINE entries == active[s].entries \cup {a}
           ready == active[s].ready
<1>1. /\ active[s] = [entries |-> active[s].entries, ready |-> active[s].ready]
      /\ active[s].entries \subseteq Attempt /\ ready \subseteq active[s].entries
      /\ IsFiniteSet(active[s].entries) /\ active \in [Server -> [entries : SUBSET Attempt, ready : SUBSET Attempt]]
  BY DEF SlotInv, TypeOK, Finite
<1>2. active' = [active EXCEPT ![s] = [entries |-> entries, ready |-> ready]]
  <2>1. [active[s] EXCEPT !.entries = entries] = [entries |-> entries, ready |-> ready]
    BY <1>1
  <2>2. active' = [active EXCEPT ![s] = [active[s] EXCEPT !.entries = entries]]
    BY DEF Reserve
  <2> QED
    BY <2>1, <2>2
<1>3. a \notin active[s].entries /\ Cardinality(active[s].entries) < Concurrency[s]
  BY DEF Admits
<1>4. IsFiniteSet(entries) /\ Cardinality(entries) = Cardinality(active[s].entries) + 1
  BY <1>1, <1>3, FS_AddElement
<1>5. Cardinality(entries) <= Concurrency[s]
  <2>1. Cardinality(active[s].entries) \in Nat /\ Concurrency[s] \in Nat
    BY <1>1, FS_CardinalityType, SlotsAssumption
  <2> QED
    BY <1>3, <1>4, <2>1
<1>6. /\ Bounded'
      /\ \A b \in Attempt : (Entry(s, b)' <=> b \in entries) /\ (Ready(s, b)' <=> b \in ready)
      /\ \A t \in Server \ {s}, b \in Attempt :
              (Entry(t, b)' <=> Entry(t, b)) /\ (Ready(t, b)' <=> Ready(t, b))
  <2>1. entries \in SUBSET Attempt /\ ready \in SUBSET entries
    BY <1>1
  <2> HIDE DEF entries, ready
  <2> QED
    BY <1>2, <1>4, <1>5, <2>1, MapWritten
<1> QED
  BY <1>3, <1>6 DEF Entry, Ready

\* release drops the entry and its flag.
LEMMA ReleaseDrops ==
  ASSUME SlotInv, NEW s \in Server, NEW a \in Attempt, Release(s, a)
  PROVE  /\ Bounded' /\ ~Entry(s, a)' /\ ~Ready(s, a)'
         /\ \A t \in Server, b \in Attempt : <<t, b>> # <<s, a>> =>
              (Entry(t, b)' <=> Entry(t, b)) /\ (Ready(t, b)' <=> Ready(t, b))
<1> DEFINE entries == active[s].entries \ {a}
           ready == active[s].ready \ {a}
<1>1. /\ active[s].entries \subseteq Attempt /\ active[s].ready \subseteq active[s].entries
      /\ IsFiniteSet(active[s].entries) /\ Cardinality(active[s].entries) <= Concurrency[s]
  BY DEF SlotInv, TypeOK, Finite
<1>2. active' = [active EXCEPT ![s] = [entries |-> entries, ready |-> ready]]
  BY DEF Release
<1>3. IsFiniteSet(entries) /\ Cardinality(entries) <= Cardinality(active[s].entries)
  BY <1>1, FS_Subset
<1>4. Cardinality(entries) <= Concurrency[s]
  <2>1. Cardinality(active[s].entries) \in Nat /\ Cardinality(entries) \in Nat
        /\ Concurrency[s] \in Nat
    BY <1>1, <1>3, FS_CardinalityType, SlotsAssumption
  <2> QED
    BY <1>1, <1>3, <2>1
<1>5. entries \in SUBSET Attempt /\ ready \in SUBSET entries
  BY <1>1
<1>6. /\ Bounded'
      /\ \A b \in Attempt : (Entry(s, b)' <=> b \in entries) /\ (Ready(s, b)' <=> b \in ready)
      /\ \A t \in Server \ {s}, b \in Attempt :
              (Entry(t, b)' <=> Entry(t, b)) /\ (Ready(t, b)' <=> Ready(t, b))
  <2> HIDE DEF entries, ready
  <2> QED
    BY <1>2, <1>3, <1>4, <1>5, MapWritten
<1> QED
  BY <1>6 DEF Entry, Ready

\* Without a change of the map everything it says stays.
LEMMA MapKept ==
  ASSUME SlotInv, active' = active
  PROVE  /\ Bounded'
         /\ \A t \in Server, b \in Attempt :
              (Entry(t, b)' <=> Entry(t, b)) /\ (Ready(t, b)' <=> Ready(t, b))
  BY DEF SlotInv, TypeOK, Finite, Bounded, Entry, Ready

\* A slot has one holder if the step left it alone or gave it one.
LEMMA HoldersKept ==
  ASSUME SlotInv, \A t \in Server, b \in Attempt : Untouched(t, b) \/ OneHolder(t, b)'
  PROVE  OneHolderPerSlot'
<1>1. \A t \in Server, b \in Attempt : OneHolder(t, b)
  BY DEF SlotInv, OneHolderPerSlot, OneHolder, Entry
<1>2. \A t \in Server, b \in Attempt : OneHolder(t, b)'
  BY <1>1, UntouchedKeeps
<1> QED
  BY <1>2 DEF OneHolderPerSlot, OneHolder, Entry

\* What a scan has found stays committed.
LEMMA LoopGrows ==
  ASSUME TypeOK, loop' = loop, rows \subseteq rows'
  PROVE  loop' \in [Server -> [at : {"ready"}] \cup [at : {"scan"}, limit : Nat \ {0}]
                             \cup [at : {"launch"}, found : SUBSET rows']]
<1>1. [at : {"launch"}, found : SUBSET rows] \subseteq [at : {"launch"}, found : SUBSET rows']
  OBVIOUS
<1> QED
  BY <1>1 DEF TypeOK

-----------------------------------------------------------------------------
\* Submissions.

SubmitRecord == [at : {"new", "done"}] \cup [at : {"open", "committed", "failed"}, server : Server]

\* Only the attempt that moves can gain or lose a slot.
LEMMA SubmitWritten ==
  ASSUME TypeOK, NEW a \in Attempt, NEW r \in SubmitRecord, submit' = [submit EXCEPT ![a] = r]
  PROVE  /\ submit' \in [Attempt -> SubmitRecord]
         /\ submit'[a] = r
         /\ \A b \in Attempt \ {a} : submit'[b] = submit[b]
         /\ \A t \in Server, b \in Attempt \ {a} : Submitting(t, b)' <=> Submitting(t, b)
<1>1. submit \in [Attempt -> SubmitRecord]
  BY DEF TypeOK, SubmitRecord
<1>2. /\ submit' \in [Attempt -> SubmitRecord] /\ submit'[a] = r
      /\ \A b \in Attempt \ {a} : submit'[b] = submit[b]
  BY <1>1
<1> QED
  BY <1>2 DEF Submitting

\* An attempt that has a slot knows on which replica.
LEMMA SubmittingServer ==
  ASSUME TypeOK, NEW a \in Attempt, submit[a].at \in {"open", "committed", "failed"}
  PROVE  /\ submit[a].server \in Server
         /\ submit[a] = [at |-> submit[a].at, server |-> submit[a].server]
         /\ \A t \in Server : Submitting(t, a) <=> t = submit[a].server
<1>1. submit[a] \in SubmitRecord
  BY DEF TypeOK, SubmitRecord
<1>2. submit[a] \in [at : {"open", "committed", "failed"}, server : Server]
  BY <1>1 DEF SubmitRecord
<1> QED
  BY <1>2 DEF Submitting

\* A new submission takes a slot that had no holder, or none.
LEMMA AdmitKeeps ==
  ASSUME SlotInv, NEW s \in Server, NEW a \in Attempt, Admit(s, a) PROVE SlotInv'
<1> USE DEF SlotInv
<1>1. /\ submit[a].at = "new"
      /\ UNCHANGED <<rows, ended, lease, loop, drivers, faults>>
      /\ \/ Reserve(s, a) /\ Admits(s, a) /\ submit' = [submit EXCEPT ![a] = [at |-> "open", server |-> s]]
         \/ submit' = [submit EXCEPT ![a] = [at |-> "done"]] /\ active' = active
  BY DEF Admit, At, store
<1>2. \A t \in Server : ~Submitting(t, a)
  BY <1>1 DEF Submitting
<1>3. \A t \in Server, b \in Attempt, stage \in Stage : drivers'[<<t, b, stage>>] = drivers[<<t, b, stage>>]
  BY <1>1
<1>4. CASE Reserve(s, a) /\ Admits(s, a) /\ submit' = [submit EXCEPT ![a] = [at |-> "open", server |-> s]]
  <2>1. [at |-> "open", server |-> s] \in SubmitRecord
    BY DEF SubmitRecord
  <2>2. /\ submit' \in [Attempt -> SubmitRecord]
        /\ submit'[a] = [at |-> "open", server |-> s]
        /\ \A b \in Attempt \ {a} : submit'[b] = submit[b]
        /\ \A t \in Server, b \in Attempt \ {a} : Submitting(t, b)' <=> Submitting(t, b)
    BY <1>4, <2>1, SubmitWritten
  <2>3. \A t \in Server : Submitting(t, a)' <=> t = s
    BY <2>2 DEF Submitting
  <2>4. /\ Bounded' /\ ~Entry(s, a) /\ Entry(s, a)'
        /\ \A t \in Server, b \in Attempt :
              /\ Ready(t, b)' <=> Ready(t, b)
              /\ <<t, b>> # <<s, a>> => (Entry(t, b)' <=> Entry(t, b))
    BY <1>4, ReserveAdds
  <2>5. \A t \in Server, b \in Attempt : <<t, b>> # <<s, a>> => Untouched(t, b)
    BY <1>2, <1>3, <2>2, <2>3, <2>4 DEF Untouched
  <2>6. OneHolder(s, a)'
    <3>1. OneHolder(s, a)
      BY DEF OneHolderPerSlot, OneHolder, Entry
    <3>2. ~Ready(s, a) /\ \A stage \in Stage : drivers[<<s, a, stage>>] = 0
      BY <2>4, <3>1, HolderCases
    <3>3. /\ drivers'[<<s, a, "launched">>] = 0 /\ drivers'[<<s, a, "driving">>] = 0
          /\ drivers'[<<s, a, "leaving">>] = 0
      BY <1>1, <3>2 DEF Stage
    <3> QED
      BY <2>3, <2>4, <3>2, <3>3 DEF OneHolder, Holders, Ready
  <2>7. OneHolderPerSlot'
    BY <2>5, <2>6, HoldersKept
  <2>8. TypeOK' /\ Finite'
    BY <1>1, <2>2, <2>4 DEF TypeOK, Finite, Bounded, SubmitRecord
  <2>9. Committed'
    <3>1. \A t \in Server : active'[t].ready \subseteq rows
      BY <2>4 DEF Committed, Ready, Bounded
    <3> QED
      BY <1>1, <2>2, <3>1 DEF Committed, Driver
  <2> QED
    BY <2>7, <2>8, <2>9
<1>5. CASE submit' = [submit EXCEPT ![a] = [at |-> "done"]] /\ active' = active
  <2>1. [at |-> "done"] \in SubmitRecord
    BY DEF SubmitRecord
  <2>2. /\ submit' \in [Attempt -> SubmitRecord]
        /\ submit'[a] = [at |-> "done"]
        /\ \A b \in Attempt \ {a} : submit'[b] = submit[b]
        /\ \A t \in Server, b \in Attempt \ {a} : Submitting(t, b)' <=> Submitting(t, b)
    BY <1>5, <2>1, SubmitWritten
  <2>3. \A t \in Server : ~Submitting(t, a)'
    BY <2>2 DEF Submitting
  <2>4. \A t \in Server, b \in Attempt : Untouched(t, b)
    BY <1>2, <1>3, <1>5, <2>2, <2>3, MapKept DEF Untouched
  <2>5. OneHolderPerSlot'
    BY <2>4, HoldersKept
  <2> QED
    BY <1>1, <1>5, <2>2, <2>5 DEF TypeOK, Finite, SubmitRecord, Committed, Driver
<1> QED
  BY <1>1, <1>4, <1>5

\* A commit, known or not, leaves the slots alone.
LEMMA CommitKeeps ==
  ASSUME SlotInv, NEW a \in Attempt, Commit(a) \/ CommitFails(a) PROVE SlotInv'
<1> USE DEF SlotInv
<1>1. PICK place \in {"committed", "failed"} : submit' = [submit EXCEPT ![a].at = place]
  BY DEF Commit, CommitFails, Move
<1>2. /\ UNCHANGED <<ended, lease, active, loop, drivers>> /\ submit[a].at = "open"
      /\ rows \subseteq rows' /\ rows' \subseteq rows \cup {a} /\ faults' \in 0..MaxFaults
  BY SlotsAssumption DEF Commit, CommitFails, Faulty, At, TypeOK
<1>3. place = "committed" => a \in rows'
  <2>1. CASE Commit(a)
    BY <2>1 DEF Commit
  <2>2. CASE CommitFails(a)
    <3>1. submit'[a].at = "failed"
      BY <2>2 DEF CommitFails, Move, TypeOK
    <3>2. submit'[a].at = place
      BY <1>1 DEF TypeOK
    <3> QED
      BY <3>1, <3>2
  <2> QED
    BY <2>1, <2>2
<1>4. /\ submit[a].server \in Server
      /\ submit[a] = [at |-> submit[a].at, server |-> submit[a].server]
  BY <1>2, SubmittingServer
<1>5. [submit[a] EXCEPT !.at = place] = [at |-> place, server |-> submit[a].server]
  BY <1>4
<1>6. submit' = [submit EXCEPT ![a] = [at |-> place, server |-> submit[a].server]]
  BY <1>1, <1>5
<1>7. [at |-> place, server |-> submit[a].server] \in SubmitRecord
  BY <1>4 DEF SubmitRecord
<1>8. /\ submit' \in [Attempt -> SubmitRecord]
      /\ submit'[a] = [at |-> place, server |-> submit[a].server]
      /\ \A b \in Attempt \ {a} : submit'[b] = submit[b]
      /\ \A t \in Server, b \in Attempt \ {a} : Submitting(t, b)' <=> Submitting(t, b)
  BY <1>6, <1>7, SubmitWritten
<1>9. \A t \in Server : Submitting(t, a)' <=> Submitting(t, a)
  BY <1>2, <1>8 DEF Submitting
<1>10. \A t \in Server, b \in Attempt : Untouched(t, b)
  BY <1>2, <1>8, <1>9, MapKept DEF Untouched
<1>11. OneHolderPerSlot'
  BY <1>10, HoldersKept
<1>12. loop' \in [Server -> [at : {"ready"}] \cup [at : {"scan"}, limit : Nat \ {0}]
                            \cup [at : {"launch"}, found : SUBSET rows']]
  BY <1>2, LoopGrows
<1>13. TypeOK' /\ Finite'
  BY <1>2, <1>8, <1>12 DEF TypeOK, Finite, SubmitRecord
<1>14. Committed'
  BY <1>2, <1>3, <1>8 DEF Committed, Driver
<1> QED
  BY <1>11, <1>13, <1>14

\* A failed submission gives its slot back.
LEMMA GiveBackKeeps ==
  ASSUME SlotInv, NEW a \in Attempt, GiveBack(a) PROVE SlotInv'
<1> USE DEF SlotInv
<1>1. submit[a].at = "failed"
  BY DEF GiveBack, At
<1>2. PICK s \in Server : s = submit[a].server
  BY <1>1, SubmittingServer
<1>3. /\ Release(s, a)
      /\ submit' = [submit EXCEPT ![a] = [at |-> "done"]]
      /\ UNCHANGED <<rows, ended, lease, loop, drivers, faults>>
  BY <1>2 DEF GiveBack, store
<1>4. \A t \in Server : Submitting(t, a) <=> t = s
  BY <1>1, <1>2, SubmittingServer
<1>5. [at |-> "done"] \in SubmitRecord
  BY DEF SubmitRecord
<1>6. /\ submit' \in [Attempt -> SubmitRecord] /\ submit'[a] = [at |-> "done"]
      /\ \A b \in Attempt \ {a} : submit'[b] = submit[b]
      /\ \A t \in Server, b \in Attempt \ {a} : Submitting(t, b)' <=> Submitting(t, b)
  BY <1>3, <1>5, SubmitWritten
<1>7. \A t \in Server : ~Submitting(t, a)'
  BY <1>6 DEF Submitting
<1>8. /\ Bounded' /\ ~Entry(s, a)' /\ ~Ready(s, a)'
      /\ \A t \in Server, b \in Attempt : <<t, b>> # <<s, a>> =>
           (Entry(t, b)' <=> Entry(t, b)) /\ (Ready(t, b)' <=> Ready(t, b))
  BY <1>3, <1>4, ReleaseDrops
<1>9. \A t \in Server, b \in Attempt : <<t, b>> # <<s, a>> => Untouched(t, b)
  BY <1>3, <1>4, <1>6, <1>7, <1>8 DEF Untouched
<1>10. OneHolder(s, a)'
  <2>1. OneHolder(s, a) /\ Submitting(s, a)
    BY <1>4 DEF OneHolderPerSlot, OneHolder, Entry
  <2>2. \A stage \in Stage : drivers[<<s, a, stage>>] = 0
    BY <1>4, <2>1, HolderCases
  <2>3. /\ drivers'[<<s, a, "launched">>] = 0 /\ drivers'[<<s, a, "driving">>] = 0
        /\ drivers'[<<s, a, "leaving">>] = 0
    BY <1>3, <2>2 DEF Stage
  <2> QED
    BY <1>4, <1>7, <1>8, <2>3 DEF OneHolder, Holders, Ready
<1>11. OneHolderPerSlot'
  BY <1>9, <1>10, HoldersKept
<1>12. TypeOK' /\ Finite'
  BY <1>3, <1>6, <1>8 DEF TypeOK, Finite, Bounded, SubmitRecord
<1>13. Committed'
  <2>1. \A t \in Server : active'[t].ready \subseteq rows
    BY <1>8 DEF Committed, Ready, Bounded
  <2> QED
    BY <1>3, <1>6, <2>1 DEF Committed, Driver
<1> QED
  BY <1>11, <1>12, <1>13

\* A committed submission hands its slot to Run: the flag holds it.
LEMMA HandOverKeeps ==
  ASSUME SlotInv, NEW a \in Attempt, HandOver(a) PROVE SlotInv'
<1> USE DEF SlotInv
<1>1. submit[a].at = "committed"
  BY DEF HandOver, At
<1>2. PICK s \in Server : s = submit[a].server
  BY <1>1, SubmittingServer
<1> DEFINE entries == active[s].entries \cup {a}
           ready == active[s].ready \cup {a}
<1>3. /\ active' = [active EXCEPT ![s] = [entries |-> entries, ready |-> ready]]
      /\ submit' = [submit EXCEPT ![a] = [at |-> "done"]]
      /\ UNCHANGED <<rows, ended, lease, loop, drivers, faults>>
  BY <1>2 DEF HandOver, store
<1>4. \A t \in Server : Submitting(t, a) <=> t = s
  BY <1>1, <1>2, SubmittingServer
<1>5. [at |-> "done"] \in SubmitRecord
  BY DEF SubmitRecord
<1>6. /\ submit' \in [Attempt -> SubmitRecord] /\ submit'[a] = [at |-> "done"]
      /\ \A b \in Attempt \ {a} : submit'[b] = submit[b]
      /\ \A t \in Server, b \in Attempt \ {a} : Submitting(t, b)' <=> Submitting(t, b)
  BY <1>3, <1>5, SubmitWritten
<1>7. \A t \in Server : ~Submitting(t, a)'
  BY <1>6 DEF Submitting
<1>8. OneHolder(s, a) /\ Submitting(s, a)
  BY <1>4 DEF OneHolderPerSlot, OneHolder, Entry
<1>9. Entry(s, a) /\ \A stage \in Stage : drivers[<<s, a, stage>>] = 0
  BY <1>4, <1>8, HolderCases
<1>10. /\ entries = active[s].entries /\ entries \in SUBSET Attempt /\ ready \in SUBSET entries
       /\ IsFiniteSet(entries) /\ Cardinality(entries) <= Concurrency[s]
  BY <1>4, <1>9 DEF TypeOK, Finite, Entry
<1>11. /\ Bounded'
       /\ \A b \in Attempt : (Entry(s, b)' <=> b \in entries) /\ (Ready(s, b)' <=> b \in ready)
       /\ \A t \in Server \ {s}, b \in Attempt :
              (Entry(t, b)' <=> Entry(t, b)) /\ (Ready(t, b)' <=> Ready(t, b))
  <2> HIDE DEF entries, ready
  <2> QED
    BY <1>3, <1>4, <1>10, MapWritten
<1>12. /\ Entry(s, a)' /\ Ready(s, a)'
       /\ \A t \in Server, b \in Attempt : <<t, b>> # <<s, a>> =>
            (Entry(t, b)' <=> Entry(t, b)) /\ (Ready(t, b)' <=> Ready(t, b))
  BY <1>4, <1>10, <1>11 DEF Entry, Ready
<1> HIDE DEF entries, ready
<1>13. \A t \in Server, b \in Attempt : <<t, b>> # <<s, a>> => Untouched(t, b)
  BY <1>3, <1>4, <1>6, <1>7, <1>12 DEF Untouched
<1>14. OneHolder(s, a)'
  <2>1. /\ drivers'[<<s, a, "launched">>] = 0 /\ drivers'[<<s, a, "driving">>] = 0
        /\ drivers'[<<s, a, "leaving">>] = 0
    BY <1>3, <1>9 DEF Stage
  <2> QED
    BY <1>4, <1>7, <1>12, <2>1 DEF OneHolder, Holders, Ready
<1>15. OneHolderPerSlot'
  BY <1>13, <1>14, HoldersKept
<1>16. TypeOK' /\ Finite'
  BY <1>3, <1>6, <1>11 DEF TypeOK, Finite, Bounded, SubmitRecord
<1>17. Committed'
  <2>1. a \in rows
    BY <1>1 DEF Committed
  <2>2. \A t \in Server : active'[t].ready \subseteq rows
    BY <1>11, <1>12, <2>1 DEF Committed, Ready, Bounded
  <2> QED
    BY <1>3, <1>6, <2>2 DEF Committed, Driver
<1> QED
  BY <1>15, <1>16, <1>17

-----------------------------------------------------------------------------
\* Run's loop.

LoopRecord == [at : {"ready"}] \cup [at : {"scan"}, limit : Nat \ {0}]
              \cup [at : {"launch"}, found : SUBSET rows]

\* A scan is limited to the slots that were free.
LEMMA LookType ==
  ASSUME SlotInv, NEW s \in Server, Look(s), rows' = rows
  PROVE  loop' \in [Server -> LoopRecord']
<1> DEFINE held == Cardinality(active[s].entries)
<1>1. held \in Nat /\ Concurrency[s] \in Nat
  BY FS_CardinalityType, SlotsAssumption DEF SlotInv, Finite
<1>2. held < Concurrency[s] => Concurrency[s] - held \in Nat \ {0}
  BY <1>1
<1>3. loop' = [loop EXCEPT ![s] = IF held >= Concurrency[s]
                                  THEN [at |-> "ready"]
                                  ELSE [at |-> "scan", limit |-> Concurrency[s] - held]]
  BY DEF Look
<1> HIDE DEF held
<1>4. (IF held >= Concurrency[s] THEN [at |-> "ready"]
       ELSE [at |-> "scan", limit |-> Concurrency[s] - held]) \in LoopRecord
  BY <1>1, <1>2 DEF LoopRecord
<1> QED
  BY <1>3, <1>4 DEF SlotInv, TypeOK, LoopRecord

\* A launched run takes over the slot its flag held.
LEMMA LaunchReadyKeeps ==
  ASSUME SlotInv, NEW s \in Server, LaunchReady(s) PROVE SlotInv'
<1> USE DEF SlotInv
<1> DEFINE entries == active[s].entries
           started == active[s].ready
<1>1. /\ drivers' = Launched(s, started)
      /\ active' = [active EXCEPT ![s].ready = {}] /\ Look(s)
      /\ UNCHANGED <<rows, ended, lease, submit, faults>>
  BY DEF LaunchReady, store
<1>2. /\ entries \in SUBSET Attempt /\ started \in SUBSET Attempt
      /\ IsFiniteSet(entries) /\ Cardinality(entries) <= Concurrency[s]
  BY DEF TypeOK, Finite
<1>3. active' = [active EXCEPT ![s] = [entries |-> entries, ready |-> {}]]
  <2>1. active[s] \in [entries : SUBSET Attempt, ready : SUBSET Attempt]
    BY DEF TypeOK
  <2>2. [active[s] EXCEPT !.ready = {}] = [entries |-> entries, ready |-> {}]
    BY <2>1
  <2> QED
    BY <1>1, <2>2
<1>4. /\ Bounded'
      /\ \A b \in Attempt : (Entry(s, b)' <=> Entry(s, b)) /\ ~Ready(s, b)'
      /\ \A t \in Server \ {s}, b \in Attempt :
              (Entry(t, b)' <=> Entry(t, b)) /\ (Ready(t, b)' <=> Ready(t, b))
  <2>1. {} \in SUBSET entries
    OBVIOUS
  <2>2. /\ Bounded'
        /\ \A b \in Attempt : (Entry(s, b)' <=> b \in entries) /\ (Ready(s, b)' <=> b \in {})
        /\ \A t \in Server \ {s}, b \in Attempt :
              (Entry(t, b)' <=> Entry(t, b)) /\ (Ready(t, b)' <=> Ready(t, b))
    <3> HIDE DEF entries
    <3> QED
      BY <1>2, <1>3, <2>1, MapWritten
  <2> QED
    BY <2>2 DEF Entry
<1>5. /\ drivers' \in [Server \X Attempt \X Stage -> Nat]
      /\ \A t \in Server, b \in Attempt, stage \in Stage :
           drivers'[<<t, b, stage>>] =
             IF t = s /\ b \in started /\ stage = "launched"
             THEN drivers[<<t, b, stage>>] + 1 ELSE drivers[<<t, b, stage>>]
  <2> HIDE DEF started
  <2> QED
    BY <1>1, <1>2, LaunchedAdds
<1>6. \A t \in Server, b \in Attempt : Submitting(t, b)' <=> Submitting(t, b)
  BY <1>1 DEF Submitting
<1>7. \A t \in Server, b \in Attempt : t # s \/ ~Ready(s, b) => Untouched(t, b)
  BY <1>4, <1>5, <1>6 DEF Untouched, Ready
<1>8. ASSUME NEW b \in Attempt, Ready(s, b) PROVE OneHolder(s, b)'
  <2>1. OneHolder(s, b)
    BY DEF OneHolderPerSlot, OneHolder, Entry
  <2>2. Entry(s, b) /\ ~Submitting(s, b) /\ \A stage \in Stage : drivers[<<s, b, stage>>] = 0
    BY <1>8, <2>1, HolderCases
  <2>3. /\ drivers'[<<s, b, "launched">>] = 1 /\ drivers'[<<s, b, "driving">>] = 0
        /\ drivers'[<<s, b, "leaving">>] = 0
    BY <1>5, <1>8, <2>2 DEF Stage, Ready
  <2> QED
    BY <1>4, <1>6, <2>2, <2>3 DEF OneHolder, Holders, Ready
<1>9. OneHolderPerSlot'
  BY <1>7, <1>8, HoldersKept
<1>10. loop' \in [Server -> LoopRecord']
  BY <1>1, LookType
<1>11. TypeOK' /\ Finite'
  BY <1>1, <1>4, <1>5, <1>10 DEF TypeOK, Finite, Bounded, LoopRecord
<1>12. Committed'
  <2>1. \A t \in Server : active'[t].ready \subseteq rows
    BY <1>4 DEF Committed, Ready, Bounded
  <2>2. ASSUME NEW t \in Server, NEW b \in Attempt, NEW stage \in Stage, Driver(t, b, stage)'
        PROVE  b \in rows
    BY <1>5, <2>2 DEF Committed, Driver
  <2> QED
    BY <1>1, <2>1, <2>2 DEF Committed
<1> QED
  BY <1>9, <1>11, <1>12

\* What a scan finds is committed.
LEMMA ScanKeeps ==
  ASSUME SlotInv, NEW s \in Server, Scan(s) PROVE SlotInv'
<1> USE DEF SlotInv
<1>1. PICK found \in SUBSET Runnable : loop' = [loop EXCEPT ![s] = [at |-> "launch", found |-> found]]
  BY DEF Scan
<1>2. UNCHANGED <<rows, ended, lease, active, submit, drivers, faults>>
  BY DEF Scan, store
<1>3. [at |-> "launch", found |-> found] \in LoopRecord
  BY DEF LoopRecord, Runnable
<1>4. loop' \in [Server -> LoopRecord]
  BY <1>1, <1>3 DEF TypeOK, LoopRecord
<1>5. TypeOK' /\ Finite' /\ Committed'
  BY <1>2, <1>4 DEF TypeOK, LoopRecord, Finite, Committed, Driver
<1>6. \A t \in Server, b \in Attempt : Untouched(t, b)
  BY <1>2, MapKept DEF Untouched, Submitting
<1> QED
  BY <1>5, <1>6, HoldersKept

\* A run that was found is launched if it has no entry: the flag, a goroutine
\* and a submission all have one.
LEMMA LaunchKeeps ==
  ASSUME SlotInv, NEW s \in Server, Launch(s) PROVE SlotInv'
<1> USE DEF SlotInv
<1>1. UNCHANGED <<rows, ended, lease, submit, faults>> /\ loop[s].at = "launch"
  BY DEF Launch, store
<1>2. \A t \in Server, b \in Attempt : Submitting(t, b)' <=> Submitting(t, b)
  BY <1>1 DEF Submitting
<1>3. CASE loop' = [loop EXCEPT ![s] = [at |-> "ready"]] /\ active' = active /\ drivers' = drivers
  <2>1. loop' \in [Server -> LoopRecord]
    BY <1>3 DEF TypeOK, LoopRecord
  <2>2. TypeOK' /\ Finite' /\ Committed'
    BY <1>1, <1>3, <2>1 DEF TypeOK, LoopRecord, Finite, Committed, Driver
  <2>3. \A t \in Server, b \in Attempt : Untouched(t, b)
    BY <1>2, <1>3, MapKept DEF Untouched
  <2> QED
    BY <2>2, <2>3, HoldersKept
<1>4. CASE \E a \in loop[s].found :
             /\ loop' = [loop EXCEPT ![s].found = @ \ {a}]
             /\ \/ Admits(s, a) /\ Reserve(s, a) /\ drivers' = Launched(s, {a})
                \/ active' = active /\ drivers' = drivers
  <2>1. PICK a \in loop[s].found :
             /\ loop' = [loop EXCEPT ![s].found = @ \ {a}]
             /\ \/ Admits(s, a) /\ Reserve(s, a) /\ drivers' = Launched(s, {a})
                \/ active' = active /\ drivers' = drivers
    BY <1>4
  <2>2. loop[s] \in [at : {"launch"}, found : SUBSET rows]
    <3>1. loop[s] \in LoopRecord
      BY DEF TypeOK, LoopRecord
    <3> QED
      BY <1>1, <3>1 DEF LoopRecord
  <2>3. a \in rows /\ a \in Attempt
    BY <2>2 DEF TypeOK
  <2>4. loop' \in [Server -> LoopRecord]
    <3> DEFINE found == loop[s].found \ {a}
    <3>1. [loop[s] EXCEPT !.found = found] = [at |-> "launch", found |-> found]
      BY <1>1, <2>2
    <3>2. loop' = [loop EXCEPT ![s] = [at |-> "launch", found |-> found]]
      BY <2>1, <3>1
    <3>3. [at |-> "launch", found |-> found] \in LoopRecord
      BY <2>2 DEF LoopRecord
    <3> HIDE DEF found
    <3> QED
      BY <3>2, <3>3 DEF TypeOK, LoopRecord
  <2>5. CASE active' = active /\ drivers' = drivers
    <3>1. TypeOK' /\ Finite' /\ Committed'
      BY <1>1, <2>4, <2>5 DEF TypeOK, LoopRecord, Finite, Committed, Driver
    <3>2. \A t \in Server, b \in Attempt : Untouched(t, b)
      BY <1>2, <2>5, MapKept DEF Untouched
    <3> QED
      BY <3>1, <3>2, HoldersKept
  <2>6. CASE Admits(s, a) /\ Reserve(s, a) /\ drivers' = Launched(s, {a})
    <3>1. /\ Bounded' /\ ~Entry(s, a) /\ Entry(s, a)'
          /\ \A t \in Server, b \in Attempt :
               /\ Ready(t, b)' <=> Ready(t, b)
               /\ <<t, b>> # <<s, a>> => (Entry(t, b)' <=> Entry(t, b))
      BY <2>3, <2>6, ReserveAdds
    <3>2. /\ drivers' \in [Server \X Attempt \X Stage -> Nat]
          /\ \A t \in Server, b \in Attempt, stage \in Stage :
               drivers'[<<t, b, stage>>] =
                 IF t = s /\ b \in {a} /\ stage = "launched"
                 THEN drivers[<<t, b, stage>>] + 1 ELSE drivers[<<t, b, stage>>]
      <4> DEFINE started == {a}
      <4>1. started \in SUBSET Attempt /\ drivers' = Launched(s, started)
        BY <2>3, <2>6
      <4> HIDE DEF started
      <4>2. /\ drivers' \in [Server \X Attempt \X Stage -> Nat]
            /\ \A t \in Server, b \in Attempt, stage \in Stage :
                 drivers'[<<t, b, stage>>] =
                   IF t = s /\ b \in started /\ stage = "launched"
                   THEN drivers[<<t, b, stage>>] + 1 ELSE drivers[<<t, b, stage>>]
        BY <4>1, LaunchedAdds
      <4> QED
        BY <4>2 DEF started
    <3>3. \A t \in Server, b \in Attempt : <<t, b>> # <<s, a>> => Untouched(t, b)
      BY <1>2, <3>1, <3>2 DEF Untouched
    <3>4. OneHolder(s, a)'
      <4>1. OneHolder(s, a)
        BY <2>3 DEF OneHolderPerSlot, OneHolder, Entry
      <4>2. ~Submitting(s, a) /\ ~Ready(s, a) /\ \A stage \in Stage : drivers[<<s, a, stage>>] = 0
        BY <2>3, <3>1, <4>1, HolderCases
      <4>3. /\ drivers'[<<s, a, "launched">>] = 1 /\ drivers'[<<s, a, "driving">>] = 0
            /\ drivers'[<<s, a, "leaving">>] = 0
        BY <2>3, <3>2, <4>2 DEF Stage
      <4> QED
        BY <1>2, <2>3, <3>1, <4>2, <4>3 DEF OneHolder, Holders, Ready
    <3>5. OneHolderPerSlot'
      BY <3>3, <3>4, HoldersKept
    <3>6. TypeOK' /\ Finite'
      BY <1>1, <2>4, <3>1, <3>2 DEF TypeOK, Finite, Bounded, LoopRecord
    <3>7. Committed'
      <4>1. \A t \in Server : active'[t].ready \subseteq rows
        BY <3>1 DEF Committed, Ready, Bounded
      <4>2. ASSUME NEW t \in Server, NEW b \in Attempt, NEW stage \in Stage, Driver(t, b, stage)'
            PROVE  b \in rows
        <5>1. CASE b = a
          BY <2>3, <5>1
        <5>2. CASE b # a
          BY <3>2, <4>2, <5>2 DEF Committed, Driver
        <5> QED
          BY <5>1, <5>2
      <4> QED
        BY <1>1, <4>1, <4>2 DEF Committed
    <3> QED
      BY <3>5, <3>6, <3>7
  <2> QED
    BY <2>1, <2>5, <2>6
<1> QED
  BY <1>3, <1>4 DEF Launch

-----------------------------------------------------------------------------
\* Goroutines.

\* A goroutine that goes on keeps its slot.
LEMMA StepKeepsSlots ==
  ASSUME SlotInv, NEW s \in Server, NEW a \in Attempt,
         NEW from \in Stage, NEW to \in Stage, from # to,
         Driver(s, a, from), Step(s, a, from, to), UNCHANGED <<rows, active, submit>>
  PROVE  /\ drivers' \in [Server \X Attempt \X Stage -> Nat]
         /\ OneHolderPerSlot' /\ Finite' /\ Committed'
<1> USE DEF SlotInv
<1>1. /\ drivers' \in [Server \X Attempt \X Stage -> Nat]
      /\ drivers'[<<s, a, from>>] = drivers[<<s, a, from>>] - 1
      /\ drivers'[<<s, a, to>>] = drivers[<<s, a, to>>] + 1
      /\ \A d \in Server \X Attempt \X Stage :
           d \notin {<<s, a, from>>, <<s, a, to>>} => drivers'[d] = drivers[d]
  <2>1. Moved(s, a, from, to)
    BY StepMoves
  <2> QED
    BY <2>1 DEF Moved
<1>2. ASSUME NEW t \in Server, NEW b \in Attempt, NEW stage \in Stage,
             <<t, b>> # <<s, a>> \/ stage \notin {from, to}
      PROVE  drivers'[<<t, b, stage>>] = drivers[<<t, b, stage>>]
  <2>1. <<t, b, stage>> \in Server \X Attempt \X Stage
    OBVIOUS
  <2>2. <<t, b, stage>> \notin {<<s, a, from>>, <<s, a, to>>}
    BY <1>2
  <2> QED
    BY <1>1, <2>1, <2>2
<1>3. \A t \in Server, b \in Attempt :
        /\ Submitting(t, b)' <=> Submitting(t, b)
        /\ Ready(t, b)' <=> Ready(t, b)
        /\ Entry(t, b)' <=> Entry(t, b)
  BY DEF Submitting, Ready, Entry
<1>4. \A t \in Server, b \in Attempt : <<t, b>> # <<s, a>> => Untouched(t, b)
  BY <1>2, <1>3 DEF Untouched
<1>5. OneHolder(s, a)
  BY DEF OneHolderPerSlot, OneHolder, Entry
<1>6. /\ Entry(s, a) /\ ~Submitting(s, a) /\ ~Ready(s, a)
      /\ drivers[<<s, a, from>>] = 1
      /\ \A other \in Stage \ {from} : drivers[<<s, a, other>>] = 0
  BY <1>5, HolderCases
<1>7. OneHolder(s, a)'
  <2>1. /\ drivers'[<<s, a, from>>] = 0 /\ drivers'[<<s, a, to>>] = 1
        /\ \A other \in Stage \ {from, to} : drivers'[<<s, a, other>>] = 0
    BY <1>1, <1>2, <1>6
  <2>2. drivers'[<<s, a, "launched">>] + drivers'[<<s, a, "driving">>]
          + drivers'[<<s, a, "leaving">>] = 1
    <3> DEFINE n(stage) == drivers'[<<s, a, stage>>]
    <3>1. n(from) = 0 /\ n(to) = 1 /\ \A other \in Stage \ {from, to} : n(other) = 0
      BY <2>1
    <3> HIDE DEF n
    <3>2. n("launched") + n("driving") + n("leaving") = 1
      BY <3>1 DEF Stage
    <3> QED
      BY <3>2 DEF n
  <2>3. /\ drivers'[<<s, a, "launched">>] \in Nat /\ drivers'[<<s, a, "driving">>] \in Nat
        /\ drivers'[<<s, a, "leaving">>] \in Nat
    BY <1>1 DEF Stage
  <2> QED
    BY <1>3, <1>6, <2>2, <2>3 DEF OneHolder, Holders, Ready
<1>8. OneHolderPerSlot'
  BY <1>4, <1>7, HoldersKept
<1>9. Committed'
  <2>1. a \in rows
    BY DEF Committed
  <2>2. ASSUME NEW t \in Server, NEW b \in Attempt, NEW stage \in Stage, Driver(t, b, stage)'
        PROVE  b \in rows
    <3>1. CASE b = a
      BY <2>1, <3>1
    <3>2. CASE b # a
      BY <1>2, <2>2, <3>2 DEF Committed, Driver
    <3> QED
      BY <3>1, <3>2
  <2> QED
    BY <2>2 DEF Committed
<1> QED
  BY <1>1, <1>8, <1>9 DEF Finite

\* The lease is freed, or left to whoever holds it.
LEMMA FreeType ==
  ASSUME TypeOK, NEW s \in Server, NEW a \in Attempt, Free(s, a)
  PROVE  lease' \in [Attempt -> Server \cup {Nobody, Orphan}]
  BY DEF TypeOK, Free

\* Drive, from the launch to the deferred release: one goroutine goes on.
LEMMA DriveKeeps ==
  ASSUME SlotInv, NEW s \in Server, NEW a \in Attempt,
         Acquire(s, a) \/ Finish(s, a) \/ GiveUp(s, a)
  PROVE  SlotInv'
<1> USE DEF SlotInv
<1>1. UNCHANGED <<rows, active, submit, loop>>
  BY DEF Acquire, Finish, GiveUp
<1>2. PICK from \in Stage, to \in Stage : from # to /\ Driver(s, a, from) /\ Step(s, a, from, to)
  <2>1. CASE Acquire(s, a)
    <3>1. Driver(s, a, "launched")
      BY <2>1 DEF Acquire
    <3>2. Step(s, a, "launched", "driving") \/ Step(s, a, "launched", "leaving")
      BY <2>1 DEF Acquire
    <3>3. "launched" \in Stage /\ {"driving", "leaving"} \subseteq Stage
      BY DEF Stage
    <3> QED
      BY <3>1, <3>2, <3>3
  <2>2. CASE Finish(s, a) \/ GiveUp(s, a)
    <3>1. Driver(s, a, "driving") /\ Step(s, a, "driving", "leaving")
      BY <2>2 DEF Finish, GiveUp
    <3>2. "driving" \in Stage /\ "leaving" \in Stage
      BY DEF Stage
    <3> QED
      BY <3>1, <3>2
  <2> QED
    BY <2>1, <2>2
<1>3. /\ drivers' \in [Server \X Attempt \X Stage -> Nat]
      /\ OneHolderPerSlot' /\ Finite' /\ Committed'
  BY <1>1, <1>2, StepKeepsSlots
<1>4. lease' \in [Attempt -> Server \cup {Nobody, Orphan}]
  BY FreeType DEF Acquire, Finish, GiveUp, TypeOK
<1>5. ended' \subseteq rows
  <2>1. CASE Finish(s, a)
    <3>1. a \in rows
      BY <2>1 DEF Finish, Committed, Stage
    <3> QED
      BY <2>1, <3>1 DEF Finish, TypeOK
  <2>2. CASE Acquire(s, a) \/ GiveUp(s, a)
    BY <2>2 DEF Acquire, GiveUp, TypeOK
  <2> QED
    BY <2>1, <2>2
<1>6. faults' \in 0..MaxFaults
  BY SlotsAssumption DEF Acquire, Finish, GiveUp, Faulty, TypeOK
<1>7. TypeOK'
  BY <1>1, <1>3, <1>4, <1>5, <1>6 DEF TypeOK
<1> QED
  BY <1>3, <1>7

\* The goroutine and its entry go together.
LEMMA LeaveKeeps ==
  ASSUME SlotInv, NEW s \in Server, NEW a \in Attempt, Leave(s, a) PROVE SlotInv'
<1> USE DEF SlotInv
<1> DEFINE place == <<s, a, "leaving">>
<1>1. /\ Driver(s, a, "leaving") /\ Release(s, a)
      /\ drivers' = [drivers EXCEPT ![place] = drivers[place] - 1]
      /\ UNCHANGED <<rows, ended, lease, submit, loop, faults>>
  BY DEF Leave, store
<1>2. /\ Entry(s, a) /\ ~Submitting(s, a) /\ ~Ready(s, a) /\ drivers[place] = 1
      /\ \A other \in Stage \ {"leaving"} : drivers[<<s, a, other>>] = 0
  <2>1. OneHolder(s, a)
    BY DEF OneHolderPerSlot, OneHolder, Entry
  <2> QED
    BY <1>1, <2>1, HolderCases DEF Stage
<1>3. place \in Server \X Attempt \X Stage /\ drivers \in [Server \X Attempt \X Stage -> Nat]
  BY DEF Stage, TypeOK
<1>4. /\ drivers' \in [Server \X Attempt \X Stage -> Nat] /\ drivers'[place] = 0
      /\ \A d \in Server \X Attempt \X Stage : d # place => drivers'[d] = drivers[d]
  <2>1. drivers[place] - 1 = 0 /\ 0 \in Nat
    BY <1>2
  <2> HIDE DEF place
  <2> QED
    BY <1>1, <1>3, <2>1
<1>5. \A t \in Server, b \in Attempt, stage \in Stage :
        <<t, b>> # <<s, a>> \/ stage # "leaving" =>
          drivers'[<<t, b, stage>>] = drivers[<<t, b, stage>>]
  BY <1>4
<1>6. /\ Bounded' /\ ~Entry(s, a)' /\ ~Ready(s, a)'
      /\ \A t \in Server, b \in Attempt : <<t, b>> # <<s, a>> =>
           (Entry(t, b)' <=> Entry(t, b)) /\ (Ready(t, b)' <=> Ready(t, b))
  BY <1>1, ReleaseDrops
<1>7. \A t \in Server, b \in Attempt : Submitting(t, b)' <=> Submitting(t, b)
  BY <1>1 DEF Submitting
<1>8. \A t \in Server, b \in Attempt : <<t, b>> # <<s, a>> => Untouched(t, b)
  BY <1>5, <1>6, <1>7 DEF Untouched
<1>9. OneHolder(s, a)'
  <2>1. /\ drivers'[<<s, a, "launched">>] = 0 /\ drivers'[<<s, a, "driving">>] = 0
        /\ drivers'[<<s, a, "leaving">>] = 0
    BY <1>2, <1>4, <1>5 DEF Stage
  <2> QED
    BY <1>2, <1>6, <1>7, <2>1 DEF OneHolder, Holders, Ready
<1>10. OneHolderPerSlot'
  BY <1>8, <1>9, HoldersKept
<1>11. TypeOK' /\ Finite'
  BY <1>1, <1>4, <1>6 DEF TypeOK, Finite, Bounded
<1>12. Committed'
  <2>1. \A t \in Server : active'[t].ready \subseteq rows
    BY <1>6 DEF Committed, Ready, Bounded
  <2>2. a \in rows
    BY <1>1 DEF Committed, Stage
  <2>3. ASSUME NEW t \in Server, NEW b \in Attempt, NEW stage \in Stage, Driver(t, b, stage)'
        PROVE  b \in rows
    <3>1. CASE b = a
      BY <2>2, <3>1
    <3>2. CASE b # a
      BY <1>5, <2>3, <3>2 DEF Committed, Driver
    <3> QED
      BY <3>1, <3>2
  <2> QED
    BY <1>1, <2>1, <2>3 DEF Committed
<1> QED
  BY <1>10, <1>11, <1>12

-----------------------------------------------------------------------------
\* Other replicas, time and crashes.

\* What other replicas do to a run, and time to its lease, leaves the slots alone.
LEMMA OthersKeep ==
  ASSUME SlotInv, NEW a \in Attempt, Maintain(a) \/ Lapse(a) \/ Expire(a) PROVE SlotInv'
<1> USE DEF SlotInv
<1>1. UNCHANGED <<rows, active, submit, loop, drivers>>
  BY DEF Maintain, Lapse, Expire
<1>2. /\ lease' \in [Attempt -> Server \cup {Nobody, Orphan}] /\ ended' \subseteq rows
      /\ faults' \in 0..MaxFaults
  BY SlotsAssumption DEF Maintain, Lapse, Expire, Runnable, Faulty, TypeOK
<1>3. TypeOK' /\ Finite' /\ Committed'
  BY <1>1, <1>2 DEF TypeOK, Finite, Committed, Driver
<1>4. \A t \in Server, b \in Attempt : Untouched(t, b)
  BY <1>1, MapKept DEF Untouched, Submitting
<1> QED
  BY <1>3, <1>4, HoldersKept

\* A restart empties the slots of the replica and takes their holders with them.
LEMMA CrashKeeps ==
  ASSUME SlotInv, NEW s \in Server, Crash(s) PROVE SlotInv'
<1> USE DEF SlotInv
<1>1. /\ active' = [active EXCEPT ![s] = [entries |-> {}, ready |-> {}]]
      /\ submit' = [a \in Attempt |-> IF submit[a].at \in {"new", "done"} THEN submit[a]
                                      ELSE IF submit[a].server = s THEN [at |-> "done"]
                                      ELSE submit[a]]
      /\ loop' = [loop EXCEPT ![s] = [at |-> "ready"]]
      /\ drivers' = [d \in Server \X Attempt \X Stage |-> IF d[1] = s THEN 0 ELSE drivers[d]]
      /\ lease' = [a \in Attempt |-> IF lease[a] = s THEN Orphan ELSE lease[a]]
      /\ UNCHANGED <<rows, ended>> /\ faults' \in 0..MaxFaults
  BY SlotsAssumption DEF Crash, Faulty, TypeOK
<1>2. /\ Bounded'
      /\ \A b \in Attempt : (Entry(s, b)' <=> b \in {}) /\ (Ready(s, b)' <=> b \in {})
      /\ \A t \in Server \ {s}, b \in Attempt :
           (Entry(t, b)' <=> Entry(t, b)) /\ (Ready(t, b)' <=> Ready(t, b))
  <2> DEFINE none == {}
  <2>1. IsFiniteSet(none) /\ Cardinality(none) <= Concurrency[s]
    BY FS_EmptySet, SlotsAssumption
  <2>2. none \in SUBSET Attempt /\ none \in SUBSET none
    OBVIOUS
  <2>3. active' = [active EXCEPT ![s] = [entries |-> none, ready |-> none]]
    BY <1>1
  <2>4. /\ Bounded'
        /\ \A b \in Attempt : (Entry(s, b)' <=> b \in none) /\ (Ready(s, b)' <=> b \in none)
        /\ \A t \in Server \ {s}, b \in Attempt :
             (Entry(t, b)' <=> Entry(t, b)) /\ (Ready(t, b)' <=> Ready(t, b))
    <3> HIDE DEF none
    <3> QED
      BY <2>1, <2>2, <2>3, MapWritten
  <2> QED
    BY <2>4
<1>3. /\ submit' \in [Attempt -> SubmitRecord]
      /\ \A b \in Attempt : \/ submit'[b] = submit[b] /\ ~Submitting(s, b)
                            \/ Submitting(s, b) /\ submit'[b] = [at |-> "done"]
  <2>1. submit \in [Attempt -> SubmitRecord]
    BY DEF TypeOK, SubmitRecord
  <2>2. ASSUME NEW b \in Attempt
        PROVE  \/ submit'[b] = submit[b] /\ ~Submitting(s, b)
               \/ Submitting(s, b) /\ submit'[b] = [at |-> "done"]
    <3>1. CASE submit[b].at \in {"new", "done"}
      BY <1>1, <3>1 DEF Submitting
    <3>2. CASE submit[b].at \notin {"new", "done"}
      <4>1. submit[b] \in SubmitRecord
        BY <2>1
      <4>2. submit[b].at \in {"open", "committed", "failed"}
        BY <3>2, <4>1 DEF SubmitRecord
      <4>3. submit'[b] = IF submit[b].server = s THEN [at |-> "done"] ELSE submit[b]
        BY <1>1, <3>2
      <4> QED
        BY <4>2, <4>3 DEF Submitting
    <3> QED
      BY <3>1, <3>2
  <2>3. [at |-> "done"] \in SubmitRecord
    BY DEF SubmitRecord
  <2>4. \A b \in Attempt : submit'[b] \in SubmitRecord
    BY <2>1, <2>2, <2>3
  <2>5. DOMAIN submit' = Attempt /\ submit' = [b \in Attempt |-> submit'[b]]
    BY <1>1
  <2> QED
    BY <2>2, <2>4, <2>5
<1>4. \A t \in Server, b \in Attempt : Submitting(t, b)' <=> Submitting(t, b) /\ t # s
  BY <1>3 DEF Submitting
<1>5. /\ drivers' \in [Server \X Attempt \X Stage -> Nat]
      /\ \A t \in Server, b \in Attempt, stage \in Stage :
           drivers'[<<t, b, stage>>] = IF t = s THEN 0 ELSE drivers[<<t, b, stage>>]
  <2>1. drivers \in [Server \X Attempt \X Stage -> Nat]
    BY DEF TypeOK
  <2>2. drivers' \in [Server \X Attempt \X Stage -> Nat]
    BY <1>1, <2>1
  <2>3. \A t \in Server, b \in Attempt, stage \in Stage : <<t, b, stage>> \in Server \X Attempt \X Stage
    OBVIOUS
  <2> QED
    BY <1>1, <2>2, <2>3
<1>6. \A t \in Server, b \in Attempt : t # s => Untouched(t, b)
  BY <1>2, <1>4, <1>5 DEF Untouched
<1>7. ASSUME NEW b \in Attempt PROVE OneHolder(s, b)'
  <2>1. /\ drivers'[<<s, b, "launched">>] = 0 /\ drivers'[<<s, b, "driving">>] = 0
        /\ drivers'[<<s, b, "leaving">>] = 0
    BY <1>5 DEF Stage
  <2> QED
    BY <1>2, <1>4, <2>1 DEF OneHolder, Holders, Ready
<1>8. OneHolderPerSlot'
  BY <1>6, <1>7, HoldersKept
<1>9. loop' \in [Server -> LoopRecord] /\ lease' \in [Attempt -> Server \cup {Nobody, Orphan}]
  BY <1>1 DEF TypeOK, LoopRecord
<1>10. TypeOK' /\ Finite'
  BY <1>1, <1>2, <1>3, <1>5, <1>9 DEF TypeOK, Finite, Bounded, SubmitRecord, LoopRecord
<1>11. Committed'
  <2>1. \A t \in Server : active'[t].ready \subseteq rows
    BY <1>2 DEF Committed, Ready, Bounded
  <2>2. ASSUME NEW t \in Server, NEW b \in Attempt, NEW stage \in Stage, Driver(t, b, stage)'
        PROVE  b \in rows
    BY <1>5, <2>2 DEF Committed, Driver
  <2>3. \A b \in Attempt : submit'[b].at = "committed" => b \in rows
    BY <1>3 DEF Committed
  <2> QED
    BY <1>1, <2>1, <2>2, <2>3 DEF Committed
<1> QED
  BY <1>8, <1>10, <1>11

-----------------------------------------------------------------------------
\* The invariant.

\* Nothing is held at the start.
LEMMA InitSlotInv == Init => SlotInv
<1> SUFFICES ASSUME Init PROVE SlotInv
  OBVIOUS
<1>1. IsFiniteSet({}) /\ Cardinality({}) = 0
  BY FS_EmptySet
<1>2. TypeOK
  <2>1. active \in [Server -> [entries : SUBSET Attempt, ready : SUBSET Attempt]]
    BY DEF Init
  <2>2. \A s \in Server : active[s].entries = {} /\ active[s].ready = {}
    BY DEF Init
  <2>3. \A s \in Server : Cardinality(active[s].entries) <= Concurrency[s]
    BY <1>1, <2>2, SlotsAssumption
  <2>4. drivers \in [Server \X Attempt \X Stage -> Nat]
    BY DEF Init
  <2>5. /\ submit \in [Attempt -> SubmitRecord] /\ loop \in [Server -> LoopRecord]
        /\ lease \in [Attempt -> Server \cup {Nobody, Orphan}] /\ faults \in 0..MaxFaults
        /\ ended \subseteq rows /\ rows \subseteq Attempt
    BY SlotsAssumption DEF Init, SubmitRecord, LoopRecord
  <2> QED
    BY <2>1, <2>2, <2>3, <2>4, <2>5 DEF TypeOK, SubmitRecord, LoopRecord
<1>3. Finite /\ Committed
  <2>1. Finite
    BY <1>1 DEF Init, Finite
  <2>2. \A s \in Server, a \in Attempt, stage \in Stage : drivers[<<s, a, stage>>] = 0
    <3>1. \A s \in Server, a \in Attempt, stage \in Stage :
            <<s, a, stage>> \in Server \X Attempt \X Stage
      OBVIOUS
    <3> QED
      BY <3>1 DEF Init
  <2>3. \A a \in Attempt : submit[a].at = "new"
    BY DEF Init
  <2>4. \A s \in Server : active[s].ready = {}
    BY DEF Init
  <2> QED
    BY <2>1, <2>2, <2>3, <2>4 DEF Committed, Driver
<1>4. OneHolderPerSlot
  <2> SUFFICES ASSUME NEW s \in Server, NEW a \in Attempt
               PROVE  Holders(s, a) = IF a \in active[s].entries THEN 1 ELSE 0
    BY DEF OneHolderPerSlot
  <2>1. /\ drivers[<<s, a, "launched">>] = 0 /\ drivers[<<s, a, "driving">>] = 0
        /\ drivers[<<s, a, "leaving">>] = 0
    <3>1. \A stage \in Stage : <<s, a, stage>> \in Server \X Attempt \X Stage
      OBVIOUS
    <3> QED
      BY <3>1 DEF Init, Stage
  <2> QED
    BY <2>1 DEF Init, Holders, Submitting
<1> QED
  BY <1>2, <1>3, <1>4 DEF SlotInv

\* Every step of a submission, of the loop, of a goroutine and of the rest keeps it.
LEMMA NextSlotInv == SlotInv /\ [Next]_vars => SlotInv'
<1> SUFFICES ASSUME SlotInv, [Next]_vars PROVE SlotInv'
  OBVIOUS
<1>1. CASE \E s \in Server : Loop(s) \/ Crash(s)
  BY <1>1, LaunchReadyKeeps, ScanKeeps, LaunchKeeps, CrashKeeps DEF Loop
<1>2. CASE \E s \in Server, a \in Attempt : Admit(s, a) \/ Drive(s, a) \/ GiveUp(s, a)
  BY <1>2, AdmitKeeps, DriveKeeps, LeaveKeeps DEF Drive
<1>3. CASE \E a \in Attempt : \/ Submission(a) \/ CommitFails(a)
                              \/ Maintain(a) \/ Lapse(a) \/ Expire(a)
  BY <1>3, CommitKeeps, GiveBackKeeps, HandOverKeeps, OthersKeep DEF Submission
<1>4. CASE UNCHANGED vars
  BY <1>4 DEF vars, store, SlotInv, TypeOK, Finite, Committed, OneHolderPerSlot, Holders,
              Submitting, Driver
<1> QED
  BY <1>1, <1>2, <1>3, <1>4 DEF Next

\* The state stays typed: in particular no replica ever has more entries than
\* slots, although the loop counts the free ones long before it uses them.
THEOREM SlotTypeCorrect == Spec => []TypeOK
<1>1. SlotInv => TypeOK
  BY DEF SlotInv
<1> QED
  BY <1>1, InitSlotInv, NextSlotInv, PTL DEF Spec

\* Every slot has exactly one holder, every holder a slot: no slot is leaked by a
\* failed submission, a lost answer, a lapsed lease or a restart, and no run is
\* driven by two goroutines of a replica.
THEOREM OneHolderPerSlotHolds == Spec => []OneHolderPerSlot
<1>1. SlotInv => OneHolderPerSlot
  BY DEF SlotInv
<1> QED
  BY <1>1, InitSlotInv, NextSlotInv, PTL DEF Spec

=============================================================================
