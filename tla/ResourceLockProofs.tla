------------------------- MODULE ResourceLockProofs -------------------------
(***************************************************************************)
(* The SQL lease is the atomic lease: for any number of callers, clock     *)
(* offsets, TTL, time and calls of Lock, each step of ResourceLock is a    *)
(* step of Lease or none, and writes commit in the order of the grants.    *)
(***************************************************************************)
EXTENDS ResourceLock, TLAPS

\* A locker_id is made once, and only its maker compares the row with it.
FreshTokens ==
  /\ row.token <= tokens
  /\ \A p \in Process : tok[p] <= tokens
  /\ \A p, q \in Process : tok[p] # 0 /\ tok[p] = tok[q] => p = q

\* A caller inside WithLease has a locker_id; a renewal runs beside its work.
Entered ==
  \A p \in Process : /\ pc[p] # "idle" => tok[p] # 0
                     /\ renewAt[p] # Asleep => pc[p] \in Working \cup {"release"}

\* A statement compares with a time that has been.
ClockRead == \A p \in Process : at[p] <= Now(p)

\* Whoever the row names was granted it last; no write is of a later grant.
LatestGrant ==
  /\ written <= grants
  /\ \A p \in Process : row.token # 0 /\ Mine(p) => grant[p] = grants

\* What every step keeps: ClockRead is what makes a take-over legal, FreshTokens
\* what makes the holder one, LatestGrant what orders the writes.
LockInv == TypeOK /\ FreshTokens /\ Entered /\ ClockRead /\ LatestGrant

-----------------------------------------------------------------------------
\* The row is taken.

\* Taking the row makes p's grant the latest.
LEMMA TakeKeeps ==
  ASSUME LockInv, NEW p \in Process, tok[p] # 0, Take(p),
         UNCHANGED <<tok, tokens, at, written>>
  PROVE  /\ row' \in Row /\ grants' \in Nat /\ grant' \in [Process -> 0..grants']
         /\ written' \in 0..grants' /\ row'.token <= tokens' /\ LatestGrant'
<1> USE DEF LockInv
<1>1. /\ row' = [token |-> tok[p], expires |-> at[p] + TTL] /\ grants' = grants + 1
      /\ grant' = [grant EXCEPT ![p] = grants + 1]
  BY DEF Take
<1>2. /\ tok[p] \in 0..MaxTokens /\ at[p] \in Nat /\ grants \in Nat /\ written \in 0..grants
      /\ grant \in [Process -> 0..grants]
  BY DEF TypeOK
<1>3. row' \in Row /\ row'.token = tok[p]
  BY <1>1, <1>2, TTLAssumption DEF Row
<1>4. /\ grant' \in [Process -> 0..grants'] /\ grant'[p] = grants' /\ grants' \in Nat
      /\ written' \in 0..grants'
  BY <1>1, <1>2
<1>5. \A q \in Process : tok[q] = tok[p] => q = p
  BY DEF FreshTokens
<1>6. LatestGrant'
  BY <1>2, <1>3, <1>4, <1>5 DEF LatestGrant, Mine
<1> QED
  BY <1>3, <1>4, <1>6 DEF FreshTokens

-----------------------------------------------------------------------------
\* The invariant.

\* There is no row at the start.
LEMMA InitLockInv == Init => LockInv
<1> SUFFICES ASSUME Init PROVE LockInv
  OBVIOUS
<1>1. TypeOK
  <2>1. NoRow \in Row /\ 0 \in 0..MaxClock /\ 0 \in 0..MaxTokens
    BY BoundAssumption DEF Row, NoRow
  <2>2. row \in Row /\ clock \in 0..MaxClock /\ tokens \in 0..MaxTokens
    BY <2>1 DEF Init
  <2>3. tok \in [Process -> 0..MaxTokens] /\ grant \in [Process -> 0..grants]
    BY <2>1 DEF Init
  <2> QED
    BY <2>2, <2>3 DEF Init, TypeOK
<1>2. FreshTokens /\ Entered /\ LatestGrant
  BY DEF Init, FreshTokens, Entered, LatestGrant, NoRow
<1>3. ClockRead
  <2> SUFFICES ASSUME NEW p \in Process PROVE at[p] <= Now(p)
    BY DEF ClockRead
  <2>1. Skew[p] \in Nat /\ clock = 0 /\ at[p] = 0
    BY SkewAssumption DEF Init
  <2> QED
    BY <2>1 DEF Now
<1> QED
  BY <1>1, <1>2, <1>3 DEF LockInv

\* A statement of Lock, of the work, of the renewal or of Unlock.
LEMMA NextLockInv == LockInv /\ [Next]_vars => LockInv'
<1> SUFFICES ASSUME LockInv, [Next]_vars PROVE LockInv'
  OBVIOUS
<1> USE DEF LockInv
<1>0. \A p \in Process : Now(p) \in Nat
  BY SkewAssumption DEF Now, TypeOK
<1>1. ASSUME NEW p \in Process, Begin(p) PROVE LockInv'
  <2>1. /\ pc[p] = "idle" /\ tokens < MaxTokens /\ tokens' = tokens + 1
        /\ tok' = [tok EXCEPT ![p] = tokens + 1] /\ at' = [at EXCEPT ![p] = Now(p)]
        /\ pc' = [pc EXCEPT ![p] = "update"]
        /\ UNCHANGED <<clock, row, renewAt, grants, grant, written>>
    BY <1>1 DEF Begin, history
  <2>2. tokens' \in 1..MaxTokens /\ row.token <= tokens /\ row.token \in Nat
    BY <2>1, BoundAssumption DEF TypeOK, Row, FreshTokens
  <2>3. TypeOK'
    BY <1>0, <2>1, <2>2 DEF TypeOK
  <2>4. FreshTokens'
    BY <2>1, <2>2 DEF TypeOK, FreshTokens
  <2>5. Entered'
    BY <2>1, <2>2 DEF TypeOK, Entered, Working
  <2>6. ClockRead'
    BY <1>0, <2>1 DEF TypeOK, ClockRead, Now
  <2>7. LatestGrant'
    BY <2>1, <2>2 DEF TypeOK, LatestGrant, Mine
  <2> QED
    BY <2>3, <2>4, <2>5, <2>6, <2>7
<1>2. ASSUME NEW p \in Process, UpdateExpired(p) \/ Insert(p) PROVE LockInv'
  <2>1. /\ pc[p] # "idle" /\ renewAt[p] = Asleep
        /\ UNCHANGED <<clock, tok, at, renewAt, tokens, written>>
        /\ Take(p) \/ UNCHANGED <<row, grants, grant>>
    BY <1>2 DEF UpdateExpired, Insert, Entered, Working
  <2>2. PICK place \in {"held", "insert", "count"} : pc' = [pc EXCEPT ![p] = place]
    BY <1>2 DEF UpdateExpired, Insert
  <2>3. pc' \in [Process -> {"idle", "update", "insert", "count", "held", "fencing", "release"}]
    BY <2>2 DEF TypeOK
  <2>4. /\ row' \in Row /\ grants' \in Nat /\ grant' \in [Process -> 0..grants']
        /\ written' \in 0..grants' /\ row'.token <= tokens' /\ LatestGrant'
    <3>1. CASE Take(p)
      BY <2>1, <3>1, TakeKeeps DEF Entered
    <3>2. CASE UNCHANGED <<row, grants, grant>>
      BY <2>1, <3>2 DEF TypeOK, FreshTokens, LatestGrant, Mine
    <3> QED
      BY <2>1, <3>1, <3>2
  <2>5. TypeOK'
    BY <2>1, <2>3, <2>4 DEF TypeOK
  <2>6. FreshTokens' /\ ClockRead'
    BY <2>1, <2>4 DEF FreshTokens, ClockRead, Now
  <2>7. Entered'
    BY <2>1, <2>2 DEF TypeOK, Entered
  <2> QED
    BY <2>4, <2>5, <2>6, <2>7
<1>3. ASSUME NEW p \in Process, BeginWrite(p) PROVE LockInv'
  <2>1. /\ pc[p] = "held" /\ at' = [at EXCEPT ![p] = Now(p)]
        /\ pc' = [pc EXCEPT ![p] = "fencing"]
        /\ UNCHANGED <<clock, row, tok, renewAt, tokens, grants, grant, written>>
    BY <1>3 DEF BeginWrite, history
  <2>2. TypeOK'
    BY <1>0, <2>1 DEF TypeOK
  <2>3. ClockRead'
    BY <1>0, <2>1 DEF TypeOK, ClockRead, Now
  <2>4. FreshTokens' /\ LatestGrant'
    BY <2>1 DEF FreshTokens, LatestGrant, Mine
  <2>5. Entered'
    BY <2>1 DEF TypeOK, Entered, Working
  <2> QED
    BY <2>2, <2>3, <2>4, <2>5
<1>4. ASSUME NEW p \in Process, Write(p) PROVE LockInv'
  <2>1. UNCHANGED <<clock, row, tok, at, renewAt, tokens, grants, grant>>
    BY <1>4 DEF Write
  <2>2. pc[p] = "fencing"
    BY <1>4 DEF Write
  <2>3. PICK place \in {"held", "release"} : pc' = [pc EXCEPT ![p] = place]
    BY <1>4 DEF Write
  <2>4. written' \in {written, grant[p]}
    BY <1>4 DEF Write
  <2>5. grant[p] \in 0..grants /\ written \in 0..grants /\ grants \in Nat
    BY DEF TypeOK
  <2>6. pc' \in [Process -> {"idle", "update", "insert", "count", "held", "fencing", "release"}]
    BY <2>3 DEF TypeOK
  <2>7. TypeOK'
    BY <2>1, <2>4, <2>5, <2>6 DEF TypeOK
  <2>8. FreshTokens' /\ ClockRead'
    BY <2>1 DEF FreshTokens, ClockRead, Now
  <2>9. LatestGrant'
    BY <2>1, <2>4, <2>5 DEF LatestGrant, Mine
  <2>10. Entered'
    BY <2>1, <2>2, <2>3 DEF TypeOK, Entered, Working
  <2> QED
    BY <2>7, <2>8, <2>9, <2>10
<1>5. ASSUME NEW p \in Process, BeginRenew(p) PROVE LockInv'
  <2>1. /\ pc[p] \in Working /\ renewAt' = [renewAt EXCEPT ![p] = Now(p)]
        /\ UNCHANGED <<clock, row, pc, tok, at, tokens, grants, grant, written>>
    BY <1>5 DEF BeginRenew, history
  <2>2. TypeOK'
    BY <1>0, <2>1 DEF TypeOK
  <2>3. FreshTokens' /\ ClockRead' /\ LatestGrant'
    BY <2>1 DEF FreshTokens, ClockRead, Now, LatestGrant, Mine
  <2>4. Entered'
    BY <2>1 DEF TypeOK, Entered
  <2> QED
    BY <2>2, <2>3, <2>4
<1>6. ASSUME NEW p \in Process, RenewRow(p) PROVE LockInv'
  <2>1. /\ renewAt[p] # Asleep /\ renewAt' = [renewAt EXCEPT ![p] = Asleep]
        /\ UNCHANGED <<clock, tok, at, tokens, grants, grant, written>>
    BY <1>6 DEF RenewRow, history
  <2>2. pc[p] \in Working \cup {"release"} /\ renewAt[p] \in Nat
    BY <2>1 DEF Entered, TypeOK
  <2>3. pc' = pc \/ pc' = [pc EXCEPT ![p] = "release"]
    BY <1>6 DEF RenewRow
  <2>4. row' = row \/ row' = [row EXCEPT !.expires = renewAt[p] + TTL]
    BY <1>6 DEF RenewRow
  <2>5. row' \in Row /\ row'.token = row.token
    <3>1. row \in Row /\ renewAt[p] + TTL \in Nat
      BY <2>2, TTLAssumption DEF TypeOK
    <3> QED
      BY <2>4, <3>1 DEF Row
  <2>6. TypeOK'
    BY <2>1, <2>3, <2>5 DEF TypeOK
  <2>7. FreshTokens' /\ ClockRead' /\ LatestGrant'
    BY <2>1, <2>5 DEF FreshTokens, ClockRead, Now, LatestGrant, Mine
  <2>8. Entered'
    BY <2>1, <2>2, <2>3 DEF TypeOK, Entered, Working
  <2> QED
    BY <2>6, <2>7, <2>8
<1>7. ASSUME NEW p \in Process, Count(p) \/ Done(p) \/ Fail(p) PROVE LockInv'
  <2>1. /\ UNCHANGED <<clock, row, tok, at, tokens, grants, grant, written>>
        /\ pc[p] # "idle"
    BY <1>7 DEF Count, Done, Fail, history, Working
  <2>2. PICK place \in {"held", "idle", "release"} : pc' = [pc EXCEPT ![p] = place]
    BY <1>7 DEF Count, Done, Fail
  <2>3. renewAt' = renewAt \/ renewAt' = [renewAt EXCEPT ![p] = Asleep]
    BY <1>7 DEF Count, Done, Fail
  <2>4. pc' \in [Process -> {"idle", "update", "insert", "count", "held", "fencing", "release"}]
    BY <2>2 DEF TypeOK
  <2>5. TypeOK'
    BY <2>1, <2>3, <2>4 DEF TypeOK
  <2>6. FreshTokens' /\ ClockRead' /\ LatestGrant'
    BY <2>1 DEF FreshTokens, ClockRead, Now, LatestGrant, Mine
  <2>7. Entered'
    <3>1. \A q \in Process : pc'[q] # "idle" => pc[q] # "idle"
      BY <2>1, <2>2 DEF TypeOK
    <3>2. \A q \in Process \ {p} : pc'[q] = pc[q] /\ renewAt'[q] = renewAt[q]
      BY <2>2, <2>3 DEF TypeOK
    <3>3. renewAt'[p] # Asleep => pc'[p] \in Working \cup {"release"}
      <4>1. CASE Count(p)
        BY <4>1 DEF Count, Entered, Working
      <4>2. CASE Done(p)
        BY <4>2 DEF Done, TypeOK
      <4>3. CASE Fail(p)
        BY <4>3 DEF Fail, TypeOK
      <4> QED
        BY <1>7, <4>1, <4>2, <4>3
    <3> QED
      BY <2>1, <3>1, <3>2, <3>3 DEF Entered
  <2> QED
    BY <2>5, <2>6, <2>7
<1>8. ASSUME NEW p \in Process, Unlock(p) PROVE LockInv'
  <2>1. /\ renewAt[p] = Asleep /\ pc' = [pc EXCEPT ![p] = "idle"]
        /\ row' = NoRow \/ row' = row
        /\ UNCHANGED <<clock, tok, at, renewAt, tokens, grants, grant, written>>
    BY <1>8 DEF Unlock, history
  <2>2. NoRow \in Row /\ NoRow.token = 0 /\ tokens \in Nat
    BY BoundAssumption DEF NoRow, Row, TypeOK
  <2>3. TypeOK'
    BY <2>1, <2>2 DEF TypeOK
  <2>4. FreshTokens' /\ ClockRead' /\ LatestGrant'
    BY <2>1, <2>2 DEF FreshTokens, ClockRead, Now, LatestGrant, Mine
  <2>5. Entered'
    BY <2>1 DEF TypeOK, Entered
  <2> QED
    BY <2>3, <2>4, <2>5
<1>9. ASSUME Tick PROVE LockInv'
  <2>1. /\ clock' = clock + 1 /\ clock' \in 0..MaxClock
        /\ UNCHANGED <<row, pc, tok, at, renewAt, tokens, grants, grant, written>>
    BY <1>9, BoundAssumption DEF Tick, history, TypeOK
  <2>2. TypeOK' /\ FreshTokens' /\ Entered' /\ LatestGrant'
    BY <2>1 DEF TypeOK, FreshTokens, Entered, LatestGrant, Mine
  <2>3. ClockRead'
    <3> SUFFICES ASSUME NEW p \in Process PROVE at'[p] <= Now(p)'
      BY DEF ClockRead
    <3>1. Skew[p] \in Nat /\ clock \in Nat /\ at[p] \in Nat /\ at[p] <= clock + Skew[p]
      BY SkewAssumption DEF TypeOK, ClockRead, Now
    <3> QED
      BY <2>1, <3>1 DEF Now
  <2> QED
    BY <2>2, <2>3
<1>10. CASE UNCHANGED vars
  BY <1>10 DEF vars, TypeOK, FreshTokens, Entered, ClockRead, LatestGrant, Mine, Now
<1> QED
  BY <1>1, <1>2, <1>3, <1>4, <1>5, <1>6, <1>7, <1>8, <1>9, <1>10 DEF Next

\* The row and the callers stay typed, whatever the clocks.
THEOREM LockTypeCorrect == Spec => []TypeOK
<1>1. LockInv => TypeOK
  BY DEF LockInv
<1> QED
  BY <1>1, InitLockInv, NextLockInv, PTL DEF Spec

\* Fencing: a transaction that commits was granted the row last, so no write of
\* an earlier holder follows one of a later holder.
THEOREM WritesInGrantOrderHolds == Spec => WritesInGrantOrder
<1>1. LockInv /\ [Next]_vars => [written' >= written]_vars
  <2> SUFFICES ASSUME LockInv, Next PROVE written' >= written
    BY DEF TypeOK
  <2>1. written \in Nat
    BY DEF LockInv, TypeOK
  <2>2. ASSUME NEW p \in Process, Write(p), Fence(p), written' = grant[p]
        PROVE  written' >= written
    <3>1. row.token # 0
      BY <2>2 DEF Write, Fence, Mine, LockInv, Entered
    <3>2. grant[p] = grants
      BY <2>2, <3>1 DEF Fence, LockInv, LatestGrant
    <3> QED
      BY <2>2, <3>2 DEF LockInv, LatestGrant, TypeOK
  <2>3. CASE written' = written
    BY <2>1, <2>3
  <2> QED
    BY <2>2, <2>3 DEF Next, Begin, UpdateExpired, Insert, Count, BeginWrite, Write, BeginRenew,
                      RenewRow, Done, Unlock, Fail, Tick, history
<1> QED
  BY <1>1, InitLockInv, NextLockInv, PTL DEF Spec, WritesInGrantOrder

-----------------------------------------------------------------------------
\* The lease that ResourceLock implements.

\* The owner of the abstract lease, spelt out.
OwnerIs ==
  /\ row.token = 0 => Owner = Nobody
  /\ \A p \in Process : Holder(p) => Owner = p
  /\ row.token # 0 /\ (\A p \in Process : ~Holder(p)) => Owner = Orphan
  /\ row.token # 0 => Owner # Nobody

\* Of a set of one there is one choice.
LEMMA OneChoice ==
  ASSUME NEW S, NEW p \in S, \A q \in S : q = p PROVE (CHOOSE q \in S : TRUE) = p
  OBVIOUS

\* Of a set that is not empty the choice is a member.
LEMMA SomeChoice == ASSUME NEW S, S # {} PROVE (CHOOSE q \in S : TRUE) \in S
  OBVIOUS

\* Locker_ids are fresh, so there is one holder to choose.
LEMMA HolderIsOwner == FreshTokens => OwnerIs
<1> SUFFICES ASSUME FreshTokens PROVE OwnerIs
  OBVIOUS
<1>1. Holders \subseteq Process /\ \A p \in Process : p \in Holders <=> Holder(p)
  BY DEF Holders
<1>2. \A p \in Process, q \in Holders : Holder(p) => q = p
  BY <1>1 DEF FreshTokens, Holder, Mine
<1>3. ASSUME NEW p \in Process, Holder(p) PROVE Owner = p
  BY <1>1, <1>2, <1>3, OneChoice DEF Owner, Holder
<1>4. row.token # 0 => Owner \in Process \cup {Orphan}
  BY <1>1, SomeChoice DEF Owner
<1>5. row.token # 0 /\ (\A p \in Process : ~Holder(p)) => Owner = Orphan
  BY <1>1 DEF Owner
<1> QED
  BY <1>3, <1>4, <1>5, OwnerAssumption DEF OwnerIs, Owner

\* The same of the state a step leads to.
LEMMA HolderIsOwnerNext == FreshTokens' => OwnerIs'
<1> SUFFICES ASSUME FreshTokens' PROVE OwnerIs'
  OBVIOUS
<1>1. Holders' \subseteq Process /\ \A p \in Process : p \in Holders' <=> Holder(p)'
  BY DEF Holders
<1>2. \A p \in Process, q \in Holders' : Holder(p)' => q = p
  BY <1>1 DEF FreshTokens, Holder, Mine
<1>3. ASSUME NEW p \in Process, Holder(p)' PROVE Owner' = p
  BY <1>1, <1>2, <1>3, OneChoice DEF Owner, Holder
<1>4. row'.token # 0 => Owner' \in Process \cup {Orphan}
  BY <1>1, SomeChoice DEF Owner
<1>5. row'.token # 0 /\ (\A p \in Process : ~Holder(p)') => Owner' = Orphan
  BY <1>1 DEF Owner
<1> QED
  BY <1>3, <1>4, <1>5, OwnerAssumption DEF OwnerIs, Owner

\* A step that leaves the holders as they are, and the row, changes at most what
\* the clocks say of the lease: nothing, unless time has passed.
LEMMA SameHolders ==
  ASSUME OwnerIs, OwnerIs', row' = row, \A p \in Process : Holder(p)' <=> Holder(p)
  PROVE  Owner' = Owner
<1>1. CASE row.token = 0
  BY <1>1 DEF OwnerIs
<1>2. CASE row.token # 0
  BY <1>2 DEF OwnerIs
<1> QED
  BY <1>1, <1>2

\* Who holds the row after a take: its taker.
LEMMA TakeHolds ==
  ASSUME LockInv, OwnerIs', NEW p \in Process, tok[p] # 0, pc'[p] # "idle", Take(p), tok' = tok
  PROVE  Owner' = p
<1>1. row'.token = tok[p]
  BY DEF Take
<1> QED
  BY <1>1 DEF OwnerIs, Holder, Mine

\* Each step of a caller, of its renewal and of time is one of the lease's, or none.
LEMMA StepImplementsLease ==
  ASSUME LockInv, LockInv', Next PROVE [L!LeaseNext]_(L!leaseVars)
<1> USE DEF LockInv
<1> DEFINE Stutter == Owner' = Owner /\ Lapsed' = Lapsed
<1>0. OwnerIs /\ OwnerIs'
  BY HolderIsOwner, HolderIsOwnerNext
<1>1. Stutter => [L!LeaseNext]_(L!leaseVars)
  BY DEF L!leaseVars
<1>2. Lapsed \in BOOLEAN /\ Lapsed' \in BOOLEAN
  BY DEF Lapsed
<1>3. ASSUME UNCHANGED <<clock, row>>, \A p \in Process : Holder(p)' <=> Holder(p)
      PROVE  Stutter
  <2>1. Lapsed' = Lapsed
    BY <1>3 DEF Lapsed, Now
  <2> QED
    BY <1>0, <1>3, <2>1, SameHolders
<1>4. ASSUME NEW p \in Process, Begin(p) PROVE Stutter
  <2>1. row.token < tokens + 1 /\ tok' = [tok EXCEPT ![p] = tokens + 1] /\ pc[p] = "idle"
        /\ pc' = [pc EXCEPT ![p] = "update"] /\ UNCHANGED <<clock, row>>
    BY <1>4 DEF Begin, FreshTokens, TypeOK, Row
  <2>2. ~Holder(p) /\ ~Holder(p)'
    BY <2>1 DEF Holder, Mine, TypeOK, Row
  <2>3. \A q \in Process \ {p} : Holder(q)' <=> Holder(q)
    BY <2>1 DEF Holder, Mine, TypeOK
  <2> QED
    BY <1>3, <2>1, <2>2, <2>3
<1>5. ASSUME NEW p \in Process, Take(p), tok[p] # 0, pc'[p] # "idle", tok' = tok,
             row.token = 0 \/ Lapsed
      PROVE  L!Acquire(p)
  <2>1. Owner' = p
    BY <1>0, <1>5, TakeHolds
  <2>2. Owner = Nobody \/ Lapsed
    BY <1>0, <1>5 DEF OwnerIs
  <2> QED
    BY <1>2, <2>1, <2>2 DEF L!Acquire, L!Acquirable
<1>6. ASSUME NEW p \in Process, UpdateExpired(p) PROVE [L!LeaseNext]_(L!leaseVars)
  <2>1. pc[p] = "update" /\ tok[p] # 0 /\ UNCHANGED <<clock, tok>>
    BY <1>6 DEF UpdateExpired, Entered
  <2>2. CASE Expired(p) /\ Take(p) /\ pc' = [pc EXCEPT ![p] = "held"]
    <3>1. Lapsed
      <4>1. row.token # 0 /\ row.expires <= at[p] /\ at[p] <= Now(p)
        BY <2>2 DEF Expired, ClockRead
      <4>2. row.expires \in Nat /\ at[p] \in Nat /\ Now(p) \in Nat
        BY SkewAssumption DEF TypeOK, Row, Now
      <4> QED
        BY <4>1, <4>2 DEF Lapsed
    <3>2. pc'[p] # "idle"
      BY <2>2 DEF TypeOK
    <3>3. L!Acquire(p)
      BY <1>5, <2>1, <2>2, <3>1, <3>2
    <3> QED
      BY <3>3 DEF L!LeaseNext
  <2>3. CASE pc' = [pc EXCEPT ![p] = "insert"] /\ row' = row
    <3>1. \A q \in Process : Holder(q)' <=> Holder(q)
      BY <2>1, <2>3 DEF Holder, Mine, TypeOK
    <3> QED
      BY <1>1, <1>3, <2>1, <2>3, <3>1
  <2> QED
    BY <1>6, <2>2, <2>3 DEF UpdateExpired
<1>7. ASSUME NEW p \in Process, Insert(p) PROVE [L!LeaseNext]_(L!leaseVars)
  <2>1. /\ pc[p] = "insert" /\ tok[p] # 0 /\ UNCHANGED <<clock, tok>>
        /\ pc' = [pc EXCEPT ![p] = "count"] /\ pc'[p] # "idle"
    BY <1>7 DEF Insert, Entered, TypeOK
  <2>2. CASE row.token = 0 /\ Take(p)
    <3>1. L!Acquire(p)
      BY <1>5, <2>1, <2>2
    <3> QED
      BY <3>1 DEF L!LeaseNext
  <2>3. CASE row' = row
    <3>1. \A q \in Process : Holder(q)' <=> Holder(q)
      BY <2>1, <2>3 DEF Holder, Mine, TypeOK
    <3> QED
      BY <1>1, <1>3, <2>1, <2>3, <3>1
  <2> QED
    BY <1>7, <2>2, <2>3 DEF Insert
<1>8. ASSUME NEW p \in Process, Count(p) \/ BeginWrite(p) \/ Write(p) \/ BeginRenew(p) \/ Done(p)
      PROVE  Stutter
  <2>1. UNCHANGED <<clock, row, tok>> /\ pc[p] # "idle"
    BY <1>8 DEF Count, BeginWrite, Write, BeginRenew, Done, Working
  <2>2. /\ \A q \in Process \ {p} : pc'[q] = pc[q]
        /\ pc'[p] = "idle" => ~Mine(p)
    BY <1>8 DEF Count, BeginWrite, Write, BeginRenew, Done, Working, TypeOK
  <2>3. \A q \in Process : Holder(q)' <=> Holder(q)
    BY <2>1, <2>2 DEF Holder, Mine
  <2> QED
    BY <1>3, <2>1, <2>3
<1>9. ASSUME NEW p \in Process, RenewRow(p) PROVE [L!LeaseNext]_(L!leaseVars)
  <2>1. /\ pc[p] \in Working \cup {"release"} /\ tok[p] # 0 /\ UNCHANGED <<clock, tok>>
    BY <1>9 DEF RenewRow, Entered, Working
  <2>2. CASE Mine(p) /\ row' = [row EXCEPT !.expires = renewAt[p] + TTL] /\ pc' = pc
    <3>1. row'.token = row.token /\ row.token # 0
      BY <2>1, <2>2 DEF TypeOK, Row, Mine
    <3>2. Holder(p) /\ Holder(p)'
      BY <2>1, <2>2, <3>1 DEF Holder, Mine, Working
    <3>3. L!Renew(p)
      BY <1>0, <1>2, <3>2 DEF OwnerIs, L!Renew
    <3> QED
      BY <3>3 DEF L!LeaseNext
  <2>3. CASE row' = row /\ pc' = [pc EXCEPT ![p] = "release"]
    <3>1. \A q \in Process : Holder(q)' <=> Holder(q)
      BY <2>1, <2>3 DEF Holder, Mine, TypeOK, Working
    <3> QED
      BY <1>1, <1>3, <2>1, <2>3, <3>1
  <2> QED
    BY <1>9, <2>2, <2>3 DEF RenewRow
<1>10. ASSUME NEW p \in Process, Unlock(p) PROVE [L!LeaseNext]_(L!leaseVars)
  <2>1. /\ pc[p] = "release" /\ tok[p] # 0 /\ UNCHANGED <<clock, tok>>
        /\ pc' = [pc EXCEPT ![p] = "idle"]
        /\ row' = IF Mine(p) THEN NoRow ELSE row
    BY <1>10 DEF Unlock, Entered
  <2>2. CASE Mine(p)
    <3>1. Holder(p) /\ row'.token = 0
      BY <2>1, <2>2 DEF Holder, Mine, NoRow
    <3>2. Owner = p /\ Owner' = Nobody
      BY <1>0, <3>1 DEF OwnerIs
    <3>3. Lapsed' = FALSE
      BY <3>1 DEF Lapsed
    <3>4. L!Release(p)
      BY <3>2, <3>3 DEF L!Release
    <3> QED
      BY <3>4 DEF L!LeaseNext
  <2>3. CASE ~Mine(p)
    <3>1. row' = row
      BY <2>1, <2>3
    <3>2. \A q \in Process : Holder(q)' <=> Holder(q)
      BY <2>1, <2>3, <3>1 DEF Holder, Mine, TypeOK
    <3> QED
      BY <1>1, <1>3, <2>1, <3>1, <3>2
  <2> QED
    BY <2>2, <2>3
<1>11. ASSUME NEW p \in Process, Fail(p) PROVE [L!LeaseNext]_(L!leaseVars)
  <2>1. /\ pc[p] # "idle" /\ pc' = [pc EXCEPT ![p] = "idle"] /\ UNCHANGED <<clock, row, tok>>
    BY <1>11 DEF Fail
  <2>2. /\ ~Holder(p)'
        /\ \A q \in Process \ {p} : Holder(q)' <=> Holder(q)
    BY <2>1 DEF Holder, Mine, TypeOK
  <2>3. CASE Holder(p)
    <3>1. \A q \in Process : ~Holder(q)'
      BY <2>2, <2>3 DEF FreshTokens, Holder, Mine
    <3>2. Owner = p /\ Owner' = Orphan
      BY <1>0, <2>1, <2>3, <3>1 DEF OwnerIs, Holder
    <3>3. Lapsed' = Lapsed
      BY <2>1 DEF Lapsed, Now
    <3>4. L!Abandon(p)
      BY <3>2, <3>3 DEF L!Abandon
    <3> QED
      BY <3>4 DEF L!LeaseNext
  <2>4. CASE ~Holder(p)
    BY <1>1, <1>3, <2>1, <2>2, <2>4
  <2> QED
    BY <2>3, <2>4
<1>12. ASSUME Tick PROVE [L!LeaseNext]_(L!leaseVars)
  <2>1. clock' = clock + 1 /\ clock \in Nat /\ UNCHANGED <<row, pc, tok>>
    BY <1>12 DEF Tick, TypeOK
  <2>2. Owner' = Owner
    <3>1. \A q \in Process : Holder(q)' <=> Holder(q)
      BY <2>1 DEF Holder, Mine
    <3> QED
      BY <1>0, <2>1, <3>1, SameHolders
  <2>3. Lapsed => Lapsed'
    <3>1. \A q \in Process : Skew[q] \in Nat
      BY SkewAssumption
    <3>2. row.expires \in Nat
      BY DEF TypeOK, Row
    <3> QED
      BY <2>1, <3>1, <3>2 DEF Lapsed, Now
  <2>4. CASE Lapsed' = Lapsed
    BY <1>1, <2>2, <2>4
  <2>5. CASE ~Lapsed /\ Lapsed'
    <3>1. Owner # Nobody
      BY <1>0, <2>1, <2>5 DEF OwnerIs, Lapsed
    <3>2. L!Lapse
      BY <2>2, <2>5, <3>1 DEF L!Lapse
    <3> QED
      BY <3>2 DEF L!LeaseNext
  <2> QED
    BY <1>2, <2>3, <2>4, <2>5
<1> HIDE DEF Stutter
<1> QED
  BY <1>1, <1>4, <1>6, <1>7, <1>8, <1>9, <1>10, <1>11, <1>12 DEF Next

\* Lock's three statements, the late Renew and the Unlock by token behave as the
\* atomic lease, whatever the clocks and wherever a caller stops.
THEOREM LockImplementsLease == Spec => ImplementsLease
<1>1. Init => L!LeaseInit
  <2> SUFFICES ASSUME Init PROVE L!LeaseInit
    OBVIOUS
  <2>1. row.token = 0
    BY DEF Init, NoRow
  <2> QED
    BY <2>1 DEF L!LeaseInit, Owner, Lapsed
<1>2. LockInv /\ LockInv' /\ [Next]_vars => [L!LeaseNext]_(L!leaseVars)
  <2> SUFFICES ASSUME LockInv, LockInv', [Next]_vars PROVE [L!LeaseNext]_(L!leaseVars)
    OBVIOUS
  <2>1. CASE UNCHANGED vars
    <3>1. UNCHANGED <<clock, row>> /\ \A p \in Process : Holder(p)' <=> Holder(p)
      BY <2>1 DEF vars, Holder, Mine
    <3>2. OwnerIs /\ OwnerIs'
      BY HolderIsOwner, HolderIsOwnerNext DEF LockInv
    <3>3. Owner' = Owner
      BY <3>1, <3>2, SameHolders
    <3>4. Lapsed' = Lapsed
      BY <3>1 DEF Lapsed, Now
    <3> QED
      BY <3>3, <3>4 DEF L!leaseVars
  <2> QED
    BY <2>1, StepImplementsLease
<1> QED
  BY <1>1, <1>2, InitLockInv, NextLockInv, PTL DEF Spec, ImplementsLease, L!LeaseSpec

=============================================================================
