---------------------------- MODULE ResourceLock ----------------------------
(***************************************************************************)
(* The SQL implementation of a resource lease: one row of resource_locks   *)
(* (server/internal/repo/resource_lock.go) used through WithLease          *)
(* (server/internal/lock/lease.go).                                        *)
(*                                                                         *)
(* Lock is three separate statements, and every statement compares the row *)
(* with a time its own server read BEFORE the statement ran.  Servers'     *)
(* clocks differ by Skew, and time passes between the reading of the clock *)
(* and the statement.  The renewal goroutine runs beside the work.         *)
(***************************************************************************)
EXTENDS Integers

CONSTANTS
  Process,   \* callers of WithLease, one token at a time each
  Skew,      \* Skew[p]: offset of p's server clock
  TTL,
  MaxClock,  \* bound on the passing of time
  MaxTokens, \* bound on the number of Lock calls
  Nobody, Orphan

ASSUME SkewAssumption == Skew \in [Process -> Nat]
ASSUME TTLAssumption == TTL \in Nat \ {0}
ASSUME BoundAssumption == MaxClock \in Nat /\ MaxTokens \in Nat
ASSUME OwnerAssumption == /\ Nobody # Orphan
                          /\ Nobody \notin Process
                          /\ Orphan \notin Process

VARIABLES
  clock,
  row,      \* [token, expires]; token 0 stands for "no row"
  pc,
  tok,      \* locker_id made by the current Lock call, unique per call
  at,       \* time.Now() read by the statement the main goroutine will run
  renewAt,  \* time.Now() read by the renewal goroutine, -1 when it sleeps
  tokens,   \* Lock calls so far
  grants,   \* history: how many times the row changed hands
  grant,    \* history: number of the grant that made tok[p] the row's token
  written   \* history: grant under which the last protected write was made

vars == <<clock, row, pc, tok, at, renewAt, tokens, grants, grant, written>>
history == <<grants, grant, written>>

Asleep == -1
NoRow == [token |-> 0, expires |-> 0]
Now(p) == clock + Skew[p]
Mine(p) == row.token = tok[p]
Working == {"held", "fencing"}

Row == [token : 0..MaxTokens, expires : Nat]

TypeOK ==
  /\ clock \in 0..MaxClock
  /\ row \in Row
  /\ pc \in [Process -> {"idle", "update", "insert", "count", "held", "fencing", "release"}]
  /\ tok \in [Process -> 0..MaxTokens]
  /\ at \in [Process -> Nat]
  /\ renewAt \in [Process -> Nat \cup {Asleep}]
  /\ tokens \in 0..MaxTokens
  /\ grants \in Nat
  /\ grant \in [Process -> 0..grants]
  /\ written \in 0..grants

Init ==
  /\ clock = 0
  /\ row = NoRow
  /\ pc = [p \in Process |-> "idle"]
  /\ tok = [p \in Process |-> 0]
  /\ at = [p \in Process |-> 0]
  /\ renewAt = [p \in Process |-> Asleep]
  /\ tokens = 0
  /\ grants = 0
  /\ grant = [p \in Process |-> 0]
  /\ written = 0

-----------------------------------------------------------------------------

\* Lock makes a fresh locker_id and reads the clock once for all its statements.
Begin(p) ==
  /\ pc[p] = "idle"
  /\ tokens < MaxTokens
  /\ tokens' = tokens + 1
  /\ tok' = [tok EXCEPT ![p] = tokens + 1]
  /\ at' = [at EXCEPT ![p] = Now(p)]
  /\ pc' = [pc EXCEPT ![p] = "update"]
  /\ UNCHANGED <<clock, row, renewAt, history>>

\* Mutant of Take: the TTL is subtracted.
TakeBackdated(p) ==
  /\ row' = [token |-> tok[p], expires |-> at[p] - TTL]
  /\ grants' = grants + 1
  /\ grant' = [grant EXCEPT ![p] = grants + 1]

\* The row becomes p's, expiring TTL after the time p read.
Take(p) ==
  /\ row' = [token |-> tok[p], expires |-> at[p] + TTL]
  /\ grants' = grants + 1
  /\ grant' = [grant EXCEPT ![p] = grants + 1]

\* Mutant of Expired: the expiry is not compared.
ExpiredAlways(p) == row.token # 0

Expired(p) == row.token # 0 /\ row.expires <= at[p]

\* UPDATE ... WHERE expires_at <= now: one affected row is already success.
UpdateExpired(p) ==
  /\ pc[p] = "update"
  /\ \/ /\ Expired(p)
        /\ Take(p)
        /\ pc' = [pc EXCEPT ![p] = "held"]
     \/ /\ ~Expired(p)
        /\ pc' = [pc EXCEPT ![p] = "insert"]
        /\ UNCHANGED <<row, grants, grant>>
  /\ UNCHANGED <<clock, tok, at, renewAt, tokens, written>>

\* INSERT ... ON CONFLICT DO NOTHING.
Insert(p) ==
  /\ pc[p] = "insert"
  /\ \/ /\ row.token = 0
        /\ Take(p)
     \/ /\ row.token # 0
        /\ UNCHANGED <<row, grants, grant>>
  /\ pc' = [pc EXCEPT ![p] = "count"]
  /\ UNCHANGED <<clock, tok, at, renewAt, tokens, written>>

\* COUNT rows with our locker_id: 1 is success, anything else ErrLocked.
Count(p) ==
  /\ pc[p] = "count"
  /\ pc' = [pc EXCEPT ![p] = IF Mine(p) THEN "held" ELSE "idle"]
  /\ UNCHANGED <<clock, row, tok, at, renewAt, tokens, history>>

\* A protected transaction begins: fence reads the clock.
BeginWrite(p) ==
  /\ pc[p] = "held"
  /\ at' = [at EXCEPT ![p] = Now(p)]
  /\ pc' = [pc EXCEPT ![p] = "fencing"]
  /\ UNCHANGED <<clock, row, tok, renewAt, tokens, history>>

\* Mutant of Fence: the locker_id is not compared.
FenceAnyone(p) == row.expires > at[p]

Fence(p) == Mine(p) /\ row.expires > at[p]

\* The fenced transaction commits, or fence returns ErrLost and fn gives up.
Write(p) ==
  /\ pc[p] = "fencing"
  /\ \/ /\ Fence(p)
        /\ written' = grant[p]
        /\ pc' = [pc EXCEPT ![p] = "held"]
     \/ /\ ~Fence(p)
        /\ pc' = [pc EXCEPT ![p] = "release"]
        /\ UNCHANGED written
  /\ UNCHANGED <<clock, row, tok, at, renewAt, tokens, grants, grant>>

\* The renewal ticker fires every TTL/3 while the work runs.
BeginRenew(p) ==
  /\ pc[p] \in Working
  /\ renewAt[p] = Asleep
  /\ renewAt' = [renewAt EXCEPT ![p] = Now(p)]
  /\ UNCHANGED <<clock, row, pc, tok, at, tokens, history>>

\* Renew extends the row or, having lost it, cancels the work's context.
RenewRow(p) ==
  /\ renewAt[p] # Asleep
  /\ renewAt' = [renewAt EXCEPT ![p] = Asleep]
  /\ \/ /\ Mine(p) /\ row.expires > renewAt[p]
        /\ row' = [row EXCEPT !.expires = renewAt[p] + TTL]
        /\ UNCHANGED pc
     \/ /\ ~(Mine(p) /\ row.expires > renewAt[p])
        /\ pc' = [pc EXCEPT ![p] = "release"]
        /\ UNCHANGED row
  /\ UNCHANGED <<clock, tok, at, tokens, history>>

\* fn returns, or a failed renewal cancels it; a transaction is rolled back.
Done(p) ==
  /\ pc[p] \in Working
  /\ pc' = [pc EXCEPT ![p] = "release"]
  /\ UNCHANGED <<clock, row, tok, at, renewAt, tokens, history>>

\* WithLease waits for the renewal goroutine, then deletes its own row.
Unlock(p) ==
  /\ pc[p] = "release"
  /\ renewAt[p] = Asleep
  /\ row' = IF Mine(p) THEN NoRow ELSE row
  /\ pc' = [pc EXCEPT ![p] = "idle"]
  /\ UNCHANGED <<clock, tok, at, renewAt, tokens, history>>

\* A failed statement inside Lock, a failed Unlock or a crash: the row stays.
Fail(p) ==
  /\ pc[p] # "idle"
  /\ pc' = [pc EXCEPT ![p] = "idle"]
  /\ renewAt' = [renewAt EXCEPT ![p] = Asleep]
  /\ UNCHANGED <<clock, row, tok, at, tokens, history>>

Tick ==
  /\ clock < MaxClock
  /\ clock' = clock + 1
  /\ UNCHANGED <<row, pc, tok, at, renewAt, tokens, history>>

Next ==
  \/ \E p \in Process :
       \/ Begin(p) \/ UpdateExpired(p) \/ Insert(p) \/ Count(p)
       \/ BeginWrite(p) \/ Write(p)
       \/ BeginRenew(p) \/ RenewRow(p)
       \/ Done(p) \/ Unlock(p) \/ Fail(p)
  \/ Tick

Spec == Init /\ [][Next]_vars

-----------------------------------------------------------------------------

\* The process whose current token the row carries.
Holder(p) == pc[p] # "idle" /\ row.token # 0 /\ Mine(p)

Holders == {p \in Process : Holder(p)}

Owner ==
  IF row.token = 0 THEN Nobody
  ELSE IF Holders # {} THEN CHOOSE p \in Holders : TRUE
  ELSE Orphan

Lapsed == row.token # 0 /\ \E p \in Process : row.expires <= Now(p)

L == INSTANCE Lease WITH owner <- Owner, lapsed <- Lapsed

(***************************************************************************)
(* The three-statement Lock, the delayed Renew and the Unlock by token     *)
(* behave as the atomic lease that fenced components rely on, whatever the *)
(* clocks and wherever a caller stops.                                     *)
(***************************************************************************)
ImplementsLease == L!LeaseSpec

(***************************************************************************)
(* Fencing: once a later holder of the lease has written, no earlier       *)
(* holder's write commits, however late its transaction runs               *)
(* (resource_lock.go fence: "validation and the subsequent write are       *)
(* atomic").                                                               *)
(***************************************************************************)
WritesInGrantOrder == [][written' >= written]_vars
=============================================================================
