------------------------------- MODULE Lease -------------------------------
(***************************************************************************)
(* What a resource lease promises the components that use it              *)
(* (server/internal/lock: Locker and WithLease).  The lease is a row with  *)
(* one owner.  It is renewed while the owner lives; once some server's     *)
(* clock has passed its expiry (lapsed) another process may take it over.  *)
(* A write is safe because it names its owner (the fence), not because the *)
(* clocks agree: an owner whose lease has lapsed still owns it until the   *)
(* take-over.                                                              *)
(***************************************************************************)
CONSTANTS
  Process,  \* the goroutines that call WithLease
  Nobody,   \* no row
  Orphan    \* a row whose token no running process holds any more

VARIABLES
  owner,   \* who holds the row's locker_id
  lapsed   \* some server's clock has reached the row's expires_at

leaseVars == <<owner, lapsed>>

Acquirable == owner = Nobody \/ lapsed

(***************************************************************************)
(* Lock: a missing or an expired row becomes ours.  The new expiry is      *)
(* computed from a clock read before the statement ran, so it may already  *)
(* be in the past of another server.                                       *)
(***************************************************************************)
Acquire(p) ==
  /\ Acquirable
  /\ owner' = p
  /\ lapsed' \in BOOLEAN

Renew(p) ==
  /\ owner = p
  /\ owner' = p
  /\ lapsed' \in BOOLEAN

Release(p) ==
  /\ owner = p
  /\ owner' = Nobody
  /\ lapsed' = FALSE

\* The holder stops without deleting its row: a crash, a failed statement.
Abandon(p) ==
  /\ owner = p
  /\ owner' = Orphan
  /\ lapsed' = lapsed

Lapse ==
  /\ owner # Nobody
  /\ ~lapsed
  /\ lapsed' = TRUE
  /\ owner' = owner

LeaseInit == owner = Nobody /\ lapsed = FALSE

LeaseNext ==
  \/ \E p \in Process : Acquire(p) \/ Renew(p) \/ Release(p) \/ Abandon(p)
  \/ Lapse

LeaseSpec == LeaseInit /\ [][LeaseNext]_leaseVars
============================================================================
