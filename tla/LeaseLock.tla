------------------------------ MODULE LeaseLock ------------------------------
(***************************************************************************)
(* What one row of the control plane's `locks` table promises: a lease.    *)
(* The row belongs to at most one holder; nobody takes it from a holder    *)
(* whose lease is still running; it comes back free only when its holder   *)
(* gives it up.  A lease may lapse at any moment (its holder may be dead   *)
(* or stalled), and a holder nobody has replaced may revive it.            *)
(*                                                                         *)
(* BackendLocks, with its clock, statements and retries, implements this   *)
(* for every lock scope; ControlPlane is built on these actions.           *)
(***************************************************************************)
CONSTANTS Holder, NoHolder

VARIABLES owner,    \* the holder the row names, or NoHolder
          lapsed    \* the row's lease has run out

leaseVars == <<owner, lapsed>>

Init == owner = NoHolder /\ lapsed = FALSE

(* The row is free, or its lease has run out: h takes it.  The expiry is   *)
(* computed from the clock h read before the statement, so the lease may   *)
(* already have run out when the row is written.                           *)
Acquire(h) ==
  /\ owner = NoHolder \/ lapsed
  /\ owner' = h
  /\ lapsed' \in BOOLEAN

(* The heartbeat of the holder the row names; it asks for no unexpired     *)
(* lease, so it also revives one that has lapsed.                          *)
Renew(h) ==
  /\ owner = h
  /\ lapsed' = FALSE
  /\ UNCHANGED owner

Lapse ==
  /\ owner # NoHolder
  /\ lapsed' = TRUE
  /\ UNCHANGED owner

(* DELETE ... WHERE the row still names h. *)
Release(h) ==
  /\ owner = h
  /\ owner' = NoHolder
  /\ lapsed' = FALSE

(* What assertCurrentAuthority reads. *)
Authority(h) == owner = h /\ ~lapsed

Next == Lapse \/ \E h \in Holder : Acquire(h) \/ Renew(h) \/ Release(h)

Spec == Init /\ [][Next]_leaseVars
=============================================================================
