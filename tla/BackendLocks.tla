---------------------------- MODULE BackendLocks ----------------------------
(***************************************************************************)
(* The database locks of the deployment control plane:                     *)
(* acquireBackendControlPlaneLock, its heartbeat, assertCurrentAuthority   *)
(* and release (nixos-shared-host-control-plane-backend-locks.ts), and the *)
(* ordered acquisition of every lock scope a deployment needs              *)
(* (nixos-shared-host-control-plane-worker-locks.ts).                      *)
(*                                                                         *)
(* A run is one execution attempt.  It draws a fresh holder id and fencing *)
(* token for every scope, so the pair in a row is identified by the run.   *)
(* Every SQL statement is one atomic step; Date.now() is read before the   *)
(* statement that uses it, and time may pass in between.  A run that is    *)
(* not Punctual may stall for any length of time anywhere: its heartbeat   *)
(* is late, or its statement reaches the database late.                    *)
(*                                                                         *)
(* Once locked, a run marks its submission as running before it enters the *)
(* try whose finally releases the locks (executeSubmitted... in            *)
(* nixos-shared-host-control-plane-submit-helpers.ts).                     *)
(***************************************************************************)
EXTENDS Integers

CONSTANTS Runs,      \* execution attempts
          NoRun,     \* the holder of a scope without a row
          Scopes,    \* lock scopes, numbered in the order of their names
          Needs,     \* the lock scopes of the deployment each run executes
          Lease,     \* lifetime a statement gives to a row, in ticks
          Punctual,  \* the runs whose timers and statements are never late
          MaxTime    \* bound on the clock

ASSUME LocksAssumption ==
  /\ NoRun \notin Runs
  /\ Scopes \subseteq Int
  /\ Needs \in [Runs -> SUBSET Scopes]
  /\ Lease \in Nat \ {0}
  /\ Punctual \subseteq Runs
  /\ MaxTime \in Nat

VARIABLES holder,   \* scope -> the run its row names, NoRun without a row
          expires,  \* scope -> lease_expires_at of its row
          now,      \* the clock
          pc,       \* run -> where its execution stands
          at,       \* run -> the clock it read for the statement in hand
          held,     \* run -> scopes it has acquired and not yet released
          checked   \* run -> scopes the assertion in progress has passed

vars == <<holder, expires, now, pc, at, held, checked>>

Waiting  == {"wait", "steal", "insert"}    \* inside the acquisition loop
Acting   == {"marking", "acting"}          \* inside work the locks protect
Working  == Waiting \cup {"locked", "held"} \cup Acting
Stopped  == {"done", "leaked", "crashed"}
PCs      == Working \cup {"release"} \cup Stopped

TypeOK ==
  /\ holder \in [Scopes -> Runs \cup {NoRun}]
  /\ expires \in [Scopes -> Int]
  /\ now \in Nat
  /\ pc \in [Runs -> PCs]
  /\ at \in [Runs -> Nat]
  /\ held \in [Runs -> SUBSET Scopes]
  /\ checked \in [Runs -> SUBSET Scopes]

-----------------------------------------------------------------------------
(* Mutant of IsNext: the scopes are taken in any order. *)
IsNeeded(r, sc) == sc \in Needs[r] \ held[r]

(* nixosSharedHostLockScopes returns the scopes sorted and without         *)
(* duplicates, and they are acquired in that order: sc is the next one.    *)
IsNext(r, sc) ==
  /\ sc \in Needs[r] \ held[r]
  /\ \A o \in Needs[r] \ held[r] : sc <= o

(* The first scope in that order that the assertion has not passed yet. *)
IsNextCheck(r, sc) ==
  /\ sc \in held[r] \ checked[r]
  /\ \A o \in held[r] \ checked[r] : sc <= o

(* releases.reverse(): the scope acquired last is released first. *)
IsNextRelease(r, sc) ==
  /\ sc \in held[r]
  /\ \A o \in held[r] : o <= sc

(* The row now names r, with a lease counted from the clock r read. *)
Take(r, sc) ==
  /\ holder' = [holder EXCEPT ![sc] = r]
  /\ expires' = [expires EXCEPT ![sc] = at[r] + Lease]
  /\ held' = [held EXCEPT ![r] = @ \cup {sc}]
  /\ pc' = [pc EXCEPT ![r] = IF Needs[r] = held[r] \cup {sc} THEN "locked" ELSE "wait"]

Goto(r, from, to) == pc[r] = from /\ pc' = [pc EXCEPT ![r] = to]

Init ==
  /\ holder = [sc \in Scopes |-> NoRun]
  /\ expires = [sc \in Scopes |-> 0]
  /\ now = 0
  /\ pc = [r \in Runs |-> IF Needs[r] = {} THEN "locked" ELSE "wait"]
  /\ at = [r \in Runs |-> 0]
  /\ held = [r \in Runs |-> {}]
  /\ checked = [r \in Runs |-> {}]

-----------------------------------------------------------------------------
(* Top of the loop: shouldAbort() returned null, the clock is read. *)
ReadClock(r) ==
  /\ Goto(r, "wait", "steal")
  /\ at' = [at EXCEPT ![r] = now]
  /\ UNCHANGED <<holder, expires, now, held, checked>>

(* shouldAbort() gave a reason, the wait timed out, or a statement failed: *)
(* the locks acquired so far are released and the error is rethrown.       *)
GiveUp(r) ==
  /\ \E from \in Waiting : Goto(r, from, "release")
  /\ UNCHANGED <<holder, expires, now, at, held, checked>>

(* Mutant of Steal: the lease of the row is not looked at. *)
StealLive(r) ==
  /\ pc[r] = "steal"
  /\ \E sc \in Scopes : IsNext(r, sc) /\ holder[sc] # NoRun /\ Take(r, sc)
  /\ UNCHANGED <<now, at, checked>>

(* UPDATE locks ... WHERE lease_expires_at <= now *)
Steal(r) ==
  /\ pc[r] = "steal"
  /\ \E sc \in Scopes :
       /\ IsNext(r, sc)
       /\ holder[sc] # NoRun
       /\ expires[sc] <= at[r]
       /\ Take(r, sc)
  /\ UNCHANGED <<now, at, checked>>

(* ... which returns no row: the scope is free, or its lease is running. *)
StealMisses(r) ==
  /\ Goto(r, "steal", "insert")
  /\ \E sc \in Scopes :
       /\ IsNext(r, sc)
       /\ holder[sc] = NoRun \/ expires[sc] > at[r]
  /\ UNCHANGED <<holder, expires, now, at, held, checked>>

(* INSERT INTO locks ... ON CONFLICT DO NOTHING *)
Insert(r) ==
  /\ pc[r] = "insert"
  /\ \E sc \in Scopes : IsNext(r, sc) /\ holder[sc] = NoRun /\ Take(r, sc)
  /\ UNCHANGED <<now, at, checked>>

(* ... which returns no row: poll again, or GiveUp at the deadline. *)
InsertConflicts(r) ==
  /\ Goto(r, "insert", "wait")
  /\ \E sc \in Scopes : IsNext(r, sc) /\ holder[sc] # NoRun
  /\ UNCHANGED <<holder, expires, now, at, held, checked>>

(* The interval timer of an acquired scope: it matches the holder id and   *)
(* the fencing token, not the expiry.  The scope's release() clears it; if *)
(* that is never called it runs as long as the worker process lives.       *)
Heartbeat(r, sc) ==
  /\ pc[r] # "crashed"
  /\ sc \in held[r]
  /\ holder[sc] = r
  /\ expires' = [expires EXCEPT ![sc] = now + Lease]
  /\ UNCHANGED <<holder, now, pc, at, held, checked>>

(* assertCurrentAuthority: one SELECT per scope, in order ... *)
CheckScope(r) ==
  /\ pc[r] \in {"locked", "held"}
  /\ \E sc \in Scopes :
       /\ IsNextCheck(r, sc)
       /\ holder[sc] = r
       /\ expires[sc] > now
       /\ checked' = [checked EXCEPT ![r] = @ \cup {sc}]
  /\ UNCHANGED <<holder, expires, now, pc, at, held>>

(* ... lock_ownership_lost when a row is not r's or has run out ... *)
CheckFails(r) ==
  /\ Goto(r, "held", "release") \/ Goto(r, "locked", "leaked")
  /\ \E sc \in Scopes : IsNextCheck(r, sc) /\ (holder[sc] # r \/ expires[sc] <= now)
  /\ UNCHANGED <<holder, expires, now, at, held, checked>>

(* ... and when all have passed the protected work starts.  Nothing is     *)
(* checked again before it ends.                                           *)
BeginAct(r) ==
  /\ Goto(r, "held", "acting") \/ Goto(r, "locked", "marking")
  /\ checked[r] = held[r]
  /\ checked' = [checked EXCEPT ![r] = {}]
  /\ UNCHANGED <<holder, expires, now, at, held>>

(* The work ends: another assertion and more work follow, or the release;  *)
(* no release follows a failure of the very first write.                   *)
EndAct(r) ==
  /\ \/ \E from \in Acting : Goto(r, from, "held")
     \/ Goto(r, "acting", "release") \/ Goto(r, "marking", "leaked")
  /\ UNCHANGED <<holder, expires, now, at, held, checked>>

(* Mutant of Release: the row is deleted by its scope alone. *)
ReleaseByScope(r) ==
  /\ pc[r] = "release"
  /\ \E sc \in Scopes :
       /\ IsNextRelease(r, sc)
       /\ holder' = [holder EXCEPT ![sc] = NoRun]
       /\ held' = [held EXCEPT ![r] = @ \ {sc}]
  /\ UNCHANGED <<expires, now, pc, at, checked>>

(* DELETE FROM locks WHERE the row still names r, last scope first. *)
Release(r) ==
  /\ pc[r] = "release"
  /\ \E sc \in Scopes :
       /\ IsNextRelease(r, sc)
       /\ holder' = IF holder[sc] = r THEN [holder EXCEPT ![sc] = NoRun] ELSE holder
       /\ held' = [held EXCEPT ![r] = @ \ {sc}]
  /\ UNCHANGED <<expires, now, pc, at, checked>>

(* The DELETE of one scope fails: its timer is cleared, the error leaves   *)
(* the loop, and the scopes not yet reached keep their rows and timers.    *)
ReleaseFails(r) ==
  /\ Goto(r, "release", "leaked")
  /\ \E sc \in Scopes : IsNextRelease(r, sc) /\ held' = [held EXCEPT ![r] = @ \ {sc}]
  /\ UNCHANGED <<holder, expires, now, at, checked>>

(* Mutant of Finish: the loop over the scopes is left early. *)
FinishEarly(r) ==
  /\ Goto(r, "release", "done")
  /\ UNCHANGED <<holder, expires, now, at, held, checked>>

Finish(r) ==
  /\ Goto(r, "release", "done")
  /\ held[r] = {}
  /\ UNCHANGED <<holder, expires, now, at, held, checked>>

(* The worker process dies: no heartbeat, no release. *)
Crash(r) ==
  /\ pc[r] \notin {"done", "crashed"}
  /\ pc' = [pc EXCEPT ![r] = "crashed"]
  /\ UNCHANGED <<holder, expires, now, at, held, checked>>

(* A punctual run's heartbeat (every 5 s of a 30 s lease) comes before its *)
(* lease runs out, and its statement runs within a lease of reading the    *)
(* clock: time does not pass it by.                                        *)
OnTime(r) ==
  /\ pc[r] \in Working =>
       \A sc \in held[r] : holder[sc] = r => expires[sc] > now + 1
  /\ pc[r] \in {"steal", "insert"} => at[r] + Lease > now + 1

Tick ==
  /\ now < MaxTime
  /\ \A r \in Punctual : OnTime(r)
  /\ now' = now + 1
  /\ UNCHANGED <<holder, expires, pc, at, held, checked>>

RunStep(r) ==
  \/ ReadClock(r) \/ GiveUp(r)
  \/ Steal(r) \/ StealMisses(r) \/ Insert(r) \/ InsertConflicts(r)
  \/ CheckScope(r) \/ CheckFails(r) \/ BeginAct(r) \/ EndAct(r)
  \/ Release(r) \/ ReleaseFails(r) \/ Finish(r) \/ Crash(r)
  \/ \E sc \in Scopes : Heartbeat(r, sc)

Next == Tick \/ \E r \in Runs : RunStep(r)

Spec == Init /\ [][Next]_vars

-----------------------------------------------------------------------------
(* A run is inside the region of scope sc that the lock protects. *)
ActsOn(r, sc) == pc[r] \in Acting /\ sc \in held[r]

(* Two punctual runs never work under the same lock scope at once, however *)
(* often other runs crash, stall, or come back after their lease was taken.*)
MutualExclusion ==
  \A r1, r2 \in Punctual : \A sc \in Scopes :
    ActsOn(r1, sc) /\ ActsOn(r2, sc) => r1 = r2

(* Runs that need several scopes cannot wait for each other in a ring of   *)
(* any length: along a chain of waiting runs the scopes only grow, because *)
(* every run takes its scopes in one order.                                *)
WaitsAt(r, sc) == pc[r] \in Waiting /\ IsNext(r, sc)
NoCircularWait ==
  \A r1, r2 \in Runs : \A s1, s2 \in Scopes :
    WaitsAt(r1, s1) /\ holder[s1] = r2 /\ WaitsAt(r2, s2) => s1 < s2

(* A run that has given up, finished, or lost its locks in the middle of   *)
(* its work, and has released without an error, has left no row of its own *)
(* behind for others to wait on.                                           *)
NothingLeftBehind ==
  \A r \in Runs : pc[r] = "done" => \A sc \in Scopes : holder[sc] # r

(* Every lock scope behaves as a lease: see LeaseLock. *)
Row(sc) == INSTANCE LeaseLock WITH
             Holder <- Runs, NoHolder <- NoRun, owner <- holder[sc],
             lapsed <- holder[sc] # NoRun /\ expires[sc] <= now
RowStep(sc) == Row(sc)!Next \/ UNCHANGED Row(sc)!leaseVars
ImplementsLease == (\A sc \in Scopes : Row(sc)!Init) /\ [][\A sc \in Scopes : RowStep(sc)]_vars
=============================================================================
