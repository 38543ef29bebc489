------------------------- MODULE BackendLocks_proofs -------------------------
(***************************************************************************)
(* What the database locks guarantee for every number of runs and scopes,  *)
(* every lease length and any mix of punctual and stalling runs.           *)
(***************************************************************************)
EXTENDS BackendLocks, TLAPS

-----------------------------------------------------------------------------
(* The inductive invariant, by parts.                                      *)

(* A row names a run only while that run counts it as acquired, or after a *)
(* failed release or a crash.                                              *)
RowsAreHeld ==
  \A r \in Runs : \A sc \in Scopes :
    holder[sc] = r => sc \in held[r] \/ pc[r] \in {"leaked", "crashed"}

(* A run holds only scopes it needs, every one of them below the scopes it *)
(* still has to acquire.                                                   *)
HeldInOrder ==
  \A r \in Runs :
    /\ held[r] \subseteq Needs[r]
    /\ pc[r] \in Waiting =>
         \A h \in held[r] : \A o \in Needs[r] \ held[r] : h < o

(* Clocks that were read are not ahead of the clock. *)
ClocksRead == \A r \in Runs : at[r] <= now

(* A punctual run that works still owns, unexpired, every row it acquired, *)
(* and the statement it has in hand will write an expiry in the future.    *)
PunctualOwns ==
  \A r \in Punctual :
    /\ pc[r] \in Working => \A sc \in held[r] : holder[sc] = r /\ expires[sc] > now
    /\ pc[r] \in {"steal", "insert"} => at[r] + Lease > now

(* A run that returned released everything. *)
DoneHoldsNothing == \A r \in Runs : pc[r] = "done" => held[r] = {}

Inv == TypeOK /\ RowsAreHeld /\ HeldInOrder /\ ClocksRead /\ PunctualOwns /\ DoneHoldsNothing

-----------------------------------------------------------------------------
(* Type correctness: every statement leaves rows, clocks and runs in their *)
(* types.                                                                  *)
LEMMA TypeInit == Init => TypeOK
  BY LocksAssumption DEF Init, TypeOK, PCs, Working, Acting, Waiting, Stopped

LEMMA TypeNext == TypeOK /\ [Next]_vars => TypeOK'
<1> SUFFICES ASSUME TypeOK, [Next]_vars PROVE TypeOK'
  OBVIOUS
<1> USE LocksAssumption DEF TypeOK, PCs, Working, Acting, Waiting, Stopped, Goto, Take
<1>1. CASE UNCHANGED vars
  BY <1>1 DEF vars
<1>2. CASE Tick
  BY <1>2 DEF Tick
<1>3. ASSUME NEW r \in Runs, RunStep(r) PROVE TypeOK'
  <2>1. CASE ReadClock(r)
    BY <2>1 DEF ReadClock
  <2>2. CASE GiveUp(r)
    BY <2>2 DEF GiveUp
  <2>3. CASE Steal(r)
    BY <2>3 DEF Steal
  <2>4. CASE StealMisses(r)
    BY <2>4 DEF StealMisses
  <2>5. CASE Insert(r)
    BY <2>5 DEF Insert
  <2>6. CASE InsertConflicts(r)
    BY <2>6 DEF InsertConflicts
  <2>7. CASE CheckScope(r)
    BY <2>7 DEF CheckScope
  <2>8. CASE CheckFails(r)
    BY <2>8 DEF CheckFails
  <2>9. CASE BeginAct(r)
    BY <2>9 DEF BeginAct
  <2>10. CASE EndAct(r)
    BY <2>10 DEF EndAct
  <2>11. CASE Release(r)
    BY <2>11 DEF Release
  <2>12. CASE ReleaseFails(r)
    BY <2>12 DEF ReleaseFails
  <2>13. CASE Finish(r)
    BY <2>13 DEF Finish
  <2>14. CASE Crash(r)
    BY <2>14 DEF Crash
  <2>15. ASSUME NEW sc \in Scopes, Heartbeat(r, sc) PROVE TypeOK'
    BY <2>15 DEF Heartbeat
  <2> QED
    BY <1>3, <2>1, <2>2, <2>3, <2>4, <2>5, <2>6, <2>7, <2>8, <2>9, <2>10, <2>11, <2>12, <2>13, <2>14, <2>15 DEF RunStep
<1> QED
  BY <1>1, <1>2, <1>3 DEF Next

-----------------------------------------------------------------------------
(* The parts are inductive together with the types.                        *)
LEMMA InvInit == Init => Inv
<1> SUFFICES ASSUME Init PROVE Inv
  OBVIOUS
<1> USE DEF Init
<1>1. TypeOK
  BY TypeInit
<1>2. RowsAreHeld
  BY LocksAssumption DEF RowsAreHeld
<1>3. HeldInOrder
  BY LocksAssumption DEF HeldInOrder
<1>4. ClocksRead
  <2>1. \A r \in Runs : at[r] = 0 /\ now = 0
    OBVIOUS
  <2>2. \A m, n \in Nat : m = n => m <= n
    OBVIOUS
  <2> QED
    BY <2>1, <2>2 DEF ClocksRead
<1>5. PunctualOwns
  BY LocksAssumption DEF PunctualOwns
<1>6. DoneHoldsNothing
  BY DEF DoneHoldsNothing
<1> QED
  BY <1>1, <1>2, <1>3, <1>4, <1>5, <1>6 DEF Inv

LEMMA InvNext == Inv /\ [Next]_vars => Inv'
<1> SUFFICES ASSUME Inv, [Next]_vars PROVE Inv'
  OBVIOUS
<1>1. TypeOK /\ TypeOK'
  BY TypeNext DEF Inv
<1> USE <1>1, LocksAssumption
    DEF Inv, RowsAreHeld, HeldInOrder, ClocksRead, PunctualOwns, DoneHoldsNothing,
        TypeOK, PCs, Working, Acting, Waiting, Stopped, Goto
<1>2. CASE UNCHANGED vars
  BY <1>2 DEF vars
<1>3. CASE Tick
  BY <1>3 DEF Tick, OnTime
<1>4. ASSUME NEW r \in Runs, RunStep(r) PROVE Inv'
  <2>1. CASE ReadClock(r)
    BY <2>1 DEF ReadClock
  <2>2. CASE GiveUp(r)
    BY <2>2 DEF GiveUp
  <2>3. CASE Steal(r)
    BY <2>3 DEF Steal, Take, IsNext
  <2>4. CASE StealMisses(r)
    BY <2>4 DEF StealMisses
  <2>5. CASE Insert(r)
    BY <2>5 DEF Insert, Take, IsNext
  <2>6. CASE InsertConflicts(r)
    BY <2>6 DEF InsertConflicts
  <2>7. CASE CheckScope(r)
    BY <2>7 DEF CheckScope
  <2>8. CASE CheckFails(r)
    BY <2>8 DEF CheckFails
  <2>9. CASE BeginAct(r)
    BY <2>9 DEF BeginAct
  <2>10. CASE EndAct(r)
    BY <2>10 DEF EndAct
  <2>11. CASE Release(r)
    BY <2>11 DEF Release, IsNextRelease
  <2>12. CASE ReleaseFails(r)
    BY <2>12 DEF ReleaseFails, IsNextRelease
  <2>13. CASE Finish(r)
    BY <2>13 DEF Finish
  <2>14. CASE Crash(r)
    BY <2>14 DEF Crash
  <2>15. ASSUME NEW sc \in Scopes, Heartbeat(r, sc) PROVE Inv'
    BY <2>15 DEF Heartbeat
  <2> QED
    BY <1>4, <2>1, <2>2, <2>3, <2>4, <2>5, <2>6, <2>7, <2>8, <2>9, <2>10, <2>11, <2>12, <2>13, <2>14, <2>15 DEF RunStep
<1> QED
  BY <1>2, <1>3, <1>4 DEF Next

(* The invariant holds in every reachable state. *)
THEOREM Invariance == Spec => []Inv
  BY InvInit, InvNext, PTL DEF Spec

-----------------------------------------------------------------------------
(* What the runs of the model checker check on a small instance.           *)

(* Rows, clocks and execution states keep their types. *)
THEOREM TypeCorrect == Spec => []TypeOK
  BY Invariance, PTL DEF Inv

(* acquireBackendControlPlaneLock excludes punctual runs from each other:  *)
(* whatever stalls or crashes elsewhere, two of them never do protected    *)
(* work under one lock scope.                                              *)
THEOREM Exclusion == Spec => []MutualExclusion
<1>1. Inv => MutualExclusion
  BY LocksAssumption DEF Inv, PunctualOwns, MutualExclusion, ActsOn, Acting, Working
<1> QED
  BY <1>1, Invariance, PTL

(* Acquiring in the order of the sorted scopes rules out a deadlock of any *)
(* number of runs: the scopes along a chain of waiting runs only grow.     *)
THEOREM NoDeadlock == Spec => []NoCircularWait
<1>1. Inv => NoCircularWait
  BY LocksAssumption
     DEF Inv, TypeOK, RowsAreHeld, HeldInOrder, NoCircularWait, WaitsAt, IsNext, Waiting
<1> QED
  BY <1>1, Invariance, PTL

(* Every orderly return, the one after a partial acquisition included,     *)
(* leaves no row of the run in the locks table.                            *)
THEOREM CleanReturn == Spec => []NothingLeftBehind
<1>1. Inv => NothingLeftBehind
  BY DEF Inv, RowsAreHeld, DoneHoldsNothing, NothingLeftBehind
<1> QED
  BY <1>1, Invariance, PTL

-----------------------------------------------------------------------------
(* Every statement of every run is, seen from one row of the locks table,  *)
(* an action of the lease or leaves the row as it is.                      *)
LEMMA RowsInit == ASSUME NEW sc \in Scopes, Init PROVE Row(sc)!Init
  BY DEF Init, Row!Init

LEMMA RowsNext ==
  ASSUME NEW sc \in Scopes, Inv, [Next]_vars
  PROVE  RowStep(sc)
<1> USE LocksAssumption DEF RowStep, Row!leaseVars
<1>1. TypeOK /\ ClocksRead
  BY DEF Inv
<1>2. CASE UNCHANGED vars
  BY <1>2 DEF vars
<1>3. CASE Tick
  BY <1>1, <1>3 DEF Tick, TypeOK, Row!Next, Row!Lapse
<1>4. ASSUME NEW r \in Runs, RunStep(r) PROVE RowStep(sc)
  <2> USE <1>1 DEF TypeOK, ClocksRead, Row!Next
  <2>1. ASSUME NEW o \in Scopes, Take(r, o), holder[o] = NoRun \/ expires[o] <= at[r],
               UNCHANGED now
        PROVE  RowStep(sc)
    BY <2>1 DEF Take, Row!Acquire
  <2>2. CASE Steal(r)
    BY <2>1, <2>2 DEF Steal
  <2>3. CASE Insert(r)
    BY <2>1, <2>3 DEF Insert
  <2>4. CASE Release(r)
    BY <2>4 DEF Release, Row!Release
  <2>5. ASSUME NEW o \in Scopes, Heartbeat(r, o) PROVE RowStep(sc)
    BY <2>5 DEF Heartbeat, Row!Renew
  <2>6. CASE UNCHANGED <<holder, expires, now>>
    BY <2>6
  <2> QED
    BY <1>4, <2>2, <2>3, <2>4, <2>5, <2>6
       DEF RunStep, ReadClock, GiveUp, StealMisses, InsertConflicts, CheckScope, CheckFails,
           BeginAct, EndAct, ReleaseFails, Finish, Crash
<1> QED
  BY <1>2, <1>3, <1>4 DEF Next

(* The statements of acquireBackendControlPlaneLock, its heartbeat and its *)
(* release implement the lease on every lock scope, with all runs and      *)
(* scopes interleaved.                                                     *)
THEOREM LeaseRefinement == Spec => ImplementsLease
<1>1. Init => \A sc \in Scopes : Row(sc)!Init
  BY RowsInit
<1>2. Inv /\ [Next]_vars => [\A sc \in Scopes : RowStep(sc)]_vars
  BY RowsNext
<1> QED
  BY <1>1, <1>2, Invariance, PTL DEF Spec, ImplementsLease
=============================================================================
