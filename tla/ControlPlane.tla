----------------------------- MODULE ControlPlane -----------------------------
(***************************************************************************)
(* The deployment control plane: submissions queued in the database, the   *)
(* workers that claim, execute, recover and settle them, and the operator  *)
(* requests that cancel them.                                              *)
(*                                                                         *)
(*  - runNixosSharedHostControlPlaneWorkerOnce  (...-worker-loop.ts)       *)
(*  - executeSubmittedNixosSharedHostControlPlaneRun (...-submit-helpers)  *)
(*  - the queue claim and its lease             (...-backend-queue.ts)     *)
(*  - submission and record rows      (...-backend-state, -backend-records)*)
(*  - run actions         (deployment-control-plane-run-action[-service])  *)
(*                                                                         *)
(* Every submission here deploys to one target, hence one lock scope and   *)
(* one stage.  They are promotions, retries or rollbacks: nothing          *)
(* supersedes them.  The lock is the lease BackendLocks implements, the    *)
(* recording transaction is one step, as StageState shows it to behave.    *)
(***************************************************************************)
EXTENDS Integers

CONSTANTS Workers,    \* worker processes
          NoWorker,   \* an unclaimed queue row, a free lock
          Subs,       \* submissions, numbered in the order they are enqueued
          Requests,   \* cancel requests of operators
          Faults,     \* kinds of faults that may strike: see Fault
          MaxFaults   \* bound on their number

ASSUME ControlPlaneAssumption ==
  /\ NoWorker \notin Workers
  /\ Subs \subseteq Nat \ {0}
  /\ Faults \subseteq {"crash", "abort", "error", "stall", "drop"}
  /\ MaxFaults \in Nat

VARIABLES doc,        \* submission -> its row in `submissions`
          queue,      \* submission -> its row in `queue`
          record,     \* submission -> outcome of its row in `deploy_records`
          stage,      \* current_stage_state.current_run_id, 0 without a row
          expected,   \* submission -> expectedCurrentRunId of its snapshot
          lockOwner,  \* the worker the target's row in `locks` names
          lockLapsed, \* its lease has run out
          worker,     \* worker -> its process
          request,    \* cancel request -> the service's handling of it
          mutations,  \* submission -> executions that mutated the provider
          accepted,   \* submissions whose cancellation has been accepted as
                      \* "cancelling"
          faults      \* faults so far

rows  == <<doc, queue, record, stage, expected>>
lock  == <<lockOwner, lockLapsed>>
ghost == <<mutations, accepted>>
vars  == <<rows, lock, worker, request, ghost, faults>>

Lock == INSTANCE LeaseLock WITH Holder <- Workers, NoHolder <- NoWorker,
                                owner <- lockOwner, lapsed <- lockLapsed

-----------------------------------------------------------------------------
(* A submission's document.                                                *)
Active  == {"queued", "waiting_for_lock", "running", "cancelling"}  \* keepsQueueOwnershipActive
Ended   == {"finished", "cancelled", "paused"}
Held    == {"pending_approval"}
NoDoc   == "none"
Reasons == {"none", "cancelled", "no_longer_admitted", "superseded"}
Outcomes == {"none", "succeeded", "failed"}
Docs == [life : Active \cup Ended \cup Held \cup {NoDoc}, reason : Reasons, requested : BOOLEAN,
         mutation : BOOLEAN, recovery : {"none", "converged", "inconclusive"}, outcome : Outcomes]

Blank == [life |-> NoDoc, reason |-> "none", requested |-> FALSE, mutation |-> FALSE,
          recovery |-> "none", outcome |-> "none"]

(* reconcileNixosSharedHostRecoveredSubmission: a deploy record decides,   *)
(* without one an operator has to.                                         *)
Reconciled(d, rec) ==
  IF rec # "none"
  THEN [d EXCEPT !.life = "finished", !.recovery = "converged", !.outcome = rec]
  ELSE [d EXCEPT !.life = "finished", !.recovery = "inconclusive"]

(* nextRunActionLifecycleState for the action cancel: a run that has ended *)
(* is rejected, and its document written back as it was read.              *)
CancelledDoc(d) ==
  CASE d.life \in {"queued", "waiting_for_lock", "pending_approval"} ->
         [d EXCEPT !.life = "cancelled", !.reason = "cancelled"]
    [] d.life \in {"running", "cancelling"} ->
         [d EXCEPT !.life = "cancelling", !.requested = TRUE]
    [] OTHER -> d

-----------------------------------------------------------------------------
(* A worker process.  file is the materialized submission.json, next the   *)
(* document it is about to write, goal what the write or the assertion in  *)
(* hand is for; leaked: its lock is renewed, yet no code is left that will *)
(* release it.                                                             *)
PCs == {"idle", "materialize", "reconcile", "assertClaim", "acquire", "assert", "upsert",
        "markDone", "revalidate", "begin", "mutate", "record", "release", "finally"}
Goals == {"none", "recover", "execute", "running", "check", "mutating", "record", "settle",
          "settled", "end", "putBack",
          "begin", "smoke", "smoked"}  \* of cloudflare-pages: see ProviderRuns
Idle == [pc |-> "idle", goal |-> "none", sub |-> 0, file |-> Blank, next |-> Blank,
         result |-> "none", aborted |-> FALSE, leaked |-> FALSE]

Processes == [pc : PCs, goal : Goals, sub : Subs \cup {0}, file : Docs, next : Docs,
              result : Outcomes, aborted : BOOLEAN, leaked : BOOLEAN]

Submitted == {s \in Subs : doc[s].life # NoDoc}
Sub(w) == worker[w].sub
Goto(w, pc, goal) == worker' = [worker EXCEPT ![w].pc = pc, ![w].goal = goal]

(* claimLease.stop(): the queue row keeps naming w until the lease lapses. *)
Return(w) == worker' = [worker EXCEPT ![w] = [Idle EXCEPT !.aborted = worker[w].aborted,
                                                          !.leaked = worker[w].leaked]]

(* Acquired the lock and not yet released it. *)
Locking(w) ==
  \/ worker[w].pc \in {"assert", "revalidate", "begin", "mutate", "record", "release"}
  \/ worker[w].pc \in {"upsert", "markDone"} /\ worker[w].goal \notin {"recover", "putBack"}

(* Its heartbeat runs. *)
Renewing(w) == Locking(w) \/ worker[w].leaked

TypeOK ==
  /\ doc \in [Subs -> Docs]
  /\ queue \in [Subs -> [owner : Workers \cup {NoWorker}, lapsed : BOOLEAN, done : BOOLEAN]]
  /\ record \in [Subs -> Outcomes]
  /\ stage \in Subs \cup {0}
  /\ expected \in [Subs -> Subs \cup {0}]
  /\ lockOwner \in Workers \cup {NoWorker}
  /\ lockLapsed \in BOOLEAN
  /\ worker \in [Workers -> Processes]
  /\ request \in [Requests -> [pc : {"new", "read", "written", "done"},
                               sub : Subs \cup {0}, copy : Docs]]
  /\ mutations \in [Subs -> Nat]
  /\ accepted \subseteq Subs
  /\ faults \in 0 .. MaxFaults

Init ==
  /\ doc = [s \in Subs |-> Blank]
  /\ queue = [s \in Subs |-> [owner |-> NoWorker, lapsed |-> FALSE, done |-> FALSE]]
  /\ record = [s \in Subs |-> "none"]
  /\ stage = 0
  /\ expected = [s \in Subs |-> 0]
  /\ Lock!Init
  /\ worker = [w \in Workers |-> Idle]
  /\ request = [q \in Requests |-> [pc |-> "new", sub |-> 0, copy |-> Blank]]
  /\ mutations = [s \in Subs |-> 0]
  /\ accepted = {}
  /\ faults = 0

Fault(kind) == kind \in Faults /\ faults < MaxFaults /\ faults' = faults + 1

-----------------------------------------------------------------------------
(* A request is admitted against the current run of the stage, and its     *)
(* submission, snapshot and queue row are written.                         *)
Submit(s) ==
  /\ doc[s].life = NoDoc
  /\ \A o \in Subs : o < s => doc[o].life # NoDoc
  /\ doc' = [doc EXCEPT ![s].life = "waiting_for_lock"]
  /\ expected' = [expected EXCEPT ![s] = stage]
  /\ UNCHANGED <<queue, record, stage, lock, worker, request, ghost, faults>>

-----------------------------------------------------------------------------
(* Mutant of Claimable: a claim is never taken over. *)
NeverClaimed(s) == doc[s].life \in Active /\ ~queue[s].done /\ queue[s].owner = NoWorker

(* The claim of a queued submission and its lease.                         *)
Claimable(s) ==
  /\ doc[s].life \in Active
  /\ ~queue[s].done
  /\ queue[s].owner = NoWorker \/ queue[s].lapsed

(* Mutant of Claim: a run found running is executed like any other. *)
ClaimAndExecute(w) ==
  /\ worker[w].pc = "idle"
  /\ ~worker[w].aborted
  /\ \E s \in Subs :
       /\ Claimable(s)
       /\ \A o \in Subs : Claimable(o) => s <= o
       /\ queue' = [queue EXCEPT ![s].owner = w, ![s].lapsed = FALSE]
       /\ worker' = [worker EXCEPT ![w].pc = "materialize", ![w].sub = s, ![w].goal = "execute"]
  /\ UNCHANGED <<doc, record, stage, expected, lock, request, ghost, faults>>

(* claimBackendQueuedSubmission: the oldest row nobody's claim covers.  A  *)
(* run found running or cancelling is recovered, any other is executed.    *)
Claim(w) ==
  /\ worker[w].pc = "idle"
  /\ ~worker[w].aborted
  /\ \E s \in Subs :
       /\ Claimable(s)
       /\ \A o \in Subs : Claimable(o) => s <= o
       /\ queue' = [queue EXCEPT ![s].owner = w, ![s].lapsed = FALSE]
       /\ worker' = [worker EXCEPT
            ![w].pc = "materialize", ![w].sub = s,
            ![w].goal = IF doc[s].life \in {"running", "cancelling"} THEN "recover" ELSE "execute"]
  /\ UNCHANGED <<doc, record, stage, expected, lock, request, ghost, faults>>

(* claimLease.assertCurrentAuthority passes; its refresh finds the lease   *)
(* running and extends it.                                                 *)
HasClaim(w) ==
  /\ ~worker[w].aborted
  /\ queue[Sub(w)].owner = w
  /\ ~queue[Sub(w)].lapsed
  /\ ~queue[Sub(w)].done
  /\ doc[Sub(w)].life \in Active

(* Mutant of HasAuthority: the lock is asserted, the claim is not. *)
HasLock(w) == Lock!Authority(w)

(* assertAuthority: the lock's assertion and the claim's, one statement    *)
(* after the other; to lose the lock between them is to lose it just after.*)
HasAuthority(w) == Lock!Authority(w) /\ HasClaim(w)

-----------------------------------------------------------------------------
(* The worker's copy of the documents; an aborted worker returns at once.  *)
Materialize(w) ==
  /\ worker[w].pc = "materialize"
  /\ IF worker[w].aborted THEN Return(w)
     ELSE worker' = [worker EXCEPT
            ![w].file = doc[Sub(w)],
            ![w].pc = IF worker[w].goal = "recover" THEN "reconcile" ELSE "acquire"]
  /\ UNCHANGED <<rows, lock, request, ghost, faults>>

(* An in-doubt run is decided from the deploy record in the worker's file, *)
(* which is persisted after one more assertion of the claim.               *)
Reconcile(w) ==
  /\ worker[w].pc = "reconcile"
  /\ LET d == Reconciled(worker[w].file, record[Sub(w)]) IN
       worker' = [worker EXCEPT ![w].file = d, ![w].next = d, ![w].pc = "assertClaim"]
  /\ UNCHANGED <<rows, lock, request, ghost, faults>>

AssertClaim(w) ==
  /\ worker[w].pc = "assertClaim"
  /\ IF HasClaim(w) THEN Goto(w, "upsert", "recover") ELSE Goto(w, "finally", "none")
  /\ UNCHANGED <<rows, lock, request, ghost, faults>>

(* Mutant of LockWaitAborts: it looks for a request under way only. *)
LockWaitAbortsCancelling(w) == worker[w].file.life = "cancelling"

(* lockWaitAbortReasonForSubmission, on the worker's own file. *)
LockWaitAborts(w) ==
  worker[w].file.life = "cancelled" \/ worker[w].file.reason # "none"

StopWaiting(w) ==
  /\ worker[w].pc = "acquire"
  /\ LockWaitAborts(w)
  /\ Goto(w, "finally", "none")
  /\ UNCHANGED <<rows, lock, request, ghost, faults>>

AcquireLock(w) ==
  /\ worker[w].pc = "acquire"
  /\ ~LockWaitAborts(w)
  /\ Lock!Acquire(w) /\ ~lockLapsed'
  /\ worker' = [worker EXCEPT ![w].pc = "assert", ![w].goal = "running", ![w].leaked = FALSE,
                              ![w].next = [worker[w].file EXCEPT !.life = "running"]]
  /\ UNCHANGED <<rows, request, ghost, faults>>

(* assertAuthority passes: a document is written to the file and then to   *)
(* the database, or the step it guards starts.  "record" goes on to the    *)
(* deploy record, "settled" asserts a second time in writeSubmission.      *)
AssertPasses(w) ==
  /\ worker[w].pc = "assert"
  /\ HasAuthority(w)
  /\ CASE worker[w].goal = "check"  -> Goto(w, "revalidate", "check")
       [] worker[w].goal = "record" -> Goto(w, "record", "record")
       [] worker[w].goal = "settle" -> Goto(w, "assert", "settled")
       [] OTHER -> worker' = [worker EXCEPT ![w].pc = "upsert", ![w].file = worker[w].next]
  /\ UNCHANGED <<rows, lock, request, ghost, faults>>

(* recoverControlPlaneSubmission: the submission is reconciled with its    *)
(* record and persisted, with authority or without.                        *)
Recover(w, rec) ==
  LET d == Reconciled(worker[w].file, rec) IN
    worker' = [worker EXCEPT ![w].pc = "upsert", ![w].goal = "end",
                             ![w].file = d, ![w].next = d]

(* An error unwinds to the release of the lock; but the first write after  *)
(* the lock is acquired stands before the try whose finally releases it.   *)
Unwind(w) ==
  IF worker[w].goal = "running"
  THEN worker' = [worker EXCEPT ![w].pc = "finally", ![w].goal = "none", ![w].leaked = TRUE]
  ELSE Goto(w, "release", "none")

(* It fails: but a run whose success has been recorded is recovered.       *)
LoseAuthority(w) ==
  IF worker[w].goal = "settle" THEN Recover(w, record[Sub(w)]) ELSE Unwind(w)

AssertFails(w) ==
  /\ worker[w].pc = "assert"
  /\ ~HasAuthority(w)
  /\ LoseAuthority(w)
  /\ UNCHANGED <<rows, lock, request, ghost, faults>>

(* writeBackendSubmissionDoc: the upsert of the whole row, whatever it     *)
(* holds by now; for a run that has ended markQueueDone follows.           *)
AfterWrite(w) ==
  LET goal == worker[w].goal IN
  CASE goal = "running"  -> Goto(w, "assert", "check")
    [] goal = "mutating" -> Goto(w, "begin", "mutating")
    [] goal = "recover"  -> Goto(w, "finally", "none")
    [] goal = "putBack"  -> Return(w)
    [] OTHER             -> Goto(w, "release", "none")

(* Mutant of UpsertDoc: markQueueDone follows every write. *)
UpsertAndMarkDone(w) ==
  /\ worker[w].pc = "upsert"
  /\ doc' = [doc EXCEPT ![Sub(w)] = worker[w].next]
  /\ Goto(w, "markDone", worker[w].goal)
  /\ UNCHANGED <<queue, record, stage, expected, lock, request, ghost, faults>>

UpsertDoc(w) ==
  /\ worker[w].pc = "upsert"
  /\ doc' = [doc EXCEPT ![Sub(w)] = worker[w].next]
  /\ IF worker[w].next.life \in Active THEN AfterWrite(w) ELSE Goto(w, "markDone", worker[w].goal)
  /\ UNCHANGED <<queue, record, stage, expected, lock, request, ghost, faults>>

Done == [owner |-> NoWorker, lapsed |-> FALSE, done |-> TRUE]

MarkDone(w) ==
  /\ worker[w].pc = "markDone"
  /\ queue' = [queue EXCEPT ![Sub(w)] = Done]
  /\ AfterWrite(w)
  /\ UNCHANGED <<doc, record, stage, expected, lock, request, ghost, faults>>

(* Mutant of Revalidate: mutationStartedAt is not set. *)
RevalidateSilently(w) ==
  /\ worker[w].pc = "revalidate"
  /\ worker' = [worker EXCEPT ![w].pc = "assert", ![w].goal = "mutating",
                              ![w].next = [worker[w].file EXCEPT !.life = "running"]]
  /\ UNCHANGED <<rows, lock, request, ghost, faults>>

(* The file is read again, which nobody else has written, and the          *)
(* admission is checked against current policy.                            *)
Revalidate(w) ==
  /\ worker[w].pc = "revalidate"
  /\ \/ worker' = [worker EXCEPT ![w].pc = "assert", ![w].goal = "mutating",
                                 ![w].next = [worker[w].file EXCEPT !.life = "running", !.mutation = TRUE]]
     \/ worker' = [worker EXCEPT ![w].pc = "assert", ![w].goal = "end",
                                 ![w].next = [worker[w].file EXCEPT !.life = "finished",
                                                            !.reason = "no_longer_admitted"]]
  /\ UNCHANGED <<rows, lock, request, ghost, faults>>

(* runNixosSharedHostControlPlaneWorker mutates the provider for as long   *)
(* as "mutate" lasts.  It returns a record, or throws with one, or pauses. *)
BeginMutation(w) ==
  /\ worker[w].pc = "begin"
  /\ Goto(w, "mutate", "mutating")
  /\ mutations' = [mutations EXCEPT ![Sub(w)] = @ + 1]
  /\ UNCHANGED <<rows, lock, request, accepted, faults>>

(* Mutant of MutateReturns: a pause is reported as an outcome. *)
MutateReturnsPaused(w) ==
  /\ worker[w].pc = "mutate"
  /\ worker' = [worker EXCEPT ![w].pc = "assert", ![w].goal = "end",
                              ![w].next = [@ EXCEPT !.life = "paused", !.outcome = "paused"]]
  /\ UNCHANGED <<rows, lock, request, ghost, faults>>

MutateReturns(w) ==
  /\ worker[w].pc = "mutate"
  /\ \/ \E result \in {"succeeded", "failed"} :
          worker' = [worker EXCEPT ![w].pc = "assert", ![w].goal = "record",
                                   ![w].result = result,
                                   ![w].next = [@ EXCEPT !.life = "finished", !.outcome = result]]
     \/ worker' = [worker EXCEPT ![w].pc = "assert", ![w].goal = "end",
                                 ![w].next = [@ EXCEPT !.life = "paused"]]
  /\ UNCHANGED <<rows, lock, request, ghost, faults>>

(* After the deploy record the submission: a success is settled, or        *)
(* recovered if the worker's file tells of a requested cancellation.       *)
AfterRecord(w) ==
  IF worker[w].result # "succeeded" THEN Goto(w, "assert", "settled")
  ELSE IF worker[w].file.requested THEN Recover(w, worker[w].result)
  ELSE Goto(w, "assert", "settle")

(* Mutants of PersistRecord: the current run is replaced unseen; a stale   *)
(* expectation is not an error.                                            *)
PersistUnseen(w) ==
  /\ worker[w].pc = "record"
  /\ LET s == Sub(w) result == worker[w].result IN
       /\ record' = [record EXCEPT ![s] = result]
       /\ stage' = IF result = "succeeded" THEN s ELSE stage
       /\ AfterRecord(w)
  /\ UNCHANGED <<doc, queue, expected, lock, request, ghost, faults>>

PersistIfFresh(w) ==
  /\ worker[w].pc = "record"
  /\ LET s == Sub(w) result == worker[w].result IN
       /\ IF result = "succeeded" /\ stage # expected[s]
          THEN UNCHANGED <<record, stage>>
          ELSE /\ record' = [record EXCEPT ![s] = result]
               /\ stage' = IF result = "succeeded" THEN s ELSE stage
       /\ AfterRecord(w)
  /\ UNCHANGED <<doc, queue, expected, lock, request, ghost, faults>>

(* writeBackendDeployRecordDoc: a success must still find the run it was   *)
(* admitted against.  stage_state_stale rolls the record back and throws.  *)
PersistRecord(w) ==
  /\ worker[w].pc = "record"
  /\ LET s == Sub(w) result == worker[w].result IN
       IF result = "succeeded" /\ stage # expected[s]
       THEN Goto(w, "release", "none") /\ UNCHANGED <<record, stage>>
       ELSE /\ record' = [record EXCEPT ![s] = result]
            /\ stage' = IF result = "succeeded" THEN s ELSE stage
            /\ AfterRecord(w)
  /\ UNCHANGED <<doc, queue, expected, lock, request, ghost, faults>>

ReleaseLock(w) ==
  /\ worker[w].pc = "release"
  /\ IF lockOwner = w THEN Lock!Release(w) ELSE UNCHANGED lock
  /\ Goto(w, "finally", "none")
  /\ UNCHANGED <<rows, request, ghost, faults>>

(* Mutant of Finally: the file is put back whatever became of the claim. *)
FinallyPutBack(w) ==
  /\ worker[w].pc = "finally"
  /\ worker' = [worker EXCEPT ![w].pc = "upsert", ![w].goal = "putBack",
                              ![w].next = worker[w].file]
  /\ UNCHANGED <<rows, lock, request, ghost, faults>>

(* persistMaterializedControlPlaneFilesIfCurrent: the file is put back if  *)
(* the claim still stands; either way the claim's lease is left to lapse.  *)
Finally(w) ==
  /\ worker[w].pc = "finally"
  /\ IF HasClaim(w)
     THEN worker' = [worker EXCEPT ![w].pc = "upsert", ![w].goal = "putBack",
                                   ![w].next = worker[w].file]
     ELSE Return(w)
  /\ UNCHANGED <<rows, lock, request, ghost, faults>>

-----------------------------------------------------------------------------
(* Leases.  The heartbeat of a claim runs from the claim to the return and *)
(* stops with an abort; that of the lock runs until it is released, or for *)
(* the life of the process.                                                *)
(* Short steps are over long before a lease is: a claim whose heartbeat an *)
(* abort has stopped lapses while the worker waits or works.               *)
Long == {"materialize", "acquire", "revalidate", "mutate"}

Covers(w, s) ==
  /\ worker[w].pc # "idle"
  /\ Sub(w) = s
  /\ worker[w].aborted => worker[w].pc \notin Long

ClaimLapses(s) ==
  /\ queue[s].owner \in Workers /\ ~queue[s].lapsed
  /\ ~Covers(queue[s].owner, s)
  /\ queue' = [queue EXCEPT ![s].lapsed = TRUE]
  /\ UNCHANGED <<doc, record, stage, expected, lock, worker, request, ghost, faults>>

(* Mutant of LockLapses: the lock has no heartbeat. *)
LockLapsesAtWork ==
  /\ lockOwner \in Workers /\ ~lockLapsed
  /\ Lock!Lapse
  /\ UNCHANGED <<rows, worker, request, ghost, faults>>

LockLapses ==
  /\ lockOwner \in Workers /\ ~lockLapsed
  /\ ~Renewing(lockOwner)
  /\ Lock!Lapse
  /\ UNCHANGED <<rows, worker, request, ghost, faults>>

LockRevives(w) ==
  /\ Renewing(w)
  /\ lockLapsed
  /\ Lock!Renew(w)
  /\ UNCHANGED <<rows, worker, request, ghost, faults>>

-----------------------------------------------------------------------------
(* Faults.                                                                 *)

(* The worker process dies, and whatever it runs with it; a new one takes  *)
(* its place.                                                              *)
Crash(w) ==
  /\ Fault("crash")
  /\ worker[w].pc # "idle"
  /\ worker' = [worker EXCEPT ![w] = Idle]
  /\ UNCHANGED <<rows, lock, request, ghost>>

(* SIGTERM: the claim is no longer renewed and its assertions fail at      *)
(* once, but the execution in hand goes on until it returns ...            *)
Abort(w) ==
  /\ Fault("abort")
  /\ worker[w].pc # "idle" /\ ~worker[w].aborted
  /\ worker' = [worker EXCEPT ![w].aborted = TRUE]
  /\ UNCHANGED <<rows, lock, request, ghost>>

(* ... then the process exits, and a new one takes its place. *)
Restart(w) ==
  /\ worker[w].pc = "idle" /\ worker[w].aborted
  /\ worker' = [worker EXCEPT ![w] = Idle]
  /\ UNCHANGED <<rows, lock, request, ghost, faults>>

(* A statement, a file or a provider call throws before it has an effect,  *)
(* or the wait for the lock times out.                                     *)
Error(w) ==
  LET pc == worker[w].pc
      writes(goal) == pc \in {"upsert", "markDone"} /\ worker[w].goal = goal
  IN
  /\ Fault("error")
  /\ \/ (pc \in {"materialize", "finally"} \/ writes("putBack")) /\ Return(w)
     \/ /\ pc \in {"reconcile", "assertClaim", "acquire", "release"} \/ writes("recover")
        /\ Goto(w, "finally", "none")
     \/ pc = "assert" /\ LoseAuthority(w)
     \/ Locking(w) /\ pc \notin {"assert", "release"} /\ Unwind(w)
  /\ UNCHANGED <<rows, lock, request, ghost>>

(* The process is suspended, cut off from the database or starved for      *)
(* longer than a lease, anywhere.                                          *)
Stall(w) ==
  /\ Fault("stall")
  /\ LET claimLapses == /\ worker[w].pc # "idle" /\ queue[Sub(w)].owner = w
                        /\ queue' = [queue EXCEPT ![Sub(w)].lapsed = TRUE]
         lockLapses  == Renewing(w) /\ lockOwner = w /\ Lock!Lapse
     IN  \/ claimLapses /\ UNCHANGED lock
         \/ lockLapses /\ UNCHANGED queue
         \/ claimLapses /\ lockLapses
  /\ UNCHANGED <<doc, record, stage, expected, worker, request, ghost>>

-----------------------------------------------------------------------------
(* handleControlPlaneRunActionService for the action cancel: it reads the  *)
(* submission, ...                                                         *)
CancelRead(q) ==
  /\ request[q].pc = "new"
  /\ \E s \in Submitted :
       request' = [request EXCEPT ![q] = [pc |-> "read", sub |-> s, copy |-> doc[s]]]
  /\ UNCHANGED <<rows, lock, worker, ghost, faults>>

(* ... and writes the whole document back with its next lifecycle state,   *)
(* ...                                                                     *)
CancelWrite(q) ==
  /\ request[q].pc = "read"
  /\ LET s == request[q].sub
         d == CancelledDoc(request[q].copy)
     IN  /\ doc' = [doc EXCEPT ![s] = d]
         /\ request' = [request EXCEPT ![q].pc = IF d.life \in Active THEN "done" ELSE "written",
                                       ![q].copy = Blank]
         /\ accepted' = IF d.life = "cancelling" THEN accepted \cup {s} ELSE accepted
  /\ UNCHANGED <<queue, record, stage, expected, lock, worker, mutations, faults>>

(* ... and takes a run that has ended out of the queue. *)
CancelMarkDone(q) ==
  /\ request[q].pc = "written"
  /\ request' = [request EXCEPT ![q].pc = "done"]
  /\ queue' = [queue EXCEPT ![request[q].sub] = Done]
  /\ UNCHANGED <<doc, record, stage, expected, lock, worker, ghost, faults>>

-----------------------------------------------------------------------------
WorkerStep(w) ==
  \/ Claim(w) \/ Materialize(w) \/ Reconcile(w) \/ AssertClaim(w) \/ StopWaiting(w)
  \/ AcquireLock(w) \/ AssertPasses(w) \/ AssertFails(w) \/ UpsertDoc(w) \/ MarkDone(w)
  \/ Revalidate(w) \/ BeginMutation(w) \/ MutateReturns(w) \/ PersistRecord(w)
  \/ ReleaseLock(w) \/ Finally(w) \/ LockRevives(w) \/ Restart(w)

Next ==
  \/ \E s \in Subs : Submit(s) \/ ClaimLapses(s)
  \/ LockLapses
  \/ \E w \in Workers : WorkerStep(w) \/ Crash(w) \/ Abort(w) \/ Error(w) \/ Stall(w)
  \/ \E q \in Requests : CancelRead(q) \/ CancelWrite(q) \/ CancelMarkDone(q)

Spec == Init /\ [][Next]_vars

(* Workers poll every 100 ms and every step of a run returns; a lease      *)
(* nobody renews runs out by the clock.                                    *)
Fairness ==
  /\ \A w \in Workers : WF_vars(WorkerStep(w))
  /\ \A s \in Subs : WF_vars(ClaimLapses(s))
  /\ WF_vars(LockLapses)

FairSpec == Spec /\ Fairness

-----------------------------------------------------------------------------
(* Two workers never mutate the target at once: neither two submissions,   *)
(* nor a crashed or aborted worker's replacement next to the aborted one.  *)
ExclusiveMutation ==
  \A w1, w2 \in Workers :
    worker[w1].pc = "mutate" /\ worker[w2].pc = "mutate" => w1 = w2

(* No submission is executed twice: an in-doubt run is reconciled, never   *)
(* blindly retried.                                                        *)
ExecutedAtMostOnce == \A s \in Subs : mutations[s] <= 1

(* Before the provider is mutated, the submission's row says so, for       *)
(* whoever finds it in doubt; nothing erases it.                           *)
MutationIsAnnounced == \A s \in Subs : mutations[s] > 0 => doc[s].mutation

(* A submission that is still to be worked on is in the queue: a worker    *)
(* will find it.                                                           *)
ActiveRunIsQueued == \A s \in Subs : doc[s].life \in Active => ~queue[s].done

(* The outcome a submission reports is that of its deploy record.          *)
OutcomeBackedByRecord ==
  \A s \in Subs : doc[s].outcome # "none" => record[s] = doc[s].outcome

(* A run that was handed to the operator as inconclusive has no deploy     *)
(* record: none is written once the run has been given up.                 *)
InconclusiveHasNoRecord ==
  \A s \in Subs : doc[s].recovery = "inconclusive" => record[s] = "none"

(* Of the submissions admitted against one current run, one succeeds.      *)
OneSuccessor ==
  \A s1, s2 \in Subs :
    record[s1] = "succeeded" /\ record[s2] = "succeeded" /\ expected[s1] = expected[s2]
      => s1 = s2

(* An ended submission keeps its state, outcome and recovery.              *)
EndIsFinal == [][\A s \in Subs : doc[s].life \in Ended => doc'[s] = doc[s]]_vars

(* Every submission ends, whichever workers crash, are aborted or fail:    *)
(* but for a lock that an idle worker keeps for good.                      *)
EverySubmissionEnds ==
  (\A w \in Workers : []<>~worker[w].leaked) =>
    \A s \in Subs : doc[s].life \in Active ~> doc[s].life \in Ended

(* A cancellation a worker finds when it copies the documents stops it     *)
(* short of the provider.                                                  *)
CancelIsHonoured ==
  \A w \in Workers : worker[w].pc \in {"begin", "mutate"} => worker[w].file.reason # "cancelled"

(* docs/history/plans/deployment-plan.md:4034: the lock is held by lease,  *)
(* not indefinitely: nobody owns it for good without a run that needs it.  *)
OwnershipIsBounded ==
  \A w \in Workers :
    lockOwner = w /\ ~Locking(w) ~> lockOwner # w \/ lockLapsed \/ Locking(w)

(* What the documentation says and the code does not keep: see the known   *)
(* limits in README.md.                                                    *)

(* docs/deployments-contract.md:290: a run in cancelling does not silently *)
(* resume ordinary forward progress.                                       *)
CancellingNeverResumes ==
  \A s \in accepted : doc[s].life \notin {"queued", "waiting_for_lock", "running"}
=============================================================================
