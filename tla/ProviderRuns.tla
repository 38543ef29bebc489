----------------------------- MODULE ProviderRuns -----------------------------
(***************************************************************************)
(* Submissions of the providers a worker dispatches to executors of their  *)
(* own (nixos-shared-host-control-plane-worker-dispatch.ts), and those of  *)
(* cloudflare-pages, which the worker loop executes itself:                *)
(*                                                                         *)
(*  - kubernetes, s3-static, vercel: "releasing", the lock is released in  *)
(*    a finally                                                            *)
(*  - app-store-connect, google-play, cloudflare-containers: "forgetting", *)
(*    nothing releases it                                                  *)
(*  - cloudflare-pages: "settling", every failure is recorded and ends the *)
(*    run, and a run in doubt is reconciled                                *)
(*                                                                         *)
(* Claims, leases, rows, cancel requests and faults are those of           *)
(* ControlPlane; between claim and put-back these executors run instead.   *)
(***************************************************************************)
EXTENDS ControlPlane

CONSTANT MaxExecutions   \* bound on the executions of one submission

ASSUME ProviderAssumption == MaxExecutions \in Nat

VARIABLES executor,   \* of the target's provider: never changes
          aside       \* submissions with a second deploy record, of a failure

providerVars == <<vars, executor, aside>>

ProviderInit == Init /\ executor \in {"releasing", "forgetting", "settling"} /\ aside = {}

-----------------------------------------------------------------------------
(* queueFrozenProviderSubmission: as Submit, but queued. *)
QueueFrozen(s) ==
  /\ doc[s].life = NoDoc
  /\ \A o \in Subs : o < s => doc[o].life # NoDoc
  /\ doc' = [doc EXCEPT ![s].life = "queued"]
  /\ expected' = [expected EXCEPT ![s] = stage]
  /\ UNCHANGED <<queue, record, stage, lock, worker, request, ghost, faults>>

(* The dispatch comes before the worker loop asks for the lifecycle state  *)
(* it claimed: a run found running is executed like any other.             *)
Dispatch(w) ==
  /\ worker[w].pc = "idle"
  /\ ~worker[w].aborted
  /\ \E s \in Subs :
       /\ Claimable(s)
       /\ \A o \in Subs : Claimable(o) => s <= o
       /\ queue' = [queue EXCEPT ![s].owner = w, ![s].lapsed = FALSE]
       /\ worker' = [worker EXCEPT ![w].pc = "materialize", ![w].sub = s, ![w].goal = "execute"]
  /\ UNCHANGED <<doc, record, stage, expected, lock, request, ghost, faults>>

(* Mutant of TakeLock: nobody asks whether the lease still runs. *)
TakeLockUnasked(w) ==
  /\ worker[w].pc = "acquire"
  /\ lockOwner' = w /\ lockLapsed' = FALSE
  /\ worker' = [worker EXCEPT ![w].pc = "assert", ![w].goal = "mutating", ![w].leaked = FALSE,
                              ![w].next = [worker[w].file EXCEPT !.life = "running"]]
  /\ UNCHANGED <<rows, request, ghost, faults>>

(* Acquired without a look at the submission; written as running, inside   *)
(* the try, the run goes straight on to the provider.                      *)
TakeLock(w) ==
  /\ worker[w].pc = "acquire"
  /\ Lock!Acquire(w) /\ ~lockLapsed'
  /\ worker' = [worker EXCEPT ![w].pc = "assert", ![w].goal = "mutating", ![w].leaked = FALSE,
                              ![w].next = [worker[w].file EXCEPT !.life = "running"]]
  /\ UNCHANGED <<rows, request, ghost, faults>>

(* Nothing but the model's bound keeps a run from being executed again. *)
BeginExecution(w) == BeginMutation(w) /\ mutations[Sub(w)] < MaxExecutions

(* The provider's deployment succeeds; or it throws, and the record of the *)
(* failure stays in the worker's directory; or the admission no longer     *)
(* holds, which a releasing executor settles.                              *)
ProviderReturns(w) ==
  /\ worker[w].pc = "mutate"
  /\ \/ worker' = [worker EXCEPT ![w].pc = "assert", ![w].goal = "record",
                                 ![w].result = "succeeded",
                                 ![w].next = [@ EXCEPT !.life = "finished", !.outcome = "succeeded"]]
     \/ Goto(w, "release", "none")
     \/ /\ executor = "releasing"
        /\ worker' = [worker EXCEPT ![w].pc = "assert", ![w].goal = "settled",
                                    ![w].next = [@ EXCEPT !.life = "finished",
                                                          !.reason = "no_longer_admitted"]]
  /\ UNCHANGED <<rows, lock, request, ghost, faults>>

(* Mutants of RecordRun: a stale expectation is not looked at; the         *)
(* submission is settled whatever became of the record.                    *)
RecordBlindly(w) ==
  /\ worker[w].pc = "record"
  /\ record' = [record EXCEPT ![Sub(w)] = worker[w].result]
  /\ stage' = Sub(w)
  /\ Goto(w, "assert", "settled")
  /\ UNCHANGED <<doc, queue, expected, lock, request, ghost, faults>>

RecordIfFresh(w) ==
  /\ worker[w].pc = "record"
  /\ IF stage # expected[Sub(w)]
     THEN UNCHANGED <<record, stage>>
     ELSE /\ record' = [record EXCEPT ![Sub(w)] = worker[w].result]
          /\ stage' = Sub(w)
  /\ Goto(w, "assert", "settled")
  /\ UNCHANGED <<doc, queue, expected, lock, request, ghost, faults>>

(* writeBackendDeployRecordDoc, then the submission is finished. *)
RecordRun(w) ==
  /\ worker[w].pc = "record"
  /\ IF stage # expected[Sub(w)]
     THEN Goto(w, "release", "none") /\ UNCHANGED <<record, stage>>
     ELSE /\ record' = [record EXCEPT ![Sub(w)] = worker[w].result]
          /\ stage' = Sub(w)
          /\ Goto(w, "assert", "settled")
  /\ UNCHANGED <<doc, queue, expected, lock, request, ghost, faults>>

(* finally { await lock.release() } ... *)
ReleaseInFinally(w) == executor # "forgetting" /\ ReleaseLock(w)

(* ... or the executor returns, and the heartbeat goes on. *)
ForgetLock(w) ==
  /\ executor = "forgetting"
  /\ worker[w].pc = "release"
  /\ worker' = [worker EXCEPT ![w].pc = "finally", ![w].goal = "none", ![w].leaked = TRUE]
  /\ UNCHANGED <<rows, lock, request, ghost, faults>>

-----------------------------------------------------------------------------
(* cloudflare-pages: executeCloudflarePagesBackendSubmission.  A worker's  *)
(* next is the submission the executor has in memory, result the outcome   *)
(* of the record it is about to commit; of its goals "begin", "smoke" and  *)
(* "smoked" are its own.                                                   *)
Steps == {"running", "check", "mutating", "smoke"}  \* goals of persistStep

Commit(w, result) ==
  worker' = [worker EXCEPT ![w].pc = "assert", ![w].goal = "record", ![w].result = result,
                           ![w].next = [@ EXCEPT !.life = "finished", !.outcome = result]]

(* Whatever throws behind the first write is caught: the failure is        *)
(* recorded and ends the run.  A smoke test that does not block is itself  *)
(* caught, with the write and the assertions that precede it.  What throws *)
(* in the handler, or before, leads to the release of the lock.            *)
StepFails(w) ==
  \/ /\ worker[w].goal = "running" \/ worker[w].result = "failed"
     /\ Goto(w, "release", "none")
  \/ /\ worker[w].goal # "running" /\ worker[w].result # "failed"
     /\ Commit(w, "failed")
  \/ worker[w].goal \in {"smoke", "smoked"} /\ Commit(w, "succeeded")

(* assertAuthority passes; before the provider is touched it is called a   *)
(* second time, after the write.                                           *)
StepGranted(w) ==
  /\ worker[w].pc = "assert"
  /\ HasAuthority(w)
  /\ CASE worker[w].goal = "begin"  -> Goto(w, "begin", "mutating")
       [] worker[w].goal = "smoked" -> \E result \in {"succeeded", "failed"} : Commit(w, result)
       [] worker[w].goal = "record" -> Goto(w, "record", "record")
       [] OTHER -> worker' = [worker EXCEPT ![w].pc = "upsert", ![w].file = worker[w].next]
  /\ UNCHANGED <<rows, lock, request, ghost, faults>>

StepDenied(w) ==
  /\ worker[w].pc = "assert"
  /\ ~HasAuthority(w)
  /\ StepFails(w)
  /\ UNCHANGED <<rows, lock, request, ghost, faults>>

(* persistCloudflareBackendStatus of a run that goes on. *)
PersistStep(w) ==
  /\ worker[w].pc = "upsert" /\ worker[w].goal \in Steps
  /\ doc' = [doc EXCEPT ![Sub(w)] = worker[w].next]
  /\ CASE worker[w].goal = "running"  -> Goto(w, "assert", "check")
       [] worker[w].goal = "check"    -> Goto(w, "revalidate", "check")
       [] worker[w].goal = "mutating" -> Goto(w, "assert", "begin")
       [] worker[w].goal = "smoke"    -> Goto(w, "assert", "smoked")
  /\ UNCHANGED <<queue, record, stage, expected, lock, request, ghost, faults>>

(* The admission is checked again; a refusal is a failure like any other.  *)
RevalidateStep(w) ==
  /\ worker[w].pc = "revalidate"
  /\ \/ worker' = [worker EXCEPT ![w].pc = "assert", ![w].goal = "mutating",
                                 ![w].next = [@ EXCEPT !.mutation = TRUE]]
     \/ StepFails(w)
  /\ UNCHANGED <<rows, lock, request, ghost, faults>>

(* runCloudflarePagesStaticDeploy has published, or it has failed and      *)
(* throws with its record; a smoke test follows, unless it is omitted.     *)
PublishReturns(w) ==
  /\ worker[w].pc = "mutate"
  /\ \/ \E result \in {"succeeded", "failed"} : Commit(w, result)
     \/ Goto(w, "assert", "smoke")
  /\ UNCHANGED <<rows, lock, request, ghost, faults>>

(* Mutant of CommitRecord: a stale expectation is not an error. *)
CommitIfFresh(w) ==
  LET s == Sub(w) result == worker[w].result IN
  /\ worker[w].pc = "record"
  /\ IF result = "succeeded" /\ stage # expected[s]
     THEN UNCHANGED <<record, stage>>
     ELSE /\ record' = [record EXCEPT ![s] = result]
          /\ stage' = IF result = "succeeded" THEN s ELSE stage
  /\ Goto(w, "assert", "settled")
  /\ UNCHANGED <<doc, queue, expected, lock, request, ghost, faults, aside>>

(* commitCloudflareBackendRecord.  The record of a success bears the run   *)
(* id of the deployment, that of what fails afterwards the run id of the   *)
(* submission: both rows stay.                                             *)
CommitRecord(w) ==
  LET s == Sub(w) result == worker[w].result IN
  /\ worker[w].pc = "record"
  /\ \/ /\ result = "succeeded" /\ stage # expected[s]
        /\ StepFails(w) /\ UNCHANGED <<record, stage, aside>>
     \/ /\ result = "succeeded" /\ stage = expected[s]
        /\ record' = [record EXCEPT ![s] = result] /\ stage' = s
        /\ Goto(w, "assert", "settled") /\ UNCHANGED aside
     \/ /\ result = "failed"
        /\ IF record[s] = "succeeded"
           THEN aside' = aside \cup {s} /\ UNCHANGED record
           ELSE record' = [record EXCEPT ![s] = result] /\ UNCHANGED aside
        /\ Goto(w, "assert", "settled") /\ UNCHANGED stage
  /\ UNCHANGED <<doc, queue, expected, lock, request, ghost, faults>>

(* readBackendDeployRecordEnvelopeBySubmissionId: the first row there is,  *)
(* in no particular order.                                                 *)
RecordsOf(s) == {record[s]} \cup (IF s \in aside THEN {"failed"} ELSE {})

ReconcileStep(w) ==
  /\ worker[w].pc = "reconcile"
  /\ \E rec \in RecordsOf(Sub(w)) :
       LET d == Reconciled(worker[w].file, rec) IN
         worker' = [worker EXCEPT ![w].file = d, ![w].next = d, ![w].pc = "assertClaim"]
  /\ UNCHANGED <<rows, lock, request, ghost, faults>>

(* As Error, with the executor's own handler. *)
StepError(w) ==
  /\ Fault("error")
  /\ Locking(w) /\ worker[w].pc # "release"
  /\ StepFails(w)
  /\ UNCHANGED <<rows, lock, request, ghost>>

-----------------------------------------------------------------------------
Settling == executor = "settling"

DispatchedStep(w) ==
  \/ Dispatch(w) \/ TakeLock(w) \/ AssertPasses(w) \/ AssertFails(w) \/ UpsertDoc(w)
  \/ ProviderReturns(w) \/ RecordRun(w)

SettlingStep(w) ==
  \/ Claim(w) \/ ReconcileStep(w) \/ AssertClaim(w) \/ StopWaiting(w) \/ AcquireLock(w)
  \/ StepGranted(w) \/ StepDenied(w) \/ PersistStep(w)
  \/ worker[w].goal \notin Steps /\ UpsertDoc(w)
  \/ RevalidateStep(w) \/ PublishReturns(w)

CommonStep(w) ==
  \/ Materialize(w) \/ MarkDone(w) \/ BeginExecution(w) \/ ReleaseInFinally(w)
  \/ ForgetLock(w) \/ Finally(w) \/ LockRevives(w) \/ Restart(w)

ProviderStep(w) ==
  \/ ~Settling /\ DispatchedStep(w) /\ UNCHANGED aside
  \/ Settling /\ SettlingStep(w) /\ UNCHANGED aside
  \/ Settling /\ CommitRecord(w)
  \/ CommonStep(w) /\ UNCHANGED aside

ProviderFault(w) ==
  \/ Crash(w) \/ Abort(w) \/ Stall(w)
  \/ (Settling => ~Locking(w) \/ worker[w].pc = "release") /\ Error(w)
  \/ Settling /\ StepError(w)

QueueRun(s) == IF Settling THEN Submit(s) ELSE QueueFrozen(s)

ProviderNext ==
  /\ UNCHANGED executor
  /\ \/ \E w \in Workers : ProviderStep(w)
     \/ (\E w \in Workers : ProviderFault(w)) /\ UNCHANGED aside
     \/ (\E s \in Subs : QueueRun(s) \/ ClaimLapses(s)) /\ UNCHANGED aside
     \/ LockLapses /\ UNCHANGED aside
     \/ /\ \E q \in Requests : CancelRead(q) \/ CancelWrite(q) \/ CancelMarkDone(q)
        /\ UNCHANGED aside

ProviderSpec == ProviderInit /\ [][ProviderNext]_providerVars

-----------------------------------------------------------------------------
(* However often a submission is executed again, and whatever fails after  *)
(* its record has been committed: that record stands, and a run that has   *)
(* been succeeded by another does not become current again.                *)
RecordIsFinal ==
  [][\A s \in Subs : record[s] # "none" => record'[s] = record[s] /\
       (stage' = s => stage = s)]_providerVars

(* A cloudflare-pages run found running is reconciled, never executed      *)
(* again, wherever its worker died or failed.                              *)
SettlingExecutesOnce == Settling => ExecutedAtMostOnce

(* A cloudflare-pages run ends with the outcome of one of its records,     *)
(* whoever ended it: the executor, its handler or a recovery.              *)
SettledByRecord ==
  Settling => \A s \in Subs : doc[s].outcome # "none" => doc[s].outcome \in RecordsOf(s)

(* What the documentation says and the code does not keep: see the known   *)
(* limits in README.md.                                                    *)

(* docs/history/tasks/18-dead-letter-queue-strategy.md:30-32: a run whose  *)
(* publish failed is finished and does not re-enter the queue.             *)
FailedRunLeavesQueue == \A s \in Subs : mutations[s] <= 1

(* docs/deployments-contract.md:303: every run owns its final outcome and  *)
(* its record.                                                             *)
OneRecordPerRun == aside = {}
CurrentRunSucceeded == \A s \in Subs : stage = s => doc[s].outcome # "failed"
=============================================================================
