# TLA+ models of viberoots

viberoots is a workspace toolchain (Buck2, Nix, TypeScript) with a deployment
control plane at its centre: a service accepts deployment requests and stores
them in PostgreSQL, and any number of worker processes claim, execute, recover
and settle them against providers that cannot take part in a transaction.
Around it stand local commands that meet in the file system: locks made of
directories, and a daemon that builds WebAssembly for the dev servers. This
directory holds the specifications of these parts, the TLC configurations that
check them, and proofs of their main properties.

`D/` below stands for `build-tools/tools/deployments/`, `T/` for
`build-tools/tools/`, `NSH-` for `nixos-shared-host-control-plane-`.

## 1. Inventory

### The control plane (`D/`)

| Part | State | Operations | Modelled in |
| --- | --- | --- | --- |
| Database locks (`NSH-backend-locks.ts`, `NSH-worker-locks.ts`) | a row per lock scope in `locks`: holder id, fencing token, expiry | acquire (steal by UPDATE, take by INSERT, poll), heartbeat, assertion, release; several scopes in one order | `LeaseLock`, `BackendLocks` |
| Stage state (`deployment-current-stage-state*.ts`, `deployment-stage-state-*.ts`, `NSH-backend-records.ts`) | `current_stage_state`, `stage_state_history`, `stage_state_audit_events`, `deploy_records`, backup files | expectation at submission, guarded swap, audit append, backup, commit | `AuditEvents`, `StageState` |
| Submission audit (`NSH-backend-state.ts`, `deployment-stage-state-audit.ts`) | the audit chain of stage `unknown` | append after a write of a cancelled or recovered document | `SubmissionAudit` |
| Queue (`NSH-backend-queue.ts`) | `queue`: claiming worker, token, expiry, completed_at | claim the oldest, renew, assert, lapse | `ControlPlane` |
| Worker (`NSH-worker-loop.ts`, `NSH-submit-helpers.ts`, `NSH-submit-finalize.ts`, `nixos-shared-host-recovery.ts`, ...) | a private copy of the submission, the lock's and the claim's heartbeat | claim, materialize, lock, announce, mutate, record, settle; recover a run found in doubt | `ControlPlane` |
| Run actions (`deployment-control-plane-run-action*.ts`, `deployment-control-plane-queue.ts`) | `submissions`, `run_actions`, `queue` | cancel; approve; resume and dedupe (not modelled) | `ControlPlane`, `SubmitPath` |
| Dispatched providers (`kubernetes-`, `s3-static-`, `vercel-control-plane.ts`, the app store, google play and cloudflare-containers workers) | the same rows | an execute protocol of their own | `ProviderRuns` |
| Submission service (`NSH-service-api.ts`, `NSH-backend-prepare.ts`, `NSH-backend-submit.ts`, the idempotency helper of `NSH-backend-locks.ts`) | `idempotency`, `submissions`, `snapshots`, `queue` | idempotent submit, pending approval, supersedence | `SubmitPath` |
| Artifact challenges (`deployment-artifact-submit-*.ts`, `deployment-artifact-challenges.ts`, `NSH-challenged-submit.ts`) | `artifact_challenges`, the four tables of a submission, staged files | issue, verify, the accepting transaction, compensation, clean-up of refused uploads | `ChallengedSubmit` |
| Local file store (`NSH-store.ts`) | a directory per lock scope, JSON files | directory lock with lease | `DirLocks` (the lock) |
| cloudflare-pages executor (`cloudflare-pages-control-plane-backend-*.ts`, `cloudflare-pages-static-deploy.ts`) | the same rows | write every step, publish, smoke test, record success or failure | `ProviderRuns` |
| Upload sessions, auth sessions, retention | | | not modelled |

How they interact: everything goes through rows of one database, each
statement on its own except the recording transaction. A worker holds two
leases, the *claim* of a submission and the *lock* of its target; each has a
heartbeat, and both are asserted before a write, by statements that precede
it. What one process knows of another is only what a row said when it was
read. Hard behaviours, each listed at its line under `hazards` in
`PROJECT.json`: leases that lapse under a working process, crashes and SIGTERM
between two statements, whole-document writes from stale copies, retry and
recovery of runs in doubt, partial acquisition and partial release of several
scopes, and a read followed by an insert that no lock joins.

What makes each part correct: a lock scope is a lease (nobody takes it from a
live holder, nobody leaves it behind); current runs of a stage form one line,
and the audit chain tells of exactly these; a submission is executed at most
once, ends with the outcome of its deploy record, and does end; a cancellation
is honoured or visible; a key stands for one submission, whatever is accepted
reaches the queue, and of a chain of superseding deploys one survives; a
challenge is spent once, and with everything it was spent for.

### Local commands (`T/`)

| Part | State | Operations | Modelled in |
| --- | --- | --- | --- |
| Directory locks (`dev/install/lock.ts`, `lib/shared-buck-isolation-lock.ts`, `dev/verify/lock.ts`, and `NSH-store.ts` above) | a directory, an owner file in it | mkdir, write the owner, judge and remove a stale one, heartbeat, release, die | `DirLocks` |
| Wasm watch coordinator (`dev/wasm-watch-coordinator-daemon.ts`, `dev/watch-wasm-coordinator.ts`, `dev/wasm-watch-*.ts`) | lease, result and pid files, the daemon's instance lock, the clients' start lock, copies | daemon: read leases, scan, build, copy, answer, take signals, end; client: find or start the daemon, lease, wait, rescan, refresh | `WasmWatch` |

Locks that are none: `lib/nix-gc-lock.ts` waits for other processes to end and
holds nothing; `lib/post-clone-workspace-lock.ts` derives a `flake.lock`.

What makes them correct: one process at a time in the section of a lock, and no
waiter for ever behind a dead one; a dev server that is told of a success starts
from copies of the source it asked about, a failure reaches it, and every change
is built.

The rest of `T/` (the update command's file transaction, managed commands,
bootstrap completion, patch sessions) keeps state but is used by one process
at a time; graph exporters, Starlark macros, scaffolding, CI drivers, verify
pass scheduling and provider adapters are sequential transformations or
external calls. `PROJECT.json` lists every part with its status.

## 2. Modules

```
LeaseLock        abstract: one row of `locks` as a lease
  ^ implemented by            ^ used by (INSTANCE)
BackendLocks                ControlPlane  <--EXTENDS--  ProviderRuns, SubmitPath
AuditEvents  <--EXTENDS--  StageState, SubmissionAudit
ChallengedSubmit, WasmWatch, DirLocks        on their own
```

* **LeaseLock**: `Acquire`, `Renew`, `Lapse`, `Release` of one row.
  `ControlPlane` instantiates it for its target's lock; `BackendLocks`
  refines it, scope by scope.
* **BackendLocks**: one action per SQL statement. `ReadClock` is the top of
  the loop, `Steal`/`StealMisses` the UPDATE, `Insert`/`InsertConflicts` the
  INSERT, `CheckScope`/`CheckFails` the SELECTs of the assertion, one per
  scope. `GiveUp` stands for an abort reason, the deadline and a failing
  statement; `EndAct` and `CheckFails` lead from the very first protected write
  ("locked", "marking") to "leaked", because that write is outside the
  executor's `try`.
* **AuditEvents**: rows of the audit chain, the row the tail query returns,
  and `ChainIntact`, the code's own verification
  (`stageStateAuditChainFailures`). SHA-256 is taken to be injective: an event's
  hash is the tuple of what is hashed.
* **StageState**: one deploy run after the other through admission and the
  recording transaction, under READ COMMITTED: uncommitted rows are private,
  and the row lock of the swap (`rowLock`) is explicit.
* **SubmissionAudit**: the same append as three statements that commit alone.
* **ControlPlane**: the queue, one target's lock, the rows, the workers and
  the cancel requests. A worker's `pc` names the next statement, `goal` what
  the assertion or write in hand is for, `file` its private submission.json
  (written before the row is), `next` the document about to be written. The
  recording transaction is one step (`PersistRecord`), as `StageState`
  shows it to behave. Submissions are promotions, retries or rollbacks, which
  nothing supersedes, of one target: one lock scope, one stage.
* **ProviderRuns**: `ControlPlane` with other executors between claim and
  put-back. `executor` tells the families apart: "releasing" (kubernetes,
  s3-static, vercel) and "forgetting" (app-store-connect, google-play,
  cloudflare-containers) are dispatched, whatever state the run was found in;
  "settling" is cloudflare-pages, which the worker loop executes or recovers
  itself. Its executor writes the row before every step (`PersistStep`) and
  catches whatever throws after the first write (`StepFails`): the failure is
  committed as a record and ends the run. A failure after the success has been
  committed makes a second record, under the run id the submission was given
  (`aside`), and a recovery takes the first row it is given (`RecordsOf`). Only
  deployments that change the stage are modelled; "forgetting" executors do not
  settle a run whose admission no longer holds.
* **SubmitPath**: `ControlPlane` with its one-step `Submit` replaced by the calls
  that make a submission. A call goes through `resolve` (the idempotency row),
  admission (which reads the current run), `supersede` (the waiting runs it has
  read, ended one by one by whole-document writes), the write of the submission
  and the queue row, each a statement of its own, and may die between any two
  (`CallDies`). `Approve...` is the approve action in the same detail. The worker is
  that of `ControlPlane`, so a superseded or approved run meets a worker that
  has claimed it.
* **ChallengedSubmit**: one attempt per request, with its key, submission,
  challenge and body. The accepting transaction takes the lock of the key's
  row (`InsertKey`), of the challenge's row (`Spend`) and of the submission's
  slots (`Persist`) in this order; uncommitted rows are seen by nobody else.
  After a ROLLBACK the code takes back by hand what may have been committed by a
  COMMIT whose answer was lost: `Unspend` and `Delete`, one statement each.
* **WasmWatch**: files are variables, a daemon and a client are records with a
  `pc`. A source's version counts its edits; a build reads versions when it
  starts, the copies get them when it ends. `ensureDaemon` is five actions:
  what its caller finds (`FindsDaemon`, `LacksDaemon`), then mkdir of the start
  lock, spawn and rm, with a client that may die in between (`Quit`). Both locks are
  "free", "held", or "left" by a maker that died. SIGTERM is `Signal`, sent by
  an operator (`Terminate`) or by every client that meets an old daemon: the
  daemon's handler takes one (`process.once`), the handler of a running build
  command takes one and has the command terminated (`GivesUp`), and a signal that
  finds neither kills the process (`Dies`) with its lock still there.
  `changes` counts what the environment does, for `Bounds`; `changes.hasty`
  records tasks whose membership changed again before their clients were
  done with the last change.
* **DirLocks**: one directory and the processes that want it. `kind` is chosen at
  the start: it is the code all of them run. `Stale` is what a process makes
  of a directory it could not create, `Empty`/`RemoveDir` the two steps of a
  recursive rm, which removes whatever is there by then.

Definitions whose comment starts with "Mutant of" are not part of any
specification: each is a plausible bug against which a property is tried, by
replacing the definition it names.

## 3. Runs

| Run | Question | Result |
| --- | --- | --- |
| `backend_locks` | Do ordered leases exclude, avoid rings, clean up, and implement `LeaseLock`? | holds |
| `stage_state` | Does one line of current runs, told by an intact chain, survive every interleaving and rollback? | holds |
| `submission_audit` | Can an append outside a transaction lose an event or link to nothing? | no |
| `control_plane` | What do queue, lock and recovery promise under crash, abort and error, and does every submission end? | holds |
| `control_plane_stalls` | What holds when leases lapse under a working process and operators cancel? | holds |
| `control_plane_leak` | Is the lock ever owned for good by an idle worker? | **violated** |
| `provider_runs` | What still holds although dispatched runs are executed again, and what does the cloudflare-pages executor promise? | holds |
| `submit_path` | Do keys, supersedence, approvals and dropped calls leave every accepted run queued once? | holds |
| `challenged_submit` | Is a challenge spent once, a key accepted once, and an accepted request whole, with a failure anywhere? | holds |
| `wasm_watch` | Does an acknowledgement mean fresh copies, and a failure get through, across daemons? | holds |
| `wasm_watch_liveness` | Is every change built, whichever client starts the daemon and although something goes wrong? | holds |
| `dir_locks` | Do locks with a grace exclude in peace, and does every waiter get its answer? | holds |

### Bounds

* `BackendLocks`: three runs, two scopes (two runs need both, one the second):
  the smallest instance with a ring, a partial acquisition and a bystander. A
  lease lasts 2 ticks and the clock stops at `MaxTime` = 2, so every lease
  taken at 0 can run out and be stolen, from a live and from a dead run. One
  run is not punctual. The deadlock check is off: runs finish.
* `StageState`: four runs, two with lineage events: enough for two admitted
  against the same current run, one behind them, and chains of several events
  appended by interleaved transactions.
* `SubmissionAudit`: four writes, two of the same document (duplicates).
* `ControlPlane`: two workers and two submissions: a worker and the one that
  replaces it, a run and one admitted against the same stage. `MaxFaults` = 2 lets
  the replacement fail as well; 1 where stalls and a cancel request are in play.
* `ProviderRuns`: as above with two faults, which lets a run fail after its
  success was committed and its recovery fail as well; `MaxExecutions` = 2 bounds
  how often a dispatched submission is executed again, which nothing in the code
  does. With a cancel request and one fault the invariants hold too (1.4 million
  states, not kept as a run).
* `SubmitPath`: three calls with two keys, one worker, one approval, one call
  that is dropped: a deploy, one that supersedes it and a retry of either.
  Two submissions with a cancel request, an approval and a dropped call give
  the same answer (2.4 million states, not kept as a run).
* `ChallengedSubmit`: three attempts, two submissions, one key or none, two
  bodies, two challenges: two attempts can share each of them, with a third
  that shares what is left. One failure: an error, a COMMIT whose answer is
  lost, a crash, or a clean-up that fails. Clients do not come back
  (`Finished`), everything else that stops is reported as a deadlock.
* `WasmWatch`: `Bounds` is a set of boxes (clients, edits, changes of membership,
  faults, their kinds), and a behaviour stays within one of them. Safety: two
  clients of one task, two daemon processes one after the other or at once;
  one edit and a failing build, a signal, a kill or an upgrade, or two
  failing builds or signals. Liveness: two clients, so that one may find the
  start lock of the other, or die with it; an edit with a kill or a client that
  dies, any one of the seven faults, or a change of membership; and one client with
  an edit, a change of membership and any fault, or with an edit and two
  changes of membership, the second of which may be hasty. The second client
  uses no module there: it takes part in starting daemons, which is what two
  clients interfere by. A daemon that has ended is used again for the next.
* `DirLocks`: three processes: a holder and two that judge it at once. Two
  faults: a death and the reuse of its pid, or a death and a stall.

Symmetry is used for workers and for interchangeable runs, in runs without
liveness properties only.

### Fairness

* `ControlPlane!FairSpec`: weak fairness of every worker's own steps (the worker
  loop polls on a timer and every call it awaits returns), and of the expiry of
  leases nobody renews (they expire by the clock). Nothing is assumed of
  faults, operators or submissions. Under it a worker may keep renewing a lock
  for ever: that is what the heartbeat does. So `EverySubmissionEnds` is claimed
  provided no worker keeps a lock it has forgotten (finding 1), which otherwise
  stops every later submission of the target.
* `WasmWatch!FairSpec`: weak fairness of each daemon's and each client's own steps
  (both are loops over timers, and a build command ends, by its timeout if need
  be); a daemon that has noted a signal ends. None of edits, faults, lapses, of a
  daemon that goes idle, or of clients: nothing makes one come.
* `DirLocks!FairSpec`: calls return, sections end, the clock outlives a grace or
  a lease nobody renews. Giving up at the deadline is not fair: waiters are
  answered without it.

## 4. What the violated run shows

`control_plane_leak`: the first write of `running` (`NSH-submit-helpers.ts:93`)
stands before the `try` whose `finally` releases the lock. A cancel request
between claim and that write makes its assertion fail; the worker goes idle, its
heartbeat goes on. It is quoted against the repository's own words under
`findings`.

### Known limits of what holds

What follows was found with TLC and is false of the code; no run claims it. The
statements named here are kept in the modules, below their properties.

**Control plane.** The invariants of `control_plane` are claimed for crashes,
aborts and errors, not for stalls or cancel requests:

* stalls longer than a lease break all of them but `TypeOK` and
  `OneSuccessor` (one or two stalls suffice, three for
  `OutcomeBackedByRecord`): the fencing token is recorded but not enforced at
  the provider, `recoverControlPlaneSubmission` writes without authority, and an
  assertion and the write it guards are two statements;
* cancel requests break `MutationIsAnnounced`, `ActiveRunIsQueued` and
  `EndIsFinal`: the request writes back the document it read, and the worker's
  write of `running` may land after the row has left the queue.
  `ExclusiveMutation` survives them (it is proved with requests);
* `CancellingNeverResumes` (docs/deployments-contract.md:290): a worker writes
  the whole document from its own copy, over an accepted `cancelling`
  (`NSH-submit-helpers.ts:152`);
* `OneSuccessor` and `CancelIsHonoured` hold under every fault and request,
  which is what the compare-and-swap and the wait's abort check are for.

**Dispatched providers.** Three executors never call `release()`
(`app-store-connect-control-plane-worker.ts:37`,
`google-play-control-plane-worker.ts:37`,
`cloudflare-containers-control-plane.ts:153`). `FailedRunLeavesQueue`
(docs/history/tasks/18-dead-letter-queue-strategy.md:30-32): dispatch precedes
the check for a run in doubt (`NSH-worker-loop.ts:97`), and a failed publish is
recorded nowhere, so the run is executed again.

**cloudflare-pages.** `OneRecordPerRun` and `CurrentRunSucceeded`
(docs/deployments-contract.md:303): the second assertion and the last write follow
the commit of the success inside the same `try`
(`cloudflare-pages-control-plane-backend-run.ts:188-223`). An error there commits a
failed record under another run id, and the run that has become current ends as
failed; a recovery reads either row, without an order
(`NSH-backend-records.ts:80-86`).

**Submission audit.** `SubmissionChainIntact`
(docs/history/tasks/16-unified-audit-logging.md:25-27): two appends outside a
transaction read the same latest event and take the same place
(`deployment-stage-state-audit.ts:185`); the code's own verification then
reports a broken chain.

**Submission service.**

* `RetryExecutesNothing` (docs/deployments-contract.md:134): a retry that comes
  in before the first call has written its submission is told "created"
  (`NSH-backend-locks.ts:67-73`), prepares the same run again, and resets its
  queue row, which a worker may have completed by then. The invariants of
  `submit_path` are claimed for clients that wait for an answer and operators
  that approve what is pending (`Impatient` = FALSE).
* `SupersededBeforeMutation` (docs/deployment-scenarios.md:358): a run claimed
  between the read of the waiting runs and its end may reach its provider
  (`NSH-backend-submit.ts:93-105`), and its worker may revive it.
* An approve of a run that waits already writes its stale copy back and enqueues
  it again (`deployment-control-plane-run-action-service.ts:83-88`).
* A call that dies before its queue row leaves an accepted run nobody executes.

**Challenged submissions.** The compensation after a ROLLBACK deletes by key and
submission what a rival may have committed meanwhile
(`deployment-artifact-submit-transaction.ts:177-203`;
docs/deployments-contract.md:137), and gives a challenge back if `used_at` is the
same millisecond: `AcceptedIsWhole` and the others except rows a failed rival
has taken back. A concurrent retry is refused as "already used", and its
refusal removes the staged artifact of the accepted one (contract:139).

**Wasm watch.** `EveryChangeIsBuilt` excepts three states, each of which
breaks it:

* the instance lock of a daemon that died (`lock["instance"] = "left"`), by
  SIGKILL or by a second SIGTERM. Nobody removes the directory, and every later
  daemon ends at once, taking it for "another daemon process"
  (`wasm-watch-coordinator-daemon.ts:111-116`). An upgrade of the daemon's own
  code is enough: its handler is a `process.once` (123), and each pass of each
  client signals a daemon older than its code
  (`watch-wasm-coordinator.ts:50-54`), so the second signal kills it where it
  stands. `LockHasOwner` fails within `Bound(2, 0, 0, 1, {"upgrade"})`, after two
  passes;
* the start lock of a client that died between mkdir and rm
  (`watch-wasm-coordinator.ts:61-74`; an exit in the client's signal handler is
  enough), once no daemon runs any more: no client starts another, and those that
  have their answers go on without one. That takes two faults, a client
  that dies and a daemon that ends, and lies outside the run's boxes: with
  `Bound(2, 1, 0, 2, {"quit", "stop"})` added, and without this exception, TLC finds
  it. A client that finds the start lock of a *living* client goes on and looks
  again on its next pass, which is part of what the run shows;
* a change of membership before the clients are done with the last one
  (`changes.hasty`; build-tools/docs/scaffolding.md:133, 225 say otherwise). The
  daemon leaves such changes to the clients, which compare with what they saw
  last (`watch-wasm-coordinator.ts:276-304`): a file created before a build and
  removed during it, or changed right after a refresh, is in the copies until the
  next edit. `EveryRenameIsBuilt` fails within `Bound(1, 0, 2, 0, {})`: one
  client, no fault.

An old daemon's removal of the pid file may hit the new daemon's, and one
failed build ends every subscriber: both are modelled, neither is excluded by
a property.

**Directory locks.** `Exclusive` is claimed for the install and the isolation
lock, without deaths and stalls:

* verify (`dev/verify/lock.ts:94-123`) and the file store (`NSH-store.ts:191-195`)
  remove a directory without an owner file at once: two that start together
  both get in, without any fault. Verify says it is "refusing to start a
  concurrent run" (110);
* all four remove by path what they judged earlier: after one death, or one
  stall past the grace, two waiters judge the same directory, and the slower
  removes the new one of the faster;
* the install lock takes a reused pid for its dead owner and waits for its
  deadline; a late heartbeat of the store puts a released directory back until
  its lease is over.

## 5. Proofs

Checked by TLAPS for every value of the constants, from the named assumptions
of each module only (`LocksAssumption`, `StageAssumption`,
`ControlPlaneAssumption`, `AuditAssumption` and those of the other modules: a
null value is no member, scopes, submissions and daemons are numbered, a lease
is positive, every writer has a content). Every proof module shows type
correctness, also where no run checks the type invariant.

* **BackendLocks_proofs.** The inductive invariant adds to `TypeOK`: a
  punctual run that is still working owns every scope it holds, under a lease
  that runs past the clock, and the clock it read is less than a lease old.
  `MutualExclusion` alone is not inductive: it says nothing of the run that is
  about to start working. `Steal` is the case that needs it, `Tick` the case
  that preserves it (`OnTime`). `NoCircularWait` needs the order: what a run
  holds is below what it waits for. `LeaseRefinement` maps each scope's row to
  `LeaseLock` step by step; `StealMisses` and a late `Release` stutter.
* **StageState_proofs.** The invariant ties the open transaction that owns
  `rowLock` to the expectation it has checked and to the events it has
  appended. From it: one line of runs, an intact chain, a complete audit, a
  current backup.
* **SubmissionAudit_proofs.** Rows are only ever added, so the tail a writer has
  read stays that of an event in the chain (`TailsKnown`): its own event links to
  a row. An insert that hits the hash of a row finds its own content there,
  so nothing is swallowed. The chain may still fork (known
  limits).
* **ControlPlane_proofs.** `OneSuccessor` follows from the fact that the
  expectation of a recorded success has been used up; `CancelIsHonoured` from
  what `file` may hold behind the wait for the lock; `ExclusiveMutation`,
  when stalls are excluded, from "whoever mutates owns the lock under a running
  lease".
  Its second part shows the other invariants of `control_plane` and
  `EndIsFinal`, under the hypotheses of that run: no stall and no cancel request.
  The invariant (`Claims`, `Ledger`) says that a claim which stands belongs to
  one worker, that a worker past an assertion still holds its claim, and that
  what such a worker has in memory is therefore true of the rows. None of the
  five is inductive: each depends on what the worker about to write believes,
  and a recovering worker's belief on what the one before it left behind.
  Its third part is about `ProviderRuns`, for any cancel requests. `ProviderTypes`
  and the exclusion carry over once each executor's control points and goals are
  pinned down (`Placed`). A run found running is executed again, so no record can
  be called final because its run is not repeated. A dispatched one is final for
  another reason: such an executor records successes only (`Dispatched`), each while
  the submission's expectation is current, and behind a recorded success it never
  is again (`Order`). No claim or lock is involved, so `DispatchedRecordFinal`
  covers stalls as well. For cloudflare-pages the claim decides (`Tenure`): who
  writes, starts a mutation or records still has the claim or has marked the
  entry done; whoever has the claim knows whether the provider has been reached
  and a record committed; a submission that has been touched is past the states
  from which it is executed; and two workers never use the claim of one
  submission. Hence `SettlingOnce` and, with `DispatchedRecordFinal`,
  `RecordFinal`. For `Settled` every copy of a row, a draft or a cancel request
  included, must name the outcome of one of the submission's two possible records
  (`Backs`). Stalls have to be excluded: a worker that stalls while it puts its
  copy back undoes what the next one has written. With one stall among three or
  four faults, two workers and one submission TLC finds each of `SettlingOnce`,
  `RecordFinal` and `Settled` violated (not kept as runs).
* **SubmitPath_proofs.** `SubmitTypeOK` and `OneSubmissionPerKey` need no
  hypothesis. The other theorems are about clients that wait for an answer before
  they retry (`~Impatient`): then one call at a time handles a submission.
  `SupersedenceIsNarrow` follows under every fault: what a call has read as older
  stays older. Without stalls, a submission that no operator cancels and no two
  approvals are of is in peace (`Calm`, `Waits`, `Tidy`): whoever is about to
  write or queue it is its call, its approval or the one worker with the claim,
  and each of them knows its row. Hence `AcceptedRunIsQueued` and
  `EndedIsNotRevived`, submission by submission (`EndedOutOfReach`).
  `OneSurvives` needs neither restriction: among the deploys of a burst
  the one submitted last has none that could supersede it, and `Surviving` hands
  the role on when a later deploy supersedes it. Both conditions are needed: a client that
  retries unanswered stamps its submission anew after others have read it, which
  breaks `SupersedenceIsNarrow`; of two approvals of one submission the one that
  rejects may close the row the other has opened, which breaks
  `AcceptedRunIsQueued`. TLC shows both.
* **WasmWatch_proofs.** There is one daemon behind the instance lock at a time
  and only it writes results (`Generations`), and what it is about to write is
  no older than the request it answers: the invariant follows a request from
  the lease through the scan, the build and the copies (`AckSynced`). A client
  that waits has seen every earlier result, so a failure is news to it
  (`FailuresSeen`). Signals, kills and clients that die are part of the step: a lock
  that is "left" is held by nobody, and nobody begins behind it.
* **ChallengedSubmit_proofs.** For each kind of row: while a transaction holds its
  lock there is no committed row and no other holder (`KeyLocked`,
  `ChallengeLocked`, `SubLocked`); a committed row is that of the accepted
  attempt until somebody with the same row has taken back by hand. `OneUse`,
  `OnePerKey` and `Whole` follow.
* **DirLocks_proofs.** In peace whoever holds the directory is in one of four
  steps, and at each of them the grace is not over (`Calm`): so nobody finds
  anything stale and mkdir alone decides (`Exclusion`). That a directory always
  has somebody who will still remove it (`Kept`) also holds for verify, where
  several are inside (`NothingLeft`).

Every safety property of a passing run is the conclusion of a theorem. Only
model-checked: liveness (`EverySubmissionEnds`, `EveryChangeIsBuilt`,
`AskedIsAnswered`), the violated run, and what the runs with cancel requests or
stalls show beyond these theorems. Temporal properties under fairness and ENABLED
are outside what the installed prover does.

## 6. Abstractions

* Documents keep the fields the properties tell apart: lifecycle state,
  termination reason, cancellationRequested, mutationStartedAt, recovery,
  final outcome. Ids, timestamps, wording and logging are left out.
* In `ControlPlane` a lock or claim lapses only while nobody renews it, or by
  the fault "stall". `BackendLocks` has the clock.
* The assertion of lock and claim is one step in `ControlPlane`: losing the
  lock between the two is losing it just after.
* The audit append after a submission write can fail after the row was
  written; `ControlPlane` lets an error strike before a write only, and the
  put-back in `finally` then repeats a write that has already happened.
* The branch of the executor that finds its own file cancelled
  (`NSH-submit-helpers.ts:100-115`) is left out: the file was written as
  `running` just before, and nobody else writes it.
* The wait for a lock ends by abort, timeout or error; the timeout is "error".
* `SubmitPath`: authorization, the object store and the refusal of a deploy
  while a progressive rollout is active are left out. One target, one stage.
* `ChallengedSubmit`: proofs and bindings are equality of contents; a refused
  upload is not sent again.
* `WasmWatch`: a client's subscriptions do not change; manifests, fingerprints
  and the build command are data. A pid is not used again by another program, and
  a pid file that is being written names nobody. SIGINT is like SIGTERM.
* `DirLocks`: one look at a directory is one step, and so is the store's write of
  its owner file (mkdir, temporary file, rename) and a heartbeat of the install
  lock; start signatures are always there to compare; forced clearing by
  environment variable and legacy lock files are left out.

## 7. Not modelled, and what comes next

* Preview clean-up and target transitions of cloudflare-pages; its clean-up goes on
  behind the timeout that gives it up (`withStepTimeout`). A publish that
  exceeds its budget is given up by the same kind of race
  (`deployment-retry-policy.ts:71-87`), while `execFile`'s own timeout is still
  killing wrangler: `ProviderRuns` has the mutation end where the executor stops
  waiting for it. Resume of a
  progressive rollout and the dedupe of run actions.
* The JSON files of the local file store (a queue and records without a
  database), the update command's file transaction and patch sessions: crash
  consistency of several files written one by one.
* Managed commands and bootstrap completion: process groups under timeouts.
* An abstract life cycle of a submission (admitted, executing, settled) that
  `ControlPlane` implements, proved step by step.
* Admission policies, graph exporters, macros, scaffolding and CI drivers have no
  protocol state: they are functions over large JSON and string data, out of
  reach of these tools.
