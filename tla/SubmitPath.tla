------------------------------ MODULE SubmitPath ------------------------------
(***************************************************************************)
(* How submissions come into the queue: the service's handling of submit   *)
(* calls, statement by statement, and of approvals.                        *)
(*                                                                         *)
(*  - handleControlPlaneSubmit     (nixos-...-control-plane-service-api)   *)
(*  - resolveBackendIdempotency                       (...-backend-locks)  *)
(*  - prepareBackendNixosSharedHostControlPlaneRun  (...-backend-prepare)  *)
(*  - queueBackendSubmissionForLock                  (...-backend-submit)  *)
(*  - the run action approve  (deployment-control-plane-approve-action)    *)
(*                                                                         *)
(* Workers, rows, leases and cancel requests are those of ControlPlane;    *)
(* all submissions are of one deployment and one lock scope.  A submission *)
(* is named after the call that brought it up: Subs are the calls as well. *)
(***************************************************************************)
EXTENDS ControlPlane

CONSTANTS Keys,        \* idempotency keys of clients
          Kinds,       \* contents of requests that are used
          Approvals,   \* approve requests of operators
          Impatient,   \* clients may retry, operators act on a submission, before
                       \* the call is answered, and approve what is not pending
          MaxTime      \* bound on the times of snapshots

ASSUME SubmitAssumption ==
  /\ Kinds \subseteq {"deploy", "promotion"}
  /\ Impatient \in BOOLEAN
  /\ MaxTime \in Nat

VARIABLES call,        \* call -> the service's handling of it
          idempotency, \* key -> target_id of its row, 0 without a row
          submittedAt, \* submission -> time in its row of `snapshots`, 0 without a row
          approval     \* approve request -> the service's handling of it

service    == <<call, idempotency, submittedAt, approval>>
submitVars == <<vars, service>>

-----------------------------------------------------------------------------
(* The handling of a call.  at and seen are the snapshot's submittedAt and *)
(* expectedCurrentRunId, older what is left of the rows it found to        *)
(* supersede, each with the document read, closing the one just written.   *)
NewCall == [pc |-> "new", key |-> "none", kind |-> "none", at |-> 0, seen |-> 0,
            older |-> {}, closing |-> 0]

Over(c) == call[c].pc \in {"answered", "refused", "died"}
Handled(c) == call[c].pc # "new" /\ ~Over(c)
Target(c) == idempotency[call[c].key]

(* Submission s is the work of a call that is being handled, or died. *)
InHand(s) == \E c \in Subs : Handled(c) /\ Target(c) = s
Dropped(s) == \E c \in Subs : call[c].pc = "died" /\ Target(c) = s

(* The content of a submission is that of the call that created its key:  *)
(* the request_fingerprint of the row.                                     *)
Kind(s) == call[s].kind

CallTo(c, pc) == call' = [call EXCEPT ![c].pc = pc]

Calls == [pc : {"new", "stamp", "snapshot", "admit", "queue", "older", "supersede",
                "closeOlder", "enqueue", "close", "answered", "refused", "died"},
          key : Keys \cup {"none"}, kind : Kinds \cup {"none"}, at : Nat,
          seen : Subs \cup {0}, older : SUBSET (Subs \X Docs), closing : Subs \cup {0}]

SubmitTypeOK ==
  /\ TypeOK
  /\ call \in [Subs -> Calls]
  /\ idempotency \in [Keys -> Subs \cup {0}]
  /\ submittedAt \in [Subs -> Nat]
  /\ approval \in [Approvals -> [pc : {"new", "read", "enqueue", "close", "done"},
                                 sub : Subs \cup {0}, copy : Docs]]

(* Nothing is in the queue: a row there is none of is a row that is done. *)
SubmitInit ==
  /\ doc = [s \in Subs |-> Blank]
  /\ queue = [s \in Subs |-> Done]
  /\ record = [s \in Subs |-> "none"]
  /\ stage = 0
  /\ expected = [s \in Subs |-> 0]
  /\ Lock!Init
  /\ worker = [w \in Workers |-> Idle]
  /\ request = [q \in Requests |-> [pc |-> "new", sub |-> 0, copy |-> Blank]]
  /\ mutations = [s \in Subs |-> 0]
  /\ accepted = {}
  /\ faults = 0
  /\ call = [c \in Subs |-> NewCall]
  /\ idempotency = [k \in Keys |-> 0]
  /\ submittedAt = [s \in Subs |-> 0]
  /\ approval = [a \in Approvals |-> [pc |-> "new", sub |-> 0, copy |-> Blank]]

-----------------------------------------------------------------------------
(* A call with key k comes in: a client retries when it has an answer, or  *)
(* its connection breaks.                                                  *)
Arrives(c, k) ==
  /\ call[c].pc = "new"
  /\ \A o \in Subs : o < c => call[o].pc # "new"
  /\ Impatient \/ \A o \in Subs : call[o].key = k => Over(o)

(* Mutants of Resolve: the fingerprint is not compared; a submission that  *)
(* has ended is prepared again.                                            *)
ResolveAnyContent(c) ==
  \E k \in Keys, kind \in Kinds :
    LET t == IF idempotency[k] = 0 THEN c ELSE idempotency[k]
    IN  /\ Arrives(c, k)
        /\ idempotency' = [idempotency EXCEPT ![k] = t]
        /\ call' = [call EXCEPT ![c].key = k, ![c].kind = kind,
                                ![c].pc = IF doc[t].life # NoDoc THEN "answered" ELSE "stamp"]
        /\ UNCHANGED <<vars, submittedAt, approval>>

ResolveEnded(c) ==
  \E k \in Keys, kind \in Kinds :
    LET t == IF idempotency[k] = 0 THEN c ELSE idempotency[k]
    IN  /\ Arrives(c, k)
        /\ idempotency' = [idempotency EXCEPT ![k] = t]
        /\ call' = [call EXCEPT ![c].key = k, ![c].kind = kind,
                                ![c].pc = IF t # c /\ kind # Kind(t) THEN "refused"
                                           ELSE IF doc[t].life \in Active \cup Held THEN "answered"
                                           ELSE "stamp"]
        /\ UNCHANGED <<vars, submittedAt, approval>>

(* resolveBackendIdempotency: the key's row is inserted, or the one there  *)
(* is names the target.  Other contents are refused; a target whose        *)
(* submission was never written is prepared again, any other is answered.  *)
(* A row never changes, so the insert and the lookups are one step.        *)
Resolve(c) ==
  \E k \in Keys, kind \in Kinds :
    LET t == IF idempotency[k] = 0 THEN c ELSE idempotency[k]
    IN  /\ Arrives(c, k)
        /\ idempotency' = [idempotency EXCEPT ![k] = t]
        /\ call' = [call EXCEPT ![c].key = k, ![c].kind = kind,
                                ![c].pc = IF t # c /\ kind # Kind(t) THEN "refused"
                                           ELSE IF doc[t].life # NoDoc THEN "answered"
                                           ELSE "stamp"]
        /\ UNCHANGED <<vars, submittedAt, approval>>

(* The snapshot is created: the time, in milliseconds that two calls may   *)
(* share, and the current run of the stage; ...                            *)
Stamp(c) ==
  /\ call[c].pc = "stamp"
  /\ \E now \in 1 .. MaxTime :
       /\ \A o \in Subs : call[o].at <= now
       /\ call' = [call EXCEPT ![c].pc = "snapshot", ![c].at = now, ![c].seen = stage]
  /\ UNCHANGED <<vars, idempotency, submittedAt, approval>>

(* ... and it is written. *)
WriteSnapshot(c) ==
  /\ call[c].pc = "snapshot"
  /\ submittedAt' = [submittedAt EXCEPT ![Target(c)] = call[c].at]
  /\ expected' = [expected EXCEPT ![Target(c)] = call[c].seen]
  /\ CallTo(c, "admit")
  /\ UNCHANGED <<doc, queue, record, stage, lock, worker, request, ghost, faults,
                 idempotency, approval>>

(* Admission passes, ... *)
Admit(c) ==
  /\ call[c].pc = "admit"
  /\ CallTo(c, "queue")
  /\ UNCHANGED <<vars, idempotency, submittedAt, approval>>

(* ... or the submission is written as one that waits for an approval or   *)
(* is rejected; markQueueDone follows.                                     *)
AdmissionFails(c) ==
  /\ call[c].pc = "admit"
  /\ \E d \in {[Blank EXCEPT !.life = "pending_approval"],
               [Blank EXCEPT !.life = "finished", !.reason = "no_longer_admitted"]} :
       doc' = [doc EXCEPT ![Target(c)] = d]
  /\ CallTo(c, "close")
  /\ UNCHANGED <<queue, record, stage, expected, lock, worker, request, ghost, faults,
                 idempotency, submittedAt, approval>>

CloseRejected(c) ==
  /\ call[c].pc = "close"
  /\ queue' = [queue EXCEPT ![Target(c)] = Done]
  /\ CallTo(c, "answered")
  /\ UNCHANGED <<doc, record, stage, expected, lock, worker, request, ghost, faults,
                 idempotency, submittedAt, approval>>

(* queueBackendSubmissionForLock: the submission is written as queued, ... *)
WriteQueued(c) ==
  /\ call[c].pc = "queue"
  /\ doc' = [doc EXCEPT ![Target(c)] = [Blank EXCEPT !.life = "queued"]]
  /\ CallTo(c, "older")
  /\ UNCHANGED <<queue, record, stage, expected, lock, worker, request, ghost, faults,
                 idempotency, submittedAt, approval>>

(* Mutant of Supersedes: any waiting deployment gives way. *)
SupersedesAny(t, at, s) ==
  /\ s # t
  /\ Kind(t) = "deploy" /\ Kind(s) = "deploy"
  /\ submittedAt[s] > 0 /\ doc[s].life \in {"queued", "waiting_for_lock"}

(* A normal deploy t submitted at time at supersedes the waiting normal    *)
(* deploys submitted no later.                                             *)
Supersedes(t, at, s) ==
  /\ s # t
  /\ Kind(t) = "deploy" /\ Kind(s) = "deploy"
  /\ doc[s].life \in {"queued", "waiting_for_lock"}
  /\ submittedAt[s] \in 1 .. at

(* ... one SELECT finds the older ones, ... *)
ReadOlder(c) ==
  /\ call[c].pc = "older"
  /\ call' = [call EXCEPT ![c].pc = "supersede",
       ![c].older = {<<s, doc[s]>> : s \in {o \in Subs : Supersedes(Target(c), call[c].at, o)}}]
  /\ UNCHANGED <<vars, idempotency, submittedAt, approval>>

(* Mutant of Supersede: the reason is taken for a lifecycle state. *)
SupersedeAsState(c) ==
  /\ call[c].pc = "supersede"
  /\ \E old \in call[c].older :
       /\ doc' = [doc EXCEPT ![old[1]] = [old[2] EXCEPT !.life = "superseded"]]
       /\ call' = [call EXCEPT ![c].pc = "closeOlder", ![c].closing = old[1],
                               ![c].older = @ \ {old}]
  /\ UNCHANGED <<queue, record, stage, expected, lock, worker, request, ghost, faults,
                 idempotency, submittedAt, approval>>

(* ... each is written from the copy read ... *)
Supersede(c) ==
  /\ call[c].pc = "supersede"
  /\ \E old \in call[c].older :
       /\ doc' = [doc EXCEPT ![old[1]] = [old[2] EXCEPT !.life = "finished",
                                                        !.reason = "superseded"]]
       /\ call' = [call EXCEPT ![c].pc = "closeOlder", ![c].closing = old[1],
                               ![c].older = @ \ {old}]
  /\ UNCHANGED <<queue, record, stage, expected, lock, worker, request, ghost, faults,
                 idempotency, submittedAt, approval>>

(* ... and taken out of the queue, ... *)
CloseOlder(c) ==
  /\ call[c].pc = "closeOlder"
  /\ queue' = [queue EXCEPT ![call[c].closing] = Done]
  /\ call' = [call EXCEPT ![c].pc = "supersede", ![c].closing = 0]
  /\ UNCHANGED <<doc, record, stage, expected, lock, worker, request, ghost, faults,
                 idempotency, submittedAt, approval>>

(* Mutant of WriteWaiting: the submission has been written once already. *)
SkipWaiting(c) ==
  /\ call[c].pc = "supersede" /\ call[c].older = {}
  /\ CallTo(c, "enqueue")
  /\ UNCHANGED <<vars, idempotency, submittedAt, approval>>

(* ... then the submission is written again, as waiting for the lock, ...  *)
WriteWaiting(c) ==
  /\ call[c].pc = "supersede" /\ call[c].older = {}
  /\ doc' = [doc EXCEPT ![Target(c)] = [Blank EXCEPT !.life = "waiting_for_lock"]]
  /\ CallTo(c, "enqueue")
  /\ UNCHANGED <<queue, record, stage, expected, lock, worker, request, ghost, faults,
                 idempotency, submittedAt, approval>>

(* ... and enqueueBackendSubmission opens its queue row, whatever became   *)
(* of it meanwhile.                                                        *)
Open == [owner |-> NoWorker, lapsed |-> FALSE, done |-> FALSE]

Enqueue(c) ==
  /\ call[c].pc = "enqueue"
  /\ queue' = [queue EXCEPT ![Target(c)] = Open]
  /\ CallTo(c, "answered")
  /\ UNCHANGED <<doc, record, stage, expected, lock, worker, request, ghost, faults,
                 idempotency, submittedAt, approval>>

(* The service dies, or a statement throws: the client has no answer.      *)
CallDies(c) ==
  /\ Handled(c)
  /\ Fault("drop")
  /\ CallTo(c, "died")
  /\ UNCHANGED <<rows, lock, worker, request, ghost, idempotency, submittedAt, approval>>

-----------------------------------------------------------------------------
(* The run action approve: the submission is read; ... *)
Known(s) == s \in Submitted /\ (Impatient \/ ~InHand(s))

ApproveRead(a) ==
  /\ approval[a].pc = "new"
  /\ \E s \in {o \in Subs : Known(o) /\ (Impatient \/ doc[o].life \in Held)} :
       approval' = [approval EXCEPT ![a] = [pc |-> "read", sub |-> s, copy |-> doc[s]]]
  /\ UNCHANGED <<vars, call, idempotency, submittedAt>>

(* Mutant of ApproveWrite: the approved run is left where it was. *)
ApproveAndForget(a) ==
  /\ approval[a].pc = "read"
  /\ LET s == approval[a].sub
         d == approval[a].copy
     IN  \E e \in {d} \cup {[d EXCEPT !.life = "waiting_for_lock"] : x \in {d.life} \cap Held} :
           /\ doc' = [doc EXCEPT ![s] = e]
           /\ approval' = [approval EXCEPT ![a].copy = Blank,
                ![a].pc = IF e.life \in Active THEN "done" ELSE "close"]
  /\ UNCHANGED <<queue, record, stage, expected, lock, worker, request, ghost, faults,
                 call, idempotency, submittedAt>>

(* ... one that awaits its approval may be admitted, any other is rejected *)
(* as it is; the document is written back, and what is waiting then is     *)
(* enqueued, approved or not.                                              *)
ApproveWrite(a) ==
  /\ approval[a].pc = "read"
  /\ LET s == approval[a].sub
         d == approval[a].copy
     IN  \E e \in {d} \cup {[d EXCEPT !.life = "waiting_for_lock"] : x \in {d.life} \cap Held} :
           /\ doc' = [doc EXCEPT ![s] = e]
           /\ approval' = [approval EXCEPT ![a].copy = Blank,
                ![a].pc = IF e.life \in {"queued", "waiting_for_lock"} THEN "enqueue"
                           ELSE IF e.life \in Active THEN "done" ELSE "close"]
  /\ UNCHANGED <<queue, record, stage, expected, lock, worker, request, ghost, faults,
                 call, idempotency, submittedAt>>

(* The queue row is opened, or closed by markQueueDone. *)
ApproveQueue(a) ==
  /\ approval[a].pc \in {"enqueue", "close"}
  /\ queue' = [queue EXCEPT ![approval[a].sub] =
                 IF approval[a].pc = "enqueue" THEN Open ELSE Done]
  /\ approval' = [approval EXCEPT ![a].pc = "done"]
  /\ UNCHANGED <<doc, record, stage, expected, lock, worker, request, ghost, faults,
                 call, idempotency, submittedAt>>

-----------------------------------------------------------------------------
(* The claim, of the row enqueued first: enqueued_at is the submittedAt.   *)
ClaimOldest(w) ==
  /\ worker[w].pc = "idle"
  /\ ~worker[w].aborted
  /\ \E s \in Subs :
       /\ Claimable(s)
       /\ \A o \in Subs : Claimable(o) => submittedAt[s] <= submittedAt[o]
       /\ queue' = [queue EXCEPT ![s].owner = w, ![s].lapsed = FALSE]
       /\ worker' = [worker EXCEPT
            ![w].pc = "materialize", ![w].sub = s,
            ![w].goal = IF doc[s].life \in {"running", "cancelling"} THEN "recover" ELSE "execute"]
  /\ UNCHANGED <<doc, record, stage, expected, lock, request, ghost, faults>>

SubmitWorkerStep(w) ==
  \/ ClaimOldest(w) \/ Materialize(w) \/ Reconcile(w) \/ AssertClaim(w) \/ StopWaiting(w)
  \/ AcquireLock(w) \/ AssertPasses(w) \/ AssertFails(w) \/ UpsertDoc(w) \/ MarkDone(w)
  \/ Revalidate(w) \/ BeginMutation(w) \/ MutateReturns(w) \/ PersistRecord(w)
  \/ ReleaseLock(w) \/ Finally(w) \/ LockRevives(w) \/ Restart(w)

ServiceStep ==
  \/ \E c \in Subs :
       \/ Resolve(c) \/ Stamp(c) \/ WriteSnapshot(c) \/ Admit(c) \/ AdmissionFails(c)
       \/ CloseRejected(c) \/ WriteQueued(c) \/ ReadOlder(c) \/ Supersede(c) \/ CloseOlder(c)
       \/ WriteWaiting(c) \/ Enqueue(c) \/ CallDies(c)
  \/ \E a \in Approvals : ApproveRead(a) \/ ApproveWrite(a) \/ ApproveQueue(a)

(* What the service takes no part in: workers, leases, faults, cancel requests. *)
WorkersAndOperators ==
  \/ \E s \in Subs : ClaimLapses(s)
  \/ LockLapses
  \/ \E w \in Workers : SubmitWorkerStep(w) \/ Crash(w) \/ Abort(w) \/ Error(w) \/ Stall(w)
  \/ \E q \in Requests :
       \/ CancelRead(q) /\ Known(request'[q].sub)
       \/ CancelWrite(q) \/ CancelMarkDone(q)

SubmitNext == ServiceStep \/ (WorkersAndOperators /\ UNCHANGED service)

SubmitSpec == SubmitInit /\ [][SubmitNext]_submitVars

-----------------------------------------------------------------------------
(* Whoever retries a request with its key is answered with the submission  *)
(* of the first call, and only if the content is the same.                 *)
OneSubmissionPerKey ==
  \A c \in Subs : call[c].pc = "answered" =>
    /\ doc[Target(c)].life # NoDoc
    /\ Kind(Target(c)) = call[c].kind

(* docs/deployment-scenarios.md:361 and 371: only normal deploys are       *)
(* superseded, each by another one that was submitted no earlier.          *)
SupersedenceIsNarrow ==
  \A s \in Subs : doc[s].reason = "superseded" =>
    /\ Kind(s) = "deploy"
    /\ \E o \in Subs \ {s} : Kind(o) = "deploy" /\ submittedAt[o] >= submittedAt[s]

(* An operator asked for the cancellation of submission s, which writes    *)
(* its document back as it was read.                                       *)
Disturbed(s) == \E q \in Requests : request[q].sub = s

(* However calls interleave, superseding each other: once all have been    *)
(* answered one of the deploys superseded none but itself survived, and a  *)
(* worker will find it, has ended it, or an operator has cancelled it.     *)
OneSurvives ==
  (\A c \in Subs : call[c].pc \in {"new", "answered", "refused"}) =>
    \A s \in Subs : doc[s].reason = "superseded" =>
      \E o \in Subs :
        /\ Kind(o) = "deploy" /\ doc[o].life # NoDoc /\ doc[o].reason # "superseded"
        /\ doc[o].life \in Active => ~queue[o].done \/ Disturbed(o)

(* A run that nothing supersedes or cancels is in the queue once the       *)
(* service has answered its call or approval.                              *)
AcceptedRunIsQueued ==
  \A s \in Subs :
    /\ doc[s].life \in Active /\ Kind(s) # "deploy"
    /\ ~InHand(s) /\ ~Dropped(s)
    /\ \A a \in Approvals : approval[a].sub = s => approval[a].pc \in {"read", "done"}
    /\ ~Disturbed(s)
    => ~queue[s].done

(* Neither a retry nor an approval revives a submission that has ended.    *)
(* One that was superseded after its claim may be: its worker does not     *)
(* read the row again between an assertion and the write it guards.        *)
EndedIsNotRevived ==
  [][\A s \in Subs : doc[s].life \in Ended /\ doc[s].reason # "superseded"
       => doc'[s].life \in Ended]_submitVars

(* What the documentation says and the code does not keep: see the known   *)
(* limits in README.md.                                                    *)

(* docs/deployments-contract.md:134: reusing a submission id with the same *)
(* payload resolves to the same accepted run: a retry executes nothing.    *)
RetryExecutesNothing == \A s \in Subs : mutations[s] <= 1

(* docs/deployment-scenarios.md:358: the older queued run is marked        *)
(* superseded before mutation.                                             *)
SupersededBeforeMutation ==
  \A s \in Subs : doc[s].reason = "superseded" => mutations[s] = 0
=============================================================================
