------------------------- MODULE SubmitPath_proofs -------------------------
(***************************************************************************)
(* For any number of calls, keys, approvals, cancel requests and workers.  *)
(*                                                                         *)
(* Under every fault and however impatient the clients are, calls, keys    *)
(* and submissions belong together (Sane): a retry is answered with the    *)
(* submission of its key.  When clients wait for an answer before they     *)
(* retry (~Impatient) one call at a time handles a submission (Patience),  *)
(* and a superseded deploy is older than one that is known (Narrow).       *)
(*                                                                         *)
(* When no worker stalls for longer than a lease either, what an executor  *)
(* writes on its way keeps a run going (Heading), and nobody has ended a   *)
(* submission a call still brings up (Pristine).  A submission that no     *)
(* operator cancels and no two approvals are of is then in peace (Waits,   *)
(* Tidy, Regular): it stays in the queue until it has ended, and an end is *)
(* final.  The last part follows the deploys that supersede each other:    *)
(* the one submitted last has no rival that could strike it, so that one   *)
(* survives (Surviving).                                                   *)
(***************************************************************************)
EXTENDS SubmitPath, ControlPlane_proofs

-----------------------------------------------------------------------------
(* SubmitPath: the types, and how calls, keys and submissions belong       *)
(* together.                                                               *)

(* A call has the key it came with; what it brings up has the content of   *)
(* the call that created the key, and is written where its code says so.   *)
CallSound(c) ==
  /\ call[c].pc = "new" => call[c].kind = "none" /\ call[c].older = {}
  /\ call[c].pc # "new" => /\ call[c].key \in Keys /\ call[c].kind \in Kinds
                           /\ Target(c) \in Subs
  /\ call[c].pc \notin {"new", "refused"} => Kind(Target(c)) = call[c].kind
  /\ call[c].pc \in {"older", "supersede", "closeOlder", "enqueue", "close", "answered"}
       => Exists(Target(c))
  /\ call[c].pc = "closeOlder" => Exists(call[c].closing)
  /\ \A x \in call[c].older : Exists(x[1]) /\ x[2].life # NoDoc

(* A key's row names the submission of the call that inserted it. *)
KeySound(k) ==
  idempotency[k] # 0 => call[idempotency[k]].pc # "new" /\ call[idempotency[k]].key = k

ApprovalSound(a) ==
  /\ approval[a].pc = "new" => approval[a].sub = 0
  /\ approval[a].pc # "new" => Exists(approval[a].sub)
  /\ approval[a].pc = "read" => approval[a].copy.life # NoDoc

CallsSound ==
  /\ \A c \in Subs : CallSound(c)
  /\ \A k \in Keys : KeySound(k)
  /\ \A a \in Approvals : ApprovalSound(a)

(* Who has not begun holds nothing. *)
Beginnings ==
  /\ \A q \in Requests : request[q].pc = "new" => request[q].sub = 0
  /\ \A w \in Workers : worker[w].pc \in Unread => worker[w].file = Blank /\ worker[w].next = Blank
  /\ \A w \in Workers : worker[w].pc = "idle" => worker[w].sub = 0

Sane == SubmitTypeOK /\ WorkersSound /\ WorkExists /\ CallsSound /\ Beginnings

-----------------------------------------------------------------------------
LEMMA BlankDoc == Blank \in Docs /\ Blank.life = NoDoc /\ Blank.reason = "none"
BY DEF Blank, Docs, NoDoc, Reasons, Outcomes

(* The documents the service writes. *)
LEMMA ServiceDocs ==
  ASSUME NEW d \in Docs
  PROVE  /\ \A l \in {"pending_approval", "queued", "waiting_for_lock"} :
              /\ [Blank EXCEPT !.life = l] \in Docs
              /\ [Blank EXCEPT !.life = l].life = l
              /\ [Blank EXCEPT !.life = l].reason = "none"
         /\ [Blank EXCEPT !.life = "finished", !.reason = "no_longer_admitted"]
              \in {e \in Docs : e.life = "finished" /\ e.reason = "no_longer_admitted"}
         /\ [d EXCEPT !.life = "finished", !.reason = "superseded"]
              \in {e \in Docs : e.life = "finished" /\ e.reason = "superseded"}
         /\ [d EXCEPT !.life = "waiting_for_lock"]
              \in {e \in Docs : e.life = "waiting_for_lock" /\ e.reason = d.reason}
BY DEF Blank, Docs, Active, Ended, Held, Reasons, Outcomes

LEMMA Rows ==
  /\ Done \in [owner : Workers \cup {NoWorker}, lapsed : BOOLEAN, done : BOOLEAN]
  /\ Open \in [owner : Workers \cup {NoWorker}, lapsed : BOOLEAN, done : BOOLEAN]
  /\ Done.done = TRUE /\ Open.done = FALSE /\ Open.owner = NoWorker
BY DEF Done, Open

(* A process claims: it has a submission that exists, and no document. *)
LEMMA ClaimOldestTypes ==
  ASSUME TypeOK, WorkersSound, WorkExists, NEW w \in Workers, ClaimOldest(w)
  PROVE  TypeOK' /\ WorkersSound' /\ WorkExists'
<1>1. "materialize" \in PCs /\ {"recover", "execute"} \subseteq Goals
  BY DEF PCs, Goals
<1>2. PICK s \in Subs : /\ Claimable(s)
                        /\ queue' = [queue EXCEPT ![s].owner = w, ![s].lapsed = FALSE]
                        /\ worker' = [worker EXCEPT
                             ![w].pc = "materialize", ![w].sub = s,
                             ![w].goal = IF doc[s].life \in {"running", "cancelling"}
                                         THEN "recover" ELSE "execute"]
  BY DEF ClaimOldest
<1> DEFINE goal == IF doc[s].life \in {"running", "cancelling"} THEN "recover" ELSE "execute"
           p == [worker[w] EXCEPT !.pc = "materialize", !.sub = s, !.goal = goal]
<1>3. goal \in Goals
  BY <1>1
<1> HIDE DEF goal
<1>4. worker' = [worker EXCEPT ![w] = p]
  BY <1>2 DEF WorkersSound, Processes, goal
<1>5. p \in Processes /\ p.pc = "materialize" /\ p.sub = s
  BY <1>1, <1>3 DEF WorkersSound, Processes
<1>6. Sound(p)
  BY <1>5 DEF Sound, Unread, Writing, HoldingAt
<1>7. Exists(s)
  BY <1>2 DEF Claimable, Active, Exists, NoDoc
<1>8. WorkersSound'
  BY <1>4, <1>5, <1>6, Update
<1>9. queue' \in [Subs -> [owner : Workers \cup {NoWorker}, lapsed : BOOLEAN, done : BOOLEAN]]
  <2>1. queue \in [Subs -> [owner : Workers \cup {NoWorker}, lapsed : BOOLEAN, done : BOOLEAN]]
    BY DEF TypeOK
  <2> QED
    BY <1>2, <2>1
<1>10. UNCHANGED <<doc, record, stage, expected, lock, request, ghost, faults>>
  BY DEF ClaimOldest
<1>11. TypeOK'
  BY <1>8, <1>9, <1>10 DEF TypeOK, WorkersSound, lock, ghost
<1>12. \A v \in Workers : worker'[v] = IF v = w THEN p ELSE worker[v]
  BY <1>4 DEF WorkersSound
<1>13. WorkExists'
  BY <1>5, <1>7, <1>10, <1>12 DEF WorkExists, Exists, Sub
<1> QED
  BY <1>8, <1>11, <1>13

(* What the service does to the rows of others. *)
LEMMA ServiceKeeps ==
  ASSUME TypeOK, WorkersSound, WorkExists,
         doc' \in [Subs -> Docs], \A s \in Subs : doc[s].life # NoDoc => doc'[s].life # NoDoc,
         queue' \in [Subs -> [owner : Workers \cup {NoWorker}, lapsed : BOOLEAN, done : BOOLEAN]],
         expected' \in [Subs -> Subs \cup {0}], faults' \in 0 .. MaxFaults,
         UNCHANGED <<record, stage, lock, worker, request, ghost>>
  PROVE  TypeOK' /\ WorkersSound' /\ WorkExists'
<1>1. TypeOK'
  BY DEF TypeOK, lock, ghost
<1>2. WorkersSound'
  BY DEF WorkersSound, Sound
<1>3. WorkExists'
  BY DEF WorkExists, Exists, Sub
<1> QED
  BY <1>1, <1>2, <1>3

(* What a step of the service writes, and where. *)
DocStep(s, d)   == doc' = [doc EXCEPT ![s] = d]
QueueStep(s, r) == queue' = [queue EXCEPT ![s] = r]
Still == UNCHANGED <<record, stage, lock, worker, request, ghost>>

LEMMA Targets ==
  ASSUME Sane, NEW c \in Subs, call[c].pc # "new"
  PROVE  Target(c) \in Subs /\ call[c].key \in Keys
BY DEF Sane, CallsSound, CallSound

LEMMA ServiceRows ==
  ASSUME Sane, ServiceStep
  PROVE  /\ Still
         /\ doc' = doc \/ \E s \in Subs : \E d \in Docs : DocStep(s, d) /\ d.life # NoDoc
         /\ queue' = queue \/ \E s \in Subs : QueueStep(s, Done) \/ QueueStep(s, Open)
         /\ expected' \in [Subs -> Subs \cup {0}]
         /\ faults' \in 0 .. MaxFaults
<1> DEFINE Goal == /\ Still
                   /\ doc' = doc \/ \E s \in Subs : \E d \in Docs : DocStep(s, d) /\ d.life # NoDoc
                   /\ queue' = queue \/ \E s \in Subs : QueueStep(s, Done) \/ QueueStep(s, Open)
                   /\ expected' \in [Subs -> Subs \cup {0}]
                   /\ faults' \in 0 .. MaxFaults
<1>1. expected \in [Subs -> Subs \cup {0}] /\ faults \in 0 .. MaxFaults /\ MaxFaults \in Nat
      /\ doc \in [Subs -> Docs]
  BY ControlPlaneAssumption DEF Sane, SubmitTypeOK, TypeOK
<1>2. ASSUME NEW c \in Subs,
             Resolve(c) \/ Stamp(c) \/ Admit(c) \/ ReadOlder(c)
      PROVE  Goal
  BY <1>1, <1>2 DEF Resolve, Stamp, Admit, ReadOlder, vars, rows, Still
<1>3. ASSUME NEW c \in Subs, CallDies(c)
      PROVE  Goal
  BY <1>1, <1>3 DEF CallDies, Fault, rows, Still
<1>4. ASSUME NEW c \in Subs, WriteSnapshot(c)
      PROVE  Goal
  <2>1. Target(c) \in Subs /\ call[c].seen \in Subs \cup {0}
    BY <1>4, Targets DEF WriteSnapshot, Sane, SubmitTypeOK, Calls
  <2> QED
    BY <1>1, <1>4, <2>1 DEF WriteSnapshot, Still
<1>5. ASSUME NEW c \in Subs, CloseRejected(c) \/ CloseOlder(c) \/ Enqueue(c)
      PROVE  Goal
  <2>1. Target(c) \in Subs /\ (CloseOlder(c) => call[c].closing \in Subs)
    BY <1>5, Targets DEF CloseRejected, CloseOlder, Enqueue, Sane, CallsSound, CallSound, Exists
  <2> QED
    BY <1>1, <1>5, <2>1 DEF CloseRejected, CloseOlder, Enqueue, Still, QueueStep
<1>6. ASSUME NEW c \in Subs, WriteQueued(c) \/ WriteWaiting(c) \/ AdmissionFails(c)
      PROVE  Goal
  <2>1. Target(c) \in Subs
    BY <1>6, Targets DEF WriteQueued, WriteWaiting, AdmissionFails
  <2>2. PICK d \in {[Blank EXCEPT !.life = "pending_approval"], [Blank EXCEPT !.life = "queued"],
                    [Blank EXCEPT !.life = "waiting_for_lock"],
                    [Blank EXCEPT !.life = "finished", !.reason = "no_longer_admitted"]} :
             DocStep(Target(c), d)
    BY <1>6 DEF WriteQueued, WriteWaiting, AdmissionFails, DocStep
  <2>3. d \in Docs /\ d.life # NoDoc
    BY BlankDoc, ServiceDocs DEF NoDoc
  <2> QED
    BY <1>1, <1>6, <2>1, <2>2, <2>3 DEF WriteQueued, WriteWaiting, AdmissionFails, Still
<1>7. ASSUME NEW c \in Subs, Supersede(c)
      PROVE  Goal
  <2>1. PICK old \in call[c].older :
               DocStep(old[1], [old[2] EXCEPT !.life = "finished", !.reason = "superseded"])
    BY <1>7 DEF Supersede, DocStep
  <2>2. old[1] \in Subs /\ old[2] \in Docs
    BY DEF Sane, SubmitTypeOK, Calls
  <2>3. [old[2] EXCEPT !.life = "finished", !.reason = "superseded"] \in {e \in Docs : e.life # NoDoc}
    BY <2>2, ServiceDocs DEF NoDoc
  <2> QED
    BY <1>1, <1>7, <2>1, <2>2, <2>3 DEF Supersede, Still
<1>8. ASSUME NEW a \in Approvals, ApproveRead(a) \/ ApproveQueue(a)
      PROVE  Goal
  <2>1. ApproveQueue(a) => approval[a].sub \in Subs
    BY DEF ApproveQueue, Sane, CallsSound, ApprovalSound, Exists
  <2> QED
    BY <1>1, <1>8, <2>1 DEF ApproveRead, ApproveQueue, vars, rows, Still, QueueStep
<1>9. ASSUME NEW a \in Approvals, ApproveWrite(a)
      PROVE  Goal
  <2>1. approval[a].sub \in Subs /\ approval[a].copy \in Docs /\ approval[a].copy.life # NoDoc
    BY <1>9 DEF ApproveWrite, Sane, SubmitTypeOK, CallsSound, ApprovalSound, Exists
  <2>2. PICK e \in {approval[a].copy, [approval[a].copy EXCEPT !.life = "waiting_for_lock"]} :
             DocStep(approval[a].sub, e)
    BY <1>9 DEF ApproveWrite, DocStep
  <2>3. e \in Docs /\ e.life # NoDoc
    BY <2>1, ServiceDocs DEF NoDoc
  <2> QED
    BY <1>1, <1>9, <2>1, <2>2, <2>3 DEF ApproveWrite, Still
<1> HIDE DEF Goal
<1>10. Goal
  BY <1>2, <1>3, <1>4, <1>5, <1>6, <1>7, <1>8, <1>9 DEF ServiceStep
<1> QED
  BY <1>10 DEF Goal

(* The steps of a call that is being handled, and of an approval. *)
Handler(c) ==
  \/ Stamp(c) \/ WriteSnapshot(c) \/ Admit(c) \/ AdmissionFails(c) \/ CloseRejected(c)
  \/ WriteQueued(c) \/ ReadOlder(c) \/ Supersede(c) \/ CloseOlder(c) \/ WriteWaiting(c)
  \/ Enqueue(c) \/ CallDies(c)

Approver(a) == ApproveRead(a) \/ ApproveWrite(a) \/ ApproveQueue(a)

LEMMA ServiceSteps ==
  ServiceStep => (\E c \in Subs : Resolve(c) \/ Handler(c)) \/ \E a \in Approvals : Approver(a)
BY DEF ServiceStep, Handler, Approver

LEMMA HandlerCalls ==
  ASSUME Sane, NEW c \in Subs, Handler(c)
  PROVE  /\ UNCHANGED <<idempotency, approval>>
         /\ call' = [call EXCEPT ![c] = call'[c]] /\ call'[c] \in Calls
         /\ call'[c].key = call[c].key /\ call'[c].kind = call[c].kind
         /\ call[c].pc # "new" /\ call'[c].pc \notin {"new", "refused"}
         /\ call[c].pc # "refused"
         /\ submittedAt' \in [Subs -> Nat]
<1>1. call \in [Subs -> Calls] /\ submittedAt \in [Subs -> Nat] /\ doc \in [Subs -> Docs]
      /\ stage \in Subs \cup {0} /\ MaxTime \in Nat
  BY SubmitAssumption DEF Sane, SubmitTypeOK, TypeOK
<1>2. ASSUME NEW pc \in {"admit", "queue", "close", "answered", "older", "enqueue", "died"},
             CallTo(c, pc)
      PROVE  /\ call' = [call EXCEPT ![c] = call'[c]] /\ call'[c] \in Calls
             /\ call'[c].key = call[c].key /\ call'[c].kind = call[c].kind
             /\ call'[c].pc = pc
  BY <1>1, <1>2 DEF CallTo, Calls
<1>3. CASE Admit(c) \/ AdmissionFails(c) \/ CloseRejected(c) \/ WriteQueued(c) \/ WriteWaiting(c)
           \/ Enqueue(c) \/ CallDies(c)
  BY <1>1, <1>2, <1>3 DEF Admit, AdmissionFails, CloseRejected, WriteQueued, WriteWaiting, Enqueue,
     CallDies, Handled, Over, vars
<1>4. CASE WriteSnapshot(c)
  <2>1. submittedAt' \in [Subs -> Nat]
    BY <1>1, <1>4 DEF WriteSnapshot, Calls
  <2> QED
    BY <1>2, <1>4, <2>1 DEF WriteSnapshot
<1>5. CASE Stamp(c)
  <2>1. PICK now \in 1 .. MaxTime :
             call' = [call EXCEPT ![c].pc = "snapshot", ![c].at = now, ![c].seen = stage]
    BY <1>5 DEF Stamp
  <2> DEFINE p == [call[c] EXCEPT !.pc = "snapshot", !.at = now, !.seen = stage]
  <2>2. now \in Nat
    BY <1>1
  <2>3. call[c] \in Calls /\ call' = [call EXCEPT ![c] = p]
    BY <1>1, <2>1 DEF Calls
  <2>4. p \in Calls /\ p.key = call[c].key /\ p.kind = call[c].kind /\ p.pc = "snapshot"
    BY <1>1, <2>2, <2>3 DEF Calls
  <2>5. call[c].pc = "stamp" /\ UNCHANGED <<idempotency, submittedAt, approval>>
    BY <1>5 DEF Stamp
  <2> HIDE DEF p
  <2> QED
    BY <1>1, <2>3, <2>4, <2>5
<1>6. CASE ReadOlder(c)
  <2> DEFINE older == {<<s, doc[s]>> : s \in {o \in Subs : Supersedes(Target(c), call[c].at, o)}}
  <2>1. older \in SUBSET (Subs \X Docs)
    BY <1>1
  <2>2. /\ call[c].pc = "older"
        /\ call' = [call EXCEPT ![c].pc = "supersede", ![c].older = older]
        /\ UNCHANGED <<submittedAt, idempotency, approval>>
    BY <1>6 DEF ReadOlder
  <2> HIDE DEF older
  <2> DEFINE p == [call[c] EXCEPT !.pc = "supersede", !.older = older]
  <2>3. call[c] \in Calls /\ call' = [call EXCEPT ![c] = p]
    BY <1>1, <2>2 DEF Calls
  <2>4. p \in Calls /\ p.key = call[c].key /\ p.kind = call[c].kind /\ p.pc = "supersede"
    BY <2>1, <2>3 DEF Calls
  <2> HIDE DEF p
  <2> QED
    BY <1>1, <2>2, <2>3, <2>4
<1>7. CASE Supersede(c)
  <2>1. PICK old \in call[c].older : call' = [call EXCEPT ![c].pc = "closeOlder", ![c].closing = old[1],
                                                          ![c].older = @ \ {old}]
    BY <1>7 DEF Supersede
  <2>2. call[c].older \in SUBSET (Subs \X Docs) /\ old[1] \in Subs
    BY <1>1 DEF Calls
  <2>3. call[c].older \ {old} \in SUBSET (Subs \X Docs)
    BY <2>2
  <2> DEFINE p == [call[c] EXCEPT !.pc = "closeOlder", !.closing = old[1],
                                  !.older = call[c].older \ {old}]
  <2>4. call[c] \in Calls /\ call' = [call EXCEPT ![c] = p]
    BY <1>1, <2>1 DEF Calls
  <2>5. p \in Calls /\ p.key = call[c].key /\ p.kind = call[c].kind /\ p.pc = "closeOlder"
    BY <2>2, <2>3, <2>4 DEF Calls
  <2>6. call[c].pc = "supersede" /\ UNCHANGED <<idempotency, submittedAt, approval>>
    BY <1>7 DEF Supersede
  <2> HIDE DEF p
  <2> QED
    BY <1>1, <2>4, <2>5, <2>6
<1>8. CASE CloseOlder(c)
  <2> DEFINE p == [call[c] EXCEPT !.pc = "supersede", !.closing = 0]
  <2>1. /\ call[c].pc = "closeOlder"
        /\ call' = [call EXCEPT ![c].pc = "supersede", ![c].closing = 0]
        /\ UNCHANGED <<idempotency, submittedAt, approval>>
    BY <1>8 DEF CloseOlder
  <2>2. call[c] \in Calls /\ call' = [call EXCEPT ![c] = p]
    BY <1>1, <2>1 DEF Calls
  <2>3. p \in Calls /\ p.key = call[c].key /\ p.kind = call[c].kind /\ p.pc = "supersede"
    BY <2>2 DEF Calls
  <2> HIDE DEF p
  <2> QED
    BY <1>1, <2>1, <2>2, <2>3
<1> QED
  BY <1>3, <1>4, <1>5, <1>6, <1>7, <1>8 DEF Handler

LEMMA ApproverCalls ==
  ASSUME Sane, NEW a \in Approvals, Approver(a)
  PROVE  /\ UNCHANGED <<call, idempotency, submittedAt>>
         /\ approval' = [approval EXCEPT ![a] = approval'[a]]
         /\ approval'[a] \in [pc : {"new", "read", "enqueue", "close", "done"},
                              sub : Subs \cup {0}, copy : Docs]
         /\ approval'[a].pc # "new" /\ Exists(approval'[a].sub)
         /\ approval[a].pc # "new" => approval'[a].sub = approval[a].sub
         /\ approval'[a].pc = "read" => approval'[a].copy.life # NoDoc
<1>1. approval \in [Approvals -> [pc : {"new", "read", "enqueue", "close", "done"},
                                  sub : Subs \cup {0}, copy : Docs]]
      /\ doc \in [Subs -> Docs] /\ ApprovalSound(a)
  BY DEF Sane, SubmitTypeOK, TypeOK, CallsSound
<1>2. CASE ApproveRead(a)
  <2>1. PICK s \in Subs : /\ s \in Submitted
                          /\ approval' = [approval EXCEPT ![a] = [pc |-> "read", sub |-> s, copy |-> doc[s]]]
    BY <1>2 DEF ApproveRead, Known, Submitted
  <2> QED
    BY <1>1, <1>2, <2>1 DEF ApproveRead, Submitted, Exists
<1>3. CASE ApproveWrite(a)
  <2>1. PICK pc \in {"enqueue", "done", "close"} :
             approval' = [approval EXCEPT ![a].copy = Blank, ![a].pc = pc]
    BY <1>3 DEF ApproveWrite
  <2>2. Exists(approval[a].sub)
    BY <1>1, <1>3 DEF ApproveWrite, ApprovalSound
  <2> QED
    BY <1>1, <1>3, <2>1, <2>2, BlankDoc DEF ApproveWrite
<1>4. CASE ApproveQueue(a)
  <2>1. Exists(approval[a].sub)
    BY <1>1, <1>4 DEF ApproveQueue, ApprovalSound
  <2> QED
    BY <1>1, <1>4, <2>1 DEF ApproveQueue
<1> QED
  BY <1>2, <1>3, <1>4 DEF Approver

(* What the call c brings up, and under which key, is settled when it      *)
(* comes in.                                                               *)
LEMMA ResolveCalls ==
  ASSUME Sane, NEW c \in Subs, Resolve(c)
  PROVE  \E k \in Keys, kind \in Kinds, t \in Subs :
           /\ Arrives(c, k) /\ call[c].pc = "new"
           /\ t = IF idempotency[k] = 0 THEN c ELSE idempotency[k]
           /\ idempotency' = [idempotency EXCEPT ![k] = t]
           /\ call' = [call EXCEPT ![c] = call'[c]] /\ call'[c] \in Calls
           /\ call'[c].key = k /\ call'[c].kind = kind /\ call'[c].older = {}
           /\ Target(c)' = t
           /\ \/ call'[c].pc = "refused"
              \/ call'[c].pc = "answered" /\ Exists(t) /\ (t = c \/ kind = Kind(t))
              \/ call'[c].pc = "stamp" /\ ~Exists(t) /\ (t = c \/ kind = Kind(t))
           /\ UNCHANGED <<vars, submittedAt, approval>>
<1>1. PICK k \in Keys, kind \in Kinds :
        LET t == IF idempotency[k] = 0 THEN c ELSE idempotency[k]
        IN  /\ Arrives(c, k)
            /\ idempotency' = [idempotency EXCEPT ![k] = t]
            /\ call' = [call EXCEPT ![c].key = k, ![c].kind = kind,
                                    ![c].pc = IF t # c /\ kind # Kind(t) THEN "refused"
                                              ELSE IF doc[t].life # NoDoc THEN "answered"
                                              ELSE "stamp"]
            /\ UNCHANGED <<vars, submittedAt, approval>>
  BY Zenon DEF Resolve
<1> DEFINE t == IF idempotency[k] = 0 THEN c ELSE idempotency[k]
           pc == IF t # c /\ kind # Kind(t) THEN "refused"
                 ELSE IF doc[t].life # NoDoc THEN "answered" ELSE "stamp"
<1>2. call \in [Subs -> Calls] /\ idempotency \in [Keys -> Subs \cup {0}]
      /\ call[c].pc = "new" /\ call[c].older = {} /\ kind # "none"
  BY <1>1, SubmitAssumption DEF Sane, SubmitTypeOK, CallsSound, CallSound, Arrives
<1>3. t \in Subs
  BY <1>2
<1>4. /\ pc \in {"refused", "answered", "stamp"}
      /\ \/ pc = "refused"
         \/ pc = "answered" /\ Exists(t) /\ (t = c \/ kind = Kind(t))
         \/ pc = "stamp" /\ ~Exists(t) /\ (t = c \/ kind = Kind(t))
  <2> HIDE DEF t
  <2> QED
    BY <1>3 DEF Exists
<1>5. call' = [call EXCEPT ![c].key = k, ![c].kind = kind, ![c].pc = pc]
      /\ idempotency' = [idempotency EXCEPT ![k] = t] /\ Arrives(c, k)
      /\ UNCHANGED <<vars, submittedAt, approval>>
  BY <1>1
<1>6. t = IF idempotency[k] = 0 THEN c ELSE idempotency[k]
  OBVIOUS
<1> HIDE DEF t, pc
<1>7. /\ idempotency'[k] = t
      /\ call' = [call EXCEPT ![c] = call'[c]] /\ call'[c] \in Calls
      /\ call'[c].key = k /\ call'[c].kind = kind /\ call'[c].older = {} /\ call'[c].pc = pc
  BY <1>2, <1>3, <1>4, <1>5 DEF Calls
<1>8. Target(c)' = t
  BY <1>7 DEF Target
<1> WITNESS k \in Keys, kind \in Kinds, t \in Subs
<1> QED
  BY <1>2, <1>4, <1>5, <1>6, <1>7, <1>8

-----------------------------------------------------------------------------
(* Steps of a worker that claims nothing. *)
Ordinary(w) ==
  \/ Materialize(w) \/ Reconcile(w) \/ AssertClaim(w) \/ StopWaiting(w) \/ AcquireLock(w)
  \/ AssertPasses(w) \/ AssertFails(w) \/ UpsertDoc(w) \/ MarkDone(w) \/ Revalidate(w)
  \/ BeginMutation(w) \/ MutateReturns(w) \/ PersistRecord(w) \/ ReleaseLock(w) \/ Finally(w)
  \/ LockRevives(w) \/ Restart(w) \/ Crash(w) \/ Abort(w) \/ Error(w) \/ Stall(w)

LEMMA OrdinarySteps ==
  ASSUME NEW w \in Workers, Ordinary(w)
  PROVE  WorkerStep(w) \/ Crash(w) \/ Abort(w) \/ Error(w) \/ Stall(w)
BY DEF Ordinary, WorkerStep

LEMMA OthersSteps ==
  WorkersAndOperators =>
    \/ \E w \in Workers : ClaimOldest(w) \/ Ordinary(w)
    \/ LockLapses \/ \E s \in Subs : ClaimLapses(s)
    \/ \E q \in Requests : CancelRead(q) \/ CancelWrite(q) \/ CancelMarkDone(q)
BY DEF WorkersAndOperators, SubmitWorkerStep, Ordinary

(* Its submission is the one it has, or none. *)
LEMMA SubKept ==
  ASSUME WorkersSound, NEW v \in Workers, NEW w \in Workers, Ordinary(w), worker'[v].pc # "idle"
  PROVE  worker[v].pc # "idle" /\ worker'[v].sub = worker[v].sub
<1>1. CASE Claim(w)
  <2>1. worker[w].pc = "idle" /\ ~worker[w].aborted /\ worker'[w].pc = "materialize"
    BY <1>1 DEF Claim, WorkersSound, Processes
  <2>2. CASE LockRevives(w) \/ Stall(w)
    BY <2>1, <2>2 DEF LockRevives, Stall
  <2>3. CASE Error(w)
    BY <2>1, <2>3 DEF Error, Return, Locking, Idle, WorkersSound
  <2> QED
    BY <2>1, <2>2, <2>3 DEF Ordinary, Materialize, Reconcile, AssertClaim, StopWaiting, AcquireLock,
       AssertPasses, AssertFails, UpsertDoc, MarkDone, Revalidate, BeginMutation, MutateReturns,
       PersistRecord, ReleaseLock, Finally, Restart, Crash, Abort
<1>2. CASE ~Claim(w)
  BY <1>2, OrdinarySteps, SubsKept
<1> QED
  BY <1>1, <1>2

(* A worker writes its own row of the table of processes, gets a           *)
(* submission only by a claim, and forgets everything when it is idle.     *)
LEMMA WorkerBegins ==
  ASSUME WorkersSound, Beginnings, NEW w \in Workers, Ordinary(w)
  PROVE  /\ worker' = [worker EXCEPT ![w] = worker'[w]]
         /\ worker'[w].pc \in Unread => worker'[w].file = Blank /\ worker'[w].next = Blank
         /\ worker'[w].pc = "idle" => worker'[w].sub = 0
<1> DEFINE Goal == /\ worker' = [worker EXCEPT ![w] = worker'[w]]
                   /\ worker'[w].pc \in Unread => worker'[w].file = Blank /\ worker'[w].next = Blank
                   /\ worker'[w].pc = "idle" => worker'[w].sub = 0
<1>1. worker \in [Workers -> Processes]
  BY DEF WorkersSound
<1>2. ASSUME NEW p, p.pc \notin Unread \/ (p.pc = "idle" /\ p.file = Blank /\ p.next = Blank /\ p.sub = 0),
             worker' = [worker EXCEPT ![w] = p]
      PROVE  Goal
  BY <1>1, <1>2 DEF Unread
<1>3. ASSUME NEW pc \in PCs \ Unread, NEW goal, Goto(w, pc, goal)
      PROVE  Goal
  <2> DEFINE p == [worker[w] EXCEPT !.pc = pc, !.goal = goal]
  <2>1. worker' = [worker EXCEPT ![w] = p] /\ p.pc = pc
    BY <1>1, <1>3 DEF Goto, Processes
  <2> QED
    BY <1>2, <2>1
<1>4. ASSUME Return(w) \/ worker' = [worker EXCEPT ![w] = Idle]
      PROVE  Goal
  <2>1. CASE Return(w)
    <3>1. worker' = [worker EXCEPT ![w] = [Idle EXCEPT !.aborted = worker[w].aborted,
                                                       !.leaked = worker[w].leaked]]
      BY <2>1 DEF Return
    <3> QED
      BY <1>2, <3>1 DEF Idle
  <2>2. CASE worker' = [worker EXCEPT ![w] = Idle]
    BY <1>2, <2>2 DEF Idle
  <2> QED
    BY <1>4, <2>1, <2>2
<1>5. {"finally", "upsert", "release", "mutate", "assert", "record", "revalidate", "begin",
       "reconcile", "acquire", "assertClaim", "markDone"} \subseteq PCs \ Unread
  BY DEF PCs, Unread
<1>6. ASSUME NEW pc \in PCs \ Unread, worker' = [worker EXCEPT ![w] = worker'[w]], worker'[w].pc = pc
      PROVE  Goal
  BY <1>6 DEF Unread
<1>7. ASSUME LoseAuthority(w) \/ Unwind(w)
      PROVE  Goal
  <2>1. CASE worker[w].goal = "settle" /\ Recover(w, record[Sub(w)])
    <3>1. worker' = [worker EXCEPT ![w] = worker'[w]] /\ worker'[w].pc = "upsert"
      BY <1>1, <2>1 DEF Recover, Processes
    <3> QED
      BY <1>5, <1>6, <3>1
  <2>2. CASE Unwind(w)
    <3>1. worker' = [worker EXCEPT ![w] = worker'[w]] /\ worker'[w].pc \in {"finally", "release"}
      BY <1>1, <2>2 DEF Unwind, Goto, Processes
    <3> QED
      BY <1>5, <1>6, <3>1
  <2> QED
    BY <1>7, <2>1, <2>2 DEF LoseAuthority
<1>8. ASSUME AfterWrite(w)
      PROVE  Goal
  BY <1>3, <1>4, <1>5, <1>8 DEF AfterWrite
<1>9. CASE Materialize(w) \/ Finally(w)
  <2>1. CASE Return(w)
    BY <1>4, <2>1
  <2>2. CASE ~Return(w)
    <3>1. worker' = [worker EXCEPT ![w] = worker'[w]]
          /\ worker'[w].pc \in {"reconcile", "acquire", "upsert"}
      BY <1>1, <1>9, <2>2 DEF Materialize, Finally, Processes
    <3> QED
      BY <1>5, <1>6, <3>1
  <2> QED
    BY <2>1, <2>2
<1>10. CASE Reconcile(w) \/ AcquireLock(w) \/ Revalidate(w) \/ MutateReturns(w)
  <2>1. worker' = [worker EXCEPT ![w] = worker'[w]]
        /\ worker'[w].pc \in {"assertClaim", "assert"}
    <3>1. CASE Reconcile(w)
      BY <1>1, <3>1 DEF Reconcile, Processes
    <3>2. CASE AcquireLock(w)
      BY <1>1, <3>2 DEF AcquireLock, Processes
    <3>3. CASE Revalidate(w)
      BY <1>1, <3>3 DEF Revalidate, Processes
    <3>4. CASE MutateReturns(w)
      BY <1>1, <3>4 DEF MutateReturns, Processes
    <3> QED
      BY <1>10, <3>1, <3>2, <3>3, <3>4
  <2> QED
    BY <1>5, <1>6, <2>1
<1>11. CASE AssertClaim(w) \/ StopWaiting(w) \/ BeginMutation(w) \/ ReleaseLock(w)
  BY <1>3, <1>5, <1>11 DEF AssertClaim, StopWaiting, BeginMutation, ReleaseLock
<1>12. CASE AssertPasses(w) \/ PersistRecord(w)
  <2>1. worker' = [worker EXCEPT ![w] = worker'[w]]
        /\ worker'[w].pc \in {"assert", "upsert", "record", "revalidate", "release"}
    <3>1. CASE AssertPasses(w)
      BY <1>1, <3>1 DEF AssertPasses, Goto, Processes
    <3>2. CASE PersistRecord(w)
      BY <1>1, <3>2 DEF PersistRecord, AfterRecord, Recover, Goto, Processes
    <3> QED
      BY <1>12, <3>1, <3>2
  <2> QED
    BY <1>5, <1>6, <2>1
<1>13. CASE AssertFails(w)
  BY <1>7, <1>13 DEF AssertFails
<1>14. CASE UpsertDoc(w) \/ MarkDone(w)
  BY <1>3, <1>5, <1>8, <1>14 DEF UpsertDoc, MarkDone
<1>15. CASE Restart(w) \/ Crash(w)
  BY <1>4, <1>15 DEF Restart, Crash
<1>16. CASE LockRevives(w) \/ Stall(w)
  BY <1>1, <1>16 DEF LockRevives, Stall, Beginnings
<1>17. CASE Abort(w)
  BY <1>1, <1>17 DEF Abort, Beginnings, Processes
<1>18. CASE Error(w)
  BY <1>3, <1>4, <1>5, <1>7, <1>18, ErrorCases
<1> QED
  BY <1>9, <1>10, <1>11, <1>12, <1>13, <1>14, <1>15, <1>16, <1>17, <1>18 DEF Ordinary

(* What it holds in memory, and with it the row it writes, it has read or  *)
(* makes of what it has read.                                              *)
From(d, e) == /\ e.reason \in {d.reason, "no_longer_admitted"}
              /\ e.life = d.life \/ e.life \in {"running", "finished", "paused"}

Memory(w) == {Blank, worker[w].file, worker[w].next} \cup {doc[s] : s \in {Sub(w)} \cap Subs}

LEMMA Makes ==
  ASSUME NEW d \in Docs, NEW r \in Outcomes
  PROVE  /\ From(d, d)
         /\ From(d, Reconciled(d, r))
         /\ From(d, [d EXCEPT !.life = "running"])
         /\ From(d, [d EXCEPT !.life = "running", !.mutation = TRUE])
         /\ From(d, [d EXCEPT !.life = "finished", !.reason = "no_longer_admitted"])
         /\ From(d, [d EXCEPT !.life = "finished", !.outcome = r])
         /\ From(d, [d EXCEPT !.life = "paused"])
BY DEF From, Reconciled, Docs

LEMMA WorkerReads ==
  ASSUME TypeOK, WorkersSound, WorkExists, NEW w \in Workers, Ordinary(w)
  PROVE  /\ \E d \in Memory(w) : From(d, worker'[w].file)
         /\ \E d \in Memory(w) : From(d, worker'[w].next)
<1> DEFINE Goal == /\ \E d \in Memory(w) : From(d, worker'[w].file)
                   /\ \E d \in Memory(w) : From(d, worker'[w].next)
<1> DEFINE f == worker[w].file
           n == worker[w].next
<1>1. /\ worker \in [Workers -> Processes] /\ f \in Docs /\ n \in Docs /\ Blank \in Docs
      /\ doc \in [Subs -> Docs] /\ f \in Memory(w) /\ n \in Memory(w) /\ Blank \in Memory(w)
      /\ record \in [Subs -> Outcomes] /\ worker[w].result \in Outcomes
      /\ worker[w].pc # "idle" => Sub(w) \in Subs /\ doc[Sub(w)] \in Memory(w)
  BY BlankDoc DEF WorkersSound, Processes, TypeOK, Memory, WorkExists, Exists
<1>2. ASSUME worker'[w].file = f, worker'[w].next = n
      PROVE  Goal
  BY <1>1, <1>2, Makes
<1>3. ASSUME NEW pc, NEW goal, Goto(w, pc, goal)
      PROVE  Goal
  <2>1. worker'[w].file = f /\ worker'[w].next = n
    BY <1>1, <1>3 DEF Goto, Processes
  <2> QED
    BY <1>2, <2>1
<1>4. ASSUME worker'[w].file = Blank, worker'[w].next = Blank
      PROVE  Goal
  BY <1>1, <1>4, Makes
<1>5. ASSUME Return(w) \/ worker' = [worker EXCEPT ![w] = Idle]
      PROVE  Goal
  <2>1. worker'[w].file = Blank /\ worker'[w].next = Blank
    <3>1. CASE Return(w)
      BY <1>1, <3>1 DEF Return, Idle
    <3>2. CASE worker' = [worker EXCEPT ![w] = Idle]
      BY <1>1, <3>2 DEF Idle
    <3> QED
      BY <1>5, <3>1, <3>2
  <2> QED
    BY <1>4, <2>1
<1>6. ASSUME NEW r \in Outcomes, Recover(w, r)
      PROVE  Goal
  <2>1. worker'[w].file = Reconciled(f, r) /\ worker'[w].next = Reconciled(f, r)
    BY <1>1, <1>6 DEF Recover, Processes
  <2> QED
    BY <1>1, <2>1, Makes
<1>7. ASSUME Unwind(w)
      PROVE  Goal
  <2>1. worker'[w].file = f /\ worker'[w].next = n
    BY <1>1, <1>7 DEF Unwind, Goto, Processes
  <2> QED
    BY <1>2, <2>1
<1>8. ASSUME LoseAuthority(w), worker[w].pc = "assert"
      PROVE  Goal
  <2>1. record[Sub(w)] \in Outcomes
    BY <1>1, <1>8
  <2> QED
    BY <1>6, <1>7, <1>8, <2>1 DEF LoseAuthority
<1>9. ASSUME AfterWrite(w)
      PROVE  Goal
  BY <1>3, <1>5, <1>9 DEF AfterWrite
<1>10. CASE Materialize(w)
  <2>1. CASE Return(w)
    BY <1>5, <2>1
  <2>2. CASE ~Return(w)
    <3>1. worker'[w].file = doc[Sub(w)] /\ worker'[w].next = n /\ doc[Sub(w)] \in Docs
      BY <1>1, <1>10, <2>2 DEF Materialize, Processes
    <3> QED
      BY <1>1, <1>10, <3>1, Makes DEF Materialize
  <2> QED
    BY <2>1, <2>2
<1>11. CASE Finally(w)
  <2>1. CASE Return(w)
    BY <1>5, <2>1
  <2>2. CASE ~Return(w)
    <3>1. worker'[w].file = f /\ worker'[w].next = f
      BY <1>1, <1>11, <2>2 DEF Finally, Processes
    <3> QED
      BY <1>1, <3>1, Makes
  <2> QED
    BY <2>1, <2>2
<1>12. CASE Reconcile(w)
  <2> DEFINE d == Reconciled(f, record[Sub(w)])
  <2>1. worker'[w].file = d /\ worker'[w].next = d
    BY <1>1, <1>12 DEF Reconcile, Processes
  <2>2. record[Sub(w)] \in Outcomes
    BY <1>1, <1>12 DEF Reconcile
  <2> QED
    BY <1>1, <2>1, <2>2, Makes
<1>13. CASE AcquireLock(w)
  <2>1. worker'[w].file = f /\ worker'[w].next = [f EXCEPT !.life = "running"]
    BY <1>1, <1>13 DEF AcquireLock, Processes
  <2> QED
    BY <1>1, <2>1, Makes
<1>14. CASE Revalidate(w)
  <2>1. /\ worker'[w].file = f
        /\ worker'[w].next \in {[f EXCEPT !.life = "running", !.mutation = TRUE],
                                [f EXCEPT !.life = "finished", !.reason = "no_longer_admitted"]}
    BY <1>1, <1>14 DEF Revalidate, Processes
  <2> QED
    BY <1>1, <2>1, Makes
<1>15. CASE MutateReturns(w)
  <2>1. worker'[w].file = f
    BY <1>1, <1>15 DEF MutateReturns, Processes
  <2>2. \/ worker'[w].next = [n EXCEPT !.life = "paused"]
        \/ \E result \in {"succeeded", "failed"} :
             worker'[w].next = [n EXCEPT !.life = "finished", !.outcome = result]
    BY <1>1, <1>15 DEF MutateReturns, Processes
  <2>3. \E d \in Memory(w) : From(d, worker'[w].file)
    BY <1>1, <2>1, Makes
  <2>4. CASE worker'[w].next = [n EXCEPT !.life = "paused"]
    BY <1>1, <2>3, <2>4, Makes
  <2>5. ASSUME NEW result \in {"succeeded", "failed"},
               worker'[w].next = [n EXCEPT !.life = "finished", !.outcome = result]
        PROVE  Goal
    <3>1. result \in Outcomes
      BY DEF Outcomes
    <3> HIDE DEF n
    <3>2. From(n, [n EXCEPT !.life = "finished", !.outcome = result])
      BY <1>1, <3>1, Makes
    <3> QED
      BY <1>1, <2>3, <2>5, <3>2
  <2> QED
    BY <2>2, <2>4, <2>5
<1>16. CASE AssertPasses(w)
  <2>1. worker'[w].next = n /\ worker'[w].file \in {f, n}
    BY <1>1, <1>16 DEF AssertPasses, Goto, Processes
  <2> QED
    BY <1>1, <2>1, Makes
<1>17. CASE PersistRecord(w)
  BY <1>1, <1>3, <1>6, <1>17 DEF PersistRecord, AfterRecord
<1>18. CASE AssertClaim(w) \/ StopWaiting(w) \/ BeginMutation(w) \/ ReleaseLock(w)
  BY <1>3, <1>18 DEF AssertClaim, StopWaiting, BeginMutation, ReleaseLock
<1>19. CASE AssertFails(w)
  BY <1>8, <1>19 DEF AssertFails
<1>20. CASE UpsertDoc(w) \/ MarkDone(w)
  BY <1>3, <1>9, <1>20 DEF UpsertDoc, MarkDone
<1>21. CASE Restart(w) \/ Crash(w)
  BY <1>5, <1>21 DEF Restart, Crash
<1>22. CASE LockRevives(w) \/ Stall(w)
  BY <1>2, <1>22 DEF LockRevives, Stall
<1>23. CASE Abort(w)
  <2>1. worker'[w].file = f /\ worker'[w].next = n
    BY <1>1, <1>23 DEF Abort, Processes
  <2> QED
    BY <1>2, <2>1
<1>24. CASE Error(w)
  BY <1>3, <1>5, <1>7, <1>8, <1>24, ErrorCases
<1> QED
  BY <1>10, <1>11, <1>12, <1>13, <1>14, <1>15, <1>16, <1>17, <1>18, <1>19, <1>20, <1>21, <1>22,
     <1>23, <1>24 DEF Ordinary

-----------------------------------------------------------------------------
(* The types and the calls, for good. *)

LEMMA SaneInit == SubmitInit => Sane
<1> SUFFICES ASSUME SubmitInit PROVE Sane
  OBVIOUS
<1>1. Idle \in Processes /\ Sound(Idle) /\ Idle.pc = "idle" /\ Idle.file = Blank
      /\ Idle.next = Blank /\ Idle.sub = 0
  BY IdleSound DEF Idle
<1>2. WorkersSound
  BY <1>1 DEF SubmitInit, WorkersSound
<1>3. TypeOK
  <2>1. doc \in [Subs -> Docs] /\ record \in [Subs -> Outcomes] /\ expected \in [Subs -> Subs \cup {0}]
        /\ queue \in [Subs -> [owner : Workers \cup {NoWorker}, lapsed : BOOLEAN, done : BOOLEAN]]
    BY BlankDoc, Rows DEF SubmitInit, Outcomes
  <2>2. request \in [Requests -> [pc : {"new", "read", "written", "done"}, sub : Subs \cup {0}, copy : Docs]]
    BY BlankDoc DEF SubmitInit
  <2>3. stage \in Subs \cup {0} /\ mutations \in [Subs -> Nat] /\ accepted \subseteq Subs
        /\ faults \in 0 .. MaxFaults
    BY ControlPlaneAssumption DEF SubmitInit
  <2>4. lockOwner \in Workers \cup {NoWorker} /\ lockLapsed \in BOOLEAN
    BY DEF SubmitInit, Lock!Init
  <2> QED
    BY <1>2, <2>1, <2>2, <2>3, <2>4 DEF TypeOK, WorkersSound
<1>4. NewCall \in Calls /\ NewCall.pc = "new" /\ NewCall.kind = "none" /\ NewCall.older = {}
  BY DEF NewCall, Calls
<1>5. SubmitTypeOK
  BY <1>3, <1>4, BlankDoc DEF SubmitInit, SubmitTypeOK
<1>6. WorkExists
  BY <1>1 DEF SubmitInit, WorkExists
<1>7. CallsSound
  BY <1>4 DEF SubmitInit, CallsSound, CallSound, KeySound, ApprovalSound
<1>8. Beginnings
  BY <1>1 DEF SubmitInit, Beginnings
<1> QED
  BY <1>2, <1>5, <1>6, <1>7, <1>8 DEF Sane

LEMMA DocsKept ==
  ASSUME Sane, SubmitNext, NEW s, Exists(s)
  PROVE  Exists(s)'
<1> USE DEF Exists
<1>1. TypeOK /\ WorkersSound /\ WorkExists /\ doc \in [Subs -> Docs]
  BY DEF Sane, SubmitTypeOK, TypeOK
<1>2. CASE ServiceStep
  BY <1>1, <1>2, ServiceRows DEF DocStep
<1>3. CASE \E w \in Workers : ClaimOldest(w)
  BY <1>3 DEF ClaimOldest
<1>4. ASSUME NEW w \in Workers, Ordinary(w)
      PROVE  Exists(s)'
  BY <1>1, <1>4, OrdinarySteps, WorkerRows
<1>5. ASSUME NEW q \in Requests, CancelWrite(q)
      PROVE  Exists(s)'
  <2>1. /\ request[q].sub \in Subs /\ request[q].copy.life # NoDoc /\ request[q].copy \in Docs
        /\ doc' = [doc EXCEPT ![request[q].sub] = CancelledDoc(request[q].copy)]
    BY <1>1, <1>5 DEF CancelWrite, WorkExists, TypeOK
  <2>2. CancelledDoc(request[q].copy).life # NoDoc
    BY <2>1, DocFacts DEF Outcomes
  <2> QED
    BY <1>1, <2>1, <2>2
<1>6. ASSUME LockLapses \/ (\E o \in Subs : ClaimLapses(o))
               \/ \E q \in Requests : CancelRead(q) \/ CancelMarkDone(q)
      PROVE  Exists(s)'
  BY <1>6 DEF ClaimLapses, LockLapses, CancelRead, CancelMarkDone, rows
<1> QED
  BY <1>2, <1>3, <1>4, <1>5, <1>6, OthersSteps DEF SubmitNext

LEMMA OthersBegin ==
  ASSUME Sane, WorkersAndOperators
  PROVE  Beginnings'
<1>1. TypeOK /\ WorkersSound /\ WorkExists /\ Beginnings /\ worker \in [Workers -> Processes]
      /\ request \in [Requests -> [pc : {"new", "read", "written", "done"},
                                   sub : Subs \cup {0}, copy : Docs]]
  BY DEF Sane, SubmitTypeOK, TypeOK
<1>2. ASSUME NEW w \in Workers, ClaimOldest(w)
      PROVE  Beginnings'
  <2>1. PICK s \in Subs, goal \in {"recover", "execute"} :
             worker' = [worker EXCEPT ![w].pc = "materialize", ![w].sub = s, ![w].goal = goal]
    BY <1>2 DEF ClaimOldest
  <2>2. \A v \in Workers : v # w => worker'[v] = worker[v]
    BY <1>1, <2>1
  <2>3. worker[w].pc = "idle" /\ worker'[w].pc = "materialize" /\ worker'[w].file = worker[w].file
        /\ worker'[w].next = worker[w].next /\ request' = request
    BY <1>1, <1>2, <2>1 DEF ClaimOldest, Processes
  <2> QED
    BY <1>1, <2>2, <2>3 DEF Beginnings, Unread
<1>3. ASSUME NEW w \in Workers, Ordinary(w)
      PROVE  Beginnings'
  <2>1. request' = request
    BY <1>3 DEF Ordinary, Materialize, Reconcile, AssertClaim, StopWaiting, AcquireLock,
       AssertPasses, AssertFails, UpsertDoc, MarkDone, Revalidate, BeginMutation, MutateReturns,
       PersistRecord, ReleaseLock, Finally, LockRevives, Restart, Crash, Abort, Error, Stall
  <2> QED
    BY <1>1, <1>3, <2>1, WorkerBegins DEF Beginnings
<1>4. ASSUME NEW q \in Requests, CancelRead(q) \/ CancelWrite(q) \/ CancelMarkDone(q)
      PROVE  Beginnings'
  <2>1. worker' = worker /\ request' = [request EXCEPT ![q] = request'[q]] /\ request'[q].pc # "new"
    BY <1>1, <1>4 DEF CancelRead, CancelWrite, CancelMarkDone
  <2> QED
    BY <1>1, <2>1 DEF Beginnings
<1>5. ASSUME LockLapses \/ \E s \in Subs : ClaimLapses(s)
      PROVE  Beginnings'
  BY <1>1, <1>5 DEF LockLapses, ClaimLapses, Beginnings
<1> QED
  BY <1>2, <1>3, <1>4, <1>5, OthersSteps

(* A call that is handled goes on as it should. *)
LEMMA HandlerSound ==
  ASSUME Sane, NEW c \in Subs, Handler(c)
  PROVE  CallSound(c)'
<1>1. /\ call \in [Subs -> Calls] /\ doc \in [Subs -> Docs] /\ CallSound(c)
      /\ UNCHANGED idempotency
      /\ call'[c].key = call[c].key /\ call'[c].kind = call[c].kind
      /\ call[c].pc \notin {"new", "refused"} /\ call'[c].pc \notin {"new", "refused"}
      /\ \A o \in Subs : call'[o].kind = call[o].kind
  BY HandlerCalls DEF Sane, SubmitTypeOK, TypeOK, CallsSound
<1>2. Target(c)' = Target(c) /\ Target(c) \in Subs /\ Kind(Target(c))' = Kind(Target(c))
  BY <1>1 DEF Target, CallSound, Kind
<1>3. \A s : Exists(s) => Exists(s)'
  BY DocsKept DEF SubmitNext, ServiceStep, Handler
<1>4. SUFFICES /\ call'[c].pc \in {"older", "supersede", "closeOlder", "enqueue", "close", "answered"}
                    => Exists(Target(c))'
               /\ call'[c].pc = "closeOlder" => Exists(call[c].closing)'
               /\ \A x \in call'[c].older : Exists(x[1])' /\ x[2].life # NoDoc
  BY <1>1, <1>2 DEF CallSound, Exists
<1>5. ASSUME NEW pc, CallTo(c, pc)
      PROVE  call'[c].pc = pc /\ call'[c].older = call[c].older
  BY <1>1, <1>5 DEF CallTo, Calls
<1>6. CASE WriteQueued(c) \/ AdmissionFails(c)
  <2>1. call'[c].older = call[c].older /\ call'[c].pc \in {"older", "close"}
    BY <1>5, <1>6 DEF WriteQueued, AdmissionFails
  <2>2. PICK d \in {[Blank EXCEPT !.life = "pending_approval"], [Blank EXCEPT !.life = "queued"],
                    [Blank EXCEPT !.life = "finished", !.reason = "no_longer_admitted"]} :
             DocStep(Target(c), d)
    BY <1>6 DEF WriteQueued, AdmissionFails, DocStep
  <2>3. d.life # NoDoc
    BY BlankDoc, ServiceDocs DEF NoDoc
  <2>4. Exists(Target(c))'
    BY <1>1, <1>2, <2>2, <2>3 DEF Exists, DocStep
  <2> QED
    BY <1>1, <1>3, <2>1, <2>4 DEF CallSound
<1>7. CASE WriteSnapshot(c) \/ Admit(c) \/ CallDies(c) \/ CloseRejected(c) \/ WriteWaiting(c) \/ Enqueue(c)
  <2>1. /\ call'[c].older = call[c].older
        /\ call'[c].pc \in {"admit", "queue", "died", "answered", "enqueue"}
        /\ call'[c].pc \in {"answered", "enqueue"} => call[c].pc \in {"close", "supersede", "enqueue"}
    BY <1>5, <1>7 DEF WriteSnapshot, Admit, CallDies, CloseRejected, WriteWaiting, Enqueue
  <2> QED
    BY <1>1, <1>2, <1>3, <2>1 DEF CallSound
<1>8. CASE Stamp(c)
  <2>1. call'[c].older = call[c].older /\ call'[c].pc = "snapshot"
    BY <1>1, <1>8 DEF Stamp, Calls
  <2> QED
    BY <1>1, <1>3, <2>1 DEF CallSound
<1>9. CASE ReadOlder(c)
  <2>1. /\ call[c].pc = "older" /\ call'[c].pc = "supersede"
        /\ call'[c].older = {<<s, doc[s]>> : s \in {o \in Subs : Supersedes(Target(c), call[c].at, o)}}
    BY <1>1, <1>9 DEF ReadOlder, Calls
  <2>2. \A s \in Subs : Supersedes(Target(c), call[c].at, s) => Exists(s)
    BY DEF Supersedes, Exists, NoDoc
  <2>3. \A x \in call'[c].older : Exists(x[1])' /\ x[2].life # NoDoc
    BY <1>3, <2>1, <2>2 DEF Exists
  <2> QED
    BY <1>1, <1>2, <1>3, <2>1, <2>3 DEF CallSound
<1>10. CASE Supersede(c)
  <2>1. PICK old \in call[c].older :
          call' = [call EXCEPT ![c].pc = "closeOlder", ![c].closing = old[1], ![c].older = @ \ {old}]
    BY <1>10 DEF Supersede
  <2>2. call'[c].pc = "closeOlder" /\ call'[c].closing = old[1] /\ call'[c].older = call[c].older \ {old}
    BY <1>1, <2>1 DEF Calls
  <2>3. Exists(call[c].closing)'
    <3>1. Exists(old[1])'
      BY <1>1, <1>3 DEF CallSound
    <3> QED
      BY <2>2, <3>1 DEF Exists
  <2> QED
    BY <1>1, <1>2, <1>3, <1>10, <2>2, <2>3 DEF CallSound, Supersede
<1>11. CASE CloseOlder(c)
  <2>1. call'[c].pc = "supersede" /\ call'[c].older = call[c].older /\ call[c].pc = "closeOlder"
    BY <1>1, <1>11 DEF CloseOlder, Calls
  <2> QED
    BY <1>1, <1>2, <1>3, <2>1 DEF CallSound
<1> QED
  BY <1>6, <1>7, <1>8, <1>9, <1>10, <1>11 DEF Handler

LEMMA CallsNext ==
  ASSUME Sane, ServiceStep
  PROVE  /\ call' \in [Subs -> Calls] /\ idempotency' \in [Keys -> Subs \cup {0}]
         /\ submittedAt' \in [Subs -> Nat]
         /\ approval' \in [Approvals -> [pc : {"new", "read", "enqueue", "close", "done"},
                                         sub : Subs \cup {0}, copy : Docs]]
         /\ CallsSound'
<1>1. /\ call \in [Subs -> Calls] /\ idempotency \in [Keys -> Subs \cup {0}]
      /\ submittedAt \in [Subs -> Nat] /\ 0 \notin Subs
      /\ approval \in [Approvals -> [pc : {"new", "read", "enqueue", "close", "done"},
                                     sub : Subs \cup {0}, copy : Docs]]
      /\ \A c \in Subs : CallSound(c)
      /\ \A k \in Keys : KeySound(k)
      /\ \A a \in Approvals : ApprovalSound(a)
  BY ControlPlaneAssumption DEF Sane, SubmitTypeOK, CallsSound
<1>2. \A s : Exists(s) => Exists(s)'
  BY DocsKept DEF SubmitNext
<1> DEFINE Goal == /\ call' \in [Subs -> Calls] /\ idempotency' \in [Keys -> Subs \cup {0}]
                   /\ submittedAt' \in [Subs -> Nat]
                   /\ approval' \in [Approvals -> [pc : {"new", "read", "enqueue", "close", "done"},
                                                   sub : Subs \cup {0}, copy : Docs]]
                   /\ CallsSound'
<1>3. ASSUME NEW o \in Subs, call'[o] = call[o],
             call[o].pc # "new" => Target(o)' = Target(o),
             call[o].pc # "new" => Kind(Target(o))' = Kind(Target(o))
      PROVE  CallSound(o)'
  BY <1>1, <1>2, <1>3 DEF CallSound
<1>4. ASSUME UNCHANGED approval
      PROVE  \A a \in Approvals : ApprovalSound(a)'
  BY <1>1, <1>2, <1>4 DEF ApprovalSound
<1>5. ASSUME NEW c \in Subs, Handler(c)
      PROVE  Goal
  <2>1. /\ UNCHANGED <<idempotency, approval>>
        /\ call' = [call EXCEPT ![c] = call'[c]] /\ call'[c] \in Calls
        /\ call'[c].key = call[c].key /\ call'[c].kind = call[c].kind
        /\ call'[c].pc # "new"
        /\ submittedAt' \in [Subs -> Nat]
    BY <1>5, HandlerCalls
  <2>2. \A o \in Subs : call'[o].key = call[o].key /\ call'[o].kind = call[o].kind
    BY <1>1, <2>1
  <2>3. \A o \in Subs : Target(o)' = Target(o)
    BY <2>1, <2>2 DEF Target
  <2>4. \A o \in Subs : call[o].pc # "new" => Kind(Target(o))' = Kind(Target(o))
    BY <1>1, <2>2, <2>3 DEF Kind, CallSound
  <2>5. \A o \in Subs : o # c => call'[o] = call[o]
    BY <1>1, <2>1
  <2>6. \A o \in Subs : CallSound(o)'
    BY <1>3, <1>5, <2>3, <2>4, <2>5, HandlerSound
  <2>7. \A k \in Keys : KeySound(k)'
    BY <1>1, <2>1, <2>2, <2>5 DEF KeySound
  <2> QED
    BY <1>1, <1>4, <2>1, <2>6, <2>7 DEF CallsSound
<1>6. ASSUME NEW a \in Approvals, Approver(a)
      PROVE  Goal
  <2>1. /\ UNCHANGED <<call, idempotency, submittedAt>>
        /\ approval' = [approval EXCEPT ![a] = approval'[a]]
        /\ approval'[a] \in [pc : {"new", "read", "enqueue", "close", "done"},
                             sub : Subs \cup {0}, copy : Docs]
        /\ approval'[a].pc # "new" /\ Exists(approval'[a].sub)
        /\ approval'[a].pc = "read" => approval'[a].copy.life # NoDoc
    BY <1>6, ApproverCalls
  <2>2. \A o \in Subs : CallSound(o)'
    BY <1>3, <2>1 DEF Target, Kind
  <2>3. \A b \in Approvals : ApprovalSound(b)'
    BY <1>1, <1>2, <2>1 DEF ApprovalSound
  <2>4. \A k \in Keys : KeySound(k)'
    BY <1>1, <2>1 DEF KeySound
  <2> QED
    BY <1>1, <2>1, <2>2, <2>3, <2>4 DEF CallsSound
<1>7. ASSUME NEW c \in Subs, Resolve(c)
      PROVE  Goal
  <2>1. PICK k \in Keys, kind \in Kinds, t \in Subs :
           /\ call[c].pc = "new"
           /\ t = IF idempotency[k] = 0 THEN c ELSE idempotency[k]
           /\ idempotency' = [idempotency EXCEPT ![k] = t]
           /\ call' = [call EXCEPT ![c] = call'[c]] /\ call'[c] \in Calls
           /\ call'[c].key = k /\ call'[c].kind = kind /\ call'[c].older = {}
           /\ Target(c)' = t
           /\ \/ call'[c].pc = "refused"
              \/ call'[c].pc = "answered" /\ Exists(t) /\ (t = c \/ kind = Kind(t))
              \/ call'[c].pc = "stamp" /\ ~Exists(t) /\ (t = c \/ kind = Kind(t))
           /\ UNCHANGED <<vars, submittedAt, approval>>
    BY <1>7, ResolveCalls
  <2>2. \A o \in Subs : o # c => call'[o] = call[o]
    BY <1>1, <2>1
  <2>3. \A j \in Keys : idempotency[j] # 0 => idempotency'[j] = idempotency[j] /\ idempotency[j] # c
    BY <1>1, <2>1 DEF KeySound
  <2>4. ASSUME NEW o \in Subs, o # c, call[o].pc # "new"
        PROVE  Target(o)' = Target(o) /\ Kind(Target(o))' = Kind(Target(o))
    <3>1. Target(o) \in Subs /\ call[o].key \in Keys
      BY <1>1, <2>4 DEF CallSound
    <3>2. idempotency'[call[o].key] = Target(o) /\ Target(o) # c
      BY <1>1, <2>3, <3>1 DEF Target
    <3> QED
      BY <2>2, <2>4, <3>1, <3>2 DEF Target, Kind
  <2>5. CallSound(c)'
    <3>1. kind = Kind(t) /\ t # c => Kind(t)' = kind
      BY <2>2 DEF Kind
    <3>2. t = c => Kind(t)' = kind
      BY <2>1 DEF Kind
    <3>3. call'[c].pc # "refused" => Kind(t)' = kind
      BY <2>1, <3>1, <3>2
    <3>4. Exists(t) => Exists(t)'
      BY <1>2
    <3> QED
      BY <2>1, <3>3, <3>4 DEF CallSound
  <2>6. \A o \in Subs : CallSound(o)'
    BY <1>3, <2>2, <2>4, <2>5
  <2>7. ASSUME NEW j \in Keys
        PROVE  KeySound(j)'
    <3>1. CASE idempotency[j] # 0
      BY <1>1, <2>2, <2>3, <3>1 DEF KeySound
    <3>2. CASE idempotency[j] = 0 /\ j = k
      <4>1. idempotency'[j] = c /\ call'[c].pc # "new" /\ call'[c].key = j
        BY <1>1, <2>1, <3>2
      <4> QED
        BY <4>1 DEF KeySound
    <3>3. CASE idempotency[j] = 0 /\ j # k
      BY <1>1, <2>1, <3>3 DEF KeySound
    <3> QED
      BY <3>1, <3>2, <3>3
  <2>8. idempotency' \in [Keys -> Subs \cup {0}] /\ call' \in [Subs -> Calls]
    BY <1>1, <2>1
  <2> QED
    BY <1>1, <1>4, <2>1, <2>6, <2>7, <2>8 DEF CallsSound
<1> QED
  BY <1>5, <1>6, <1>7, ServiceSteps

LEMMA SaneNext == Sane /\ [SubmitNext]_submitVars => Sane'
<1> SUFFICES ASSUME Sane, [SubmitNext]_submitVars PROVE Sane'
  OBVIOUS
<1>1. TypeOK /\ WorkersSound /\ WorkExists /\ Beginnings
  BY DEF Sane, SubmitTypeOK
<1>2. CASE UNCHANGED submitVars
  BY <1>2 DEF submitVars, service, vars, rows, lock, ghost, Sane, SubmitTypeOK, TypeOK, WorkersSound,
     Sound, WorkExists, Exists, Sub, CallsSound, CallSound, KeySound, ApprovalSound, Beginnings,
     Target, Kind
<1>3. CASE ServiceStep
  <2>1. /\ Still
        /\ doc' = doc \/ \E s \in Subs : \E d \in Docs : DocStep(s, d) /\ d.life # NoDoc
        /\ queue' = queue \/ \E s \in Subs : QueueStep(s, Done) \/ QueueStep(s, Open)
        /\ expected' \in [Subs -> Subs \cup {0}]
        /\ faults' \in 0 .. MaxFaults
    BY <1>3, ServiceRows
  <2>2. doc' \in [Subs -> Docs] /\ \A s \in Subs : doc[s].life # NoDoc => doc'[s].life # NoDoc
    BY <1>1, <2>1 DEF TypeOK, DocStep
  <2>3. queue' \in [Subs -> [owner : Workers \cup {NoWorker}, lapsed : BOOLEAN, done : BOOLEAN]]
    BY <1>1, <2>1, Rows DEF TypeOK, QueueStep
  <2>4. TypeOK' /\ WorkersSound' /\ WorkExists'
    BY <1>1, <2>1, <2>2, <2>3, ServiceKeeps DEF Still
  <2>5. Beginnings'
    BY <1>1, <2>1 DEF Still, Beginnings
  <2> QED
    BY <1>3, <2>4, <2>5, CallsNext DEF Sane, SubmitTypeOK
<1>4. CASE WorkersAndOperators /\ UNCHANGED service
  <2>1. TypeOK' /\ WorkersSound' /\ WorkExists'
    <3>1. CASE \E w \in Workers : ClaimOldest(w)
      BY <1>1, <3>1, ClaimOldestTypes
    <3>2. CASE \E w \in Workers : Ordinary(w)
      BY <1>1, <3>2, OrdinarySteps, WorkerSound, WorkerTypes
    <3>3. CASE \/ LockLapses \/ \E s \in Subs : ClaimLapses(s)
               \/ \E q \in Requests : CancelRead(q) \/ CancelWrite(q) \/ CancelMarkDone(q)
      BY <1>1, <3>3, OtherTypes
    <3> QED
      BY <1>4, <3>1, <3>2, <3>3, OthersSteps
  <2>2. \A s : Exists(s) => Exists(s)'
    BY <1>4, DocsKept DEF SubmitNext
  <2>3. UNCHANGED <<call, idempotency, submittedAt, approval>>
    BY <1>4 DEF service
  <2>4. CallsSound'
    BY <2>2, <2>3 DEF Sane, CallsSound, CallSound, KeySound, ApprovalSound, Target, Kind
  <2> QED
    BY <1>4, <2>1, <2>3, <2>4, OthersBegin DEF Sane, SubmitTypeOK
<1> QED
  BY <1>2, <1>3, <1>4 DEF SubmitNext

(* For any number of workers, calls, keys, approvals, cancel requests and  *)
(* faults: every variable of the submission service keeps its type.        *)
THEOREM SubmitTypes == SubmitSpec => []SubmitTypeOK
<1>1. SubmitSpec => []Sane
  BY SaneInit, SaneNext, PTL DEF SubmitSpec
<1>2. Sane => SubmitTypeOK
  BY DEF Sane
<1> QED
  BY <1>1, <1>2, PTL

(* However calls interleave, whatever dies: a call that is answered is     *)
(* answered with a submission that was written, and that has the content   *)
(* the call came with.  The key decides, not the call.                     *)
THEOREM SameSubmission == SubmitSpec => []OneSubmissionPerKey
<1>1. SubmitSpec => []Sane
  BY SaneInit, SaneNext, PTL DEF SubmitSpec
<1>2. Sane => OneSubmissionPerKey
  BY DEF Sane, CallsSound, CallSound, OneSubmissionPerKey, Exists
<1> QED
  BY <1>1, <1>2, PTL

-----------------------------------------------------------------------------
(* Clients that wait for an answer, operators that act on what has been    *)
(* answered: Impatient is FALSE.  A submission in the service's hands is   *)
(* then out of everybody else's.                                           *)
Unclaimed(s) == \A w \in Workers : worker[w].pc # "idle" => Sub(w) # s

Fresh(s) ==
  /\ queue[s] = Done
  /\ Unclaimed(s)
  /\ \A a \in Approvals : approval[a].sub # s
  /\ \A q \in Requests : request[q].sub # s

(* What is true of a call between two of its statements.                   *)
Handling(c) ==
  /\ Handled(c) => Fresh(Target(c))
  /\ call[c].pc \in {"stamp", "snapshot", "admit", "queue"} => doc[Target(c)].life = NoDoc
  /\ call[c].pc \in {"older", "supersede", "closeOlder"}
       => doc[Target(c)].life \in Active \/ doc[Target(c)].reason = "superseded"
  /\ call[c].pc = "close" => doc[Target(c)].life \notin Active
  /\ call[c].pc = "closeOlder" => Kind(call[c].closing) = "deploy"
  /\ call[c].pc \in {"admit", "queue", "older", "supersede", "closeOlder"}
       => submittedAt[Target(c)] = call[c].at
  /\ call[c].pc \in {"supersede", "closeOlder"} => \A x \in call[c].older :
       /\ x[1] # Target(c) /\ Kind(x[1]) = "deploy" /\ Kind(Target(c)) = "deploy"
       /\ submittedAt[x[1]] <= call[c].at

Patience ==
  /\ \A c1, c2 \in Subs : Handled(c1) /\ Handled(c2) /\ Target(c1) = Target(c2) => c1 = c2
  /\ \A c \in Subs : Handling(c)
  /\ \A s \in Subs : doc[s].life = NoDoc => Fresh(s)

(* Which rows a worker touches: those of its submission. *)
LEMMA OrdinaryRows ==
  ASSUME NEW w \in Workers, Ordinary(w)
  PROVE  /\ UNCHANGED request
         /\ UpsertDoc(w) \/ UNCHANGED doc
         /\ \/ UNCHANGED queue
            \/ MarkDone(w)
            \/ /\ Stall(w) /\ worker[w].pc # "idle"
               /\ queue' = [queue EXCEPT ![Sub(w)].lapsed = TRUE]
BY DEF Ordinary, Materialize, Reconcile, AssertClaim, StopWaiting, AcquireLock, AssertPasses,
   AssertFails, UpsertDoc, MarkDone, Revalidate, BeginMutation, MutateReturns, PersistRecord,
   ReleaseLock, Finally, LockRevives, Restart, Crash, Abort, Error, Stall, rows

LEMMA OthersFresh ==
  ASSUME Sane, ~Impatient, WorkersAndOperators, NEW s \in Subs, Fresh(s),
         InHand(s) \/ doc[s].life = NoDoc, UNCHANGED approval
  PROVE  Fresh(s)' /\ doc'[s] = doc[s]
<1>1. TypeOK /\ WorkersSound /\ WorkExists /\ worker \in [Workers -> Processes]
      /\ doc \in [Subs -> Docs] /\ NoWorker \notin Workers
      /\ queue \in [Subs -> [owner : Workers \cup {NoWorker}, lapsed : BOOLEAN, done : BOOLEAN]]
      /\ request \in [Requests -> [pc : {"new", "read", "written", "done"},
                                   sub : Subs \cup {0}, copy : Docs]]
  BY ControlPlaneAssumption DEF Sane, SubmitTypeOK, TypeOK
<1>2. queue[s] = Done /\ Unclaimed(s) /\ \A q \in Requests : request[q].sub # s
  BY DEF Fresh
<1>3. SUFFICES /\ queue'[s] = Done /\ doc'[s] = doc[s]
               /\ \A w \in Workers : worker'[w].pc # "idle" => worker'[w].sub # s
               /\ \A q \in Requests : request'[q].sub # s
  BY DEF Fresh, Unclaimed, Sub, Done
<1>4. ASSUME NEW w \in Workers, ClaimOldest(w)
      PROVE  /\ queue'[s] = Done /\ doc'[s] = doc[s]
             /\ \A v \in Workers : worker'[v].pc # "idle" => worker'[v].sub # s
             /\ \A q \in Requests : request'[q].sub # s
  <2>1. PICK o \in Subs, goal \in {"recover", "execute"} :
             /\ Claimable(o)
             /\ queue' = [queue EXCEPT ![o].owner = w, ![o].lapsed = FALSE]
             /\ worker' = [worker EXCEPT ![w].pc = "materialize", ![w].sub = o, ![w].goal = goal]
    BY <1>4 DEF ClaimOldest
  <2>2. o # s
    BY <1>2, <2>1 DEF Claimable, Done
  <2>3. worker'[w].sub = o /\ \A v \in Workers : v # w => worker'[v] = worker[v]
    BY <1>1, <2>1 DEF Processes
  <2>4. queue'[s] = queue[s]
    BY <1>1, <2>1, <2>2
  <2> QED
    BY <1>2, <1>4, <2>2, <2>3, <2>4 DEF ClaimOldest, Unclaimed, Sub
<1>5. ASSUME NEW w \in Workers, Ordinary(w)
      PROVE  /\ queue'[s] = Done /\ doc'[s] = doc[s]
             /\ \A v \in Workers : worker'[v].pc # "idle" => worker'[v].sub # s
             /\ \A q \in Requests : request'[q].sub # s
  <2>1. \A v \in Workers : worker'[v].pc # "idle" => worker'[v].sub # s
    BY <1>1, <1>2, <1>5, SubKept DEF Unclaimed, Sub
  <2>2. doc'[s] = doc[s]
    BY <1>1, <1>2, <1>5, OrdinaryRows DEF UpsertDoc, Unclaimed
  <2>3. queue'[s] = Done
    BY <1>1, <1>2, <1>5, OrdinaryRows DEF MarkDone, Unclaimed
  <2> QED
    BY <1>2, <1>5, <2>1, <2>2, <2>3, OrdinaryRows
<1>6. ASSUME LockLapses \/ \E o \in Subs : ClaimLapses(o)
      PROVE  /\ queue'[s] = Done /\ doc'[s] = doc[s]
             /\ \A v \in Workers : worker'[v].pc # "idle" => worker'[v].sub # s
             /\ \A q \in Requests : request'[q].sub # s
  <2>1. UNCHANGED <<doc, worker, request>>
    BY <1>6 DEF LockLapses, ClaimLapses, rows
  <2>2. queue'[s] = queue[s]
    <3>1. CASE LockLapses
      BY <3>1 DEF LockLapses, rows
    <3>2. ASSUME NEW o \in Subs, ClaimLapses(o)
          PROVE  queue'[s] = queue[s]
      <4>1. o # s
        BY <1>1, <1>2, <3>2 DEF ClaimLapses, Done
      <4>2. queue' = [queue EXCEPT ![o].lapsed = TRUE]
        BY <3>2 DEF ClaimLapses
      <4> QED
        BY <1>1, <4>1, <4>2
    <3> QED
      BY <1>6, <3>1, <3>2
  <2> QED
    BY <1>2, <2>1, <2>2 DEF Unclaimed, Sub
<1>7. ASSUME NEW q \in Requests, CancelRead(q), Known(request'[q].sub)
      PROVE  /\ queue'[s] = Done /\ doc'[s] = doc[s]
             /\ \A v \in Workers : worker'[v].pc # "idle" => worker'[v].sub # s
             /\ \A r \in Requests : request'[r].sub # s
  <2>1. UNCHANGED <<doc, queue, worker>>
    BY <1>7 DEF CancelRead, rows
  <2>2. request'[q].sub # s
    BY <1>7 DEF Known, Submitted
  <2>3. \A r \in Requests : r # q => request'[r] = request[r]
    BY <1>1, <1>7 DEF CancelRead
  <2> QED
    BY <1>2, <2>1, <2>2, <2>3 DEF Unclaimed, Sub
<1>8. ASSUME NEW q \in Requests, CancelWrite(q) \/ CancelMarkDone(q)
      PROVE  /\ queue'[s] = Done /\ doc'[s] = doc[s]
             /\ \A v \in Workers : worker'[v].pc # "idle" => worker'[v].sub # s
             /\ \A r \in Requests : request'[r].sub # s
  <2>1. \A r \in Requests : request'[r].sub = request[r].sub
    <3>1. CASE CancelWrite(q)
      BY <1>1, <3>1 DEF CancelWrite
    <3>2. CASE CancelMarkDone(q)
      BY <1>1, <3>2 DEF CancelMarkDone
    <3> QED
      BY <1>8, <3>1, <3>2
  <2>2. queue'[s] = queue[s] /\ doc'[s] = doc[s] /\ worker' = worker
    BY <1>1, <1>2, <1>8 DEF CancelWrite, CancelMarkDone
  <2> QED
    BY <1>2, <2>1, <2>2 DEF Unclaimed, Sub
<1> QED
  BY <1>4, <1>5, <1>6, <1>7, <1>8 DEF WorkersAndOperators, SubmitWorkerStep, Ordinary

(* What the handler of a call writes: the rows of its own submission, and  *)
(* of those it supersedes.                                                 *)
LEMMA HandlerRows ==
  ASSUME Sane, NEW c \in Subs, Handler(c)
  PROVE  /\ Still /\ Handled(c)
         /\ \A s \in Subs : queue'[s] = queue[s] \/ queue'[s] = Done \/ (s = Target(c) /\ Enqueue(c))
         /\ \A s \in Subs : \/ doc'[s] = doc[s]
                            \/ s = Target(c) /\ (WriteQueued(c) \/ WriteWaiting(c) \/ AdmissionFails(c))
                            \/ /\ Supersede(c) /\ doc'[s].reason = "superseded"
                               /\ doc'[s].life = "finished" /\ \E x \in call[c].older : x[1] = s
         /\ WriteQueued(c) \/ WriteWaiting(c) \/ AdmissionFails(c)
              => doc'[Target(c)] \in Docs /\ doc'[Target(c)].reason \in {"none", "no_longer_admitted"}
         /\ WriteQueued(c) => doc'[Target(c)].life = "queued"
         /\ AdmissionFails(c) => doc'[Target(c)].life \in {"pending_approval", "finished"}
         /\ \A s \in Subs : submittedAt'[s] = submittedAt[s] \/ (s = Target(c) /\ WriteSnapshot(c))
         /\ WriteSnapshot(c) => submittedAt'[Target(c)] = call[c].at
<1>1. /\ call \in [Subs -> Calls] /\ doc \in [Subs -> Docs] /\ CallSound(c)
      /\ queue \in [Subs -> [owner : Workers \cup {NoWorker}, lapsed : BOOLEAN, done : BOOLEAN]]
      /\ submittedAt \in [Subs -> Nat]
  BY DEF Sane, SubmitTypeOK, TypeOK, CallsSound
<1>2. Still
  BY ServiceRows DEF ServiceStep, Handler
<1>3. Handled(c)
  BY DEF Handled, Over, Handler, Stamp, WriteSnapshot, Admit, AdmissionFails, CloseRejected, WriteQueued,
     ReadOlder, Supersede, CloseOlder, WriteWaiting, Enqueue, CallDies
<1>4. Target(c) \in Subs
  BY <1>1, <1>3 DEF CallSound, Handled
<1>5. \A s \in Subs : queue'[s] = queue[s] \/ queue'[s] = Done \/ (s = Target(c) /\ Enqueue(c))
  <2>1. CASE CloseRejected(c) \/ CloseOlder(c) \/ Enqueue(c)
    BY <1>1, <1>4, <2>1 DEF CloseRejected, CloseOlder, Enqueue
  <2>2. CASE ~(CloseRejected(c) \/ CloseOlder(c) \/ Enqueue(c))
    BY <2>2 DEF Handler, Stamp, WriteSnapshot, Admit, AdmissionFails, WriteQueued, ReadOlder, Supersede,
       WriteWaiting, CallDies, vars, rows
  <2> QED
    BY <2>1, <2>2
<1>6. ASSUME WriteQueued(c) \/ WriteWaiting(c) \/ AdmissionFails(c)
      PROVE  /\ doc' = [doc EXCEPT ![Target(c)] = doc'[Target(c)]]
             /\ doc'[Target(c)] \in Docs /\ doc'[Target(c)].reason \in {"none", "no_longer_admitted"}
             /\ WriteQueued(c) => doc'[Target(c)].life = "queued"
             /\ AdmissionFails(c) => doc'[Target(c)].life \in {"pending_approval", "finished"}
  <2>1. PICK d \in {[Blank EXCEPT !.life = "pending_approval"], [Blank EXCEPT !.life = "queued"],
                    [Blank EXCEPT !.life = "waiting_for_lock"],
                    [Blank EXCEPT !.life = "finished", !.reason = "no_longer_admitted"]} :
             /\ DocStep(Target(c), d)
             /\ WriteQueued(c) => d = [Blank EXCEPT !.life = "queued"]
             /\ AdmissionFails(c) =>
                  d \in {[Blank EXCEPT !.life = "pending_approval"],
                         [Blank EXCEPT !.life = "finished", !.reason = "no_longer_admitted"]}
    BY <1>6 DEF WriteQueued, WriteWaiting, AdmissionFails, DocStep
  <2>2. /\ [Blank EXCEPT !.life = "queued"].life = "queued"
        /\ [Blank EXCEPT !.life = "pending_approval"].life = "pending_approval"
        /\ [Blank EXCEPT !.life = "finished", !.reason = "no_longer_admitted"].life = "finished"
    BY DEF Blank
  <2>3. WriteQueued(c) => d.life = "queued"
    BY <2>1, <2>2
  <2>4. AdmissionFails(c) => d.life \in {"pending_approval", "finished"}
    BY <2>1, <2>2
  <2>5. d \in Docs /\ d.reason \in {"none", "no_longer_admitted"}
    BY <2>1, BlankDoc, ServiceDocs
  <2>6. doc'[Target(c)] = d
    BY <1>1, <1>4, <2>1 DEF DocStep
  <2> QED
    BY <2>1, <2>3, <2>4, <2>5, <2>6 DEF DocStep
<1>7. ASSUME Supersede(c), NEW s \in Subs
      PROVE  \/ doc'[s] = doc[s]
             \/ /\ doc'[s].reason = "superseded" /\ doc'[s].life = "finished"
                /\ \E x \in call[c].older : x[1] = s
  <2>1. PICK old \in call[c].older :
               DocStep(old[1], [old[2] EXCEPT !.life = "finished", !.reason = "superseded"])
    BY <1>7 DEF Supersede, DocStep
  <2>2. old[1] \in Subs /\ old[2] \in Docs
    BY <1>1 DEF Calls
  <2>3. [old[2] EXCEPT !.life = "finished", !.reason = "superseded"]
          \in {e \in Docs : e.life = "finished" /\ e.reason = "superseded"}
    BY <2>2, ServiceDocs
  <2> QED
    BY <1>1, <2>1, <2>2, <2>3 DEF DocStep
<1>8. \A s \in Subs : \/ doc'[s] = doc[s]
                      \/ s = Target(c) /\ (WriteQueued(c) \/ WriteWaiting(c) \/ AdmissionFails(c))
                      \/ /\ Supersede(c) /\ doc'[s].reason = "superseded"
                         /\ doc'[s].life = "finished" /\ \E x \in call[c].older : x[1] = s
  <2>1. CASE WriteQueued(c) \/ WriteWaiting(c) \/ AdmissionFails(c)
    BY <1>1, <1>4, <1>6, <2>1
  <2>2. CASE Supersede(c)
    BY <1>7, <2>2
  <2>3. CASE ~(WriteQueued(c) \/ WriteWaiting(c) \/ AdmissionFails(c) \/ Supersede(c))
    BY <2>3 DEF Handler, Stamp, WriteSnapshot, Admit, CloseRejected, ReadOlder, CloseOlder, Enqueue,
       CallDies, vars, rows
  <2> QED
    BY <2>1, <2>2, <2>3
<1>9. CASE WriteSnapshot(c)
  BY <1>1, <1>2, <1>3, <1>4, <1>5, <1>6, <1>8, <1>9 DEF WriteSnapshot
<1>10. CASE ~WriteSnapshot(c)
  <2>1. submittedAt' = submittedAt
    BY <1>10 DEF Handler, Stamp, Admit, AdmissionFails, CloseRejected, WriteQueued, ReadOlder, Supersede,
       CloseOlder, WriteWaiting, Enqueue, CallDies
  <2> QED
    BY <1>2, <1>3, <1>5, <1>6, <1>8, <1>10, <2>1
<1> QED
  BY <1>9, <1>10

LEMMA HandlerPatience ==
  ASSUME Sane, Patience, NEW c \in Subs, Handler(c)
  PROVE  Patience'
<1>1. /\ call \in [Subs -> Calls] /\ doc \in [Subs -> Docs] /\ submittedAt \in [Subs -> Nat]
      /\ \A o \in Subs : CallSound(o)
  BY DEF Sane, SubmitTypeOK, TypeOK, CallsSound
<1>2. /\ UNCHANGED <<idempotency, approval>>
      /\ call' = [call EXCEPT ![c] = call'[c]] /\ call'[c] \in Calls
      /\ call'[c].key = call[c].key /\ call'[c].kind = call[c].kind
      /\ call[c].pc # "new" /\ call'[c].pc \notin {"new", "refused"}
  BY HandlerCalls
<1>3. /\ \A o \in Subs : Target(o)' = Target(o) /\ call'[o].kind = call[o].kind
      /\ \A o \in Subs : o # c => call'[o] = call[o]
      /\ \A o \in Subs : call[o].pc # "new" => Target(o) \in Subs
      /\ \A s \in Subs : Kind(s)' = Kind(s)
  BY <1>1, <1>2 DEF Target, CallSound, Kind
<1> PICK T \in Subs : T = Target(c)
  BY <1>2, <1>3
<1>4. /\ Handled(c) /\ UNCHANGED <<worker, request>>
      /\ \A o \in Subs : Handled(o)' => Handled(o)
      /\ \A o \in Subs : Handled(o) /\ o # c => Target(o) # T
  <2>1. Handled(c) /\ UNCHANGED <<worker, request>>
    BY HandlerRows DEF Still
  <2> QED
    BY <1>3, <2>1 DEF Handled, Over, Patience
<1>5. \A s : Exists(s) => Exists(s)'
  BY DocsKept DEF SubmitNext, ServiceStep, Handler
<1>6. ASSUME NEW s \in Subs, Fresh(s), s # T \/ ~Enqueue(c)
      PROVE  Fresh(s)'
  <2>1. queue'[s] = Done
    BY <1>6, HandlerRows DEF Fresh
  <2> QED
    BY <1>2, <1>4, <1>6, <2>1 DEF Fresh, Unclaimed, Sub, Done
<1>7. ASSUME NEW s \in Subs, doc'[s].life = NoDoc
      PROVE  Fresh(s)'
  <2>1. doc[s].life = NoDoc /\ Fresh(s)
    BY <1>5, <1>7 DEF Exists, Patience
  <2>2. s # T \/ ~Enqueue(c)
    BY <1>1, <2>1 DEF Enqueue, CallSound, Exists
  <2> QED
    BY <1>6, <2>1, <2>2
<1>8. ASSUME NEW o \in Subs, NEW x \in call[o].older
      PROVE  x[1] \in Subs /\ submittedAt'[x[1]] = submittedAt[x[1]]
  <2>1. Exists(x[1])
    BY <1>1 DEF CallSound
  <2>2. WriteSnapshot(c) => doc[T].life = NoDoc
    BY DEF WriteSnapshot, Patience, Handling
  <2> QED
    BY <2>1, <2>2, HandlerRows DEF Exists
<1>9. ASSUME NEW o \in Subs, o # c
      PROVE  Handling(o)'
  <2>1. /\ call'[o] = call[o] /\ Target(o)' = Target(o) /\ Handling(o)
        /\ Handled(o) => Target(o) # T /\ Target(o) \in Subs
        /\ Handled(o)' => Handled(o)
    BY <1>3, <1>4, <1>9 DEF Patience, Handled
  <2>2. CASE Handled(o)
    <3>1. Fresh(Target(o))'
      BY <1>6, <2>1, <2>2 DEF Handling
    <3>2. submittedAt'[Target(o)] = submittedAt[Target(o)]
      BY <2>1, <2>2, HandlerRows
    <3>3. call[o].pc \in {"stamp", "snapshot", "admit", "queue"} => doc'[Target(o)].life = NoDoc
      <4>1. doc[Target(o)].life = NoDoc => doc'[Target(o)] = doc[Target(o)]
        BY <1>1, <2>1, <2>2, HandlerRows DEF CallSound, Exists
      <4> QED
        BY <2>1, <4>1 DEF Handling
    <3>4. call[o].pc \in {"older", "supersede", "closeOlder"}
            => doc'[Target(o)].life \in Active \/ doc'[Target(o)].reason = "superseded"
      BY <2>1, <2>2, HandlerRows DEF Handling
    <3>6. call[o].pc = "close" => doc'[Target(o)].life \notin Active
      <4>1. doc'[Target(o)] = doc[Target(o)] \/ doc'[Target(o)].life = "finished"
        BY <2>1, <2>2, HandlerRows
      <4> QED
        BY <2>1, <4>1 DEF Handling, Active
    <3>7. call[o].pc = "closeOlder" => call'[call[o].closing].kind = "deploy"
      <4>1. call[o].pc = "closeOlder" => call[o].closing \in Subs /\ call[call[o].closing].kind = "deploy"
        BY <1>1, <2>1 DEF Handling, Kind, CallSound, Exists
      <4> QED
        BY <1>3, <4>1
    <3>5. call[o].pc \in {"supersede", "closeOlder"} => \A x \in call[o].older :
            /\ x[1] # Target(o) /\ Kind(x[1])' = "deploy" /\ Kind(Target(o))' = "deploy"
            /\ submittedAt'[x[1]] <= call[o].at
      BY <1>3, <1>8, <2>1, <2>2 DEF Handling
    <3> QED
      BY <2>1, <2>2, <3>1, <3>2, <3>3, <3>4, <3>5, <3>6, <3>7 DEF Handling, Kind
  <2>3. CASE ~Handled(o)
    BY <2>1, <2>3 DEF Handling, Handled, Over
  <2> QED
    BY <2>2, <2>3
<1>10. Handling(c)'
  <2>1. /\ T \in Subs /\ Handling(c) /\ Fresh(T) /\ Target(c)' = T /\ submittedAt[T] \in Nat
        /\ call[c].at \in Nat
    BY <1>1, <1>2, <1>3, <1>4 DEF Patience, Handling, Calls
  <2>2. Handled(c)' => Fresh(T)'
    <3>1. Enqueue(c) => ~Handled(c)'
      BY <1>1 DEF Enqueue, CallTo, Handled, Over, Calls
    <3> QED
      BY <1>6, <2>1, <3>1
  <2>3. ASSUME NEW pc, CallTo(c, pc)
        PROVE  call'[c].pc = pc /\ call'[c].older = call[c].older /\ call'[c].at = call[c].at
    BY <1>1, <2>3 DEF CallTo, Calls
  <2>4. ~Supersede(c) /\ ~WriteQueued(c) /\ ~WriteWaiting(c) /\ ~AdmissionFails(c) => doc'[T] = doc[T]
    BY <2>1, HandlerRows
  <2>5. ~WriteSnapshot(c) => submittedAt'[T] = submittedAt[T]
    BY <2>1, HandlerRows
  <2>6. CASE WriteSnapshot(c) \/ Admit(c)
    <3>1. /\ call'[c].pc \in {"admit", "queue"} /\ call'[c].at = call[c].at
          /\ call[c].pc \in {"snapshot", "admit"}
      BY <2>3, <2>6 DEF WriteSnapshot, Admit
    <3>2. doc'[T] = doc[T]
      BY <2>4, <2>6 DEF WriteSnapshot, Admit, Supersede, WriteQueued, WriteWaiting, AdmissionFails, vars, rows
    <3>3. submittedAt'[T] = call[c].at
      <4>1. CASE WriteSnapshot(c)
        BY <4>1, HandlerRows
      <4>2. CASE Admit(c) /\ ~WriteSnapshot(c)
        BY <2>1, <2>5, <4>2 DEF Admit, Handling
      <4> QED
        BY <2>6, <4>1, <4>2
    <3> QED
      BY <2>1, <2>2, <3>1, <3>2, <3>3 DEF Handling
  <2>7. CASE Stamp(c)
    <3>1. call'[c].pc = "snapshot" /\ call[c].pc = "stamp" /\ doc' = doc
      BY <1>1, <2>7 DEF Stamp, Calls, vars, rows
    <3> QED
      BY <2>1, <2>2, <3>1 DEF Handling
  <2>8. CASE WriteQueued(c)
    <3>1. call'[c].pc = "older" /\ call'[c].at = call[c].at /\ call[c].pc = "queue"
          /\ submittedAt' = submittedAt
      BY <2>3, <2>8 DEF WriteQueued
    <3>2. doc'[T].life \in Active
      BY <2>8, HandlerRows DEF Active
    <3> QED
      BY <2>1, <2>2, <3>1, <3>2 DEF Handling
  <2>9. CASE ReadOlder(c)
    <3>1. /\ call[c].pc = "older" /\ call'[c].pc = "supersede" /\ call'[c].at = call[c].at
          /\ call'[c].older = {<<s, doc[s]>> : s \in {o \in Subs : Supersedes(Target(c), call[c].at, o)}}
          /\ doc' = doc /\ submittedAt' = submittedAt
      BY <1>1, <2>9 DEF ReadOlder, Calls, vars, rows
    <3>2. \A s \in Subs : Supersedes(T, call[c].at, s) =>
            s # T /\ Kind(s) = "deploy" /\ Kind(T) = "deploy" /\ submittedAt[s] <= call[c].at
      BY <1>1, <2>1 DEF Supersedes
    <3>3. \A x \in call'[c].older :
            x[1] # T /\ call'[x[1]].kind = "deploy" /\ call'[T].kind = "deploy" /\ submittedAt'[x[1]] <= call'[c].at
      BY <1>3, <2>1, <3>1, <3>2 DEF Kind
    <3> QED
      BY <2>1, <2>2, <3>1, <3>3 DEF Handling, Kind
  <2>10. CASE Supersede(c)
    <3>1. PICK old \in call[c].older :
            call' = [call EXCEPT ![c].pc = "closeOlder", ![c].closing = old[1], ![c].older = @ \ {old}]
      BY <2>10 DEF Supersede
    <3>2. /\ call'[c].pc = "closeOlder" /\ call'[c].at = call[c].at /\ call[c].pc = "supersede"
          /\ call'[c].older = call[c].older \ {old} /\ submittedAt' = submittedAt
          /\ call'[c].closing = old[1]
      BY <1>1, <2>10, <3>1 DEF Supersede, Calls
    <3>5. call'[old[1]].kind = "deploy"
      <4>1. call[c].pc = "supersede" /\ old[1] \in Subs
        BY <1>1, <3>2 DEF CallSound, Exists
      <4>2. call[old[1]].kind = "deploy"
        BY <2>1, <4>1 DEF Handling, Kind
      <4> QED
        BY <1>3, <4>1, <4>2
    <3>3. doc'[T] = doc[T]
      <4>1. ~WriteQueued(c) /\ ~WriteWaiting(c) /\ ~AdmissionFails(c)
        BY <2>10 DEF WriteQueued, WriteWaiting, AdmissionFails, Supersede
      <4>2. \A x \in call[c].older : x[1] # T
        BY <2>1, <3>2 DEF Handling
      <4> QED
        BY <4>1, <4>2, HandlerRows
    <3>4. \A x \in call'[c].older : /\ x[1] # T /\ call'[x[1]].kind = "deploy" /\ call'[T].kind = "deploy"
                                    /\ submittedAt'[x[1]] <= call'[c].at
      BY <1>3, <1>8, <2>1, <3>2 DEF Handling, Kind
    <3> QED
      BY <2>1, <2>2, <3>2, <3>3, <3>4, <3>5 DEF Handling, Kind
  <2>11. CASE CloseOlder(c)
    <3>1. /\ call'[c].pc = "supersede" /\ call'[c].at = call[c].at /\ call[c].pc = "closeOlder"
          /\ call'[c].older = call[c].older /\ submittedAt' = submittedAt /\ doc' = doc
      BY <1>1, <2>11 DEF CloseOlder, Calls
    <3>2. \A x \in call'[c].older : /\ x[1] # T /\ call'[x[1]].kind = "deploy" /\ call'[T].kind = "deploy"
                                    /\ submittedAt'[x[1]] <= call'[c].at
      BY <1>3, <1>8, <2>1, <3>1 DEF Handling, Kind
    <3> QED
      BY <2>1, <2>2, <3>1, <3>2 DEF Handling, Kind
  <2>12. CASE CallDies(c) \/ CloseRejected(c) \/ WriteWaiting(c) \/ Enqueue(c) \/ AdmissionFails(c)
    <3>1. call'[c].pc \in {"died", "answered", "enqueue", "close"}
      BY <2>3, <2>12 DEF CallDies, CloseRejected, WriteWaiting, Enqueue, AdmissionFails
    <3>2. call'[c].pc = "close" => doc'[T].life \notin Active
      <4>1. AdmissionFails(c) \/ call'[c].pc # "close"
        BY <2>3, <2>12 DEF CallDies, CloseRejected, WriteWaiting, Enqueue
      <4> QED
        BY <4>1, HandlerRows DEF Active
    <3> QED
      BY <2>1, <2>2, <3>1, <3>2 DEF Handling
  <2> QED
    BY <2>6, <2>7, <2>8, <2>9, <2>10, <2>11, <2>12 DEF Handler
<1>11. ASSUME NEW c1 \in Subs, NEW c2 \in Subs, Handled(c1)', Handled(c2)', Target(c1)' = Target(c2)'
       PROVE  c1 = c2
  BY <1>3, <1>4, <1>11 DEF Patience
<1> QED
  BY <1>7, <1>9, <1>10, <1>11 DEF Patience

(* An approval is of a submission that is in nobody's hands. *)
LEMMA ApproverFresh ==
  ASSUME Sane, ~Impatient, NEW a \in Approvals, Approver(a), NEW s \in Subs, Fresh(s),
         InHand(s) \/ doc[s].life = NoDoc
  PROVE  Fresh(s)' /\ doc'[s] = doc[s]
<1>1. /\ approval \in [Approvals -> [pc : {"new", "read", "enqueue", "close", "done"},
                                     sub : Subs \cup {0}, copy : Docs]]
      /\ doc \in [Subs -> Docs]
      /\ queue \in [Subs -> [owner : Workers \cup {NoWorker}, lapsed : BOOLEAN, done : BOOLEAN]]
      /\ Still
  BY ServiceRows DEF Sane, SubmitTypeOK, TypeOK, ServiceStep, Approver
<1>2. /\ approval' = [approval EXCEPT ![a] = approval'[a]]
      /\ approval[a].pc # "new" => approval'[a].sub = approval[a].sub
  BY ApproverCalls
<1>3. approval[a].sub # s
  BY DEF Fresh
<1>4. approval'[a].sub # s
  <2>1. CASE ApproveRead(a)
    BY <1>1, <2>1 DEF ApproveRead, Known, Submitted
  <2>2. CASE ~ApproveRead(a)
    BY <1>2, <1>3, <2>2 DEF Approver, ApproveWrite, ApproveQueue
  <2> QED
    BY <2>1, <2>2
<1>5. doc'[s] = doc[s] /\ queue'[s] = queue[s]
  BY <1>1, <1>3 DEF Approver, ApproveRead, ApproveWrite, ApproveQueue, vars, rows
<1>6. \A b \in Approvals : approval'[b].sub # s
  BY <1>1, <1>2, <1>4 DEF Fresh
<1> QED
  BY <1>1, <1>5, <1>6 DEF Fresh, Unclaimed, Sub, Still, Done

(* A call that comes in waits for nobody, nor does anybody for it. *)
LEMMA ResolvePatience ==
  ASSUME Sane, ~Impatient, Patience, NEW c \in Subs, Resolve(c)
  PROVE  Patience'
<1>1. PICK k \in Keys, kind \in Kinds, t \in Subs :
           /\ Arrives(c, k) /\ call[c].pc = "new"
           /\ t = IF idempotency[k] = 0 THEN c ELSE idempotency[k]
           /\ idempotency' = [idempotency EXCEPT ![k] = t]
           /\ call' = [call EXCEPT ![c] = call'[c]] /\ call'[c] \in Calls
           /\ call'[c].key = k /\ call'[c].kind = kind /\ call'[c].older = {}
           /\ Target(c)' = t
           /\ \/ call'[c].pc = "refused"
              \/ call'[c].pc = "answered" /\ Exists(t) /\ (t = c \/ kind = Kind(t))
              \/ call'[c].pc = "stamp" /\ ~Exists(t) /\ (t = c \/ kind = Kind(t))
           /\ UNCHANGED <<vars, submittedAt, approval>>
  BY ResolveCalls
<1>2. /\ call \in [Subs -> Calls] /\ idempotency \in [Keys -> Subs \cup {0}] /\ 0 \notin Subs
      /\ \A o \in Subs : CallSound(o)
      /\ \A j \in Keys : KeySound(j)
  BY ControlPlaneAssumption DEF Sane, SubmitTypeOK, CallsSound
<1>3. UNCHANGED <<doc, queue, worker, request, approval, submittedAt>>
  BY <1>1 DEF vars, rows
<1>4. \A s \in Subs : Fresh(s)' = Fresh(s)
  BY <1>3 DEF Fresh, Unclaimed, Sub, Done
<1>5. \A o \in Subs : o # c => call'[o] = call[o]
  BY <1>1, <1>2
<1>6. \A j \in Keys : idempotency[j] # 0 => idempotency'[j] = idempotency[j] /\ idempotency[j] # c
  BY <1>1, <1>2 DEF KeySound
<1>7. ASSUME NEW o \in Subs, o # c, call[o].pc # "new"
      PROVE  Target(o)' = Target(o) /\ Target(o) \in Subs \ {c} /\ call[Target(o)].key = call[o].key
  <2>1. Target(o) \in Subs /\ call[o].key \in Keys /\ KeySound(call[o].key)
    BY <1>2, <1>7 DEF CallSound
  <2>2. idempotency'[call[o].key] = Target(o) /\ Target(o) # c
    BY <1>2, <1>6, <2>1 DEF Target
  <2> QED
    BY <1>2, <1>5, <1>7, <2>1, <2>2 DEF Target, KeySound
<1>8. ASSUME NEW o \in Subs, o # c, Handled(o)
      PROVE  Target(o) # t
  <2>1. Target(o) \in Subs \ {c} /\ call[Target(o)].key = call[o].key /\ call[o].key # k
    BY <1>1, <1>7, <1>8 DEF Handled, Arrives
  <2>2. t # c => call[t].key = k
    BY <1>1, <1>2 DEF KeySound
  <2> QED
    BY <2>1, <2>2
<1>9. ASSUME NEW s \in Subs, call[s].pc # "new"
      PROVE  call'[s].kind = call[s].kind
  BY <1>1, <1>5, <1>9
<1>10. ASSUME NEW o \in Subs, o # c
       PROVE  Handling(o)'
  <2>1. call'[o] = call[o] /\ Handling(o) /\ CallSound(o)
    BY <1>2, <1>5, <1>10 DEF Patience
  <2>2. CASE Handled(o)
    <3>1. PICK T \in Subs : T = Target(o) /\ T = Target(o)' /\ call[T].kind \in Kinds
      <4>1. Target(o) = Target(o)' /\ Target(o) \in Subs /\ call[o].kind \in Kinds
            /\ Kind(Target(o)) = call[o].kind
        BY <1>7, <1>10, <2>1, <2>2 DEF Handled, CallSound, Over
      <4> QED
        BY <4>1 DEF Kind
    <3>2. call[o].pc \in {"supersede", "closeOlder"} => \A x \in call[o].older :
            /\ x[1] # T /\ call'[x[1]].kind = "deploy" /\ call'[T].kind = "deploy"
            /\ submittedAt[x[1]] <= call[o].at
      <4> SUFFICES ASSUME call[o].pc \in {"supersede", "closeOlder"}, NEW x \in call[o].older
                   PROVE  /\ x[1] # T /\ call'[x[1]].kind = "deploy" /\ call'[T].kind = "deploy"
                          /\ submittedAt[x[1]] <= call[o].at
        OBVIOUS
      <4>1. /\ x[1] # T /\ call[x[1]].kind = "deploy" /\ call[T].kind = "deploy"
            /\ submittedAt[x[1]] <= call[o].at
        BY <2>1, <3>1 DEF Handling, Kind
      <4>2. x[1] \in Subs /\ call[x[1]].pc # "new" /\ call[T].pc # "new"
        BY <1>2, <2>1, <3>1, <4>1 DEF CallSound, Exists
      <4> QED
        BY <1>9, <4>1, <4>2
    <3>3. call[o].pc = "closeOlder" => call'[call[o].closing].kind = "deploy"
      <4>1. call[o].pc = "closeOlder" => call[call[o].closing].kind = "deploy"
                                         /\ call[o].closing \in Subs
        BY <2>1 DEF Handling, Kind, CallSound, Exists
      <4>2. \A r \in Subs : call[r].kind = "deploy" => call[r].pc # "new"
        BY <1>2 DEF CallSound
      <4> QED
        BY <1>9, <4>1, <4>2
    <3> QED
      BY <1>3, <1>4, <2>1, <3>1, <3>2, <3>3 DEF Handling, Kind, Handled, Over
  <2>3. CASE ~Handled(o)
    BY <2>1, <2>3 DEF Handling, Handled, Over
  <2> QED
    BY <2>2, <2>3
<1>11. Handling(c)'
  <2>1. CASE call'[c].pc = "stamp"
    <3>1. doc[t].life = NoDoc /\ Fresh(t)
      BY <1>1, <2>1 DEF Exists, Patience
    <3>2. doc'[t].life = NoDoc /\ Fresh(t)'
      BY <1>3, <1>4, <3>1
    <3> QED
      BY <1>1, <2>1, <3>2 DEF Handling
  <2>2. CASE call'[c].pc # "stamp"
    BY <1>1, <2>2 DEF Handling, Handled, Over
  <2> QED
    BY <2>1, <2>2
<1>12. ASSUME NEW c1 \in Subs, NEW c2 \in Subs, Handled(c1)', Handled(c2)', Target(c1)' = Target(c2)'
       PROVE  c1 = c2
  <2>1. \A o \in Subs : o # c /\ Handled(o)' => Handled(o) /\ Target(o)' = Target(o) /\ Target(o) # t
    BY <1>5, <1>7, <1>8 DEF Handled, Over
  <2> QED
    BY <1>1, <1>12, <2>1 DEF Patience
<1> QED
  BY <1>3, <1>4, <1>10, <1>11, <1>12 DEF Patience

LEMMA PatienceNext ==
  ASSUME ~Impatient, Sane, Patience, [SubmitNext]_submitVars
  PROVE  Patience'
<1>1. ASSUME UNCHANGED <<call, idempotency, submittedAt>>,
             \A s : Exists(s) => Exists(s)',
             \A s \in Subs : Fresh(s) /\ (InHand(s) \/ doc[s].life = NoDoc) => Fresh(s)' /\ doc'[s] = doc[s]
      PROVE  Patience'
  <2>1. \A o : Target(o)' = Target(o) /\ Handled(o)' = Handled(o) /\ Kind(o)' = Kind(o)
    BY <1>1 DEF Target, Handled, Over, Kind
  <2>2. ASSUME NEW o \in Subs
        PROVE  Handling(o)'
    <3>1. Handling(o) /\ (Handled(o) => Target(o) \in Subs)
      BY DEF Sane, CallsSound, CallSound, Patience, Handled
    <3>2. CASE Handled(o)
      <4>1. Fresh(Target(o)) /\ InHand(Target(o))
        BY <3>1, <3>2 DEF Handling, InHand
      <4>2. Fresh(Target(o))' /\ doc'[Target(o)] = doc[Target(o)]
        BY <1>1, <2>1, <3>1, <3>2, <4>1
      <4>3. PICK T : T = Target(o) /\ T = Target(o)'
        BY <2>1
      <4> QED
        BY <1>1, <2>1, <3>1, <4>2, <4>3 DEF Handling, Kind
    <3>3. CASE ~Handled(o)
      BY <1>1, <2>1, <3>1, <3>3 DEF Handling, Handled, Over
    <3> QED
      BY <3>2, <3>3
  <2>3. ASSUME NEW s \in Subs, doc'[s].life = NoDoc
        PROVE  Fresh(s)'
    BY <1>1, <2>3 DEF Exists, Patience
  <2>4. \A c1, c2 \in Subs : Handled(c1)' /\ Handled(c2)' /\ Target(c1)' = Target(c2)' => c1 = c2
    BY <2>1 DEF Patience
  <2> QED
    BY <2>2, <2>3, <2>4 DEF Patience
<1>2. CASE UNCHANGED submitVars
  BY <1>1, <1>2 DEF submitVars, service, vars, rows, Exists, Fresh, Unclaimed, Sub, Done
<1>3. ASSUME NEW c \in Subs, Resolve(c) \/ Handler(c)
      PROVE  Patience'
  BY <1>3, ResolvePatience, HandlerPatience
<1>4. ASSUME NEW a \in Approvals, Approver(a)
      PROVE  Patience'
  <2>1. \A s : Exists(s) => Exists(s)'
    BY <1>4, DocsKept DEF SubmitNext, ServiceStep, Approver
  <2> QED
    BY <1>1, <1>4, <2>1, ApproverFresh, ApproverCalls
<1>5. CASE WorkersAndOperators /\ UNCHANGED service
  <2>1. \A s : Exists(s) => Exists(s)'
    BY <1>5, DocsKept DEF SubmitNext
  <2> QED
    BY <1>1, <1>5, <2>1, OthersFresh DEF service
<1> QED
  BY <1>2, <1>3, <1>4, <1>5, ServiceSteps DEF SubmitNext

LEMMA PatienceInit == SubmitInit => Patience
<1> SUFFICES ASSUME SubmitInit PROVE Patience
  OBVIOUS
<1>1. \A s \in Subs : Fresh(s)
  BY ControlPlaneAssumption DEF SubmitInit, Fresh, Unclaimed, Idle
<1>2. \A c \in Subs : call[c].pc = "new"
  BY DEF SubmitInit, NewCall
<1> QED
  BY <1>1, <1>2 DEF Patience, Handling, Handled

-----------------------------------------------------------------------------
(* Supersedence.  Whoever has been told of it, the rows or somebody's copy *)
(* of them: each has it from the call that wrote it.                       *)
Told(s) ==
  \/ doc[s].reason = "superseded"
  \/ \E w \in Workers : Sub(w) = s /\ "superseded" \in {worker[w].file.reason, worker[w].next.reason}
  \/ \E q \in Requests : request[q].sub = s /\ request[q].copy.reason = "superseded"
  \/ \E a \in Approvals : approval[a].sub = s /\ approval[a].copy.reason = "superseded"
  \/ \E c \in Subs : \E x \in call[c].older : x[1] = s /\ x[2].reason = "superseded"

Narrow(s) ==
  /\ Exists(s) /\ Kind(s) = "deploy"
  /\ \E o \in Subs \ {s} : Kind(o) = "deploy" /\ Exists(o) /\ submittedAt[o] >= submittedAt[s]

AllNarrow == \A s \in Subs : Told(s) => Narrow(s)

LEMMA ServiceTells ==
  ASSUME Sane, ServiceStep, NEW s \in Subs, Told(s)'
  PROVE  Told(s) \/ \E c \in Subs : Supersede(c) /\ \E x \in call[c].older : x[1] = s
<1>1. /\ call \in [Subs -> Calls] /\ doc \in [Subs -> Docs]
      /\ approval \in [Approvals -> [pc : {"new", "read", "enqueue", "close", "done"},
                                     sub : Subs \cup {0}, copy : Docs]]
      /\ UNCHANGED <<worker, request>>
  BY ServiceRows DEF Sane, SubmitTypeOK, TypeOK, Still
<1>2. ASSUME UNCHANGED approval,
             \A c \in Subs : \A x \in call'[c].older : x \in call[c].older \/ x[2] = doc[x[1]],
             doc'[s].reason = "superseded"
               => doc[s].reason = "superseded"
                  \/ \E c \in Subs : Supersede(c) /\ \E x \in call[c].older : x[1] = s
      PROVE  Told(s) \/ \E c \in Subs : Supersede(c) /\ \E x \in call[c].older : x[1] = s
  BY <1>1, <1>2 DEF Told, Sub
<1>3. ASSUME NEW c \in Subs, Handler(c)
      PROVE  Told(s) \/ \E o \in Subs : Supersede(o) /\ \E x \in call[o].older : x[1] = s
  <2>1. UNCHANGED approval /\ call' = [call EXCEPT ![c] = call'[c]]
    BY <1>3, HandlerCalls
  <2>2. \A x \in call'[c].older : x \in call[c].older \/ x[2] = doc[x[1]]
    <3>1. ASSUME NEW pc, CallTo(c, pc)
          PROVE  call'[c].older = call[c].older
      BY <1>1, <3>1 DEF CallTo, Calls
    <3>2. CASE Stamp(c)
      BY <1>1, <3>2 DEF Stamp, Calls
    <3>3. CASE ReadOlder(c)
      <4>1. call'[c].older = {<<o, doc[o]>> : o \in {r \in Subs : Supersedes(Target(c), call[c].at, r)}}
        BY <1>1, <3>3 DEF ReadOlder, Calls
      <4> QED
        BY <4>1
    <3>4. CASE Supersede(c)
      <4>1. PICK old \in call[c].older :
          call' = [call EXCEPT ![c].pc = "closeOlder", ![c].closing = old[1], ![c].older = @ \ {old}]
        BY <3>4 DEF Supersede
      <4> QED
        BY <1>1, <4>1 DEF Calls
    <3>5. CASE CloseOlder(c)
      BY <1>1, <3>5 DEF CloseOlder, Calls
    <3> QED
      BY <1>3, <3>1, <3>2, <3>3, <3>4, <3>5 DEF Handler, WriteSnapshot, Admit, AdmissionFails,
         CloseRejected, WriteQueued, WriteWaiting, Enqueue, CallDies
  <2>3. \A o \in Subs : \A x \in call'[o].older : x \in call[o].older \/ x[2] = doc[x[1]]
    BY <1>1, <2>1, <2>2
  <2>4. doc'[s].reason = "superseded"
               => doc[s].reason = "superseded" \/ (Supersede(c) /\ \E x \in call[c].older : x[1] = s)
    BY <1>3, HandlerRows
  <2> QED
    BY <1>2, <2>1, <2>3, <2>4
<1>4. ASSUME NEW c \in Subs, Resolve(c)
      PROVE  Told(s)
  <2>1. /\ UNCHANGED <<vars, submittedAt, approval>>
        /\ call' = [call EXCEPT ![c] = call'[c]] /\ call'[c].older = {}
    BY <1>4, ResolveCalls
  <2>2. UNCHANGED <<doc, worker, request>>
    BY <2>1 DEF vars, rows
  <2>3. \A o \in Subs : \A x \in call'[o].older : x \in call[o].older
    BY <1>1, <2>1
  <2> QED
    BY <2>1, <2>2, <2>3 DEF Told, Sub
<1>5. ASSUME NEW a \in Approvals, Approver(a)
      PROVE  Told(s)
  <2>1. /\ UNCHANGED call /\ approval' = [approval EXCEPT ![a] = approval'[a]]
        /\ approval[a].pc # "new" => approval'[a].sub = approval[a].sub
    BY <1>5, ApproverCalls
  <2>2. approval'[a].sub = s /\ approval'[a].copy.reason = "superseded" => Told(s)
    <3>1. CASE ApproveRead(a)
      <4>1. PICK o \in Subs : approval' = [approval EXCEPT ![a] = [pc |-> "read", sub |-> o, copy |-> doc[o]]]
        BY <3>1 DEF ApproveRead
      <4> QED
        BY <1>1, <4>1 DEF Told
    <3>2. CASE ApproveWrite(a)
      <4>1. approval'[a].copy = Blank
        BY <1>1, <3>2 DEF ApproveWrite
      <4> QED
        BY <4>1, BlankDoc
    <3>3. CASE ApproveQueue(a)
      <4>1. approval'[a].copy = approval[a].copy /\ approval'[a].sub = approval[a].sub
        BY <1>1, <3>3 DEF ApproveQueue
      <4> QED
        BY <4>1 DEF Told
    <3> QED
      BY <1>5, <3>1, <3>2, <3>3 DEF Approver
  <2>3. doc'[s].reason = "superseded" => Told(s)
    <3>1. CASE ApproveWrite(a)
      <4>1. PICK e \in {approval[a].copy, [approval[a].copy EXCEPT !.life = "waiting_for_lock"]} :
             doc' = [doc EXCEPT ![approval[a].sub] = e]
        BY <3>1 DEF ApproveWrite
      <4>2. e.reason = approval[a].copy.reason
        BY <1>1, <4>1 DEF Docs
      <4> QED
        BY <1>1, <4>1, <4>2 DEF Told
    <3>2. CASE ~ApproveWrite(a)
      BY <1>5, <3>2 DEF Approver, ApproveRead, ApproveQueue, vars, rows, Told
    <3> QED
      BY <3>1, <3>2
  <2>4. \A b \in Approvals : approval'[b].sub = s /\ approval'[b].copy.reason = "superseded" => Told(s)
    <3>1. \A b \in Approvals : b # a => approval'[b] = approval[b]
      BY <1>1, <2>1
    <3> QED
      BY <2>2, <3>1 DEF Told
  <2> QED
    BY <1>1, <2>1, <2>3, <2>4 DEF Told, Sub
<1> QED
  BY <1>3, <1>4, <1>5, ServiceSteps

LEMMA OthersTell ==
  ASSUME Sane, WorkersAndOperators, UNCHANGED service, NEW s \in Subs, Told(s)'
  PROVE  Told(s)
<1>1. /\ TypeOK /\ WorkersSound /\ WorkExists /\ worker \in [Workers -> Processes]
      /\ doc \in [Subs -> Docs] /\ Beginnings /\ 0 \notin Subs
      /\ request \in [Requests -> [pc : {"new", "read", "written", "done"},
                                   sub : Subs \cup {0}, copy : Docs]]
      /\ UNCHANGED <<call, approval>>
  BY ControlPlaneAssumption DEF Sane, SubmitTypeOK, TypeOK, service
<1>2. ASSUME doc'[s].reason = "superseded" => Told(s),
             \A w \in Workers : worker'[w].sub = s
               /\ "superseded" \in {worker'[w].file.reason, worker'[w].next.reason} => Told(s),
             \A q \in Requests : request'[q].sub = s /\ request'[q].copy.reason = "superseded" => Told(s)
      PROVE  Told(s)
  BY <1>1, <1>2 DEF Told, Sub
<1>3. ASSUME NEW w \in Workers, ClaimOldest(w)
      PROVE  Told(s)
  <2>1. PICK o \in Subs, goal \in {"recover", "execute"} :
             worker' = [worker EXCEPT ![w].pc = "materialize", ![w].sub = o, ![w].goal = goal]
    BY <1>3 DEF ClaimOldest
  <2>2. worker'[w].file = Blank /\ worker'[w].next = Blank /\ \A v \in Workers : v # w => worker'[v] = worker[v]
    BY <1>1, <1>3, <2>1 DEF ClaimOldest, Beginnings, Unread, Processes
  <2> QED
    BY <1>2, <1>3, <2>2, BlankDoc DEF ClaimOldest, Told, Sub
<1>4. ASSUME NEW w \in Workers, Ordinary(w)
      PROVE  Told(s)
  <2>1. worker' = [worker EXCEPT ![w] = worker'[w]] /\ (worker'[w].pc = "idle" => worker'[w].sub = 0)
    BY <1>1, <1>4, WorkerBegins
  <2>2. worker'[w].pc # "idle" => Sub(w) = worker'[w].sub
    BY <1>1, <1>4, SubKept DEF Sub
  <2>3. /\ \E d \in Memory(w) : From(d, worker'[w].file)
        /\ \E d \in Memory(w) : From(d, worker'[w].next)
    BY <1>1, <1>4, WorkerReads
  <2>4. Sub(w) = s => \A d \in Memory(w) : d.reason = "superseded" => Told(s)
    BY BlankDoc DEF Memory, Told, Sub
  <2>5. worker'[w].sub = s /\ "superseded" \in {worker'[w].file.reason, worker'[w].next.reason} => Told(s)
    BY <1>1, <2>1, <2>2, <2>3, <2>4 DEF From
  <2>6. \A v \in Workers : v # w => worker'[v] = worker[v]
    BY <1>1, <2>1
  <2>7. doc'[s].reason = "superseded" => Told(s)
    BY <1>1, <1>4, OrdinaryRows DEF UpsertDoc, Told
  <2> QED
    BY <1>2, <1>4, <2>5, <2>6, <2>7, OrdinaryRows DEF Told, Sub
<1>5. ASSUME NEW q \in Requests, CancelRead(q)
      PROVE  Told(s)
  <2>1. PICK o \in Subs : request' = [request EXCEPT ![q] = [pc |-> "read", sub |-> o, copy |-> doc[o]]]
    BY <1>5 DEF CancelRead, Submitted
  <2>2. \A r \in Requests : request'[r] = IF r = q THEN [pc |-> "read", sub |-> o, copy |-> doc[o]] ELSE request[r]
    BY <1>1, <2>1
  <2> QED
    BY <1>2, <1>5, <2>2 DEF CancelRead, rows, Told, Sub
<1>6. ASSUME NEW q \in Requests, CancelWrite(q)
      PROVE  Told(s)
  <2>1. \A d \in Docs : CancelledDoc(d).reason \in {d.reason, "cancelled"}
    BY DEF CancelledDoc, Docs
  <2>2. request[q].copy \in Docs /\ doc' = [doc EXCEPT ![request[q].sub] = CancelledDoc(request[q].copy)]
    BY <1>1, <1>6 DEF CancelWrite
  <2>3. doc'[s].reason = "superseded" => Told(s)
    BY <1>1, <2>1, <2>2 DEF Told
  <2>4. request'[q].copy = Blank /\ \A r \in Requests : r # q => request'[r] = request[r]
    BY <1>1, <1>6 DEF CancelWrite
  <2> QED
    BY <1>2, <1>6, <2>3, <2>4, BlankDoc DEF CancelWrite, Told, Sub
<1>7. ASSUME NEW q \in Requests, CancelMarkDone(q)
      PROVE  Told(s)
  <2>1. \A r \in Requests : request'[r].sub = request[r].sub /\ request'[r].copy = request[r].copy
    BY <1>1, <1>7 DEF CancelMarkDone
  <2> QED
    BY <1>2, <1>7, <2>1 DEF CancelMarkDone, Told, Sub
<1>8. ASSUME LockLapses \/ \E o \in Subs : ClaimLapses(o)
      PROVE  Told(s)
  BY <1>1, <1>8 DEF LockLapses, ClaimLapses, rows, Told, Sub
<1> QED
  BY <1>3, <1>4, <1>5, <1>6, <1>7, <1>8, OthersSteps

(* What is told of a submission was told before, or is told just now.      *)
LEMMA ToldNext ==
  ASSUME Sane, [SubmitNext]_submitVars, NEW s \in Subs, Told(s)'
  PROVE  Told(s) \/ \E c \in Subs : Supersede(c) /\ \E x \in call[c].older : x[1] = s
<1>1. CASE UNCHANGED submitVars
  BY <1>1 DEF submitVars, service, vars, rows, Told, Sub
<1> QED
  BY <1>1, ServiceTells, OthersTell DEF SubmitNext

(* A deploy stays one, as the first call with its key has made it. *)
LEMMA DeploysKept ==
  ASSUME Sane, [SubmitNext]_submitVars, NEW o \in Subs, Kind(o) = "deploy"
  PROVE  Kind(o)' = "deploy"
<1>1. call[o].pc # "new"
  BY DEF Sane, CallsSound, CallSound, Kind
<1>2. CASE UNCHANGED submitVars \/ UNCHANGED service \/ \E a \in Approvals : Approver(a)
  BY <1>2 DEF submitVars, service, Approver, ApproveRead, ApproveWrite, ApproveQueue, Kind
<1>3. ASSUME NEW c \in Subs, Handler(c)
      PROVE  Kind(o)' = "deploy"
  <2>1. call' = [call EXCEPT ![c] = call'[c]] /\ call'[c].kind = call[c].kind
        /\ call \in [Subs -> Calls]
    BY <1>3, HandlerCalls DEF Sane, SubmitTypeOK
  <2> QED
    BY <2>1 DEF Kind
<1>4. ASSUME NEW c \in Subs, Resolve(c)
      PROVE  Kind(o)' = "deploy"
  <2>1. call' = [call EXCEPT ![c] = call'[c]] /\ call[c].pc = "new"
        /\ call \in [Subs -> Calls]
    BY <1>4, ResolveCalls DEF Sane, SubmitTypeOK
  <2> QED
    BY <1>1, <2>1 DEF Kind
<1> QED
  BY <1>2, <1>3, <1>4, ServiceSteps DEF SubmitNext

LEMMA NarrowKept ==
  ASSUME Sane, Patience, [SubmitNext]_submitVars, NEW s \in Subs, Narrow(s)
  PROVE  Narrow(s)'
<1>1. \A o : Exists(o) => Exists(o)'
  <2>1. CASE UNCHANGED submitVars
    BY <2>1 DEF submitVars, vars, rows, Exists
  <2> QED
    BY <2>1, DocsKept
<1>2. ASSUME NEW o \in Subs, Exists(o)
      PROVE  submittedAt'[o] = submittedAt[o]
  <2>1. CASE UNCHANGED submitVars
    BY <2>1 DEF submitVars, service
  <2>2. ASSUME NEW c \in Subs, Handler(c)
        PROVE  submittedAt'[o] = submittedAt[o]
    <3>1. WriteSnapshot(c) => ~Exists(Target(c))
      BY DEF WriteSnapshot, Patience, Handling, Exists
    <3> QED
      BY <1>2, <2>2, <3>1, HandlerRows
  <2>3. CASE (\E c \in Subs : Resolve(c)) \/ (\E a \in Approvals : Approver(a)) \/ UNCHANGED service
    BY <2>3 DEF Resolve, Approver, ApproveRead, ApproveWrite, ApproveQueue, service
  <2> QED
    BY <2>1, <2>2, <2>3, ServiceSteps DEF SubmitNext
<1>3. \A o \in Subs : Kind(o) = "deploy" => Kind(o)' = "deploy"
  BY DeploysKept
<1>4. Exists(s) /\ Kind(s) = "deploy"
  BY DEF Narrow
<1>5. PICK o \in Subs \ {s} : Kind(o) = "deploy" /\ Exists(o) /\ submittedAt[o] >= submittedAt[s]
  BY DEF Narrow
<1>6. Exists(s)' /\ Exists(o)' /\ Kind(s)' = "deploy" /\ Kind(o)' = "deploy"
  BY <1>1, <1>3, <1>4, <1>5
<1>7. submittedAt'[o] >= submittedAt'[s]
  BY <1>2, <1>4, <1>5
<1> QED
  BY <1>5, <1>6, <1>7 DEF Narrow

LEMMA NarrowNext ==
  ASSUME Sane, Patience, AllNarrow, [SubmitNext]_submitVars
  PROVE  AllNarrow'
<1> SUFFICES ASSUME NEW s \in Subs, Told(s)'
             PROVE  Narrow(s)'
  BY DEF AllNarrow
<1>1. CASE Told(s)
  BY <1>1, NarrowKept DEF AllNarrow
<1>2. ASSUME NEW c \in Subs, Supersede(c), NEW x \in call[c].older, x[1] = s
      PROVE  Narrow(s)'
  <2>1. /\ s # Target(c) /\ Kind(s) = "deploy" /\ Kind(Target(c)) = "deploy"
        /\ submittedAt[s] <= call[c].at /\ submittedAt[Target(c)] = call[c].at
    BY <1>2 DEF Supersede, Patience, Handling
  <2>2. Exists(Target(c)) /\ Exists(s)
    BY <1>2 DEF Supersede, Sane, CallsSound, CallSound
  <2>3. Target(c) \in Subs \ {s} /\ submittedAt[Target(c)] >= submittedAt[s]
    BY <2>1, <2>2 DEF Exists
  <2>4. Narrow(s)
    BY <2>1, <2>2, <2>3 DEF Narrow
  <2> QED
    BY <2>4, NarrowKept
<1> QED
  BY <1>1, <1>2, ToldNext

(* The types, the service's claim to what it has in hand, and supersedence, *)
(* while clients and operators wait for answers.                            *)
Polite == Sane /\ Patience /\ AllNarrow

LEMMA PoliteInit == SubmitInit => Polite
<1> SUFFICES ASSUME SubmitInit PROVE Polite
  OBVIOUS
<1>1. \A s \in Subs : ~Told(s)
  BY BlankDoc DEF SubmitInit, Told, Idle, NewCall
<1> QED
  BY <1>1, SaneInit, PatienceInit DEF Polite, AllNarrow

LEMMA PoliteNext == ~Impatient /\ Polite /\ [SubmitNext]_submitVars => Polite'
BY SaneNext, PatienceNext, NarrowNext DEF Polite

LEMMA Politeness == ~Impatient => (SubmitSpec => []Polite)
<1> SUFFICES ASSUME ~Impatient PROVE SubmitSpec => []Polite
  OBVIOUS
<1>1. Polite /\ [SubmitNext]_submitVars => Polite'
  BY PoliteNext
<1> QED
  BY <1>1, PoliteInit, PTL DEF SubmitSpec

(* Whatever stalls, crashes, dies, is cancelled or approved: a submission  *)
(* that is superseded is a normal deploy, and another normal deploy was    *)
(* submitted no earlier.  Clients that retry before they are answered do   *)
(* break this: the retry stamps a submission anew that others have read.   *)
THEOREM NarrowSupersedence == ~Impatient => (SubmitSpec => []SupersedenceIsNarrow)
<1> SUFFICES ASSUME ~Impatient PROVE SubmitSpec => []SupersedenceIsNarrow
  OBVIOUS
<1>1. Polite => SupersedenceIsNarrow
  BY DEF Polite, AllNarrow, Told, Narrow, SupersedenceIsNarrow
<1> QED
  BY <1>1, Politeness, PTL

-----------------------------------------------------------------------------
(* Workers, while none stalls for longer than a lease.  Past an assertion  *)
(* of its claim a worker writes the rows; in between it writes nothing.    *)
Heading(p) ==
  /\ p.pc \in {"assert", "upsert"} /\ p.goal \in {"running", "mutating"} => p.next.life = "running"
  /\ p.pc = "markDone" => p.goal \notin {"running", "mutating"}

AllHeading == \A w \in Workers : Heading(worker[w])

Busy(p) == Committed(p) \/ p.pc = "markDone"

(* It is about to write that the submission is to be worked on. *)
Restoring(p) == p.pc = "upsert" /\ p.next.life \in Active

(* From p to q: it commits itself only where the claim has been asserted.  *)
Advances(w, p, q) ==
  /\ Committed(q) => Committed(p) \/ HasClaim(w)
  /\ q.pc = "markDone" => p.pc = "markDone"
  /\ Restoring(q) => Restoring(p) \/ HasClaim(w)

Writes(w, p, q) ==
  /\ UpsertDoc(w)
  /\ p.next.life \in Active => q.pc \notin {"upsert", "markDone"}
  /\ p.next.life \notin Active => q.pc = "markDone"

LEMMA Moves ==
  ASSUME TypeOK, WorkersSound, NEW w \in Workers, Heading(worker[w]), Ordinary(w), ~Stall(w)
  PROVE  /\ Heading(worker'[w])
         /\ \/ UNCHANGED <<doc, queue>> /\ Advances(w, worker[w], worker'[w])
            \/ Writes(w, worker[w], worker'[w])
            \/ MarkDone(w) /\ ~Busy(worker'[w])
<1> DEFINE p == worker[w]
           q == worker'[w]
           Goal == /\ Heading(q)
                   /\ \/ UNCHANGED <<doc, queue>> /\ Advances(w, p, q)
                      \/ Writes(w, p, q)
                      \/ MarkDone(w) /\ ~Busy(q)
<1>1. worker \in [Workers -> Processes] /\ p \in Processes
  BY DEF WorkersSound
<1>2. ASSUME q.pc \notin {"assert", "upsert", "begin", "record", "markDone"},
             UNCHANGED <<doc, queue>>
      PROVE  Goal
  BY <1>2 DEF Heading, Advances, Committed, Busy, Restoring
<1>3. ASSUME NEW pc \in PCs, NEW goal \in Goals, Goto(w, pc, goal)
      PROVE  q.pc = pc /\ q.goal = goal /\ q.next = p.next
  BY <1>1, <1>3 DEF Goto, Processes
<1>4. ASSUME Return(w) \/ worker' = [worker EXCEPT ![w] = Idle]
      PROVE  q.pc = "idle"
  <2>1. CASE Return(w)
    BY <1>1, <2>1 DEF Return, Idle
  <2>2. CASE worker' = [worker EXCEPT ![w] = Idle]
    BY <1>1, <2>2 DEF Idle
  <2> QED
    BY <1>4, <2>1, <2>2
<1>5. ASSUME NEW r, Recover(w, r)
      PROVE  q.pc = "upsert" /\ q.goal = "end" /\ q.next.life = "finished"
  <2>1. q.pc = "upsert" /\ q.goal = "end" /\ q.next = Reconciled(p.file, r) /\ p.file \in Docs
    BY <1>1, <1>5 DEF Recover, Processes
  <2> QED
    BY <2>1 DEF Reconciled, Docs
<1>6. ASSUME Unwind(w)
      PROVE  q.pc \in {"finally", "release"}
  <2>1. {"finally", "release"} \subseteq PCs /\ "none" \in Goals
    BY DEF PCs, Goals
  <2> QED
    BY <1>1, <1>3, <1>6, <2>1 DEF Unwind, Processes
<1>7. ASSUME LoseAuthority(w), p.pc = "assert", UNCHANGED <<doc, queue>>
      PROVE  Goal
  <2>1. CASE p.goal = "settle"
    <3>1. q.pc = "upsert" /\ q.goal = "end" /\ q.next.life = "finished"
      BY <1>5, <1>7, <2>1 DEF LoseAuthority
    <3> QED
      BY <1>7, <2>1, <3>1 DEF Heading, Advances, Committed, Restoring, Active
  <2>2. CASE p.goal # "settle"
    BY <1>2, <1>6, <1>7, <2>2 DEF LoseAuthority
  <2> QED
    BY <2>1, <2>2
<1>8. ASSUME AfterWrite(w), p.goal \notin {"running", "mutating"}
      PROVE  q.pc \in {"finally", "release", "idle"}
  <2>1. {"finally", "release"} \subseteq PCs /\ "none" \in Goals
    BY DEF PCs, Goals
  <2> QED
    BY <1>3, <1>4, <1>8, <2>1 DEF AfterWrite
<1>9. CASE Materialize(w)
  <2>1. q.pc \in {"idle", "reconcile", "acquire"}
    BY <1>1, <1>4, <1>9 DEF Materialize, Processes
  <2> QED
    BY <1>2, <1>9, <2>1 DEF Materialize, rows
<1>10. CASE Reconcile(w)
  <2>1. q.pc = "assertClaim"
    BY <1>1, <1>10 DEF Reconcile, Processes
  <2> QED
    BY <1>2, <1>10, <2>1 DEF Reconcile, rows
<1>11. CASE AssertClaim(w)
  <2>1. \/ q.pc = "upsert" /\ q.goal = "recover" /\ HasClaim(w)
        \/ q.pc = "finally"
    BY <1>1, <1>11 DEF AssertClaim, Goto, Processes
  <2>2. UNCHANGED <<doc, queue>>
    BY <1>11 DEF AssertClaim, rows
  <2>3. CASE q.pc = "finally"
    BY <1>2, <2>2, <2>3
  <2> QED
    BY <2>1, <2>2, <2>3 DEF Heading, Advances, Committed, Restoring
<1>12. CASE StopWaiting(w) \/ BeginMutation(w) \/ ReleaseLock(w)
  <2>1. q.pc \in {"finally", "mutate"}
    BY <1>1, <1>12 DEF StopWaiting, BeginMutation, ReleaseLock, Goto, Processes
  <2>2. UNCHANGED <<doc, queue>>
    BY <1>12 DEF StopWaiting, BeginMutation, ReleaseLock, rows
  <2> QED
    BY <1>2, <2>1, <2>2
<1>13. CASE AcquireLock(w)
  <2>1. q.pc = "assert" /\ q.goal = "running" /\ q.next = [p.file EXCEPT !.life = "running"]
        /\ p.file \in Docs
    BY <1>1, <1>13 DEF AcquireLock, Processes
  <2>2. q.next.life = "running"
    BY <2>1 DEF Docs
  <2>3. UNCHANGED <<doc, queue>>
    BY <1>13 DEF AcquireLock, rows
  <2> QED
    BY <2>1, <2>2, <2>3 DEF Heading, Advances, Committed, Restoring
<1>14. CASE AssertPasses(w)
  <2>1. HasClaim(w) /\ p.pc = "assert" /\ q.next = p.next
        /\ \/ q.pc = "revalidate"
           \/ q.pc = "record"
           \/ q.pc = "assert" /\ q.goal = "settled"
           \/ q.pc = "upsert" /\ q.goal = p.goal
    BY <1>1, <1>14 DEF AssertPasses, HasAuthority, Goto, Processes
  <2>2. UNCHANGED <<doc, queue>>
    BY <1>14 DEF AssertPasses, rows
  <2> QED
    BY <2>1, <2>2 DEF Heading, Advances, Committed, Restoring
<1>15. CASE AssertFails(w)
  BY <1>7, <1>15 DEF AssertFails, rows
<1>16. CASE UpsertDoc(w)
  <2>1. p.pc = "upsert" /\ doc' = [doc EXCEPT ![Sub(w)] = p.next]
    BY <1>16 DEF UpsertDoc
  <2>2. CASE p.next.life \in Active
    <3>1. AfterWrite(w) /\ p.next.life \in Active
      BY <1>16, <2>2 DEF UpsertDoc
    <3>2. q.pc \in {"finally", "release", "idle", "begin"} \/ (q.pc = "assert" /\ q.goal = "check")
      <4>1. CASE p.goal = "running"
        BY <1>1, <3>1, <4>1 DEF AfterWrite, Goto, Processes
      <4>2. CASE p.goal = "mutating"
        BY <1>1, <3>1, <4>2 DEF AfterWrite, Goto, Processes
      <4> QED
        BY <1>8, <3>1, <4>1, <4>2
    <3> QED
      BY <1>16, <2>1, <2>2, <3>2 DEF Heading, Advances, Committed, Restoring, Writes
  <2>3. CASE p.next.life \notin Active
    <3>1. q.pc = "markDone" /\ q.goal = p.goal
      BY <1>1, <1>16, <2>3 DEF UpsertDoc, Goto, Processes
    <3>2. p.goal \notin {"running", "mutating"}
      BY <2>1, <2>3 DEF Heading, Active
    <3> QED
      BY <1>16, <2>1, <2>3, <3>1, <3>2 DEF Heading, Writes
  <2> QED
    BY <2>2, <2>3
<1>17. CASE MarkDone(w)
  <2>1. q.pc \in {"finally", "release", "idle"}
    BY <1>8, <1>17 DEF MarkDone, Heading
  <2> QED
    BY <1>17, <2>1 DEF Heading, Busy, Committed
<1>18. CASE Revalidate(w)
  <2>1. q.pc = "assert" /\ q.goal # "settle" /\ (q.goal = "mutating" => q.next.life = "running")
        /\ q.goal # "running"
    <3>1. /\ [p.file EXCEPT !.life = "running", !.mutation = TRUE].life = "running"
          /\ p.file \in Docs
      BY <1>1 DEF Processes, Docs
    <3> DEFINE Go(goal, d) == worker' = [worker EXCEPT ![w].pc = "assert", ![w].goal = goal,
                                                       ![w].next = d]
    <3>2. \/ Go("mutating", [p.file EXCEPT !.life = "running", !.mutation = TRUE])
          \/ Go("end", [p.file EXCEPT !.life = "finished", !.reason = "no_longer_admitted"])
      BY <1>18, Zenon DEF Revalidate
    <3>3. CASE Go("mutating", [p.file EXCEPT !.life = "running", !.mutation = TRUE])
      BY <1>1, <3>1, <3>3 DEF Processes
    <3>4. CASE Go("end", [p.file EXCEPT !.life = "finished", !.reason = "no_longer_admitted"])
      BY <1>1, <3>4 DEF Processes
    <3> QED
      BY <3>2, <3>3, <3>4
  <2>2. UNCHANGED <<doc, queue>>
    BY <1>18 DEF Revalidate, rows
  <2> QED
    BY <2>1, <2>2 DEF Heading, Advances, Committed, Restoring
<1>19. CASE MutateReturns(w)
  <2>1. q.pc = "assert" /\ q.goal \in {"record", "end"}
    BY <1>1, <1>19 DEF MutateReturns, Processes
  <2>2. UNCHANGED <<doc, queue>>
    BY <1>19 DEF MutateReturns, rows
  <2> QED
    BY <2>1, <2>2 DEF Heading, Advances, Committed, Restoring
<1>20. CASE PersistRecord(w)
  <2>1. \/ q.pc = "release"
        \/ q.pc = "assert" /\ q.goal \in {"settled", "settle"}
        \/ q.pc = "upsert" /\ q.goal = "end" /\ q.next.life = "finished"
    BY <1>1, <1>5, <1>20 DEF PersistRecord, AfterRecord, Goto, Processes
  <2>2. UNCHANGED <<doc, queue>> /\ Committed(p)
    BY <1>20 DEF PersistRecord, rows, Committed
  <2> QED
    BY <2>1, <2>2 DEF Heading, Advances, Restoring, Active
<1>21. CASE Finally(w)
  <2>1. \/ q.pc = "upsert" /\ q.goal = "putBack" /\ HasClaim(w)
        \/ q.pc = "idle"
    BY <1>1, <1>4, <1>21 DEF Finally, Processes
  <2>2. UNCHANGED <<doc, queue>>
    BY <1>21 DEF Finally, rows
  <2> QED
    BY <2>1, <2>2 DEF Heading, Advances, Committed, Restoring
<1>22. CASE LockRevives(w) \/ Abort(w)
  <2>1. q.pc = p.pc /\ q.goal = p.goal /\ q.next = p.next
    BY <1>1, <1>22 DEF LockRevives, Abort, Processes
  <2> QED
    BY <1>22, <2>1 DEF LockRevives, Abort, rows, Heading, Advances, Committed, Restoring
<1>23. CASE Restart(w) \/ Crash(w)
  <2>1. q.pc = "idle"
    BY <1>4, <1>23 DEF Restart, Crash
  <2> QED
    BY <1>2, <1>23, <2>1 DEF Restart, Crash, rows
<1>24. CASE Error(w)
  <2>1. UNCHANGED <<doc, queue>>
    BY <1>24 DEF Error, rows
  <2>2. "finally" \in PCs /\ "none" \in Goals
    BY DEF PCs, Goals
  <2>3. CASE Return(w) \/ Goto(w, "finally", "none") \/ Unwind(w)
    BY <1>2, <1>3, <1>4, <1>6, <2>1, <2>2, <2>3
  <2> QED
    BY <1>7, <1>24, <2>1, <2>3, ErrorCases
<1> QED
  BY <1>9, <1>10, <1>11, <1>12, <1>13, <1>14, <1>15, <1>16, <1>17, <1>18, <1>19, <1>20, <1>21,
     <1>22, <1>23, <1>24 DEF Ordinary

LEMMA HeadingNext ==
  ASSUME Sane, AllHeading, "stall" \notin Faults, [SubmitNext]_submitVars
  PROVE  AllHeading'
<1>1. TypeOK /\ WorkersSound /\ worker \in [Workers -> Processes] /\ Beginnings
  BY DEF Sane, SubmitTypeOK, TypeOK
<1>2. ASSUME UNCHANGED worker
      PROVE  AllHeading'
  BY <1>2 DEF AllHeading
<1>3. ASSUME NEW w \in Workers, Ordinary(w)
      PROVE  AllHeading'
  <2>1. ~Stall(w)
    BY DEF Stall, Fault
  <2>2. Heading(worker'[w])
    BY <1>1, <1>3, <2>1, Moves DEF AllHeading
  <2>3. \A v \in Workers : v # w => worker'[v] = worker[v]
    BY <1>1, <1>3, WorkerBegins
  <2> QED
    BY <2>2, <2>3 DEF AllHeading
<1>4. ASSUME NEW w \in Workers, ClaimOldest(w)
      PROVE  AllHeading'
  <2>1. worker'[w].pc = "materialize" /\ \A v \in Workers : v # w => worker'[v] = worker[v]
    BY <1>1, <1>4 DEF ClaimOldest, Processes
  <2> QED
    BY <2>1 DEF AllHeading, Heading
<1>5. CASE UNCHANGED submitVars
  BY <1>2, <1>5 DEF submitVars, vars
<1>6. CASE ServiceStep
  BY <1>2, <1>6, ServiceRows DEF Still
<1>7. ASSUME LockLapses \/ (\E s \in Subs : ClaimLapses(s))
               \/ \E q \in Requests : CancelRead(q) \/ CancelWrite(q) \/ CancelMarkDone(q)
      PROVE  AllHeading'
  BY <1>2, <1>7 DEF LockLapses, ClaimLapses, CancelRead, CancelWrite, CancelMarkDone
<1> QED
  BY <1>3, <1>4, <1>5, <1>6, <1>7, OthersSteps DEF SubmitNext

-----------------------------------------------------------------------------
(* What a step of the service leaves alone. *)

LEMMA Resolved ==
  ASSUME Sane, NEW c \in Subs, Resolve(c)
  PROVE  /\ UNCHANGED <<doc, queue, worker, request, approval, submittedAt>>
         /\ \A o \in Subs : o # c => call'[o] = call[o]
         /\ \A o \in Subs : call[o].pc # "new" => Target(o)' = Target(o) /\ Target(o) \in Subs
         /\ \A s \in Subs : call[s].pc # "new" => Kind(s)' = Kind(s)
         /\ call[c].pc = "new" /\ call'[c].older = {}
         /\ call'[c].pc \in {"refused", "answered", "stamp"}
         /\ call'[c].pc = "stamp" => Target(c)' \in Subs /\ doc[Target(c)'].life = NoDoc
<1>1. PICK k \in Keys, kind \in Kinds, t \in Subs :
           /\ Arrives(c, k) /\ call[c].pc = "new"
           /\ t = IF idempotency[k] = 0 THEN c ELSE idempotency[k]
           /\ idempotency' = [idempotency EXCEPT ![k] = t]
           /\ call' = [call EXCEPT ![c] = call'[c]] /\ call'[c] \in Calls
           /\ call'[c].key = k /\ call'[c].kind = kind /\ call'[c].older = {}
           /\ Target(c)' = t
           /\ \/ call'[c].pc = "refused"
              \/ call'[c].pc = "answered" /\ Exists(t) /\ (t = c \/ kind = Kind(t))
              \/ call'[c].pc = "stamp" /\ ~Exists(t) /\ (t = c \/ kind = Kind(t))
           /\ UNCHANGED <<vars, submittedAt, approval>>
  BY ResolveCalls
<1>2. /\ call \in [Subs -> Calls] /\ idempotency \in [Keys -> Subs \cup {0}] /\ 0 \notin Subs
      /\ \A o \in Subs : CallSound(o)
  BY ControlPlaneAssumption DEF Sane, SubmitTypeOK, CallsSound
<1>3. \A o \in Subs : o # c => call'[o] = call[o]
  BY <1>1, <1>2
<1>4. \A j \in Keys : idempotency[j] # 0 => idempotency'[j] = idempotency[j]
  BY <1>1, <1>2
<1>5. ASSUME NEW o \in Subs, call[o].pc # "new"
      PROVE  Target(o)' = Target(o) /\ Target(o) \in Subs
  BY <1>1, <1>2, <1>3, <1>4, <1>5 DEF Target, CallSound
<1>6. UNCHANGED <<doc, queue, worker, request, approval, submittedAt>>
  BY <1>1 DEF vars, rows
<1>7. \A s \in Subs : call[s].pc # "new" => Kind(s)' = Kind(s)
  BY <1>1, <1>3 DEF Kind
<1> QED
  BY <1>1, <1>3, <1>5, <1>6, <1>7 DEF Exists

LEMMA HandlerLeaves ==
  ASSUME Sane, Patience, NEW c \in Subs, Handler(c)
  PROVE  /\ UNCHANGED <<idempotency, approval, worker, request>>
         /\ \A o \in Subs : o # c => call'[o] = call[o]
         /\ \A o \in Subs : Target(o)' = Target(o)
         /\ \A s \in Subs : Kind(s)' = Kind(s)
         /\ Handled(c) /\ Target(c) \in Subs /\ call'[c].pc \notin {"new", "refused"}
         /\ \A o \in Subs : Handled(o)' => Handled(o)
         /\ \A o \in Subs : Handled(o) /\ o # c => Target(o) # Target(c)
         /\ \A s \in Subs : queue'[s] = queue[s] \/ s = Target(c)
                              \/ (CloseOlder(c) /\ call[c].closing = s)
<1>1. call \in [Subs -> Calls] /\ \A o \in Subs : CallSound(o)
  BY DEF Sane, SubmitTypeOK, CallsSound
<1>2. /\ UNCHANGED <<idempotency, approval>>
      /\ call' = [call EXCEPT ![c] = call'[c]]
      /\ call'[c].key = call[c].key /\ call'[c].kind = call[c].kind
      /\ call[c].pc # "new" /\ call'[c].pc \notin {"new", "refused"}
  BY HandlerCalls
<1>3. Handled(c) /\ UNCHANGED <<worker, request>>
  BY HandlerRows DEF Still
<1>4. /\ \A o \in Subs : Target(o)' = Target(o)
      /\ \A s \in Subs : Kind(s)' = Kind(s)
      /\ \A o \in Subs : o # c => call'[o] = call[o]
  BY <1>1, <1>2 DEF Target, Kind
<1>5. /\ \A o \in Subs : Handled(o)' => Handled(o)
      /\ \A o \in Subs : Handled(o) /\ o # c => Target(o) # Target(c)
  BY <1>3, <1>4 DEF Handled, Over, Patience
<1>6. Target(c) \in Subs
  BY <1>1, <1>2 DEF CallSound
<1>7. \A s \in Subs : queue'[s] = queue[s] \/ s = Target(c) \/ (CloseOlder(c) /\ call[c].closing = s)
  <2>1. queue \in [Subs -> [owner : Workers \cup {NoWorker}, lapsed : BOOLEAN, done : BOOLEAN]]
    BY DEF Sane, SubmitTypeOK, TypeOK
  <2>2. CASE CloseOlder(c)
    BY <2>1, <2>2 DEF CloseOlder
  <2>3. CASE CloseRejected(c) \/ Enqueue(c)
    BY <1>6, <2>1, <2>3 DEF CloseRejected, Enqueue
  <2>4. CASE ~(CloseRejected(c) \/ CloseOlder(c) \/ Enqueue(c))
    BY <2>4 DEF Handler, Stamp, WriteSnapshot, Admit, AdmissionFails, WriteQueued, ReadOlder, Supersede,
       WriteWaiting, CallDies, vars, rows
  <2> QED
    BY <2>2, <2>3, <2>4
<1> QED
  BY <1>2, <1>3, <1>4, <1>5, <1>6, <1>7

(* A copy in a list was there before, or is one just read of a deployment  *)
(* that waits.                                                             *)
LEMMA Lists ==
  ASSUME Sane, NEW c \in Subs, Handler(c), NEW x \in call'[c].older
  PROVE  \/ /\ x \in call[c].older
            /\ call'[c].pc \in {"supersede", "closeOlder"} => call[c].pc \in {"supersede", "closeOlder"}
         \/ /\ ReadOlder(c) /\ x[1] \in Subs /\ x[2] = doc[x[1]]
            /\ doc[x[1]].life \in {"queued", "waiting_for_lock"}
<1>1. call \in [Subs -> Calls]
  BY DEF Sane, SubmitTypeOK
<1>2. CASE ReadOlder(c)
  <2>1. call'[c].older = {<<s, doc[s]>> : s \in {o \in Subs : Supersedes(Target(c), call[c].at, o)}}
    BY <1>1, <1>2 DEF ReadOlder, Calls
  <2> QED
    BY <1>2, <2>1 DEF Supersedes
<1>3. CASE Supersede(c)
  <2>1. call'[c].older \subseteq call[c].older /\ call[c].pc = "supersede"
    BY <1>1, <1>3 DEF Supersede, Calls
  <2> QED
    BY <2>1
<1>4. CASE CloseOlder(c)
  <2>1. call'[c].older = call[c].older /\ call[c].pc = "closeOlder"
    BY <1>1, <1>4 DEF CloseOlder, Calls
  <2> QED
    BY <2>1
<1>5. CASE ~(ReadOlder(c) \/ Supersede(c) \/ CloseOlder(c))
  <2>1. CASE Stamp(c)
    <3>1. call'[c].older = call[c].older /\ call'[c].pc = "snapshot"
      BY <1>1, <2>1 DEF Stamp, Calls
    <3> QED
      BY <3>1
  <2>2. CASE ~Stamp(c)
    <3>1. PICK pc \in {"admit", "close", "answered", "queue", "older", "enqueue", "died"} : CallTo(c, pc)
      BY <1>5, <2>2 DEF Handler, WriteSnapshot, Admit, AdmissionFails, CloseRejected, WriteQueued,
         WriteWaiting, Enqueue, CallDies
    <3>2. call'[c].older = call[c].older /\ call'[c].pc = pc
      BY <1>1, <3>1 DEF CallTo, Calls
    <3> QED
      BY <3>2
  <2> QED
    BY <2>1, <2>2
<1> QED
  BY <1>2, <1>3, <1>4, <1>5

-----------------------------------------------------------------------------
(* A submission in the service's hands, but for a rejected one, does not   *)
(* await an approval; and nobody takes it for superseded while it waits.   *)
Pristine(c) ==
  Handled(c) =>
    /\ call[c].pc # "close" => doc[Target(c)].life \notin Held
    /\ doc[Target(c)].life \in Active => doc[Target(c)].reason # "superseded"
    /\ \A o \in Subs : \A x \in call[o].older : x[1] = Target(c) => x[2].reason # "superseded"

AllPristine == \A c \in Subs : Pristine(c)

LEMMA PristineNext ==
  ASSUME ~Impatient, Sane, Patience, AllPristine, [SubmitNext]_submitVars
  PROVE  AllPristine'
<1>1. /\ call \in [Subs -> Calls] /\ doc \in [Subs -> Docs]
      /\ \A c \in Subs : CallSound(c) /\ Handling(c) /\ Pristine(c)
  BY DEF Sane, SubmitTypeOK, TypeOK, CallsSound, Patience, AllPristine
<1>2. ASSUME UNCHANGED <<call, idempotency>>,
             \A c \in Subs : Handled(c) => doc'[Target(c)] = doc[Target(c)]
      PROVE  AllPristine'
  <2>1. \A c : Target(c)' = Target(c) /\ Handled(c)' = Handled(c)
    BY <1>2 DEF Target, Handled, Over
  <2> QED
    BY <1>1, <1>2, <2>1 DEF AllPristine, Pristine
<1>3. CASE UNCHANGED submitVars
  BY <1>2, <1>3 DEF submitVars, service, vars, rows
<1>4. CASE WorkersAndOperators /\ UNCHANGED service
  <2>1. \A c \in Subs : Handled(c) => Target(c) \in Subs /\ Fresh(Target(c)) /\ InHand(Target(c))
    BY <1>1 DEF CallSound, Handling, InHand, Handled
  <2> QED
    BY <1>2, <1>4, <2>1, OthersFresh DEF service
<1>5. ASSUME NEW a \in Approvals, Approver(a)
      PROVE  AllPristine'
  <2>1. \A c \in Subs : Handled(c) => Target(c) \in Subs /\ Fresh(Target(c)) /\ InHand(Target(c))
    BY <1>1 DEF CallSound, Handling, InHand, Handled
  <2> QED
    BY <1>2, <1>5, <2>1, ApproverFresh, ApproverCalls
<1>6. ASSUME NEW c \in Subs, Resolve(c)
      PROVE  AllPristine'
  <2>1. \A o \in Subs : \A x \in call'[o].older : x \in call[o].older
    BY <1>6, Resolved
  <2>2. ASSUME NEW o \in Subs, o # c
        PROVE  Pristine(o)'
    <3>1. call'[o] = call[o] /\ (Handled(o) => Target(o)' = Target(o)) /\ doc' = doc
      BY <1>6, <2>2, Resolved DEF Handled
    <3> QED
      BY <1>1, <2>1, <3>1 DEF Pristine, Handled, Over
  <2>3. Pristine(c)'
    <3>1. CASE call'[c].pc = "stamp"
      <4>1. PICK T \in Subs : T = Target(c)' /\ doc[T].life = NoDoc /\ doc' = doc
        BY <1>6, <3>1, Resolved
      <4>2. \A o \in Subs : \A x \in call'[o].older : x[1] # T
        BY <1>1, <2>1, <4>1 DEF CallSound, Exists
      <4> QED
        BY <4>1, <4>2 DEF Pristine, Held, Active, NoDoc
    <3>2. CASE call'[c].pc # "stamp"
      BY <1>6, <3>2, Resolved DEF Pristine, Handled, Over
    <3> QED
      BY <3>1, <3>2
  <2> QED
    BY <2>2, <2>3 DEF AllPristine
<1>7. ASSUME NEW c \in Subs, Handler(c)
      PROVE  AllPristine'
  <2> SUFFICES ASSUME NEW o \in Subs, Handled(o)'
               PROVE  Pristine(o)'
    BY DEF AllPristine, Pristine
  <2>1. Handled(o) /\ Target(o)' = Target(o) /\ Handled(c)
    BY <1>7, HandlerLeaves
  <2>2. PICK T \in Subs : T = Target(o)
    BY <1>1, <2>1 DEF CallSound, Handled
  <2>3. doc[T].life \in Active => doc[T].reason # "superseded"
    BY <1>1, <2>1, <2>2 DEF Pristine
  <2>4. ASSUME NEW r \in Subs, NEW x \in call'[r].older, x[1] = T
        PROVE  x[2].reason # "superseded"
    <3>1. CASE x \in call[r].older
      BY <1>1, <2>1, <2>2, <2>4, <3>1 DEF Pristine
    <3>2. CASE x \notin call[r].older
      <4>1. r = c
        BY <1>7, <2>4, <3>2, HandlerLeaves
      <4>2. x[2] = doc[T] /\ doc[T].life \in {"queued", "waiting_for_lock"}
        BY <1>7, <2>4, <3>2, <4>1, Lists
      <4> QED
        BY <2>3, <4>2 DEF Active
    <3> QED
      BY <3>1, <3>2
  <2>5. /\ doc'[T].life \in Active => doc'[T].reason # "superseded"
        /\ call'[o].pc # "close" => doc'[T].life \notin Held
    <3>1. CASE doc'[T] = doc[T]
      <4>1. call'[o].pc # "close" /\ doc[T].life \in Held => call[o].pc = "close"
        BY <1>1, <2>1, <2>2 DEF Pristine
      <4>2. CASE o = c
        <5>1. call[o].pc = "close" => call'[o].pc \in {"answered", "died"}
          BY <1>1, <1>7, <4>2 DEF Handler, Stamp, WriteSnapshot, Admit, AdmissionFails, CloseRejected,
             WriteQueued, ReadOlder, Supersede, CloseOlder, WriteWaiting, Enqueue, CallDies, CallTo, Calls
        <5>2. call[o].pc = "close" => ~Handled(o)'
          BY <5>1 DEF Handled, Over
        <5> QED
          BY <2>3, <3>1, <4>1, <5>2
      <4>3. CASE o # c
        BY <1>7, <2>3, <3>1, <4>1, <4>3, HandlerLeaves
      <4> QED
        BY <4>2, <4>3
    <3>2. CASE doc'[T].life = "finished"
      BY <3>2 DEF Active, Held
    <3>3. CASE T = Target(c) /\ (WriteQueued(c) \/ WriteWaiting(c) \/ AdmissionFails(c))
      <4>1. o = c
        BY <1>7, <2>1, <2>2, <3>3, HandlerLeaves
      <4>2. doc'[T].reason # "superseded"
        BY <1>7, <3>3, HandlerRows
      <4>3. AdmissionFails(c) => call'[c].pc = "close"
        BY <1>1 DEF AdmissionFails, CallTo
      <4>4. WriteQueued(c) \/ WriteWaiting(c) => doc'[T].life \in Active
        <5>1. [Blank EXCEPT !.life = "queued"].life = "queued"
              /\ [Blank EXCEPT !.life = "waiting_for_lock"].life = "waiting_for_lock"
          BY DEF Blank
        <5> QED
          BY <1>1, <3>3, <5>1 DEF WriteQueued, WriteWaiting, Active
      <4> QED
        BY <3>3, <4>1, <4>2, <4>3, <4>4 DEF Active, Held
    <3> QED
      BY <1>7, <3>1, <3>2, <3>3, HandlerRows
  <2> QED
    BY <2>1, <2>2, <2>4, <2>5 DEF Pristine
<1> QED
  BY <1>3, <1>4, <1>5, <1>6, <1>7, ServiceSteps DEF SubmitNext

(* What holds of every submission, whoever cancels or approves it. *)
Orderly == Polite /\ AllHeading /\ AllPristine

LEMMA OrderlyNext == ~Impatient /\ "stall" \notin Faults /\ Orderly /\ [SubmitNext]_submitVars => Orderly'
BY PoliteNext, HeadingNext, PristineNext DEF Orderly, Polite

-----------------------------------------------------------------------------
(* A submission no operator cancels and at most one approves.  While it    *)
(* waits for that approval nobody works on it; from then on the approval   *)
(* leaves it alone.                                                        *)
Contended(s) == \E a, b \in Approvals : a # b /\ approval[a].sub = s /\ approval[b].sub = s
Calm(s) == ~Disturbed(s) /\ ~Contended(s)

Pending(s) ==
  \A a \in Approvals : approval[a].sub = s =>
    /\ approval[a].pc \in {"read", "enqueue", "close"} => queue[s] = Done /\ Unclaimed(s)
    /\ approval[a].pc \in {"read", "close"} => doc[s].life \in Held
    /\ approval[a].pc = "enqueue" => doc[s].life \notin Held
    /\ approval[a].pc = "read" => approval[a].copy.life \in Held

Parked(s) == doc[s].life \in Held => queue[s] = Done /\ Unclaimed(s)

Unheld(s) ==
  \A w \in Workers : Sub(w) = s => worker[w].file.life \notin Held /\ worker[w].next.life \notin Held

Superseding == {"supersede", "closeOlder"}

Listed(s) ==
  \A c \in Subs : call[c].pc \in Superseding =>
    \A x \in call[c].older : x[1] = s => doc[s].life \notin Held

Waits(s) == Pending(s) /\ Parked(s) /\ Unheld(s) /\ Listed(s)

(* A worker that is about to write its rows has the claim, or the          *)
(* submission has been taken out of the queue; and it has it alone.        *)
Stands(w, s) == queue[s].owner = w /\ ~queue[s].lapsed /\ ~queue[s].done

Tidy(s) ==
  /\ \A w \in Workers : Sub(w) = s /\ Busy(worker[w]) => Stands(w, s) \/ queue[s].done
  /\ \A v, w \in Workers : Sub(v) = s /\ Sub(w) = s /\ Busy(worker[v]) /\ Busy(worker[w]) => v = w
  /\ \A w \in Workers : Sub(w) = s /\ Restoring(worker[w])
       => doc[s].life \in Active \/ doc[s].reason = "superseded"

(* One that nothing supersedes is taken out only by its worker; and it is  *)
(* out of the queue while it is in hand, or the call or approval that      *)
(* would have enqueued it died before.                                     *)
Regular(s) ==
  /\ \A w \in Workers : Sub(w) = s =>
       /\ Busy(worker[w]) => Stands(w, s)
       /\ Committed(worker[w]) => doc[s].life \in Active
       /\ worker[w].pc = "markDone" => doc[s].life \notin Active
  /\ doc[s].life \in Active /\ queue[s].done =>
       \/ InHand(s) \/ Dropped(s)
       \/ \E a \in Approvals : approval[a].sub = s /\ approval[a].pc = "enqueue"

(* A step keeps all that. *)
Keeps(s) == Waits(s)' /\ (Tidy(s) => Tidy(s)') /\ (Regular(s) => Regular(s)')

(* Cancellations and second approvals are for good. *)
LEMMA CalmBefore ==
  ASSUME Sane, [SubmitNext]_submitVars, NEW s \in Subs, Calm(s)'
  PROVE  Calm(s)
<1>1. /\ 0 \notin Subs /\ Beginnings /\ \A a \in Approvals : ApprovalSound(a)
      /\ request \in [Requests -> [pc : {"new", "read", "written", "done"},
                                   sub : Subs \cup {0}, copy : Docs]]
      /\ approval \in [Approvals -> [pc : {"new", "read", "enqueue", "close", "done"},
                                     sub : Subs \cup {0}, copy : Docs]]
  BY ControlPlaneAssumption DEF Sane, CallsSound, SubmitTypeOK, TypeOK
<1>2. ASSUME NEW q \in Requests, request[q].sub = s
      PROVE  request'[q].sub = s
  <2>1. request[q].pc # "new"
    BY <1>1, <1>2 DEF Beginnings
  <2>2. CASE ServiceStep \/ UNCHANGED submitVars
    BY <1>2, <2>2, ServiceRows DEF Still, submitVars, vars
  <2>3. ASSUME NEW w \in Workers, ClaimOldest(w) \/ Ordinary(w)
        PROVE  request'[q].sub = s
    BY <1>2, <2>3, OrdinaryRows DEF ClaimOldest
  <2>4. CASE LockLapses \/ \E o \in Subs : ClaimLapses(o)
    BY <1>2, <2>4 DEF LockLapses, ClaimLapses
  <2>5. ASSUME NEW r \in Requests, CancelRead(r)
        PROVE  request'[q].sub = s
    BY <1>1, <1>2, <2>1, <2>5 DEF CancelRead
  <2>6. ASSUME NEW r \in Requests, CancelWrite(r)
        PROVE  request'[q].sub = s
    BY <1>1, <1>2, <2>6 DEF CancelWrite
  <2>7. ASSUME NEW r \in Requests, CancelMarkDone(r)
        PROVE  request'[q].sub = s
    BY <1>1, <1>2, <2>7 DEF CancelMarkDone
  <2> QED
    BY <2>2, <2>3, <2>4, <2>5, <2>6, <2>7, OthersSteps DEF SubmitNext
<1>3. ASSUME NEW a \in Approvals, approval[a].sub = s
      PROVE  approval'[a].sub = s
  <2>1. approval[a].pc # "new"
    BY <1>1, <1>3 DEF ApprovalSound
  <2>2. ASSUME NEW b \in Approvals, Approver(b)
        PROVE  approval'[a].sub = s
    <3>1. /\ approval' = [approval EXCEPT ![b] = approval'[b]]
          /\ approval[b].pc # "new" => approval'[b].sub = approval[b].sub
      BY <2>2, ApproverCalls
    <3> QED
      BY <1>1, <1>3, <2>1, <3>1
  <2>3. CASE UNCHANGED approval
    BY <1>3, <2>3
  <2> QED
    BY <2>2, <2>3, ServiceSteps, HandlerCalls, Resolved DEF SubmitNext, service, submitVars
<1>4. Disturbed(s) => Disturbed(s)'
  BY <1>2 DEF Disturbed
<1>5. Contended(s) => Contended(s)'
  BY <1>3 DEF Contended
<1> QED
  BY <1>4, <1>5 DEF Calm

(* A step that is not about s. *)
LEMMA Elsewhere ==
  ASSUME NEW s \in Subs, Waits(s), doc'[s] = doc[s], queue'[s] = queue[s],
         \A w \in Workers : worker'[w].sub = s => worker'[w] = worker[w],
         \A a \in Approvals : approval[a].sub = s \/ approval'[a].sub = s => approval'[a] = approval[a],
         \A c \in Subs : call'[c].pc \in Superseding => \A x \in call'[c].older :
           x[1] = s => \/ x \in call[c].older /\ call[c].pc \in Superseding
                       \/ doc[s].life \notin Held,
         InHand(s) => InHand(s)', Dropped(s) => Dropped(s)'
  PROVE  Keeps(s)
<1>1. Unclaimed(s) => Unclaimed(s)'
  BY DEF Unclaimed, Sub
<1>2. Pending(s)'
  BY <1>1 DEF Waits, Pending, Done
<1>3. Parked(s)' /\ Unheld(s)'
  BY <1>1 DEF Waits, Parked, Unheld, Sub, Done
<1>4. Listed(s)'
  BY DEF Waits, Listed, Superseding
<1>5. Tidy(s) => Tidy(s)'
  BY DEF Tidy, Stands, Sub
<1>6. Regular(s) => Regular(s)'
  BY DEF Regular, Stands, Sub
<1> QED
  BY <1>2, <1>3, <1>4, <1>5, <1>6 DEF Waits, Keeps

LEMMA HandsKept ==
  ASSUME Sane, Patience, NEW c \in Subs, NEW s \in Subs, Resolve(c) \/ (Handler(c) /\ s # Target(c))
  PROVE  (InHand(s) => InHand(s)') /\ (Dropped(s) => Dropped(s)')
<1>1. \A o \in Subs : Handled(o) => call[o].pc # "new"
  BY DEF Handled
<1>2. \A o \in Subs : call[o].pc = "died" => ~Handled(o)
  BY DEF Handled, Over
<1>3. CASE Resolve(c)
  <2>1. \A o \in Subs : call[o].pc # "new" => call'[o] = call[o] /\ Target(o)' = Target(o)
    BY <1>3, Resolved
  <2> QED
    BY <1>1, <2>1 DEF InHand, Dropped, Handled, Over
<1>4. CASE Handler(c) /\ s # Target(c)
  <2>1. \A o \in Subs : Target(o) = s => call'[o] = call[o] /\ Target(o)' = Target(o)
    BY <1>4, HandlerLeaves
  <2> QED
    BY <1>1, <2>1 DEF InHand, Dropped, Handled, Over
<1> QED
  BY <1>3, <1>4

LEMMA ResolveKeeps ==
  ASSUME Orderly, NEW c \in Subs, Resolve(c), NEW s \in Subs, Waits(s)
  PROVE  Keeps(s)
<1>1. Sane /\ Patience
  BY DEF Orderly, Polite
<1>2. /\ doc' = doc /\ queue' = queue /\ worker' = worker /\ approval' = approval
      /\ \A o \in Subs : o # c => call'[o] = call[o]
      /\ call'[c].pc \in {"refused", "answered", "stamp"}
  BY <1>1, Resolved
<1>3. (InHand(s) => InHand(s)') /\ (Dropped(s) => Dropped(s)')
  BY <1>1, HandsKept
<1>4. \A o \in Subs : call'[o].pc \in Superseding => \A x \in call'[o].older :
        x[1] = s => x \in call[o].older /\ call[o].pc \in Superseding
  BY <1>2 DEF Superseding
<1> QED
  BY <1>2, <1>3, <1>4, Elsewhere

(* The call c supersedes s: it writes it, or takes it out of the queue.    *)
Struck(c, s) ==
  \/ Supersede(c) /\ \E x \in call[c].older : x[1] = s
  \/ CloseOlder(c) /\ call[c].closing = s

LEMMA OtherHandlerKeeps ==
  ASSUME Orderly, NEW c \in Subs, Handler(c), NEW s \in Subs, Waits(s), s # Target(c), ~Struck(c, s)
  PROVE  Keeps(s)
<1>1. Sane /\ Patience
  BY DEF Orderly, Polite
<1>2. doc'[s] = doc[s] /\ queue'[s] = queue[s] /\ UNCHANGED <<worker, approval>>
  BY <1>1, HandlerRows, HandlerLeaves DEF Struck
<1>3. (InHand(s) => InHand(s)') /\ (Dropped(s) => Dropped(s)')
  BY <1>1, HandsKept
<1>4. ASSUME NEW o \in Subs, call'[o].pc \in Superseding, NEW x \in call'[o].older, x[1] = s
      PROVE  (x \in call[o].older /\ call[o].pc \in Superseding) \/ doc[s].life \notin Held
  <2>1. CASE o # c
    BY <1>1, <1>4, <2>1, HandlerLeaves
  <2>2. CASE o = c
    BY <1>1, <1>4, <2>2, Lists DEF Superseding, Held
  <2> QED
    BY <2>1, <2>2
<1> QED
  BY <1>2, <1>3, <1>4, Elsewhere

LEMMA StruckKeeps ==
  ASSUME Orderly, NEW c \in Subs, Handler(c), NEW s \in Subs, Waits(s), s # Target(c), Struck(c, s)
  PROVE  Waits(s)' /\ (Tidy(s) => Tidy(s)')
<1>1. Sane /\ Patience
  BY DEF Orderly, Polite
<1>2. UNCHANGED <<worker, approval>>
  BY <1>1, HandlerLeaves
<1>3. queue'[s] = queue[s] \/ queue'[s] = Done
  BY <1>1, HandlerRows
<1>4. \/ doc'[s] = doc[s]
      \/ /\ doc'[s].life = "finished" /\ doc'[s].reason = "superseded"
         /\ doc[s].life \notin Held
  <2>1. doc'[s] # doc[s] => /\ doc'[s].reason = "superseded" /\ doc'[s].life = "finished"
                            /\ Supersede(c) /\ \E x \in call[c].older : x[1] = s
    BY <1>1, HandlerRows
  <2> QED
    BY <2>1 DEF Supersede, Waits, Listed, Superseding
<1>5. Unclaimed(s)' = Unclaimed(s)
  BY <1>2 DEF Unclaimed, Sub
<1>6. Pending(s)'
  BY <1>2, <1>3, <1>4, <1>5 DEF Waits, Pending, Held, Done
<1>7. Parked(s)' /\ Unheld(s)'
  BY <1>2, <1>3, <1>4, <1>5 DEF Waits, Parked, Unheld, Held, Sub, Done
<1>8. Listed(s)'
  <2>1. CASE doc'[s].life \in Held
    <3>1. doc'[s] = doc[s]
      BY <1>4, <2>1 DEF Held
    <3>2. ASSUME NEW o \in Subs, call'[o].pc \in Superseding, NEW x \in call'[o].older, x[1] = s
          PROVE  (x \in call[o].older /\ call[o].pc \in Superseding) \/ doc[s].life \notin Held
      <4>1. CASE o # c
        BY <1>1, <3>2, <4>1, HandlerLeaves
      <4>2. CASE o = c
        BY <1>1, <3>2, <4>2, Lists DEF Superseding, Held
      <4> QED
        BY <4>1, <4>2
    <3> QED
      BY <3>1, <3>2 DEF Waits, Listed, Superseding
  <2>2. CASE doc'[s].life \notin Held
    BY <2>2 DEF Listed
  <2> QED
    BY <2>1, <2>2
<1>9. Tidy(s) => Tidy(s)'
  BY <1>2, <1>3, <1>4 DEF Tidy, Stands, Sub, Done
<1> QED
  BY <1>6, <1>7, <1>8, <1>9 DEF Waits

(* Where the statements of a call lead. *)
LEMMA Follows ==
  ASSUME Sane, NEW c \in Subs, Handler(c)
  PROVE  \/ Stamp(c) /\ call'[c].pc = "snapshot"
         \/ ReadOlder(c) /\ call'[c].pc = "supersede"
         \/ Supersede(c) /\ call'[c].pc = "closeOlder"
         \/ CloseOlder(c) /\ call'[c].pc = "supersede"
         \/ WriteSnapshot(c) /\ call'[c].pc = "admit"
         \/ Admit(c) /\ call'[c].pc = "queue"
         \/ AdmissionFails(c) /\ call'[c].pc = "close"
         \/ CloseRejected(c) /\ call'[c].pc = "answered"
         \/ WriteQueued(c) /\ call'[c].pc = "older"
         \/ WriteWaiting(c) /\ call'[c].pc = "enqueue"
         \/ Enqueue(c) /\ call'[c].pc = "answered"
         \/ CallDies(c) /\ call'[c].pc = "died"
<1>1. call \in [Subs -> Calls]
  BY DEF Sane, SubmitTypeOK
<1>2. ASSUME NEW pc, CallTo(c, pc)
      PROVE  call'[c].pc = pc
  BY <1>1, <1>2 DEF CallTo, Calls
<1>3. Stamp(c) => call'[c].pc = "snapshot"
  BY <1>1 DEF Stamp, Calls
<1>4. ReadOlder(c) => call'[c].pc = "supersede"
  BY <1>1 DEF ReadOlder, Calls
<1>5. Supersede(c) => call'[c].pc = "closeOlder"
  BY <1>1 DEF Supersede, Calls
<1>6. CloseOlder(c) => call'[c].pc = "supersede"
  BY <1>1 DEF CloseOlder, Calls
<1> QED
  BY <1>2, <1>3, <1>4, <1>5, <1>6 DEF Handler, WriteSnapshot, Admit, AdmissionFails, CloseRejected,
     WriteQueued, WriteWaiting, Enqueue, CallDies

LEMMA OwnHandlerKeeps ==
  ASSUME Orderly, NEW c \in Subs, Handler(c), NEW s \in Subs, Waits(s), s = Target(c)
  PROVE  Keeps(s)
<1>1. Sane /\ Patience /\ Handled(c) /\ Pristine(c) /\ Handling(c) /\ CallSound(c) /\ 0 \notin Subs
      /\ Beginnings /\ call \in [Subs -> Calls]
  BY HandlerLeaves, ControlPlaneAssumption
     DEF Orderly, Polite, AllPristine, Patience, Sane, CallsSound, SubmitTypeOK
<1>2. UNCHANGED <<worker, approval, request>> /\ Target(c)' = s
  BY <1>1, HandlerLeaves
<1>3. Fresh(s)
  BY <1>1 DEF Handling
<1>4. \A w \in Workers : worker'[w].sub # s /\ Sub(w) # s
  BY <1>1, <1>2, <1>3 DEF Fresh, Unclaimed, Beginnings, Sub
<1>5. \A a \in Approvals : approval'[a].sub # s
  BY <1>2, <1>3 DEF Fresh
<1>6. Unclaimed(s)' /\ Pending(s)' /\ Unheld(s)' /\ Tidy(s)'
  BY <1>4, <1>5 DEF Unclaimed, Pending, Unheld, Tidy, Sub
<1>7. Parked(s)'
  <2>1. CASE Enqueue(c)
    BY <1>1, <2>1 DEF Enqueue, Pristine, Parked
  <2>2. CASE ~Enqueue(c)
    <3>1. queue'[s] = Done
      BY <1>1, <1>3, <2>2, HandlerRows DEF Fresh
    <3> QED
      BY <1>6, <3>1 DEF Parked, Done
  <2> QED
    BY <2>1, <2>2
<1>8. Listed(s)'
  <2> SUFFICES ASSUME doc'[s].life \in Held,
                      NEW o \in Subs, call'[o].pc \in Superseding, NEW x \in call'[o].older
               PROVE  x[1] # s
    BY DEF Listed
  <2>1. (x \in call[o].older /\ call[o].pc \in Superseding)
        \/ /\ x[1] \in Subs /\ doc[x[1]].life \in {"queued", "waiting_for_lock"}
           /\ UNCHANGED doc
    <3>1. CASE o # c
      BY <1>1, <3>1, HandlerLeaves
    <3>2. CASE o = c
      <4>1. ReadOlder(c) => UNCHANGED doc
        BY DEF ReadOlder, vars, rows
      <4> QED
        BY <1>1, <3>2, <4>1, Lists DEF Superseding
    <3> QED
      BY <3>1, <3>2
  <2>2. CASE doc'[s] = doc[s]
    BY <2>1, <2>2 DEF Waits, Listed, Held
  <2>3. CASE AdmissionFails(c)
    <3>1. doc[s].life = NoDoc
      BY <1>1, <2>3 DEF AdmissionFails, Handling
    <3>2. \A r \in Subs : \A y \in call[r].older : y[1] # s
      BY <1>1, <3>1 DEF Sane, CallsSound, CallSound, Exists
    <3> QED
      BY <2>1, <3>1, <3>2 DEF NoDoc
  <2>4. CASE WriteQueued(c) \/ WriteWaiting(c)
    <3>1. [Blank EXCEPT !.life = "queued"].life = "queued"
          /\ [Blank EXCEPT !.life = "waiting_for_lock"].life = "waiting_for_lock"
      BY DEF Blank
    <3>2. doc \in [Subs -> Docs]
      BY <1>1 DEF Sane, SubmitTypeOK, TypeOK
    <3> QED
      BY <2>4, <3>1, <3>2 DEF WriteQueued, WriteWaiting, Held
  <2> QED
    BY <1>1, <2>2, <2>3, <2>4, HandlerRows DEF Held
<1>9. Regular(s)'
  <2>1. \A w \in Workers : worker'[w].sub # s
    BY <1>4
  <2>2. ASSUME doc'[s].life \in Active, queue'[s].done
        PROVE  InHand(s)' \/ Dropped(s)'
    <3>1. CASE Handled(c)'
      BY <1>2, <3>1 DEF InHand
    <3>2. CASE call'[c].pc = "died"
      BY <1>2, <3>2 DEF Dropped
    <3>3. CASE call'[c].pc = "answered"
      <4>1. CloseRejected(c) \/ Enqueue(c)
        BY <1>1, <3>3, Follows
      <4>2. CASE CloseRejected(c)
        BY <1>1, <2>2, <4>2 DEF CloseRejected, Handling
      <4>3. CASE Enqueue(c)
        <5>1. queue \in [Subs -> [owner : Workers \cup {NoWorker}, lapsed : BOOLEAN, done : BOOLEAN]]
          BY <1>1 DEF Sane, SubmitTypeOK, TypeOK
        <5> QED
          BY <2>2, <4>3, <5>1 DEF Enqueue, Open
      <4> QED
        BY <4>1, <4>2, <4>3
    <3> QED
      BY <1>1, <3>1, <3>2, <3>3, HandlerLeaves DEF Handled, Over
  <2> QED
    BY <2>1, <2>2 DEF Regular, Sub
<1> QED
  BY <1>6, <1>7, <1>8, <1>9 DEF Waits, Keeps

-----------------------------------------------------------------------------
(* Approvals of another submission, and of this one. *)
LEMMA ApproverKeeps ==
  ASSUME Orderly, ~Impatient, NEW a \in Approvals, Approver(a), NEW s \in Subs, Waits(s),
         approval'[a].sub = s => ~Contended(s)'
  PROVE  Keeps(s)
<1>1. /\ Sane /\ Beginnings /\ 0 \notin Subs /\ ApprovalSound(a) /\ doc \in [Subs -> Docs]
      /\ queue \in [Subs -> [owner : Workers \cup {NoWorker}, lapsed : BOOLEAN, done : BOOLEAN]]
      /\ approval \in [Approvals -> [pc : {"new", "read", "enqueue", "close", "done"},
                                     sub : Subs \cup {0}, copy : Docs]]
      /\ Still
  BY ControlPlaneAssumption, ServiceRows
     DEF Orderly, Polite, Sane, SubmitTypeOK, TypeOK, CallsSound, ServiceStep, Approver
<1>2. /\ UNCHANGED <<call, idempotency, worker>>
      /\ approval' = [approval EXCEPT ![a] = approval'[a]]
      /\ approval[a].pc # "new" => approval'[a].sub = approval[a].sub
  BY <1>1, ApproverCalls DEF Still
<1>3. \A b \in Approvals : b # a => approval'[b] = approval[b]
  BY <1>1, <1>2
<1>4. /\ Unclaimed(s)' = Unclaimed(s) /\ Unheld(s)' = Unheld(s)
      /\ InHand(s)' = InHand(s) /\ Dropped(s)' = Dropped(s)
  BY <1>2 DEF Unclaimed, Unheld, Sub, InHand, Dropped, Handled, Over, Target
<1>5. Unclaimed(s) => \A w \in Workers : Sub(w) # s
  BY <1>1 DEF Unclaimed, Beginnings, Sub
<1>6. CASE approval'[a].sub # s
  <2>1. approval[a].sub # s
    BY <1>1, <1>2, <1>6 DEF ApprovalSound
  <2>2. doc'[s] = doc[s] /\ queue'[s] = queue[s]
    BY <1>1, <2>1 DEF Approver, ApproveRead, ApproveWrite, ApproveQueue, vars, rows
  <2>3. \A b \in Approvals : approval[b].sub = s \/ approval'[b].sub = s => approval'[b] = approval[b]
    BY <1>3, <1>6, <2>1
  <2> QED
    BY <1>2, <1>4, <2>2, <2>3, Elsewhere
<1>7. CASE approval'[a].sub = s /\ ApproveRead(a)
  <2>1. /\ doc' = doc /\ queue' = queue /\ doc[s].life \in Held
        /\ approval'[a].pc = "read" /\ approval'[a].copy = doc[s]
    BY <1>1, <1>7 DEF ApproveRead, Known, Submitted, vars, rows
  <2>2. queue[s] = Done /\ Unclaimed(s)
    BY <2>1 DEF Waits, Parked
  <2>3. Pending(s)'
    BY <1>3, <1>4, <2>1, <2>2 DEF Waits, Pending, Done
  <2>4. Parked(s)' /\ Unheld(s)' /\ Listed(s)'
    BY <1>2, <1>4, <2>1, <2>2 DEF Waits, Parked, Listed, Done
  <2>5. Tidy(s)' /\ Regular(s)'
    BY <1>2, <1>5, <2>1, <2>2 DEF Tidy, Regular, Sub, Held, Active
  <2> QED
    BY <2>3, <2>4, <2>5 DEF Waits, Keeps
<1>8. ASSUME approval'[a].sub = s, ~ApproveRead(a)
      PROVE  /\ approval[a].sub = s /\ approval[a].pc \in {"read", "enqueue", "close"}
             /\ \A b \in Approvals : approval'[b].sub = s => b = a
             /\ queue[s] = Done /\ Unclaimed(s)
  <2>1. approval[a].sub = s /\ approval[a].pc \in {"read", "enqueue", "close"}
    BY <1>2, <1>8 DEF Approver, ApproveWrite, ApproveQueue
  <2>2. \A b \in Approvals : approval'[b].sub = s => b = a
    BY <1>8 DEF Contended
  <2> QED
    BY <2>1, <2>2 DEF Waits, Pending
<1>9. CASE approval'[a].sub = s /\ ApproveWrite(a)
  <2>1. ~ApproveRead(a) /\ approval[a].pc = "read"
    BY <1>9 DEF ApproveRead, ApproveWrite
  <2>2. /\ approval[a].sub = s /\ \A b \in Approvals : approval'[b].sub = s => b = a
        /\ queue[s] = Done /\ Unclaimed(s) /\ doc[s].life \in Held /\ approval[a].copy.life \in Held
    BY <1>8, <1>9, <2>1 DEF Waits, Pending
  <2>3. PICK e : /\ e = approval[a].copy \/ e = [approval[a].copy EXCEPT !.life = "waiting_for_lock"]
                 /\ doc' = [doc EXCEPT ![s] = e]
                 /\ approval' = [approval EXCEPT ![a].copy = Blank,
                      ![a].pc = IF e.life \in {"queued", "waiting_for_lock"} THEN "enqueue"
                                 ELSE IF e.life \in Active THEN "done" ELSE "close"]
    BY <1>9, <2>2 DEF ApproveWrite
  <2>4. queue' = queue /\ doc'[s] = e
    BY <1>1, <1>9, <2>3 DEF ApproveWrite
  <2>5. CASE e = approval[a].copy
    <3>1. e.life \in Held /\ e.life \notin Active /\ e.life \notin {"queued", "waiting_for_lock"}
      BY <2>2, <2>5 DEF Held, Active
    <3>2. approval'[a].pc = "close"
      BY <1>1, <2>3, <3>1
    <3>3. Pending(s)' /\ Parked(s)' /\ Unheld(s)' /\ Listed(s)'
      BY <1>2, <1>4, <2>2, <2>4, <3>1, <3>2 DEF Waits, Pending, Parked, Listed, Done
    <3>4. Tidy(s)' /\ Regular(s)'
      BY <1>2, <1>5, <2>2, <2>4, <3>1 DEF Tidy, Regular, Sub
    <3> QED
      BY <3>3, <3>4 DEF Waits, Keeps
  <2>6. CASE e = [approval[a].copy EXCEPT !.life = "waiting_for_lock"]
    <3>1. e.life = "waiting_for_lock" /\ e.life \notin Held
      BY <1>1, <2>6, ServiceDocs DEF Held
    <3>2. approval'[a].pc = "enqueue" /\ approval'[a].sub = s
      BY <1>1, <1>9, <2>3, <3>1
    <3>3. Pending(s)' /\ Parked(s)' /\ Unheld(s)' /\ Listed(s)'
      BY <1>2, <1>4, <2>2, <2>4, <3>1, <3>2 DEF Waits, Pending, Parked, Listed, Done
    <3>4. Tidy(s)' /\ Regular(s)'
      BY <1>2, <1>5, <2>2, <2>4, <3>1, <3>2 DEF Tidy, Regular, Sub
    <3> QED
      BY <3>3, <3>4 DEF Waits, Keeps
  <2> QED
    BY <2>3, <2>5, <2>6
<1>10. CASE approval'[a].sub = s /\ ApproveQueue(a)
  <2>1. ~ApproveRead(a)
    BY <1>10 DEF ApproveRead, ApproveQueue
  <2>2. /\ approval[a].sub = s /\ \A b \in Approvals : approval'[b].sub = s => b = a
        /\ Unclaimed(s)
    BY <1>8, <1>10, <2>1
  <2>3. /\ doc' = doc /\ approval'[a].pc = "done"
        /\ approval[a].pc = "enqueue" => queue'[s] = Open
        /\ approval[a].pc # "enqueue" => approval[a].pc = "close" /\ queue'[s] = Done
    BY <1>1, <1>10, <2>2 DEF ApproveQueue
  <2>4. /\ approval[a].pc = "enqueue" => doc[s].life \notin Held
        /\ approval[a].pc # "enqueue" => doc[s].life \in Held
    BY <2>2, <2>3 DEF Waits, Pending
  <2>5. Pending(s)' /\ Unheld(s)' /\ Listed(s)'
    BY <1>2, <1>4, <2>2, <2>3 DEF Waits, Pending, Listed
  <2>6. Parked(s)'
    BY <1>4, <2>2, <2>3, <2>4 DEF Parked, Done
  <2>7. Tidy(s)' /\ Regular(s)'
    BY <1>2, <1>5, <2>2, <2>3, <2>4 DEF Tidy, Regular, Sub, Held, Active, Open
  <2> QED
    BY <2>5, <2>6, <2>7 DEF Waits, Keeps
<1> QED
  BY <1>6, <1>7, <1>9, <1>10 DEF Approver

(* Steps of a worker that claims nothing. *)
LEMMA OrdinaryKeeps ==
  ASSUME Orderly, "stall" \notin Faults, NEW w \in Workers, Ordinary(w), UNCHANGED service,
         NEW s \in Subs, Waits(s)
  PROVE  Keeps(s)
<1> DEFINE p == worker[w]
           q == worker'[w]
<1>1. /\ Sane /\ TypeOK /\ WorkersSound /\ WorkExists /\ Beginnings /\ 0 \notin Subs
      /\ worker \in [Workers -> Processes] /\ doc \in [Subs -> Docs]
      /\ queue \in [Subs -> [owner : Workers \cup {NoWorker}, lapsed : BOOLEAN, done : BOOLEAN]]
      /\ Heading(p) /\ ~Stall(w)
  BY ControlPlaneAssumption
     DEF Orderly, Polite, Sane, SubmitTypeOK, TypeOK, AllHeading, Stall, Fault
<1>2. /\ \A v \in Workers : v # w => worker'[v] = worker[v]
      /\ q.pc = "idle" => q.sub = 0
      /\ q.pc # "idle" => p.pc # "idle" /\ q.sub = p.sub
  BY <1>1, WorkerBegins, SubKept
<1>3. /\ UNCHANGED <<call, idempotency, approval>>
      /\ InHand(s)' = InHand(s) /\ Dropped(s)' = Dropped(s)
  BY DEF service, InHand, Dropped, Handled, Over, Target
<1>4. CASE Sub(w) # s
  <2>1. q.sub # s
    BY <1>1, <1>2, <1>4 DEF Sub
  <2>2. doc'[s] = doc[s] /\ queue'[s] = queue[s]
    BY <1>1, <1>4, OrdinaryRows DEF UpsertDoc, MarkDone
  <2>3. \A v \in Workers : worker'[v].sub = s => worker'[v] = worker[v]
    BY <1>2, <2>1
  <2> QED
    BY <1>3, <2>2, <2>3, Elsewhere
<1>5. CASE Sub(w) = s
  <2>1. p.pc # "idle" /\ ~Unclaimed(s)
    BY <1>1, <1>5 DEF Beginnings, Unclaimed, Sub
  <2>2. doc[s].life \notin Held
    BY <2>1 DEF Waits, Parked
  <2>3. \A d \in Memory(w) : d.life \notin Held
    BY <1>5, <2>2, BlankDoc DEF Memory, Waits, Unheld, Held, NoDoc
  <2>4. q.file.life \notin Held /\ q.next.life \notin Held
    BY <1>1, <2>3, WorkerReads DEF From, Held
  <2>5. doc'[s].life \notin Held
    <3>1. UpsertDoc(w) => doc'[s] = p.next
      BY <1>1, <1>5 DEF UpsertDoc
    <3>2. UpsertDoc(w) \/ UNCHANGED doc
      BY OrdinaryRows
    <3> QED
      BY <1>5, <2>2, <3>1, <3>2 DEF Waits, Unheld
  <2>6. Pending(s)'
    BY <1>3, <2>1 DEF Waits, Pending
  <2>7. Parked(s)' /\ Listed(s)'
    BY <2>5 DEF Parked, Listed
  <2>8. Unheld(s)'
    BY <1>2, <2>4 DEF Waits, Unheld, Sub
  <2>9. HasClaim(w) => Stands(w, s) /\ doc[s].life \in Active
    BY <1>5 DEF HasClaim, Stands, Sub
  <2>10. /\ Restoring(p) => Busy(p)
         /\ \A v \in Workers : Restoring(worker[v]) => Busy(worker[v])
         /\ \A v \in Workers : Committed(worker[v]) \/ worker[v].pc = "markDone" => Busy(worker[v])
         /\ Busy(q) => Committed(q) \/ q.pc = "markDone"
         /\ Restoring(q) => Busy(q) /\ q.pc = "upsert"
    BY DEF Restoring, Busy, Committed
  <2>11. CASE UNCHANGED <<doc, queue>> /\ Advances(w, p, q)
    <3>1. \A v : Stands(v, s)' = Stands(v, s)
      BY <2>11 DEF Stands
    <3>2. Busy(q) => Busy(p) \/ Stands(w, s)
      BY <2>9, <2>10, <2>11 DEF Advances
    <3>3. Tidy(s) => Tidy(s)'
      <4> SUFFICES ASSUME Tidy(s) PROVE Tidy(s)'
        OBVIOUS
      <4>1. Busy(q) => Stands(w, s) \/ queue[s].done
        BY <1>5, <3>2 DEF Tidy
      <4>2. ASSUME NEW v \in Workers, Sub(v) = s, Busy(worker[v]), Busy(q)
            PROVE  v = w
        BY <1>5, <3>2, <4>2 DEF Tidy, Stands
      <4>3. Restoring(q) => doc[s].life \in Active \/ doc[s].reason = "superseded"
        BY <1>5, <2>9, <2>11 DEF Tidy, Advances
      <4>4. \A v \in Workers : worker'[v].sub = s /\ Busy(worker'[v]) => Stands(v, s) \/ queue[s].done
        BY <1>2, <4>1 DEF Tidy, Sub
      <4>5. \A u, v \in Workers : worker'[u].sub = s /\ worker'[v].sub = s /\ Busy(worker'[u])
                                    /\ Busy(worker'[v]) => u = v
        BY <1>2, <4>2 DEF Tidy, Sub
      <4>6. \A v \in Workers : worker'[v].sub = s /\ Restoring(worker'[v])
              => doc[s].life \in Active \/ doc[s].reason = "superseded"
        BY <1>2, <4>3 DEF Tidy, Sub
      <4> QED
        BY <2>11, <3>1, <4>4, <4>5, <4>6 DEF Tidy, Sub
    <3>4. Regular(s) => Regular(s)'
      <4> SUFFICES ASSUME Regular(s) PROVE Regular(s)'
        OBVIOUS
      <4>1. Busy(q) => Stands(w, s)
        BY <1>5, <3>2 DEF Regular
      <4>2. Committed(q) => doc[s].life \in Active
        BY <1>5, <2>9, <2>11 DEF Regular, Advances
      <4>3. q.pc = "markDone" => doc[s].life \notin Active
        BY <1>5, <2>11 DEF Regular, Advances
      <4>4. \A v \in Workers : worker'[v].sub = s =>
              /\ Busy(worker'[v]) => Stands(v, s)
              /\ Committed(worker'[v]) => doc[s].life \in Active
              /\ worker'[v].pc = "markDone" => doc[s].life \notin Active
        BY <1>2, <4>1, <4>2, <4>3 DEF Regular, Sub
      <4> QED
        BY <1>3, <2>11, <3>1, <4>4 DEF Regular, Sub
    <3> QED
      BY <2>6, <2>7, <2>8, <3>3, <3>4 DEF Waits, Keeps
  <2>12. CASE Writes(w, p, q)
    <3>1. /\ doc'[s] = p.next /\ queue' = queue /\ p.pc = "upsert"
          /\ p.next.life \in Active => q.pc \notin {"upsert", "markDone"}
          /\ p.next.life \notin Active => q.pc = "markDone"
      BY <1>1, <1>5, <2>12 DEF Writes, UpsertDoc
    <3>2. Busy(p) /\ ~Restoring(q)
      BY <3>1 DEF Busy, Committed, Restoring
    <3>3. \A v : Stands(v, s)' = Stands(v, s)
      BY <3>1 DEF Stands
    <3>4. Tidy(s) => Tidy(s)'
      <4> SUFFICES ASSUME Tidy(s) PROVE Tidy(s)'
        OBVIOUS
      <4>1. \A v \in Workers : Sub(v) = s /\ Busy(worker[v]) => v = w
        BY <1>5, <3>2 DEF Tidy
      <4>2. \A v \in Workers : worker'[v].sub = s /\ Busy(worker'[v]) => v = w
        BY <1>2, <4>1 DEF Sub
      <4>3. \A v \in Workers : worker'[v].sub = s => ~Restoring(worker'[v])
        BY <1>2, <2>10, <3>2, <4>1 DEF Sub
      <4>4. Stands(w, s) \/ queue[s].done
        BY <1>5, <3>2 DEF Tidy
      <4> QED
        BY <3>1, <3>3, <4>2, <4>3, <4>4 DEF Tidy, Sub
    <3>5. Regular(s) => Regular(s)'
      <4> SUFFICES ASSUME Regular(s) PROVE Regular(s)'
        OBVIOUS
      <4>1. Stands(w, s) /\ ~queue[s].done
        BY <1>5, <3>2 DEF Regular, Stands
      <4>2. \A v \in Workers : Sub(v) = s /\ Busy(worker[v]) => v = w
        BY <4>1 DEF Regular, Stands
      <4>3. ASSUME NEW v \in Workers, worker'[v].sub = s
            PROVE  /\ Busy(worker'[v]) => Stands(v, s)
                   /\ Committed(worker'[v]) => doc'[s].life \in Active
                   /\ worker'[v].pc = "markDone" => doc'[s].life \notin Active
        <5>1. CASE v = w
          BY <3>1, <4>1, <5>1 DEF Committed
        <5>2. CASE v # w
          <6>1. ~Busy(worker[v])
            BY <1>2, <4>2, <4>3, <5>2 DEF Sub
          <6> QED
            BY <1>2, <2>10, <5>2, <6>1
        <5> QED
          BY <5>1, <5>2
      <4> QED
        BY <3>1, <3>3, <4>1, <4>3 DEF Regular, Sub
    <3> QED
      BY <2>6, <2>7, <2>8, <3>4, <3>5 DEF Waits, Keeps
  <2>13. CASE MarkDone(w) /\ ~Busy(q)
    <3>1. doc' = doc /\ queue'[s] = Done /\ p.pc = "markDone" /\ Busy(p)
      BY <1>1, <1>5, <2>13 DEF MarkDone, Busy
    <3>2. (Tidy(s) \/ Regular(s)) => \A v \in Workers : Sub(v) = s /\ Busy(worker[v]) => v = w
      BY <1>5, <3>1 DEF Tidy, Regular, Stands
    <3>3. (Tidy(s) \/ Regular(s)) =>
            \A v \in Workers : worker'[v].sub = s => ~Busy(worker'[v]) /\ ~Restoring(worker'[v])
      BY <1>2, <2>10, <2>13, <3>2 DEF Sub
    <3>4. Tidy(s) => Tidy(s)'
      BY <3>3 DEF Tidy, Sub
    <3>5. Regular(s) => Regular(s)'
      <4>1. Regular(s) => doc[s].life \notin Active
        BY <1>5, <3>1 DEF Regular
      <4> QED
        BY <3>1, <3>3, <4>1 DEF Regular, Sub, Busy
    <3> QED
      BY <2>6, <2>7, <2>8, <3>4, <3>5 DEF Waits, Keeps
  <2> QED
    BY <1>1, <2>11, <2>12, <2>13, Moves
<1> QED
  BY <1>4, <1>5

(* A claim is of a row that nobody's claim covers; one that an assertion   *)
(* has found does not lapse before the write it guards.                    *)
LEMMA ClaimKeeps ==
  ASSUME Orderly, NEW w \in Workers, ClaimOldest(w), UNCHANGED service, NEW s \in Subs, Waits(s)
  PROVE  Keeps(s)
<1>1. /\ Beginnings /\ 0 \notin Subs /\ NoWorker \notin Workers
      /\ worker \in [Workers -> Processes]
      /\ queue \in [Subs -> [owner : Workers \cup {NoWorker}, lapsed : BOOLEAN, done : BOOLEAN]]
  BY ControlPlaneAssumption DEF Orderly, Polite, Sane, SubmitTypeOK, TypeOK
<1>2. PICK t \in Subs :
        /\ Claimable(t)
        /\ queue' = [queue EXCEPT ![t].owner = w, ![t].lapsed = FALSE]
        /\ worker' = [worker EXCEPT ![w].pc = "materialize", ![w].sub = t,
             ![w].goal = IF doc[t].life \in {"running", "cancelling"} THEN "recover" ELSE "execute"]
  BY DEF ClaimOldest
<1>3. /\ doc' = doc /\ worker[w].pc = "idle" /\ Sub(w) = 0 /\ worker[w].next = Blank
      /\ worker[w].file = Blank
  BY <1>1 DEF ClaimOldest, Beginnings, Sub, Unread
<1>4. /\ \A v \in Workers : v # w => worker'[v] = worker[v]
      /\ worker'[w].pc = "materialize" /\ worker'[w].sub = t
      /\ worker'[w].file = Blank /\ worker'[w].next = Blank
  BY <1>1, <1>2, <1>3 DEF Processes
<1>5. /\ UNCHANGED <<call, idempotency, approval>>
      /\ InHand(s)' = InHand(s) /\ Dropped(s)' = Dropped(s)
  BY DEF service, InHand, Dropped, Handled, Over, Target
<1>6. CASE t # s
  <2>1. queue'[s] = queue[s] /\ \A v \in Workers : worker'[v].sub = s => worker'[v] = worker[v]
    BY <1>1, <1>2, <1>4, <1>6
  <2> QED
    BY <1>3, <1>5, <2>1, Elsewhere
<1>7. CASE t = s
  <2>1. /\ ~queue[s].done /\ (queue[s].owner = NoWorker \/ queue[s].lapsed)
        /\ doc[s].life \in Active /\ doc[s].life \notin Held /\ queue[s] # Done
        /\ ~queue'[s].done
    BY <1>1, <1>2, <1>7 DEF Claimable, Active, Held, Done
  <2>2. \A v \in Workers : ~Stands(v, s)
    BY <1>1, <2>1 DEF Stands
  <2>3. ~Busy(worker'[w]) /\ ~Restoring(worker'[w])
    BY <1>4 DEF Busy, Committed, Restoring
  <2>4. Pending(s)' /\ Parked(s)' /\ Listed(s)'
    BY <1>3, <1>5, <2>1 DEF Waits, Pending, Parked, Listed
  <2>5. Unheld(s)'
    BY <1>4, BlankDoc DEF Waits, Unheld, Sub, Held, NoDoc
  <2>6. Tidy(s) \/ Regular(s) =>
          \A v \in Workers : worker'[v].sub = s => ~Busy(worker'[v])
    BY <1>4, <2>1, <2>2, <2>3 DEF Tidy, Regular, Sub
  <2>7. \A v \in Workers : /\ Restoring(worker'[v]) => Busy(worker'[v])
                           /\ Committed(worker'[v]) \/ worker'[v].pc = "markDone" => Busy(worker'[v])
    BY DEF Restoring, Busy, Committed
  <2>8. Tidy(s) => Tidy(s)'
    BY <2>6, <2>7 DEF Tidy, Sub
  <2>9. Regular(s) => Regular(s)'
    BY <2>1, <2>6, <2>7 DEF Regular, Sub
  <2> QED
    BY <2>4, <2>5, <2>8, <2>9 DEF Waits, Keeps
<1> QED
  BY <1>6, <1>7

LEMMA LapseKeeps ==
  ASSUME Orderly, NEW t \in Subs, ClaimLapses(t), UNCHANGED service, NEW s \in Subs, Waits(s)
  PROVE  Keeps(s)
<1>1. /\ queue \in [Subs -> [owner : Workers \cup {NoWorker}, lapsed : BOOLEAN, done : BOOLEAN]]
      /\ NoWorker \notin Workers
      /\ worker' = worker /\ doc' = doc
  BY ControlPlaneAssumption DEF Orderly, Polite, Sane, SubmitTypeOK, TypeOK, ClaimLapses
<1>2. /\ UNCHANGED <<call, idempotency, approval>>
      /\ InHand(s)' = InHand(s) /\ Dropped(s)' = Dropped(s)
  BY DEF service, InHand, Dropped, Handled, Over, Target
<1>3. CASE t # s
  <2>1. queue'[s] = queue[s]
    BY <1>1, <1>3 DEF ClaimLapses
  <2> QED
    BY <1>1, <1>2, <2>1, Elsewhere
<1>4. CASE t = s
  <2>1. /\ queue[s] # Done /\ queue'[s].done = queue[s].done
        /\ ~Covers(queue[s].owner, s)
    BY <1>1, <1>4 DEF ClaimLapses, Done
  <2>2. \A v \in Workers : Sub(v) = s /\ Busy(worker[v]) => ~Stands(v, s)
    BY <2>1 DEF Covers, Stands, Busy, Committed, Long
  <2>3. Pending(s)' /\ Parked(s)' /\ Listed(s)' /\ Unheld(s)'
    BY <1>1, <1>2, <2>1 DEF Waits, Pending, Parked, Listed, Unheld, Sub
  <2>4. Tidy(s) => Tidy(s)'
    BY <1>1, <2>1, <2>2 DEF Tidy, Sub
  <2>5. Regular(s) => Regular(s)'
    BY <1>1, <1>2, <2>1, <2>2 DEF Regular, Sub, Busy
  <2> QED
    BY <2>3, <2>4, <2>5 DEF Waits, Keeps
<1> QED
  BY <1>3, <1>4

(* Cancellations of other submissions. *)
LEMMA CancelKeeps ==
  ASSUME Orderly, UNCHANGED service, NEW s \in Subs, Waits(s), ~Disturbed(s), NEW q \in Requests,
         CancelRead(q) \/ CancelWrite(q) \/ CancelMarkDone(q)
  PROVE  Keeps(s)
<1>1. /\ UNCHANGED <<call, idempotency, approval>>
      /\ InHand(s)' = InHand(s) /\ Dropped(s)' = Dropped(s)
  BY DEF service, InHand, Dropped, Handled, Over, Target
<1>2. request[q].sub # s
  BY DEF Disturbed
<1>3. /\ doc \in [Subs -> Docs]
      /\ queue \in [Subs -> [owner : Workers \cup {NoWorker}, lapsed : BOOLEAN, done : BOOLEAN]]
  BY DEF Orderly, Polite, Sane, SubmitTypeOK, TypeOK
<1>4. worker' = worker /\ doc'[s] = doc[s] /\ queue'[s] = queue[s]
  BY <1>2, <1>3 DEF CancelRead, CancelWrite, CancelMarkDone, rows
<1> QED
  BY <1>1, <1>4, Elsewhere

(* Every step keeps that of a submission that is left in peace, but that   *)
(* one that supersedes it takes it out of the queue.                       *)
LEMMA CalmNext ==
  ASSUME ~Impatient, "stall" \notin Faults, Orderly, [SubmitNext]_submitVars,
         NEW s \in Subs, Waits(s), Calm(s)'
  PROVE  \/ Keeps(s)
         \/ /\ \E c \in Subs : Handler(c) /\ Struck(c, s)
            /\ Waits(s)' /\ (Tidy(s) => Tidy(s)')
<1>1. Sane /\ Calm(s)
  BY CalmBefore DEF Orderly, Polite
<1>2. CASE UNCHANGED submitVars
  <2>1. /\ UNCHANGED <<doc, queue, worker, call, idempotency, approval>>
        /\ InHand(s)' = InHand(s) /\ Dropped(s)' = Dropped(s)
    BY <1>2 DEF submitVars, vars, rows, service, InHand, Dropped, Handled, Over, Target
  <2> QED
    BY <2>1, Elsewhere
<1>3. ASSUME NEW c \in Subs, Resolve(c)
      PROVE  Keeps(s)
  BY <1>3, ResolveKeeps
<1>4. ASSUME NEW c \in Subs, Handler(c)
      PROVE  \/ Keeps(s)
             \/ Struck(c, s) /\ Waits(s)' /\ (Tidy(s) => Tidy(s)')
  BY <1>4, OtherHandlerKeeps, OwnHandlerKeeps, StruckKeeps
<1>5. ASSUME NEW a \in Approvals, Approver(a)
      PROVE  Keeps(s)
  BY <1>5, ApproverKeeps DEF Calm
<1>6. ASSUME WorkersAndOperators, UNCHANGED service
      PROVE  Keeps(s)
  <2>1. CASE LockLapses
    <3>1. /\ UNCHANGED <<doc, queue, worker, call, idempotency, approval>>
          /\ InHand(s)' = InHand(s) /\ Dropped(s)' = Dropped(s)
      BY <1>6, <2>1 DEF LockLapses, rows, service, InHand, Dropped, Handled, Over, Target
    <3> QED
      BY <3>1, Elsewhere
  <2> QED
    BY <1>1, <1>6, <2>1, OthersSteps, OrdinaryKeeps, ClaimKeeps, LapseKeeps, CancelKeeps DEF Calm
<1> QED
  BY <1>2, <1>3, <1>4, <1>5, <1>6, ServiceSteps DEF SubmitNext

-----------------------------------------------------------------------------
(* Of every submission that is left in peace; of one that nothing can      *)
(* supersede, that only its worker takes it out of the queue, too.         *)
Peace ==
  \A s \in Subs : Calm(s) =>
    /\ Waits(s) /\ Tidy(s)
    /\ Kind(s) # "deploy" => Regular(s)

AtPeace == Orderly /\ Peace

LEMMA PeaceInit == SubmitInit => AtPeace
<1> SUFFICES ASSUME SubmitInit PROVE AtPeace
  OBVIOUS
<1>1. Polite
  BY PoliteInit
<1>2. AllHeading
  BY DEF SubmitInit, AllHeading, Heading, Idle
<1>3. AllPristine
  BY DEF SubmitInit, AllPristine, Pristine, Handled, NewCall
<1>4. ASSUME NEW s \in Subs
      PROVE  Waits(s) /\ Tidy(s) /\ Regular(s)
  <2>1. /\ doc[s] = Blank /\ 0 \notin Subs
        /\ \A w \in Workers : worker[w].pc = "idle" /\ Sub(w) = 0
        /\ \A a \in Approvals : approval[a].sub = 0
        /\ \A c \in Subs : call[c].pc = "new"
    BY ControlPlaneAssumption DEF SubmitInit, Idle, NewCall, Sub
  <2>2. Waits(s)
    BY <2>1, BlankDoc DEF Waits, Pending, Parked, Unheld, Listed, Superseding, Held, NoDoc
  <2>3. Tidy(s) /\ Regular(s)
    BY <2>1, BlankDoc DEF Tidy, Regular, Active, NoDoc
  <2> QED
    BY <2>2, <2>3
<1> QED
  BY <1>1, <1>2, <1>3, <1>4 DEF AtPeace, Orderly, Peace

LEMMA PeaceNext ==
  ~Impatient /\ "stall" \notin Faults /\ AtPeace /\ [SubmitNext]_submitVars => AtPeace'
<1> SUFFICES ASSUME ~Impatient, "stall" \notin Faults, AtPeace, [SubmitNext]_submitVars
             PROVE  AtPeace'
  OBVIOUS
<1>1. Orderly /\ Orderly' /\ Sane /\ Patience
  BY OrderlyNext DEF AtPeace, Orderly, Polite
<1>2. ASSUME NEW s \in Subs, Calm(s)'
      PROVE  Waits(s)' /\ Tidy(s)' /\ (Kind(s)' # "deploy" => Regular(s)')
  <2>1. Calm(s)
    BY <1>1, <1>2, CalmBefore
  <2>2. Waits(s) /\ Tidy(s) /\ (Kind(s) # "deploy" => Regular(s))
    BY <2>1 DEF AtPeace, Peace
  <2>3. Kind(s)' # "deploy" => Kind(s) # "deploy"
    BY <1>1, DeploysKept
  <2>4. ASSUME NEW c \in Subs, Handler(c), Struck(c, s)
        PROVE  Kind(s) = "deploy"
    <3>1. Handling(c)
      BY <1>1 DEF Patience
    <3>2. CASE Supersede(c) /\ \E x \in call[c].older : x[1] = s
      <4>1. call[c].pc = "supersede"
        BY <3>2 DEF Supersede
      <4> QED
        BY <3>1, <3>2, <4>1 DEF Handling
    <3>3. CASE CloseOlder(c) /\ call[c].closing = s
      <4>1. call[c].pc = "closeOlder"
        BY <3>3 DEF CloseOlder
      <4> QED
        BY <3>1, <3>3, <4>1 DEF Handling
    <3> QED
      BY <2>4, <3>2, <3>3 DEF Struck
  <2> QED
    BY <1>1, <1>2, <2>2, <2>3, <2>4, CalmNext DEF Keeps
<1> QED
  BY <1>1, <1>2 DEF AtPeace, Peace

LEMMA PeaceAlways == ~Impatient /\ "stall" \notin Faults => (SubmitSpec => []AtPeace)
<1> SUFFICES ASSUME ~Impatient, "stall" \notin Faults PROVE SubmitSpec => []AtPeace
  OBVIOUS
<1>1. AtPeace /\ [SubmitNext]_submitVars => AtPeace'
  BY PeaceNext
<1> QED
  BY <1>1, PeaceInit, PTL DEF SubmitSpec

(* However calls, approvals, workers, crashes, errors and aborts           *)
(* interleave: a run that nothing supersedes or cancels is in the queue    *)
(* once its call or approval has been answered, if no two approvals are of *)
(* one submission.  Of two, the one that rejects may close the row that    *)
(* the one that approves has just opened.                                  *)
THEOREM AcceptedQueued ==
  ~Impatient /\ "stall" \notin Faults =>
    (SubmitSpec => []((\A s \in Subs : ~Contended(s)) => AcceptedRunIsQueued))
<1> SUFFICES ASSUME ~Impatient, "stall" \notin Faults
             PROVE  SubmitSpec => []((\A s \in Subs : ~Contended(s)) => AcceptedRunIsQueued)
  OBVIOUS
<1>1. AtPeace => ((\A s \in Subs : ~Contended(s)) => AcceptedRunIsQueued)
  BY DEF AtPeace, Peace, Calm, Regular, AcceptedRunIsQueued
<1> QED
  BY <1>1, PeaceAlways, PTL

-----------------------------------------------------------------------------
(* A submission that has ended, is left in peace and not superseded has    *)
(* nobody left who would write it as one that is to be worked on.          *)
LEMMA EndedStaysEnded ==
  ASSUME ~Impatient, "stall" \notin Faults, AtPeace, [SubmitNext]_submitVars,
         NEW s \in Subs, Calm(s)', doc[s].life \in Ended, doc[s].reason # "superseded"
  PROVE  doc'[s].life \in Ended
<1>1. /\ Orderly /\ Sane /\ Patience /\ TypeOK /\ WorkersSound /\ WorkExists
      /\ doc \in [Subs -> Docs] /\ worker \in [Workers -> Processes]
  BY DEF AtPeace, Orderly, Polite, Sane, SubmitTypeOK, TypeOK
<1>2. Calm(s) /\ Waits(s) /\ Tidy(s)
  BY <1>1, CalmBefore DEF AtPeace, Peace
<1>3. doc[s].life \notin Active /\ doc[s].life \notin Held /\ doc[s].life # NoDoc
  BY DEF Ended, Active, Held, NoDoc
<1>4. ASSUME doc'[s] = doc[s]
      PROVE  doc'[s].life \in Ended
  BY <1>4
<1>5. ASSUME NEW c \in Subs, Handler(c)
      PROVE  doc'[s].life \in Ended
  <2>1. ~(s = Target(c) /\ (WriteQueued(c) \/ WriteWaiting(c) \/ AdmissionFails(c)))
    BY <1>1, <1>3 DEF WriteQueued, WriteWaiting, AdmissionFails, Patience, Handling
  <2> QED
    BY <1>1, <1>4, <1>5, <2>1, HandlerRows DEF Ended
<1>6. ASSUME NEW a \in Approvals, Approver(a)
      PROVE  doc'[s].life \in Ended
  <2>1. ApproveWrite(a) => approval[a].sub # s
    BY <1>2, <1>3 DEF ApproveWrite, Waits, Pending
  <2>2. doc'[s] = doc[s]
    BY <1>1, <1>6, <2>1 DEF Approver, ApproveRead, ApproveWrite, ApproveQueue, vars, rows
  <2> QED
    BY <1>4, <2>2
<1>7. ASSUME NEW w \in Workers, Ordinary(w)
      PROVE  doc'[s].life \in Ended
  <2>1. CASE UpsertDoc(w) /\ Sub(w) = s
    <3>1. doc'[s] = worker[w].next /\ worker[w].pc = "upsert" /\ worker[w].next \in Docs
      BY <1>1, <2>1 DEF UpsertDoc, Processes
    <3>2. worker[w].next.life # NoDoc /\ worker[w].next.life \notin Held
      BY <1>1, <1>2, <2>1, <3>1 DEF WorkersSound, Sound, Writing, Waits, Unheld
    <3>3. worker[w].next.life \notin Active
      BY <1>2, <1>3, <2>1, <3>1 DEF Tidy, Restoring
    <3> QED
      BY <3>1, <3>2, <3>3 DEF Docs
  <2>2. CASE ~(UpsertDoc(w) /\ Sub(w) = s)
    <3>1. doc'[s] = doc[s]
      BY <1>1, <1>7, <2>2, OrdinaryRows DEF UpsertDoc
    <3> QED
      BY <1>4, <3>1
  <2> QED
    BY <2>1, <2>2
<1>8. ASSUME NEW q \in Requests, CancelRead(q) \/ CancelWrite(q) \/ CancelMarkDone(q)
      PROVE  doc'[s].life \in Ended
  <2>1. request[q].sub # s
    BY <1>2 DEF Calm, Disturbed
  <2>2. doc'[s] = doc[s]
    BY <1>1, <1>8, <2>1 DEF CancelRead, CancelWrite, CancelMarkDone, rows
  <2> QED
    BY <1>4, <2>2
<1>9. ASSUME \/ UNCHANGED submitVars \/ \E c \in Subs : Resolve(c)
             \/ \E w \in Workers : ClaimOldest(w)
             \/ LockLapses \/ \E t \in Subs : ClaimLapses(t)
      PROVE  doc'[s].life \in Ended
  <2>1. doc'[s] = doc[s]
    BY <1>1, <1>9, Resolved DEF submitVars, vars, rows, ClaimOldest, LockLapses, ClaimLapses
  <2> QED
    BY <1>4, <2>1
<1> QED
  BY <1>5, <1>6, <1>7, <1>8, <1>9, ServiceSteps, OthersSteps DEF SubmitNext

(* The same of each submission: no operator cancels it, no two approve it. *)
THEOREM EndedOutOfReach ==
  ~Impatient /\ "stall" \notin Faults =>
    (SubmitSpec =>
       [][\A s \in Subs : Calm(s)' /\ doc[s].life \in Ended /\ doc[s].reason # "superseded"
            => doc'[s].life \in Ended]_submitVars)
<1> SUFFICES ASSUME ~Impatient, "stall" \notin Faults
             PROVE  SubmitSpec =>
       [][\A s \in Subs : Calm(s)' /\ doc[s].life \in Ended /\ doc[s].reason # "superseded"
            => doc'[s].life \in Ended]_submitVars
  OBVIOUS
<1>1. AtPeace /\ [SubmitNext]_submitVars =>
       [\A s \in Subs : Calm(s)' /\ doc[s].life \in Ended /\ doc[s].reason # "superseded"
            => doc'[s].life \in Ended]_submitVars
  BY EndedStaysEnded
<1> QED
  BY <1>1, PeaceAlways, PTL DEF SubmitSpec

(* Neither a retry nor an approval revives a submission that has ended,    *)
(* where no operator cancels and one approves.                             *)
THEOREM EndedNotRevived ==
  ~Impatient /\ "stall" \notin Faults /\ Requests = {} /\ (\A a, b \in Approvals : a = b) =>
    (SubmitSpec => EndedIsNotRevived)
<1> SUFFICES ASSUME ~Impatient, "stall" \notin Faults, Requests = {}, \A a, b \in Approvals : a = b
             PROVE  SubmitSpec => EndedIsNotRevived
  OBVIOUS
<1>1. \A s \in Subs : Calm(s)'
  BY DEF Calm, Disturbed, Contended
<1>2. AtPeace /\ [SubmitNext]_submitVars =>
       [\A s \in Subs : doc[s].life \in Ended /\ doc[s].reason # "superseded"
            => doc'[s].life \in Ended]_submitVars
  BY <1>1, EndedStaysEnded
<1> QED
  BY <1>2, PeaceAlways, PTL DEF SubmitSpec, EndedIsNotRevived

-----------------------------------------------------------------------------
(* Superseding each other: a call that supersedes is in flight, and is the *)
(* next to survive; or it died; or one of the deploys lasts: nobody has    *)
(* been told that it is superseded, and it is in the queue, has ended or   *)
(* has been cancelled.                                                     *)
InFlight == \E c \in Subs : call[c].pc \in Superseding /\ Kind(Target(c)) = "deploy"
Died == \E c \in Subs : call[c].pc = "died"

Lasting(o) ==
  /\ Kind(o) = "deploy" /\ Exists(o) /\ ~Told(o)
  /\ doc[o].life \notin Held /\ Unheld(o)
  /\ \A a \in Approvals : approval[a].sub # o
  /\ Disturbed(o) \/ Regular(o)

(* Who closes the row of another submission is a deploy. *)
DeploysClose == \A c \in Subs : call[c].pc = "closeOlder" => Kind(Target(c)) = "deploy"

Surviving == (\E s \in Subs : Told(s)) => Died \/ InFlight \/ \E o \in Subs : Lasting(o)

(* A call that has come in stays what it is. *)
LEMMA CallsElsewhere ==
  ASSUME Sane, Patience, [SubmitNext]_submitVars, NEW c \in Subs, call[c].pc # "new", ~Handler(c)
  PROVE  call'[c] = call[c] /\ Target(c)' = Target(c)
<1>1. CASE UNCHANGED <<call, idempotency>>
  BY <1>1 DEF Target
<1>2. CASE UNCHANGED submitVars \/ UNCHANGED service
  BY <1>1, <1>2 DEF submitVars, service
<1>3. ASSUME NEW o \in Subs, Resolve(o)
      PROVE  call'[c] = call[c] /\ Target(c)' = Target(c)
  BY <1>3, Resolved
<1>4. ASSUME NEW o \in Subs, Handler(o)
      PROVE  call'[c] = call[c] /\ Target(c)' = Target(c)
  BY <1>4, HandlerLeaves
<1>5. ASSUME NEW a \in Approvals, Approver(a)
      PROVE  call'[c] = call[c] /\ Target(c)' = Target(c)
  BY <1>1, <1>5, ApproverCalls
<1> QED
  BY <1>2, <1>3, <1>4, <1>5, ServiceSteps DEF SubmitNext

LEMMA DeploysCloseNext ==
  ASSUME Sane, Patience, DeploysClose, [SubmitNext]_submitVars
  PROVE  DeploysClose'
<1> SUFFICES ASSUME NEW c \in Subs, call'[c].pc = "closeOlder"
             PROVE  Kind(Target(c))' = "deploy"
  BY DEF DeploysClose
<1>1. \A o \in Subs : CallSound(o) /\ Handling(o)
  BY DEF Sane, CallsSound, Patience
<1>2. call[c].pc # "new"
  <2>1. CASE call[c].pc = "new"
    <3>1. call'[c] # call[c]
      BY <2>1
    <3>2. ~UNCHANGED submitVars /\ ~UNCHANGED service /\ \A a \in Approvals : ~Approver(a)
      BY <3>1, ApproverCalls DEF submitVars, service
    <3>3. \A o \in Subs : ~Handler(o)
      BY <2>1, <3>1, HandlerLeaves DEF Handled
    <3>4. \A o \in Subs : ~Resolve(o)
      BY <3>1, Resolved
    <3> QED
      BY <3>2, <3>3, <3>4, ServiceSteps DEF SubmitNext
  <2> QED
    BY <2>1
<1>3. PICK T \in Subs : T = Target(c)
  BY <1>1, <1>2 DEF CallSound
<1>4. CASE Handler(c)
  <2>1. Target(c)' = T /\ Supersede(c)
    BY <1>3, <1>4, HandlerLeaves, Follows
  <2>2. Kind(T) = "deploy"
    BY <1>1, <1>3, <2>1 DEF Supersede, Handling
  <2>3. Kind(T)' = "deploy"
    BY <2>2, DeploysKept
  <2> QED
    BY <2>1, <2>3
<1>5. CASE ~Handler(c)
  <2>1. call'[c] = call[c] /\ Target(c)' = T
    BY <1>2, <1>3, <1>5, CallsElsewhere
  <2>2. Kind(T)' = "deploy"
    BY <1>3, <2>1, DeploysKept DEF DeploysClose
  <2> QED
    BY <2>1, <2>2
<1> QED
  BY <1>4, <1>5

(* Whoever strikes a submission is in flight. *)
LEMMA Strikes ==
  ASSUME Sane, Patience, DeploysClose, [SubmitNext]_submitVars,
         NEW c \in Subs, Handler(c), NEW s \in Subs, Struck(c, s)
  PROVE  InFlight'
<1>1. Handling(c)
  BY DEF Patience
<1>2. PICK T \in Subs : T = Target(c)
  BY HandlerLeaves
<1>3. CASE Supersede(c) /\ \E x \in call[c].older : x[1] = s
  <2>1. call[c].pc = "supersede" /\ call'[c].pc \in Superseding
    <3>1. call \in [Subs -> Calls] /\ call[c].pc = "supersede"
      BY <1>3 DEF Sane, SubmitTypeOK, Supersede
    <3> QED
      BY <1>3, <3>1 DEF Supersede, Calls, Superseding
  <2>2. Kind(T) = "deploy"
    BY <1>1, <1>2, <1>3, <2>1 DEF Handling
  <2> QED
    BY <1>2, <2>1, <2>2, HandlerLeaves DEF InFlight
<1>4. CASE CloseOlder(c)
  <2>1. call[c].pc = "closeOlder" /\ call'[c].pc \in Superseding
    <3>1. call \in [Subs -> Calls] /\ call[c].pc = "closeOlder"
      BY <1>4 DEF Sane, SubmitTypeOK, CloseOlder
    <3> QED
      BY <1>4, <3>1 DEF CloseOlder, Calls, Superseding
  <2>2. Kind(T) = "deploy"
    BY <1>2, <2>1 DEF DeploysClose
  <2> QED
    BY <1>2, <2>1, <2>2, HandlerLeaves DEF InFlight
<1> QED
  BY <1>3, <1>4 DEF Struck

(* The last write of a call that supersedes lasts. *)
LEMMA WrittenLasts ==
  ASSUME Orderly, [SubmitNext]_submitVars, NEW c \in Subs, WriteWaiting(c),
         NEW T \in Subs, T = Target(c), Kind(T) = "deploy"
  PROVE  Lasting(T)'
<1>1. /\ Sane /\ Patience /\ Handler(c) /\ Handling(c) /\ Pristine(c) /\ Beginnings /\ 0 \notin Subs
      /\ call \in [Subs -> Calls] /\ doc \in [Subs -> Docs]
  BY ControlPlaneAssumption
     DEF Orderly, Polite, Patience, AllPristine, Sane, SubmitTypeOK, TypeOK, Handler
<1>2. /\ UNCHANGED <<worker, approval, request>> /\ Target(c)' = T /\ Handled(c)
      /\ \A o \in Subs : o # c => call'[o] = call[o]
  BY <1>1, HandlerLeaves
<1>3. call'[c].older = call[c].older /\ call'[c].pc = "enqueue" /\ call[c].pc = "supersede"
  BY <1>1 DEF WriteWaiting, CallTo, Calls
<1>4. doc'[T].life = "waiting_for_lock" /\ doc'[T].reason = "none"
  <2>1. doc'[T] = [Blank EXCEPT !.life = "waiting_for_lock"]
    BY <1>1 DEF WriteWaiting
  <2> QED
    BY <2>1 DEF Blank
<1>5. Fresh(T)
  BY <1>1, <1>2 DEF Handling
<1>6. \A w \in Workers : worker'[w].sub # T
  BY <1>1, <1>2, <1>5 DEF Fresh, Unclaimed, Beginnings, Sub
<1>7. \A a \in Approvals : approval'[a].sub # T
  BY <1>2, <1>5 DEF Fresh
<1>8. \A q \in Requests : request'[q].sub # T
  BY <1>2, <1>5 DEF Fresh
<1>9. \A o \in Subs : \A x \in call'[o].older : x[1] = T => x[2].reason # "superseded"
  BY <1>1, <1>2, <1>3 DEF Pristine
<1>10. ~Told(T)'
  BY <1>4, <1>6, <1>7, <1>8, <1>9 DEF Told, Sub
<1>11. Kind(T)' = "deploy"
  BY <1>1, DeploysKept
<1>12. Exists(T)' /\ doc'[T].life \notin Held
  BY <1>4 DEF Exists, NoDoc, Held
<1>13. Unheld(T)'
  BY <1>6 DEF Unheld, Sub
<1>14. Regular(T)'
  <2>1. InHand(T)'
    BY <1>2, <1>3 DEF InHand, Handled, Over
  <2> QED
    BY <1>6, <2>1 DEF Regular, Sub
<1> QED
  BY <1>7, <1>10, <1>11, <1>12, <1>13, <1>14 DEF Lasting

LEMMA LastingNext ==
  ASSUME ~Impatient, "stall" \notin Faults, Orderly, [SubmitNext]_submitVars,
         NEW o \in Subs, Lasting(o), \A c \in Subs : Handler(c) => ~Struck(c, o)
  PROVE  Lasting(o)'
<1>1. /\ Sane /\ Patience /\ TypeOK /\ WorkersSound /\ WorkExists /\ Beginnings /\ 0 \notin Subs
      /\ call \in [Subs -> Calls] /\ doc \in [Subs -> Docs] /\ worker \in [Workers -> Processes]
      /\ request \in [Requests -> [pc : {"new", "read", "written", "done"},
                                   sub : Subs \cup {0}, copy : Docs]]
  BY ControlPlaneAssumption DEF Orderly, Polite, Sane, SubmitTypeOK, TypeOK
<1>2. /\ Kind(o) = "deploy" /\ Exists(o) /\ ~Told(o) /\ doc[o].life \notin Held /\ Unheld(o)
      /\ \A a \in Approvals : approval[a].sub # o
  BY DEF Lasting
<1>3. Kind(o)' = "deploy" /\ Exists(o)'
  <2>1. CASE UNCHANGED submitVars
    BY <1>1, <1>2, <2>1, DeploysKept DEF submitVars, vars, rows, Exists
  <2> QED
    BY <1>1, <1>2, <2>1, DeploysKept, DocsKept
<1>4. ~Told(o)'
  <2>1. \A c \in Subs : ~(Supersede(c) /\ \E x \in call[c].older : x[1] = o)
    BY DEF Struck, Handler
  <2> QED
    BY <1>1, <1>2, <2>1, ToldNext
<1>5. \A a \in Approvals : approval'[a].sub # o
  <2>1. ASSUME NEW b \in Approvals, Approver(b)
        PROVE  approval'[b].sub # o
    <3>1. CASE ApproveRead(b)
      <4>1. approval[b].pc = "new" /\ approval \in [Approvals -> [pc : {"new", "read", "enqueue", "close", "done"},
                              sub : Subs \cup {0}, copy : Docs]]
        BY <1>1, <3>1 DEF ApproveRead, Sane, SubmitTypeOK
      <4> QED
        BY <1>2, <3>1, <4>1 DEF ApproveRead
    <3>2. CASE ~ApproveRead(b)
      <4>1. approval[b].pc # "new"
        BY <2>1, <3>2 DEF Approver, ApproveWrite, ApproveQueue
      <4> QED
        BY <1>1, <1>2, <2>1, <4>1, ApproverCalls
    <3> QED
      BY <3>1, <3>2
  <2>2. ASSUME NEW b \in Approvals, Approver(b), NEW a \in Approvals
        PROVE  approval'[a].sub # o
    <3>1. approval' = [approval EXCEPT ![b] = approval'[b]]
      BY <1>1, <2>2, ApproverCalls
    <3>2. a # b => approval'[a] = approval[a]
      BY <1>1, <3>1 DEF Sane, SubmitTypeOK
    <3> QED
      BY <1>2, <2>1, <2>2, <3>2
  <2>3. CASE UNCHANGED approval
    BY <1>2, <2>3
  <2> QED
    BY <1>1, <2>2, <2>3, ServiceSteps, HandlerCalls, Resolved DEF SubmitNext, service, submitVars
<1>6. doc'[o].life \notin Held
  <2>1. CASE doc'[o] = doc[o]
    BY <1>2, <2>1
  <2>2. ASSUME NEW c \in Subs, Handler(c)
        PROVE  doc'[o].life \notin Held
    <3>1. AdmissionFails(c) => Target(c) # o
      BY <1>1, <1>2 DEF AdmissionFails, Patience, Handling, Exists
    <3>2. WriteQueued(c) /\ Target(c) = o => doc'[o].life = "queued"
      BY <1>1, <2>2, HandlerRows
    <3>3. WriteWaiting(c) /\ Target(c) = o => doc'[o].life = "waiting_for_lock"
      <4>1. WriteWaiting(c) /\ Target(c) = o => doc'[o] = [Blank EXCEPT !.life = "waiting_for_lock"]
        BY <1>1 DEF WriteWaiting
      <4> QED
        BY <4>1 DEF Blank
    <3>4. \/ doc'[o] = doc[o]
          \/ o = Target(c) /\ (WriteQueued(c) \/ WriteWaiting(c) \/ AdmissionFails(c))
          \/ doc'[o].life = "finished"
      BY <1>1, <2>2, HandlerRows
    <3> QED
      BY <2>1, <3>1, <3>2, <3>3, <3>4 DEF Held
  <2>3. ASSUME NEW a \in Approvals, Approver(a)
        PROVE  doc'[o].life \notin Held
    <3>1. doc'[o] = doc[o]
      BY <1>1, <1>2, <2>3 DEF Approver, ApproveRead, ApproveWrite, ApproveQueue, vars, rows
    <3> QED
      BY <2>1, <3>1
  <2>4. ASSUME NEW w \in Workers, Ordinary(w)
        PROVE  doc'[o].life \notin Held
    <3>1. UpsertDoc(w) => doc'[o] = doc[o] \/ (Sub(w) = o /\ doc'[o] = worker[w].next)
      BY <1>1 DEF UpsertDoc
    <3> QED
      BY <1>2, <2>1, <2>4, <3>1, OrdinaryRows DEF Unheld
  <2>5. ASSUME NEW q \in Requests, CancelRead(q) \/ CancelWrite(q) \/ CancelMarkDone(q)
        PROVE  doc'[o].life \notin Held
    <3>1. CASE CancelWrite(q)
      <4>1. \A d \in Docs : CancelledDoc(d).life \notin Held
        BY DEF CancelledDoc, Held, Docs
      <4>2. doc'[o] = doc[o] \/ doc'[o] = CancelledDoc(request[q].copy)
        BY <1>1, <3>1 DEF CancelWrite
      <4> QED
        BY <1>1, <2>1, <4>1, <4>2
    <3>2. CASE ~CancelWrite(q)
      BY <2>1, <2>5, <3>2 DEF CancelRead, CancelMarkDone, rows
    <3> QED
      BY <3>1, <3>2
  <2>6. CASE UNCHANGED submitVars \/ (\E c \in Subs : Resolve(c))
               \/ (\E w \in Workers : ClaimOldest(w)) \/ LockLapses \/ \E t \in Subs : ClaimLapses(t)
    <3>1. doc'[o] = doc[o]
      BY <1>1, <2>6, Resolved DEF submitVars, vars, rows, ClaimOldest, LockLapses, ClaimLapses
    <3> QED
      BY <2>1, <3>1
  <2> QED
    BY <2>2, <2>3, <2>4, <2>5, <2>6, ServiceSteps, OthersSteps DEF SubmitNext
<1>7. Unheld(o)'
  <2> SUFFICES ASSUME NEW w \in Workers, worker'[w].sub = o
               PROVE  worker'[w].file.life \notin Held /\ worker'[w].next.life \notin Held
    BY DEF Unheld, Sub
  <2>1. CASE worker'[w] = worker[w]
    BY <1>2, <2>1 DEF Unheld, Sub
  <2>2. ASSUME NEW v \in Workers, Ordinary(v)
        PROVE  worker'[w].file.life \notin Held /\ worker'[w].next.life \notin Held
    <3>1. CASE w = v
      <4>1. worker'[w].pc # "idle"
        BY <1>1, <2>2, <3>1, WorkerBegins
      <4>2. Sub(w) = o
        BY <1>1, <2>2, <4>1, SubKept DEF Sub
      <4>3. \A d \in Memory(w) : d.life \notin Held
        BY <1>2, <4>2, BlankDoc DEF Memory, Unheld, Held, NoDoc
      <4> QED
        BY <1>1, <2>2, <3>1, <4>3, WorkerReads DEF From, Held
    <3>2. CASE w # v
      BY <1>1, <2>1, <2>2, <3>2, WorkerBegins
    <3> QED
      BY <3>1, <3>2
  <2>3. ASSUME NEW v \in Workers, ClaimOldest(v)
        PROVE  worker'[w].file.life \notin Held /\ worker'[w].next.life \notin Held
    <3>1. CASE w = v
      <4>1. worker[w].file = Blank /\ worker[w].next = Blank
        BY <1>1, <2>3, <3>1 DEF ClaimOldest, Beginnings, Unread
      <4>2. worker'[w].file = Blank /\ worker'[w].next = Blank
        BY <1>1, <2>3, <3>1, <4>1 DEF ClaimOldest, Processes
      <4> QED
        BY <4>2, BlankDoc DEF Held, NoDoc
    <3>2. CASE w # v
      BY <1>1, <2>1, <2>3, <3>2 DEF ClaimOldest
    <3> QED
      BY <3>1, <3>2
  <2>4. CASE UNCHANGED worker
    BY <2>1, <2>4
  <2>5. CASE ServiceStep \/ UNCHANGED submitVars
    BY <1>1, <2>4, <2>5, ServiceRows DEF Still, submitVars, vars
  <2>6. CASE LockLapses \/ (\E t \in Subs : ClaimLapses(t))
               \/ \E q \in Requests : CancelRead(q) \/ CancelWrite(q) \/ CancelMarkDone(q)
    BY <2>4, <2>6 DEF LockLapses, ClaimLapses, CancelRead, CancelWrite, CancelMarkDone
  <2> QED
    BY <2>2, <2>3, <2>5, <2>6, OthersSteps DEF SubmitNext
<1>8. Disturbed(o)' \/ Regular(o)'
  <2> SUFFICES ASSUME ~Disturbed(o)'
               PROVE  Regular(o)'
    OBVIOUS
  <2>1. Calm(o)'
    BY <1>5 DEF Calm, Contended
  <2>2. Calm(o) /\ Regular(o)
    BY <1>1, <2>1, CalmBefore DEF Calm, Lasting
  <2>3. Waits(o)
    BY <1>2 DEF Waits, Pending, Parked, Listed
  <2> QED
    BY <2>1, <2>2, <2>3, CalmNext DEF Keeps
<1> QED
  BY <1>3, <1>4, <1>5, <1>6, <1>7, <1>8 DEF Lasting

LEMMA SurvivingNext ==
  ASSUME ~Impatient, "stall" \notin Faults, Orderly, DeploysClose, Surviving, [SubmitNext]_submitVars
  PROVE  Surviving'
<1> SUFFICES ASSUME NEW s \in Subs, Told(s)'
             PROVE  (Died \/ InFlight \/ \E o \in Subs : Lasting(o))'
  BY DEF Surviving
<1>1. Sane /\ Patience /\ \A c \in Subs : CallSound(c)
  BY DEF Orderly, Polite, Sane, CallsSound
<1>2. CASE Died
  <2>1. PICK c \in Subs : call[c].pc = "died"
    BY <1>2 DEF Died
  <2>2. ~Handler(c)
    BY <1>1, <2>1, HandlerLeaves DEF Handled, Over
  <2> QED
    BY <1>1, <2>1, <2>2, CallsElsewhere DEF Died
<1>3. CASE InFlight
  <2>1. PICK c \in Subs : call[c].pc \in Superseding /\ Kind(Target(c)) = "deploy"
    BY <1>3 DEF InFlight
  <2>2. PICK T \in Subs : T = Target(c)
    BY <1>1, <2>1 DEF CallSound, Superseding
  <2>3. Kind(T)' = "deploy"
    BY <1>1, <2>1, <2>2, DeploysKept
  <2>4. CASE ~Handler(c)
    <3>1. call'[c] = call[c] /\ Target(c)' = T
      BY <1>1, <2>1, <2>2, <2>4, CallsElsewhere DEF Superseding
    <3> QED
      BY <2>1, <2>3, <3>1 DEF InFlight
  <2>5. CASE Handler(c)
    <3>1. Target(c)' = T
      BY <1>1, <2>2, <2>5, HandlerLeaves
    <3>2. CASE CallDies(c)
      <4>1. call'[c].pc = "died"
        <5>1. call \in [Subs -> Calls]
          BY <1>1 DEF Sane, SubmitTypeOK
        <5> QED
          BY <3>2, <5>1 DEF CallDies, CallTo, Calls
      <4> QED
        BY <4>1 DEF Died
    <3>3. CASE WriteWaiting(c)
      BY <2>1, <2>2, <3>3, WrittenLasts
    <3>4. CASE Supersede(c) \/ CloseOlder(c)
      <4>1. call'[c].pc \in Superseding
        <5>1. call \in [Subs -> Calls]
          BY <1>1 DEF Sane, SubmitTypeOK
        <5>2. CASE Supersede(c)
          BY <5>1, <5>2 DEF Supersede, Calls, Superseding
        <5>3. CASE CloseOlder(c)
          BY <5>1, <5>3 DEF CloseOlder, Calls, Superseding
        <5> QED
          BY <3>4, <5>2, <5>3
      <4> QED
        BY <2>3, <3>1, <4>1 DEF InFlight
    <3> QED
      BY <2>1, <2>5, <3>2, <3>3, <3>4
         DEF Handler, Superseding, Stamp, WriteSnapshot, Admit, AdmissionFails, CloseRejected,
             WriteQueued, ReadOlder, Enqueue
  <2> QED
    BY <2>4, <2>5
<1>4. ASSUME NEW o \in Subs, Lasting(o)
      PROVE  (Died \/ InFlight \/ \E r \in Subs : Lasting(r))'
  <2>1. CASE \E c \in Subs : Handler(c) /\ Struck(c, o)
    BY <1>1, <2>1, Strikes
  <2>2. CASE \A c \in Subs : Handler(c) => ~Struck(c, o)
    <3>1. Lasting(o)'
      BY <1>4, <2>2, LastingNext
    <3> QED
      BY <3>1
  <2> QED
    BY <2>1, <2>2
<1>5. CASE ~Told(s)
  <2>1. PICK c \in Subs : Supersede(c) /\ \E x \in call[c].older : x[1] = s
    BY <1>1, <1>5, ToldNext
  <2>2. Handler(c) /\ Struck(c, s)
    BY <2>1 DEF Handler, Struck
  <2> QED
    BY <1>1, <2>2, Strikes
<1> QED
  BY <1>2, <1>3, <1>4, <1>5 DEF Surviving

(* However calls, workers, cancellations and approvals interleave, a lost  *)
(* call, a crash or an error may strike anywhere: when the service has     *)
(* answered every call, and a deploy is superseded, one is not, and it is  *)
(* in the queue, has ended, or an operator cancels it.                     *)
THEOREM ADeploySurvives == ~Impatient /\ "stall" \notin Faults => (SubmitSpec => []OneSurvives)
<1> SUFFICES ASSUME ~Impatient, "stall" \notin Faults PROVE SubmitSpec => []OneSurvives
  OBVIOUS
<1> DEFINE I == Orderly /\ DeploysClose /\ Surviving
<1>1. SubmitInit => I
  <2>1. SubmitInit => Orderly
    BY PeaceInit DEF AtPeace
  <2>2. SubmitInit => DeploysClose /\ \A s \in Subs : ~Told(s)
    BY BlankDoc DEF SubmitInit, DeploysClose, Told, Idle, NewCall
  <2> QED
    BY <2>1, <2>2 DEF Surviving
<1>2. I /\ [SubmitNext]_submitVars => I'
  BY OrderlyNext, DeploysCloseNext, SurvivingNext DEF Orderly, Polite
<1>3. I => OneSurvives
  <2> SUFFICES ASSUME I, \A c \in Subs : call[c].pc \in {"new", "answered", "refused"},
                      NEW s \in Subs, doc[s].reason = "superseded"
               PROVE  \E o \in Subs :
        /\ Kind(o) = "deploy" /\ doc[o].life # NoDoc /\ doc[o].reason # "superseded"
        /\ doc[o].life \in Active => ~queue[o].done \/ Disturbed(o)
    BY DEF OneSurvives
  <2>1. ~Died /\ ~InFlight /\ Told(s)
    BY DEF Died, InFlight, Superseding, Told
  <2>2. PICK o \in Subs : Lasting(o)
    BY <2>1 DEF Surviving
  <2>3. ~InHand(o) /\ ~Dropped(o)
    BY DEF InHand, Dropped, Handled, Over
  <2>4. doc[o].life \in Active => ~queue[o].done \/ Disturbed(o)
    BY <2>2, <2>3 DEF Lasting, Regular
  <2> QED
    BY <2>2, <2>4 DEF Lasting, Told, Exists
<1> QED
  BY <1>1, <1>2, <1>3, PTL DEF SubmitSpec
=============================================================================
