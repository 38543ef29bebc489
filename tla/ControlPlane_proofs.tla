------------------------- MODULE ControlPlane_proofs -------------------------
(***************************************************************************)
(* For any number of workers, submissions, cancel requests and faults: the *)
(* types, the exclusion of mutations while nobody stalls, one successor of *)
(* every current run, and cancellations that are honoured.                 *)
(*                                                                         *)
(* Then, as long as no worker stalls for longer than a lease and no        *)
(* operator cancels: a claim is an exclusive right to a submission's rows. *)
(* Hence no submission is executed twice, its row announces the execution  *)
(* and tells the outcome that is recorded, an active one is queued, and an *)
(* end is final.                                                           *)
(*                                                                         *)
(* Last, the executors that ProviderRuns dispatches to: their types, their *)
(* exclusion, records that are final whatever fails, one execution of a    *)
(* settling run, and ends that say what the record says.                   *)
(***************************************************************************)
EXTENDS ProviderRuns, TLAPS

-----------------------------------------------------------------------------
(* The inductive invariant, by parts.  The first is about one process.     *)

HoldingAt(pc, goal) ==
  \/ pc \in {"assert", "revalidate", "begin", "mutate", "record", "release"}
  \/ pc \in {"upsert", "markDone"} /\ goal \notin {"recover", "putBack"}

Unread  == {"idle", "materialize"}
Writing == {"assertClaim", "assert", "upsert", "markDone", "begin", "mutate", "record"}

(* A working process has a submission; from materialize on it has a copy;  *)
(* what it is about to write is a document; and it takes the lock only     *)
(* with a copy that is not cancelled.                                      *)
Sound(p) ==
  /\ p.pc # "idle" => p.sub \in Subs
  /\ p.pc \notin Unread => p.file.life # NoDoc
  /\ p.pc \in Writing => p.next.life # NoDoc
  /\ HoldingAt(p.pc, p.goal) => p.file.reason # "cancelled"
  /\ HoldingAt(p.pc, p.goal) /\ p.pc \in Writing => p.next.reason # "cancelled"

WorkersSound == worker \in [Workers -> Processes] /\ \A w \in Workers : Sound(worker[w])

(* Nobody works on, and no request is for, a submission never submitted. *)
Exists(s) == s \in Subs /\ doc[s].life # NoDoc
WorkExists ==
  /\ \A w \in Workers : worker[w].pc # "idle" => Exists(Sub(w))
  /\ \A q \in Requests : request[q].pc # "new" => Exists(request[q].sub)
  /\ \A q \in Requests : request[q].pc = "read" => request[q].copy.life # NoDoc

-----------------------------------------------------------------------------
(* Lemmas about documents and processes.                                   *)

LEMMA LifeFacts ==
  ASSUME NEW d \in Docs, NEW l \in Active \cup Ended
  PROVE  /\ [d EXCEPT !.life = l] \in Docs
         /\ [d EXCEPT !.life = l].life = l
         /\ [d EXCEPT !.life = l].reason = d.reason
BY DEF Docs

LEMMA DocFacts ==
  ASSUME NEW d \in Docs, NEW o \in Outcomes
  PROVE  /\ [d EXCEPT !.life = "running", !.mutation = TRUE]
              \in {e \in Docs : e.life = "running" /\ e.reason = d.reason}
         /\ [d EXCEPT !.life = "finished", !.reason = "no_longer_admitted"]
              \in {e \in Docs : e.life = "finished" /\ e.reason = "no_longer_admitted"}
         /\ [d EXCEPT !.life = "finished", !.outcome = o]
              \in {e \in Docs : e.life = "finished" /\ e.reason = d.reason}
         /\ Reconciled(d, o) \in {e \in Docs : e.life = "finished" /\ e.reason = d.reason}
         /\ CancelledDoc(d) \in Docs
         /\ d.life # NoDoc => CancelledDoc(d).life # NoDoc
<1> USE DEF Docs, Active, Ended, Reasons, NoDoc
<1>1. /\ [d EXCEPT !.life = "running", !.mutation = TRUE]
              \in {e \in Docs : e.life = "running" /\ e.reason = d.reason}
      /\ [d EXCEPT !.life = "finished", !.reason = "no_longer_admitted"]
              \in {e \in Docs : e.life = "finished" /\ e.reason = "no_longer_admitted"}
      /\ [d EXCEPT !.life = "finished", !.outcome = o]
              \in {e \in Docs : e.life = "finished" /\ e.reason = d.reason}
  OBVIOUS
<1>2. CancelledDoc(d) \in Docs /\ (d.life # NoDoc => CancelledDoc(d).life # NoDoc)
  BY DEF CancelledDoc
<1>3. Reconciled(d, o) \in {e \in Docs : e.life = "finished" /\ e.reason = d.reason}
  BY DEF Reconciled
<1> QED
  BY <1>1, <1>2, <1>3

LEMMA IdleSound ==
  ASSUME NEW a \in BOOLEAN, NEW b \in BOOLEAN
  PROVE  /\ Idle \in Processes /\ Sound(Idle)
         /\ [Idle EXCEPT !.aborted = a, !.leaked = b] \in Processes
         /\ Sound([Idle EXCEPT !.aborted = a, !.leaked = b])
<1>1. Blank \in Docs
  BY DEF Blank, Docs, NoDoc, Reasons, Outcomes
<1>2. "idle" \in PCs /\ "none" \in Goals /\ "none" \in Outcomes
  BY DEF PCs, Goals, Outcomes
<1>3. Idle \in Processes /\ [Idle EXCEPT !.aborted = a, !.leaked = b] \in Processes
  BY <1>1, <1>2 DEF Idle, Processes
<1>4. Idle.pc = "idle" /\ [Idle EXCEPT !.aborted = a, !.leaked = b].pc = "idle"
  BY DEF Idle
<1> QED
  BY <1>3, <1>4 DEF Sound, Unread, Writing, HoldingAt

(* The process of w, and no other, becomes p. *)
LEMMA Update ==
  ASSUME WorkersSound, NEW w \in Workers, NEW p \in Processes, Sound(p),
         worker' = [worker EXCEPT ![w] = p]
  PROVE  WorkersSound'
BY DEF WorkersSound, Sound

(* A step that only moves w on, without entering the locked region. *)
LEMMA GotoSound ==
  ASSUME WorkersSound, NEW w \in Workers,
         NEW pc \in PCs \ Unread, NEW goal \in Goals, Goto(w, pc, goal),
         worker[w].pc \notin Unread,
         pc \in Writing => worker[w].pc \in Writing,
         HoldingAt(pc, goal) => HoldingAt(worker[w].pc, worker[w].goal)
  PROVE  WorkersSound'
<1> DEFINE p == [worker[w] EXCEPT !.pc = pc, !.goal = goal]
<1>1. worker' = [worker EXCEPT ![w] = p]
  BY DEF Goto, WorkersSound, Processes
<1>2. worker[w] \in Processes /\ Sound(worker[w])
  BY DEF WorkersSound
<1>3. p \in Processes /\ p.pc = pc /\ p.goal = goal /\ p.sub = worker[w].sub
      /\ p.file = worker[w].file /\ p.next = worker[w].next
  BY <1>2 DEF Processes
<1>4. Sound(p)
  BY <1>2, <1>3 DEF Sound, Unread
<1> QED
  BY <1>1, <1>3, <1>4, Update

LEMMA ReturnSound ==
  ASSUME WorkersSound, NEW w \in Workers, Return(w)
  PROVE  WorkersSound'
<1>1. worker[w].aborted \in BOOLEAN /\ worker[w].leaked \in BOOLEAN
  BY DEF WorkersSound, Processes
<1> QED
  BY <1>1, IdleSound, Update DEF Return

LEMMA AfterWriteSound ==
  ASSUME WorkersSound, NEW w \in Workers, AfterWrite(w), worker[w].pc \in {"upsert", "markDone"}
  PROVE  WorkersSound'
<1>1. /\ {"assert", "begin", "finally", "release"} \subseteq PCs \ Unread
      /\ {"check", "mutating", "none"} \subseteq Goals
  BY DEF PCs, Goals, Unread
<1> USE DEF AfterWrite, Unread, Writing, HoldingAt
<1>2. CASE worker[w].goal = "running"
  BY <1>1, <1>2, GotoSound
<1>3. CASE worker[w].goal = "mutating"
  BY <1>1, <1>3, GotoSound
<1>4. CASE worker[w].goal = "recover"
  BY <1>1, <1>4, GotoSound
<1>5. CASE worker[w].goal = "putBack"
  BY <1>5, ReturnSound
<1>6. CASE worker[w].goal \notin {"running", "mutating", "recover", "putBack"}
  BY <1>1, <1>6, GotoSound
<1> QED
  BY <1>2, <1>3, <1>4, <1>5, <1>6

LEMMA RecoverSound ==
  ASSUME WorkersSound, NEW w \in Workers, worker[w].pc \in {"assert", "record"},
         NEW rec \in Outcomes, Recover(w, rec)
  PROVE  WorkersSound'
<1>1. "upsert" \in PCs \ Unread /\ "end" \in Goals
  BY DEF PCs, Goals, Unread
<1>2. worker[w] \in Processes /\ Sound(worker[w])
  BY DEF WorkersSound
<1> DEFINE d == Reconciled(worker[w].file, rec)
           p == [worker[w] EXCEPT !.pc = "upsert", !.goal = "end", !.file = d, !.next = d]
<1>3. worker[w].file \in Docs
  BY <1>2 DEF Processes
<1>4. d \in Docs /\ d.life = "finished" /\ d.reason = worker[w].file.reason
  BY <1>3, DocFacts
<1>5. worker' = [worker EXCEPT ![w] = p]
  BY DEF Recover, WorkersSound, Processes
<1> HIDE DEF d
<1>6. p \in Processes /\ Sound(p)
  BY <1>1, <1>2, <1>4 DEF Processes, Sound, Unread, Writing, HoldingAt, NoDoc
<1> QED
  BY <1>5, <1>6, Update

LEMMA UnwindSound ==
  ASSUME WorkersSound, NEW w \in Workers, worker[w].pc \notin Unread,
         HoldingAt(worker[w].pc, worker[w].goal), Unwind(w)
  PROVE  WorkersSound'
<1>1. {"finally", "release"} \subseteq PCs \ Unread /\ "none" \in Goals
  BY DEF PCs, Goals, Unread
<1>2. CASE worker[w].goal = "running"
  <2> DEFINE p == [worker[w] EXCEPT !.pc = "finally", !.goal = "none", !.leaked = TRUE]
  <2>1. worker[w] \in Processes /\ Sound(worker[w])
    BY DEF WorkersSound
  <2>2. worker' = [worker EXCEPT ![w] = p]
    BY <1>2 DEF Unwind, WorkersSound, Processes
  <2>3. p \in Processes /\ p.pc = "finally" /\ p.sub = worker[w].sub /\ p.file = worker[w].file
    BY <1>1, <2>1 DEF Processes
  <2>4. Sound(p)
    BY <2>1, <2>3 DEF Sound, Unread, Writing, HoldingAt
  <2> QED
    BY <2>2, <2>3, <2>4, Update
<1>3. CASE worker[w].goal # "running"
  BY <1>1, <1>3, GotoSound DEF Unwind, Writing
<1> QED
  BY <1>2, <1>3

LEMMA LoseAuthoritySound ==
  ASSUME TypeOK, WorkersSound, WorkExists,
         NEW w \in Workers, worker[w].pc = "assert", LoseAuthority(w)
  PROVE  WorkersSound'
<1>1. CASE worker[w].goal = "settle"
  <2>1. record[Sub(w)] \in Outcomes
    BY DEF WorkExists, Exists, TypeOK
  <2> QED
    BY <1>1, <2>1, RecoverSound DEF LoseAuthority
<1>2. CASE worker[w].goal # "settle"
  BY <1>2, UnwindSound DEF LoseAuthority, Unread, HoldingAt
<1> QED
  BY <1>1, <1>2

-----------------------------------------------------------------------------
(* The steps of a process keep it sound.                                   *)
LEMMA ClaimSound ==
  ASSUME WorkersSound, NEW w \in Workers, Claim(w)
  PROVE  WorkersSound' /\ Exists(worker'[w].sub)
<1>1. "materialize" \in PCs /\ {"recover", "execute"} \subseteq Goals
  BY DEF PCs, Goals
<1>2. PICK s \in Subs : /\ Claimable(s)
                        /\ worker' = [worker EXCEPT
                             ![w].pc = "materialize", ![w].sub = s,
                             ![w].goal = IF doc[s].life \in {"running", "cancelling"}
                                         THEN "recover" ELSE "execute"]
  BY DEF Claim
<1> DEFINE goal == IF doc[s].life \in {"running", "cancelling"} THEN "recover" ELSE "execute"
           p == [worker[w] EXCEPT !.pc = "materialize", !.sub = s, !.goal = goal]
<1>3. goal \in Goals
  BY <1>1
<1> HIDE DEF goal
<1>4. worker' = [worker EXCEPT ![w] = p]
  BY <1>2 DEF WorkersSound, Processes, goal
<1>5. p \in Processes /\ p.pc = "materialize" /\ p.sub = s
  BY <1>1, <1>3 DEF WorkersSound, Processes
<1>6. Sound(p)
  BY <1>5 DEF Sound, Unread, Writing, HoldingAt
<1>7. Exists(s)
  BY <1>2 DEF Claimable, Active, Exists, NoDoc
<1>8. worker'[w].sub = s
  BY <1>4, <1>5 DEF WorkersSound
<1> QED
  BY <1>4, <1>5, <1>6, <1>7, <1>8, Update

LEMMA MaterializeSound ==
  ASSUME TypeOK, WorkersSound, WorkExists, NEW w \in Workers, Materialize(w)
  PROVE  WorkersSound'
<1>1. CASE worker[w].aborted
  BY <1>1, ReturnSound DEF Materialize
<1>2. CASE ~worker[w].aborted
  <2>1. {"reconcile", "acquire"} \subseteq PCs
    BY DEF PCs
  <2>2. doc[Sub(w)] \in Docs /\ doc[Sub(w)].life # NoDoc
    BY DEF Materialize, WorkExists, Exists, TypeOK
  <2> DEFINE pc == IF worker[w].goal = "recover" THEN "reconcile" ELSE "acquire"
             p == [worker[w] EXCEPT !.file = doc[Sub(w)], !.pc = pc]
  <2>3. worker' = [worker EXCEPT ![w] = p]
    BY <1>2 DEF Materialize, WorkersSound, Processes
  <2>4. p \in Processes /\ p.pc \in {"reconcile", "acquire"} /\ p.sub = Sub(w)
        /\ p.file = doc[Sub(w)]
    BY <2>1, <2>2 DEF WorkersSound, Processes, Sub
  <2>5. Sound(p)
    BY <2>2, <2>4 DEF WorkExists, Exists, Materialize, Sound, Unread, Writing, HoldingAt
  <2> QED
    BY <2>3, <2>4, <2>5, Update
<1> QED
  BY <1>1, <1>2

LEMMA ReconcileSound ==
  ASSUME TypeOK, WorkersSound, WorkExists, NEW w \in Workers, Reconcile(w)
  PROVE  WorkersSound'
<1>1. "assertClaim" \in PCs
  BY DEF PCs
<1>2. worker[w] \in Processes /\ Sound(worker[w]) /\ worker[w].pc = "reconcile" /\ Sub(w) \in Subs
  BY DEF WorkersSound, WorkExists, Exists, Reconcile
<1> DEFINE d == Reconciled(worker[w].file, record[Sub(w)])
           p == [worker[w] EXCEPT !.file = d, !.next = d, !.pc = "assertClaim"]
<1>3. worker[w].file \in Docs /\ record[Sub(w)] \in Outcomes
  BY <1>2 DEF Processes, TypeOK
<1>4. d \in Docs /\ d.life = "finished"
  BY <1>3, DocFacts
<1>5. worker' = [worker EXCEPT ![w] = p]
  BY DEF Reconcile, WorkersSound, Processes
<1> HIDE DEF d
<1>6. p \in Processes /\ p.pc = "assertClaim" /\ p.sub = Sub(w) /\ p.file = d /\ p.next = d
  BY <1>1, <1>2, <1>4 DEF Processes, Sub
<1>7. Sound(p)
  BY <1>2, <1>4, <1>6 DEF Sound, HoldingAt, NoDoc
<1> QED
  BY <1>5, <1>6, <1>7, Update

LEMMA AcquireLockSound ==
  ASSUME WorkersSound, NEW w \in Workers, AcquireLock(w)
  PROVE  WorkersSound'
<1>1. "assert" \in PCs /\ "running" \in Goals /\ "none" \in Outcomes
  BY DEF PCs, Goals, Outcomes
<1>2. worker[w] \in Processes /\ Sound(worker[w]) /\ worker[w].pc = "acquire"
      /\ worker[w].file \in Docs
  BY DEF WorkersSound, AcquireLock, Processes
<1> DEFINE d == [worker[w].file EXCEPT !.life = "running"]
           p == [worker[w] EXCEPT !.pc = "assert", !.goal = "running", !.leaked = FALSE, !.next = d]
<1>3. d \in Docs /\ d.life = "running" /\ d.reason = worker[w].file.reason
  <2>1. "running" \in Active \cup Ended
    BY DEF Active
  <2> QED
    BY <1>2, <2>1, LifeFacts
<1>4. worker' = [worker EXCEPT ![w].pc = "assert", ![w].goal = "running", ![w].leaked = FALSE,
                               ![w].next = d]
  BY Zenon DEF AcquireLock
<1> HIDE DEF d
<1>5. worker' = [worker EXCEPT ![w] = p]
  BY <1>4 DEF WorkersSound, Processes
<1>6. p \in Processes /\ p.pc = "assert" /\ p.sub = worker[w].sub /\ p.next = d
      /\ p.file = worker[w].file
  BY <1>1, <1>2, <1>3 DEF Processes
<1>7. worker[w].file.reason = "none"
  BY DEF AcquireLock, LockWaitAborts
<1>8. Sound(p)
  BY <1>2, <1>3, <1>6, <1>7 DEF Sound, Unread, NoDoc
<1> QED
  BY <1>5, <1>6, <1>8, Update

LEMMA AssertPassesSound ==
  ASSUME WorkersSound, NEW w \in Workers, AssertPasses(w)
  PROVE  WorkersSound'
<1>1. /\ {"revalidate", "record", "assert", "upsert"} \subseteq PCs \ Unread
      /\ {"check", "record", "settled"} \subseteq Goals
  BY DEF PCs, Goals, Unread
<1>2. worker[w] \in Processes /\ Sound(worker[w]) /\ worker[w].pc = "assert"
      /\ worker[w].next \in Docs
  BY DEF WorkersSound, AssertPasses, Processes
<1>3. CASE worker[w].goal \in {"check", "record", "settle"}
  BY <1>1, <1>2, <1>3, GotoSound DEF AssertPasses, Unread, Writing, HoldingAt
<1>4. CASE worker[w].goal \notin {"check", "record", "settle"}
  <2> DEFINE p == [worker[w] EXCEPT !.pc = "upsert", !.file = worker[w].next]
  <2>1. worker' = [worker EXCEPT ![w] = p]
    BY <1>4 DEF AssertPasses, WorkersSound, Processes
  <2>2. p \in Processes /\ p.pc = "upsert" /\ p.goal = worker[w].goal /\ p.sub = worker[w].sub
        /\ p.next = worker[w].next /\ p.file = worker[w].next
    BY <1>1, <1>2 DEF Processes
  <2>3. Sound(p)
    BY <1>2, <2>2 DEF Sound, Unread, Writing, HoldingAt
  <2> QED
    BY <2>1, <2>2, <2>3, Update
<1> QED
  BY <1>3, <1>4

LEMMA RevalidateSound ==
  ASSUME WorkersSound, NEW w \in Workers, Revalidate(w)
  PROVE  WorkersSound'
<1>1. "assert" \in PCs /\ {"mutating", "end"} \subseteq Goals /\ "none" \in Outcomes
  BY DEF PCs, Goals, Outcomes
<1>2. worker[w] \in Processes /\ Sound(worker[w]) /\ worker[w].pc = "revalidate"
      /\ worker[w].file \in Docs
  BY DEF WorkersSound, Revalidate, Processes
<1> DEFINE d1 == [worker[w].file EXCEPT !.life = "running", !.mutation = TRUE]
           d2 == [worker[w].file EXCEPT !.life = "finished", !.reason = "no_longer_admitted"]
           p(goal, d) == [worker[w] EXCEPT !.pc = "assert", !.goal = goal, !.next = d]
<1>3. worker[w].file.reason # "cancelled"
  BY <1>2 DEF Sound, HoldingAt
<1>4. d1 \in Docs /\ d1.life = "running" /\ d1.reason # "cancelled"
  BY <1>1, <1>2, <1>3, DocFacts
<1>5. d2 \in Docs /\ d2.life = "finished" /\ d2.reason # "cancelled"
  BY <1>1, <1>2, DocFacts
<1>6. \/ worker' = [worker EXCEPT ![w].pc = "assert", ![w].goal = "mutating", ![w].next = d1]
      \/ worker' = [worker EXCEPT ![w].pc = "assert", ![w].goal = "end", ![w].next = d2]
  BY Zenon DEF Revalidate
<1> HIDE DEF d1, d2
<1>7. worker' = [worker EXCEPT ![w] = p("mutating", d1)] \/ worker' = [worker EXCEPT ![w] = p("end", d2)]
  BY <1>6 DEF WorkersSound, Processes
<1>8. ASSUME NEW goal \in Goals, NEW d \in {d1, d2}
      PROVE  p(goal, d) \in Processes /\ Sound(p(goal, d))
  BY <1>1, <1>2, <1>4, <1>5 DEF Processes, Sound, Unread, Writing, HoldingAt, NoDoc
<1> HIDE DEF p
<1> QED
  BY <1>1, <1>7, <1>8, Update

LEMMA MutateReturnsSound ==
  ASSUME WorkersSound, NEW w \in Workers, MutateReturns(w)
  PROVE  WorkersSound'
<1>1. "assert" \in PCs /\ {"record", "end"} \subseteq Goals
      /\ {"none", "succeeded", "failed"} \subseteq Outcomes
  BY DEF PCs, Goals, Outcomes
<1>2. worker[w] \in Processes /\ Sound(worker[w]) /\ worker[w].pc = "mutate"
      /\ worker[w].next \in Docs /\ worker[w].result \in Outcomes
  BY DEF WorkersSound, MutateReturns, Processes
<1> DEFINE d1(o) == [worker[w].next EXCEPT !.life = "finished", !.outcome = o]
           d2 == [worker[w].next EXCEPT !.life = "paused"]
           p(goal, o, d) == [worker[w] EXCEPT !.pc = "assert", !.goal = goal, !.result = o, !.next = d]
<1>3. \A o \in Outcomes : d1(o) \in Docs /\ d1(o).life # NoDoc /\ d1(o).reason # "cancelled"
  BY <1>1, <1>2, DocFacts DEF NoDoc, Sound, HoldingAt, Writing
<1>4. d2 \in Docs /\ d2.life # NoDoc /\ d2.reason # "cancelled"
  <2>1. worker[w].next.reason # "cancelled"
    BY <1>2 DEF Sound, HoldingAt, Writing
  <2>2. "paused" \in Active \cup Ended
    BY DEF Ended
  <2>3. d2 \in Docs /\ d2.life = "paused" /\ d2.reason = worker[w].next.reason
    BY <1>2, <2>2, LifeFacts
  <2> QED
    BY <2>1, <2>3 DEF NoDoc
<1>5. \/ \E o \in {"succeeded", "failed"} :
           worker' = [worker EXCEPT ![w].pc = "assert", ![w].goal = "record", ![w].result = o,
                                    ![w].next = d1(o)]
      \/ worker' = [worker EXCEPT ![w].pc = "assert", ![w].goal = "end", ![w].next = d2]
  BY Zenon DEF MutateReturns
<1> HIDE DEF d1, d2
<1>6. \/ \E o \in {"succeeded", "failed"} : worker' = [worker EXCEPT ![w] = p("record", o, d1(o))]
      \/ worker' = [worker EXCEPT ![w] = p("end", worker[w].result, d2)]
  BY <1>5 DEF WorkersSound, Processes
<1>7. ASSUME NEW goal \in Goals, NEW o \in Outcomes,
             NEW d \in Docs, d.life # NoDoc, d.reason # "cancelled"
      PROVE  p(goal, o, d) \in Processes /\ Sound(p(goal, o, d))
  BY <1>1, <1>2, <1>7 DEF Processes, Sound, Unread, Writing, HoldingAt
<1> HIDE DEF p
<1> QED
  BY <1>1, <1>2, <1>3, <1>4, <1>6, <1>7, Update

LEMMA FinallySound ==
  ASSUME WorkersSound, NEW w \in Workers, Finally(w)
  PROVE  WorkersSound'
<1>1. CASE HasClaim(w)
  <2>1. "upsert" \in PCs /\ "putBack" \in Goals
    BY DEF PCs, Goals
  <2>2. worker[w] \in Processes /\ Sound(worker[w]) /\ worker[w].pc = "finally"
        /\ worker[w].file \in Docs
    BY DEF WorkersSound, Finally, Processes
  <2> DEFINE p == [worker[w] EXCEPT !.pc = "upsert", !.goal = "putBack", !.next = worker[w].file]
  <2>3. worker' = [worker EXCEPT ![w] = p]
    BY <1>1 DEF Finally, WorkersSound, Processes
  <2>4. p \in Processes /\ Sound(p)
    BY <2>1, <2>2 DEF Processes, Sound, Unread, HoldingAt
  <2> QED
    BY <2>3, <2>4, Update
<1>2. CASE ~HasClaim(w)
  BY <1>2, ReturnSound DEF Finally
<1> QED
  BY <1>1, <1>2

LEMMA AbortSound ==
  ASSUME WorkersSound, NEW w \in Workers, Abort(w)
  PROVE  WorkersSound'
<1> DEFINE p == [worker[w] EXCEPT !.aborted = TRUE]
<1>1. worker' = [worker EXCEPT ![w] = p]
  BY DEF Abort, WorkersSound, Processes
<1>2. p \in Processes /\ Sound(p)
  BY DEF WorkersSound, Processes, Sound
<1> QED
  BY <1>1, <1>2, Update

LEMMA AssertClaimSound ==
  ASSUME WorkersSound, NEW w \in Workers, AssertClaim(w)
  PROVE  WorkersSound'
<1>1. {"upsert", "finally"} \subseteq PCs \ Unread /\ {"recover", "none"} \subseteq Goals
  BY DEF PCs, Goals, Unread
<1>2. worker[w].pc = "assertClaim"
  BY DEF AssertClaim
<1>3. Goto(w, "upsert", "recover") \/ Goto(w, "finally", "none")
  BY DEF AssertClaim
<1> QED
  BY <1>1, <1>2, <1>3, GotoSound DEF Unread, Writing, HoldingAt

LEMMA WriteSound ==
  ASSUME WorkersSound, NEW w \in Workers, UpsertDoc(w) \/ MarkDone(w)
  PROVE  WorkersSound'
<1>1. "markDone" \in PCs \ Unread
  BY DEF PCs, Unread
<1>2. worker[w] \in Processes
  BY DEF WorkersSound
<1>3. ASSUME worker[w].pc = "upsert", Goto(w, "markDone", worker[w].goal)
      PROVE  WorkersSound'
  BY <1>1, <1>2, <1>3, GotoSound DEF Unread, Writing, HoldingAt, Processes
<1>4. ASSUME worker[w].pc = "upsert", AfterWrite(w)
      PROVE  WorkersSound'
  BY <1>4, AfterWriteSound
<1>5. ASSUME MarkDone(w)
      PROVE  WorkersSound'
  BY <1>5, AfterWriteSound DEF MarkDone
<1> QED
  BY <1>3, <1>4, <1>5 DEF UpsertDoc

LEMMA PersistRecordSound ==
  ASSUME WorkersSound, NEW w \in Workers, PersistRecord(w)
  PROVE  WorkersSound'
<1>1. /\ {"release", "assert"} \subseteq PCs \ Unread
      /\ {"none", "settle", "settled"} \subseteq Goals
  BY DEF PCs, Goals, Unread
<1>2. /\ worker[w].pc = "record"
      /\ \/ Goto(w, "release", "none")
         \/ Goto(w, "assert", "settle")
         \/ Goto(w, "assert", "settled")
         \/ Recover(w, worker[w].result)
  BY DEF PersistRecord, AfterRecord
<1>3. worker[w].result \in Outcomes
  BY DEF WorkersSound, Processes
<1>4. CASE Recover(w, worker[w].result)
  BY <1>2, <1>3, <1>4, RecoverSound
<1> QED
  BY <1>1, <1>2, <1>4, GotoSound DEF Unread, Writing, HoldingAt

(* Where an error goes. *)
LEMMA ErrorCases ==
  ASSUME NEW w \in Workers, Error(w)
  PROVE  \/ Return(w)
         \/ worker[w].pc = "assert" /\ LoseAuthority(w)
         \/ worker[w].pc \notin Unread /\ Goto(w, "finally", "none")
         \/ /\ worker[w].pc \notin Unread
            /\ HoldingAt(worker[w].pc, worker[w].goal)
            /\ Unwind(w)
BY DEF Error, Unread, HoldingAt, Locking

LEMMA ErrorSound ==
  ASSUME TypeOK, WorkersSound, WorkExists, NEW w \in Workers, Error(w)
  PROVE  WorkersSound'
<1>1. "finally" \in PCs \ Unread /\ "none" \in Goals
  BY DEF PCs, Goals, Unread
<1>2. CASE Return(w)
  BY <1>2, ReturnSound
<1>3. CASE worker[w].pc = "assert" /\ LoseAuthority(w)
  BY <1>3, LoseAuthoritySound
<1>4. CASE worker[w].pc \notin Unread /\ Goto(w, "finally", "none")
  BY <1>1, <1>4, GotoSound DEF Writing, HoldingAt
<1>5. CASE /\ worker[w].pc \notin Unread
           /\ HoldingAt(worker[w].pc, worker[w].goal)
           /\ Unwind(w)
  BY <1>5, UnwindSound
<1> QED
  BY <1>2, <1>3, <1>4, <1>5, ErrorCases

LEMMA WorkerSound ==
  ASSUME TypeOK, WorkersSound, WorkExists,
         NEW w \in Workers, WorkerStep(w) \/ Crash(w) \/ Abort(w) \/ Error(w) \/ Stall(w)
  PROVE  WorkersSound'
<1>1. CASE StopWaiting(w) \/ BeginMutation(w) \/ ReleaseLock(w)
  <2>1. /\ {"finally", "mutate"} \subseteq PCs \ Unread
        /\ {"none", "mutating"} \subseteq Goals
    BY DEF PCs, Goals, Unread
  <2>2. \/ worker[w].pc = "acquire" /\ Goto(w, "finally", "none")
        \/ worker[w].pc = "begin" /\ Goto(w, "mutate", "mutating")
        \/ worker[w].pc = "release" /\ Goto(w, "finally", "none")
    BY <1>1 DEF StopWaiting, BeginMutation, ReleaseLock
  <2> QED
    BY <2>1, <2>2, GotoSound DEF Unread, Writing, HoldingAt
<1>2. CASE Restart(w) \/ Crash(w)
  <2>1. worker' = [worker EXCEPT ![w] = Idle]
    BY <1>2 DEF Restart, Crash
  <2> QED
    BY <2>1, IdleSound, Update
<1>3. CASE LockRevives(w) \/ Stall(w)
  BY <1>3 DEF LockRevives, Stall, WorkersSound, Sound
<1>4. CASE AssertFails(w)
  BY <1>4, LoseAuthoritySound DEF AssertFails
<1>5. CASE Claim(w) \/ Materialize(w) \/ Reconcile(w) \/ AssertClaim(w) \/ AcquireLock(w) \/ AssertPasses(w)
  BY <1>5, ClaimSound, MaterializeSound, ReconcileSound, AssertClaimSound, AcquireLockSound,
     AssertPassesSound
<1>6. CASE UpsertDoc(w) \/ MarkDone(w) \/ Revalidate(w) \/ MutateReturns(w) \/ PersistRecord(w)
           \/ Finally(w) \/ Abort(w) \/ Error(w)
  BY <1>6, WriteSound, RevalidateSound, MutateReturnsSound, PersistRecordSound, FinallySound,
     AbortSound, ErrorSound
<1> QED
  BY <1>1, <1>2, <1>3, <1>4, <1>5, <1>6 DEF WorkerStep

-----------------------------------------------------------------------------
(* The rows.                                                               *)

(* Steps of processes write existing documents over existing ones. *)
LEMMA WorkerRows ==
  ASSUME TypeOK, WorkersSound, WorkExists,
         NEW w \in Workers, WorkerStep(w) \/ Crash(w) \/ Abort(w) \/ Error(w) \/ Stall(w)
  PROVE  /\ doc' \in [Subs -> Docs]
         /\ \A s \in Subs : (doc'[s].life = NoDoc) <=> (doc[s].life = NoDoc)
<1>1. CASE UpsertDoc(w)
  <2>1. Exists(Sub(w)) /\ worker[w].next \in Docs /\ worker[w].next.life # NoDoc
    BY <1>1 DEF UpsertDoc, WorkExists, WorkersSound, Processes, Sound, Writing
  <2>2. doc' = [doc EXCEPT ![Sub(w)] = worker[w].next]
    BY <1>1 DEF UpsertDoc
  <2> QED
    BY <2>1, <2>2 DEF Exists, TypeOK
<1>2. CASE ~UpsertDoc(w)
  <2>1. doc' = doc
    BY <1>2 DEF WorkerStep, Claim, Materialize, Reconcile, AssertClaim, StopWaiting, AcquireLock,
       AssertPasses, AssertFails, MarkDone, Revalidate, BeginMutation, MutateReturns, PersistRecord,
       ReleaseLock, Finally, LockRevives, Restart, Crash, Abort, Error, Stall, rows
  <2> QED
    BY <2>1 DEF TypeOK
<1> QED
  BY <1>1, <1>2

(* A process changes its submission only with a claim. *)
LEMMA SubsKept ==
  ASSUME WorkersSound, NEW v \in Workers, NEW w \in Workers,
         (WorkerStep(w) /\ ~Claim(w)) \/ Crash(w) \/ Abort(w) \/ Error(w) \/ Stall(w),
         worker'[v].pc # "idle"
  PROVE  worker[v].pc # "idle" /\ worker'[v].sub = worker[v].sub
<1> USE DEF WorkersSound, Processes
<1>1. ASSUME NEW pc, NEW goal, Goto(w, pc, goal), worker[w].pc # "idle"
      PROVE  worker[v].pc # "idle" /\ worker'[v].sub = worker[v].sub
  BY <1>1 DEF Goto
<1>2. ASSUME Return(w)
      PROVE  worker[v].pc # "idle" /\ worker'[v].sub = worker[v].sub
  BY <1>2 DEF Return, Idle
<1>3. ASSUME LoseAuthority(w), worker[w].pc # "idle"
      PROVE  worker[v].pc # "idle" /\ worker'[v].sub = worker[v].sub
  BY <1>1, <1>3 DEF LoseAuthority, Unwind, Recover
<1>4. ASSUME AfterWrite(w), worker[w].pc # "idle"
      PROVE  worker[v].pc # "idle" /\ worker'[v].sub = worker[v].sub
  BY <1>1, <1>2, <1>4 DEF AfterWrite
<1>5. CASE AssertClaim(w) \/ StopWaiting(w) \/ AssertPasses(w) \/ AssertFails(w) \/ BeginMutation(w)
           \/ PersistRecord(w) \/ ReleaseLock(w)
  BY <1>1, <1>3, <1>5 DEF AssertClaim, StopWaiting, AssertPasses, AssertFails, BeginMutation,
     PersistRecord, AfterRecord, Recover, ReleaseLock
<1>6. CASE UpsertDoc(w) \/ MarkDone(w)
  BY <1>1, <1>4, <1>6 DEF UpsertDoc, MarkDone
<1>7. CASE Materialize(w) \/ Finally(w)
  BY <1>2, <1>7 DEF Materialize, Finally
<1>8. CASE Reconcile(w) \/ AcquireLock(w) \/ Revalidate(w)
  BY <1>8 DEF Reconcile, AcquireLock, Revalidate
<1>9. CASE MutateReturns(w)
  BY <1>9 DEF MutateReturns
<1>10. CASE LockRevives(w) \/ Stall(w) \/ Abort(w)
  BY <1>10 DEF LockRevives, Stall, Abort
<1>11. CASE Restart(w) \/ Crash(w)
  BY <1>11 DEF Restart, Crash, Idle
<1>12. CASE Error(w)
  <2>1. ASSUME Unwind(w), worker[w].pc # "idle"
        PROVE  worker[v].pc # "idle" /\ worker'[v].sub = worker[v].sub
    BY <1>1, <2>1 DEF Unwind
  <2> QED
    BY <1>1, <1>2, <1>3, <1>12, <2>1, ErrorCases DEF Unread
<1> QED
  BY <1>5, <1>6, <1>7, <1>8, <1>9, <1>10, <1>11, <1>12 DEF WorkerStep

LEMMA WorkerTypes ==
  ASSUME TypeOK, WorkersSound, WorkExists,
         NEW w \in Workers, WorkerStep(w) \/ Crash(w) \/ Abort(w) \/ Error(w) \/ Stall(w)
  PROVE  TypeOK' /\ WorkExists'
<1>1. WorkersSound'
  BY WorkerSound
<1>2. /\ doc' \in [Subs -> Docs]
      /\ \A s \in Subs : (doc'[s].life = NoDoc) <=> (doc[s].life = NoDoc)
  BY WorkerRows
<1>3. queue' \in [Subs -> [owner : Workers \cup {NoWorker}, lapsed : BOOLEAN, done : BOOLEAN]]
  <2>1. queue \in [Subs -> [owner : Workers \cup {NoWorker}, lapsed : BOOLEAN, done : BOOLEAN]]
    BY DEF TypeOK
  <2>2. CASE Claim(w)
    <3>1. PICK s \in Subs : queue' = [queue EXCEPT ![s].owner = w, ![s].lapsed = FALSE]
      BY <2>2 DEF Claim
    <3> QED
      BY <2>1, <3>1
  <2>3. CASE MarkDone(w)
    BY <2>1, <2>3 DEF MarkDone, Done
  <2>4. CASE Stall(w)
    <3>1. queue' = queue \/ queue' = [queue EXCEPT ![Sub(w)].lapsed = TRUE]
      BY <2>4 DEF Stall
    <3> QED
      BY <2>1, <3>1
  <2>5. CASE ~Claim(w) /\ ~MarkDone(w) /\ ~Stall(w)
    BY <2>5 DEF TypeOK, WorkerStep, Materialize, Reconcile, AssertClaim, StopWaiting, AcquireLock,
       AssertPasses, AssertFails, UpsertDoc, Revalidate, BeginMutation, MutateReturns, PersistRecord,
       ReleaseLock, Finally, LockRevives, Restart, Crash, Abort, Error, rows
  <2> QED
    BY <2>2, <2>3, <2>4, <2>5
<1>4. record' \in [Subs -> Outcomes] /\ stage' \in Subs \cup {0}
  <2>1. CASE PersistRecord(w)
    <3>1. Sub(w) \in Subs /\ worker[w].result \in Outcomes
      BY <2>1 DEF PersistRecord, WorkExists, Exists, WorkersSound, Processes
    <3> QED
      BY <2>1, <3>1 DEF PersistRecord, TypeOK
  <2>2. CASE ~PersistRecord(w)
    BY <2>2 DEF TypeOK, WorkerStep, Claim, Materialize, Reconcile, AssertClaim, StopWaiting,
       AcquireLock, AssertPasses, AssertFails, UpsertDoc, MarkDone, Revalidate, BeginMutation,
       MutateReturns, ReleaseLock, Finally, LockRevives, Restart, Crash, Abort, Error, Stall, rows
  <2> QED
    BY <2>1, <2>2
<1>5. lockOwner' \in Workers \cup {NoWorker} /\ lockLapsed' \in BOOLEAN
  <2>1. CASE AcquireLock(w) \/ ReleaseLock(w) \/ LockRevives(w)
    BY <2>1 DEF TypeOK, AcquireLock, ReleaseLock, LockRevives, lock,
       Lock!Acquire, Lock!Release, Lock!Renew
  <2>2. CASE Stall(w)
    BY <2>2 DEF TypeOK, Stall, lock, Lock!Lapse
  <2>3. CASE ~AcquireLock(w) /\ ~ReleaseLock(w) /\ ~LockRevives(w) /\ ~Stall(w)
    BY <2>3 DEF TypeOK, WorkerStep, Claim, Materialize, Reconcile, AssertClaim, StopWaiting,
       AssertPasses, AssertFails, UpsertDoc, MarkDone, Revalidate, BeginMutation, MutateReturns,
       PersistRecord, Finally, Restart, Crash, Abort, Error, lock
  <2> QED
    BY <2>1, <2>2, <2>3
<1>6. mutations' \in [Subs -> Nat]
  <2>1. CASE BeginMutation(w)
    <3>1. mutations \in [Subs -> Nat] /\ mutations' = [mutations EXCEPT ![Sub(w)] = @ + 1]
      BY <2>1 DEF BeginMutation, TypeOK
    <3>2. Sub(w) \in Subs
      BY <2>1 DEF BeginMutation, WorkExists, Exists
    <3>3. mutations[Sub(w)] + 1 \in Nat
      BY <3>1, <3>2
    <3> QED
      BY <3>1, <3>3
  <2>2. CASE ~BeginMutation(w)
    BY <2>2 DEF TypeOK, WorkerStep, Claim, Materialize, Reconcile, AssertClaim, StopWaiting,
       AcquireLock, AssertPasses, AssertFails, UpsertDoc, MarkDone, Revalidate, MutateReturns,
       PersistRecord, ReleaseLock, Finally, LockRevives, Restart, Crash, Abort, Error, Stall, ghost
  <2> QED
    BY <2>1, <2>2
<1>7. faults' \in 0 .. MaxFaults
  <2>1. CASE \E kind \in {"crash", "abort", "error", "stall"} : Fault(kind)
    BY <2>1, ControlPlaneAssumption DEF Fault, TypeOK
  <2>2. CASE WorkerStep(w)
    BY <2>2 DEF TypeOK, WorkerStep, Claim, Materialize, Reconcile, AssertClaim, StopWaiting,
       AcquireLock, AssertPasses, AssertFails, UpsertDoc, MarkDone, Revalidate, BeginMutation,
       MutateReturns, PersistRecord, ReleaseLock, Finally, LockRevives, Restart
  <2> QED
    BY <2>1, <2>2 DEF Crash, Abort, Error, Stall
<1>8. UNCHANGED <<expected, request, accepted>>
  BY DEF WorkerStep, Claim, Materialize, Reconcile, AssertClaim, StopWaiting, AcquireLock,
     AssertPasses, AssertFails, UpsertDoc, MarkDone, Revalidate, BeginMutation, MutateReturns,
     PersistRecord, ReleaseLock, Finally, LockRevives, Restart, Crash, Abort, Error, Stall, rows, ghost
<1>9. TypeOK'
  BY <1>1, <1>2, <1>3, <1>4, <1>5, <1>6, <1>7, <1>8 DEF TypeOK, WorkersSound
<1>10. ASSUME NEW v \in Workers, worker'[v].pc # "idle"
       PROVE  worker'[v].sub \in Subs /\ doc'[worker'[v].sub].life # NoDoc
  <2>1. CASE Claim(w) /\ v = w
    BY <1>2, <2>1, ClaimSound DEF Exists
  <2>2. CASE Claim(w) /\ v # w
    <3>1. worker'[v] = worker[v]
      BY <2>2 DEF Claim, WorkersSound
    <3> QED
      BY <1>2, <1>10, <3>1 DEF WorkExists, Exists, Sub
  <2>3. CASE ~Claim(w)
    BY <1>2, <1>10, <2>3, SubsKept DEF WorkExists, Exists, Sub
  <2> QED
    BY <2>1, <2>2, <2>3
<1> QED
  BY <1>2, <1>8, <1>9, <1>10 DEF WorkExists, Exists, Sub

(* The steps of requests and of time. *)
LEMMA OtherSteps ==
  ASSUME TypeOK, WorkExists,
         \/ \E s \in Subs : Submit(s) \/ ClaimLapses(s)
         \/ LockLapses
         \/ \E q \in Requests : CancelRead(q) \/ CancelWrite(q) \/ CancelMarkDone(q)
  PROVE  TypeOK' /\ WorkExists' /\ UNCHANGED worker
<1>1. ASSUME NEW s \in Subs, Submit(s)
      PROVE  TypeOK' /\ WorkExists' /\ UNCHANGED worker
  <2>1. /\ [doc[s] EXCEPT !.life = "waiting_for_lock"] \in Docs
        /\ [doc[s] EXCEPT !.life = "waiting_for_lock"].life = "waiting_for_lock"
    <3>1. "waiting_for_lock" \in Active \cup Ended
      BY DEF Active
    <3> QED
      BY <3>1, LifeFacts DEF TypeOK
  <2>2. doc' = [doc EXCEPT ![s] = [doc[s] EXCEPT !.life = "waiting_for_lock"]]
    BY <1>1 DEF Submit, TypeOK
  <2>3. doc' \in [Subs -> Docs] /\ \A o \in Subs : doc[o].life # NoDoc => doc'[o].life # NoDoc
    BY <2>1, <2>2 DEF TypeOK, NoDoc
  <2> QED
    BY <1>1, <2>3 DEF Submit, TypeOK, WorkExists, Exists, Sub, lock, ghost
<1>2. ASSUME NEW s \in Subs, ClaimLapses(s)
      PROVE  TypeOK' /\ WorkExists' /\ UNCHANGED worker
  <2>1. queue' \in [Subs -> [owner : Workers \cup {NoWorker}, lapsed : BOOLEAN, done : BOOLEAN]]
    <3>1. queue' = [queue EXCEPT ![s].lapsed = TRUE]
      BY <1>2 DEF ClaimLapses
    <3>2. queue \in [Subs -> [owner : Workers \cup {NoWorker}, lapsed : BOOLEAN, done : BOOLEAN]]
      BY DEF TypeOK
    <3> QED
      BY <3>1, <3>2
  <2> QED
    BY <1>2, <2>1 DEF ClaimLapses, TypeOK, WorkExists, Exists, Sub, lock, ghost
<1>3. ASSUME LockLapses
      PROVE  TypeOK' /\ WorkExists' /\ UNCHANGED worker
  BY <1>3 DEF LockLapses, Lock!Lapse, TypeOK, WorkExists, Exists, Sub, rows, ghost
<1>4. ASSUME NEW q \in Requests, CancelRead(q)
      PROVE  TypeOK' /\ WorkExists' /\ UNCHANGED worker
  <2>1. PICK s \in Submitted : request' = [request EXCEPT ![q] = [pc |-> "read", sub |-> s, copy |-> doc[s]]]
    BY <1>4 DEF CancelRead
  <2>2. s \in Subs /\ doc[s] \in Docs /\ doc[s].life # NoDoc
    BY <2>1 DEF Submitted, TypeOK
  <2> QED
    BY <1>4, <2>1, <2>2 DEF CancelRead, TypeOK, WorkExists, Exists, Sub,
       rows, lock, ghost
<1>5. ASSUME NEW q \in Requests, CancelWrite(q)
      PROVE  TypeOK' /\ WorkExists' /\ UNCHANGED worker
  <2> DEFINE d == CancelledDoc(request[q].copy)
  <2>1. request[q].sub \in Subs /\ request[q].copy \in Docs /\ request[q].copy.life # NoDoc
    BY <1>5 DEF CancelWrite, WorkExists, Exists, TypeOK
  <2>2. d \in Docs /\ d.life # NoDoc
    <3>1. "none" \in Outcomes
      BY DEF Outcomes
    <3> QED
      BY <2>1, <3>1, DocFacts
  <2>3. Blank \in Docs
    BY DEF Blank, Docs, NoDoc, Reasons, Outcomes
  <2>4. /\ doc' = [doc EXCEPT ![request[q].sub] = d]
        /\ \E pc \in {"done", "written"} :
             request' = [request EXCEPT ![q].pc = pc, ![q].copy = Blank]
        /\ accepted' \in {accepted, accepted \cup {request[q].sub}}
    BY <1>5 DEF CancelWrite
  <2> HIDE DEF d
  <2>5. doc' \in [Subs -> Docs] /\ \A o \in Subs : doc[o].life # NoDoc => doc'[o].life # NoDoc
    BY <2>1, <2>2, <2>4 DEF TypeOK
  <2>6. /\ request' \in [Requests -> [pc : {"new", "read", "written", "done"},
                                       sub : Subs \cup {0}, copy : Docs]]
        /\ \A r \in Requests : /\ request'[r].sub = request[r].sub
                               /\ r # q => request'[r] = request[r]
                               /\ r = q => request'[r].pc \in {"done", "written"}
    <3>1. PICK pc \in {"done", "written"} :
                 request' = [request EXCEPT ![q].pc = pc, ![q].copy = Blank]
      BY <2>4
    <3>2. request \in [Requests -> [pc : {"new", "read", "written", "done"},
                                    sub : Subs \cup {0}, copy : Docs]]
      BY DEF TypeOK
    <3> QED
      BY <2>3, <3>1, <3>2
  <2>7. accepted' \subseteq Subs
    BY <2>1, <2>4 DEF TypeOK
  <2>8. TypeOK'
    BY <1>5, <2>5, <2>6, <2>7 DEF CancelWrite, TypeOK, lock
  <2>9. UNCHANGED worker
    BY <1>5 DEF CancelWrite
  <2>10. WorkExists'
    BY <1>5, <2>1, <2>5, <2>6 DEF CancelWrite, WorkExists, Exists, Sub
  <2> QED
    BY <2>8, <2>9, <2>10
<1>6. ASSUME NEW q \in Requests, CancelMarkDone(q)
      PROVE  TypeOK' /\ WorkExists' /\ UNCHANGED worker
  <2>1. queue' \in [Subs -> [owner : Workers \cup {NoWorker}, lapsed : BOOLEAN, done : BOOLEAN]]
    BY <1>6 DEF CancelMarkDone, Done, TypeOK
  <2>2. /\ request' \in [Requests -> [pc : {"new", "read", "written", "done"},
                                       sub : Subs \cup {0}, copy : Docs]]
        /\ \A r \in Requests : /\ request'[r].sub = request[r].sub
                               /\ r # q => request'[r] = request[r]
                               /\ r = q => request'[r].pc = "done" /\ request[r].pc = "written"
    BY <1>6 DEF CancelMarkDone, TypeOK
  <2> QED
    BY <1>6, <2>1, <2>2 DEF CancelMarkDone, TypeOK, WorkExists, Exists, Sub,
       lock, ghost
<1> QED
  BY <1>1, <1>2, <1>3, <1>4, <1>5, <1>6

LEMMA OtherTypes ==
  ASSUME TypeOK, WorkersSound, WorkExists,
         \/ \E s \in Subs : Submit(s) \/ ClaimLapses(s)
         \/ LockLapses
         \/ \E q \in Requests : CancelRead(q) \/ CancelWrite(q) \/ CancelMarkDone(q)
  PROVE  TypeOK' /\ WorkersSound' /\ WorkExists'
BY OtherSteps DEF WorkersSound, Sound

LEMMA Types == TypeOK /\ WorkersSound /\ WorkExists /\ [Next]_vars => TypeOK' /\ WorkersSound' /\ WorkExists'
<1> SUFFICES ASSUME TypeOK, WorkersSound, WorkExists, [Next]_vars
             PROVE  TypeOK' /\ WorkersSound' /\ WorkExists'
  OBVIOUS
<1>1. CASE UNCHANGED vars
  BY <1>1 DEF vars, rows, lock, ghost, TypeOK, WorkersSound, Sound, WorkExists, Exists, Sub
<1>2. CASE \E w \in Workers : WorkerStep(w) \/ Crash(w) \/ Abort(w) \/ Error(w) \/ Stall(w)
  BY <1>2, WorkerSound, WorkerTypes
<1> QED
  BY <1>1, <1>2, OtherTypes DEF Next

-----------------------------------------------------------------------------
(* The lock.                                                               *)

(* While nobody stalls, whoever is in the locked region has the lock. *)
LockHeld == \A w \in Workers : Locking(w) => lockOwner = w /\ ~lockLapsed

(* Steps that enter no locked region: those of a worker leave the region   *)
(* of others alone.                                                        *)
LEMMA RegionEntered ==
  ASSUME WorkersSound, NEW v \in Workers, NEW w \in Workers,
         WorkerStep(w) \/ Crash(w) \/ Abort(w) \/ Error(w) \/ Stall(w),
         ~AcquireLock(w), Locking(v)'
  PROVE  Locking(v)
<1> USE DEF WorkersSound, Processes
<1>1. Locking(v) <=> HoldingAt(worker[v].pc, worker[v].goal)
  BY DEF Locking, HoldingAt
<1>2. HoldingAt(worker'[v].pc, worker'[v].goal)
  BY DEF Locking, HoldingAt
<1>3. ASSUME NEW pc, NEW goal, Goto(w, pc, goal),
             HoldingAt(pc, goal) => HoldingAt(worker[w].pc, worker[w].goal)
      PROVE  Locking(v)
  BY <1>1, <1>2, <1>3 DEF Goto
<1>4. ASSUME worker'[w].pc \in {"idle", "materialize", "reconcile", "acquire", "assertClaim"},
             worker' = [worker EXCEPT ![w] = worker'[w]]
      PROVE  Locking(v)
  BY <1>1, <1>2, <1>4 DEF HoldingAt
<1>5. ASSUME HoldingAt(worker[w].pc, worker[w].goal),
             worker' = [worker EXCEPT ![w] = worker'[w]]
      PROVE  Locking(v)
  BY <1>1, <1>2, <1>5
<1>6. ASSUME Return(w) PROVE Locking(v)
  <2>1. worker' = [worker EXCEPT ![w] = worker'[w]] /\ worker'[w].pc = "idle"
    BY <1>6 DEF Return, Idle
  <2> QED
    BY <1>4, <2>1
<1>7. ASSUME LoseAuthority(w), worker[w].pc = "assert" PROVE Locking(v)
  <2>1. worker' = [worker EXCEPT ![w] = worker'[w]]
    BY <1>7 DEF LoseAuthority, Unwind, Recover, Goto
  <2> QED
    BY <1>5, <1>7, <2>1 DEF HoldingAt
<1>8. ASSUME AfterWrite(w), worker[w].pc \in {"upsert", "markDone"} PROVE Locking(v)
  BY <1>3, <1>6, <1>8 DEF AfterWrite, HoldingAt
<1>9. CASE AssertClaim(w) \/ StopWaiting(w) \/ BeginMutation(w) \/ ReleaseLock(w)
  BY <1>3, <1>9 DEF AssertClaim, StopWaiting, BeginMutation, ReleaseLock, HoldingAt
<1>10. CASE AssertPasses(w) \/ Revalidate(w) \/ MutateReturns(w) \/ PersistRecord(w)
  <2>1. worker' = [worker EXCEPT ![w] = worker'[w]]
    BY <1>10 DEF AssertPasses, Revalidate, MutateReturns, PersistRecord, AfterRecord, Recover, Goto
  <2> QED
    BY <1>5, <1>10, <2>1 DEF AssertPasses, Revalidate, MutateReturns, PersistRecord, HoldingAt
<1>11. CASE AssertFails(w)
  BY <1>7, <1>11 DEF AssertFails
<1>12. CASE UpsertDoc(w) \/ MarkDone(w)
  BY <1>3, <1>8, <1>12 DEF UpsertDoc, MarkDone, HoldingAt
<1>13. CASE Materialize(w)
  <2>1. CASE ~worker[w].aborted
    <3>1. /\ worker' = [worker EXCEPT ![w] = worker'[w]]
          /\ worker'[w].pc \in {"reconcile", "acquire"}
      BY <1>13, <2>1 DEF Materialize
    <3> QED
      BY <1>4, <3>1
  <2> QED
    BY <1>6, <1>13, <2>1 DEF Materialize
<1>14. CASE Claim(w) \/ Reconcile(w) \/ Restart(w) \/ Crash(w)
  <2>1. worker' = [worker EXCEPT ![w] = worker'[w]]
    <3>1. CASE Claim(w)
      BY <3>1 DEF Claim
    <3>2. CASE Reconcile(w)
      BY <3>2 DEF Reconcile
    <3>3. CASE Restart(w) \/ Crash(w)
      BY <3>3 DEF Restart, Crash
    <3> QED
      BY <1>14, <3>1, <3>2, <3>3
  <2>2. worker'[w].pc \in {"materialize", "assertClaim", "idle"}
    <3>1. CASE Claim(w)
      BY <3>1 DEF Claim
    <3>2. CASE Reconcile(w)
      BY <3>2 DEF Reconcile
    <3>3. CASE Restart(w) \/ Crash(w)
      BY <3>3 DEF Restart, Crash, Idle
    <3> QED
      BY <1>14, <3>1, <3>2, <3>3
  <2> QED
    BY <1>4, <2>1, <2>2
<1>15. CASE Finally(w)
  <2>1. CASE HasClaim(w)
    <3>1. worker'[w].pc = "upsert" /\ worker'[w].goal = "putBack"
          /\ (v # w => worker'[v] = worker[v])
      BY <1>15, <2>1 DEF Finally
    <3> QED
      BY <1>1, <1>2, <3>1 DEF HoldingAt
  <2> QED
    BY <1>6, <1>15, <2>1 DEF Finally
<1>16. CASE LockRevives(w) \/ Stall(w)
  BY <1>1, <1>2, <1>16 DEF LockRevives, Stall
<1>17. CASE Abort(w)
  BY <1>1, <1>2, <1>17 DEF Abort
<1>18. CASE Error(w)
  <2>1. ASSUME HoldingAt(worker[w].pc, worker[w].goal), Unwind(w) PROVE Locking(v)
    <3>1. worker' = [worker EXCEPT ![w] = worker'[w]]
      BY <2>1 DEF Unwind, Goto
    <3> QED
      BY <1>5, <2>1, <3>1
  <2> QED
    BY <1>3, <1>6, <1>7, <1>18, <2>1, ErrorCases DEF HoldingAt
<1> QED
  BY <1>9, <1>10, <1>11, <1>12, <1>13, <1>14, <1>15, <1>16, <1>17, <1>18 DEF WorkerStep

LEMMA LockNext ==
  "stall" \notin Faults /\ TypeOK /\ WorkersSound /\ LockHeld /\ [Next]_vars => LockHeld'
<1> SUFFICES ASSUME "stall" \notin Faults, TypeOK, WorkersSound, LockHeld, [Next]_vars,
                    NEW v \in Workers, Locking(v)'
             PROVE  lockOwner' = v /\ ~lockLapsed'
  BY DEF LockHeld
<1>1. ASSUME worker' = worker PROVE Locking(v)
  BY <1>1 DEF Locking
<1>2. NoWorker \notin Workers
  BY ControlPlaneAssumption
<1>3. CASE LockLapses
  BY <1>1, <1>3 DEF LockLapses, LockHeld, Renewing
<1>4. CASE UNCHANGED <<worker, lock>>
  BY <1>1, <1>4 DEF LockHeld, lock
<1>5. ASSUME NEW w \in Workers, WorkerStep(w) \/ Crash(w) \/ Abort(w) \/ Error(w) \/ Stall(w)
      PROVE  lockOwner' = v /\ ~lockLapsed'
  <2>1. CASE AcquireLock(w)
    <3>1. v # w => Locking(v)
      BY <2>1 DEF AcquireLock, Locking, WorkersSound
    <3> QED
      BY <1>2, <2>1, <3>1 DEF AcquireLock, Lock!Acquire, LockHeld
  <2>2. CASE ~AcquireLock(w)
    <3>1. lockOwner = v /\ ~lockLapsed
      BY <1>5, <2>2, RegionEntered DEF LockHeld
    <3>2. CASE ReleaseLock(w)
      <4>1. worker'[w].pc = "finally" /\ worker[w].pc = "release"
        BY <3>2 DEF ReleaseLock, Goto, WorkersSound, Processes
      <4>2. v # w
        BY <4>1 DEF Locking
      <4> QED
        BY <3>1, <3>2, <4>2 DEF ReleaseLock, lock
    <3>3. CASE LockRevives(w)
      BY <3>1, <3>3 DEF LockRevives
    <3>4. CASE ~ReleaseLock(w) /\ ~LockRevives(w)
      <4>1. ~Stall(w)
        BY DEF Stall, Fault
      <4>2. lock' = lock
        BY <1>5, <2>2, <3>4, <4>1 DEF WorkerStep, Claim, Materialize, Reconcile, AssertClaim,
           StopWaiting, AssertPasses, AssertFails, UpsertDoc, MarkDone, Revalidate, BeginMutation,
           MutateReturns, PersistRecord, Finally, Restart, Crash, Abort, Error
      <4> QED
        BY <3>1, <4>2 DEF lock
    <3> QED
      BY <3>2, <3>3, <3>4
  <2> QED
    BY <2>1, <2>2
<1> QED
  BY <1>3, <1>4, <1>5 DEF Next, Submit, ClaimLapses, CancelRead, CancelWrite, CancelMarkDone, vars, lock

-----------------------------------------------------------------------------
(* The line of successes.                                                  *)

(* Submissions are numbered as they are submitted, and are admitted        *)
(* against an older run; the current run never gets older.                 *)
Order ==
  /\ \A s \in Subs : expected[s] < s
  /\ \A s, o \in Subs : o < s /\ doc[s].life # NoDoc => doc[o].life # NoDoc
  /\ stage # 0 => Exists(stage)
  /\ \A s \in Subs : record[s] = "succeeded" => s <= stage

LEMMA OrderNext ==
  TypeOK /\ WorkersSound /\ WorkExists /\ Order /\ OneSuccessor /\ [Next]_vars => Order' /\ OneSuccessor'
<1> SUFFICES ASSUME TypeOK, WorkersSound, WorkExists, Order, OneSuccessor, [Next]_vars
             PROVE  Order' /\ OneSuccessor'
  OBVIOUS
<1>1. Subs \subseteq Nat \ {0} /\ stage \in Subs \cup {0} /\ expected \in [Subs -> Subs \cup {0}]
      /\ record \in [Subs -> Outcomes] /\ doc \in [Subs -> Docs]
  BY ControlPlaneAssumption DEF TypeOK
<1>2. ASSUME NEW s \in Subs, Submit(s)
      PROVE  Order' /\ OneSuccessor'
  <2>1. doc' = [doc EXCEPT ![s] = [doc[s] EXCEPT !.life = "waiting_for_lock"]]
    BY <1>2 DEF Submit
  <2>2. [doc[s] EXCEPT !.life = "waiting_for_lock"].life # NoDoc
    <3>1. "waiting_for_lock" \in Active \cup Ended
      BY DEF Active
    <3> QED
      BY <1>1, <3>1, LifeFacts DEF NoDoc
  <2>3. \A o \in Subs : doc'[o].life # NoDoc <=> (o = s \/ doc[o].life # NoDoc)
    BY <1>1, <2>1, <2>2
  <2>4. /\ doc[s].life = NoDoc /\ \A o \in Subs : o < s => doc[o].life # NoDoc
        /\ expected' = [expected EXCEPT ![s] = stage]
        /\ UNCHANGED <<record, stage>>
    BY <1>2 DEF Submit
  <2>5. stage < s
    BY <1>1, <2>4 DEF Order, Exists
  <2>6. \A o \in Subs : record[o] = "succeeded" => o # s
    BY <1>1, <2>5 DEF Order
  <2>7. Order'
    BY <1>1, <2>3, <2>4, <2>5 DEF Order, Exists
  <2>8. OneSuccessor'
    BY <1>1, <2>4, <2>6 DEF OneSuccessor
  <2> QED
    BY <2>7, <2>8
<1>3. ASSUME NEW w \in Workers, PersistRecord(w)
      PROVE  Order' /\ OneSuccessor'
  <2>1. /\ Exists(Sub(w)) /\ doc' = doc /\ expected' = expected
        /\ \/ UNCHANGED <<record, stage>>
           \/ /\ worker[w].result # "succeeded" /\ stage' = stage
              /\ record' = [record EXCEPT ![Sub(w)] = worker[w].result]
           \/ /\ stage = expected[Sub(w)] /\ stage' = Sub(w)
              /\ record' = [record EXCEPT ![Sub(w)] = "succeeded"]
    BY <1>3 DEF PersistRecord, WorkExists
  <2>2. Sub(w) \in Subs
    BY <2>1 DEF Exists
  <2>3. CASE UNCHANGED <<record, stage>>
    BY <2>1, <2>3 DEF Order, OneSuccessor, Exists
  <2>4. CASE /\ worker[w].result # "succeeded" /\ stage' = stage
             /\ record' = [record EXCEPT ![Sub(w)] = worker[w].result]
    BY <1>1, <2>1, <2>4 DEF Order, OneSuccessor, Exists
  <2>5. CASE /\ stage = expected[Sub(w)] /\ stage' = Sub(w)
             /\ record' = [record EXCEPT ![Sub(w)] = "succeeded"]
    <3>1. \A o \in Subs : record'[o] = "succeeded" <=> (o = Sub(w) \/ record[o] = "succeeded")
      BY <1>1, <2>2, <2>5
    <3>2. stage < Sub(w)
      BY <2>2, <2>5 DEF Order
    <3>3. ASSUME NEW o \in Subs, record[o] = "succeeded"
          PROVE  expected[o] < stage /\ o < Sub(w)
      <4>1. Subs \subseteq Nat /\ Subs \cup {0} \subseteq Nat
        BY <1>1
      <4>2. expected[o] \in Subs \cup {0} /\ stage \in Subs \cup {0}
        BY <1>1
      <4>3. expected[o] \in Nat
        BY <4>1, <4>2, Zenon
      <4>4. stage \in Nat
        BY <4>1, <4>2
      <4>5. Sub(w) \in Nat
        BY <2>2, <4>1
      <4>6. /\ o \in Nat /\ Sub(w) \in Nat /\ stage \in Nat /\ expected[o] \in Nat
        BY <4>1, <4>3, <4>4, <4>5
      <4>7. expected[o] < o /\ o <= stage
        BY <3>3 DEF Order
      <4> QED
        BY <3>2, <4>6, <4>7
    <3>4. ASSUME NEW o \in Subs, record'[o] = "succeeded"
          PROVE  o <= stage'
      <4>1. o \in Nat /\ Sub(w) \in Nat /\ stage' = Sub(w)
        BY <1>1, <2>2, <2>5
      <4>2. o = Sub(w) \/ o < Sub(w)
        BY <3>1, <3>3, <3>4
      <4> QED
        BY <4>1, <4>2
    <3>5. stage' # 0 => Exists(stage)'
      BY <2>1, <2>5 DEF Exists
    <3>6. Order'
      BY <2>1, <3>4, <3>5 DEF Order
    <3>7. \A o \in Subs : record[o] = "succeeded" => expected[o] # expected[Sub(w)]
      BY <1>1, <2>2, <2>5, <3>3
    <3>8. OneSuccessor'
      BY <2>1, <2>2, <3>1, <3>7 DEF OneSuccessor
    <3> QED
      BY <3>6, <3>8
  <2> QED
    BY <2>1, <2>3, <2>4, <2>5
<1>4. ASSUME UNCHANGED <<record, stage, expected>>,
             \A s \in Subs : (doc'[s].life = NoDoc) <=> (doc[s].life = NoDoc)
      PROVE  Order' /\ OneSuccessor'
  BY <1>1, <1>4 DEF Order, OneSuccessor, Exists
<1>5. ASSUME NEW w \in Workers, WorkerStep(w) \/ Crash(w) \/ Abort(w) \/ Error(w) \/ Stall(w)
      PROVE  Order' /\ OneSuccessor'
  <2>1. CASE ~PersistRecord(w)
    <3>1. UNCHANGED <<record, stage, expected>>
      BY <1>5, <2>1 DEF WorkerStep, Claim, Materialize, Reconcile, AssertClaim, StopWaiting,
         AcquireLock, AssertPasses, AssertFails, UpsertDoc, MarkDone, Revalidate, BeginMutation,
         MutateReturns, ReleaseLock, Finally, LockRevives, Restart, Crash, Abort, Error, Stall, rows
    <3> QED
      BY <1>4, <1>5, <3>1, WorkerRows
  <2> QED
    BY <1>3, <2>1
<1>6. ASSUME NEW q \in Requests, CancelWrite(q)
      PROVE  Order' /\ OneSuccessor'
  <2>1. /\ request[q].copy \in Docs /\ request[q].copy.life # NoDoc
        /\ Exists(request[q].sub)
    BY <1>6 DEF CancelWrite, WorkExists, TypeOK
  <2>2. CancelledDoc(request[q].copy).life # NoDoc
    <3>1. "none" \in Outcomes
      BY DEF Outcomes
    <3> QED
      BY <2>1, <3>1, DocFacts
  <2>3. doc' = [doc EXCEPT ![request[q].sub] = CancelledDoc(request[q].copy)]
    BY <1>6 DEF CancelWrite
  <2>4. \A s \in Subs : (doc'[s].life = NoDoc) <=> (doc[s].life = NoDoc)
    BY <1>1, <2>1, <2>2, <2>3 DEF Exists
  <2> QED
    BY <1>4, <1>6, <2>4 DEF CancelWrite
<1>7. CASE UNCHANGED rows \/ UNCHANGED <<doc, record, stage, expected>>
  BY <1>4, <1>7 DEF rows
<1> QED
  BY <1>2, <1>5, <1>6, <1>7 DEF Next, ClaimLapses, LockLapses, CancelRead, CancelMarkDone, vars

-----------------------------------------------------------------------------
(* The invariants of every behaviour.                                      *)
Inv == TypeOK /\ WorkersSound /\ WorkExists /\ Order /\ OneSuccessor

LEMMA InvInit == Init => Inv /\ LockHeld
<1> SUFFICES ASSUME Init PROVE Inv /\ LockHeld
  OBVIOUS
<1>1. Blank \in Docs /\ Blank.life = NoDoc
  BY DEF Blank, Docs, NoDoc, Reasons, Outcomes
<1>2. WorkersSound
  BY IdleSound DEF Init, WorkersSound
<1>3. \A w \in Workers : worker[w].pc = "idle"
  BY DEF Init, Idle
<1>4. TypeOK
  <2>1. /\ doc \in [Subs -> Docs] /\ record \in [Subs -> Outcomes]
        /\ stage \in Subs \cup {0} /\ expected \in [Subs -> Subs \cup {0}]
        /\ mutations \in [Subs -> Nat] /\ accepted \subseteq Subs
    BY <1>1 DEF Init, Outcomes
  <2>2. queue \in [Subs -> [owner : Workers \cup {NoWorker}, lapsed : BOOLEAN, done : BOOLEAN]]
    BY DEF Init
  <2>3. request \in [Requests -> [pc : {"new", "read", "written", "done"},
                                  sub : Subs \cup {0}, copy : Docs]]
    BY <1>1 DEF Init
  <2>4. lockOwner \in Workers \cup {NoWorker} /\ lockLapsed \in BOOLEAN
    BY DEF Init, Lock!Init
  <2>5. faults \in 0 .. MaxFaults
    BY ControlPlaneAssumption DEF Init
  <2> QED
    BY <1>2, <2>1, <2>2, <2>3, <2>4, <2>5 DEF TypeOK, WorkersSound
<1>5. WorkExists /\ LockHeld
  BY <1>3 DEF Init, WorkExists, LockHeld, Locking
<1>6. Order /\ OneSuccessor
  BY <1>1, ControlPlaneAssumption DEF Init, Order, OneSuccessor
<1> QED
  BY <1>2, <1>4, <1>5, <1>6 DEF Inv

(* The invariant holds in every reachable state. *)
THEOREM Invariance == Spec => []Inv
<1>1. Inv /\ [Next]_vars => Inv'
  BY Types, OrderNext DEF Inv
<1> QED
  BY <1>1, InvInit, PTL DEF Spec

(* Every reachable state has the types of TypeOK. *)
THEOREM TypeCorrect == Spec => []TypeOK
BY Invariance, PTL DEF Inv

(* Whatever workers stall, crash, are aborted or fail, and whatever is     *)
(* cancelled: of the submissions admitted against one current run, one is  *)
(* recorded as a success.                                                  *)
THEOREM SingleSuccessor == Spec => []OneSuccessor
BY Invariance, PTL DEF Inv

(* A cancellation found in the documents a worker copies stops it short of *)
(* the provider.                                                           *)
THEOREM CancelStops == Spec => []CancelIsHonoured
<1>1. Inv => CancelIsHonoured
  BY DEF Inv, WorkersSound, Sound, HoldingAt, CancelIsHonoured
<1> QED
  BY <1>1, Invariance, PTL

(* As long as no worker stalls for longer than its leases, no two workers  *)
(* mutate the target at once.                                              *)
THEOREM Exclusion == "stall" \notin Faults => (Spec => []ExclusiveMutation)
<1> SUFFICES ASSUME "stall" \notin Faults PROVE Spec => []ExclusiveMutation
  OBVIOUS
<1>1. Inv /\ LockHeld /\ [Next]_vars => LockHeld'
  BY LockNext DEF Inv
<1>2. LockHeld => ExclusiveMutation
  BY DEF LockHeld, Locking, ExclusiveMutation
<1>3. Spec => []LockHeld
  BY <1>1, Invariance, InvInit, PTL DEF Spec
<1> QED
  BY <1>2, <1>3, PTL
-----------------------------------------------------------------------------
(* Claims.                                                                 *)

(* The inductive invariant.  A document that is not yet running.           *)
Early == {NoDoc, "queued", "waiting_for_lock", "pending_approval"}

(* What the document d of s says is true: of an execution, of the outcome, *)
(* and of the lack of a record.                                            *)
Truthful(d, s) ==
  /\ mutations[s] > 0 => d.mutation /\ d.life \notin Early
  /\ d.outcome # "none" => record[s] = d.outcome
  /\ d.recovery = "inconclusive" => record[s] = "none" /\ d.life \notin Active \cup Early

Marked(d) == d.mutation /\ d.life = "running"

(* Process p of worker w has a claim that stands. *)
Holds(w, p) == p.pc # "idle" /\ queue[p.sub].owner = w /\ ~queue[p.sub].lapsed

(* It is past an assertion of the claim, and about to use it. *)
Committed(p) == p.pc \in {"upsert", "begin", "record"} \/ (p.pc = "assert" /\ p.goal = "settle")

(* It has yet to begin the mutation; it has the result and no record. *)
Prior(p) ==
  \/ p.pc = "materialize" /\ p.goal # "recover"
  \/ p.pc \in {"acquire", "revalidate", "begin"}
  \/ p.pc \in {"assert", "upsert"} /\ p.goal \in {"running", "check", "mutating"}
AtRecord(p) == p.pc \in {"assert", "record"} /\ p.goal = "record"
During(p)   == p.pc = "mutate" \/ AtRecord(p)

(* What it holds in memory fits what it is about to do. *)
Headed(p) ==
  /\ p.pc \in {"assert", "upsert"} /\ p.goal = "running" => p.next.life = "running"
  /\ p.pc \in {"assert", "upsert", "begin"} /\ p.goal = "mutating" => Marked(p.next)
  /\ p.pc \in {"upsert", "begin"} /\ p.goal = "mutating" => Marked(p.file)
  /\ p.pc = "begin" => p.goal = "mutating"
  /\ p.pc = "record" => p.goal = "record"
  /\ p.pc = "markDone" => p.goal \notin {"running", "mutating"}
  /\ AtRecord(p) => /\ p.result # "none" /\ p.next.outcome = p.result
                    /\ p.next.life = "finished"

(* It uses its claim only while it stands. *)
Entitled(w, p) ==
  /\ Committed(p) \/ p.pc = "markDone" => Holds(w, p) /\ ~queue[p.sub].done
  /\ Committed(p) => doc[p.sub].life \in Active
  /\ p.pc = "markDone" => doc[p.sub].life \notin Active

(* While it stands, the rows are as it believes. *)
Informed(p) ==
  /\ p.pc \notin Unread => Truthful(p.file, p.sub)
  /\ p.pc \in Writing /\ ~AtRecord(p) => Truthful(p.next, p.sub)
  /\ Prior(p) => /\ mutations[p.sub] = 0
                 /\ IF p.pc = "materialize" THEN doc[p.sub].life \in Active
                                            ELSE p.file.life \in Active
  /\ p.pc = "begin" => Marked(doc[p.sub])
  /\ During(p) => /\ mutations[p.sub] > 0 /\ record[p.sub] = "none"
                  /\ p.file.life \in Active
                  /\ p.next.mutation /\ p.next.recovery # "inconclusive"

Proper(w, p) == Headed(p) /\ Entitled(w, p) /\ (Holds(w, p) => Informed(p))

Claims == \A w \in Workers : Proper(w, worker[w])

(* The rows of a submission agree with each other. *)
Agreed(s) ==
  /\ Truthful(doc[s], s)
  /\ mutations[s] <= 1
  /\ record[s] # "none" => mutations[s] > 0
  /\ doc[s].life \in Active => ~queue[s].done
  /\ queue[s].done => doc[s].life # NoDoc

Ledger == \A s \in Subs : Agreed(s)
-----------------------------------------------------------------------------
(* Lemmas about processes.                                                 *)

LEMMA Quiet ==
  ASSUME NEW w \in Workers, NEW p, p.pc = "idle"
  PROVE  Proper(w, p)
BY DEF Proper, Headed, Entitled, Committed, Holds, AtRecord

(* A process that has given up, on its way out. *)
LEMMA Leaving ==
  ASSUME Claims, NEW w \in Workers, worker[w].pc \notin Unread,
         NEW p, p.pc \in {"finally", "release"},
         p.sub = worker[w].sub, p.file = worker[w].file
  PROVE  Proper(w, p)
<1>1. Headed(p) /\ Entitled(w, p)
  BY DEF Headed, Entitled, Committed, AtRecord
<1>2. Holds(w, p) => Holds(w, worker[w])
  BY DEF Holds, Unread
<1>3. Holds(w, worker[w]) => Truthful(p.file, p.sub)
  BY DEF Claims, Proper, Informed
<1>4. Holds(w, p) => Informed(p)
  BY <1>2, <1>3 DEF Informed, Writing, Prior, During, AtRecord
<1> QED
  BY <1>1, <1>4 DEF Proper

(* A step that touches no row, and after which w's process is p. *)
LEMMA OwnStep ==
  ASSUME WorkersSound, Claims, Ledger, NEW w \in Workers, NEW p, Proper(w, p),
         worker' = [worker EXCEPT ![w] = p],
         UNCHANGED <<doc, queue, record, mutations>>
  PROVE  Claims' /\ Ledger'
<1>1. \A v \in Workers : worker'[v] = IF v = w THEN p ELSE worker[v]
  BY DEF WorkersSound
<1>2. \A v \in Workers : Proper(v, worker'[v])
  BY <1>1 DEF Claims
<1>3. Claims'
  BY <1>2 DEF Claims, Proper, Headed, Entitled, Informed, Holds, Truthful
<1>4. Ledger'
  BY DEF Ledger, Agreed, Truthful
<1> QED
  BY <1>3, <1>4

(* A step that touches the rows of one submission s, which w alone has a   *)
(* claim to, before and after.                                             *)
LEMMA RowStep ==
  ASSUME WorkersSound, Claims, Ledger, NEW w, NEW s \in Subs,
         \A o \in Subs \ {s} : /\ doc'[o] = doc[o] /\ queue'[o] = queue[o]
                               /\ record'[o] = record[o] /\ mutations'[o] = mutations[o],
         \A v \in Workers \ {w} : worker'[v] = worker[v],
         \A v \in Workers \ {w} : queue[s].owner # v \/ queue[s].lapsed,
         \A v \in Workers \ {w} : queue'[s].owner # v \/ queue'[s].lapsed,
         Agreed(s)',
         w \in Workers => Proper(w, worker[w])'
  PROVE  Claims' /\ Ledger'
<1>1. ASSUME NEW v \in Workers, v # w
      PROVE  Proper(v, worker[v])'
  <2>1. worker'[v] = worker[v] /\ Proper(v, worker[v]) /\ Sound(worker[v])
    BY <1>1 DEF Claims, WorkersSound
  <2>2. CASE worker[v].sub = s \/ worker[v].pc = "idle"
    <3>1. ~Holds(v, worker[v]) /\ ~Holds(v, worker[v])'
      BY <1>1, <2>1, <2>2 DEF Holds
    <3> QED
      BY <2>1, <3>1 DEF Proper, Headed, Entitled
  <2>3. CASE worker[v].sub # s /\ worker[v].pc # "idle"
    <3>1. worker[v].sub \in Subs \ {s}
      BY <2>1, <2>3 DEF Sound
    <3> QED
      BY <2>1, <3>1 DEF Proper, Headed, Entitled, Informed, Holds, Truthful
  <2> QED
    BY <2>2, <2>3
<1>2. ASSUME NEW o \in Subs, o # s
      PROVE  Agreed(o)'
  BY <1>2 DEF Ledger, Agreed, Truthful
<1> QED
  BY <1>1, <1>2 DEF Claims, Ledger

-----------------------------------------------------------------------------
(* Steps that touch no row.                                                *)
Good == TypeOK /\ WorkersSound /\ WorkExists /\ Claims /\ Ledger

Steady == UNCHANGED <<doc, queue, record, mutations>>

LEMMA TruthfulDocs ==
  ASSUME NEW s \in Subs, record[s] \in Outcomes, NEW d \in Docs, Truthful(d, s)
  PROVE  /\ Truthful(Reconciled(d, record[s]), s)
         /\ d.life \in Active /\ mutations[s] = 0 => Truthful([d EXCEPT !.life = "running"], s)
         /\ d.life \in Active => Truthful([d EXCEPT !.life = "running", !.mutation = TRUE], s)
         /\ d.life \in Active
              => Truthful([d EXCEPT !.life = "finished", !.reason = "no_longer_admitted"], s)
         /\ d.recovery # "inconclusive" => Truthful([d EXCEPT !.life = "paused"], s)
BY DEF Truthful, Reconciled, Docs, Outcomes, Early, Active, NoDoc

LEMMA ReturnStep ==
  ASSUME Good, NEW w \in Workers, Return(w), Steady
  PROVE  Claims' /\ Ledger'
<1> DEFINE p == [Idle EXCEPT !.aborted = worker[w].aborted, !.leaked = worker[w].leaked]
<1>1. p.pc = "idle"
  BY DEF Idle
<1>2. worker' = [worker EXCEPT ![w] = p]
  BY DEF Return
<1> HIDE DEF p
<1> QED
  BY <1>1, <1>2, Quiet, OwnStep DEF Good, Steady

LEMMA RestartStep ==
  ASSUME Good, NEW w \in Workers, Restart(w) \/ Crash(w)
  PROVE  Claims' /\ Ledger'
<1>1. worker' = [worker EXCEPT ![w] = Idle] /\ Steady
  BY DEF Restart, Crash, rows, ghost, Steady
<1>2. Idle.pc = "idle"
  BY DEF Idle
<1> QED
  BY <1>1, <1>2, Quiet, OwnStep DEF Good, Steady

LEMMA LeaveStep ==
  ASSUME Good, NEW w \in Workers, worker[w].pc \notin Unread,
         NEW pc \in {"finally", "release"}, Goto(w, pc, "none"), Steady
  PROVE  Claims' /\ Ledger'
<1> DEFINE p == [worker[w] EXCEPT !.pc = pc, !.goal = "none"]
<1>1. worker' = [worker EXCEPT ![w] = p]
  BY DEF Goto, Good, WorkersSound, Processes
<1>2. p.pc = pc /\ p.sub = worker[w].sub /\ p.file = worker[w].file
  BY DEF Good, WorkersSound, Processes
<1> HIDE DEF p
<1>3. Proper(w, p)
  BY <1>2, Leaving DEF Good
<1> QED
  BY <1>1, <1>3, OwnStep DEF Good, Steady

LEMMA UnwindStep ==
  ASSUME Good, NEW w \in Workers, worker[w].pc \notin Unread, Unwind(w), Steady
  PROVE  Claims' /\ Ledger'
<1>1. CASE worker[w].goal = "running"
  <2> DEFINE p == [worker[w] EXCEPT !.pc = "finally", !.goal = "none", !.leaked = TRUE]
  <2>1. worker' = [worker EXCEPT ![w] = p]
    BY <1>1 DEF Unwind, Good, WorkersSound, Processes
  <2>2. p.pc = "finally" /\ p.sub = worker[w].sub /\ p.file = worker[w].file
    BY DEF Good, WorkersSound, Processes
  <2> HIDE DEF p
  <2>3. Proper(w, p)
    BY <2>2, Leaving DEF Good
  <2> QED
    BY <2>1, <2>3, OwnStep DEF Good, Steady
<1>2. CASE worker[w].goal # "running"
  BY <1>2, LeaveStep DEF Unwind
<1> QED
  BY <1>1, <1>2

(* What the assertion of the claim grants. *)
LEMMA ClaimGrants ==
  ASSUME NEW w \in Workers, worker[w].pc # "idle", HasClaim(w)
  PROVE  /\ Holds(w, worker[w]) /\ ~queue[worker[w].sub].done
         /\ doc[worker[w].sub].life \in Active
BY DEF HasClaim, Sub, Holds

LEMMA RecoverStep ==
  ASSUME Good, NEW w \in Workers, worker[w].pc = "assert", worker[w].goal = "settle",
         Recover(w, record[Sub(w)]), Steady
  PROVE  Claims' /\ Ledger'
<1> DEFINE d == Reconciled(worker[w].file, record[Sub(w)])
           p == [worker[w] EXCEPT !.pc = "upsert", !.goal = "end", !.file = d, !.next = d]
<1>1. worker' = [worker EXCEPT ![w] = p]
  BY DEF Recover, Good, WorkersSound, Processes
<1>2. /\ Sub(w) \in Subs /\ worker[w].file \in Docs /\ record[Sub(w)] \in Outcomes
      /\ Holds(w, worker[w]) /\ ~queue[Sub(w)].done /\ doc[Sub(w)].life \in Active
      /\ Truthful(worker[w].file, Sub(w))
  <2>1. worker[w] \in Processes /\ Sub(w) \in Subs
    BY DEF Good, WorkersSound, WorkExists, Exists
  <2>2. Holds(w, worker[w]) /\ ~queue[Sub(w)].done /\ doc[Sub(w)].life \in Active
    BY DEF Good, Claims, Proper, Entitled, Committed, Sub
  <2>3. Truthful(worker[w].file, Sub(w))
    BY <2>2 DEF Good, Claims, Proper, Informed, Unread, Sub
  <2> QED
    BY <2>1, <2>2, <2>3 DEF Processes, Good, TypeOK
<1>3. Truthful(d, Sub(w))
  BY <1>2, TruthfulDocs
<1> HIDE DEF d
<1>4. p.pc = "upsert" /\ p.goal = "end" /\ p.sub = Sub(w) /\ p.file = d /\ p.next = d
  BY DEF Good, WorkersSound, Processes, Sub
<1> HIDE DEF p
<1>5. Proper(w, p)
  BY <1>2, <1>3, <1>4 DEF Proper, Headed, Entitled, Informed, Holds, Committed, Prior, During,
     AtRecord, Sub
<1> QED
  BY <1>1, <1>5, OwnStep DEF Good, Steady

LEMMA LoseAuthorityStep ==
  ASSUME Good, NEW w \in Workers, worker[w].pc = "assert", LoseAuthority(w), Steady
  PROVE  Claims' /\ Ledger'
<1>1. worker[w].pc \notin Unread
  BY DEF Unread
<1> QED
  BY <1>1, RecoverStep, UnwindStep DEF LoseAuthority

LEMMA ErrorStep ==
  ASSUME Good, NEW w \in Workers, Error(w)
  PROVE  Claims' /\ Ledger'
<1>1. Steady
  BY DEF Error, rows, ghost, Steady
<1> QED
  BY <1>1, ErrorCases, ReturnStep, LoseAuthorityStep, LeaveStep, UnwindStep

LEMMA AbortStep ==
  ASSUME Good, NEW w \in Workers, Abort(w)
  PROVE  Claims' /\ Ledger'
<1> DEFINE p == [worker[w] EXCEPT !.aborted = TRUE]
<1>1. worker' = [worker EXCEPT ![w] = p] /\ Steady
  BY DEF Abort, Good, WorkersSound, Processes, rows, ghost, Steady
<1>2. /\ p.pc = worker[w].pc /\ p.goal = worker[w].goal /\ p.sub = worker[w].sub
      /\ p.file = worker[w].file /\ p.next = worker[w].next /\ p.result = worker[w].result
  BY DEF Good, WorkersSound, Processes
<1> HIDE DEF p
<1>3. Proper(w, worker[w])
  BY DEF Good, Claims
<1>4. Proper(w, p)
  BY <1>2, <1>3 DEF Proper, Headed, Entitled, Informed, Holds, Committed, Prior, During, AtRecord
<1> QED
  BY <1>1, <1>4, OwnStep DEF Good, Steady

LEMMA MaterializeStep ==
  ASSUME Good, NEW w \in Workers, Materialize(w)
  PROVE  Claims' /\ Ledger'
<1>1. Steady /\ worker[w].pc = "materialize"
  BY DEF Materialize, rows, ghost, Steady
<1>2. CASE worker[w].aborted
  BY <1>1, <1>2, ReturnStep DEF Materialize
<1>3. CASE ~worker[w].aborted
  <2> DEFINE pc == IF worker[w].goal = "recover" THEN "reconcile" ELSE "acquire"
             p == [worker[w] EXCEPT !.file = doc[Sub(w)], !.pc = pc]
  <2>1. worker' = [worker EXCEPT ![w] = p]
    BY <1>3 DEF Materialize, Good, WorkersSound, Processes
  <2>2. /\ p.pc = pc /\ p.goal = worker[w].goal /\ p.sub = Sub(w) /\ p.file = doc[Sub(w)]
    BY DEF Good, WorkersSound, Processes, Sub
  <2>3. Sub(w) \in Subs /\ Proper(w, worker[w]) /\ Truthful(doc[Sub(w)], Sub(w))
    BY <1>1 DEF Good, WorkExists, Exists, Claims, Ledger, Agreed
  <2> HIDE DEF p
  <2>4. Proper(w, p)
    BY <1>1, <2>2, <2>3 DEF Proper, Headed, Entitled, Informed, Holds, Committed, Prior, During,
       AtRecord, Writing, Sub
  <2> QED
    BY <1>1, <2>1, <2>4, OwnStep DEF Good, Steady
<1> QED
  BY <1>2, <1>3

LEMMA ReconciliationStep ==
  ASSUME Good, NEW w \in Workers, Reconcile(w)
  PROVE  Claims' /\ Ledger'
<1> DEFINE d == Reconciled(worker[w].file, record[Sub(w)])
           p == [worker[w] EXCEPT !.file = d, !.next = d, !.pc = "assertClaim"]
<1>1. worker' = [worker EXCEPT ![w] = p] /\ Steady /\ worker[w].pc = "reconcile"
  BY DEF Reconcile, Good, WorkersSound, Processes, rows, ghost, Steady
<1>2. /\ Sub(w) \in Subs /\ worker[w].file \in Docs /\ record[Sub(w)] \in Outcomes
      /\ Holds(w, worker[w]) => Truthful(worker[w].file, Sub(w))
  <2>1. worker[w] \in Processes /\ Sub(w) \in Subs
    BY <1>1 DEF Good, WorkersSound, WorkExists, Exists
  <2>2. Holds(w, worker[w]) => Truthful(worker[w].file, Sub(w))
    BY <1>1 DEF Good, Claims, Proper, Informed, Unread, Sub
  <2> QED
    BY <2>1, <2>2 DEF Processes, Good, TypeOK
<1>3. Holds(w, worker[w]) => Truthful(d, Sub(w))
  BY <1>2, TruthfulDocs
<1> HIDE DEF d
<1>4. p.pc = "assertClaim" /\ p.sub = Sub(w) /\ p.file = d /\ p.next = d
  BY DEF Good, WorkersSound, Processes, Sub
<1> HIDE DEF p
<1>5. Holds(w, p) => Holds(w, worker[w])
  BY <1>1, <1>4 DEF Holds, Sub
<1>6. Proper(w, p)
  BY <1>3, <1>4, <1>5 DEF Proper, Headed, Entitled, Informed, Committed, Prior, During, AtRecord
<1> QED
  BY <1>1, <1>6, OwnStep DEF Good, Steady

LEMMA AssertClaimStep ==
  ASSUME Good, NEW w \in Workers, AssertClaim(w)
  PROVE  Claims' /\ Ledger'
<1>1. Steady /\ worker[w].pc = "assertClaim"
  BY DEF AssertClaim, rows, ghost, Steady
<1>2. CASE HasClaim(w)
  <2> DEFINE p == [worker[w] EXCEPT !.pc = "upsert", !.goal = "recover"]
  <2>1. worker' = [worker EXCEPT ![w] = p]
    BY <1>2 DEF AssertClaim, Goto, Good, WorkersSound, Processes
  <2>2. /\ p.pc = "upsert" /\ p.goal = "recover" /\ p.sub = worker[w].sub
        /\ p.file = worker[w].file /\ p.next = worker[w].next
    BY DEF Good, WorkersSound, Processes
  <2>3. /\ Holds(w, worker[w]) /\ ~queue[worker[w].sub].done /\ doc[worker[w].sub].life \in Active
        /\ Truthful(worker[w].file, worker[w].sub) /\ Truthful(worker[w].next, worker[w].sub)
    BY <1>1, <1>2, ClaimGrants DEF Good, Claims, Proper, Informed, Unread, Writing, AtRecord
  <2> HIDE DEF p
  <2>4. Proper(w, p)
    BY <2>2, <2>3 DEF Proper, Headed, Entitled, Informed, Holds, Committed, Prior, During, AtRecord
  <2> QED
    BY <1>1, <2>1, <2>4, OwnStep DEF Good, Steady
<1>3. CASE ~HasClaim(w)
  BY <1>1, <1>3, LeaveStep DEF AssertClaim, Unread
<1> QED
  BY <1>2, <1>3

LEMMA AcquireLockStep ==
  ASSUME Good, NEW w \in Workers, AcquireLock(w)
  PROVE  Claims' /\ Ledger'
<1> DEFINE d == [worker[w].file EXCEPT !.life = "running"]
           p == [worker[w] EXCEPT !.pc = "assert", !.goal = "running", !.leaked = FALSE, !.next = d]
<1>1. Steady /\ worker[w].pc = "acquire"
  BY DEF AcquireLock, rows, ghost, Steady
<1>2. /\ Sub(w) \in Subs /\ worker[w].file \in Docs /\ record[Sub(w)] \in Outcomes
      /\ d.life = "running"
  <2>1. worker[w] \in Processes /\ Sub(w) \in Subs
    BY <1>1 DEF Good, WorkersSound, WorkExists, Exists
  <2> QED
    BY <2>1 DEF Processes, Docs, Good, TypeOK
<1>3. Holds(w, worker[w]) => /\ Truthful(worker[w].file, Sub(w)) /\ mutations[Sub(w)] = 0
                             /\ worker[w].file.life \in Active
  BY <1>1 DEF Good, Claims, Proper, Informed, Prior, Unread, Sub
<1>4. Holds(w, worker[w]) => Truthful(d, Sub(w))
  BY <1>2, <1>3, TruthfulDocs
<1>5. worker' = [worker EXCEPT ![w].pc = "assert", ![w].goal = "running", ![w].leaked = FALSE,
                               ![w].next = d]
  BY Zenon DEF AcquireLock
<1> HIDE DEF d
<1>6. worker' = [worker EXCEPT ![w] = p]
  BY <1>5 DEF Good, WorkersSound, Processes
<1>7. /\ p.pc = "assert" /\ p.goal = "running" /\ p.sub = Sub(w) /\ p.file = worker[w].file
      /\ p.next = d
  BY DEF Good, WorkersSound, Processes, Sub
<1> HIDE DEF p
<1>8. Holds(w, p) => Holds(w, worker[w])
  BY <1>1, <1>7 DEF Holds, Sub
<1>9. Proper(w, p)
  BY <1>2, <1>3, <1>4, <1>7, <1>8 DEF Proper, Headed, Entitled, Informed, Committed, Prior,
     During, AtRecord
<1> QED
  BY <1>1, <1>6, <1>9, OwnStep DEF Good, Steady

LEMMA AssertPassesStep ==
  ASSUME Good, NEW w \in Workers, AssertPasses(w)
  PROVE  Claims' /\ Ledger'
<1>1. Steady /\ worker[w].pc = "assert" /\ worker[w] \in Processes /\ Proper(w, worker[w])
  BY DEF AssertPasses, Good, WorkersSound, Claims, rows, ghost, Steady
<1>2. /\ Holds(w, worker[w]) /\ ~queue[worker[w].sub].done /\ doc[worker[w].sub].life \in Active
      /\ Informed(worker[w])
  BY <1>1, ClaimGrants DEF AssertPasses, HasAuthority, Proper
<1>3. ASSUME NEW pc, NEW goal, Goto(w, pc, goal),
             \/ worker[w].goal = "check" /\ pc = "revalidate" /\ goal = "check"
             \/ worker[w].goal = "record" /\ pc = "record" /\ goal = "record"
             \/ worker[w].goal = "settle" /\ pc = "assert" /\ goal = "settled"
      PROVE  Claims' /\ Ledger'
  <2> DEFINE p == [worker[w] EXCEPT !.pc = pc, !.goal = goal]
  <2>1. worker' = [worker EXCEPT ![w] = p]
    BY <1>3 DEF Goto, Good, WorkersSound, Processes
  <2>2. /\ p.pc = pc /\ p.goal = goal /\ p.sub = worker[w].sub /\ p.file = worker[w].file
        /\ p.next = worker[w].next /\ p.result = worker[w].result
    BY <1>1 DEF Processes
  <2> HIDE DEF p
  <2>3. Headed(p) /\ Entitled(w, p)
    BY <1>1, <1>2, <1>3, <2>2 DEF Proper, Headed, Entitled, Holds, Committed, AtRecord
  <2>4. Informed(p)
    BY <1>1, <1>2, <1>3, <2>2 DEF Informed, Prior, During, AtRecord, Writing, Unread
  <2>5. Proper(w, p)
    BY <2>3, <2>4 DEF Proper
  <2> QED
    BY <1>1, <2>1, <2>5, OwnStep DEF Good, Steady
<1>4. CASE worker[w].goal \notin {"check", "record", "settle"}
  <2> DEFINE p == [worker[w] EXCEPT !.pc = "upsert", !.file = worker[w].next]
  <2>1. worker' = [worker EXCEPT ![w] = p]
    BY <1>4 DEF AssertPasses, Good, WorkersSound, Processes
  <2>2. /\ p.pc = "upsert" /\ p.goal = worker[w].goal /\ p.sub = worker[w].sub
        /\ p.file = worker[w].next /\ p.next = worker[w].next /\ p.result = worker[w].result
    BY <1>1 DEF Processes
  <2> HIDE DEF p
  <2>3. Headed(p) /\ Entitled(w, p)
    BY <1>1, <1>2, <1>4, <2>2 DEF Proper, Headed, Entitled, Holds, Committed, AtRecord
  <2>4. Truthful(p.file, p.sub) /\ Truthful(p.next, p.sub)
    BY <1>1, <1>2, <1>4, <2>2 DEF Informed, AtRecord, Writing
  <2>5. Prior(p) => /\ mutations[p.sub] = 0 /\ p.file.life \in Active
    <3>1. Prior(p) => Prior(worker[w]) /\ worker[w].goal \in {"running", "mutating"}
      BY <1>1, <1>4, <2>2 DEF Prior
    <3>2. worker[w].goal \in {"running", "mutating"} => worker[w].next.life \in Active
      BY <1>1 DEF Proper, Headed, Marked, Active
    <3> QED
      BY <1>2, <2>2, <3>1, <3>2 DEF Informed
  <2>6. Proper(w, p)
    BY <2>2, <2>3, <2>4, <2>5 DEF Proper, Informed, During, AtRecord
  <2> QED
    BY <1>1, <2>1, <2>6, OwnStep DEF Good, Steady
<1> QED
  BY <1>3, <1>4 DEF AssertPasses

LEMMA RevalidationStep ==
  ASSUME Good, NEW w \in Workers, Revalidate(w)
  PROVE  Claims' /\ Ledger'
<1> DEFINE d1 == [worker[w].file EXCEPT !.life = "running", !.mutation = TRUE]
           d2 == [worker[w].file EXCEPT !.life = "finished", !.reason = "no_longer_admitted"]
           p(goal, d) == [worker[w] EXCEPT !.pc = "assert", !.goal = goal, !.next = d]
<1>1. Steady /\ worker[w].pc = "revalidate" /\ Proper(w, worker[w])
  BY DEF Revalidate, Good, Claims, rows, ghost, Steady
<1>2. /\ worker[w] \in Processes /\ Sub(w) \in Subs /\ worker[w].file \in Docs
      /\ record[Sub(w)] \in Outcomes
  BY <1>1 DEF Good, WorkersSound, WorkExists, Exists, Processes, TypeOK
<1>3. Holds(w, worker[w]) => /\ Truthful(worker[w].file, Sub(w)) /\ mutations[Sub(w)] = 0
                             /\ worker[w].file.life \in Active
  BY <1>1 DEF Proper, Informed, Prior, Unread, Sub
<1>4. Holds(w, worker[w]) => Truthful(d1, Sub(w)) /\ Truthful(d2, Sub(w))
  BY <1>2, <1>3, TruthfulDocs
<1>5. Marked(d1)
  BY <1>2 DEF Marked, Docs
<1>6. \/ worker' = [worker EXCEPT ![w].pc = "assert", ![w].goal = "mutating", ![w].next = d1]
      \/ worker' = [worker EXCEPT ![w].pc = "assert", ![w].goal = "end", ![w].next = d2]
  BY Zenon DEF Revalidate
<1> HIDE DEF d1, d2
<1>7. worker' = [worker EXCEPT ![w] = p("mutating", d1)] \/ worker' = [worker EXCEPT ![w] = p("end", d2)]
  BY <1>6 DEF Good, WorkersSound, Processes
<1>8. ASSUME NEW goal, NEW d
      PROVE  /\ p(goal, d).pc = "assert" /\ p(goal, d).goal = goal /\ p(goal, d).sub = Sub(w)
             /\ p(goal, d).file = worker[w].file /\ p(goal, d).next = d
  BY <1>2 DEF Processes, Sub
<1> HIDE DEF p
<1>9. ASSUME NEW q, q = p("mutating", d1) \/ q = p("end", d2)
      PROVE  Proper(w, q)
  <2>1. /\ q.pc = "assert" /\ q.sub = Sub(w) /\ q.file = worker[w].file
        /\ (q.goal = "mutating" /\ q.next = d1) \/ (q.goal = "end" /\ q.next = d2)
    BY <1>8, <1>9
  <2>2. Holds(w, q) => Holds(w, worker[w])
    BY <1>1, <2>1 DEF Holds, Sub
  <2>3. Headed(q) /\ Entitled(w, q)
    BY <1>5, <2>1 DEF Headed, Entitled, Committed, AtRecord
  <2>4. Holds(w, worker[w]) => Informed(q)
    BY <1>3, <1>4, <2>1 DEF Informed, Prior, During, AtRecord
  <2> QED
    BY <2>2, <2>3, <2>4 DEF Proper
<1> QED
  BY <1>1, <1>7, <1>9, OwnStep DEF Good, Steady

LEMMA MutateReturnsStep ==
  ASSUME Good, NEW w \in Workers, MutateReturns(w)
  PROVE  Claims' /\ Ledger'
<1> DEFINE d1(o) == [worker[w].next EXCEPT !.life = "finished", !.outcome = o]
           d2 == [worker[w].next EXCEPT !.life = "paused"]
           p(goal, o, d) == [worker[w] EXCEPT !.pc = "assert", !.goal = goal, !.result = o, !.next = d]
<1>1. Steady /\ worker[w].pc = "mutate" /\ Proper(w, worker[w])
  BY DEF MutateReturns, Good, Claims, rows, ghost, Steady
<1>2. /\ worker[w] \in Processes /\ Sub(w) \in Subs /\ worker[w].next \in Docs
      /\ record[Sub(w)] \in Outcomes
  BY <1>1 DEF Good, WorkersSound, WorkExists, Exists, Processes, TypeOK
<1>3. Holds(w, worker[w]) => /\ Truthful(worker[w].file, Sub(w)) /\ Truthful(worker[w].next, Sub(w))
                             /\ mutations[Sub(w)] > 0 /\ record[Sub(w)] = "none"
                             /\ worker[w].file.life \in Active
                             /\ worker[w].next.mutation /\ worker[w].next.recovery # "inconclusive"
  BY <1>1 DEF Proper, Informed, During, AtRecord, Writing, Unread, Sub
<1>4. Holds(w, worker[w]) => Truthful(d2, Sub(w))
  BY <1>2, <1>3, TruthfulDocs
<1>5. ASSUME NEW o
      PROVE  /\ d1(o).life = "finished" /\ d1(o).outcome = o
             /\ d1(o).mutation = worker[w].next.mutation
             /\ d1(o).recovery = worker[w].next.recovery
  BY <1>2 DEF Docs
<1>6. \/ \E o \in {"succeeded", "failed"} :
           worker' = [worker EXCEPT ![w].pc = "assert", ![w].goal = "record", ![w].result = o,
                                    ![w].next = d1(o)]
      \/ worker' = [worker EXCEPT ![w].pc = "assert", ![w].goal = "end", ![w].next = d2]
  BY Zenon DEF MutateReturns
<1> HIDE DEF d1, d2
<1>7. \/ \E o \in {"succeeded", "failed"} : worker' = [worker EXCEPT ![w] = p("record", o, d1(o))]
      \/ worker' = [worker EXCEPT ![w] = p("end", worker[w].result, d2)]
  BY <1>6 DEF Good, WorkersSound, Processes
<1>8. ASSUME NEW goal, NEW o, NEW d
      PROVE  /\ p(goal, o, d).pc = "assert" /\ p(goal, o, d).goal = goal /\ p(goal, o, d).sub = Sub(w)
             /\ p(goal, o, d).file = worker[w].file /\ p(goal, o, d).next = d
             /\ p(goal, o, d).result = o
  BY <1>2 DEF Processes, Sub
<1> HIDE DEF p
<1>9. ASSUME NEW o \in {"succeeded", "failed"}
      PROVE  Proper(w, p("record", o, d1(o)))
  <2> DEFINE q == p("record", o, d1(o))
  <2>1. /\ q.pc = "assert" /\ q.goal = "record" /\ q.sub = Sub(w) /\ q.result = o
        /\ q.file = worker[w].file /\ q.next = d1(o)
    BY <1>8
  <2> HIDE DEF q
  <2>2. Headed(q) /\ Entitled(w, q)
    BY <1>5, <2>1 DEF Headed, Entitled, Committed, AtRecord
  <2>3. Holds(w, q) => Holds(w, worker[w])
    BY <1>1, <2>1 DEF Holds, Sub
  <2>4. Holds(w, worker[w]) => Informed(q)
    BY <1>3, <1>5, <2>1 DEF Informed, Prior, During, AtRecord
  <2>5. Proper(w, q)
    BY <2>2, <2>3, <2>4 DEF Proper
  <2> QED
    BY <2>5 DEF q
<1>10. Proper(w, p("end", worker[w].result, d2))
  <2> DEFINE q == p("end", worker[w].result, d2)
  <2>1. /\ q.pc = "assert" /\ q.goal = "end" /\ q.sub = Sub(w)
        /\ q.file = worker[w].file /\ q.next = d2
    BY <1>8
  <2> HIDE DEF q
  <2>2. Headed(q) /\ Entitled(w, q)
    BY <2>1 DEF Headed, Entitled, Committed, AtRecord
  <2>3. Holds(w, q) => Holds(w, worker[w])
    BY <1>1, <2>1 DEF Holds, Sub
  <2>4. Holds(w, worker[w]) => Informed(q)
    BY <1>3, <1>4, <2>1 DEF Informed, Prior, During, AtRecord
  <2>5. Proper(w, q)
    BY <2>2, <2>3, <2>4 DEF Proper
  <2> QED
    BY <2>5 DEF q
<1> QED
  BY <1>1, <1>7, <1>9, <1>10, OwnStep DEF Good, Steady

LEMMA FinallyStep ==
  ASSUME Good, NEW w \in Workers, Finally(w)
  PROVE  Claims' /\ Ledger'
<1>1. Steady /\ worker[w].pc = "finally"
  BY DEF Finally, rows, ghost, Steady
<1>2. CASE HasClaim(w)
  <2> DEFINE p == [worker[w] EXCEPT !.pc = "upsert", !.goal = "putBack", !.next = worker[w].file]
  <2>1. worker' = [worker EXCEPT ![w] = p]
    BY <1>2 DEF Finally, Good, WorkersSound, Processes
  <2>2. /\ p.pc = "upsert" /\ p.goal = "putBack" /\ p.sub = worker[w].sub
        /\ p.file = worker[w].file /\ p.next = worker[w].file
    BY DEF Good, WorkersSound, Processes
  <2>3. /\ Holds(w, worker[w]) /\ ~queue[worker[w].sub].done /\ doc[worker[w].sub].life \in Active
        /\ Truthful(worker[w].file, worker[w].sub)
    BY <1>1, <1>2, ClaimGrants DEF Good, Claims, Proper, Informed, Unread
  <2> HIDE DEF p
  <2>4. Proper(w, p)
    BY <2>2, <2>3 DEF Proper, Headed, Entitled, Informed, Holds, Committed, Prior, During, AtRecord
  <2> QED
    BY <1>1, <2>1, <2>4, OwnStep DEF Good, Steady
<1>3. CASE ~HasClaim(w)
  BY <1>1, <1>3, ReturnStep DEF Finally
<1> QED
  BY <1>2, <1>3

(* The steps that give up or only wait. *)
LEMMA GiveUpStep ==
  ASSUME Good, NEW w \in Workers, StopWaiting(w) \/ AssertFails(w) \/ ReleaseLock(w)
  PROVE  Claims' /\ Ledger'
<1>1. Steady
  BY DEF StopWaiting, AssertFails, ReleaseLock, rows, ghost, Steady
<1>2. CASE StopWaiting(w) \/ ReleaseLock(w)
  BY <1>1, <1>2, LeaveStep DEF StopWaiting, ReleaseLock, Unread
<1>3. CASE AssertFails(w)
  BY <1>1, <1>3, LoseAuthorityStep DEF AssertFails
<1> QED
  BY <1>2, <1>3

-----------------------------------------------------------------------------
(* Steps that touch the rows of one submission.                            *)

LEMMA SubmitStep ==
  ASSUME Good, NEW s \in Subs, Submit(s)
  PROVE  Claims' /\ Ledger'
<1>1. /\ doc[s].life = NoDoc /\ doc[s] \in Docs /\ Agreed(s)
      /\ doc' = [doc EXCEPT ![s] = [doc[s] EXCEPT !.life = "waiting_for_lock"]]
      /\ UNCHANGED <<queue, record, worker, mutations>>
  BY DEF Submit, Good, TypeOK, Ledger, ghost
<1>2. \A v \in Workers : ~Holds(v, worker[v]) \/ worker[v].sub # s
  BY <1>1 DEF Good, WorkExists, Exists, Holds, Sub
<1>3. mutations[s] \in Nat
  BY DEF Good, TypeOK
<1>4. /\ doc'[s].life = "waiting_for_lock" /\ doc'[s].mutation = doc[s].mutation
      /\ doc'[s].outcome = doc[s].outcome /\ doc'[s].recovery = doc[s].recovery
  BY <1>1 DEF Good, TypeOK, Docs
<1>5. Agreed(s)'
  <2>1. mutations[s] = 0
    BY <1>1, <1>3 DEF Agreed, Truthful, Early
  <2>2. doc[s].recovery # "inconclusive"
    BY <1>1 DEF Agreed, Truthful, Early
  <2> QED
    BY <1>1, <1>3, <1>4, <2>1, <2>2 DEF Agreed, Truthful, Active, NoDoc
<1>6. \A o \in Subs \ {s} : doc'[o] = doc[o]
  BY <1>1 DEF Good, TypeOK
<1>7. Ledger'
  BY <1>1, <1>5, <1>6 DEF Good, Ledger, Agreed, Truthful
<1>8. ASSUME NEW v \in Workers
      PROVE  Proper(v, worker[v])'
  <2>1. worker'[v] = worker[v] /\ Proper(v, worker[v]) /\ Sound(worker[v])
    BY <1>1 DEF Good, Claims, WorkersSound
  <2>2. CASE worker[v].sub = s \/ worker[v].pc = "idle"
    <3>1. ~Holds(v, worker[v]) /\ ~Holds(v, worker[v])'
      BY <1>1, <1>2, <2>1, <2>2 DEF Holds
    <3> QED
      BY <2>1, <3>1 DEF Proper, Headed, Entitled
  <2>3. CASE worker[v].sub # s /\ worker[v].pc # "idle"
    <3>1. worker[v].sub \in Subs \ {s}
      BY <2>1, <2>3 DEF Sound
    <3> QED
      BY <1>1, <1>6, <2>1, <3>1 DEF Proper, Headed, Entitled, Informed, Holds, Truthful
  <2> QED
    BY <2>2, <2>3
<1> QED
  BY <1>7, <1>8 DEF Claims

LEMMA ClaimStep ==
  ASSUME Good, NEW w \in Workers, Claim(w)
  PROVE  Claims' /\ Ledger'
<1>1. PICK s \in Subs :
         /\ Claimable(s)
         /\ queue' = [queue EXCEPT ![s].owner = w, ![s].lapsed = FALSE]
         /\ worker' = [worker EXCEPT
              ![w].pc = "materialize", ![w].sub = s,
              ![w].goal = IF doc[s].life \in {"running", "cancelling"} THEN "recover" ELSE "execute"]
  BY DEF Claim
<1>2. UNCHANGED <<doc, record, mutations>> /\ NoWorker \notin Workers
  BY ControlPlaneAssumption DEF Claim, ghost
<1>3. /\ queue'[s].owner = w /\ queue'[s].lapsed = FALSE /\ queue'[s].done = queue[s].done
      /\ \A o \in Subs \ {s} : queue'[o] = queue[o]
  BY <1>1 DEF Good, TypeOK
<1>4. /\ worker'[w].pc = "materialize" /\ worker'[w].sub = s
      /\ worker'[w].goal = IF doc[s].life \in {"running", "cancelling"} THEN "recover" ELSE "execute"
      /\ \A v \in Workers \ {w} : worker'[v] = worker[v]
  BY <1>1 DEF Good, WorkersSound, Processes
<1>5. Agreed(s) /\ mutations[s] \in Nat
  BY DEF Good, Ledger, TypeOK
<1>6. Agreed(s)'
  BY <1>2, <1>3, <1>5 DEF Agreed, Truthful
<1>7. worker'[w].goal # "recover" => mutations[s] = 0
  BY <1>1, <1>4, <1>5 DEF Agreed, Truthful, Claimable, Active, Early
<1>8. Proper(w, worker[w])'
  BY <1>1, <1>2, <1>4, <1>7 DEF Proper, Headed, Entitled, Informed, Committed, Prior, During,
     AtRecord, Unread, Writing, Claimable
<1>9. \A v \in Workers \ {w} : queue[s].owner # v \/ queue[s].lapsed
  BY <1>1, <1>2 DEF Claimable
<1> QED
  BY <1>2, <1>3, <1>4, <1>6, <1>8, <1>9, RowStep DEF Good

LEMMA ClaimLapsesStep ==
  ASSUME Good, NEW s \in Subs, ClaimLapses(s)
  PROVE  Claims' /\ Ledger'
<1>1. PICK w \in Workers :
      /\ w = queue[s].owner /\ ~queue[s].lapsed /\ ~Covers(w, s)
      /\ queue' = [queue EXCEPT ![s].lapsed = TRUE]
      /\ UNCHANGED <<doc, record, worker, mutations>>
  BY DEF ClaimLapses, ghost
<1>2. /\ queue'[s].owner = w /\ queue'[s].lapsed /\ queue'[s].done = queue[s].done
      /\ \A o \in Subs \ {s} : queue'[o] = queue[o]
  BY <1>1 DEF Good, TypeOK
<1>3. Agreed(s)'
  BY <1>1, <1>2 DEF Good, Ledger, Agreed, Truthful
<1>4. Proper(w, worker[w])'
  <2>1. Proper(w, worker[w]) /\ Sound(worker[w]) /\ worker'[w] = worker[w]
    BY <1>1 DEF Good, Claims, WorkersSound
  <2>2. CASE worker[w].sub = s /\ worker[w].pc # "idle"
    <3>1. worker[w].pc \in Long
      BY <1>1, <2>2 DEF Covers, Sub
    <3>2. ~Holds(w, worker[w])'
      BY <1>2, <2>1, <2>2 DEF Holds
    <3> QED
      BY <2>1, <3>1, <3>2 DEF Long, Proper, Headed, Entitled, Committed, AtRecord
  <2>3. CASE worker[w].sub # s /\ worker[w].pc # "idle"
    <3>1. worker[w].sub \in Subs \ {s}
      BY <2>1, <2>3 DEF Sound
    <3>2. queue'[worker[w].sub] = queue[worker[w].sub]
      BY <1>2, <3>1
    <3>3. UNCHANGED <<doc, record, mutations>>
      BY <1>1
    <3> QED
      BY <2>1, <3>2, <3>3 DEF Proper, Headed, Entitled, Informed, Holds, Truthful
  <2>4. CASE worker[w].pc = "idle"
    BY <2>1, <2>4 DEF Proper, Headed, Entitled, Committed, Holds, AtRecord
  <2> QED
    BY <2>2, <2>3, <2>4
<1>5. /\ \A o \in Subs \ {s} : /\ doc'[o] = doc[o] /\ queue'[o] = queue[o]
                               /\ record'[o] = record[o] /\ mutations'[o] = mutations[o]
      /\ \A v \in Workers \ {w} : worker'[v] = worker[v]
      /\ \A v \in Workers \ {w} : queue[s].owner # v \/ queue[s].lapsed
      /\ \A v \in Workers \ {w} : queue'[s].owner # v \/ queue'[s].lapsed
  BY <1>1, <1>2
<1> QED
  BY <1>1, <1>3, <1>4, <1>5, RowStep DEF Good

(* The process of w after a write, and its submission's queue row. *)
LEMMA AfterWriteGoes ==
  ASSUME Good, NEW w \in Workers, AfterWrite(w), worker[w].pc \in {"upsert", "markDone"}
  PROVE  /\ \A v \in Workers \ {w} : worker'[v] = worker[v]
         /\ \/ worker'[w].pc = "idle"
            \/ /\ worker'[w].pc # "idle" /\ worker'[w].sub = worker[w].sub
               /\ worker'[w].file = worker[w].file /\ worker'[w].next = worker[w].next
               /\ \/ worker'[w].pc = "assert" /\ worker'[w].goal = "check" /\ worker[w].goal = "running"
                  \/ worker'[w].pc = "begin" /\ worker'[w].goal = "mutating" /\ worker[w].goal = "mutating"
                  \/ worker'[w].pc \in {"finally", "release"}
<1>1. worker \in [Workers -> Processes]
  BY DEF Good, WorkersSound
<1>2. CASE worker[w].goal = "putBack"
  BY <1>1, <1>2 DEF AfterWrite, Return, Idle
<1>3. CASE worker[w].goal # "putBack"
  BY <1>1, <1>3 DEF AfterWrite, Goto, Processes
<1> QED
  BY <1>2, <1>3

LEMMA MarkDoneStep ==
  ASSUME Good, NEW w \in Workers, MarkDone(w)
  PROVE  Claims' /\ Ledger'
<1>1. PICK s \in Subs :
      /\ s = worker[w].sub /\ queue' = [queue EXCEPT ![s] = Done]
      /\ worker[w].pc = "markDone" /\ AfterWrite(w)
      /\ UNCHANGED <<doc, record, mutations>>
  BY DEF MarkDone, Good, WorkExists, Exists, Sub, ghost
<1>2. /\ Proper(w, worker[w]) /\ queue[s].owner = w /\ ~queue[s].lapsed
      /\ doc[s].life \notin Active /\ doc[s].life # NoDoc
      /\ worker[w].goal \notin {"running", "mutating"}
  BY <1>1 DEF Good, Claims, Proper, Entitled, Headed, Holds, WorkExists, Exists, Sub
<1>3. /\ queue'[s].done /\ queue'[s].owner = NoWorker
      /\ \A o \in Subs \ {s} : queue'[o] = queue[o]
  BY <1>1 DEF Good, TypeOK, Done
<1>4. Agreed(s)'
  BY <1>1, <1>2 DEF Good, Ledger, Agreed, Truthful
<1>5. NoWorker \notin Workers
  BY ControlPlaneAssumption
<1>6. /\ \A v \in Workers \ {w} : worker'[v] = worker[v]
      /\ \/ worker'[w].pc = "idle"
         \/ worker'[w].pc \in {"finally", "release"} /\ worker'[w].sub = s
  BY <1>1, <1>2, AfterWriteGoes
<1>7. Proper(w, worker[w])'
  BY <1>3, <1>5, <1>6 DEF Proper, Headed, Entitled, Committed, Holds, AtRecord
<1> QED
  BY <1>1, <1>2, <1>3, <1>4, <1>5, <1>6, <1>7, RowStep DEF Good

(* A worker that is past an assertion of its claim has the only one. *)
LEMMA Committal ==
  ASSUME Good, NEW w \in Workers, Committed(worker[w])
  PROVE  /\ worker[w].sub \in Subs /\ Holds(w, worker[w])
         /\ queue[worker[w].sub].owner = w /\ ~queue[worker[w].sub].lapsed
         /\ ~queue[worker[w].sub].done /\ doc[worker[w].sub].life \in Active
         /\ Headed(worker[w]) /\ Informed(worker[w]) /\ Agreed(worker[w].sub)
<1>1. worker[w].pc # "idle" /\ Proper(w, worker[w])
  BY DEF Committed, Good, Claims
<1>2. worker[w].sub \in Subs
  BY <1>1 DEF Good, WorkExists, Exists, Sub
<1> QED
  BY <1>1, <1>2 DEF Proper, Entitled, Holds, Good, Ledger

LEMMA UpsertDocStep ==
  ASSUME Good, NEW w \in Workers, UpsertDoc(w)
  PROVE  Claims' /\ Ledger'
<1>1. PICK s \in Subs :
      /\ s = worker[w].sub /\ doc' = [doc EXCEPT ![s] = worker[w].next]
      /\ worker[w].pc = "upsert"
      /\ UNCHANGED <<queue, record, mutations>>
  BY DEF UpsertDoc, Good, WorkExists, Exists, Sub, ghost
<1>2. /\ queue[s].owner = w /\ ~queue[s].lapsed /\ ~queue[s].done
      /\ Headed(worker[w]) /\ Informed(worker[w]) /\ Agreed(s)
  BY <1>1, Committal DEF Committed
<1>3. Truthful(worker[w].file, s) /\ Truthful(worker[w].next, s)
  BY <1>1, <1>2 DEF Informed, Unread, Writing, AtRecord
<1>4. doc'[s] = worker[w].next /\ \A o \in Subs \ {s} : doc'[o] = doc[o]
  BY <1>1 DEF Good, TypeOK
<1>5. Agreed(s)'
  BY <1>1, <1>2, <1>3, <1>4 DEF Agreed, Truthful
<1>6. ASSUME worker[w].next.life \in Active, AfterWrite(w)
      PROVE  Proper(w, worker[w])' /\ \A v \in Workers \ {w} : worker'[v] = worker[v]
  <2>1. CASE worker'[w].pc = "idle"
    <3>1. Proper(w, worker[w])'
      BY <2>1 DEF Proper, Headed, Entitled, Committed, Holds, AtRecord
    <3> QED
      BY <1>1, <1>6, <3>1, AfterWriteGoes
  <2>2. CASE worker'[w].pc \in {"finally", "release"}
    <3>1. /\ worker'[w].sub = s /\ worker'[w].file = worker[w].file
          /\ \A v \in Workers \ {w} : worker'[v] = worker[v]
      BY <1>1, <1>6, <2>2, AfterWriteGoes
    <3>2. Headed(worker[w])' /\ Entitled(w, worker[w])'
      BY <2>2 DEF Headed, Entitled, Committed, AtRecord
    <3>3. Informed(worker[w])'
      BY <1>1, <1>3, <2>2, <3>1 DEF Informed, Prior, During, AtRecord, Writing, Truthful
    <3> QED
      BY <3>1, <3>2, <3>3 DEF Proper
  <2>3. CASE worker'[w].pc = "assert"
    <3>1. /\ worker'[w].goal = "check" /\ worker[w].goal = "running"
          /\ worker'[w].sub = s /\ worker'[w].file = worker[w].file
          /\ worker'[w].next = worker[w].next
          /\ \A v \in Workers \ {w} : worker'[v] = worker[v]
      BY <1>1, <1>6, <2>3, AfterWriteGoes
    <3>2. Headed(worker[w])' /\ Entitled(w, worker[w])'
      BY <2>3, <3>1 DEF Headed, Entitled, Committed, AtRecord
    <3>3. mutations[s] = 0 /\ worker[w].file.life \in Active
      BY <1>1, <1>2, <3>1 DEF Informed, Prior
    <3>4. Informed(worker[w])'
      BY <1>1, <1>3, <2>3, <3>1, <3>3 DEF Informed, Prior, During, AtRecord, Truthful
    <3> QED
      BY <3>1, <3>2, <3>4 DEF Proper
  <2>4. CASE worker'[w].pc = "begin"
    <3>1. /\ worker'[w].goal = "mutating" /\ worker[w].goal = "mutating"
          /\ worker'[w].sub = s /\ worker'[w].file = worker[w].file
          /\ worker'[w].next = worker[w].next
          /\ \A v \in Workers \ {w} : worker'[v] = worker[v]
      BY <1>1, <1>6, <2>4, AfterWriteGoes
    <3>2. Marked(worker[w].next) /\ Marked(worker[w].file)
      BY <1>1, <1>2, <3>1 DEF Headed
    <3>3. Headed(worker[w])' /\ Entitled(w, worker[w])'
      BY <1>1, <1>2, <1>4, <1>6, <2>4, <3>1, <3>2 DEF Headed, Entitled, Committed, AtRecord, Holds,
         Marked
    <3>4. mutations[s] = 0 /\ worker[w].file.life \in Active
      BY <1>1, <1>2, <3>1 DEF Informed, Prior
    <3>5. Informed(worker[w])'
      BY <1>1, <1>3, <1>4, <2>4, <3>1, <3>2, <3>4 DEF Informed, Prior, During, AtRecord, Truthful,
         Marked
    <3> QED
      BY <3>1, <3>3, <3>5 DEF Proper
  <2> QED
    BY <1>1, <1>6, <2>1, <2>2, <2>3, <2>4, AfterWriteGoes
<1>7. ASSUME worker[w].next.life \notin Active, Goto(w, "markDone", worker[w].goal)
      PROVE  Proper(w, worker[w])' /\ \A v \in Workers \ {w} : worker'[v] = worker[v]
  <2>1. /\ worker'[w].pc = "markDone" /\ worker'[w].goal = worker[w].goal
        /\ worker'[w].sub = s /\ worker'[w].file = worker[w].file
        /\ worker'[w].next = worker[w].next
        /\ \A v \in Workers \ {w} : worker'[v] = worker[v]
    BY <1>1, <1>7 DEF Goto, Good, WorkersSound, Processes
  <2>2. worker[w].goal \notin {"running", "mutating"}
    BY <1>1, <1>2, <1>7 DEF Headed, Marked, Active
  <2>3. Headed(worker[w])' /\ Entitled(w, worker[w])'
    BY <1>1, <1>2, <1>4, <1>7, <2>1, <2>2 DEF Headed, Entitled, Committed, AtRecord, Holds
  <2>4. Informed(worker[w])'
    BY <1>1, <1>3, <2>1 DEF Informed, Prior, During, AtRecord, Truthful
  <2> QED
    BY <2>1, <2>3, <2>4 DEF Proper
<1>8. Proper(w, worker[w])' /\ \A v \in Workers \ {w} : worker'[v] = worker[v]
  BY <1>6, <1>7 DEF UpsertDoc
<1>9. \A v \in Workers \ {w} : /\ queue[s].owner # v \/ queue[s].lapsed
                               /\ queue'[s].owner # v \/ queue'[s].lapsed
  BY <1>1, <1>2
<1> QED
  BY <1>1, <1>4, <1>5, <1>8, <1>9, RowStep DEF Good

LEMMA BeginMutationStep ==
  ASSUME Good, NEW w \in Workers, BeginMutation(w)
  PROVE  Claims' /\ Ledger'
<1>1. PICK s \in Subs :
      /\ s = worker[w].sub /\ worker[w].pc = "begin" /\ Goto(w, "mutate", "mutating")
      /\ mutations' = [mutations EXCEPT ![s] = @ + 1]
      /\ UNCHANGED <<doc, queue, record>>
  BY DEF BeginMutation, Good, WorkExists, Exists, Sub, rows
<1>2. /\ queue[s].owner = w /\ ~queue[s].lapsed
      /\ Headed(worker[w]) /\ Informed(worker[w]) /\ Agreed(s)
  BY <1>1, Committal DEF Committed
<1>3. /\ Truthful(worker[w].file, s) /\ Truthful(worker[w].next, s) /\ mutations[s] = 0
      /\ Marked(worker[w].file) /\ Marked(worker[w].next) /\ Marked(doc[s])
  BY <1>1, <1>2 DEF Informed, Headed, Unread, Writing, AtRecord, Prior
<1>4. mutations'[s] = 1 /\ \A o \in Subs \ {s} : mutations'[o] = mutations[o]
  BY <1>1, <1>3 DEF Good, TypeOK
<1>5. record[s] = "none"
  BY <1>2, <1>3 DEF Agreed
<1>6. /\ worker'[w].pc = "mutate" /\ worker'[w].goal = "mutating" /\ worker'[w].sub = s
      /\ worker'[w].file = worker[w].file /\ worker'[w].next = worker[w].next
      /\ \A v \in Workers \ {w} : worker'[v] = worker[v]
  BY <1>1 DEF Goto, Good, WorkersSound, Processes
<1>7. Agreed(s)'
  BY <1>1, <1>2, <1>3, <1>4, <1>5 DEF Agreed, Truthful, Marked, Early, NoDoc
<1>8. Headed(worker[w])' /\ Entitled(w, worker[w])'
  BY <1>6 DEF Headed, Entitled, Committed, AtRecord
<1>9. Informed(worker[w])'
  BY <1>1, <1>3, <1>4, <1>5, <1>6 DEF Informed, Prior, During, AtRecord, Truthful, Marked, Early,
     NoDoc, Active
<1>10. Proper(w, worker[w])'
  BY <1>8, <1>9 DEF Proper
<1>11. \A v \in Workers \ {w} : /\ queue[s].owner # v \/ queue[s].lapsed
                                /\ queue'[s].owner # v \/ queue'[s].lapsed
  BY <1>1, <1>2
<1> QED
  BY <1>1, <1>4, <1>6, <1>7, <1>10, <1>11, RowStep DEF Good

LEMMA PersistRecordStep ==
  ASSUME Good, NEW w \in Workers, PersistRecord(w)
  PROVE  Claims' /\ Ledger'
<1>1. PICK s \in Subs :
      /\ s = worker[w].sub /\ worker[w].pc = "record"
      /\ UNCHANGED <<doc, queue, mutations>>
  BY DEF PersistRecord, Good, WorkExists, Exists, Sub, ghost
<1>2. CASE Goto(w, "release", "none") /\ UNCHANGED record
  <2>1. Steady /\ worker[w].pc \notin Unread
    BY <1>1, <1>2 DEF Steady, Unread
  <2> QED
    BY <1>2, <2>1, LeaveStep
<1>3. CASE record' = [record EXCEPT ![s] = worker[w].result] /\ AfterRecord(w)
  <2> DEFINE p == worker[w]
  <2>1. /\ queue[s].owner = w /\ ~queue[s].lapsed /\ ~queue[s].done /\ doc[s].life \in Active
        /\ Headed(p) /\ Informed(p) /\ Agreed(s)
    BY <1>1, Committal DEF Committed
  <2>2. /\ p \in Processes /\ p.file \in Docs /\ p.next \in Docs /\ mutations[s] \in Nat
        /\ p.result \in Outcomes
    BY DEF Good, WorkersSound, Processes, TypeOK
  <2>3. /\ Truthful(p.file, s) /\ mutations[s] > 0 /\ record[s] = "none"
        /\ p.file.life \in Active /\ p.next.mutation /\ p.next.recovery # "inconclusive"
        /\ p.result # "none" /\ p.next.outcome = p.result /\ p.next.life = "finished"
    BY <1>1, <2>1 DEF Informed, Headed, Unread, During, AtRecord
  <2>4. record'[s] = p.result /\ \A o \in Subs \ {s} : record'[o] = record[o]
    BY <1>3 DEF Good, TypeOK
  <2>5. Agreed(s)'
    BY <1>1, <2>1, <2>3, <2>4 DEF Agreed, Truthful
  <2>6. /\ p.file.recovery # "inconclusive" /\ p.file.outcome = "none"
        /\ p.file.mutation /\ p.file.life \notin Early
    BY <2>3, <2>2 DEF Truthful, Docs
  <2>7. ASSUME NEW goal \in {"settle", "settled"}, Goto(w, "assert", goal)
        PROVE  Proper(w, worker[w])' /\ \A v \in Workers \ {w} : worker'[v] = worker[v]
    <3>1. /\ worker'[w].pc = "assert" /\ worker'[w].goal = goal /\ worker'[w].sub = s
          /\ worker'[w].file = p.file /\ worker'[w].next = p.next
          /\ \A v \in Workers \ {w} : worker'[v] = worker[v]
      BY <1>1, <2>7 DEF Goto, Good, WorkersSound, Processes
    <3>2. Headed(worker[w])'
      BY <3>1 DEF Headed, AtRecord
    <3>3. Entitled(w, worker[w])'
      BY <1>1, <2>1, <3>1 DEF Entitled, Committed, Holds
    <3>4. Truthful(worker[w].next, s)'
      BY <1>1, <2>3, <2>4, <3>1 DEF Truthful, Early, NoDoc
    <3>5. Truthful(worker[w].file, s)'
      BY <1>1, <2>3, <2>6, <3>1 DEF Truthful
    <3>6. Informed(worker[w])'
      BY <3>1, <3>4, <3>5 DEF Informed, Prior, During, AtRecord
    <3> QED
      BY <3>1, <3>2, <3>3, <3>6 DEF Proper
  <2>8. ASSUME Recover(w, p.result)
        PROVE  Proper(w, worker[w])' /\ \A v \in Workers \ {w} : worker'[v] = worker[v]
    <3> DEFINE d == Reconciled(p.file, p.result)
    <3>1. /\ d.life = "finished" /\ d.outcome = p.result /\ d.recovery = "converged"
          /\ d.mutation = p.file.mutation
      BY <2>2, <2>3 DEF Reconciled, Docs
    <3> HIDE DEF d
    <3>2. /\ worker'[w].pc = "upsert" /\ worker'[w].goal = "end" /\ worker'[w].sub = s
          /\ worker'[w].file = d /\ worker'[w].next = d
          /\ \A v \in Workers \ {w} : worker'[v] = worker[v]
      BY <1>1, <2>8 DEF d, Recover, Good, WorkersSound, Processes
    <3>3. Headed(worker[w])'
      BY <3>2 DEF Headed, AtRecord
    <3>4. Entitled(w, worker[w])'
      BY <1>1, <2>1, <3>2 DEF Entitled, Committed, Holds
    <3>5. Truthful(worker[w].next, s)' /\ Truthful(worker[w].file, s)'
      BY <1>1, <2>3, <2>4, <2>6, <3>1, <3>2 DEF Truthful, Early, NoDoc
    <3>6. Informed(worker[w])'
      BY <3>2, <3>5 DEF Informed, Prior, During, AtRecord
    <3> QED
      BY <3>2, <3>3, <3>4, <3>6 DEF Proper
  <2>9. Proper(w, worker[w])' /\ \A v \in Workers \ {w} : worker'[v] = worker[v]
    BY <1>3, <2>7, <2>8 DEF AfterRecord
  <2>10. \A v \in Workers \ {w} : /\ queue[s].owner # v \/ queue[s].lapsed
                                  /\ queue'[s].owner # v \/ queue'[s].lapsed
    BY <1>1, <2>1
  <2> HIDE DEF p
  <2> QED
    BY <1>1, <2>4, <2>5, <2>9, <2>10, RowStep DEF Good
<1> QED
  BY <1>1, <1>2, <1>3 DEF PersistRecord, Sub

-----------------------------------------------------------------------------
(* The next-state relation.                                                *)

LEMMA ClaimsNext ==
  "stall" \notin Faults /\ Requests = {} /\ Good /\ [Next]_vars => Claims' /\ Ledger'
<1> SUFFICES ASSUME "stall" \notin Faults, Requests = {}, Good, [Next]_vars
             PROVE  Claims' /\ Ledger'
  OBVIOUS
<1>1. ASSUME UNCHANGED <<doc, queue, record, mutations, worker>>
      PROVE  Claims' /\ Ledger'
  BY <1>1 DEF Good, Claims, Proper, Headed, Entitled, Informed, Holds, Truthful, Ledger, Agreed
<1>2. CASE LockLapses \/ (\E w \in Workers : LockRevives(w)) \/ UNCHANGED vars
  BY <1>1, <1>2 DEF LockLapses, LockRevives, vars, rows, ghost
<1>3. CASE \E s \in Subs : Submit(s) \/ ClaimLapses(s)
  BY <1>3, SubmitStep, ClaimLapsesStep
<1>4. ASSUME NEW w \in Workers, WorkerStep(w)
      PROVE  Claims' /\ Ledger'
  <2>1. CASE Claim(w) \/ Materialize(w) \/ Reconcile(w) \/ AssertClaim(w) \/ AcquireLock(w)
             \/ AssertPasses(w)
    BY <2>1, ClaimStep, MaterializeStep, ReconciliationStep, AssertClaimStep, AcquireLockStep,
       AssertPassesStep
  <2>2. CASE StopWaiting(w) \/ AssertFails(w) \/ ReleaseLock(w) \/ Finally(w) \/ Restart(w)
    BY <2>2, GiveUpStep, FinallyStep, RestartStep
  <2>3. CASE UpsertDoc(w) \/ MarkDone(w) \/ Revalidate(w) \/ BeginMutation(w) \/ MutateReturns(w)
             \/ PersistRecord(w)
    BY <2>3, UpsertDocStep, MarkDoneStep, RevalidationStep, BeginMutationStep, MutateReturnsStep,
       PersistRecordStep
  <2> QED
    BY <1>2, <1>4, <2>1, <2>2, <2>3 DEF WorkerStep
<1>5. CASE \E w \in Workers : Crash(w) \/ Abort(w) \/ Error(w)
  BY <1>5, RestartStep, AbortStep, ErrorStep
<1>6. \A w \in Workers : ~Stall(w)
  BY DEF Stall, Fault
<1> QED
  BY <1>2, <1>3, <1>4, <1>5, <1>6 DEF Next

LEMMA ClaimsInit == Init => Claims /\ Ledger
<1> SUFFICES ASSUME Init PROVE Claims /\ Ledger
  OBVIOUS
<1>1. \A w \in Workers : worker[w].pc = "idle"
  BY DEF Init, Idle
<1>2. Claims
  BY <1>1, Quiet DEF Claims
<1>3. \A s \in Subs : /\ doc[s] = Blank /\ mutations[s] = 0 /\ record[s] = "none"
                      /\ queue[s].done = FALSE
  BY DEF Init
<1>4. Ledger
  BY <1>3 DEF Ledger, Agreed, Truthful, Blank, Active, NoDoc
<1> QED
  BY <1>2, <1>4

-----------------------------------------------------------------------------
(* The invariants of every behaviour without stalls and cancellations.     *)
LEMMA ClaimsHold ==
  ASSUME "stall" \notin Faults, Requests = {}
  PROVE  Spec => []Good
<1>1. Init => Claims /\ Ledger
  BY ClaimsInit
<1>2. Inv /\ Claims /\ Ledger /\ [Next]_vars => Claims' /\ Ledger'
  BY ClaimsNext DEF Inv, Good
<1>3. Inv /\ Claims /\ Ledger => Good
  BY DEF Inv, Good
<1>4. Spec => [](Claims /\ Ledger)
  BY <1>1, <1>2, Invariance, PTL DEF Spec
<1> QED
  BY <1>3, <1>4, Invariance, PTL

(* Whatever workers crash, are aborted or fail: no submission is executed  *)
(* twice, since whoever finds it running recovers it (worker-loop.ts).     *)
THEOREM ExecutedOnce == "stall" \notin Faults /\ Requests = {} => (Spec => []ExecutedAtMostOnce)
<1> SUFFICES ASSUME "stall" \notin Faults, Requests = {} PROVE Spec => []ExecutedAtMostOnce
  OBVIOUS
<1>1. Good => ExecutedAtMostOnce
  BY DEF Good, Ledger, Agreed, ExecutedAtMostOnce
<1> QED
  BY <1>1, ClaimsHold, PTL

(* The row of a submission whose provider has been mutated says so: the    *)
(* worker that mutates has written mutationStartedAt and nobody erases it. *)
THEOREM Announced == "stall" \notin Faults /\ Requests = {} => (Spec => []MutationIsAnnounced)
<1> SUFFICES ASSUME "stall" \notin Faults, Requests = {} PROVE Spec => []MutationIsAnnounced
  OBVIOUS
<1>1. Good => MutationIsAnnounced
  BY DEF Good, Ledger, Agreed, Truthful, MutationIsAnnounced
<1> QED
  BY <1>1, ClaimsHold, PTL

(* A submission that is still to be worked on stays in the queue: only the *)
(* write of an ended one takes it out.                                     *)
THEOREM Queued == "stall" \notin Faults /\ Requests = {} => (Spec => []ActiveRunIsQueued)
<1> SUFFICES ASSUME "stall" \notin Faults, Requests = {} PROVE Spec => []ActiveRunIsQueued
  OBVIOUS
<1>1. Good => ActiveRunIsQueued
  BY DEF Good, Ledger, Agreed, ActiveRunIsQueued
<1> QED
  BY <1>1, ClaimsHold, PTL

(* The outcome a submission reports is that of its deploy record, whoever  *)
(* settled or recovered it.                                                *)
THEOREM Backed == "stall" \notin Faults /\ Requests = {} => (Spec => []OutcomeBackedByRecord)
<1> SUFFICES ASSUME "stall" \notin Faults, Requests = {} PROVE Spec => []OutcomeBackedByRecord
  OBVIOUS
<1>1. Good => OutcomeBackedByRecord
  BY DEF Good, Ledger, Agreed, Truthful, OutcomeBackedByRecord
<1> QED
  BY <1>1, ClaimsHold, PTL

(* A run handed to the operator as inconclusive has no deploy record:      *)
(* whoever might still write one has lost its claim, and learns it first.  *)
THEOREM Inconclusive ==
  "stall" \notin Faults /\ Requests = {} => (Spec => []InconclusiveHasNoRecord)
<1> SUFFICES ASSUME "stall" \notin Faults, Requests = {} PROVE Spec => []InconclusiveHasNoRecord
  OBVIOUS
<1>1. Good => InconclusiveHasNoRecord
  BY DEF Good, Ledger, Agreed, Truthful, InconclusiveHasNoRecord
<1> QED
  BY <1>1, ClaimsHold, PTL

(* A step writes over no ended submission: every write of a worker follows *)
(* an assertion of its claim to an active one, and the claim is its alone. *)
LEMMA EndKept ==
  Requests = {} /\ Good /\ [Next]_vars => \A s \in Subs : doc[s].life \in Ended => doc'[s] = doc[s]
<1> SUFFICES ASSUME Requests = {}, Good, [Next]_vars, NEW s \in Subs, doc[s].life \in Ended
             PROVE  doc'[s] = doc[s]
  OBVIOUS
<1>1. doc[s].life \notin Active /\ doc[s].life # NoDoc
  BY DEF Active, Ended, NoDoc
<1>2. CASE doc' = doc
  BY <1>2
<1>3. CASE \E o \in Subs : Submit(o)
  <2>1. PICK o \in Subs : Submit(o)
    BY <1>3
  <2>2. o # s /\ doc' = [doc EXCEPT ![o].life = "waiting_for_lock"]
    BY <1>1, <2>1 DEF Submit
  <2> QED
    BY <2>2 DEF Good, TypeOK
<1>4. CASE \E w \in Workers : UpsertDoc(w)
  <2>1. PICK w \in Workers : UpsertDoc(w)
    BY <1>4
  <2>2. doc[worker[w].sub].life \in Active
    BY <2>1, Committal DEF UpsertDoc, Committed
  <2>3. worker[w].sub # s /\ doc' = [doc EXCEPT ![worker[w].sub] = worker[w].next]
    BY <1>1, <2>1, <2>2 DEF UpsertDoc, Sub
  <2> QED
    BY <2>3 DEF Good, TypeOK
<1>5. ASSUME NEW w \in Workers, ~UpsertDoc(w),
             WorkerStep(w) \/ Crash(w) \/ Abort(w) \/ Error(w) \/ Stall(w)
      PROVE  doc' = doc
  BY <1>5 DEF WorkerStep, Claim, Materialize, Reconcile, AssertClaim, StopWaiting, AcquireLock,
     AssertPasses, AssertFails, MarkDone, Revalidate, BeginMutation, MutateReturns, PersistRecord,
     ReleaseLock, Finally, LockRevives, Restart, Crash, Abort, Error, Stall, rows
<1>6. CASE \E o \in Subs : ClaimLapses(o)
  BY <1>2, <1>6 DEF ClaimLapses
<1>7. CASE LockLapses \/ UNCHANGED vars
  BY <1>2, <1>7 DEF LockLapses, vars, rows
<1> QED
  BY <1>2, <1>3, <1>4, <1>5, <1>6, <1>7 DEF Next

(* Whatever workers crash, are aborted or fail: an ended submission keeps  *)
(* its state, its outcome and its recovery.                                *)
THEOREM EndFinal == "stall" \notin Faults /\ Requests = {} => (Spec => EndIsFinal)
<1> SUFFICES ASSUME "stall" \notin Faults, Requests = {} PROVE Spec => EndIsFinal
  OBVIOUS
<1>1. Good /\ [Next]_vars => [\A s \in Subs : doc[s].life \in Ended => doc'[s] = doc[s]]_vars
  BY EndKept
<1>2. Spec => [][Next]_vars
  BY DEF Spec
<1> QED
  BY <1>1, <1>2, ClaimsHold, PTL DEF EndIsFinal

-----------------------------------------------------------------------------
(* Dispatched executors.                                                   *)

(* A working process has a submission and, from materialize on, a copy;    *)
(* what it may write is a document.  Its steps are those of its executor.  *)
Drafting == Writing \cup {"revalidate"}

Route(p) ==
  IF Settling
  THEN /\ p.goal \notin {"settle", "end"}
       /\ p.pc \in {"begin", "mutate"} => p.goal = "mutating"
       /\ p.pc = "record" => p.goal = "record"
       /\ p.pc = "revalidate" => p.goal = "check"
       /\ p.pc \in {"reconcile", "assertClaim"} => p.goal = "recover"
       /\ p.pc = "assert" => p.goal \in Steps \cup {"begin", "smoked", "record", "settled"}
       /\ p.pc = "upsert" => p.goal \in Steps \cup {"settled", "recover", "putBack"}
       /\ p.pc = "markDone" => p.goal \in {"settled", "recover", "putBack"}
  ELSE /\ p.goal \in {"none", "execute", "mutating", "record", "settled", "putBack"}
       /\ p.pc = "record" => p.goal = "record"
       /\ p.pc \notin {"reconcile", "assertClaim", "revalidate"}

Fit(p) ==
  /\ Route(p)
  /\ p.pc # "idle" => p.sub \in Subs
  /\ p.pc \notin Unread => p.file.life # NoDoc
  /\ p.pc \in Drafting => p.next.life # NoDoc

Fits == worker \in [Workers -> Processes] /\ \A w \in Workers : Fit(worker[w])

-----------------------------------------------------------------------------
(* What a step makes of the process of w.                                  *)
Others(w) ==
  /\ worker' \in [Workers -> Processes]
  /\ \A v \in Workers : v # w => worker'[v] = worker[v]

Turns(w, pc, goal, file, next, result) ==
  /\ Others(w)
  /\ worker'[w].pc = pc /\ worker'[w].goal = goal /\ worker'[w].sub = worker[w].sub
  /\ worker'[w].file = file /\ worker'[w].next = next /\ worker'[w].result = result

Goes(w, pc, goal) == Turns(w, pc, goal, worker[w].file, worker[w].next, worker[w].result)
Idles(w) == Others(w) /\ worker'[w].pc = "idle" /\ worker'[w].goal = "none"

Finish(d, result) == [d EXCEPT !.life = "finished", !.outcome = result]
Run(d) == [d EXCEPT !.life = "running"]
Mark(d) == [d EXCEPT !.mutation = TRUE]
Refuse(d) == [d EXCEPT !.life = "finished", !.reason = "no_longer_admitted"]

Standing == UNCHANGED <<rows, mutations, aside>>

(* The steps of w, told by what they do to its process and to the rows.    *)
Rests(w) ==
  Goes(w, worker[w].pc, worker[w].goal) /\ Standing

Quits(w) == Idles(w) /\ Standing

Leaves(w) ==
  /\ worker[w].pc \notin Unread
  /\ Goes(w, "finally", "none") \/ (Locking(w) /\ Goes(w, "release", "none"))
  /\ Standing

Takes(w) ==
  /\ worker[w].pc = "idle"
  /\ \E s \in Subs :
       /\ Claimable(s)
       /\ queue' = [queue EXCEPT ![s].owner = w, ![s].lapsed = FALSE]
       /\ Others(w) /\ worker'[w].pc = "materialize" /\ worker'[w].sub = s
       /\ worker'[w].goal = IF Settling /\ doc[s].life \in {"running", "cancelling"}
                            THEN "recover" ELSE "execute"
  /\ UNCHANGED <<doc, record, stage, expected, mutations, aside>>

Reads(w) ==
  /\ worker[w].pc = "materialize"
  /\ Turns(w, IF worker[w].goal = "recover" THEN "reconcile" ELSE "acquire", worker[w].goal,
           doc[Sub(w)], worker[w].next, worker[w].result)
  /\ Standing

Reconciles(w) ==
  /\ Settling /\ worker[w].pc = "reconcile"
  /\ \E rec \in RecordsOf(Sub(w)) :
       LET d == Reconciled(worker[w].file, rec) IN
         Turns(w, "assertClaim", worker[w].goal, d, d, worker[w].result)
  /\ Standing

Confirms(w) ==
  /\ Settling /\ worker[w].pc = "assertClaim" /\ HasClaim(w)
  /\ Goes(w, "upsert", "recover")
  /\ Standing

Locks(w) ==
  /\ worker[w].pc = "acquire"
  /\ Turns(w, "assert", IF Settling THEN "running" ELSE "mutating", worker[w].file,
           Run(worker[w].file), worker[w].result)
  /\ Lock!Acquire(w) /\ ~lockLapsed'
  /\ Standing

Drafts(w) ==
  /\ worker[w].pc = "assert" /\ HasClaim(w)
  /\ worker[w].goal \notin {"begin", "smoked", "record"}
  /\ Turns(w, "upsert", worker[w].goal, worker[w].next, worker[w].next, worker[w].result)
  /\ Standing

Enters(w) ==
  /\ worker[w].pc = "assert" /\ HasClaim(w)
  /\ \/ Settling /\ worker[w].goal = "begin" /\ Goes(w, "begin", "mutating")
     \/ worker[w].goal = "record" /\ Goes(w, "record", "record")
  /\ Standing

Commits(w) ==
  /\ worker[w].pc \in Drafting \ {"assertClaim"} /\ Locking(w)
  /\ \E result \in {"succeeded", "failed"} :
       /\ Turns(w, "assert", "record", worker[w].file, Finish(worker[w].next, result), result)
       /\ result = "succeeded" => \/ worker[w].pc = "mutate"
                                  \/ /\ worker[w].pc \in {"assert", "upsert"}
                                     /\ worker[w].goal \in {"smoke", "smoked"}
       /\ IF Settling THEN worker[w].goal # "running" ELSE result = "succeeded"
  /\ Standing

Revalidates(w) ==
  /\ Settling /\ worker[w].pc = "revalidate"
  /\ Turns(w, "assert", "mutating", worker[w].file, Mark(worker[w].next), worker[w].result)
  /\ Standing

Publishes(w) == Settling /\ worker[w].pc = "mutate" /\ Goes(w, "assert", "smoke") /\ Standing

GivesUp(w) ==
  /\ ~Settling /\ worker[w].pc = "mutate"
  /\ Turns(w, "assert", "settled", worker[w].file, Refuse(worker[w].next), worker[w].result)
  /\ Standing

PutsBack(w) ==
  /\ worker[w].pc = "finally" /\ HasClaim(w)
  /\ Turns(w, "upsert", "putBack", worker[w].file, worker[w].file, worker[w].result)
  /\ Standing

(* What follows the write of a run that does not go on. *)
Resumes(w) ==
  \/ ~Settling /\ worker[w].goal = "mutating" /\ Goes(w, "begin", "mutating")
  \/ worker[w].goal = "recover" /\ Goes(w, "finally", "none")
  \/ worker[w].goal = "putBack" /\ Idles(w)
  \/ Locking(w) /\ Goes(w, "release", "none")

Upserts(w) ==
  /\ worker[w].pc = "upsert"
  /\ doc' = [doc EXCEPT ![Sub(w)] = worker[w].next]
  /\ \/ /\ Settling
        /\ \/ worker[w].goal = "running" /\ Goes(w, "assert", "check")
           \/ worker[w].goal = "check" /\ Goes(w, "revalidate", "check")
           \/ worker[w].goal = "mutating" /\ Goes(w, "assert", "begin")
           \/ worker[w].goal = "smoke" /\ Goes(w, "assert", "smoked")
     \/ /\ Settling => worker[w].goal \notin Steps
        /\ Goes(w, "markDone", worker[w].goal) \/ Resumes(w)
  /\ UNCHANGED <<queue, record, stage, expected, mutations, aside>>

Closes(w) ==
  /\ worker[w].pc = "markDone"
  /\ queue' = [queue EXCEPT ![Sub(w)] = Done]
  /\ Resumes(w)
  /\ UNCHANGED <<doc, record, stage, expected, mutations, aside>>

Begins(w) ==
  /\ worker[w].pc = "begin"
  /\ Goes(w, "mutate", "mutating")
  /\ mutations' = [mutations EXCEPT ![Sub(w)] = @ + 1]
  /\ UNCHANGED <<rows, aside>>

Records(w) ==
  /\ worker[w].pc = "record"
  /\ Goes(w, "assert", "settled")
  /\ \/ /\ Settling => worker[w].result = "succeeded"
        /\ stage = expected[Sub(w)] /\ stage' = Sub(w)
        /\ record' = [record EXCEPT ![Sub(w)] = worker[w].result]
        /\ UNCHANGED aside
     \/ /\ Settling /\ worker[w].result = "failed" /\ record[Sub(w)] # "succeeded"
        /\ record' = [record EXCEPT ![Sub(w)] = "failed"]
        /\ UNCHANGED <<stage, aside>>
     \/ /\ Settling /\ worker[w].result = "failed"
        /\ aside' = aside \cup {Sub(w)}
        /\ UNCHANGED <<record, stage>>
  /\ UNCHANGED <<doc, queue, expected, mutations>>

Acts(w) ==
  \/ Rests(w) \/ Quits(w) \/ Leaves(w) \/ Takes(w) \/ Reads(w) \/ Reconciles(w) \/ Confirms(w)
  \/ Locks(w) \/ Drafts(w) \/ Enters(w) \/ Commits(w) \/ Revalidates(w) \/ Publishes(w)
  \/ GivesUp(w) \/ PutsBack(w) \/ Upserts(w) \/ Closes(w) \/ Begins(w) \/ Records(w)

-----------------------------------------------------------------------------
(* Lemmas about documents and processes.                                   *)
LEMMA NextDocs ==
  ASSUME NEW d \in Docs, NEW result \in {"succeeded", "failed"}
  PROVE  /\ Finish(d, result) \in Docs /\ Finish(d, result).life = "finished"
         /\ Finish(d, result).outcome = result
         /\ Run(d) \in Docs /\ Run(d).life = "running" /\ Run(d).outcome = d.outcome
         /\ Mark(d) \in Docs /\ Mark(d).life = d.life /\ Mark(d).outcome = d.outcome
         /\ Refuse(d) \in Docs /\ Refuse(d).life = "finished"
BY DEF Finish, Run, Mark, Refuse, Docs, Active, Ended, Reasons, Outcomes

LEMMA ReconciledDocs ==
  ASSUME NEW d \in Docs, NEW rec \in Outcomes
  PROVE  /\ Reconciled(d, rec) \in Docs /\ Reconciled(d, rec).life = "finished"
         /\ Reconciled(d, rec).outcome \in {d.outcome, rec}
BY DEF Reconciled, Docs, Ended, Outcomes

LEMMA AllPCs ==
  /\ {"idle", "materialize", "reconcile", "assertClaim", "acquire", "assert", "upsert", "markDone",
      "revalidate", "begin", "mutate", "record", "release", "finally"} \subseteq PCs
  /\ {"none", "recover", "execute", "running", "check", "mutating", "record", "settle", "settled",
      "end", "putBack", "begin", "smoke", "smoked"} \subseteq Goals
  /\ {"none", "succeeded", "failed"} \subseteq Outcomes
BY DEF PCs, Goals, Outcomes

LEMMA Process ==
  ASSUME Fits, NEW w \in Workers
  PROVE  /\ worker[w] \in Processes /\ worker[w].pc \in PCs /\ worker[w].goal \in Goals
         /\ worker[w].file \in Docs /\ worker[w].next \in Docs /\ worker[w].result \in Outcomes
         /\ worker[w].aborted \in BOOLEAN /\ worker[w].leaked \in BOOLEAN
         /\ Fit(worker[w])
BY DEF Fits, Processes

LEMMA GotoGoes ==
  ASSUME Fits, NEW w \in Workers, NEW pc \in PCs, NEW goal \in Goals, Goto(w, pc, goal)
  PROVE  Goes(w, pc, goal)
BY DEF Fits, Goto, Goes, Turns, Others, Processes

LEMMA ReturnIdles ==
  ASSUME Fits, NEW w \in Workers, Return(w) \/ worker' = [worker EXCEPT ![w] = Idle]
  PROVE  Idles(w)
<1> DEFINE q == [Idle EXCEPT !.aborted = worker[w].aborted, !.leaked = worker[w].leaked]
<1>1. Idle \in Processes /\ q \in Processes
  BY Process, IdleSound
<1>2. Idle.pc = "idle" /\ Idle.goal = "none" /\ q.pc = "idle" /\ q.goal = "none"
  BY DEF Idle
<1>3. worker' = [worker EXCEPT ![w] = q] \/ worker' = [worker EXCEPT ![w] = Idle]
  BY DEF Return
<1> HIDE DEF q
<1> QED
  BY <1>1, <1>2, <1>3 DEF Fits, Idles, Others

(* The process of w, and no other, becomes q. *)
LEMMA Becomes ==
  ASSUME Fits, NEW w \in Workers, NEW q \in Processes, worker' = [worker EXCEPT ![w] = q],
         q.sub = worker[w].sub
  PROVE  Turns(w, q.pc, q.goal, q.file, q.next, q.result)
BY DEF Fits, Turns, Others

LEMMA CommitTurns ==
  ASSUME Fits, NEW w \in Workers, NEW result \in {"succeeded", "failed"}, Commit(w, result)
  PROVE  Turns(w, "assert", "record", worker[w].file, Finish(worker[w].next, result), result)
<1> DEFINE d == Finish(worker[w].next, result)
           q == [worker[w] EXCEPT !.pc = "assert", !.goal = "record", !.result = result, !.next = d]
<1>1. worker[w] \in Processes /\ d \in Docs
  BY Process, NextDocs
<1>2. worker' = [worker EXCEPT ![w] = q]
  BY DEF Commit, Finish, Fits, Processes
<1> HIDE DEF d
<1>3. q \in Processes
  BY <1>1, AllPCs DEF Processes
<1>4. q.pc = "assert" /\ q.goal = "record" /\ q.sub = worker[w].sub /\ q.file = worker[w].file
      /\ q.next = d /\ q.result = result
  BY <1>1 DEF Processes
<1> HIDE DEF q
<1>5. worker'[w] = q /\ Others(w)
  BY <1>2, <1>3 DEF Fits, Others
<1> QED
  BY <1>4, <1>5 DEF Turns, d

(* What throws is recorded as a failure, or leaves. *)
LEMMA FailureActs ==
  ASSUME Settling, Fits, NEW w \in Workers, StepFails(w), Standing,
         Locking(w), worker[w].pc # "release"
  PROVE  Leaves(w) \/ Commits(w)
<1>1. worker[w].pc \in Drafting \ {"assertClaim"} /\ worker[w].pc \notin Unread
  BY DEF Locking, Drafting, Writing, Unread
<1>2. CASE Goto(w, "release", "none")
  BY <1>1, <1>2, GotoGoes, AllPCs DEF Leaves
<1>3. CASE worker[w].goal # "running" /\ Commit(w, "failed")
  BY <1>1, <1>3, CommitTurns DEF Commits
<1>4. CASE worker[w].goal \in {"smoke", "smoked"} /\ Commit(w, "succeeded")
  <2>1. worker[w].pc \in {"assert", "upsert"}
    BY <1>4, Process DEF Locking, Fit, Route, Steps
  <2> QED
    BY <1>1, <1>4, <2>1, CommitTurns DEF Commits
<1> QED
  BY <1>2, <1>3, <1>4 DEF StepFails

-----------------------------------------------------------------------------
(* The steps they share with ControlPlane.                                 *)
LEMMA CommonActs ==
  ASSUME TypeOK, WorkExists, Fits, NEW w \in Workers, UNCHANGED <<executor, aside>>, CommonStep(w)
  PROVE  Acts(w)
<1> USE AllPCs
<1>1. CASE Materialize(w)
  <2>1. Standing /\ worker[w].pc = "materialize"
    BY <1>1 DEF Materialize, Standing, ghost
  <2>2. CASE worker[w].aborted
    BY <1>1, <2>1, <2>2, ReturnIdles DEF Materialize, Acts, Quits
  <2>3. CASE ~worker[w].aborted
    <3> DEFINE pc == IF worker[w].goal = "recover" THEN "reconcile" ELSE "acquire"
    <3>1. Sub(w) \in Subs /\ doc[Sub(w)] \in Docs /\ pc \in PCs
      BY <2>1 DEF WorkExists, Exists, TypeOK
    <3>2. worker' = [worker EXCEPT ![w].file = doc[Sub(w)], ![w].pc = pc]
      BY <1>1, <2>3 DEF Materialize
    <3> HIDE DEF pc
    <3>3. Turns(w, pc, worker[w].goal, doc[Sub(w)], worker[w].next, worker[w].result)
      BY <3>1, <3>2 DEF Fits, Turns, Others, Processes
    <3> QED
      BY <2>1, <3>3 DEF Acts, Reads, pc
  <2> QED
    BY <2>2, <2>3
<1>2. CASE MarkDone(w)
  <2>1. /\ worker[w].pc = "markDone" /\ queue' = [queue EXCEPT ![Sub(w)] = Done]
        /\ AfterWrite(w) /\ UNCHANGED <<doc, record, stage, expected, mutations, aside>>
    BY <1>2 DEF MarkDone, ghost
  <2>2. Resumes(w)
    BY <2>1, Process, GotoGoes, ReturnIdles DEF AfterWrite, Resumes, Fit, Route, Locking, Steps
  <2> QED
    BY <2>1, <2>2 DEF Acts, Closes
<1>3. CASE BeginExecution(w)
  <2>1. Goto(w, "mutate", "mutating")
    BY <1>3 DEF BeginExecution, BeginMutation
  <2> QED
    BY <1>3, <2>1, GotoGoes DEF BeginExecution, BeginMutation, Acts, Begins
<1>4. CASE ReleaseInFinally(w)
  <2>1. Standing /\ worker[w].pc = "release" /\ Goto(w, "finally", "none")
    BY <1>4 DEF ReleaseInFinally, ReleaseLock, Standing, ghost
  <2> QED
    BY <2>1, GotoGoes DEF Acts, Leaves, Unread
<1>5. CASE ForgetLock(w)
  <2>1. Standing /\ worker[w].pc = "release"
        /\ worker' = [worker EXCEPT ![w].pc = "finally", ![w].goal = "none", ![w].leaked = TRUE]
    BY <1>5 DEF ForgetLock, Standing, ghost
  <2>2. Goes(w, "finally", "none")
    BY <2>1 DEF Fits, Goes, Turns, Others, Processes
  <2> QED
    BY <2>1, <2>2 DEF Acts, Leaves, Unread
<1>6. CASE Finally(w)
  <2>1. Standing /\ worker[w].pc = "finally"
    BY <1>6 DEF Finally, Standing, ghost
  <2>2. CASE HasClaim(w)
    <3>1. worker' = [worker EXCEPT ![w].pc = "upsert", ![w].goal = "putBack",
                                   ![w].next = worker[w].file]
      BY <1>6, <2>2 DEF Finally
    <3>2. Turns(w, "upsert", "putBack", worker[w].file, worker[w].file, worker[w].result)
      BY <3>1 DEF Fits, Turns, Others, Processes
    <3> QED
      BY <2>1, <2>2, <3>2 DEF Acts, PutsBack
  <2>3. CASE ~HasClaim(w)
    BY <1>6, <2>1, <2>3, ReturnIdles DEF Finally, Acts, Quits
  <2> QED
    BY <2>2, <2>3
<1>7. CASE LockRevives(w)
  <2>1. Standing /\ worker' = worker
    BY <1>7 DEF LockRevives, Standing, ghost
  <2> QED
    BY <2>1 DEF Fits, Acts, Rests, Goes, Turns, Others
<1>8. CASE Restart(w)
  BY <1>8, ReturnIdles DEF Restart, Standing, ghost, Acts, Quits
<1> QED
  BY <1>1, <1>2, <1>3, <1>4, <1>5, <1>6, <1>7, <1>8 DEF CommonStep

(* The steps of dispatched executors. *)
LEMMA DispatchedActs ==
  ASSUME ~Settling, Fits, NEW w \in Workers, UNCHANGED <<executor, aside>>, DispatchedStep(w)
  PROVE  Acts(w)
<1> USE AllPCs
<1>0. worker[w] \in Processes /\ worker[w].goal \in {"none", "execute", "mutating", "record",
                                                     "settled", "putBack"}
  BY Process DEF Fit, Route
<1>1. CASE Dispatch(w)
  <2>1. PICK s \in Subs :
               /\ Claimable(s)
               /\ queue' = [queue EXCEPT ![s].owner = w, ![s].lapsed = FALSE]
               /\ worker' = [worker EXCEPT ![w].pc = "materialize", ![w].sub = s,
                                           ![w].goal = "execute"]
    BY <1>1 DEF Dispatch
  <2>2. Others(w) /\ worker'[w].pc = "materialize" /\ worker'[w].sub = s
        /\ worker'[w].goal = "execute"
    BY <2>1 DEF Fits, Others, Processes
  <2>3. Takes(w)
    BY <1>1, <2>1, <2>2 DEF Dispatch, Takes, ghost
  <2> QED
    BY <2>3 DEF Acts
<1>2. CASE TakeLock(w)
  <2> DEFINE d == Run(worker[w].file)
  <2>1. worker' = [worker EXCEPT ![w].pc = "assert", ![w].goal = "mutating", ![w].leaked = FALSE,
                                 ![w].next = d]
    BY <1>2, Zenon DEF TakeLock, Run
  <2>2. d \in Docs
    BY Process, NextDocs
  <2> HIDE DEF d
  <2> DEFINE q == [worker[w] EXCEPT !.pc = "assert", !.goal = "mutating", !.leaked = FALSE, !.next = d]
  <2>3. Turns(w, "assert", "mutating", worker[w].file, d, worker[w].result)
    <3>1. worker' = [worker EXCEPT ![w] = q]
      BY <1>0, <2>1 DEF Fits, Processes
    <3>2. q \in Processes /\ q.sub = worker[w].sub /\ q.pc = "assert" /\ q.goal = "mutating"
          /\ q.file = worker[w].file /\ q.next = d /\ q.result = worker[w].result
      BY <1>0, <2>2 DEF Processes
    <3> HIDE DEF q
    <3> QED
      BY <3>1, <3>2, Becomes
  <2> QED
    BY <1>2, <2>3 DEF TakeLock, Standing, ghost, Acts, Locks, d
<1>3. CASE AssertPasses(w)
  <2>1. Standing /\ worker[w].pc = "assert" /\ HasClaim(w)
    BY <1>3 DEF AssertPasses, HasAuthority, Standing, ghost
  <2>2. CASE worker[w].goal = "record"
    <3>1. Goto(w, "record", "record")
      BY <1>3, <2>2 DEF AssertPasses
    <3> QED
      BY <2>1, <2>2, <3>1, GotoGoes DEF Acts, Enters
  <2>3. CASE worker[w].goal # "record"
    <3>1. worker' = [worker EXCEPT ![w].pc = "upsert", ![w].file = worker[w].next]
      BY <1>0, <1>3, <2>3 DEF AssertPasses
    <3>2. Turns(w, "upsert", worker[w].goal, worker[w].next, worker[w].next, worker[w].result)
      BY <3>1 DEF Fits, Turns, Others, Processes
    <3> QED
      BY <1>0, <2>1, <2>3, <3>2 DEF Acts, Drafts
  <2> QED
    BY <2>2, <2>3
<1>4. CASE AssertFails(w)
  <2>1. Standing /\ worker[w].pc = "assert" /\ Goto(w, "release", "none")
    BY <1>0, <1>4 DEF AssertFails, LoseAuthority, Unwind, Standing, ghost
  <2> QED
    BY <2>1, GotoGoes DEF Acts, Leaves, Unread, Locking
<1>5. CASE UpsertDoc(w)
  <2>1. /\ worker[w].pc = "upsert" /\ doc' = [doc EXCEPT ![Sub(w)] = worker[w].next]
        /\ Goto(w, "markDone", worker[w].goal) \/ AfterWrite(w)
        /\ UNCHANGED <<queue, record, stage, expected, mutations, aside>>
    BY <1>5 DEF UpsertDoc, ghost
  <2>2. Goes(w, "markDone", worker[w].goal) \/ Resumes(w)
    BY <1>0, <2>1, Process, GotoGoes, ReturnIdles DEF AfterWrite, Resumes, Locking
  <2> QED
    BY <2>1, <2>2 DEF Acts, Upserts
<1>6. CASE ProviderReturns(w)
  <2> DEFINE d1 == Finish(worker[w].next, "succeeded")
             d2 == Refuse(worker[w].next)
  <2>1. Standing /\ worker[w].pc = "mutate" /\ Locking(w)
    BY <1>6 DEF ProviderReturns, Standing, ghost, Locking
  <2>2. \/ worker' = [worker EXCEPT ![w].pc = "assert", ![w].goal = "record",
                                    ![w].result = "succeeded", ![w].next = d1]
        \/ Goto(w, "release", "none")
        \/ worker' = [worker EXCEPT ![w].pc = "assert", ![w].goal = "settled", ![w].next = d2]
    <3>1. \/ worker' = [worker EXCEPT ![w].pc = "assert", ![w].goal = "record",
                                 ![w].result = "succeeded",
                                 ![w].next = [@ EXCEPT !.life = "finished", !.outcome = "succeeded"]]
          \/ Goto(w, "release", "none")
          \/ worker' = [worker EXCEPT ![w].pc = "assert", ![w].goal = "settled",
                                    ![w].next = [@ EXCEPT !.life = "finished",
                                                          !.reason = "no_longer_admitted"]]
      BY <1>6, Zenon DEF ProviderReturns
    <3> QED
      BY <1>0, <3>1 DEF Finish, Refuse, Fits, Processes
  <2>3. d1 \in Docs /\ d2 \in Docs
    BY Process, NextDocs
  <2> HIDE DEF d1, d2
  <2>4. CASE worker' = [worker EXCEPT ![w].pc = "assert", ![w].goal = "record",
                                      ![w].result = "succeeded", ![w].next = d1]
    <3> DEFINE q == [worker[w] EXCEPT !.pc = "assert", !.goal = "record", !.result = "succeeded",
                                      !.next = d1]
    <3>1. Turns(w, "assert", "record", worker[w].file, d1, "succeeded")
      <4>1. worker' = [worker EXCEPT ![w] = q]
        BY <1>0, <2>4 DEF Fits, Processes
      <4>2. q \in Processes /\ q.sub = worker[w].sub /\ q.pc = "assert" /\ q.goal = "record"
            /\ q.file = worker[w].file /\ q.next = d1 /\ q.result = "succeeded"
        BY <1>0, <2>3 DEF Processes
      <4> HIDE DEF q
      <4> QED
        BY <4>1, <4>2, Becomes
    <3> QED
      BY <2>1, <3>1 DEF Acts, Commits, d1, Drafting, Writing
  <2>5. CASE Goto(w, "release", "none")
    BY <2>1, <2>5, GotoGoes DEF Acts, Leaves, Unread
  <2>6. CASE worker' = [worker EXCEPT ![w].pc = "assert", ![w].goal = "settled", ![w].next = d2]
    <3>1. Turns(w, "assert", "settled", worker[w].file, d2, worker[w].result)
      BY <2>3, <2>6 DEF Fits, Turns, Others, Processes
    <3> QED
      BY <2>1, <3>1 DEF Acts, GivesUp, d2
  <2> QED
    BY <2>2, <2>4, <2>5, <2>6
<1>7. CASE RecordRun(w)
  <2>1. worker[w].pc = "record" /\ Locking(w) /\ UNCHANGED <<doc, queue, expected, mutations>>
    BY <1>7 DEF RecordRun, Locking, ghost
  <2>2. CASE stage # expected[Sub(w)]
    <3>1. Goto(w, "release", "none") /\ Standing
      BY <1>7, <2>1, <2>2 DEF RecordRun, Standing, rows
    <3> QED
      BY <2>1, <3>1, GotoGoes DEF Acts, Leaves, Unread
  <2>3. CASE stage = expected[Sub(w)]
    <3>1. /\ Goto(w, "assert", "settled") /\ stage' = Sub(w)
          /\ record' = [record EXCEPT ![Sub(w)] = worker[w].result]
      BY <1>7, <2>3 DEF RecordRun
    <3> QED
      BY <2>1, <2>3, <3>1, GotoGoes DEF Acts, Records
  <2> QED
    BY <2>2, <2>3
<1> QED
  BY <1>1, <1>2, <1>3, <1>4, <1>5, <1>6, <1>7 DEF DispatchedStep

(* The steps of cloudflare-pages. *)
LEMMA SettlingActs ==
  ASSUME Settling, TypeOK, WorkExists, Fits, NEW w \in Workers, UNCHANGED <<executor, aside>>,
         SettlingStep(w)
  PROVE  Acts(w)
<1> USE AllPCs
<1>0. worker[w] \in Processes /\ worker[w].file \in Docs /\ worker[w].next \in Docs
      /\ worker[w].result \in Outcomes /\ Route(worker[w])
  BY Process DEF Fit
<1>1. CASE Claim(w)
  <2>1. PICK s \in Subs :
               /\ Claimable(s)
               /\ queue' = [queue EXCEPT ![s].owner = w, ![s].lapsed = FALSE]
               /\ worker' = [worker EXCEPT
                    ![w].pc = "materialize", ![w].sub = s,
                    ![w].goal = IF doc[s].life \in {"running", "cancelling"} THEN "recover"
                                                                            ELSE "execute"]
    BY <1>1 DEF Claim
  <2> DEFINE goal == IF doc[s].life \in {"running", "cancelling"} THEN "recover" ELSE "execute"
             q == [worker[w] EXCEPT !.pc = "materialize", !.sub = s, !.goal = goal]
  <2>2. goal \in Goals /\ worker' = [worker EXCEPT ![w] = q]
    BY <1>0, <2>1 DEF Fits, Processes
  <2>3. goal = IF Settling /\ doc[s].life \in {"running", "cancelling"} THEN "recover" ELSE "execute"
    OBVIOUS
  <2> HIDE DEF goal
  <2>4. q \in Processes /\ q.pc = "materialize" /\ q.sub = s /\ q.goal = goal
    BY <1>0, <2>2 DEF Processes
  <2> HIDE DEF q
  <2>5. Others(w) /\ worker'[w] = q
    BY <2>2, <2>4 DEF Fits, Others
  <2>6. worker[w].pc = "idle" /\ UNCHANGED <<doc, record, stage, expected, mutations, aside>>
    BY <1>1 DEF Claim, ghost
  <2> QED
    BY <2>1, <2>3, <2>4, <2>5, <2>6 DEF Takes, Acts
<1>2. CASE ReconcileStep(w)
  <2>1. PICK rec \in RecordsOf(Sub(w)) :
               LET d == Reconciled(worker[w].file, rec) IN
                 worker' = [worker EXCEPT ![w].file = d, ![w].next = d, ![w].pc = "assertClaim"]
    BY <1>2 DEF ReconcileStep
  <2> DEFINE d == Reconciled(worker[w].file, rec)
             q == [worker[w] EXCEPT !.file = d, !.next = d, !.pc = "assertClaim"]
  <2>2. Standing /\ worker[w].pc = "reconcile"
    BY <1>2 DEF ReconcileStep, Standing, ghost
  <2>3. rec \in Outcomes
    BY <2>1, <2>2 DEF RecordsOf, WorkExists, Exists, TypeOK
  <2>4. d \in Docs
    BY <1>0, <2>3, ReconciledDocs
  <2>5. worker' = [worker EXCEPT ![w] = q]
    BY <1>0, <2>1 DEF Fits, Processes
  <2> HIDE DEF d
  <2>6. q \in Processes /\ q.sub = worker[w].sub /\ q.pc = "assertClaim" /\ q.goal = worker[w].goal
        /\ q.file = d /\ q.next = d /\ q.result = worker[w].result
    BY <1>0, <2>4 DEF Processes
  <2> HIDE DEF q
  <2>7. Turns(w, "assertClaim", worker[w].goal, d, d, worker[w].result)
    BY <2>5, <2>6, Becomes
  <2> QED
    BY <2>1, <2>2, <2>7 DEF Reconciles, Acts, d
<1>3. CASE AssertClaim(w)
  <2>1. Standing /\ worker[w].pc = "assertClaim"
    BY <1>3 DEF AssertClaim, Standing, ghost
  <2>2. \/ HasClaim(w) /\ Goto(w, "upsert", "recover")
        \/ Goto(w, "finally", "none")
    BY <1>3 DEF AssertClaim
  <2> QED
    BY <2>1, <2>2, GotoGoes DEF Acts, Confirms, Leaves, Unread
<1>4. CASE StopWaiting(w)
  <2>1. Standing /\ worker[w].pc = "acquire" /\ Goto(w, "finally", "none")
    BY <1>4 DEF StopWaiting, Standing, ghost
  <2> QED
    BY <2>1, GotoGoes DEF Acts, Leaves, Unread
<1>5. CASE AcquireLock(w)
  <2> DEFINE d == Run(worker[w].file)
             q == [worker[w] EXCEPT !.pc = "assert", !.goal = "running", !.leaked = FALSE, !.next = d]
  <2>1. worker' = [worker EXCEPT ![w].pc = "assert", ![w].goal = "running", ![w].leaked = FALSE,
                                 ![w].next = d]
    BY <1>5, Zenon DEF AcquireLock, Run
  <2>2. d \in Docs
    BY <1>0, NextDocs
  <2> HIDE DEF d
  <2>3. worker' = [worker EXCEPT ![w] = q]
    BY <1>0, <2>1 DEF Fits, Processes
  <2>4. q \in Processes /\ q.sub = worker[w].sub /\ q.pc = "assert" /\ q.goal = "running"
        /\ q.file = worker[w].file /\ q.next = d /\ q.result = worker[w].result
    BY <1>0, <2>2 DEF Processes
  <2> HIDE DEF q
  <2>5. Turns(w, "assert", "running", worker[w].file, d, worker[w].result)
    BY <2>3, <2>4, Becomes
  <2> QED
    BY <1>5, <2>5 DEF AcquireLock, Standing, ghost, Acts, Locks, d
<1>6. CASE StepGranted(w)
  <2>1. Standing /\ worker[w].pc = "assert" /\ HasClaim(w) /\ Locking(w)
    BY <1>6 DEF StepGranted, HasAuthority, Standing, ghost, Locking
  <2>2. CASE worker[w].goal \in {"begin", "record"}
    <3>1. \/ worker[w].goal = "begin" /\ Goto(w, "begin", "mutating")
          \/ worker[w].goal = "record" /\ Goto(w, "record", "record")
      BY <1>6, <2>2 DEF StepGranted
    <3> QED
      BY <2>1, <3>1, GotoGoes DEF Acts, Enters
  <2>3. CASE worker[w].goal = "smoked"
    <3>1. PICK result \in {"succeeded", "failed"} : Commit(w, result)
      BY <1>6, <2>3 DEF StepGranted
    <3>2. Turns(w, "assert", "record", worker[w].file, Finish(worker[w].next, result), result)
      BY <3>1, CommitTurns
    <3> QED
      BY <2>1, <2>3, <3>2 DEF Acts, Commits, Drafting, Writing
  <2>4. CASE worker[w].goal \notin {"begin", "smoked", "record"}
    <3> DEFINE q == [worker[w] EXCEPT !.pc = "upsert", !.file = worker[w].next]
    <3>1. worker' = [worker EXCEPT ![w].pc = "upsert", ![w].file = worker[w].next]
      BY <1>6, <2>4 DEF StepGranted
    <3>2. worker' = [worker EXCEPT ![w] = q]
      BY <1>0, <3>1 DEF Fits, Processes
    <3>3. q \in Processes /\ q.sub = worker[w].sub /\ q.pc = "upsert" /\ q.goal = worker[w].goal
          /\ q.file = worker[w].next /\ q.next = worker[w].next /\ q.result = worker[w].result
      BY <1>0 DEF Processes
    <3> HIDE DEF q
    <3>4. Turns(w, "upsert", worker[w].goal, worker[w].next, worker[w].next, worker[w].result)
      BY <3>2, <3>3, Becomes
    <3> QED
      BY <2>1, <2>4, <3>4 DEF Acts, Drafts
  <2> QED
    BY <2>2, <2>3, <2>4
<1>7. CASE StepDenied(w)
  <2>1. Standing /\ Locking(w) /\ worker[w].pc # "release" /\ StepFails(w)
    BY <1>7 DEF StepDenied, Standing, ghost, Locking
  <2> QED
    BY <2>1, FailureActs DEF Acts
<1>8. CASE PersistStep(w)
  <2>1. /\ worker[w].pc = "upsert" /\ doc' = [doc EXCEPT ![Sub(w)] = worker[w].next]
        /\ UNCHANGED <<queue, record, stage, expected, mutations, aside>>
    BY <1>8 DEF PersistStep, ghost
  <2>2. \/ worker[w].goal = "running" /\ Goto(w, "assert", "check")
        \/ worker[w].goal = "check" /\ Goto(w, "revalidate", "check")
        \/ worker[w].goal = "mutating" /\ Goto(w, "assert", "begin")
        \/ worker[w].goal = "smoke" /\ Goto(w, "assert", "smoked")
    BY <1>8 DEF PersistStep, Steps
  <2> QED
    BY <2>1, <2>2, GotoGoes DEF Acts, Upserts
<1>9. CASE worker[w].goal \notin Steps /\ UpsertDoc(w)
  <2>1. /\ worker[w].pc = "upsert" /\ doc' = [doc EXCEPT ![Sub(w)] = worker[w].next]
        /\ Goto(w, "markDone", worker[w].goal) \/ AfterWrite(w)
        /\ UNCHANGED <<queue, record, stage, expected, mutations, aside>>
    BY <1>9 DEF UpsertDoc, ghost
  <2>2. Goes(w, "markDone", worker[w].goal) \/ Resumes(w)
    BY <1>0, <1>9, <2>1, Process, GotoGoes, ReturnIdles DEF AfterWrite, Resumes, Locking, Steps
  <2> QED
    BY <1>9, <2>1, <2>2 DEF Acts, Upserts
<1>10. CASE RevalidateStep(w)
  <2>1. Standing /\ worker[w].pc = "revalidate" /\ Locking(w)
    BY <1>10 DEF RevalidateStep, Standing, ghost, Locking
  <2> DEFINE d == Mark(worker[w].next)
             q == [worker[w] EXCEPT !.pc = "assert", !.goal = "mutating", !.next = d]
  <2>2. \/ worker' = [worker EXCEPT ![w].pc = "assert", ![w].goal = "mutating",
                                    ![w].next = [@ EXCEPT !.mutation = TRUE]]
        \/ StepFails(w)
    BY <1>10, Zenon DEF RevalidateStep
  <2>3. CASE StepFails(w)
    BY <2>1, <2>3, FailureActs DEF Acts
  <2>4. CASE worker' = [worker EXCEPT ![w].pc = "assert", ![w].goal = "mutating",
                                      ![w].next = [@ EXCEPT !.mutation = TRUE]]
    <3>1. worker' = [worker EXCEPT ![w] = q] /\ d \in Docs
      BY <1>0, <2>4, NextDocs DEF Fits, Processes, Mark
    <3> HIDE DEF d
    <3>2. q \in Processes /\ q.sub = worker[w].sub /\ q.pc = "assert" /\ q.goal = "mutating"
          /\ q.file = worker[w].file /\ q.next = d /\ q.result = worker[w].result
      BY <1>0, <3>1 DEF Processes
    <3> HIDE DEF q
    <3>3. Turns(w, "assert", "mutating", worker[w].file, d, worker[w].result)
      BY <3>1, <3>2, Becomes
    <3> QED
      BY <2>1, <3>3 DEF Acts, Revalidates, d
  <2> QED
    BY <2>2, <2>3, <2>4
<1>11. CASE PublishReturns(w)
  <2>1. Standing /\ worker[w].pc = "mutate" /\ Locking(w)
    BY <1>11 DEF PublishReturns, Standing, ghost, Locking
  <2>0. worker[w].goal = "mutating"
    BY <1>0, <2>1 DEF Route
  <2>2. CASE Goto(w, "assert", "smoke")
    BY <2>1, <2>2, GotoGoes DEF Acts, Publishes
  <2>3. CASE \E result \in {"succeeded", "failed"} : Commit(w, result)
    <3>1. PICK result \in {"succeeded", "failed"} : Commit(w, result)
      BY <2>3
    <3>2. Turns(w, "assert", "record", worker[w].file, Finish(worker[w].next, result), result)
      BY <3>1, CommitTurns
    <3> QED
      BY <2>0, <2>1, <3>2 DEF Acts, Commits, Drafting, Writing
  <2> QED
    BY <1>11, <2>2, <2>3 DEF PublishReturns
<1> QED
  BY <1>1, <1>2, <1>3, <1>4, <1>5, <1>6, <1>7, <1>8, <1>9, <1>10, <1>11 DEF SettlingStep

LEMMA CommitRecordActs ==
  ASSUME Settling, Fits, NEW w \in Workers, UNCHANGED executor, CommitRecord(w)
  PROVE  Acts(w)
<1>1. worker[w].pc = "record" /\ Locking(w) /\ UNCHANGED <<doc, queue, expected, mutations>>
  BY DEF CommitRecord, Locking, ghost
<1>2. CASE StepFails(w) /\ UNCHANGED <<record, stage, aside>>
  <2>1. Standing
    BY <1>1, <1>2 DEF Standing, rows
  <2> QED
    BY <1>1, <1>2, <2>1, FailureActs DEF Acts
<1>3. CASE Goto(w, "assert", "settled")
  <2>1. Goes(w, "assert", "settled")
    BY <1>3, GotoGoes, AllPCs
  <2>2. \/ /\ worker[w].result = "succeeded"
           /\ stage = expected[Sub(w)] /\ stage' = Sub(w)
           /\ record' = [record EXCEPT ![Sub(w)] = worker[w].result]
           /\ UNCHANGED aside
        \/ /\ worker[w].result = "failed" /\ record[Sub(w)] # "succeeded"
           /\ record' = [record EXCEPT ![Sub(w)] = "failed"]
           /\ UNCHANGED <<stage, aside>>
        \/ /\ worker[w].result = "failed"
           /\ aside' = aside \cup {Sub(w)}
           /\ UNCHANGED <<record, stage>>
        \/ StepFails(w) /\ UNCHANGED <<record, stage, aside>>
    BY Zenon DEF CommitRecord
  <2> QED
    BY <1>1, <1>2, <2>1, <2>2 DEF Acts, Records
<1> QED
  BY <1>2, <1>3 DEF CommitRecord

(* Faults, but for stalls, are steps like these. *)
LEMMA FaultActs ==
  ASSUME Fits, NEW w \in Workers, UNCHANGED <<executor, aside>>, ProviderFault(w), ~Stall(w)
  PROVE  Acts(w)
<1> USE AllPCs
<1>1. CASE Crash(w)
  BY <1>1, ReturnIdles DEF Crash, Standing, ghost, Acts, Quits
<1>2. CASE Abort(w)
  <2> DEFINE q == [worker[w] EXCEPT !.aborted = TRUE]
  <2>1. worker' = [worker EXCEPT ![w] = q] /\ worker[w] \in Processes
    BY <1>2, Process DEF Abort, Fits, Processes
  <2>2. q \in Processes /\ q.sub = worker[w].sub /\ q.pc = worker[w].pc /\ q.goal = worker[w].goal
        /\ q.file = worker[w].file /\ q.next = worker[w].next /\ q.result = worker[w].result
    BY <2>1 DEF Processes
  <2> HIDE DEF q
  <2>3. Turns(w, worker[w].pc, worker[w].goal, worker[w].file, worker[w].next, worker[w].result)
    BY <2>1, <2>2, Becomes
  <2> QED
    BY <1>2, <2>3 DEF Abort, Standing, ghost, Acts, Rests, Goes
<1>3. CASE Settling /\ StepError(w)
  BY <1>3, FailureActs DEF StepError, Standing, ghost, Acts
<1>4. CASE Error(w) /\ (Settling => ~Locking(w) \/ worker[w].pc = "release")
  <2>1. Standing
    BY <1>4 DEF Error, Standing, ghost
  <2>2. CASE Return(w)
    BY <2>1, <2>2, ReturnIdles DEF Acts, Quits
  <2>3. CASE worker[w].pc \notin Unread /\ Goto(w, "finally", "none")
    BY <2>1, <2>3, GotoGoes DEF Acts, Leaves
  <2>4. CASE ~Settling /\ worker[w].pc = "assert" /\ LoseAuthority(w)
    <3>1. Goto(w, "release", "none")
      BY <2>4, Process DEF LoseAuthority, Unwind, Fit, Route
    <3> QED
      BY <2>1, <2>4, <3>1, GotoGoes DEF Acts, Leaves, Unread, Locking
  <2>5. CASE ~Settling /\ worker[w].pc \notin Unread /\ Locking(w) /\ Unwind(w)
    <3>1. Goto(w, "release", "none")
      BY <2>5, Process DEF Unwind, Fit, Route
    <3> QED
      BY <2>1, <2>5, <3>1, GotoGoes DEF Acts, Leaves
  <2>6. \/ Return(w)
        \/ worker[w].pc \notin Unread /\ Goto(w, "finally", "none")
        \/ worker[w].pc = "assert" /\ LoseAuthority(w)
        \/ worker[w].pc \notin Unread /\ Locking(w) /\ worker[w].pc # "release" /\ Unwind(w)
    BY <1>4 DEF Error, Unread, Locking
  <2> QED
    BY <1>4, <2>2, <2>3, <2>4, <2>5, <2>6 DEF Locking
<1> QED
  BY <1>1, <1>2, <1>3, <1>4 DEF ProviderFault

(* Every step of a worker. *)
LEMMA WorkerActs ==
  ASSUME TypeOK, WorkExists, Fits, NEW w \in Workers, UNCHANGED executor,
         ProviderStep(w) \/ (ProviderFault(w) /\ UNCHANGED aside), ~Stall(w)
  PROVE  Acts(w)
BY CommonActs, DispatchedActs, SettlingActs, CommitRecordActs, FaultActs DEF ProviderStep

-----------------------------------------------------------------------------
(* Types.                                                                  *)
LEMMA StaysFit ==
  ASSUME Fits, UNCHANGED executor, NEW w \in Workers, Others(w), Fit(worker'[w])
  PROVE  Fits'
BY DEF Fits, Others, Fit, Route, Settling

LEMMA ActsFit ==
  ASSUME TypeOK, WorkExists, Fits, NEW w \in Workers, Acts(w)
  PROVE  Fit(worker'[w]) /\ Others(w)
<1> DEFINE p == worker[w]
           q == worker'[w]
<1>0. /\ p.file \in Docs /\ p.next \in Docs /\ Fit(p)
      /\ p.pc # "idle" => p.sub \in Subs /\ doc[p.sub] \in Docs /\ doc[p.sub].life # NoDoc
  BY Process DEF WorkExists, Exists, TypeOK, Sub
<1> HIDE DEF p, q
<1> USE DEF Unread, Drafting, Writing, NoDoc, Steps
<1>1. CASE Rests(w)
  BY <1>0, <1>1 DEF Rests, Goes, Turns, p, Fit, Route
<1>2. CASE Quits(w)
  BY <1>2 DEF Quits, Idles, Fit, Route, Steps
<1>3. CASE Leaves(w)
  BY <1>0, <1>3 DEF Leaves, Goes, Turns, p, Fit, Route, Locking
<1>4. CASE Takes(w)
  BY <1>4 DEF Takes, Fit, Route
<1>5. CASE Reads(w)
  BY <1>0, <1>5 DEF Reads, Turns, p, Fit, Route, Sub
<1>6. CASE Reconciles(w)
  <2>1. PICK rec \in RecordsOf(Sub(w)) :
               LET d == Reconciled(worker[w].file, rec) IN
                 Turns(w, "assertClaim", worker[w].goal, d, d, worker[w].result)
    BY <1>6 DEF Reconciles
  <2>2. Sub(w) \in Subs /\ rec \in Outcomes
    BY <1>0, <1>6, <2>1, AllPCs DEF Reconciles, RecordsOf, TypeOK, Sub, p
  <2>3. Reconciled(worker[w].file, rec).life = "finished"
    BY <1>0, <2>2, ReconciledDocs DEF p
  <2> HIDE DEF Reconciled
  <2> QED
    BY <1>0, <1>6, <2>1, <2>2, <2>3 DEF Reconciles, Turns, p, Fit, Route, Sub
<1>7. CASE Confirms(w)
  BY <1>0, <1>7 DEF Confirms, Goes, Turns, p, Fit, Route
<1>8. CASE Locks(w)
  <2>1. Run(worker[w].file).life = "running"
    BY <1>0, NextDocs DEF p
  <2> QED
    BY <1>0, <1>8, <2>1 DEF Locks, Turns, p, Fit, Route
<1>9. CASE Drafts(w)
  BY <1>0, <1>9 DEF Drafts, Turns, p, Fit, Route
<1>10. CASE Enters(w)
  BY <1>0, <1>10 DEF Enters, Goes, Turns, p, Fit, Route
<1>11. CASE Commits(w)
  <2>1. PICK result \in {"succeeded", "failed"} :
               Turns(w, "assert", "record", worker[w].file, Finish(worker[w].next, result), result)
    BY <1>11 DEF Commits
  <2>2. Finish(worker[w].next, result).life = "finished"
    BY <1>0, NextDocs DEF p
  <2> QED
    BY <1>0, <1>11, <2>1, <2>2 DEF Commits, Turns, p, Fit, Route, Locking
<1>12. CASE Revalidates(w)
  <2>1. Mark(worker[w].next).life = worker[w].next.life
    BY <1>0, NextDocs DEF p
  <2> QED
    BY <1>0, <1>12, <2>1 DEF Revalidates, Turns, p, Fit, Route
<1>13. CASE Publishes(w)
  BY <1>0, <1>13 DEF Publishes, Goes, Turns, p, Fit, Route
<1>14. CASE GivesUp(w)
  <2>1. Refuse(worker[w].next).life = "finished"
    BY <1>0, NextDocs DEF p
  <2> QED
    BY <1>0, <1>14, <2>1 DEF GivesUp, Turns, p, Fit, Route
<1>15. CASE PutsBack(w)
  BY <1>0, <1>15 DEF PutsBack, Turns, p, Fit, Route
<1>16. ASSUME Resumes(w), worker[w].pc \in {"upsert", "markDone"}
       PROVE  Fit(worker'[w]) /\ Others(w)
  BY <1>0, <1>16 DEF Resumes, Goes, Idles, Turns, p, Fit, Route
<1>17. CASE Upserts(w)
  BY <1>0, <1>16, <1>17 DEF Upserts, Goes, Turns, p, Fit, Route
<1>18. CASE Closes(w)
  BY <1>16, <1>18 DEF Closes
<1>19. CASE Begins(w)
  BY <1>0, <1>19 DEF Begins, Goes, Turns, p, Fit, Route
<1>20. CASE Records(w)
  BY <1>0, <1>20 DEF Records, Goes, Turns, p, Fit, Route
<1> QED
  BY <1>1, <1>2, <1>3, <1>4, <1>5, <1>6, <1>7, <1>8, <1>9, <1>10, <1>11, <1>12, <1>13, <1>14,
     <1>15, <1>17, <1>18, <1>19, <1>20 DEF Acts

(* A process changes its submission only with a claim. *)
LEMMA SameSub ==
  ASSUME NEW w \in Workers, Acts(w), ~Takes(w), worker'[w].pc # "idle"
  PROVE  worker[w].pc # "idle" /\ worker'[w].sub = worker[w].sub
<1>1. ASSUME Resumes(w), worker[w].pc \in {"upsert", "markDone"}
      PROVE  worker'[w].sub = worker[w].sub
  BY <1>1 DEF Resumes, Goes, Turns, Idles
<1>2. CASE Rests(w) \/ Quits(w) \/ Leaves(w) \/ Reads(w) \/ Confirms(w) \/ Drafts(w) \/ Enters(w)
  BY <1>2 DEF Rests, Quits, Leaves, Reads, Confirms, Drafts, Enters, Goes, Turns, Idles, Unread
<1>3. CASE Locks(w) \/ Revalidates(w) \/ Publishes(w) \/ GivesUp(w) \/ PutsBack(w) \/ Begins(w)
           \/ Records(w)
  BY <1>3 DEF Locks, Revalidates, Publishes, GivesUp, PutsBack, Begins, Records, Goes, Turns
<1>4. CASE Reconciles(w) \/ Commits(w)
  BY <1>4 DEF Reconciles, Commits, Turns, Drafting, Writing
<1>5. CASE Upserts(w) \/ Closes(w)
  BY <1>1, <1>5 DEF Upserts, Closes, Goes, Turns
<1> QED
  BY <1>2, <1>3, <1>4, <1>5 DEF Acts

(* Steps that leave the rows alone. *)
LEMMA StillActs ==
  ASSUME NEW w \in Workers, Acts(w)
  PROVE  Standing \/ Takes(w) \/ Upserts(w) \/ Closes(w) \/ Begins(w) \/ Records(w)
BY DEF Acts, Rests, Quits, Leaves, Reads, Reconciles, Confirms, Locks, Drafts, Enters, Commits,
   Revalidates, Publishes, GivesUp, PutsBack

LEMMA ActsRows ==
  ASSUME TypeOK, WorkExists, Fits, NEW w \in Workers, Acts(w)
  PROVE  /\ doc' \in [Subs -> Docs]
         /\ \A s \in Subs : (doc'[s].life = NoDoc) <=> (doc[s].life = NoDoc)
         /\ queue' \in [Subs -> [owner : Workers \cup {NoWorker}, lapsed : BOOLEAN, done : BOOLEAN]]
         /\ record' \in [Subs -> Outcomes] /\ stage' \in Subs \cup {0} /\ expected' = expected
         /\ mutations' \in [Subs -> Nat]
<1>0. /\ doc \in [Subs -> Docs]
      /\ queue \in [Subs -> [owner : Workers \cup {NoWorker}, lapsed : BOOLEAN, done : BOOLEAN]]
      /\ record \in [Subs -> Outcomes] /\ stage \in Subs \cup {0}
      /\ mutations \in [Subs -> Nat]
  BY DEF TypeOK
<1>1. worker[w].pc # "idle" => Sub(w) \in Subs /\ doc[Sub(w)].life # NoDoc
  BY DEF WorkExists, Exists
<1>2. CASE Standing
  BY <1>0, <1>2 DEF Standing, rows
<1>3. CASE Takes(w)
  <2>1. PICK s \in Subs : queue' = [queue EXCEPT ![s].owner = w, ![s].lapsed = FALSE]
    BY <1>3 DEF Takes
  <2>2. queue' \in [Subs -> [owner : Workers \cup {NoWorker}, lapsed : BOOLEAN, done : BOOLEAN]]
    BY <1>0, <2>1
  <2> QED
    BY <1>0, <1>3, <2>2 DEF Takes
<1>4. CASE Upserts(w)
  <2>1. worker[w].next \in Docs /\ worker[w].next.life # NoDoc
    BY <1>4, Process DEF Upserts, Fit, Drafting, Writing
  <2> QED
    BY <1>0, <1>1, <1>4, <2>1 DEF Upserts
<1>5. CASE Closes(w)
  <2>1. Done \in [owner : Workers \cup {NoWorker}, lapsed : BOOLEAN, done : BOOLEAN]
    BY DEF Done
  <2> QED
    BY <1>0, <1>1, <1>5, <2>1 DEF Closes
<1>6. CASE Begins(w)
  <2>1. mutations[Sub(w)] + 1 \in Nat
    BY <1>0, <1>1, <1>6 DEF Begins
  <2>2. mutations' \in [Subs -> Nat]
    BY <1>0, <1>6, <2>1 DEF Begins
  <2> QED
    BY <1>0, <1>6, <2>2 DEF Begins, rows
<1>7. CASE Records(w)
  <2>1. worker[w].result \in Outcomes /\ Sub(w) \in Subs
    BY <1>1, <1>7, Process DEF Records
  <2>2. record' \in [Subs -> Outcomes] /\ stage' \in Subs \cup {0}
    BY <1>0, <1>7, <2>1, AllPCs DEF Records
  <2> QED
    BY <1>0, <1>7, <2>2 DEF Records
<1> QED
  BY <1>2, <1>3, <1>4, <1>5, <1>6, <1>7, StillActs

LEMMA ActsExist ==
  ASSUME TypeOK, WorkExists, Fits, NEW w \in Workers, Acts(w), UNCHANGED request
  PROVE  WorkExists'
<1>1. ASSUME NEW v \in Workers, worker'[v].pc # "idle"
      PROVE  worker'[v].sub \in Subs /\ doc'[worker'[v].sub].life # NoDoc
  <2>1. CASE v # w
    <3>1. worker'[v] = worker[v]
      BY <2>1, ActsFit DEF Others
    <3> QED
      BY <1>1, <3>1, ActsRows DEF WorkExists, Exists, Sub
  <2>2. CASE v = w /\ ~Takes(w)
    BY <1>1, <2>2, SameSub, ActsRows DEF WorkExists, Exists, Sub
  <2>3. CASE v = w /\ Takes(w)
    <3>1. worker'[w].sub \in Subs /\ doc[worker'[w].sub].life \in Active
      BY <2>3 DEF Takes, Claimable
    <3> QED
      BY <2>3, <3>1, ActsRows DEF Exists, Active, NoDoc
  <2> QED
    BY <2>1, <2>2, <2>3
<1> QED
  BY <1>1, ActsRows DEF WorkExists, Exists, Sub

(* What no step of a worker touches; and how it treats the lock. *)
LEMMA StepsSpare ==
  ASSUME TypeOK, NEW w \in Workers, ProviderStep(w) \/ ProviderFault(w)
  PROVE  /\ UNCHANGED <<request, accepted>>
         /\ faults' \in 0 .. MaxFaults
         /\ \/ UNCHANGED lock
            \/ (AcquireLock(w) \/ TakeLock(w)) /\ Lock!Acquire(w) /\ ~lockLapsed'
            \/ ReleaseLock(w)
            \/ LockRevives(w)
            \/ Stall(w)
<1>1. CASE CommonStep(w)
  BY <1>1 DEF CommonStep, Materialize, MarkDone, BeginExecution, BeginMutation, ReleaseInFinally,
     ReleaseLock, ForgetLock, Finally, LockRevives, Restart, TypeOK, ghost
<1>2. CASE DispatchedStep(w)
  <2>1. CASE TakeLock(w)
    BY <2>1 DEF TakeLock, TypeOK, ghost
  <2>2. CASE ~TakeLock(w)
    BY <1>2, <2>2 DEF DispatchedStep, Dispatch, AssertPasses, AssertFails, UpsertDoc,
       ProviderReturns, RecordRun, TypeOK, ghost
  <2> QED
    BY <2>1, <2>2
<1>3. CASE SettlingStep(w)
  <2>1. CASE AcquireLock(w)
    BY <2>1 DEF AcquireLock, TypeOK, ghost
  <2>2. CASE ~AcquireLock(w)
    BY <1>3, <2>2 DEF SettlingStep, Claim, ReconcileStep, AssertClaim, StopWaiting, StepGranted,
       StepDenied, PersistStep, UpsertDoc, RevalidateStep, PublishReturns, TypeOK, ghost
  <2> QED
    BY <2>1, <2>2
<1>4. CASE CommitRecord(w)
  BY <1>4 DEF CommitRecord, TypeOK, ghost
<1>5. CASE ProviderFault(w)
  <2>1. ASSUME NEW kind, Fault(kind) PROVE faults' \in 0 .. MaxFaults
    BY <2>1, ControlPlaneAssumption DEF Fault, TypeOK
  <2> QED
    BY <1>5, <2>1 DEF ProviderFault, Crash, Abort, Stall, Error, StepError, ghost
<1> QED
  BY <1>1, <1>2, <1>3, <1>4, <1>5 DEF ProviderStep

(* The steps of others: of submissions, requests and time.                 *)
Elsewise ==
  \/ \E s \in Subs : QueueRun(s) \/ ClaimLapses(s)
  \/ LockLapses
  \/ \E q \in Requests : CancelRead(q) \/ CancelWrite(q) \/ CancelMarkDone(q)

(* Every step, by its actor. *)
LEMMA ProviderCases ==
  ASSUME [ProviderNext]_providerVars
  PROVE  /\ UNCHANGED executor
         /\ \/ \E w \in Workers : ProviderStep(w) \/ (ProviderFault(w) /\ UNCHANGED aside)
            \/ Elsewise /\ UNCHANGED aside
            \/ UNCHANGED providerVars
BY DEF ProviderNext, providerVars, Elsewise

LEMMA QueueRunTypes ==
  ASSUME TypeOK, WorkExists, NEW s \in Subs, QueueRun(s)
  PROVE  /\ TypeOK' /\ WorkExists' /\ UNCHANGED <<worker, lock>>
         /\ doc[s].life = NoDoc /\ \A o \in Subs : o < s => doc[o].life # NoDoc
         /\ \A o \in Subs : o # s => doc'[o] = doc[o]
         /\ doc'[s].life # NoDoc /\ doc'[s].outcome = doc[s].outcome
         /\ expected' = [expected EXCEPT ![s] = stage]
         /\ UNCHANGED <<queue, record, stage, request, ghost>>
<1>1. PICK life \in {"queued", "waiting_for_lock"} : doc' = [doc EXCEPT ![s].life = life]
  BY DEF QueueRun, QueueFrozen, Submit
<1>2. /\ doc[s].life = NoDoc /\ \A o \in Subs : o < s => doc[o].life # NoDoc
      /\ expected' = [expected EXCEPT ![s] = stage]
      /\ UNCHANGED <<queue, record, stage, lock, worker, request, ghost, faults>>
  BY DEF QueueRun, QueueFrozen, Submit
<1> DEFINE d == [doc[s] EXCEPT !.life = life]
<1>3. doc \in [Subs -> Docs] /\ expected \in [Subs -> Subs \cup {0}] /\ stage \in Subs \cup {0}
  BY DEF TypeOK
<1>4. d \in Docs /\ d.life = life /\ d.outcome = doc[s].outcome
  BY <1>3 DEF Docs, Active
<1>5. doc' = [doc EXCEPT ![s] = d]
  BY <1>1, <1>3
<1> HIDE DEF d
<1>6. doc' \in [Subs -> Docs] /\ doc'[s] = d /\ \A o \in Subs : o # s => doc'[o] = doc[o]
  BY <1>3, <1>4, <1>5
<1>7. \A o \in Subs : doc[o].life # NoDoc => doc'[o].life # NoDoc
  BY <1>4, <1>6 DEF NoDoc
<1>8. TypeOK'
  BY <1>2, <1>3, <1>6 DEF TypeOK, lock, ghost
<1>9. WorkExists'
  BY <1>2, <1>7 DEF WorkExists, Exists, Sub
<1> QED
  BY <1>2, <1>4, <1>6, <1>8, <1>9 DEF NoDoc

(* A stall only lets leases run out. *)
LEMMA StallTypes ==
  ASSUME TypeOK, NEW w \in Workers, WorkExists, Stall(w)
  PROVE  /\ TypeOK' /\ WorkExists'
         /\ UNCHANGED <<worker, doc, record, stage, expected, mutations, accepted, request>>
<1>1. queue' = queue \/ queue' = [queue EXCEPT ![Sub(w)].lapsed = TRUE]
  BY DEF Stall
<1>2. queue' \in [Subs -> [owner : Workers \cup {NoWorker}, lapsed : BOOLEAN, done : BOOLEAN]]
  <2>1. queue \in [Subs -> [owner : Workers \cup {NoWorker}, lapsed : BOOLEAN, done : BOOLEAN]]
    BY DEF TypeOK
  <2> QED
    BY <1>1, <2>1
<1>3. lockOwner' \in Workers \cup {NoWorker} /\ lockLapsed' \in BOOLEAN
  BY DEF TypeOK, Stall, lock, Lock!Lapse
<1>4. UNCHANGED <<worker, doc, record, stage, expected, mutations, accepted, request>>
  BY DEF Stall, ghost
<1>5. faults' \in 0 .. MaxFaults
  BY ControlPlaneAssumption DEF Stall, Fault, TypeOK
<1> QED
  BY <1>2, <1>3, <1>4, <1>5 DEF TypeOK, WorkExists, Exists, Sub

Placed == TypeOK /\ WorkExists /\ Fits

LEMMA ProviderTypesNext ==
  ASSUME Placed, [ProviderNext]_providerVars
  PROVE  Placed'
<1> SUFFICES TypeOK' /\ WorkExists' /\ Fits'
  BY DEF Placed
<1>0. TypeOK /\ WorkExists /\ Fits /\ UNCHANGED executor
  BY ProviderCases DEF Placed
<1>1. ASSUME UNCHANGED worker PROVE Fits'
  BY <1>0, <1>1 DEF Fits, Fit, Route, Settling
<1>2. ASSUME NEW w \in Workers, ProviderStep(w) \/ (ProviderFault(w) /\ UNCHANGED aside), ~Stall(w)
      PROVE  TypeOK' /\ WorkExists' /\ Fits'
  <2>1. Acts(w)
    BY <1>0, <1>2, WorkerActs
  <2>2. /\ UNCHANGED <<request, accepted>> /\ faults' \in 0 .. MaxFaults
        /\ \/ UNCHANGED lock
           \/ (AcquireLock(w) \/ TakeLock(w)) /\ Lock!Acquire(w) /\ ~lockLapsed'
           \/ ReleaseLock(w)
           \/ LockRevives(w)
    BY <1>0, <1>2, StepsSpare
  <2>3. lockOwner' \in Workers \cup {NoWorker} /\ lockLapsed' \in BOOLEAN
    BY <1>0, <2>2 DEF TypeOK, lock, ReleaseLock, LockRevives,
       Lock!Acquire, Lock!Release, Lock!Renew
  <2>4. Others(w) /\ Fits'
    BY <1>0, <2>1, ActsFit, StaysFit
  <2>5. WorkExists'
    BY <1>0, <2>1, <2>2, ActsExist
  <2>6. worker' \in [Workers -> Processes]
    BY <2>4 DEF Others
  <2>7. TypeOK'
    BY <1>0, <2>1, <2>2, <2>3, <2>6, ActsRows DEF TypeOK
  <2> QED
    BY <2>4, <2>5, <2>7
<1>3. ASSUME NEW w \in Workers, Stall(w)
      PROVE  TypeOK' /\ WorkExists' /\ Fits'
  BY <1>0, <1>1, <1>3, StallTypes
<1>4. ASSUME NEW s \in Subs, QueueRun(s)
      PROVE  TypeOK' /\ WorkExists' /\ Fits'
  BY <1>0, <1>1, <1>4, QueueRunTypes
<1>5. CASE \/ \E s \in Subs : ClaimLapses(s)
           \/ LockLapses
           \/ \E q \in Requests : CancelRead(q) \/ CancelWrite(q) \/ CancelMarkDone(q)
  BY <1>0, <1>1, <1>5, OtherSteps
<1>6. CASE UNCHANGED providerVars
  BY <1>0, <1>1, <1>6 DEF providerVars, vars, rows, lock, ghost, TypeOK, WorkExists, Exists, Sub
<1> QED
  BY <1>2, <1>3, <1>4, <1>5, <1>6, ProviderCases DEF Elsewise

LEMMA ProviderTypesInit == ProviderInit => Placed /\ LockHeld /\ Order
<1> SUFFICES ASSUME ProviderInit PROVE Placed /\ LockHeld /\ Order
  OBVIOUS
<1>1. TypeOK /\ WorkExists /\ LockHeld /\ Order /\ worker = [w \in Workers |-> Idle]
  BY InvInit DEF ProviderInit, Inv, Init
<1>2. Idle.pc = "idle" /\ Idle.goal = "none"
  BY DEF Idle
<1>3. Fits
  BY <1>1, <1>2 DEF TypeOK, Fits, Fit, Route, Unread, Drafting, Writing, Steps
<1> QED
  BY <1>1, <1>3 DEF Placed

(* Whichever executor runs, every reachable state has the types of TypeOK. *)
THEOREM ProviderTypes == ProviderSpec => []TypeOK
<1>1. ProviderSpec => []Placed
  BY ProviderTypesInit, ProviderTypesNext, PTL DEF ProviderSpec
<1> QED
  BY <1>1, PTL DEF Placed

-----------------------------------------------------------------------------
(* The lock: only who acquires it enters the locked region.                *)
LEMMA RegionKept ==
  ASSUME Fits, NEW w \in Workers, Acts(w), worker[w].pc # "acquire", Locking(w)'
  PROVE  Locking(w)
<1> DEFINE p == worker[w]
           q == worker'[w]
<1>0. HoldingAt(q.pc, q.goal) /\ (Locking(w) <=> HoldingAt(p.pc, p.goal))
  BY DEF Locking, HoldingAt
<1>1. ASSUME Resumes(w), p.pc \in {"upsert", "markDone"} PROVE Locking(w)
  BY <1>0, <1>1 DEF Resumes, Goes, Idles, Turns, HoldingAt
<1>2. CASE Rests(w)
  BY <1>0, <1>2 DEF Rests, Goes, Turns
<1>3. CASE Quits(w) \/ Leaves(w) \/ Takes(w)
  BY <1>0, <1>3 DEF Quits, Leaves, Takes, Idles, Goes, Turns, HoldingAt
<1>4. CASE Reads(w) \/ Reconciles(w) \/ Confirms(w) \/ PutsBack(w)
  BY <1>0, <1>4 DEF Reads, Reconciles, Confirms, PutsBack, Goes, Turns, HoldingAt
<1>5. CASE Drafts(w) \/ Enters(w) \/ Commits(w) \/ Revalidates(w) \/ Publishes(w) \/ GivesUp(w)
           \/ Begins(w) \/ Records(w)
  BY <1>5 DEF Drafts, Enters, Commits, Revalidates, Publishes, GivesUp, Begins, Records, Locking
<1>6. CASE Upserts(w) \/ Closes(w)
  BY <1>0, <1>1, <1>6 DEF Upserts, Closes, Goes, Turns, HoldingAt
<1> QED
  BY <1>2, <1>3, <1>4, <1>5, <1>6 DEF Acts, Locks

LEMMA ProviderLockNext ==
  ASSUME "stall" \notin Faults, Placed, LockHeld, [ProviderNext]_providerVars
  PROVE  LockHeld'
<1> SUFFICES ASSUME NEW v \in Workers, Locking(v)'
             PROVE  lockOwner' = v /\ ~lockLapsed'
  BY DEF LockHeld
<1>0. TypeOK /\ WorkExists /\ Fits /\ UNCHANGED executor /\ NoWorker \notin Workers
  BY ControlPlaneAssumption, ProviderCases DEF Placed
<1>1. CASE UNCHANGED worker /\ UNCHANGED lock
  BY <1>1 DEF LockHeld, Locking, lock
<1>2. CASE LockLapses
  BY <1>2 DEF LockLapses, LockHeld, Renewing, Locking
<1>3. ASSUME NEW w \in Workers, ProviderStep(w) \/ (ProviderFault(w) /\ UNCHANGED aside)
      PROVE  lockOwner' = v /\ ~lockLapsed'
  <2>1. ~Stall(w)
    BY DEF Stall, Fault
  <2>2. Acts(w)
    BY <1>0, <1>3, <2>1, WorkerActs
  <2>3. v # w => worker'[v] = worker[v]
    BY <1>0, <2>2, ActsFit DEF Others
  <2>4. v # w => Locking(v)
    BY <2>3 DEF Locking
  <2>5. \/ UNCHANGED lock
        \/ (AcquireLock(w) \/ TakeLock(w)) /\ Lock!Acquire(w) /\ ~lockLapsed'
        \/ ReleaseLock(w)
        \/ LockRevives(w)
    BY <1>0, <1>3, <2>1, StepsSpare
  <2>6. CASE (AcquireLock(w) \/ TakeLock(w)) /\ Lock!Acquire(w) /\ ~lockLapsed'
    BY <1>0, <2>4, <2>6 DEF Lock!Acquire, LockHeld
  <2>7. CASE ReleaseLock(w)
    <3>1. worker'[w].pc = "finally"
      BY <1>0, <2>7 DEF ReleaseLock, Goto, Fits, Processes
    <3>2. v # w
      BY <3>1 DEF Locking
    <3> QED
      BY <2>4, <2>7, <3>2 DEF ReleaseLock, LockHeld, lock
  <2>8. CASE LockRevives(w)
    BY <2>4, <2>8 DEF LockRevives, LockHeld, Locking
  <2>9. CASE UNCHANGED lock
    <3>1. ASSUME worker[w].pc = "acquire", v = w PROVE Locking(v)
      <4>1. ~Locks(w)
        BY <1>0, <2>9 DEF Locks, Lock!Acquire, lock
      <4> QED
        BY <1>3, <2>2, <3>1, <4>1 DEF Acts, Rests, Quits, Leaves, Takes, Reads, Reconciles, Confirms,
           Drafts, Enters, Commits, Revalidates, Publishes, GivesUp, PutsBack, Upserts, Closes,
           Begins, Records, Goes, Idles, Turns, Locking
    <3>2. Locking(v)
      BY <1>0, <2>2, <2>4, <3>1, RegionKept
    <3> QED
      BY <2>9, <3>2 DEF LockHeld, lock
  <2> QED
    BY <2>5, <2>6, <2>7, <2>8, <2>9
<1>4. ASSUME NEW s \in Subs, QueueRun(s) PROVE UNCHANGED worker /\ UNCHANGED lock
  BY <1>4 DEF QueueRun, Submit, QueueFrozen, lock
<1> QED
  BY <1>1, <1>2, <1>3, <1>4, ProviderCases DEF Elsewise, ClaimLapses, CancelRead, CancelWrite,
     CancelMarkDone, providerVars, vars, lock

(* As long as no worker stalls for longer than its leases, no two          *)
(* executions reach the provider at once, whichever executor runs.         *)
THEOREM ProviderExclusion == "stall" \notin Faults => (ProviderSpec => []ExclusiveMutation)
<1> SUFFICES ASSUME "stall" \notin Faults PROVE ProviderSpec => []ExclusiveMutation
  OBVIOUS
<1>1. Placed /\ LockHeld /\ [ProviderNext]_providerVars => Placed' /\ LockHeld'
  BY ProviderTypesNext, ProviderLockNext
<1>2. LockHeld => ExclusiveMutation
  BY DEF LockHeld, Locking, ExclusiveMutation
<1>3. ProviderSpec => [](Placed /\ LockHeld)
  BY <1>1, ProviderTypesInit, PTL DEF ProviderSpec
<1> QED
  BY <1>2, <1>3, PTL

-----------------------------------------------------------------------------
(* Records and their order.                                                *)
LEMMA CancelRows ==
  ASSUME Placed, NEW q \in Requests, CancelWrite(q)
  PROVE  LET s == request[q].sub  d == CancelledDoc(request[q].copy) IN
         /\ Exists(s) /\ d \in Docs /\ d.life \notin Early
         /\ d.outcome = request[q].copy.outcome
         /\ doc' = [doc EXCEPT ![s] = d]
         /\ request[q].pc = "read" /\ request'[q].pc \in {"done", "written"}
         /\ request'[q].copy = Blank
         /\ \A o \in Requests : o # q => request'[o] = request[o]
         /\ UNCHANGED <<queue, record, stage, expected, worker, mutations>>
<1> DEFINE c == request[q].copy
           s == request[q].sub
<1>1. c \in Docs /\ c.life # NoDoc /\ Exists(s) /\ request[q].pc = "read"
  BY DEF CancelWrite, Placed, WorkExists, TypeOK
<1>2. CancelledDoc(c) \in Docs /\ CancelledDoc(c).life \notin Early
      /\ CancelledDoc(c).outcome = c.outcome
  BY <1>1 DEF CancelledDoc, Docs, Active, Ended, Held, NoDoc, Reasons, Early
<1>3. /\ doc' = [doc EXCEPT ![s] = CancelledDoc(c)]
      /\ request' = [request EXCEPT ![q].pc = IF CancelledDoc(c).life \in Active THEN "done"
                                              ELSE "written", ![q].copy = Blank]
      /\ UNCHANGED <<queue, record, stage, expected, worker, mutations>>
  BY DEF CancelWrite
<1>4. request \in [Requests -> [pc : {"new", "read", "written", "done"},
                                sub : Subs \cup {0}, copy : Docs]]
  BY DEF Placed, TypeOK
<1> HIDE DEF c, s
<1>5. /\ request'[q].pc \in {"done", "written"} /\ request'[q].copy = Blank
      /\ \A o \in Requests : o # q => request'[o] = request[o]
  BY <1>3, <1>4
<1> QED
  BY <1>1, <1>2, <1>3, <1>5 DEF c, s

(* Documents only appear with a submission. *)
LEMMA DocsStay ==
  ASSUME Placed, [ProviderNext]_providerVars, NEW s \in Subs
  PROVE  doc[s].life # NoDoc => doc'[s].life # NoDoc
<1>0. TypeOK /\ WorkExists /\ Fits /\ doc \in [Subs -> Docs]
  BY DEF Placed, TypeOK
<1>1. ASSUME NEW w \in Workers, ProviderStep(w) \/ (ProviderFault(w) /\ UNCHANGED aside)
      PROVE  doc[s].life # NoDoc => doc'[s].life # NoDoc
  <2>1. CASE Stall(w)
    BY <1>0, <2>1, StallTypes
  <2>2. CASE ~Stall(w)
    BY <1>0, <1>1, <2>2, WorkerActs, ActsRows, ProviderCases
  <2> QED
    BY <2>1, <2>2
<1>2. ASSUME NEW o \in Subs, QueueRun(o)
      PROVE  doc[s].life # NoDoc => doc'[s].life # NoDoc
  BY <1>0, <1>2, QueueRunTypes
<1>3. ASSUME NEW q \in Requests, CancelWrite(q)
      PROVE  doc[s].life # NoDoc => doc'[s].life # NoDoc
  BY <1>0, <1>3, CancelRows DEF Early, Exists
<1>4. CASE UNCHANGED doc
  BY <1>4
<1> QED
  BY <1>1, <1>2, <1>3, <1>4, ProviderCases DEF Elsewise, ClaimLapses, LockLapses, CancelRead,
     CancelMarkDone, providerVars, vars, rows

(* What a step may do to the records. *)
RecordsStay == UNCHANGED <<record, stage, aside>>

LEMMA RecordSteps ==
  ASSUME Placed, [ProviderNext]_providerVars
  PROVE  \/ RecordsStay /\ UNCHANGED expected
         \/ RecordsStay /\ \E s \in Subs : QueueRun(s)
         \/ UNCHANGED <<doc, expected>> /\ \E w \in Workers : Records(w)
<1>0. TypeOK /\ WorkExists /\ Fits /\ UNCHANGED executor
  BY ProviderCases DEF Placed
<1> USE DEF RecordsStay
<1>1. ASSUME NEW w \in Workers, ProviderStep(w) \/ (ProviderFault(w) /\ UNCHANGED aside)
      PROVE  (RecordsStay /\ UNCHANGED expected) \/ (UNCHANGED <<doc, expected>> /\ Records(w))
  <2>1. CASE Stall(w)
    <3>1. UNCHANGED <<record, stage, expected>>
      BY <1>0, <2>1, StallTypes
    <3>2. faults \in Nat /\ faults' = faults + 1
      BY <1>0, <2>1, ControlPlaneAssumption DEF TypeOK, Stall, Fault
    <3>3. ~CommitRecord(w)
      BY <3>2 DEF CommitRecord
    <3>4. UNCHANGED aside
      BY <1>1, <3>3 DEF ProviderStep
    <3> QED
      BY <3>1, <3>4
  <2>2. CASE ~Stall(w)
    <3>1. Acts(w)
      BY <1>0, <1>1, <2>2, WorkerActs
    <3> QED
      BY <3>1, StillActs DEF Standing, Takes, Upserts, Closes, Begins, Records, rows
  <2> QED
    BY <2>1, <2>2
<1>2. ASSUME NEW s \in Subs, QueueRun(s) PROVE UNCHANGED <<record, stage>>
  BY <1>0, <1>2, QueueRunTypes
<1> QED
  BY <1>1, <1>2, ProviderCases DEF Elsewise, ClaimLapses, LockLapses, CancelRead, CancelWrite,
     CancelMarkDone, providerVars, vars, rows

LEMMA ProviderOrderNext ==
  ASSUME Placed, Order, [ProviderNext]_providerVars
  PROVE  Order'
<1>0. /\ TypeOK /\ WorkExists /\ Fits /\ Subs \subseteq Nat \ {0}
      /\ stage \in Subs \cup {0} /\ expected \in [Subs -> Subs \cup {0}]
      /\ record \in [Subs -> Outcomes] /\ doc \in [Subs -> Docs]
  BY ControlPlaneAssumption DEF Placed, TypeOK
<1>1. CASE RecordsStay /\ UNCHANGED expected /\ ~\E s \in Subs : QueueRun(s)
  <2>1. \A s \in Subs : doc[s].life # NoDoc => doc'[s].life # NoDoc
    BY DocsStay
  <2>2. \A s \in Subs : doc'[s].life # NoDoc => doc[s].life # NoDoc
    <3>1. ASSUME NEW w \in Workers, ProviderStep(w) \/ (ProviderFault(w) /\ UNCHANGED aside)
          PROVE  \A s \in Subs : doc'[s].life # NoDoc => doc[s].life # NoDoc
      <4>1. CASE Stall(w)
        BY <1>0, <4>1, StallTypes
      <4>2. CASE ~Stall(w)
        BY <1>0, <3>1, <4>2, WorkerActs, ActsRows, ProviderCases
      <4> QED
        BY <4>1, <4>2
    <3>2. ASSUME NEW q \in Requests, CancelWrite(q)
          PROVE  \A s \in Subs : doc'[s].life # NoDoc => doc[s].life # NoDoc
      BY <1>0, <3>2, CancelRows DEF Exists
    <3> QED
      BY <1>1, <3>1, <3>2, ProviderCases DEF Elsewise, ClaimLapses, LockLapses, CancelRead,
         CancelMarkDone, providerVars, vars, rows
  <2> QED
    BY <1>0, <1>1, <2>1, <2>2 DEF Order, RecordsStay, Exists
<1>2. ASSUME NEW s \in Subs, QueueRun(s)
      PROVE  Order'
  <2>1. /\ doc[s].life = NoDoc /\ \A o \in Subs : o < s => doc[o].life # NoDoc
        /\ \A o \in Subs : o # s => doc'[o] = doc[o]
        /\ doc'[s].life # NoDoc
        /\ expected' = [expected EXCEPT ![s] = stage]
        /\ UNCHANGED <<record, stage>>
    BY <1>0, <1>2, QueueRunTypes
  <2>2. stage < s
    BY <1>0, <2>1 DEF Order, Exists
  <2> QED
    BY <1>0, <2>1, <2>2 DEF Order, Exists
<1>3. ASSUME NEW w \in Workers, Records(w), UNCHANGED <<doc, expected>>
      PROVE  Order'
  <2>1. Sub(w) \in Subs /\ doc[Sub(w)].life # NoDoc
    BY <1>0, <1>3 DEF Records, WorkExists, Exists
  <2>2. CASE stage = expected[Sub(w)] /\ stage' = Sub(w)
             /\ record' = [record EXCEPT ![Sub(w)] = worker[w].result]
    <3>1. /\ stage < Sub(w)
          /\ Sub(w) \in Nat
          /\ stage \in Nat
      <4>1. expected[Sub(w)] < Sub(w)
        BY <2>1 DEF Order
      <4>2. stage < Sub(w)
        BY <2>2, <4>1
      <4>3. Sub(w) \in Nat
        BY <1>0, <2>1
      <4>4. stage \in Nat
        BY <1>0
      <4> QED
        BY <4>2, <4>3, <4>4
    <3>2. ASSUME NEW o \in Subs, record'[o] = "succeeded" PROVE o <= stage'
      <4>1. o = Sub(w) \/ record[o] = "succeeded"
        BY <1>0, <2>1, <2>2, <3>2
      <4>2. o \in Nat
        BY <1>0
      <4> QED
        BY <2>2, <3>1, <4>1, <4>2 DEF Order
    <3> QED
      BY <1>3, <2>1, <2>2, <3>2 DEF Order, Exists
  <2>3. CASE UNCHANGED stage /\ (UNCHANGED record \/ record' = [record EXCEPT ![Sub(w)] = "failed"])
    <3>1. \A o \in Subs : record'[o] = "succeeded" => record[o] = "succeeded"
      BY <1>0, <2>1, <2>3
    <3> QED
      BY <1>3, <2>3, <3>1 DEF Order, Exists
  <2> QED
    BY <1>3, <2>2, <2>3 DEF Records
<1> QED
  BY <1>1, <1>2, <1>3, RecordSteps

(* A dispatched executor records successes only. *)
Dispatched ==
  ~Settling => /\ \A s \in Subs : record[s] # "failed"
               /\ \A w \in Workers : AtRecord(worker[w]) => worker[w].result = "succeeded"

LEMMA DispatchedRecord ==
  ASSUME NEW w \in Workers, Acts(w), ~Settling, AtRecord(worker'[w])
  PROVE  worker'[w].result = "succeeded" \/ (AtRecord(worker[w]) /\ worker'[w].result = worker[w].result)
<1>1. ASSUME Resumes(w) PROVE FALSE
  BY <1>1 DEF Resumes, Goes, Idles, Turns, AtRecord
<1>2. CASE Rests(w) \/ Quits(w) \/ Leaves(w) \/ Takes(w) \/ Reads(w) \/ Drafts(w) \/ Enters(w)
  BY <1>2 DEF Rests, Quits, Leaves, Takes, Reads, Drafts, Enters, Goes, Turns, Idles, AtRecord
<1>3. CASE Locks(w) \/ GivesUp(w) \/ PutsBack(w) \/ Begins(w) \/ Records(w)
  BY <1>3 DEF Locks, GivesUp, PutsBack, Begins, Records, Goes, Turns, AtRecord
<1>4. CASE Commits(w)
  BY <1>4 DEF Commits, Turns
<1>5. CASE Upserts(w) \/ Closes(w)
  BY <1>1, <1>5 DEF Upserts, Closes, Goes, Turns, AtRecord
<1> QED
  BY <1>2, <1>3, <1>4, <1>5 DEF Acts, Reconciles, Confirms, Revalidates, Publishes

LEMMA DispatchedNext ==
  ASSUME Placed, Dispatched, [ProviderNext]_providerVars
  PROVE  Dispatched'
<1>0. TypeOK /\ WorkExists /\ Fits /\ UNCHANGED executor /\ record \in [Subs -> Outcomes]
  BY ProviderCases DEF Placed, TypeOK
<1> SUFFICES ASSUME ~Settling
             PROVE  /\ \A s \in Subs : record'[s] # "failed"
                    /\ \A v \in Workers : AtRecord(worker'[v]) => worker'[v].result = "succeeded"
  BY <1>0 DEF Dispatched, Settling
<1>1. \A s \in Subs : record'[s] # "failed"
  <2>1. ASSUME NEW w \in Workers, Records(w) PROVE \A s \in Subs : record'[s] # "failed"
    <3>1. Sub(w) \in Subs /\ AtRecord(worker[w])
      BY <1>0, <2>1, Process DEF Records, WorkExists, Exists, Fit, Route, AtRecord
    <3> QED
      BY <1>0, <2>1, <3>1 DEF Records, Dispatched
  <2> QED
    BY <2>1, RecordSteps DEF RecordsStay, Dispatched
<1>2. ASSUME NEW v \in Workers, AtRecord(worker'[v]) PROVE worker'[v].result = "succeeded"
  <2>1. ASSUME NEW w \in Workers, Acts(w) PROVE worker'[v].result = "succeeded"
    <3>1. CASE v = w
      BY <1>2, <2>1, <3>1, DispatchedRecord DEF Dispatched
    <3>2. CASE v # w
      BY <1>0, <1>2, <2>1, <3>2, ActsFit DEF Others, Dispatched
    <3> QED
      BY <3>1, <3>2
  <2>2. CASE UNCHANGED worker
    BY <1>2, <2>2 DEF Dispatched
  <2>3. ASSUME NEW w \in Workers, ProviderStep(w) \/ (ProviderFault(w) /\ UNCHANGED aside)
        PROVE  Acts(w) \/ UNCHANGED worker
    BY <1>0, <2>3, WorkerActs, StallTypes
  <2>4. ASSUME NEW s \in Subs, QueueRun(s) PROVE UNCHANGED worker
    BY <1>0, <2>4, QueueRunTypes
  <2> QED
    BY <2>1, <2>2, <2>3, <2>4, ProviderCases DEF Elsewise, ClaimLapses, LockLapses, CancelRead,
       CancelWrite, CancelMarkDone, providerVars, vars
<1> QED
  BY <1>1, <1>2

-----------------------------------------------------------------------------
(* A deploy record stands.                                                 *)
FinalStep ==
  \A s \in Subs : record[s] # "none" => record'[s] = record[s] /\ (stage' = s => stage = s)

LEMMA DispatchedFinal ==
  ASSUME ~Settling, Placed, Order, Dispatched, [ProviderNext]_providerVars
  PROVE  FinalStep
<1>0. /\ TypeOK /\ WorkExists /\ Fits /\ Subs \subseteq Nat \ {0}
      /\ record \in [Subs -> Outcomes] /\ stage \in Subs \cup {0}
  BY ControlPlaneAssumption DEF Placed, TypeOK
<1>1. CASE RecordsStay
  BY <1>1 DEF RecordsStay, FinalStep
<1>2. ASSUME NEW w \in Workers, Records(w) PROVE FinalStep
  <2>1. /\ stage = expected[Sub(w)] /\ stage' = Sub(w)
        /\ record' = [record EXCEPT ![Sub(w)] = worker[w].result]
    BY <1>2 DEF Records
  <2>2. Sub(w) \in Subs
    BY <1>0, <1>2 DEF Records, WorkExists, Exists
  <2>3. expected[Sub(w)] < Sub(w)
    BY <2>2 DEF Order
  <2>4. /\ stage \in Nat
        /\ Sub(w) \in Nat
    <3>1. stage \in Nat
      BY <1>0
    <3>2. Sub(w) \in Nat
      BY <1>0, <2>2
    <3> QED
      BY <3>1, <3>2
  <2>5. record[Sub(w)] # "succeeded"
    <3>1. record[Sub(w)] = "succeeded" => Sub(w) <= stage
      BY <2>2 DEF Order
    <3>2. stage < Sub(w)
      BY <2>1, <2>3
    <3> QED
      BY <2>4, <3>1, <3>2
  <2>6. record[Sub(w)] = "none"
    BY <1>0, <2>2, <2>5 DEF Dispatched, Outcomes
  <2> QED
    BY <1>0, <2>1, <2>2, <2>6 DEF FinalStep
<1> QED
  BY <1>1, <1>2, RecordSteps

LEMMA ProviderInitial == ProviderInit => Placed /\ LockHeld /\ Order /\ Dispatched
<1> SUFFICES ASSUME ProviderInit PROVE Dispatched
  BY ProviderTypesInit
<1>1. \A s \in Subs : record[s] = "none"
  BY DEF ProviderInit, Init
<1>2. worker = [w \in Workers |-> Idle]
  BY DEF ProviderInit, Init
<1> QED
  BY <1>1, <1>2 DEF Dispatched, Idle, AtRecord

(* Whatever fails, stalls included, a dispatched executor never replaces a *)
(* deploy record: a run found running is executed again, but the run that  *)
(* has been recorded is by then the current one and no longer what the     *)
(* submission was admitted against.                                        *)
THEOREM DispatchedRecordFinal == ProviderSpec /\ ~Settling => RecordIsFinal
<1> DEFINE Base == Placed /\ Order /\ Dispatched
<1>1. ProviderInit => Base
  BY ProviderInitial
<1>2. Base /\ [ProviderNext]_providerVars => Base'
  BY ProviderTypesNext, ProviderOrderNext, DispatchedNext
<1>3. ~Settling /\ [ProviderNext]_providerVars => ~Settling'
  BY ProviderCases DEF Settling
<1>4. Base /\ ~Settling /\ [ProviderNext]_providerVars => FinalStep
  BY DispatchedFinal
<1>5. FinalStep <=> \A s \in Subs : record[s] # "none" => record'[s] = record[s] /\ (stage' = s => stage = s)
  BY DEF FinalStep
<1> HIDE DEF Base
<1> QED
  BY <1>1, <1>2, <1>3, <1>4, <1>5, PTL DEF ProviderSpec, RecordIsFinal

-----------------------------------------------------------------------------
(* cloudflare-pages: what a claim is good for.                             *)

(* It is past an assertion of the claim, and about to use it: no lease     *)
(* runs out meanwhile, but a cancellation may take the row off the queue.  *)
Using(p) == p.pc \in {"upsert", "begin", "record", "markDone"}

Retains(w, p) == Holds(w, p) \/ (Using(p) /\ queue[p.sub].done)

(* The provider has been reached for s, or there is a record of it. *)
Touched(s) == mutations[s] > 0 \/ record[s] # "none"

(* It has yet to reach the provider; it has reached it, with no failure;   *)
(* its first write is behind it.                                           *)
Before(p) ==
  \/ p.pc = "materialize" /\ p.goal # "recover"
  \/ p.pc \in {"acquire", "revalidate", "begin"}
  \/ p.pc \in {"assert", "upsert"} /\ p.goal \in {"running", "check", "mutating", "begin"}

Ahead(p) ==
  \/ p.pc = "mutate"
  \/ p.pc \in {"assert", "upsert"} /\ p.goal \in {"smoke", "smoked"}
  \/ AtRecord(p) /\ p.result = "succeeded"

Written(p) ==
  \/ p.pc \in {"revalidate", "begin", "mutate", "record"}
  \/ /\ p.pc \in {"assert", "upsert", "markDone"}
     /\ p.goal \in {"check", "mutating", "begin", "smoke", "smoked", "record", "settled"}

(* What it holds in memory fits what it is about to do. *)
Drawn(p) ==
  /\ p.pc \in Drafting => p.next.life \notin Early \/ (p.goal = "putBack" /\ p.next = p.file)
  /\ p.pc \in {"assertClaim", "upsert"} => p.file = p.next
  /\ Written(p) => p.file.life \notin Early
  /\ AtRecord(p) => p.result # "none" /\ p.next.outcome = p.result

(* While its claim stands, the rows are as it believes. *)
Aware(p) ==
  /\ p.pc \notin Unread /\ Touched(p.sub) => p.file.life \notin Early
  /\ Before(p) => ~Touched(p.sub)
  /\ Ahead(p) => record[p.sub] = "none"
  /\ Written(p) => doc[p.sub].life \notin Early

Proven(w, p) ==
  /\ Drawn(p)
  /\ Using(p) => Retains(w, p)
  /\ Retains(w, p) => Aware(p)

Sole == \A v, w \in Workers : Using(worker[v]) /\ Using(worker[w]) /\ Sub(v) = Sub(w) => v = w

Vacated(s) ==
  /\ queue[s].done => queue[s].owner = NoWorker
  /\ Touched(s) => doc[s].life \notin Early
  /\ mutations[s] <= 1

Tenure ==
  Settling => /\ \A w \in Workers : Proven(w, worker[w])
              /\ Sole
              /\ \A s \in Subs : Vacated(s)

(* Nobody else retains the submission of a worker that is using its claim. *)
LEMMA Alone ==
  ASSUME Settling, Tenure, Placed, NEW v \in Workers, NEW w \in Workers,
         Using(worker[w]), Retains(v, worker[v]), Sub(v) = Sub(w)
  PROVE  v = w
<1>1. Sub(w) \in Subs /\ NoWorker \notin Workers
  BY ControlPlaneAssumption DEF Placed, WorkExists, Exists, Using
<1>2. Retains(w, worker[w]) /\ Vacated(Sub(w)) /\ Sole
  BY <1>1 DEF Tenure, Proven
<1> QED
  BY <1>1, <1>2 DEF Retains, Holds, Vacated, Sole, Sub

(* Its own steps that leave the rows alone. *)
LEMMA ProvenStill ==
  ASSUME Settling, Placed, Tenure, NEW w \in Workers, Acts(w),
         ~Takes(w), ~Upserts(w), ~Closes(w), ~Begins(w), ~Records(w)
  PROVE  Standing /\ Proven(w, worker[w])'
<1> DEFINE p == worker[w]
           q == worker'[w]
<1>0. /\ p.file \in Docs /\ p.next \in Docs /\ Fit(p) /\ Proven(w, p)
      /\ p.pc # "idle" => p.sub \in Subs /\ Vacated(p.sub)
  BY Process DEF Placed, WorkExists, Exists, Tenure, Sub
<1>a. Drawn(p) /\ (Using(p) => Retains(w, p)) /\ (Retains(w, p) => Aware(p))
  BY <1>0 DEF Proven
<1>b. Standing
  BY StillActs
<1> SUFFICES /\ Drawn(q)
             /\ Using(q) => Retains(w, q)
             /\ Retains(w, q) => Aware(q)
  BY <1>b DEF Proven, Standing, rows, Retains, Aware, Holds, Touched
<1> HIDE DEF p, q
<1> USE DEF Unread, Drafting, Writing, Steps
<1>1. CASE Rests(w)
  BY <1>a, <1>1 DEF Rests, Goes, Turns, p, q, Drawn, Using, Retains, Holds, Aware, Touched, Before,
     Ahead, Written, AtRecord
<1>2. CASE Quits(w)
  BY <1>2 DEF Quits, Idles, q, Drawn, Using, Retains, Holds, Written, AtRecord
<1>3. CASE Leaves(w)
  BY <1>a, <1>3 DEF Leaves, Goes, Turns, p, q, Drawn, Using, Retains, Holds, Aware, Touched, Before,
     Ahead, Written, AtRecord
<1>5. CASE Reads(w)
  <2>1. q.pc \in {"reconcile", "acquire"} /\ q.sub = p.sub /\ q.goal = p.goal
        /\ q.file = doc[p.sub] /\ p.pc = "materialize" /\ (q.pc = "acquire" => p.goal # "recover")
    BY <1>5 DEF Reads, Turns, p, q, Sub
  <2> QED
    BY <1>0, <1>a, <2>1 DEF Drawn, Using, Retains, Holds, Aware, Before, Ahead, Written, AtRecord, Vacated
<1> USE DEF Drawn, Using, Retains, Holds, Aware, Before, Ahead, Written, AtRecord
<1>6. CASE Reconciles(w)
  <2>1. PICK rec \in RecordsOf(Sub(w)) :
               LET d == Reconciled(worker[w].file, rec) IN
                 Turns(w, "assertClaim", worker[w].goal, d, d, worker[w].result)
    BY <1>6 DEF Reconciles
  <2>2. Sub(w) \in Subs /\ rec \in Outcomes
    BY <1>0, <1>6, <2>1, AllPCs DEF Reconciles, RecordsOf, Placed, TypeOK, Sub, p
  <2>3. Reconciled(worker[w].file, rec).life = "finished"
    BY <1>0, <2>2, ReconciledDocs DEF p
  <2> HIDE DEF Reconciled
  <2>4. q.pc = "assertClaim" /\ q.file = q.next /\ q.file.life \notin Early /\ q.goal = p.goal
    BY <2>1, <2>3 DEF Turns, p, q, Early, NoDoc
  <2> QED
    BY <1>0, <1>6, <2>4 DEF Reconciles, p, Fit, Route
<1>7. CASE Confirms(w)
  <2>1. Holds(w, q)
    BY <1>7 DEF Confirms, Goes, Turns, HasClaim, q, Sub
  <2>2. Retains(w, p) /\ p.goal = "recover"
    BY <1>0, <1>7, <2>1 DEF Confirms, Goes, Turns, p, q, Fit, Route
  <2> QED
    BY <1>a, <1>7, <2>1, <2>2 DEF Confirms, Goes, Turns, p, q
<1>8. CASE Locks(w)
  <2>1. Run(worker[w].file).life = "running"
    BY <1>0, NextDocs DEF p
  <2> QED
    BY <1>a, <1>8, <2>1 DEF Locks, Turns, p, q, Early, NoDoc
<1>9. CASE Drafts(w)
  <2>1. Holds(w, q) /\ Holds(w, p)
    BY <1>9 DEF Drafts, Turns, HasClaim, p, q, Sub
  <2> QED
    BY <1>0, <1>a, <1>9, <2>1 DEF Drafts, Turns, p, q, Fit, Route
<1>10. CASE Enters(w)
  <2>1. Holds(w, q) /\ Holds(w, p)
    BY <1>10 DEF Enters, Goes, Turns, HasClaim, p, q, Sub
  <2> QED
    BY <1>0, <1>a, <1>10, <2>1 DEF Enters, Goes, Turns, p, q, Fit, Route
<1>11. CASE Commits(w)
  <2>1. PICK result \in {"succeeded", "failed"} :
          /\ Turns(w, "assert", "record", worker[w].file, Finish(worker[w].next, result), result)
          /\ result = "succeeded" => \/ worker[w].pc = "mutate"
                                     \/ /\ worker[w].pc \in {"assert", "upsert"}
                                        /\ worker[w].goal \in {"smoke", "smoked"}
    BY <1>11 DEF Commits
  <2>2. Finish(worker[w].next, result).life = "finished"
        /\ Finish(worker[w].next, result).outcome = result
    BY <1>0, NextDocs DEF p
  <2>3. Written(p) /\ (result = "succeeded" => Ahead(p)) /\ p.pc \notin Unread
    BY <1>0, <1>11, <2>1 DEF Commits, p, Fit, Route, Locking
  <2>4. /\ q.pc = "assert" /\ q.goal = "record" /\ q.sub = p.sub /\ q.file = p.file
        /\ q.next.life \notin Early /\ q.next.outcome = result /\ q.result = result
    BY <2>1, <2>2 DEF Turns, p, q, Early, NoDoc
  <2>5. Retains(w, q) => Retains(w, p)
    BY <2>3, <2>4
  <2> QED
    BY <1>a, <2>3, <2>4, <2>5
<1>12. CASE Revalidates(w)
  <2>1. Mark(worker[w].next).life = worker[w].next.life
    BY <1>0, NextDocs DEF p
  <2> QED
    BY <1>0, <1>a, <1>12, <2>1 DEF Revalidates, Turns, p, q, Fit, Route
<1>13. CASE Publishes(w)
  BY <1>0, <1>a, <1>13 DEF Publishes, Goes, Turns, p, q, Fit, Route
<1>15. CASE PutsBack(w)
  <2>1. Holds(w, q) /\ Holds(w, p)
    BY <1>15 DEF PutsBack, Turns, HasClaim, p, q, Sub
  <2> QED
    BY <1>a, <1>15, <2>1 DEF PutsBack, Turns, p, q
<1> QED
  BY <1>1, <1>2, <1>3, <1>5, <1>6, <1>7, <1>8, <1>9, <1>10, <1>11, <1>12, <1>13, <1>15 DEF Acts,
     GivesUp

(* A worker that does not move, and finds the rows as they were. *)
LEMMA ProvenKept ==
  ASSUME NEW v \in Workers, Proven(v, worker[v]), worker'[v] = worker[v],
         Using(worker[v]) => Retains(v, worker[v])',
         Retains(v, worker[v])' => /\ Retains(v, worker[v])
                                   /\ mutations'[Sub(v)] = mutations[Sub(v)]
                                   /\ record'[Sub(v)] = record[Sub(v)]
                                   /\ doc[Sub(v)].life \notin Early => doc'[Sub(v)].life \notin Early
  PROVE  Proven(v, worker[v])'
<1> DEFINE p == worker[v]
<1>1. Drawn(p) /\ (Using(p) => Retains(v, p)) /\ (Retains(v, p) => Aware(p))
  BY DEF Proven
<1>2. Drawn(p)'
  BY <1>1 DEF Drawn, Written, AtRecord
<1>3. Using(p)' => Retains(v, p)'
  BY DEF Using
<1>4. ASSUME Retains(v, p)' PROVE Aware(p)'
  BY <1>1, <1>4 DEF Aware, Touched, Before, Ahead, Written, AtRecord, Sub
<1> QED
  BY <1>2, <1>3, <1>4 DEF Proven

(* Nobody is disturbed by what another worker does. *)
LEMMA ProvenOther ==
  ASSUME Settling, Placed, Tenure, NEW w \in Workers, Acts(w), NEW v \in Workers, v # w
  PROVE  Proven(v, worker[v])'
<1>0. /\ Proven(v, worker[v]) /\ Proven(w, worker[w]) /\ worker'[v] = worker[v]
      /\ worker[v].pc # "idle" => Sub(v) \in Subs
      /\ worker[w].pc # "idle" => Sub(w) \in Subs
      /\ NoWorker \notin Workers
  BY ActsFit, ControlPlaneAssumption DEF Placed, WorkExists, Exists, Tenure, Others
<1>1. /\ doc \in [Subs -> Docs] /\ record \in [Subs -> Outcomes] /\ mutations \in [Subs -> Nat]
      /\ queue \in [Subs -> [owner : Workers \cup {NoWorker}, lapsed : BOOLEAN, done : BOOLEAN]]
  BY DEF Placed, TypeOK
<1>2. Using(worker[v]) => Retains(v, worker[v])
  BY <1>0 DEF Proven
<1>3. CASE Standing
  BY <1>0, <1>2, <1>3, ProvenKept DEF Standing, rows, Retains, Holds
<1>4. CASE Takes(w)
  <2>1. PICK s \in Subs : /\ Claimable(s)
                          /\ queue' = [queue EXCEPT ![s].owner = w, ![s].lapsed = FALSE]
    BY <1>4 DEF Takes
  <2>2. ASSUME worker[v].pc # "idle", Sub(v) = s PROVE ~Holds(v, worker[v])
    BY <1>0, <2>1, <2>2 DEF Claimable, Holds, Sub
  <2>3. queue'[s].owner = w /\ queue'[s].done = queue[s].done /\ ~queue[s].done
        /\ \A o \in Subs : o # s => queue'[o] = queue[o]
    BY <1>1, <2>1 DEF Claimable
  <2>4. Retains(v, worker[v])' => Retains(v, worker[v])
    BY <1>0, <2>3 DEF Retains, Holds, Using, Sub
  <2>5. Using(worker[v]) => Retains(v, worker[v])'
    BY <1>0, <1>2, <2>2, <2>3 DEF Retains, Holds, Using, Sub
  <2> QED
    BY <1>0, <1>4, <2>4, <2>5, ProvenKept DEF Takes
<1>5. ASSUME Using(worker[w]), Retains(v, worker[v]) PROVE Sub(v) # Sub(w)
  BY <1>5, Alone
<1>6. CASE Upserts(w)
  <2>1. doc' = [doc EXCEPT ![Sub(w)] = worker[w].next] /\ Using(worker[w])
        /\ UNCHANGED <<queue, record, mutations>>
    BY <1>6 DEF Upserts, Using
  <2>2. Retains(v, worker[v])' <=> Retains(v, worker[v])
    BY <1>0, <2>1 DEF Retains, Holds, Using
  <2>3. Retains(v, worker[v]) => doc'[Sub(v)] = doc[Sub(v)]
    BY <1>0, <1>1, <1>5, <2>1 DEF Retains, Holds, Using
  <2> QED
    BY <1>0, <1>2, <2>1, <2>2, <2>3, ProvenKept
<1>7. CASE Closes(w)
  <2>1. queue' = [queue EXCEPT ![Sub(w)] = Done] /\ Using(worker[w])
        /\ UNCHANGED <<doc, record, mutations>> /\ Sub(w) \in Subs
    BY <1>0, <1>7 DEF Closes, Using
  <2>2. queue'[Sub(w)] = Done /\ \A o \in Subs : o # Sub(w) => queue'[o] = queue[o]
    BY <1>1, <2>1
  <2>3. Done.done /\ Done.owner = NoWorker
    BY DEF Done
  <2>4. Retains(v, worker[v])' => Retains(v, worker[v])
    BY <1>0, <1>2, <2>2, <2>3 DEF Retains, Holds, Sub
  <2>5. Using(worker[v]) => Retains(v, worker[v])'
    BY <1>0, <1>2, <2>2, <2>3 DEF Retains, Holds, Sub, Using
  <2> QED
    BY <1>0, <2>1, <2>4, <2>5, ProvenKept
<1>8. CASE Begins(w)
  <2>1. mutations' = [mutations EXCEPT ![Sub(w)] = @ + 1] /\ Using(worker[w])
        /\ UNCHANGED <<doc, record, queue>>
    BY <1>8 DEF Begins, Using, rows
  <2>2. Retains(v, worker[v])' <=> Retains(v, worker[v])
    BY <1>0, <2>1 DEF Retains, Holds, Using
  <2>3. Retains(v, worker[v]) => mutations'[Sub(v)] = mutations[Sub(v)]
    BY <1>0, <1>1, <1>5, <2>1 DEF Retains, Holds, Using
  <2> QED
    BY <1>0, <1>2, <2>1, <2>2, <2>3, ProvenKept
<1>9. CASE Records(w)
  <2>1. Using(worker[w]) /\ UNCHANGED <<doc, queue, mutations>> /\ Sub(w) \in Subs
    BY <1>0, <1>9 DEF Records, Using
  <2>2. \A o \in Subs : o # Sub(w) => record'[o] = record[o]
    BY <1>1, <1>9 DEF Records
  <2>3. Retains(v, worker[v])' <=> Retains(v, worker[v])
    BY <1>0, <2>1 DEF Retains, Holds, Using
  <2>4. Retains(v, worker[v]) => record'[Sub(v)] = record[Sub(v)]
    BY <1>0, <1>5, <2>1, <2>2 DEF Retains, Holds, Using
  <2> QED
    BY <1>0, <1>2, <2>1, <2>3, <2>4, ProvenKept
<1> QED
  BY <1>3, <1>4, <1>6, <1>7, <1>8, <1>9, StillActs

(* Proven in the next state, of a process q.                               *)
RetainsAfter(w, q) ==
  \/ q.pc # "idle" /\ queue'[q.sub].owner = w /\ ~queue'[q.sub].lapsed
  \/ Using(q) /\ queue'[q.sub].done

TouchedAfter(s) == mutations'[s] > 0 \/ record'[s] # "none"

AwareAfter(q) ==
  /\ q.pc \notin Unread /\ TouchedAfter(q.sub) => q.file.life \notin Early
  /\ Before(q) => ~TouchedAfter(q.sub)
  /\ Ahead(q) => record'[q.sub] = "none"
  /\ Written(q) => doc'[q.sub].life \notin Early

ProvenAfter(w, q) ==
  /\ Drawn(q)
  /\ Using(q) => RetainsAfter(w, q)
  /\ RetainsAfter(w, q) => AwareAfter(q)

LEMMA ProvenNext ==
  ASSUME NEW w \in Workers, ProvenAfter(w, worker'[w])
  PROVE  Proven(w, worker[w])'
BY DEF ProvenAfter, RetainsAfter, TouchedAfter, AwareAfter, Proven, Retains, Holds, Aware, Touched,
   Drawn, Using, Before, Ahead, Written, AtRecord

(* The steps that change the rows: what they leave of their own process    *)
(* and of its submission.                                                  *)
LEMMA TakesTidy ==
  ASSUME Settling, Placed, Tenure, NEW w \in Workers, Takes(w)
  PROVE  Proven(w, worker[w])' /\ \A s \in Subs : Vacated(s)'
<1> DEFINE q == worker'[w]
<1>1. PICK s \in Subs :
             /\ Claimable(s)
             /\ queue' = [queue EXCEPT ![s].owner = w, ![s].lapsed = FALSE]
             /\ q.pc = "materialize" /\ q.sub = s
             /\ q.goal = IF Settling /\ doc[s].life \in {"running", "cancelling"}
                         THEN "recover" ELSE "execute"
  BY DEF Takes
<1>2. queue \in [Subs -> [owner : Workers \cup {NoWorker}, lapsed : BOOLEAN, done : BOOLEAN]]
  BY DEF Placed, TypeOK
<1>3. UNCHANGED <<doc, record, mutations>>
  BY DEF Takes
<1>4. \A o \in Subs : Vacated(o)
  BY DEF Tenure
<1>5. ~queue[s].done /\ doc[s].life \in Active
  BY <1>1 DEF Claimable
<1>6. \A o \in Subs : queue'[o].done => queue'[o] = queue[o]
  BY <1>1, <1>2, <1>5
<1>7. q.goal # "recover" => doc[s].life \in Early
  BY <1>1, <1>5 DEF Active, Early
<1>8. q.goal # "recover" => ~Touched(s)
  BY <1>4, <1>7 DEF Vacated
<1> HIDE DEF q
<1>9. ProvenAfter(w, q)
  BY <1>1, <1>3, <1>8 DEF ProvenAfter, Drawn, Drafting, Writing, Written, AtRecord, Using,
     AwareAfter, Unread, Before, Ahead, Touched, TouchedAfter
<1>10. \A o \in Subs : Vacated(o)'
  BY <1>3, <1>4, <1>6 DEF Vacated, Touched
<1> QED
  BY <1>9, <1>10, ProvenNext DEF q

LEMMA UpsertsTidy ==
  ASSUME Settling, Placed, Tenure, NEW w \in Workers, Upserts(w)
  PROVE  Proven(w, worker[w])' /\ \A s \in Subs : Vacated(s)'
<1> DEFINE p == worker[w]
           q == worker'[w]
<1>1. /\ p.pc = "upsert" /\ p.sub \in Subs /\ Fit(p)
      /\ doc' = [doc EXCEPT ![p.sub] = p.next] /\ UNCHANGED <<queue, record, mutations>>
  BY Process DEF Upserts, Placed, WorkExists, Exists, Sub
<1>2. Drawn(p) /\ Retains(w, p) /\ Aware(p) /\ \A s \in Subs : Vacated(s)
  BY <1>1 DEF Tenure, Proven, Using
<1>3. doc \in [Subs -> Docs]
  BY DEF Placed, TypeOK
<1>4. p.file = p.next /\ (p.goal # "putBack" => p.next.life \notin Early)
      /\ (Touched(p.sub) => p.next.life \notin Early)
  BY <1>1, <1>2 DEF Drawn, Aware, Drafting, Writing, Unread
<1>5. doc'[p.sub] = p.next /\ \A o \in Subs : o # p.sub => doc'[o] = doc[o]
  BY <1>1, <1>3
<1>6. \A s \in Subs : Vacated(s)'
  BY <1>1, <1>2, <1>4, <1>5 DEF Vacated, Touched
<1>7. \/ /\ q.pc = "assert" /\ q.goal \in {"check", "begin", "smoked"} /\ p.goal # "putBack"
         /\ q.goal \in {"check", "begin"} => Before(p)
         /\ q.goal = "smoked" => Ahead(p)
         /\ q.sub = p.sub /\ q.file = p.file /\ q.next = p.next
      \/ /\ q.pc = "revalidate" /\ p.goal # "putBack" /\ Before(p)
         /\ q.goal = "check"
         /\ q.sub = p.sub /\ q.file = p.file /\ q.next = p.next
      \/ /\ q.pc = "markDone" /\ q.goal = p.goal /\ p.goal \in {"settled", "recover", "putBack"}
         /\ q.sub = p.sub /\ q.file = p.file /\ q.next = p.next
      \/ q.pc \in {"finally", "release"} /\ q.sub = p.sub /\ q.file = p.file
      \/ q.pc = "idle"
  BY <1>1 DEF Upserts, Resumes, Goes, Turns, Idles, Before, Ahead, Fit, Route, Steps, Sub
<1> HIDE DEF p, q
<1>8. (Touched(p.sub) <=> TouchedAfter(p.sub)) /\ (RetainsAfter(w, p) <=> Retains(w, p))
  BY <1>1 DEF Touched, TouchedAfter, Retains, RetainsAfter, Holds
<1>9. /\ Before(p) => ~TouchedAfter(p.sub)
      /\ Ahead(p) => record'[p.sub] = "none"
      /\ TouchedAfter(p.sub) => p.file.life \notin Early
      /\ p.goal # "putBack" => p.file.life \notin Early /\ doc'[p.sub].life \notin Early
      /\ p.next.life \notin Early \/ p.goal = "putBack"
      /\ p.file = p.next
  BY <1>1, <1>2, <1>4, <1>5, <1>8 DEF Aware
<1>10. RetainsAfter(w, p)
  BY <1>2, <1>8
<1>11. ProvenAfter(w, q)
  <2> USE DEF ProvenAfter, Drawn, Drafting, Writing, Written, AtRecord, Using, AwareAfter, Unread
  <2>1. CASE q.pc = "idle"
    BY <2>1 DEF RetainsAfter
  <2>2. CASE q.pc \in {"finally", "release"} /\ q.sub = p.sub /\ q.file = p.file
    BY <1>9, <2>2 DEF Before, Ahead
  <2>3. CASE /\ q.pc = "markDone" /\ q.goal = p.goal /\ p.goal \in {"settled", "recover", "putBack"}
             /\ q.sub = p.sub /\ q.file = p.file /\ q.next = p.next
    <3>1. RetainsAfter(w, q)
      BY <1>1, <1>10, <2>3 DEF RetainsAfter
    <3> QED
      BY <1>9, <2>3, <3>1 DEF Before, Ahead
  <2>4. CASE /\ q.pc = "revalidate" /\ p.goal # "putBack" /\ Before(p)
             /\ q.goal = "check"
             /\ q.sub = p.sub /\ q.file = p.file /\ q.next = p.next
    <3>1. ~Ahead(q)
      BY <2>4 DEF Ahead
    <3> QED
      BY <1>9, <2>4, <3>1
  <2>5. CASE /\ q.pc = "assert" /\ q.goal \in {"check", "begin", "smoked"} /\ p.goal # "putBack"
             /\ q.goal \in {"check", "begin"} => Before(p)
             /\ q.goal = "smoked" => Ahead(p)
             /\ q.sub = p.sub /\ q.file = p.file /\ q.next = p.next
    <3>1. Before(q) => q.goal \in {"check", "begin"}
      BY <2>5 DEF Before
    <3>2. Ahead(q) => q.goal = "smoked"
      BY <2>5 DEF Ahead
    <3> QED
      BY <1>9, <2>5, <3>1, <3>2
  <2> QED
    BY <1>7, <2>1, <2>2, <2>3, <2>4, <2>5
<1> QED
  BY <1>6, <1>11, ProvenNext DEF q

LEMMA ClosesTidy ==
  ASSUME Settling, Placed, Tenure, NEW w \in Workers, Closes(w)
  PROVE  Proven(w, worker[w])' /\ \A s \in Subs : Vacated(s)'
<1> DEFINE p == worker[w]
           q == worker'[w]
<1>1. /\ p.pc = "markDone" /\ p.sub \in Subs /\ Fit(p)
      /\ queue' = [queue EXCEPT ![p.sub] = Done] /\ UNCHANGED <<doc, record, mutations>>
  BY Process DEF Closes, Placed, WorkExists, Exists, Sub
<1>2. \A s \in Subs : Vacated(s)
  BY DEF Tenure
<1>3. queue \in [Subs -> [owner : Workers \cup {NoWorker}, lapsed : BOOLEAN, done : BOOLEAN]]
  BY DEF Placed, TypeOK
<1>4. queue'[p.sub] = Done /\ \A o \in Subs : o # p.sub => queue'[o] = queue[o]
  BY <1>1, <1>3
<1>5. Done.done /\ Done.owner = NoWorker /\ NoWorker \notin Workers
  BY ControlPlaneAssumption DEF Done
<1>6. \A s \in Subs : Vacated(s)'
  BY <1>1, <1>2, <1>4, <1>5 DEF Vacated, Touched
<1>7. q.pc \in {"finally", "release", "idle"} /\ (q.pc # "idle" => q.sub = p.sub)
  BY <1>1 DEF Closes, Resumes, Goes, Turns, Idles
<1> HIDE DEF p, q
<1>8. ProvenAfter(w, q)
  BY <1>4, <1>5, <1>7 DEF ProvenAfter, Drawn, Drafting, Writing, Written, AtRecord, Using, RetainsAfter
<1> QED
  BY <1>6, <1>8, ProvenNext DEF q

LEMMA BeginsTidy ==
  ASSUME Settling, Placed, Tenure, NEW w \in Workers, Begins(w)
  PROVE  Proven(w, worker[w])' /\ \A s \in Subs : Vacated(s)'
<1> DEFINE p == worker[w]
           q == worker'[w]
<1>1. /\ p.pc = "begin" /\ p.sub \in Subs /\ Fit(p)
      /\ mutations' = [mutations EXCEPT ![p.sub] = @ + 1] /\ UNCHANGED <<doc, record, queue>>
  BY Process DEF Begins, Placed, WorkExists, Exists, Sub, rows
<1>2. Drawn(p) /\ Retains(w, p) /\ Aware(p) /\ \A s \in Subs : Vacated(s)
  BY <1>1 DEF Tenure, Proven, Using
<1>3. mutations \in [Subs -> Nat]
  BY DEF Placed, TypeOK
<1>4. ~Touched(p.sub) /\ Written(p) /\ p.file.life \notin Early /\ doc[p.sub].life \notin Early
  BY <1>1, <1>2 DEF Drawn, Aware, Before, Written
<1>5. mutations[p.sub] = 0 /\ record[p.sub] = "none"
  BY <1>1, <1>3, <1>4 DEF Touched
<1>6. mutations'[p.sub] = 1 /\ \A o \in Subs : o # p.sub => mutations'[o] = mutations[o]
  BY <1>1, <1>3, <1>5
<1>7. \A s \in Subs : Vacated(s)'
  BY <1>1, <1>2, <1>4, <1>6 DEF Vacated, Touched
<1>8. /\ q.pc = "mutate" /\ q.goal = "mutating" /\ q.sub = p.sub /\ q.file = p.file /\ q.next = p.next
  BY DEF Begins, Goes, Turns
<1>9. p.next.life \notin Early \/ (p.goal = "putBack" /\ p.next = p.file)
  BY <1>1, <1>2 DEF Drawn, Drafting, Writing
<1> HIDE DEF p, q
<1>10. ProvenAfter(w, q)
  BY <1>1, <1>4, <1>5, <1>8, <1>9 DEF ProvenAfter, Drawn, Drafting, Writing, Written, AtRecord, Using,
     AwareAfter, Before, Ahead
<1> QED
  BY <1>7, <1>10, ProvenNext DEF q

LEMMA RecordsTidy ==
  ASSUME Settling, Placed, Tenure, NEW w \in Workers, Records(w)
  PROVE  Proven(w, worker[w])' /\ \A s \in Subs : Vacated(s)'
<1> DEFINE p == worker[w]
           q == worker'[w]
<1>1. /\ p.pc = "record" /\ p.sub \in Subs /\ Fit(p)
      /\ \A o \in Subs : o # p.sub => record'[o] = record[o]
      /\ UNCHANGED <<doc, mutations, queue>>
  BY Process DEF Records, Placed, WorkExists, Exists, Sub, TypeOK
<1>2. Drawn(p) /\ Retains(w, p) /\ Aware(p) /\ \A s \in Subs : Vacated(s)
  BY <1>1 DEF Tenure, Proven, Using
<1>3. p.file.life \notin Early /\ doc[p.sub].life \notin Early
  BY <1>1, <1>2 DEF Drawn, Aware, Written
<1>4. \A s \in Subs : Vacated(s)'
  BY <1>1, <1>2, <1>3 DEF Vacated, Touched
<1>5. q.pc = "assert" /\ q.goal = "settled" /\ q.sub = p.sub /\ q.file = p.file /\ q.next = p.next
  BY DEF Records, Goes, Turns
<1>6. p.next.life \notin Early
  BY <1>1, <1>2, <1>3 DEF Drawn, Drafting, Writing
<1> HIDE DEF p, q
<1>7. ProvenAfter(w, q)
  BY <1>1, <1>3, <1>5, <1>6 DEF ProvenAfter, Drawn, Drafting, Writing, Written, AtRecord, Using,
     AwareAfter, Before, Ahead
<1> QED
  BY <1>4, <1>7, ProvenNext DEF q

(* Whoever comes to use a claim has just asserted it. *)
LEMMA UsingFrom ==
  ASSUME NEW w \in Workers, Acts(w), Using(worker'[w])
  PROVE  /\ worker'[w].sub = worker[w].sub /\ worker[w].pc # "idle"
         /\ Using(worker[w]) \/ HasClaim(w)
<1> USE DEF Using
<1>1. ASSUME Resumes(w), worker[w].pc \in {"upsert", "markDone"}
      PROVE  worker'[w].sub = worker[w].sub
  BY <1>1 DEF Resumes, Goes, Turns, Idles
<1>2. CASE Rests(w) \/ Quits(w) \/ Leaves(w) \/ Takes(w) \/ Reads(w) \/ Reconciles(w)
  BY <1>2 DEF Rests, Quits, Leaves, Takes, Reads, Reconciles, Goes, Turns, Idles
<1>3. CASE Confirms(w) \/ Drafts(w) \/ Enters(w) \/ PutsBack(w)
  BY <1>3 DEF Confirms, Drafts, Enters, PutsBack, Goes, Turns
<1>4. CASE Locks(w) \/ Commits(w) \/ Revalidates(w) \/ Publishes(w) \/ GivesUp(w) \/ Begins(w)
           \/ Records(w)
  BY <1>4 DEF Locks, Commits, Revalidates, Publishes, GivesUp, Begins, Records, Goes, Turns
<1>5. CASE Upserts(w) \/ Closes(w)
  BY <1>1, <1>5 DEF Upserts, Closes, Goes, Turns
<1> QED
  BY <1>2, <1>3, <1>4, <1>5 DEF Acts

LEMMA SoleNext ==
  ASSUME Settling, Placed, Tenure, NEW w \in Workers, Acts(w)
  PROVE  Sole'
<1>0. Sole /\ NoWorker \notin Workers /\ \A v \in Workers : v # w => worker'[v] = worker[v]
  BY ActsFit, ControlPlaneAssumption DEF Placed, Tenure, Others
<1>1. ASSUME NEW v \in Workers, v # w, Using(worker[v]), Using(worker'[w]),
             worker[v].sub = worker'[w].sub
      PROVE  FALSE
  <2>1. Sub(v) = Sub(w) /\ (Using(worker[w]) \/ HasClaim(w))
    BY <1>1, UsingFrom DEF Sub
  <2>2. HasClaim(w)
    BY <1>0, <1>1, <2>1 DEF Sole
  <2>3. Retains(v, worker[v])
    BY <1>1 DEF Tenure, Proven
  <2> QED
    BY <1>1, <2>1, <2>2, <2>3 DEF HasClaim, Retains, Holds, Sub
<1>2. ASSUME NEW u \in Workers, NEW v \in Workers, Using(worker'[u]), Using(worker'[v]),
             worker'[u].sub = worker'[v].sub
      PROVE  u = v
  BY <1>0, <1>1, <1>2 DEF Sole, Sub
<1> QED
  BY <1>2 DEF Sole, Sub, Using

LEMMA TenureActs ==
  ASSUME Settling, Placed, Tenure, UNCHANGED executor, NEW w \in Workers, Acts(w)
  PROVE  Tenure'
<1>1. \A v \in Workers : v # w => Proven(v, worker[v])'
  BY ProvenOther
<1>2. Proven(w, worker[w])' /\ \A s \in Subs : Vacated(s)'
  <2>1. CASE Takes(w)
    BY <2>1, TakesTidy
  <2>2. CASE Upserts(w)
    BY <2>2, UpsertsTidy
  <2>3. CASE Closes(w)
    BY <2>3, ClosesTidy
  <2>4. CASE Begins(w)
    BY <2>4, BeginsTidy
  <2>5. CASE Records(w)
    BY <2>5, RecordsTidy
  <2>6. CASE ~Takes(w) /\ ~Upserts(w) /\ ~Closes(w) /\ ~Begins(w) /\ ~Records(w)
    <3>1. Standing /\ Proven(w, worker[w])'
      BY <2>6, ProvenStill
    <3> QED
      BY <3>1 DEF Tenure, Vacated, Touched, Standing, rows
  <2> QED
    BY <2>1, <2>2, <2>3, <2>4, <2>5, <2>6
<1>3. Sole'
  BY SoleNext
<1>4. \A v \in Workers : Proven(v, worker[v])'
  BY <1>1, <1>2
<1> QED
  BY <1>2, <1>3, <1>4 DEF Tenure

(* The steps of others. *)
LEMMA TenureElse ==
  ASSUME Settling, Placed, Tenure, UNCHANGED executor, Elsewise \/ UNCHANGED providerVars
  PROVE  Tenure'
<1>0. /\ doc \in [Subs -> Docs] /\ record \in [Subs -> Outcomes] /\ mutations \in [Subs -> Nat]
      /\ queue \in [Subs -> [owner : Workers \cup {NoWorker}, lapsed : BOOLEAN, done : BOOLEAN]]
      /\ NoWorker \notin Workers
      /\ \A v \in Workers : worker[v].pc # "idle" => Sub(v) \in Subs /\ doc[Sub(v)].life # NoDoc
      /\ \A q \in Requests : request[q].pc # "new" => request[q].sub \in Subs
      /\ TypeOK /\ WorkExists
  BY ControlPlaneAssumption DEF Placed, TypeOK, WorkExists, Exists
<1>1. /\ \A v \in Workers : Proven(v, worker[v])
      /\ Sole
      /\ \A s \in Subs : Vacated(s)
  BY DEF Tenure
<1>2. \A v \in Workers : Using(worker[v]) => Retains(v, worker[v])
  BY <1>1 DEF Proven
<1>3. UNCHANGED worker => Sole'
  BY <1>1 DEF Sole, Using, Sub
<1> SUFFICES /\ \A v \in Workers : Proven(v, worker[v])'
             /\ Sole'
             /\ \A s \in Subs : Vacated(s)'
  BY DEF Tenure
<1>4. CASE UNCHANGED <<doc, queue, record, mutations, worker>>
  <2>1. \A v \in Workers : Retains(v, worker[v])' <=> Retains(v, worker[v])
    BY <1>4 DEF Retains, Holds, Using
  <2>2. \A v \in Workers : Proven(v, worker[v])'
    BY <1>1, <1>2, <1>4, <2>1, ProvenKept
  <2> QED
    BY <1>1, <1>3, <1>4, <2>2 DEF Vacated, Touched
<1>5. ASSUME NEW s \in Subs, ClaimLapses(s)
      PROVE  /\ \A v \in Workers : Proven(v, worker[v])'
             /\ Sole'
             /\ \A o \in Subs : Vacated(o)'
  <2>1. /\ UNCHANGED <<doc, record, mutations, worker>>
        /\ queue' = [queue EXCEPT ![s].lapsed = TRUE]
        /\ queue[s].owner \in Workers /\ ~Covers(queue[s].owner, s)
    BY <1>5 DEF ClaimLapses, ghost
  <2>2. /\ \A o \in Subs : o # s => queue'[o] = queue[o]
        /\ queue'[s].owner = queue[s].owner /\ queue'[s].done = queue[s].done /\ queue'[s].lapsed
    BY <1>0, <2>1
  <2>3. ASSUME NEW v \in Workers PROVE Retains(v, worker[v])' => Retains(v, worker[v])
    BY <1>0, <2>1, <2>2, <2>3 DEF Retains, Holds, Using, Sub
  <2>4. ASSUME NEW v \in Workers, Using(worker[v]) PROVE Retains(v, worker[v])'
    <3>1. CASE Sub(v) # s
      BY <1>0, <1>2, <2>1, <2>2, <2>4, <3>1 DEF Retains, Holds, Using, Sub
    <3>2. CASE queue[Sub(v)].done
      BY <1>0, <2>1, <2>2, <2>4, <3>2 DEF Retains, Using, Sub
    <3>3. CASE Sub(v) = s /\ Holds(v, worker[v])
      BY <2>1, <2>4, <3>3 DEF Holds, Covers, Long, Using, Sub
    <3> QED
      BY <1>2, <2>4, <3>1, <3>2, <3>3 DEF Retains, Sub
  <2>5. \A v \in Workers : Proven(v, worker[v])'
    BY <1>1, <2>1, <2>3, <2>4, ProvenKept
  <2>6. \A o \in Subs : Vacated(o)'
    BY <1>1, <2>1, <2>2 DEF Vacated, Touched
  <2> QED
    BY <1>3, <2>1, <2>5, <2>6
<1>6. ASSUME NEW s \in Subs, QueueRun(s)
      PROVE  /\ \A v \in Workers : Proven(v, worker[v])'
             /\ Sole'
             /\ \A o \in Subs : Vacated(o)'
  <2>1. /\ UNCHANGED <<queue, record, mutations, worker>>
        /\ doc[s].life = NoDoc /\ \A o \in Subs : o # s => doc'[o] = doc[o]
    BY <1>0, <1>6, QueueRunTypes DEF ghost
  <2>2. ~Touched(s)
    BY <1>1, <2>1 DEF Vacated, Early
  <2>3. \A v \in Workers : Retains(v, worker[v])' <=> Retains(v, worker[v])
    BY <2>1 DEF Retains, Holds, Using
  <2>4. \A v \in Workers : Retains(v, worker[v]) => doc'[Sub(v)] = doc[Sub(v)]
    BY <1>0, <2>1 DEF Retains, Holds, Using
  <2>5. \A v \in Workers : Proven(v, worker[v])'
    BY <1>1, <1>2, <2>1, <2>3, <2>4, ProvenKept
  <2>6. \A o \in Subs : Vacated(o)'
    BY <1>1, <2>1, <2>2 DEF Vacated, Touched
  <2> QED
    BY <1>3, <2>1, <2>5, <2>6
<1>7. ASSUME NEW q \in Requests, CancelWrite(q)
      PROVE  /\ \A v \in Workers : Proven(v, worker[v])'
             /\ Sole'
             /\ \A o \in Subs : Vacated(o)'
  <2>1. /\ UNCHANGED <<queue, record, mutations, worker>>
        /\ \A o \in Subs : doc[o].life \notin Early => doc'[o].life \notin Early
    BY <1>0, <1>7, CancelRows
  <2>2. \A v \in Workers : Retains(v, worker[v])' <=> Retains(v, worker[v])
    BY <2>1 DEF Retains, Holds, Using
  <2>3. \A v \in Workers : worker[v].pc # "idle" /\ doc[Sub(v)].life \notin Early => doc'[Sub(v)].life \notin Early
    BY <1>0, <2>1
  <2>4. \A v \in Workers : Retains(v, worker[v]) => worker[v].pc # "idle"
    BY DEF Retains, Holds, Using
  <2>5. \A v \in Workers : Proven(v, worker[v])'
    BY <1>1, <1>2, <2>1, <2>2, <2>3, <2>4, ProvenKept
  <2>6. \A o \in Subs : Vacated(o)'
    BY <1>1, <2>1 DEF Vacated, Touched
  <2> QED
    BY <1>3, <2>1, <2>5, <2>6
<1>8. ASSUME NEW q \in Requests, CancelMarkDone(q)
      PROVE  /\ \A v \in Workers : Proven(v, worker[v])'
             /\ Sole'
             /\ \A o \in Subs : Vacated(o)'
  <2>1. /\ UNCHANGED <<doc, record, mutations, worker>>
        /\ request[q].sub \in Subs
        /\ queue' = [queue EXCEPT ![request[q].sub] = Done]
    BY <1>0, <1>8 DEF CancelMarkDone, ghost
  <2>2. /\ queue'[request[q].sub] = Done
        /\ \A o \in Subs : o # request[q].sub => queue'[o] = queue[o]
        /\ Done.done /\ Done.owner = NoWorker
    BY <1>0, <2>1 DEF Done
  <2>3. ASSUME NEW v \in Workers PROVE Retains(v, worker[v])' => Retains(v, worker[v])
    BY <1>0, <1>2, <2>1, <2>2, <2>3 DEF Retains, Holds, Using, Sub
  <2>4. ASSUME NEW v \in Workers, Using(worker[v]) PROVE Retains(v, worker[v])'
    BY <1>0, <1>2, <2>1, <2>2, <2>4 DEF Retains, Holds, Using, Sub
  <2>5. \A v \in Workers : Proven(v, worker[v])'
    BY <1>1, <2>1, <2>3, <2>4, ProvenKept
  <2>6. \A o \in Subs : Vacated(o)'
    BY <1>1, <2>1, <2>2 DEF Vacated, Touched
  <2> QED
    BY <1>3, <2>1, <2>5, <2>6
<1>9. LockLapses \/ (\E q \in Requests : CancelRead(q)) \/ UNCHANGED providerVars
        => UNCHANGED <<doc, queue, record, mutations, worker>>
  BY DEF LockLapses, CancelRead, providerVars, vars, rows, ghost
<1> QED
  BY <1>4, <1>5, <1>6, <1>7, <1>8, <1>9 DEF Elsewise

LEMMA TenureNext ==
  ASSUME "stall" \notin Faults, Placed, Tenure, [ProviderNext]_providerVars
  PROVE  Tenure'
<1>0. TypeOK /\ WorkExists /\ Fits /\ UNCHANGED executor
  BY ProviderCases DEF Placed
<1>1. CASE ~Settling
  BY <1>0, <1>1 DEF Tenure, Settling
<1>2. CASE Settling
  <2>1. ASSUME NEW w \in Workers, ProviderStep(w) \/ (ProviderFault(w) /\ UNCHANGED aside)
        PROVE  Tenure'
    <3>1. ~Stall(w)
      BY DEF Stall, Fault
    <3> QED
      BY <1>0, <1>2, <2>1, <3>1, WorkerActs, TenureActs
  <2> QED
    BY <1>0, <1>2, <2>1, ProviderCases, TenureElse
<1> QED
  BY <1>1, <1>2

LEMMA TenureInit == ProviderInit => Tenure
<1> SUFFICES ASSUME ProviderInit PROVE Tenure
  OBVIOUS
<1>1. /\ worker = [w \in Workers |-> Idle] /\ mutations = [s \in Subs |-> 0]
      /\ record = [s \in Subs |-> "none"]
      /\ queue = [s \in Subs |-> [owner |-> NoWorker, lapsed |-> FALSE, done |-> FALSE]]
  BY DEF ProviderInit, Init
<1>2. Idle.pc = "idle"
  BY DEF Idle
<1>3. \A w \in Workers : Proven(w, worker[w])
  BY <1>1, <1>2 DEF Proven, Drawn, Drafting, Writing, Written, AtRecord, Using, Retains, Holds
<1>4. Sole
  BY <1>1, <1>2 DEF Sole, Using
<1>5. \A s \in Subs : Vacated(s)
  BY <1>1 DEF Vacated, Touched
<1> QED
  BY <1>3, <1>4, <1>5 DEF Tenure

-----------------------------------------------------------------------------
(* As long as no worker stalls for longer than its leases, a run of        *)
(* cloudflare-pages that was found running is never executed again,        *)
(* whichever workers crash, are aborted or fail and whatever is cancelled. *)
THEOREM SettlingOnce == "stall" \notin Faults => (ProviderSpec => []SettlingExecutesOnce)
<1> SUFFICES ASSUME "stall" \notin Faults PROVE ProviderSpec => []SettlingExecutesOnce
  OBVIOUS
<1>1. ProviderInit => Placed /\ Tenure
  BY ProviderInitial, TenureInit
<1>2. Placed /\ Tenure /\ [ProviderNext]_providerVars => Placed' /\ Tenure'
  BY ProviderTypesNext, TenureNext
<1>3. Tenure => SettlingExecutesOnce
  BY DEF Tenure, Vacated, SettlingExecutesOnce, ExecutedAtMostOnce
<1> QED
  BY <1>1, <1>2, <1>3, PTL DEF ProviderSpec

LEMMA SettlingFinal ==
  ASSUME Settling, Placed, Tenure, [ProviderNext]_providerVars
  PROVE  FinalStep
<1>0. record \in [Subs -> Outcomes]
  BY DEF Placed, TypeOK
<1>1. CASE RecordsStay
  BY <1>1 DEF RecordsStay, FinalStep
<1>2. ASSUME NEW w \in Workers, Records(w) PROVE FinalStep
  <2>1. worker[w].pc = "record" /\ Sub(w) \in Subs /\ worker[w].goal = "record"
    BY <1>2, Process DEF Records, Placed, WorkExists, Exists, Fit, Route
  <2>2. Aware(worker[w])
    BY <2>1 DEF Tenure, Proven, Using
  <2>3. worker[w].result = "succeeded" => record[Sub(w)] = "none"
    BY <2>1, <2>2 DEF Aware, Ahead, AtRecord, Sub
  <2>4. \A s \in Subs : s # Sub(w) => record'[s] = record[s] /\ (stage' = s => stage = s)
    BY <1>0, <1>2 DEF Records
  <2>5. record[Sub(w)] # "none" => record'[Sub(w)] = record[Sub(w)] /\ UNCHANGED stage
    BY <1>0, <1>2, <2>1, <2>3 DEF Records, Outcomes
  <2> QED
    BY <2>4, <2>5 DEF FinalStep
<1> QED
  BY <1>1, <1>2, RecordSteps

(* However often a submission is executed again, and whatever fails after  *)
(* its record has been committed: as long as no worker stalls, the record  *)
(* stands, and a superseded run does not become current again.             *)
THEOREM RecordFinal == "stall" \notin Faults => (ProviderSpec => RecordIsFinal)
<1> SUFFICES ASSUME "stall" \notin Faults PROVE ProviderSpec => RecordIsFinal
  OBVIOUS
<1> DEFINE Base == Placed /\ Order /\ Dispatched /\ Tenure
<1>1. ProviderInit => Base
  BY ProviderInitial, TenureInit
<1>2. Base /\ [ProviderNext]_providerVars => Base'
  BY ProviderTypesNext, ProviderOrderNext, DispatchedNext, TenureNext
<1>3. Base /\ [ProviderNext]_providerVars => FinalStep
  BY DispatchedFinal, SettlingFinal
<1>4. FinalStep <=> \A s \in Subs : record[s] # "none" => record'[s] = record[s] /\ (stage' = s => stage = s)
  BY DEF FinalStep
<1> HIDE DEF Base
<1> QED
  BY <1>1, <1>2, <1>3, <1>4, PTL DEF ProviderSpec, RecordIsFinal

-----------------------------------------------------------------------------
(* Outcomes and records of cloudflare-pages.                               *)

(* The outcome a document tells of s is that of one of its records. *)
Sourced(d, s) == d.outcome # "none" => d.outcome \in RecordsOf(s)

Stated(p) ==
  /\ p.pc \notin Unread => Sourced(p.file, p.sub)
  /\ p.pc \in Drafting /\ ~AtRecord(p) => Sourced(p.next, p.sub)

Backs ==
  Settling => /\ \A s \in Subs : Sourced(doc[s], s)
              /\ \A q \in Requests : request[q].pc # "new" => Sourced(request[q].copy, request[q].sub)
              /\ \A w \in Workers : Stated(worker[w])

RecordsAfter(s) == {record'[s]} \cup (IF s \in aside' THEN {"failed"} ELSE {})

RecordsKept == \A s \in Subs : \A o \in RecordsOf(s) : o # "none" => o \in RecordsAfter(s)

LEMMA RecordsAreKept ==
  ASSUME Settling, Placed, Tenure, [ProviderNext]_providerVars
  PROVE  RecordsKept
<1>1. FinalStep
  BY SettlingFinal
<1>2. aside \subseteq aside'
  BY RecordSteps DEF RecordsStay, Records
<1> QED
  BY <1>1, <1>2 DEF FinalStep, RecordsKept, RecordsOf, RecordsAfter

(* What has been stated stays so. *)
LEMMA StatedStays ==
  ASSUME RecordsKept, NEW w \in Workers, Stated(worker'[w]), worker'[w].pc # "idle" => worker'[w].sub \in Subs
  PROVE  Stated(worker[w])'
<1> DEFINE q == worker'[w]
<1>1. q.pc \notin Unread => (q.file.outcome # "none" => q.file.outcome \in RecordsAfter(q.sub))
  BY DEF Stated, Unread, Sourced, RecordsKept
<1>2. q.pc \in Drafting /\ ~AtRecord(q) => (q.next.outcome # "none" => q.next.outcome \in RecordsAfter(q.sub))
  BY DEF Stated, Unread, Drafting, Writing, Sourced, RecordsKept
<1> QED
  BY <1>1, <1>2 DEF Stated, Sourced, AtRecord, RecordsOf, RecordsAfter

LEMMA StatedActs ==
  ASSUME Settling, Placed, Backs, NEW w \in Workers, Acts(w), ~Records(w)
  PROVE  Stated(worker'[w])
<1> DEFINE p == worker[w]
           q == worker'[w]
<1>0. /\ p.file \in Docs /\ p.next \in Docs /\ Fit(p) /\ Stated(p)
      /\ p.pc # "idle" => p.sub \in Subs /\ Sourced(doc[p.sub], p.sub)
  BY Process DEF Placed, WorkExists, Exists, Backs, Sub
<1> HIDE DEF p, q
<1> USE DEF Stated, Unread, Drafting, Writing, AtRecord
<1> SUFFICES Stated(q)
  BY DEF q
<1>1. CASE Rests(w)
  BY <1>0, <1>1 DEF Rests, Goes, Turns, p, q
<1>2. CASE Quits(w) \/ Takes(w)
  BY <1>2 DEF Quits, Takes, Idles, q
<1>3. CASE Leaves(w)
  BY <1>0, <1>3 DEF Leaves, Goes, Turns, p, q
<1>4. CASE Reads(w)
  BY <1>0, <1>4 DEF Reads, Turns, p, q, Sub
<1>5. CASE Reconciles(w)
  <2>1. PICK rec \in RecordsOf(Sub(w)) :
               LET d == Reconciled(worker[w].file, rec) IN
                 Turns(w, "assertClaim", worker[w].goal, d, d, worker[w].result)
    BY <1>5 DEF Reconciles
  <2>2. Sub(w) \in Subs /\ rec \in Outcomes
    BY <1>0, <1>5, <2>1, AllPCs DEF Reconciles, RecordsOf, Placed, TypeOK, Sub, p
  <2> DEFINE d == Reconciled(p.file, rec)
  <2>3. d.outcome \in {p.file.outcome, rec}
    BY <1>0, <2>2, ReconciledDocs
  <2>4. q.pc = "assertClaim" /\ q.file = d /\ q.next = d /\ q.sub = p.sub
    BY <2>1 DEF Turns, p, q
  <2>5. Sourced(p.file, p.sub)
    BY <1>0, <1>5 DEF Reconciles, p
  <2> HIDE DEF d
  <2> QED
    BY <2>1, <2>3, <2>4, <2>5 DEF Sourced, Sub, p
<1>6. CASE Confirms(w)
  BY <1>0, <1>6 DEF Confirms, Goes, Turns, p, q
<1>7. CASE Locks(w)
  <2>1. Run(worker[w].file).outcome = worker[w].file.outcome
    BY <1>0, NextDocs DEF p
  <2> QED
    BY <1>0, <1>7, <2>1 DEF Locks, Turns, p, q, Sourced
<1>8. CASE Drafts(w)
  BY <1>0, <1>8 DEF Drafts, Turns, p, q
<1>9. CASE Enters(w)
  BY <1>0, <1>9 DEF Enters, Goes, Turns, p, q
<1>10. CASE Commits(w)
  BY <1>0, <1>10 DEF Commits, Turns, p, q
<1>11. CASE Revalidates(w)
  <2>1. Mark(worker[w].next).outcome = worker[w].next.outcome
    BY <1>0, NextDocs DEF p
  <2> QED
    BY <1>0, <1>11, <2>1 DEF Revalidates, Turns, p, q, Sourced
<1>12. CASE Publishes(w) \/ Begins(w)
  BY <1>0, <1>12 DEF Publishes, Begins, Goes, Turns, p, q
<1>13. CASE PutsBack(w)
  BY <1>0, <1>13 DEF PutsBack, Turns, p, q
<1>14. CASE Upserts(w) \/ Closes(w)
  BY <1>0, <1>14 DEF Upserts, Closes, Resumes, Goes, Turns, Idles, p, q
<1> QED
  BY <1>1, <1>2, <1>3, <1>4, <1>5, <1>6, <1>7, <1>8, <1>9, <1>10, <1>11, <1>12, <1>13, <1>14
     DEF Acts, GivesUp

LEMMA BacksActs ==
  ASSUME Settling, Placed, Tenure, Backs, [ProviderNext]_providerVars, UNCHANGED request,
         NEW w \in Workers, Acts(w)
  PROVE  Backs'
<1>0. /\ TypeOK /\ WorkExists /\ Fits /\ UNCHANGED executor /\ RecordsKept
      /\ doc \in [Subs -> Docs] /\ record \in [Subs -> Outcomes]
      /\ Fit(worker'[w]) /\ \A v \in Workers : v # w => worker'[v] = worker[v]
      /\ \A q \in Requests : request[q].pc # "new" => request[q].sub \in Subs
      /\ \A v \in Workers : worker[v].pc # "idle" => Sub(v) \in Subs
  BY RecordsAreKept, ProviderCases, ActsFit DEF Placed, TypeOK, Others, WorkExists, Exists
<1>1. /\ \A s \in Subs : Sourced(doc[s], s)
      /\ \A q \in Requests : request[q].pc # "new" => Sourced(request[q].copy, request[q].sub)
      /\ \A v \in Workers : Stated(worker[v])
  BY DEF Backs
<1>2. \A s \in Subs : Sourced(doc'[s], s)
  <2>1. CASE Upserts(w)
    <3>1. Sub(w) \in Subs /\ Sourced(worker[w].next, Sub(w))
          /\ doc' = [doc EXCEPT ![Sub(w)] = worker[w].next]
      BY <1>0, <1>1, <2>1 DEF Upserts, Stated, Drafting, Writing, AtRecord, Sub
    <3>2. doc'[Sub(w)] = worker[w].next /\ \A o \in Subs : o # Sub(w) => doc'[o] = doc[o]
      BY <1>0, <3>1
    <3> QED
      BY <1>1, <3>1, <3>2
  <2>2. CASE ~Upserts(w)
    <3>1. UNCHANGED doc
      BY <2>2, StillActs DEF Standing, Takes, Closes, Begins, Records, rows
    <3> QED
      BY <1>1, <3>1
  <2> QED
    BY <2>1, <2>2
<1>3. \A s \in Subs : Sourced(doc[s], s)'
  BY <1>0, <1>2 DEF Sourced, RecordsKept, RecordsOf, RecordsAfter
<1>4. \A q \in Requests : request'[q].pc # "new" => Sourced(request[q].copy, request[q].sub)'
  BY <1>0, <1>1 DEF Sourced, RecordsKept, RecordsOf, RecordsAfter
<1>5. ASSUME NEW v \in Workers, v # w PROVE Stated(worker[v])'
  BY <1>0, <1>1, <1>5, StatedStays DEF Sub
<1>6. Stated(worker[w])'
  <2>1. CASE ~Records(w)
    BY <1>0, <2>1, StatedActs, StatedStays DEF Fit
  <2>2. CASE Records(w)
    <3> DEFINE p == worker[w]
               q == worker'[w]
    <3>1. /\ p.pc = "record" /\ p.sub \in Subs /\ Fit(p) /\ p.result \in Outcomes
          /\ q.pc = "assert" /\ q.goal = "settled" /\ q.sub = p.sub
          /\ q.file = p.file /\ q.next = p.next
      BY <1>0, <2>2, Process DEF Records, Goes, Turns, Sub
    <3>2. p.next.outcome = p.result /\ p.result # "none"
      <4>1. Drawn(p)
        BY DEF Tenure, Proven
      <4> QED
        BY <3>1, <4>1 DEF Drawn, AtRecord, Fit, Route
    <3>3. p.next.outcome \in RecordsAfter(p.sub)
      BY <1>0, <2>2, <3>1, <3>2 DEF Records, RecordsAfter, Sub, Outcomes
    <3>4. p.file.outcome # "none" => p.file.outcome \in RecordsAfter(p.sub)
      BY <1>0, <1>1, <3>1 DEF Stated, Sourced, RecordsKept, Unread
    <3>5. /\ q.file.outcome # "none" => q.file.outcome \in RecordsAfter(q.sub)
          /\ q.next.outcome \in RecordsAfter(q.sub)
      BY <3>1, <3>3, <3>4
    <3> QED
      BY <3>5 DEF Stated, Sourced, RecordsOf, RecordsAfter
  <2> QED
    BY <2>1, <2>2
<1> QED
  BY <1>0, <1>3, <1>4, <1>5, <1>6 DEF Backs

LEMMA BacksElse ==
  ASSUME Settling, Placed, Tenure, Backs, [ProviderNext]_providerVars,
         (Elsewise /\ UNCHANGED aside) \/ UNCHANGED providerVars
  PROVE  Backs'
<1>0. /\ TypeOK /\ WorkExists /\ UNCHANGED executor
      /\ doc \in [Subs -> Docs]
      /\ request \in [Requests -> [pc : {"new", "read", "written", "done"},
                                   sub : Subs \cup {0}, copy : Docs]]
  BY ProviderCases DEF Placed, TypeOK
<1>1. /\ \A s \in Subs : Sourced(doc[s], s)
      /\ \A q \in Requests : request[q].pc # "new" => Sourced(request[q].copy, request[q].sub)
      /\ \A v \in Workers : Stated(worker[v])
  BY DEF Backs
<1>2. UNCHANGED <<record, aside, worker>>
  BY <1>0, QueueRunTypes DEF Elsewise, ClaimLapses, LockLapses, CancelRead, CancelWrite,
     CancelMarkDone, providerVars, vars, rows
<1>3. \A v \in Workers : Stated(worker[v])'
  BY <1>1, <1>2 DEF Stated, Sourced, RecordsOf, AtRecord
<1> SUFFICES /\ \A s \in Subs : Sourced(doc'[s], s)
             /\ \A q \in Requests : request'[q].pc # "new" => Sourced(request'[q].copy, request'[q].sub)
  BY <1>2, <1>3 DEF Backs, Sourced, RecordsOf
<1>4. CASE UNCHANGED <<doc, request>>
  BY <1>1, <1>4
<1>5. ASSUME NEW s \in Subs, QueueRun(s)
      PROVE  /\ \A o \in Subs : Sourced(doc'[o], o)
             /\ \A q \in Requests : request'[q].pc # "new" => Sourced(request'[q].copy, request'[q].sub)
  <2>1. /\ UNCHANGED request /\ doc'[s].outcome = doc[s].outcome
        /\ \A o \in Subs : o # s => doc'[o] = doc[o]
    BY <1>0, <1>5, QueueRunTypes
  <2> QED
    BY <1>1, <2>1 DEF Sourced
<1>6. ASSUME NEW q \in Requests, CancelRead(q)
      PROVE  /\ \A o \in Subs : Sourced(doc'[o], o)
             /\ \A r \in Requests : request'[r].pc # "new" => Sourced(request'[r].copy, request'[r].sub)
  <2>1. PICK s \in Subs :
               request' = [request EXCEPT ![q] = [pc |-> "read", sub |-> s, copy |-> doc[s]]]
    BY <1>6 DEF CancelRead, Submitted
  <2>2. /\ request'[q].sub = s /\ request'[q].copy = doc[s]
        /\ \A r \in Requests : r # q => request'[r] = request[r]
    BY <1>0, <2>1
  <2>3. UNCHANGED doc
    BY <1>6 DEF CancelRead, rows
  <2> QED
    BY <1>1, <2>2, <2>3
<1>7. ASSUME NEW q \in Requests, CancelWrite(q)
      PROVE  /\ \A o \in Subs : Sourced(doc'[o], o)
             /\ \A r \in Requests : request'[r].pc # "new" => Sourced(request'[r].copy, request'[r].sub)
  <2> DEFINE s == request[q].sub
             d == CancelledDoc(request[q].copy)
  <2>1. /\ s \in Subs /\ d.outcome = request[q].copy.outcome
        /\ doc' = [doc EXCEPT ![s] = d]
        /\ request[q].pc = "read" /\ request'[q].copy = Blank
        /\ \A o \in Requests : o # q => request'[o] = request[o]
    BY <1>7, CancelRows DEF Exists
  <2>2. Sourced(d, s)
    BY <1>1, <2>1 DEF Sourced
  <2> HIDE DEF d
  <2>3. \A o \in Subs : Sourced(doc'[o], o)
    BY <1>0, <1>1, <2>1, <2>2
  <2>4. Blank.outcome = "none"
    BY DEF Blank
  <2>5. Sourced(request'[q].copy, request'[q].sub)
    BY <2>1, <2>4 DEF Sourced
  <2> QED
    BY <1>1, <2>1, <2>3, <2>5
<1>8. ASSUME NEW q \in Requests, CancelMarkDone(q)
      PROVE  /\ \A o \in Subs : Sourced(doc'[o], o)
             /\ \A r \in Requests : request'[r].pc # "new" => Sourced(request'[r].copy, request'[r].sub)
  <2>1. /\ UNCHANGED doc /\ request[q].pc # "new"
        /\ request' = [request EXCEPT ![q].pc = "done"]
    BY <1>8 DEF CancelMarkDone
  <2>2. \A r \in Requests : /\ request'[r].copy = request[r].copy /\ request'[r].sub = request[r].sub
                            /\ request'[r].pc # "new" => request[r].pc # "new"
    BY <1>0, <2>1
  <2> QED
    BY <1>1, <2>1, <2>2
<1>9. LockLapses \/ (\E s \in Subs : ClaimLapses(s)) \/ UNCHANGED providerVars
        => UNCHANGED <<doc, request>>
  BY DEF LockLapses, ClaimLapses, providerVars, vars, rows
<1> QED
  BY <1>4, <1>5, <1>6, <1>7, <1>8, <1>9 DEF Elsewise

LEMMA BacksNext ==
  ASSUME "stall" \notin Faults, Placed, Tenure, Backs, [ProviderNext]_providerVars
  PROVE  Backs'
<1>0. TypeOK /\ WorkExists /\ Fits /\ UNCHANGED executor
  BY ProviderCases DEF Placed
<1>1. CASE ~Settling
  BY <1>0, <1>1 DEF Backs, Settling
<1>2. CASE Settling
  <2>1. ASSUME NEW w \in Workers, ProviderStep(w) \/ (ProviderFault(w) /\ UNCHANGED aside)
        PROVE  Backs'
    <3>1. ~Stall(w)
      BY DEF Stall, Fault
    <3>2. UNCHANGED request
      BY <1>0, <2>1, StepsSpare
    <3> QED
      BY <1>0, <1>2, <2>1, <3>1, <3>2, WorkerActs, BacksActs
  <2> QED
    BY <1>2, <2>1, ProviderCases, BacksElse
<1> QED
  BY <1>1, <1>2

LEMMA BacksInit == ProviderInit => Backs
<1> SUFFICES ASSUME ProviderInit PROVE Backs
  OBVIOUS
<1>1. /\ worker = [w \in Workers |-> Idle] /\ doc = [s \in Subs |-> Blank]
      /\ request = [q \in Requests |-> [pc |-> "new", sub |-> 0, copy |-> Blank]]
  BY DEF ProviderInit, Init
<1>2. Idle.pc = "idle" /\ Blank.outcome = "none"
  BY DEF Idle, Blank
<1>3. \A w \in Workers : Stated(worker[w])
  BY <1>1, <1>2 DEF Stated, Unread, Drafting, Writing
<1> QED
  BY <1>1, <1>2, <1>3 DEF Backs, Sourced

(* A cloudflare-pages run ends with the outcome of one of its records,     *)
(* whoever ends it and whatever fails, as long as no worker stalls.        *)
THEOREM Settled == "stall" \notin Faults => (ProviderSpec => []SettledByRecord)
<1> SUFFICES ASSUME "stall" \notin Faults PROVE ProviderSpec => []SettledByRecord
  OBVIOUS
<1> DEFINE Base == Placed /\ Tenure /\ Backs
<1>1. ProviderInit => Base
  BY ProviderInitial, TenureInit, BacksInit
<1>2. Base /\ [ProviderNext]_providerVars => Base'
  BY ProviderTypesNext, TenureNext, BacksNext
<1>3. Base => SettledByRecord
  BY DEF Backs, Sourced, SettledByRecord
<1> HIDE DEF Base
<1> QED
  BY <1>1, <1>2, <1>3, PTL DEF ProviderSpec
=============================================================================
