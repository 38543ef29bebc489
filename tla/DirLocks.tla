------------------------------ MODULE DirLocks ------------------------------
(***************************************************************************)
(* The locks of local commands: a directory, made by mkdir, in which its   *)
(* maker writes an owner file by a later call.  Four pieces of code do so: *)
(*                                                                         *)
(*   "install"    withExclusiveInstallLock, dev/install/lock.ts            *)
(*   "isolation"  lib/shared-buck-isolation-lock.ts                        *)
(*   "verify"     acquireVerifyLock, dev/verify/lock.ts                    *)
(*   "store"      acquireControlPlaneLock of the local file store          *)
(*                                                                         *)
(* They differ in when a directory counts as stale.  The first two wait    *)
(* for a grace before they take a directory without an owner file for      *)
(* abandoned, the others remove it at once.  A process removes what it     *)
(* found stale by path: the directory may be another one by then.          *)
(***************************************************************************)
EXTENDS Naturals, FiniteSets

CONSTANTS Procs,       \* processes, each asks for the lock once
          Kinds,       \* the kinds of lock this instance looks at
          Nobody,      \* the owner of a directory without an owner file
          MaxFaults    \* how many deaths, reused pids and stalls

ASSUME DirAssumption ==
  /\ Nobody \notin Procs
  /\ Kinds \subseteq {"install", "isolation", "verify", "store"}
  /\ MaxFaults \in Nat

Patient == {"install", "isolation"}    \* an ownerless directory has a grace
Signed  == {"isolation", "verify"}     \* the owner file tells pids apart

VARIABLES
  kind,      \* the code all processes run
  there,     \* does the directory exist
  owner,     \* whom the owner file in it names
  old,       \* is the grace of the directory, or the owner's lease, over
  pc,        \* where each process is
  beat,      \* store: heartbeats between their read and their write
  reused,    \* dead processes whose pid another program has now
  faults

vars == <<kind, there, owner, old, pc, beat, reused, faults>>

Steps == {"idle", "try", "look", "clear", "emptied", "again", "made", "named",
          "in", "leaving", "left", "done", "dead"}

TypeOK ==
  /\ kind \in Kinds
  /\ there \in BOOLEAN
  /\ owner \in Procs \cup {Nobody}
  /\ old \in BOOLEAN
  /\ pc \in [Procs -> Steps]
  /\ beat \in [Procs -> BOOLEAN]
  /\ reused \subseteq Procs
  /\ faults \in 0..MaxFaults
  /\ ~there => owner = Nobody

Init ==
  /\ kind \in Kinds
  /\ there = FALSE /\ owner = Nobody /\ old = FALSE
  /\ pc = [p \in Procs |-> "idle"]
  /\ beat = [p \in Procs |-> FALSE]
  /\ reused = {}
  /\ faults = 0

Inside == {p \in Procs : pc[p] = "in"}

-----------------------------------------------------------------------------
(* What a process makes of the directory it could not create.              *)

\* Mutant of Gone: the start signature is not compared.
GoneByPid(q) == pc[q] = "dead" /\ q \notin reused

\* process.kill(pid, 0), and the start signature where one is kept
Gone(q) == pc[q] = "dead" /\ (kind \in Signed \/ q \notin reused)

\* Mutant of Stale: a directory without an owner file has no grace.
HastilyStale ==
  IF owner = Nobody THEN kind \in Patient => there
                    ELSE Gone(owner) \/ (kind = "store" /\ old)

Stale ==
  IF owner = Nobody THEN kind \in Patient => there /\ old
                    ELSE Gone(owner) \/ (kind = "store" /\ old)

-----------------------------------------------------------------------------
Goto(p, step) == pc' = [pc EXCEPT ![p] = step]

Ask(p) ==
  /\ pc[p] = "idle"
  /\ Goto(p, "try")
  /\ UNCHANGED <<kind, there, owner, old, beat, reused, faults>>

\* mkdir creates the directory, or fails because it exists.
MakeDir(p) ==
  /\ pc[p] \in {"try", "again"} /\ ~there
  /\ there' = TRUE /\ old' = FALSE
  /\ Goto(p, "made")
  /\ UNCHANGED <<kind, owner, beat, reused, faults>>

\* verify tries twice, before and after it has removed a stale directory.
FindDir(p) ==
  /\ pc[p] \in {"try", "again"} /\ there
  /\ Goto(p, IF pc[p] = "try" THEN "look" ELSE "done")
  /\ UNCHANGED <<kind, there, owner, old, beat, reused, faults>>

\* The owner file of a directory that is gone: verify and the store make the
\* directory once more, for the others the write fails and the command ends.
WriteOwner(p) ==
  /\ pc[p] = "made"
  /\ IF there \/ kind \notin Patient
       THEN /\ there' = TRUE /\ owner' = p /\ old' = FALSE
            /\ Goto(p, IF kind = "store" THEN "named" ELSE "in")
       ELSE Goto(p, "done") /\ UNCHANGED <<there, owner, old>>
  /\ UNCHANGED <<kind, beat, reused, faults>>

\* The store asks for an abort reason once more before it goes on.
Proceed(p) ==
  /\ pc[p] = "named"
  /\ Goto(p, "in")
  /\ UNCHANGED <<kind, there, owner, old, beat, reused, faults>>

Withdraw(p) ==
  /\ pc[p] = "named"
  /\ Goto(p, "leaving")
  /\ UNCHANGED <<kind, there, owner, old, beat, reused, faults>>

-----------------------------------------------------------------------------
Judge(p) ==
  /\ pc[p] = "look"
  /\ Goto(p, IF Stale THEN "clear" ELSE IF kind = "verify" THEN "done" ELSE "try")
  /\ UNCHANGED <<kind, there, owner, old, beat, reused, faults>>

\* The deadline passes; the store may also find a reason to abort.
GiveUp(p) ==
  /\ \/ pc[p] = "look" /\ ~Stale /\ kind # "verify"
     \/ pc[p] = "try" /\ kind = "store"
  /\ Goto(p, "done")
  /\ UNCHANGED <<kind, there, owner, old, beat, reused, faults>>

\* rm, recursive: the owner file first, the directory then, unless another
\* process has written an owner file into it meanwhile.
Empty(p) ==
  /\ pc[p] \in {"clear", "leaving"}
  /\ owner' = Nobody
  /\ old' = IF owner = Nobody THEN old ELSE FALSE
  /\ Goto(p, IF pc[p] = "clear" THEN "emptied" ELSE "left")
  /\ UNCHANGED <<kind, there, beat, reused, faults>>

RemoveDir(p) ==
  /\ pc[p] \in {"emptied", "left"}
  /\ there' = (owner # Nobody)
  /\ Goto(p, IF pc[p] = "left" \/ (kind = "store" /\ there') THEN "done"
             ELSE IF kind = "verify" THEN "again" ELSE "try")
  /\ UNCHANGED <<kind, owner, old, beat, reused, faults>>

-----------------------------------------------------------------------------
\* Mutant of Leave: only an owner that still finds itself named removes it.
LeaveWithoutRemoval(p) ==
  /\ pc[p] = "in"
  /\ Goto(p, IF owner = p /\ kind = "store" THEN "leaving" ELSE "done")
  /\ UNCHANGED <<kind, there, owner, old, beat, reused, faults>>

\* The section ends.  Only the store looks whose lock it is to remove.
Leave(p) ==
  /\ pc[p] = "in"
  /\ Goto(p, IF kind = "store" /\ owner # p THEN "done" ELSE "leaving")
  /\ UNCHANGED <<kind, there, owner, old, beat, reused, faults>>

\* install: the heartbeat writes its file into whatever directory is there.
Beat(p) ==
  /\ kind = "install" /\ pc[p] = "in" /\ there
  /\ owner' = p /\ old' = FALSE
  /\ UNCHANGED <<kind, there, pc, beat, reused, faults>>

\* store: the heartbeat reads the owner first, and creates what is missing.
BeatReads(p) ==
  /\ kind = "store" /\ pc[p] = "in" /\ owner = p /\ ~old
  /\ beat' = [beat EXCEPT ![p] = TRUE]
  /\ UNCHANGED <<kind, there, owner, old, pc, reused, faults>>

BeatWrites(p) ==
  /\ beat[p]
  /\ there' = TRUE /\ owner' = p /\ old' = FALSE
  /\ beat' = [beat EXCEPT ![p] = FALSE]
  /\ UNCHANGED <<kind, pc, reused, faults>>

-----------------------------------------------------------------------------
(* Time and faults.                                                        *)

\* What the clock can outlive: the grace, and the lease of the store.
Ageing ==
  /\ there /\ ~old
  /\ IF owner = Nobody THEN kind \in Patient ELSE kind = "store"
  /\ old' = TRUE

\* A process at work writes its owner file, or removes the directory, within
\* the grace, and renews its lease.
Lapse ==
  /\ IF owner = Nobody THEN \A p \in Procs : pc[p] \notin {"made", "emptied", "left"}
                       ELSE pc[owner] \notin {"named", "in"}
  /\ Ageing
  /\ UNCHANGED <<kind, there, owner, pc, beat, reused, faults>>

Fault == faults < MaxFaults /\ faults' = faults + 1

\* A process is suspended past the grace or its lease.
Stall ==
  /\ Fault /\ Ageing
  /\ UNCHANGED <<kind, there, owner, pc, beat, reused>>

Die(p) ==
  /\ Fault
  /\ pc[p] \notin {"idle", "dead"}
  /\ Goto(p, "dead")
  /\ beat' = [beat EXCEPT ![p] = FALSE]
  /\ UNCHANGED <<kind, there, owner, old, reused>>

ReusePid(p) ==
  /\ Fault
  /\ pc[p] = "dead" /\ p \notin reused
  /\ reused' = reused \cup {p}
  /\ UNCHANGED <<kind, there, owner, old, pc, beat>>

\* The program ends some time after it has left the section.
Exit(p) ==
  /\ pc[p] = "done" /\ ~beat[p]
  /\ Goto(p, "dead")
  /\ UNCHANGED <<kind, there, owner, old, beat, reused, faults>>

-----------------------------------------------------------------------------
OwnStep(p) ==
  \/ MakeDir(p) \/ FindDir(p) \/ WriteOwner(p) \/ Proceed(p)
  \/ Judge(p) \/ Empty(p) \/ RemoveDir(p)
  \/ Leave(p) \/ Exit(p)

Next ==
  \/ \E p \in Procs :
       \/ OwnStep(p)
       \/ Ask(p) \/ Withdraw(p) \/ GiveUp(p)
       \/ Beat(p) \/ BeatReads(p) \/ BeatWrites(p)
       \/ Die(p) \/ ReusePid(p)
  \/ Lapse \/ Stall

Spec == Init /\ [][Next]_vars

\* Calls return, sections end and clocks go on; nobody need give up.
FairSpec ==
  /\ Spec
  /\ WF_vars(Lapse)
  /\ \A p \in Procs : WF_vars(OwnStep(p)) /\ WF_vars(BeatWrites(p))

-----------------------------------------------------------------------------
(* While nobody dies or stalls, the locks that grant a grace admit one     *)
(* process at a time, although every waiter may judge the directory at any *)
(* step of its maker or remover.  (The other two admit several even then.) *)
Exclusive ==
  (kind \in Patient /\ faults = 0) => \A p, q \in Inside : p = q

(* No process leaves a directory behind: once all have come and gone in    *)
(* peace the lock is free, whatever order their removals took and whoever  *)
(* gave up.  (A late heartbeat of the store puts a directory back.)        *)
LeavesNothing ==
  (/\ faults = 0 /\ kind # "store"
   /\ \A p \in Procs : pc[p] \in {"idle", "done", "dead"}) => ~there

(* Whoever asks is answered without its deadline, dead owners, half        *)
(* removed directories, late heartbeats and reused pids notwithstanding.   *)
(* Only the install lock knows an owner by nothing but its pid.            *)
AskedIsAnswered ==
  (kind = "install" => [](reused = {})) =>
    \A p \in Procs : pc[p] = "try" ~> pc[p] \in {"in", "done", "dead"}

=============================================================================
