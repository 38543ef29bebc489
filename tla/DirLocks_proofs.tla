--------------------------- MODULE DirLocks_proofs ---------------------------
(***************************************************************************)
(* Proofs about the directory locks: types, the exclusion of the locks     *)
(* that grant a grace, and that nobody leaves a directory behind, for any  *)
(* number of processes.                                                    *)
(***************************************************************************)
EXTENDS DirLocks, TLAPS

(* Whoever has made a directory and not finished its removal.              *)
Holders == {p \in Procs : pc[p] \in {"made", "in", "leaving", "left"}}

\* Only the store stops between its owner file and its section, and only its
\* heartbeat between the read and the write.
NamedIsStore == (\E p \in Procs : pc[p] = "named" \/ beat[p]) => kind = "store"

\* The owner file names a process that will still remove it.
OwnerWorks == owner # Nobody => pc[owner] \in {"in", "leaving"}

\* A directory has a process that will still remove it.
Kept == there => Holders # {}

Single == \A p, q \in Holders : p = q

\* A holder's directory is there, and its owner file once it is written.
HoldersKeep ==
  \A p \in Holders : there /\ (pc[p] \in {"in", "leaving"} => owner = p)

\* No grace is ever over, so nobody finds anything stale.
Calm == ~old /\ \A p \in Procs : pc[p] \notin {"clear", "emptied"}

IInv ==
  /\ TypeOK
  /\ NamedIsStore
  /\ (faults = 0 /\ kind # "store") => OwnerWorks /\ Kept
  /\ (faults = 0 /\ kind \in Patient) => Single /\ HoldersKeep /\ Calm

-----------------------------------------------------------------------------
(* Types.                                                                  *)

LEMMA TypesKept ==
  ASSUME TypeOK, [Next]_vars
  PROVE  TypeOK'
<1> USE DirAssumption
<1>1. ASSUME NEW p \in Procs, OwnStep(p)
      PROVE  TypeOK'
  BY <1>1 DEF OwnStep, MakeDir, FindDir, WriteOwner, Proceed, Judge, Empty, RemoveDir,
              Leave, Exit, Goto, TypeOK, Steps
<1>2. ASSUME NEW p \in Procs,
             Ask(p) \/ Withdraw(p) \/ GiveUp(p) \/ Beat(p) \/ BeatReads(p) \/ BeatWrites(p)
      PROVE  TypeOK'
  BY <1>2 DEF Ask, Withdraw, GiveUp, Beat, BeatReads, BeatWrites, Goto, TypeOK, Steps
<1>3. ASSUME NEW p \in Procs, Die(p)
      PROVE  TypeOK'
  <2>1. faults' \in 0..MaxFaults
    BY <1>3 DEF Die, Fault, TypeOK
  <2>2. pc' \in [Procs -> Steps] /\ beat' \in [Procs -> BOOLEAN]
    BY <1>3 DEF Die, Goto, TypeOK, Steps
  <2> QED
    BY <1>3, <2>1, <2>2 DEF Die, TypeOK
<1>4. ASSUME NEW p \in Procs, ReusePid(p)
      PROVE  TypeOK'
  <2>1. faults' \in 0..MaxFaults
    BY <1>4 DEF ReusePid, Fault, TypeOK
  <2> QED
    BY <1>4, <2>1 DEF ReusePid, TypeOK
<1>5. ASSUME Lapse \/ Stall
      PROVE  TypeOK'
  <2>1. faults' \in 0..MaxFaults
    BY <1>5 DEF Lapse, Stall, Fault, TypeOK
  <2> QED
    BY <1>5, <2>1 DEF Lapse, Stall, Ageing, TypeOK
<1>6. CASE UNCHANGED vars
  BY <1>6 DEF vars, TypeOK, Steps
<1> QED
  BY <1>1, <1>2, <1>3, <1>4, <1>5, <1>6 DEF Next

LEMMA NamedKept ==
  ASSUME TypeOK, NamedIsStore, [Next]_vars
  PROVE  NamedIsStore'
<1> USE DEF NamedIsStore
<1>1. ASSUME NEW p \in Procs, OwnStep(p)
      PROVE  NamedIsStore'
  BY <1>1 DEF OwnStep, MakeDir, FindDir, WriteOwner, Proceed, Judge, Empty, RemoveDir,
              Leave, Exit, Goto, TypeOK
<1>2. ASSUME NEW p \in Procs, Ask(p) \/ Withdraw(p) \/ GiveUp(p)
      PROVE  NamedIsStore'
  BY <1>2 DEF Ask, Withdraw, GiveUp, Goto, TypeOK
<1>3. ASSUME NEW p \in Procs, Beat(p) \/ BeatReads(p) \/ BeatWrites(p)
      PROVE  NamedIsStore'
  BY <1>3 DEF Beat, BeatReads, BeatWrites, TypeOK
<1>4. ASSUME NEW p \in Procs, Die(p) \/ ReusePid(p)
      PROVE  NamedIsStore'
  BY <1>4 DEF Die, ReusePid, Goto, TypeOK
<1>5. ASSUME Lapse \/ Stall \/ UNCHANGED vars
      PROVE  NamedIsStore'
  BY <1>5 DEF Lapse, Stall, vars
<1> QED
  BY <1>1, <1>2, <1>3, <1>4, <1>5 DEF Next

-----------------------------------------------------------------------------
(* In peace: a step that is no fault.                                      *)

LEMMA FaultsCount ==
  ASSUME TypeOK, [Next]_vars, faults' = 0
  PROVE  /\ faults = 0 /\ kind' = kind
         /\ ~Stall /\ \A p \in Procs : ~Die(p) /\ ~ReusePid(p)
<1> USE DirAssumption
<1>1. Fault => faults' # 0
  BY DEF Fault, TypeOK
<1>2. ~Stall /\ \A p \in Procs : ~Die(p) /\ ~ReusePid(p)
  BY <1>1 DEF Stall, Die, ReusePid
<1>3. ASSUME NEW p \in Procs, OwnStep(p)
      PROVE  faults' = faults /\ kind' = kind
  BY <1>3 DEF OwnStep, MakeDir, FindDir, WriteOwner, Proceed, Judge, Empty, RemoveDir,
              Leave, Exit
<1>4. ASSUME NEW p \in Procs,
             Ask(p) \/ Withdraw(p) \/ GiveUp(p) \/ Beat(p) \/ BeatReads(p) \/ BeatWrites(p)
      PROVE  faults' = faults /\ kind' = kind
  BY <1>4 DEF Ask, Withdraw, GiveUp, Beat, BeatReads, BeatWrites
<1>5. ASSUME Lapse \/ UNCHANGED vars
      PROVE  faults' = faults /\ kind' = kind
  BY <1>5 DEF Lapse, vars
<1> QED
  BY <1>2, <1>3, <1>4, <1>5 DEF Next

LEMMA WorkersKept ==
  ASSUME TypeOK, OwnerWorks, Kept, kind # "store",
         NEW p \in Procs,
         OwnStep(p) \/ Ask(p) \/ Withdraw(p) \/ GiveUp(p) \/ Beat(p) \/ BeatReads(p)
  PROVE  OwnerWorks' /\ Kept'
<1> USE DirAssumption DEF OwnerWorks, Kept, Holders, TypeOK, Goto
<1>1. ASSUME MakeDir(p) \/ WriteOwner(p) \/ Beat(p)
      PROVE  OwnerWorks' /\ Kept'
  BY <1>1 DEF MakeDir, WriteOwner, Beat
<1>2. ASSUME FindDir(p) \/ Judge(p) \/ Ask(p) \/ GiveUp(p) \/ Exit(p)
      PROVE  OwnerWorks' /\ Kept'
  BY <1>2 DEF FindDir, Judge, Ask, GiveUp, Exit
<1>3. ASSUME Empty(p)
      PROVE  OwnerWorks' /\ Kept'
  BY <1>3 DEF Empty
<1>4. ASSUME RemoveDir(p)
      PROVE  OwnerWorks' /\ Kept'
  BY <1>4 DEF RemoveDir
<1>5. ASSUME Leave(p) \/ Withdraw(p) \/ Proceed(p)
      PROVE  OwnerWorks' /\ Kept'
  BY <1>5 DEF Leave, Withdraw, Proceed
<1> QED
  BY <1>1, <1>2, <1>3, <1>4, <1>5 DEF OwnStep, BeatReads

LEMMA PeaceKept ==
  ASSUME TypeOK, NamedIsStore, OwnerWorks, Kept, Single, HoldersKeep, Calm,
         kind \in Patient, NEW p \in Procs,
         OwnStep(p) \/ Ask(p) \/ Withdraw(p) \/ GiveUp(p) \/ Beat(p) \/ BeatReads(p)
  PROVE  Single' /\ HoldersKeep' /\ Calm'
<1> USE DirAssumption DEF Single, HoldersKeep, Calm, Holders, TypeOK, Goto
<1>1. pc[p] # "named" /\ kind \notin {"store", "verify"}
  BY DEF NamedIsStore, Patient
<1>2. ASSUME MakeDir(p)
      PROVE  Single' /\ HoldersKeep' /\ Calm'
  <2>1. Holders = {}
    BY <1>2 DEF MakeDir
  <2> QED
    BY <1>2, <2>1 DEF MakeDir
<1>3. ASSUME WriteOwner(p)
      PROVE  Single' /\ HoldersKeep' /\ Calm'
  BY <1>1, <1>3 DEF WriteOwner
<1>4. ASSUME FindDir(p) \/ Ask(p) \/ GiveUp(p) \/ Exit(p)
      PROVE  Single' /\ HoldersKeep' /\ Calm'
  BY <1>4 DEF FindDir, Ask, GiveUp, Exit
<1>5. ASSUME Judge(p)
      PROVE  Single' /\ HoldersKeep' /\ Calm'
  <2>1. ~Stale
    BY <1>1 DEF Stale, Gone, OwnerWorks
  <2> QED
    BY <1>1, <1>5, <2>1 DEF Judge
<1>6. ASSUME Empty(p)
      PROVE  Single' /\ HoldersKeep' /\ Calm'
  BY <1>6 DEF Empty
<1>7. ASSUME RemoveDir(p)
      PROVE  Single' /\ HoldersKeep' /\ Calm'
  <2>1. pc[p] = "left" /\ p \in Holders
    BY <1>7 DEF RemoveDir
  <2>2. Goto(p, "done") /\ UNCHANGED <<owner, old>>
    BY <1>7, <2>1 DEF RemoveDir
  <2>3. \A q \in Procs : q # p => pc'[q] = pc[q] /\ q \notin Holders
    BY <2>1, <2>2
  <2>4. pc'[p] = "done"
    BY <2>2
  <2>5. Holders' = {}
    BY <2>3, <2>4
  <2> QED
    BY <2>2, <2>3, <2>4, <2>5
<1>8. ASSUME Leave(p) \/ Withdraw(p) \/ Proceed(p)
      PROVE  Single' /\ HoldersKeep' /\ Calm'
  BY <1>1, <1>8 DEF Leave, Withdraw, Proceed
<1>9. ASSUME Beat(p)
      PROVE  Single' /\ HoldersKeep' /\ Calm'
  BY <1>9 DEF Beat
<1> QED
  <2> HIDE DEF Single, HoldersKeep, Calm, Holders, TypeOK, Goto
  <2>1. CASE OwnStep(p) \/ Ask(p) \/ Withdraw(p) \/ GiveUp(p) \/ Beat(p)
    BY <1>2, <1>3, <1>4, <1>5, <1>6, <1>7, <1>8, <1>9, <2>1 DEF OwnStep
  <2>2. ~BeatReads(p)
    BY <1>1 DEF BeatReads
  <2> QED
    BY <2>1, <2>2

-----------------------------------------------------------------------------
LEMMA InitIInv == Init => IInv
<1> SUFFICES ASSUME Init PROVE IInv
  OBVIOUS
<1>1. TypeOK
  <2>1. faults \in 0..MaxFaults
    BY DirAssumption DEF Init
  <2>2. pc \in [Procs -> Steps] /\ beat \in [Procs -> BOOLEAN]
    BY DEF Init, Steps
  <2> QED
    BY <2>1, <2>2 DEF Init, TypeOK
<1>2. \A p \in Procs : pc[p] = "idle" /\ ~beat[p]
  BY DEF Init
<1>3. NamedIsStore
  BY <1>2 DEF NamedIsStore
<1>4. Holders = {} /\ OwnerWorks /\ Kept
  BY <1>2 DEF Init, Holders, OwnerWorks, Kept
<1>5. Single /\ HoldersKeep /\ Calm
  BY <1>2, <1>4 DEF Init, Single, HoldersKeep, Calm
<1> QED
  BY <1>1, <1>3, <1>4, <1>5 DEF IInv

LEMMA NextKeeps ==
  ASSUME IInv, [Next]_vars
  PROVE  IInv'
<1>1. TypeOK' /\ NamedIsStore'
  BY TypesKept, NamedKept DEF IInv
<1>2. ASSUME faults' = 0, kind' # "store"
      PROVE  OwnerWorks' /\ Kept' /\ (kind' \in Patient => Single' /\ HoldersKeep' /\ Calm')
  <2>1. /\ faults = 0 /\ kind' = kind
        /\ ~Stall /\ \A p \in Procs : ~Die(p) /\ ~ReusePid(p)
    BY <1>2, FaultsCount DEF IInv
  <2>2. /\ TypeOK /\ NamedIsStore /\ OwnerWorks /\ Kept
        /\ kind \in Patient => Single /\ HoldersKeep /\ Calm
    BY <1>2, <2>1 DEF IInv
  <2>3. \A p \in Procs : ~BeatWrites(p)
    BY <1>2, <2>1, <2>2 DEF BeatWrites, NamedIsStore
  <2>4. ASSUME NEW p \in Procs,
               OwnStep(p) \/ Ask(p) \/ Withdraw(p) \/ GiveUp(p) \/ Beat(p) \/ BeatReads(p)
        PROVE  OwnerWorks' /\ Kept' /\ (kind \in Patient => Single' /\ HoldersKeep' /\ Calm')
    BY <1>2, <2>1, <2>2, <2>4, WorkersKept, PeaceKept
  <2>5. CASE Lapse
    <3>1. OwnerWorks' /\ Kept'
      BY <2>2, <2>5 DEF Lapse, OwnerWorks, Kept, Holders
    <3>2. kind \notin Patient
      <4>1. SUFFICES ASSUME kind \in Patient PROVE FALSE
        OBVIOUS
      <4>2. there /\ owner = Nobody
        BY <2>5, <4>1 DEF Lapse, Ageing, Patient
      <4>3. PICK q \in Procs : pc[q] \in {"made", "in", "leaving", "left"}
        BY <2>2, <4>2 DEF Kept, Holders
      <4>4. pc[q] \in {"made", "left"}
        BY <2>2, <4>1, <4>2, <4>3, DirAssumption DEF HoldersKeep, Holders
      <4> QED
        BY <2>5, <4>2, <4>4 DEF Lapse
    <3> QED
      BY <2>1, <3>1, <3>2
  <2>6. CASE UNCHANGED vars
    BY <2>2, <2>6 DEF vars, OwnerWorks, Kept, Single, HoldersKeep, Calm, Holders
  <2> QED
    BY <2>1, <2>3, <2>4, <2>5, <2>6 DEF Next
<1>3. (faults' = 0 /\ kind' # "store") => OwnerWorks' /\ Kept'
  BY <1>2
<1>4. (faults' = 0 /\ kind' \in Patient') => Single' /\ HoldersKeep' /\ Calm'
  BY <1>2 DEF Patient
<1> QED
  BY <1>1, <1>3, <1>4 DEF IInv

\* The invariant holds in every reachable state.
THEOREM Invariance == Spec => []IInv
<1>1. Init => IInv
  BY InitIInv
<1>2. IInv /\ [Next]_vars => IInv'
  BY NextKeeps
<1> QED
  BY <1>1, <1>2, PTL DEF Spec

(* The lock, its owner file and the processes keep their types, whatever   *)
(* dies, stalls or writes into a directory it has lost.                    *)
THEOREM TypeCorrect == Spec => []TypeOK
<1>1. IInv => TypeOK
  BY DEF IInv
<1> QED
  BY <1>1, Invariance, PTL

(* Any number of processes: as long as none of them dies or stalls, the    *)
(* locks that grant a grace admit one at a time.                           *)
THEOREM Exclusion == Spec => []Exclusive
<1>1. IInv => Exclusive
  BY DEF IInv, Exclusive, Inside, Single, Holders
<1> QED
  BY <1>1, Invariance, PTL

(* Any number of processes: when all have come and gone in peace no        *)
(* directory is left.                                                      *)
THEOREM NothingLeft == Spec => []LeavesNothing
<1>1. IInv => LeavesNothing
  BY DEF IInv, LeavesNothing, Kept, Holders
<1> QED
  BY <1>1, Invariance, PTL

=============================================================================
