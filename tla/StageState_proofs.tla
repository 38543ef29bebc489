-------------------------- MODULE StageState_proofs --------------------------
(***************************************************************************)
(* For any number of deploy runs of a stage: the current runs form one     *)
(* line and the audit chain is intact.                                     *)
(***************************************************************************)
EXTENDS StageState, TLAPS

-----------------------------------------------------------------------------
(* An event built from the tail of an intact chain keeps it intact.        *)
LEMMA AppendIntact ==
  ASSUME NEW rows, NEW t, NEW content,
         \A event \in rows : event.sequence \in Nat \ {0},
         ChainIntact(rows), IsTail(rows, t)
  PROVE  /\ ChainIntact(rows \cup {Event(content, t)})
         /\ Event(content, t).sequence \in Nat \ {0}
<1> DEFINE new == Event(content, t)
           more == rows \cup {new}
<1>1. CASE rows = {} /\ t = NoTail
  <2>1. new.sequence = 1 /\ new.previousHash = NoTail.hash
    BY <1>1 DEF Event, NoTail
  <2>2. more = {new}
    BY <1>1
  <2> QED
    BY <2>1, <2>2 DEF ChainIntact, FollowsFrom
<1>2. ASSUME NEW last \in rows, IsLatest(rows, last),
             t = [sequence |-> last.sequence, hash |-> EventHash(last)]
      PROVE  ChainIntact(more) /\ new.sequence \in Nat \ {0}
  <2>1. /\ new.sequence = last.sequence + 1
        /\ new.previousHash = EventHash(last)
    BY <1>2 DEF Event
  <2>2. /\ last.sequence \in Nat \ {0}
        /\ \A event \in rows : event.sequence < new.sequence
    BY <1>2, <2>1 DEF IsLatest
  <2>3. FollowsFrom(more, new)
    BY <2>1, <2>2 DEF FollowsFrom
  <2>4. \A event \in rows : event.sequence >= 1 /\ FollowsFrom(more, event)
    BY DEF ChainIntact, FollowsFrom
  <2>5. \A e1, e2 \in more : e1.sequence = e2.sequence => e1 = e2
    BY <2>2 DEF ChainIntact
  <2> HIDE DEF new
  <2> QED
    BY <2>1, <2>2, <2>3, <2>4, <2>5 DEF ChainIntact
<1> QED
  BY <1>1, <1>2 DEF IsTail, NoTail, Event

-----------------------------------------------------------------------------
(* The inductive invariant, by parts.                                      *)

(* The row lock is held by the one transaction that has swapped, and until *)
(* it ends the committed current run is the one it expected.               *)
LockedBySwap ==
  \A r \in Runs : /\ rowLock = r <=> phase[r] \in Swapped
                  /\ phase[r] \in Swapped => current = expected[r]

HistoryIsCommitted == \A r \in Runs : r \in history <=> phase[r] = "committed"

(* Expectations are runs that have been current. *)
ExpectedWasCurrent == \A r \in Runs : expected[r] \in history \cup {NoRun}

(* A transaction extends the chain it sees, from the tail it has read. *)
OpenChain(r) ==
  /\ phase[r] \in Swapped => ChainIntact(audit \cup appended[r])
  /\ phase[r] = "tailRead" => IsTail(audit \cup appended[r], tail[r])
  /\ phase[r] \in {"submitted", "admitted", "begun"} => appended[r] = {}
OpenChains == \A r \in Runs : OpenChain(r)

AppendedContents ==
  \A r \in Runs :
    /\ {event.content : event \in appended[r]} \subseteq Contents(r)
    /\ phase[r] \in {"audited", "backedUp"} =>
         {event.content : event \in appended[r]} = Contents(r)

BackedUpIsBackup == \A r \in Runs : phase[r] = "backedUp" => backup = r

Inv == /\ TypeOK
       /\ LockedBySwap
       /\ HistoryIsCommitted
       /\ ExpectedWasCurrent
       /\ LinearHistory
       /\ OpenChains
       /\ AppendedContents
       /\ StageChainIntact
       /\ AuditTellsHistory
       /\ BackedUpIsBackup
       /\ BackupFollowsCurrent

-----------------------------------------------------------------------------
LEMMA InvInit == Init => Inv
<1> SUFFICES ASSUME Init PROVE Inv
  OBVIOUS
<1> USE StageAssumption DEF Init
<1>1. TypeOK
  BY DEF TypeOK, Phases, NoTail
<1>2. LockedBySwap
  BY DEF LockedBySwap, Swapped
<1>3. HistoryIsCommitted /\ ExpectedWasCurrent /\ LinearHistory
  BY DEF HistoryIsCommitted, ExpectedWasCurrent, LinearHistory
<1>4. OpenChains /\ AppendedContents
  BY DEF OpenChains, OpenChain, AppendedContents, Swapped
<1>5. StageChainIntact /\ AuditTellsHistory /\ BackedUpIsBackup /\ BackupFollowsCurrent
  BY DEF StageChainIntact, ChainIntact, AuditTellsHistory, BackedUpIsBackup, BackupFollowsCurrent
<1> QED
  BY <1>1, <1>2, <1>3, <1>4, <1>5 DEF Inv

LEMMA TypeNext == TypeOK /\ [Next]_vars => TypeOK'
<1> SUFFICES ASSUME TypeOK, [Next]_vars PROVE TypeOK'
  OBVIOUS
<1> USE StageAssumption DEF TypeOK, Phases, Swapped, Goto
<1>1. CASE UNCHANGED vars
  BY <1>1 DEF vars
<1>2. ASSUME NEW r \in Runs, RunStep(r) PROVE TypeOK'
  <2>1. CASE Admit(r)
    BY <2>1 DEF Admit
  <2>2. CASE RecordOnly(r)
    BY <2>2 DEF RecordOnly
  <2>3. CASE Begin(r)
    BY <2>3 DEF Begin
  <2>4. CASE Swap(r)
    BY <2>4 DEF Swap
  <2>5. CASE SwapStale(r)
    BY <2>5 DEF SwapStale
  <2>6. CASE ReadTail(r)
    BY <2>6 DEF ReadTail, NoTail
  <2>7. CASE AppendEvent(r)
    <3>1. PICK content \in Contents(r) :
            appended' = [appended EXCEPT ![r] = @ \cup {Event(content, tail[r])}]
      BY <2>7 DEF AppendEvent
    <3>2. Event(content, tail[r]).sequence \in Nat \ {0}
      BY DEF Event
    <3>3. \A x \in Runs : \A event \in appended'[x] : event.sequence \in Nat \ {0}
      BY <3>1, <3>2
    <3>4. appended' = [x \in Runs |-> appended'[x]]
      BY <3>1
    <3>5. UNCHANGED <<current, history, audit, backup, expected, rowLock, tail>>
          /\ phase' \in [Runs -> Phases]
      BY <2>7 DEF AppendEvent
    <3> QED
      BY <3>3, <3>4, <3>5
  <2>8. CASE WriteBackup(r)
    BY <2>8 DEF WriteBackup
  <2>9. CASE Commit(r)
    BY <2>9 DEF Commit
  <2>10. CASE Rollback(r)
    BY <2>10 DEF Rollback
  <2> QED
    BY <1>2, <2>1, <2>2, <2>3, <2>4, <2>5, <2>6, <2>7, <2>8, <2>9, <2>10 DEF RunStep
<1> QED
  BY <1>1, <1>2 DEF Next

(* A step that leaves the events alone and enters no later phase of a      *)
(* transaction than the ones listed leaves the open chains as they are.    *)
LEMMA OpenChainsKept ==
  ASSUME OpenChains, StageChainIntact, NEW r \in Runs,
         phase \in [Runs -> Phases],
         UNCHANGED <<audit, appended, tail>>,
         NEW from, NEW to \in Phases \ {"submitted", "tailRead"},
         Goto(r, from, to),
         to \in Swapped => from \in Swapped \cup {"begun"},
         to \in {"admitted", "begun"} => from \in {"submitted", "admitted"}
  PROVE  OpenChains'
<1> SUFFICES ASSUME NEW x \in Runs PROVE OpenChain(x)'
  BY DEF OpenChains
<1> USE DEF Goto
<1>1. OpenChain(x)
  BY DEF OpenChains
<1>2. CASE x # r
  <2>1. phase'[x] = phase[x]
    BY <1>2
  <2> QED
    BY <1>1, <2>1 DEF OpenChain
<1>3. CASE x = r
  <2>1. appended[r] = {} => audit \cup appended[r] = audit
    OBVIOUS
  <2> QED
    BY <1>1, <1>3, <2>1 DEF OpenChain, StageChainIntact, Swapped, Phases
<1> QED
  BY <1>2, <1>3

LEMMA InvNext == Inv /\ [Next]_vars => Inv'
<1> SUFFICES ASSUME Inv, [Next]_vars PROVE Inv'
  OBVIOUS
<1>1. TypeOK /\ TypeOK'
  BY TypeNext DEF Inv
<1> USE <1>1, StageAssumption DEF Inv, Swapped, Goto
<1>2. CASE UNCHANGED vars
  <2>1. OpenChains'
    BY <1>2 DEF vars, OpenChains, OpenChain
  <2>2. StageChainIntact' /\ AuditTellsHistory' /\ AppendedContents'
    BY <1>2 DEF vars, StageChainIntact, AuditTellsHistory, AppendedContents
  <2>3. LockedBySwap' /\ HistoryIsCommitted' /\ ExpectedWasCurrent' /\ LinearHistory'
    BY <1>2 DEF vars, LockedBySwap, HistoryIsCommitted, ExpectedWasCurrent, LinearHistory
  <2>4. BackedUpIsBackup' /\ BackupFollowsCurrent'
    BY <1>2 DEF vars, BackedUpIsBackup, BackupFollowsCurrent
  <2> QED
    BY <2>1, <2>2, <2>3, <2>4
<1>3. ASSUME NEW r \in Runs, RunStep(r) PROVE Inv'
  <2>1. CASE Admit(r)
    <3>1. LockedBySwap'
      BY <2>1 DEF Admit, TypeOK, LockedBySwap
    <3>2. HistoryIsCommitted'
      BY <2>1 DEF Admit, TypeOK, HistoryIsCommitted
    <3>3. ExpectedWasCurrent'
      BY <2>1 DEF Admit, TypeOK, ExpectedWasCurrent, LinearHistory
    <3>4. LinearHistory'
      BY <2>1 DEF Admit, TypeOK, LinearHistory, HistoryIsCommitted
    <3>5. OpenChains'
      <4>1. /\ UNCHANGED <<audit, appended, tail>>
            /\ Goto(r, "submitted", "admitted")
            /\ phase \in [Runs -> Phases]
        BY <2>1 DEF Admit, TypeOK
      <4> HIDE DEF Goto
      <4> QED
        BY <4>1, OpenChainsKept DEF Phases
    <3>6. AppendedContents'
      BY <2>1 DEF Admit, TypeOK, AppendedContents
    <3>7. StageChainIntact'
      BY <2>1 DEF Admit, TypeOK, StageChainIntact
    <3>8. AuditTellsHistory'
      BY <2>1 DEF Admit, TypeOK, AuditTellsHistory
    <3>9. BackupFollowsCurrent'
      BY <2>1 DEF Admit, TypeOK, BackupFollowsCurrent
    <3>10. BackedUpIsBackup'
      BY <2>1 DEF Admit, TypeOK, BackedUpIsBackup
    <3> QED
      BY <3>1, <3>2, <3>3, <3>4, <3>5, <3>6, <3>7, <3>8, <3>9, <3>10
  <2>2. CASE RecordOnly(r)
    <3>1. LockedBySwap'
      BY <2>2 DEF RecordOnly, TypeOK, LockedBySwap
    <3>2. HistoryIsCommitted'
      BY <2>2 DEF RecordOnly, TypeOK, HistoryIsCommitted
    <3>3. ExpectedWasCurrent'
      BY <2>2 DEF RecordOnly, TypeOK, ExpectedWasCurrent
    <3>4. LinearHistory'
      BY <2>2 DEF RecordOnly, TypeOK, LinearHistory
    <3>5. OpenChains'
      <4>1. /\ UNCHANGED <<audit, appended, tail>>
            /\ Goto(r, "admitted", "recorded")
            /\ phase \in [Runs -> Phases]
        BY <2>2 DEF RecordOnly, TypeOK
      <4> HIDE DEF Goto
      <4> QED
        BY <4>1, OpenChainsKept DEF Phases
    <3>6. AppendedContents'
      BY <2>2 DEF RecordOnly, TypeOK, AppendedContents
    <3>7. StageChainIntact'
      BY <2>2 DEF RecordOnly, TypeOK, StageChainIntact
    <3>8. AuditTellsHistory'
      BY <2>2 DEF RecordOnly, TypeOK, AuditTellsHistory
    <3>9. BackupFollowsCurrent'
      BY <2>2 DEF RecordOnly, TypeOK, BackupFollowsCurrent
    <3>10. BackedUpIsBackup'
      BY <2>2 DEF RecordOnly, TypeOK, BackedUpIsBackup
    <3> QED
      BY <3>1, <3>2, <3>3, <3>4, <3>5, <3>6, <3>7, <3>8, <3>9, <3>10
  <2>3. CASE Begin(r)
    <3>1. LockedBySwap'
      BY <2>3 DEF Begin, TypeOK, LockedBySwap
    <3>2. HistoryIsCommitted'
      BY <2>3 DEF Begin, TypeOK, HistoryIsCommitted
    <3>3. ExpectedWasCurrent'
      BY <2>3 DEF Begin, TypeOK, ExpectedWasCurrent
    <3>4. LinearHistory'
      BY <2>3 DEF Begin, TypeOK, LinearHistory
    <3>5. OpenChains'
      <4>1. /\ UNCHANGED <<audit, appended, tail>>
            /\ Goto(r, "admitted", "begun")
            /\ phase \in [Runs -> Phases]
        BY <2>3 DEF Begin, TypeOK
      <4> HIDE DEF Goto
      <4> QED
        BY <4>1, OpenChainsKept DEF Phases
    <3>6. AppendedContents'
      BY <2>3 DEF Begin, TypeOK, AppendedContents
    <3>7. StageChainIntact'
      BY <2>3 DEF Begin, TypeOK, StageChainIntact
    <3>8. AuditTellsHistory'
      BY <2>3 DEF Begin, TypeOK, AuditTellsHistory
    <3>9. BackupFollowsCurrent'
      BY <2>3 DEF Begin, TypeOK, BackupFollowsCurrent
    <3>10. BackedUpIsBackup'
      BY <2>3 DEF Begin, TypeOK, BackedUpIsBackup
    <3> QED
      BY <3>1, <3>2, <3>3, <3>4, <3>5, <3>6, <3>7, <3>8, <3>9, <3>10
  <2>4. CASE Swap(r)
    <3>1. LockedBySwap'
      BY <2>4 DEF Swap, TypeOK, LockedBySwap
    <3>2. HistoryIsCommitted'
      BY <2>4 DEF Swap, TypeOK, HistoryIsCommitted
    <3>3. ExpectedWasCurrent'
      BY <2>4 DEF Swap, TypeOK, ExpectedWasCurrent
    <3>4. LinearHistory'
      BY <2>4 DEF Swap, TypeOK, LinearHistory
    <3>5. OpenChains'
      <4>1. /\ UNCHANGED <<audit, appended, tail>>
            /\ Goto(r, "begun", "swapped")
            /\ phase \in [Runs -> Phases]
        BY <2>4 DEF Swap, TypeOK
      <4> HIDE DEF Goto
      <4> QED
        BY <4>1, OpenChainsKept DEF Phases
    <3>6. AppendedContents'
      BY <2>4 DEF Swap, TypeOK, AppendedContents
    <3>7. StageChainIntact'
      BY <2>4 DEF Swap, TypeOK, StageChainIntact
    <3>8. AuditTellsHistory'
      BY <2>4 DEF Swap, TypeOK, AuditTellsHistory
    <3>9. BackupFollowsCurrent'
      BY <2>4 DEF Swap, TypeOK, BackupFollowsCurrent
    <3>10. BackedUpIsBackup'
      BY <2>4 DEF Swap, TypeOK, BackedUpIsBackup
    <3> QED
      BY <3>1, <3>2, <3>3, <3>4, <3>5, <3>6, <3>7, <3>8, <3>9, <3>10
  <2>5. CASE SwapStale(r)
    <3>1. LockedBySwap'
      BY <2>5 DEF SwapStale, TypeOK, LockedBySwap
    <3>2. HistoryIsCommitted'
      BY <2>5 DEF SwapStale, TypeOK, HistoryIsCommitted
    <3>3. ExpectedWasCurrent'
      BY <2>5 DEF SwapStale, TypeOK, ExpectedWasCurrent
    <3>4. LinearHistory'
      BY <2>5 DEF SwapStale, TypeOK, LinearHistory
    <3>5. OpenChains'
      <4>1. /\ UNCHANGED <<audit, appended, tail>>
            /\ Goto(r, "begun", "stale")
            /\ phase \in [Runs -> Phases]
        BY <2>5 DEF SwapStale, TypeOK
      <4> HIDE DEF Goto
      <4> QED
        BY <4>1, OpenChainsKept DEF Phases
    <3>6. AppendedContents'
      BY <2>5 DEF SwapStale, TypeOK, AppendedContents
    <3>7. StageChainIntact'
      BY <2>5 DEF SwapStale, TypeOK, StageChainIntact
    <3>8. AuditTellsHistory'
      BY <2>5 DEF SwapStale, TypeOK, AuditTellsHistory
    <3>9. BackupFollowsCurrent'
      BY <2>5 DEF SwapStale, TypeOK, BackupFollowsCurrent
    <3>10. BackedUpIsBackup'
      BY <2>5 DEF SwapStale, TypeOK, BackedUpIsBackup
    <3> QED
      BY <3>1, <3>2, <3>3, <3>4, <3>5, <3>6, <3>7, <3>8, <3>9, <3>10
  <2>6. CASE ReadTail(r)
    <3>1. LockedBySwap'
      BY <2>6 DEF ReadTail, TypeOK, LockedBySwap
    <3>2. HistoryIsCommitted'
      BY <2>6 DEF ReadTail, TypeOK, HistoryIsCommitted
    <3>3. ExpectedWasCurrent'
      BY <2>6 DEF ReadTail, TypeOK, ExpectedWasCurrent
    <3>4. LinearHistory'
      BY <2>6 DEF ReadTail, TypeOK, LinearHistory
    <3>5. OpenChains'
      <4> SUFFICES ASSUME NEW x \in Runs PROVE OpenChain(x)'
        BY DEF OpenChains
      <4>1. OpenChain(x) /\ OpenChain(r)
        BY DEF OpenChains
      <4>2. PICK t : /\ IsTail(audit \cup appended[r], t)
                     /\ tail' = [tail EXCEPT ![r] = t]
        BY <2>6 DEF ReadTail
      <4>4. CASE x = r
        BY <2>6, <4>1, <4>2, <4>4 DEF ReadTail, TypeOK, OpenChain
      <4>5. CASE x # r
        BY <2>6, <4>1, <4>2, <4>5 DEF ReadTail, TypeOK, OpenChain
      <4> QED
        BY <4>4, <4>5
    <3>6. AppendedContents'
      BY <2>6 DEF ReadTail, TypeOK, AppendedContents
    <3>7. StageChainIntact'
      BY <2>6 DEF ReadTail, TypeOK, StageChainIntact
    <3>8. AuditTellsHistory'
      BY <2>6 DEF ReadTail, TypeOK, AuditTellsHistory
    <3>9. BackupFollowsCurrent'
      BY <2>6 DEF ReadTail, TypeOK, BackupFollowsCurrent
    <3>10. BackedUpIsBackup'
      BY <2>6 DEF ReadTail, TypeOK, BackedUpIsBackup
    <3> QED
      BY <3>1, <3>2, <3>3, <3>4, <3>5, <3>6, <3>7, <3>8, <3>9, <3>10
  <2>7. CASE AppendEvent(r)
    <3>1. LockedBySwap'
      BY <2>7 DEF AppendEvent, TypeOK, LockedBySwap
    <3>2. HistoryIsCommitted'
      BY <2>7 DEF AppendEvent, TypeOK, HistoryIsCommitted
    <3>3. ExpectedWasCurrent'
      BY <2>7 DEF AppendEvent, TypeOK, ExpectedWasCurrent
    <3>4. LinearHistory'
      BY <2>7 DEF AppendEvent, TypeOK, LinearHistory
    <3>5. OpenChains'
      <4> SUFFICES ASSUME NEW x \in Runs PROVE OpenChain(x)'
        BY DEF OpenChains
      <4>1. OpenChain(x) /\ OpenChain(r)
        BY DEF OpenChains
      <4>2. PICK content \in Contents(r) :
              /\ appended' = [appended EXCEPT ![r] = @ \cup {Event(content, tail[r])}]
              /\ phase[r] = "tailRead"
              /\ phase' \in {[phase EXCEPT ![r] = "swapped"], [phase EXCEPT ![r] = "audited"]}
        BY <2>7 DEF AppendEvent
      <4>3. CASE x # r
        BY <2>7, <4>1, <4>2, <4>3 DEF AppendEvent, TypeOK, OpenChain
      <4>4. CASE x = r
        <5>1. ChainIntact((audit \cup appended[r]) \cup {Event(content, tail[r])})
          BY <4>1, <4>2, AppendIntact DEF OpenChain, TypeOK
        <5> QED
          BY <2>7, <4>2, <4>4, <5>1 DEF AppendEvent, TypeOK, OpenChain
      <4> QED
        BY <4>3, <4>4
    <3>6. AppendedContents'
      <4>1. PICK content \in Contents(r) :
              /\ content[2] = "lineage_recorded" => appended[r] # {}
              /\ \A event \in appended[r] : event.content # content
              /\ appended' = [appended EXCEPT ![r] = @ \cup {Event(content, tail[r])}]
              /\ phase' = [phase EXCEPT ![r] =
                             IF content[2] = "stage_state_updated" /\ r \in Lineage
                             THEN "swapped" ELSE "audited"]
        BY <2>7 DEF AppendEvent
      <4>2. Event(content, tail[r]).content = content
        BY DEF Event
      <4>3. {event.content : event \in appended'[r]} =
              {event.content : event \in appended[r]} \cup {content}
        BY <4>1, <4>2 DEF TypeOK
      <4>4. ASSUME NEW x \in Runs, x # r
            PROVE  appended'[x] = appended[x] /\ phase'[x] = phase[x]
        BY <4>1, <4>4 DEF TypeOK
      <4>5. {event.content : event \in appended'[r]} \subseteq Contents(r)
        BY <4>3 DEF AppendedContents
      <4>6. ASSUME phase'[r] \in {"audited", "backedUp"}
            PROVE  {event.content : event \in appended'[r]} = Contents(r)
        <5>1. CASE r \notin Lineage
          BY <4>3, <4>5, <5>1 DEF Contents
        <5>2. CASE r \in Lineage
          <6>1. content = <<r, "lineage_recorded">>
            BY <4>1, <4>6, <5>2 DEF Contents, TypeOK
          <6>2. PICK event \in appended[r] : event.content = <<r, "stage_state_updated">>
            BY <4>1, <6>1, <5>2 DEF AppendedContents, Contents
          <6> QED
            BY <4>3, <4>5, <5>2, <6>1, <6>2 DEF Contents
        <5> QED
          BY <5>1, <5>2
      <4> QED
        BY <4>4, <4>5, <4>6 DEF AppendedContents
    <3>7. StageChainIntact'
      BY <2>7 DEF AppendEvent, TypeOK, StageChainIntact
    <3>8. AuditTellsHistory'
      BY <2>7 DEF AppendEvent, TypeOK, AuditTellsHistory
    <3>9. BackupFollowsCurrent'
      BY <2>7 DEF AppendEvent, TypeOK, BackupFollowsCurrent
    <3>10. BackedUpIsBackup'
      BY <2>7 DEF AppendEvent, TypeOK, BackedUpIsBackup
    <3> QED
      BY <3>1, <3>2, <3>3, <3>4, <3>5, <3>6, <3>7, <3>8, <3>9, <3>10
  <2>8. CASE WriteBackup(r)
    <3>1. LockedBySwap'
      BY <2>8 DEF WriteBackup, TypeOK, LockedBySwap
    <3>2. HistoryIsCommitted'
      BY <2>8 DEF WriteBackup, TypeOK, HistoryIsCommitted
    <3>3. ExpectedWasCurrent'
      BY <2>8 DEF WriteBackup, TypeOK, ExpectedWasCurrent
    <3>4. LinearHistory'
      BY <2>8 DEF WriteBackup, TypeOK, LinearHistory
    <3>5. OpenChains'
      <4>1. /\ UNCHANGED <<audit, appended, tail>>
            /\ Goto(r, "audited", "backedUp")
            /\ phase \in [Runs -> Phases]
        BY <2>8 DEF WriteBackup, TypeOK
      <4> HIDE DEF Goto
      <4> QED
        BY <4>1, OpenChainsKept DEF Phases
    <3>6. AppendedContents'
      BY <2>8 DEF WriteBackup, TypeOK, AppendedContents
    <3>7. StageChainIntact'
      BY <2>8 DEF WriteBackup, TypeOK, StageChainIntact
    <3>8. AuditTellsHistory'
      BY <2>8 DEF WriteBackup, TypeOK, AuditTellsHistory
    <3>9. BackupFollowsCurrent'
      BY <2>8 DEF WriteBackup, TypeOK, BackupFollowsCurrent
    <3>10. BackedUpIsBackup'
      BY <2>8 DEF WriteBackup, TypeOK, BackedUpIsBackup, LockedBySwap
    <3> QED
      BY <3>1, <3>2, <3>3, <3>4, <3>5, <3>6, <3>7, <3>8, <3>9, <3>10
  <2>9. CASE Commit(r)
    <3>1. LockedBySwap'
      BY <2>9 DEF Commit, TypeOK, LockedBySwap
    <3>2. HistoryIsCommitted'
      BY <2>9 DEF Commit, TypeOK, HistoryIsCommitted
    <3>3. ExpectedWasCurrent'
      BY <2>9 DEF Commit, TypeOK, ExpectedWasCurrent
    <3>4. LinearHistory'
      BY <2>9 DEF Commit, TypeOK, LinearHistory, LockedBySwap, HistoryIsCommitted, ExpectedWasCurrent
    <3>5. OpenChains'
      <4> SUFFICES ASSUME NEW x \in Runs PROVE OpenChain(x)'
        BY DEF OpenChains
      <4>1. x # r => phase[x] \notin Swapped
        BY <2>9 DEF Commit, TypeOK, LockedBySwap
      <4> QED
        BY <2>9, <4>1 DEF Commit, TypeOK, OpenChains, OpenChain
    <3>6. AppendedContents'
      BY <2>9 DEF Commit, TypeOK, AppendedContents
    <3>7. StageChainIntact'
      BY <2>9 DEF Commit, TypeOK, StageChainIntact, OpenChains, OpenChain
    <3>8. AuditTellsHistory'
      <4>1. {event.content : event \in appended[r]} = Contents(r)
        BY <2>9 DEF Commit, AppendedContents
      <4>2. {event.content : event \in audit'} =
              {event.content : event \in audit} \cup {event.content : event \in appended[r]}
        BY <2>9 DEF Commit
      <4>3. UNION {Contents(x) : x \in history'} =
              (UNION {Contents(x) : x \in history}) \cup Contents(r)
        BY <2>9 DEF Commit
      <4> QED
        BY <4>1, <4>2, <4>3 DEF AuditTellsHistory
    <3>9. BackupFollowsCurrent'
      BY <2>9 DEF Commit, TypeOK, BackupFollowsCurrent, BackedUpIsBackup
    <3>10. BackedUpIsBackup'
      BY <2>9 DEF Commit, TypeOK, BackedUpIsBackup
    <3> QED
      BY <3>1, <3>2, <3>3, <3>4, <3>5, <3>6, <3>7, <3>8, <3>9, <3>10
  <2>10. CASE Rollback(r)
    <3>1. LockedBySwap'
      BY <2>10 DEF Rollback, TypeOK, LockedBySwap
    <3>2. HistoryIsCommitted'
      BY <2>10 DEF Rollback, TypeOK, HistoryIsCommitted
    <3>3. ExpectedWasCurrent'
      BY <2>10 DEF Rollback, TypeOK, ExpectedWasCurrent
    <3>4. LinearHistory'
      BY <2>10 DEF Rollback, TypeOK, LinearHistory
    <3>5. OpenChains'
      BY <2>10 DEF Rollback, TypeOK, OpenChains, OpenChain
    <3>6. AppendedContents'
      BY <2>10 DEF Rollback, TypeOK, AppendedContents
    <3>7. StageChainIntact'
      BY <2>10 DEF Rollback, TypeOK, StageChainIntact
    <3>8. AuditTellsHistory'
      BY <2>10 DEF Rollback, TypeOK, AuditTellsHistory
    <3>9. BackupFollowsCurrent'
      BY <2>10 DEF Rollback, TypeOK, BackupFollowsCurrent
    <3>10. BackedUpIsBackup'
      BY <2>10 DEF Rollback, TypeOK, BackedUpIsBackup
    <3> QED
      BY <3>1, <3>2, <3>3, <3>4, <3>5, <3>6, <3>7, <3>8, <3>9, <3>10
  <2> QED
    BY <1>3, <2>1, <2>2, <2>3, <2>4, <2>5, <2>6, <2>7, <2>8, <2>9, <2>10 DEF RunStep
<1> QED
  BY <1>2, <1>3 DEF Next

(* The invariant holds in every reachable state. *)
THEOREM Invariance == Spec => []Inv
  BY InvInit, InvNext, PTL DEF Spec

-----------------------------------------------------------------------------
(* What the runs of the model checker check on a small instance.           *)

(* Rows, locks and transactions keep their types. *)
THEOREM TypeCorrect == Spec => []TypeOK
  BY Invariance, PTL DEF Inv

(* The compare-and-swap of current_stage_state makes the successful runs   *)
(* of a stage one line, however many are admitted and recorded at once.    *)
THEOREM Linear == Spec => []LinearHistory
  BY Invariance, PTL DEF Inv

(* Appending inside the transaction of the swap keeps the stage's audit    *)
(* chain intact, although the append itself reads and then inserts.        *)
THEOREM ChainStaysIntact == Spec => []StageChainIntact
  BY Invariance, PTL DEF Inv

(* History and audit chain are written by one transaction: neither tells   *)
(* of a run the other does not.                                            *)
THEOREM AuditComplete == Spec => []AuditTellsHistory
  BY Invariance, PTL DEF Inv

(* A restore from the backup file finds the current run, except after a    *)
(* transaction that failed once it had written the file.                   *)
THEOREM BackupCurrent == Spec => []BackupFollowsCurrent
  BY Invariance, PTL DEF Inv
=============================================================================
