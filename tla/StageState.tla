------------------------------ MODULE StageState ------------------------------
(***************************************************************************)
(* The current run of one deployment stage: the expectation a submission   *)
(* is admitted with, and the database transaction that records its deploy  *)
(* run, swaps the current run, appends the audit events and writes the     *)
(* backup files (nixos-shared-host-control-plane-backend-records.ts,       *)
(* deployment-current-stage-state-cas.ts and -expected.ts, ...).           *)
(*                                                                         *)
(* Statements run at PostgreSQL's default READ COMMITTED: a transaction    *)
(* sees committed rows and its own, and the row the swap wrote stays       *)
(* locked until COMMIT or ROLLBACK.                                        *)
(***************************************************************************)
EXTENDS AuditEvents

CONSTANTS Runs,     \* deploy runs of the stage
          NoRun,    \* no row in current_stage_state
          Lineage   \* the runs that append a lineage event as well:
                    \* promotions, retries and rollbacks

ASSUME StageAssumption == NoRun \notin Runs /\ Lineage \subseteq Runs

VARIABLES current,   \* current_stage_state.current_run_id
          history,   \* the runs of stage_state_history
          audit,     \* the stage's rows of stage_state_audit_events
          backup,    \* the run named by the current-stage-state backup file
          expected,  \* run -> expectedCurrentRunId of its snapshot
          phase,     \* run -> how far the recording of the run has come
          rowLock,   \* the run whose transaction locks the current row
          appended,  \* run -> audit events its transaction has inserted
          tail       \* run -> the previous event its transaction read

vars == <<current, history, audit, backup, expected, phase, rowLock, appended, tail>>

Phases == {"submitted", "admitted", "begun", "swapped", "tailRead", "audited", "backedUp",
           "committed", "recorded", "stale", "rolledBack"}
Swapped == {"swapped", "tailRead", "audited", "backedUp"}   \* the row is r's to commit

Contents(r) == {<<r, "stage_state_updated">>} \cup
               (IF r \in Lineage THEN {<<r, "lineage_recorded">>} ELSE {})

TypeOK ==
  /\ current \in Runs \cup {NoRun}
  /\ history \subseteq Runs
  /\ backup \in Runs \cup {NoRun}
  /\ expected \in [Runs -> Runs \cup {NoRun}]
  /\ phase \in [Runs -> Phases]
  /\ rowLock \in Runs \cup {NoRun}
  /\ appended = [r \in Runs |-> appended[r]]
  /\ tail = [r \in Runs |-> tail[r]]
  /\ \A event \in audit : event.sequence \in Nat \ {0}
  /\ \A r \in Runs : \A event \in appended[r] : event.sequence \in Nat \ {0}
  /\ \A r \in Runs : tail[r].sequence \in Nat

Goto(r, from, to) == phase[r] = from /\ phase' = [phase EXCEPT ![r] = to]

Init ==
  /\ current = NoRun
  /\ history = {}
  /\ audit = {}
  /\ backup = NoRun
  /\ expected = [r \in Runs |-> NoRun]
  /\ phase = [r \in Runs |-> "submitted"]
  /\ rowLock = NoRun
  /\ appended = [r \in Runs |-> {}]
  /\ tail = [r \in Runs |-> NoTail]

-----------------------------------------------------------------------------
(* reviewedCurrentStageExpectation, read once when the run is submitted. *)
Admit(r) ==
  /\ Goto(r, "submitted", "admitted")
  /\ expected' = [expected EXCEPT ![r] = current]
  /\ UNCHANGED <<current, history, audit, backup, rowLock, appended, tail>>

(* The run failed, is a preview or only provisions: its record is written, *)
(* the stage stays as it is.                                               *)
RecordOnly(r) ==
  /\ Goto(r, "admitted", "recorded")
  /\ UNCHANGED <<current, history, audit, backup, expected, rowLock, appended, tail>>

(* Mutant of Begin: the backup file is written first. *)
BeginWithBackup(r) ==
  /\ Goto(r, "admitted", "begun")
  /\ backup' = r
  /\ UNCHANGED <<current, history, audit, expected, rowLock, appended, tail>>

(* The run succeeded: BEGIN, INSERT INTO deploy_records. *)
Begin(r) ==
  /\ Goto(r, "admitted", "begun")
  /\ UNCHANGED <<current, history, audit, backup, expected, rowLock, appended, tail>>

(* Mutants of Swap: an UPDATE without the expected run; no row lock. *)
SwapBlind(r) ==
  /\ Goto(r, "begun", "swapped")
  /\ rowLock = NoRun
  /\ rowLock' = r
  /\ UNCHANGED <<current, history, audit, backup, expected, appended, tail>>

SwapUnlocked(r) ==
  /\ Goto(r, "begun", "swapped")
  /\ current = expected[r]
  /\ rowLock' = r
  /\ UNCHANGED <<current, history, audit, backup, expected, appended, tail>>

(* UPDATE ... WHERE current_run_id = expected, or INSERT ... ON CONFLICT   *)
(* DO NOTHING for an expectation of no row, and the history row.  Either   *)
(* statement waits for a transaction that has swapped and is still open.   *)
Swap(r) ==
  /\ Goto(r, "begun", "swapped")
  /\ current = expected[r]
  /\ rowLock = NoRun
  /\ rowLock' = r
  /\ UNCHANGED <<current, history, audit, backup, expected, appended, tail>>

(* ... stage_state_stale: ROLLBACK, and the error is thrown. *)
SwapStale(r) ==
  /\ Goto(r, "begun", "stale")
  /\ current # expected[r]
  /\ UNCHANGED <<current, history, audit, backup, expected, rowLock, appended, tail>>

(* appendAuditEvent reads the latest row of the chain ... *)
ReadTail(r) ==
  /\ Goto(r, "swapped", "tailRead")
  /\ \E t \in {NoTail} \cup {[sequence |-> e.sequence, hash |-> EventHash(e)] :
                               e \in audit \cup appended[r]} :
       IsTail(audit \cup appended[r], t) /\ tail' = [tail EXCEPT ![r] = t]
  /\ UNCHANGED <<current, history, audit, backup, expected, rowLock, appended>>

(* Mutant of AppendEvent: the INSERT runs outside the transaction. *)
AppendOutside(r) ==
  /\ \E content \in Contents(r) :
       /\ \A event \in appended[r] : event.content # content
       /\ content[2] = "lineage_recorded" => appended[r] # {}
       /\ appended' = [appended EXCEPT ![r] = @ \cup {Event(content, tail[r])}]
       /\ audit' = audit \cup {Event(content, tail[r])}
       /\ Goto(r, "tailRead", IF content[2] = "stage_state_updated" /\ r \in Lineage
                              THEN "swapped" ELSE "audited")
  /\ UNCHANGED <<current, history, backup, expected, rowLock, tail>>

(* ... and inserts the next event; a lineage event follows the update. *)
AppendEvent(r) ==
  /\ \E content \in Contents(r) :
       /\ \A event \in appended[r] : event.content # content
       /\ content[2] = "lineage_recorded" => appended[r] # {}
       /\ appended' = [appended EXCEPT ![r] = @ \cup {Event(content, tail[r])}]
       /\ Goto(r, "tailRead", IF content[2] = "stage_state_updated" /\ r \in Lineage
                              THEN "swapped" ELSE "audited")
  /\ UNCHANGED <<current, history, audit, backup, expected, rowLock, tail>>

(* writeStageStateBackupFiles, inside the transaction. *)
WriteBackup(r) ==
  /\ Goto(r, "audited", "backedUp")
  /\ backup' = r
  /\ UNCHANGED <<current, history, audit, expected, rowLock, appended, tail>>

Commit(r) ==
  /\ Goto(r, "backedUp", "committed")
  /\ current' = r
  /\ history' = history \cup {r}
  /\ audit' = audit \cup appended[r]
  /\ rowLock' = NoRun
  /\ UNCHANGED <<backup, expected, appended, tail>>

(* A statement or a file write fails, COMMIT fails, or the worker dies. *)
Rollback(r) ==
  /\ phase[r] \in {"begun"} \cup Swapped
  /\ phase' = [phase EXCEPT ![r] = "rolledBack"]
  /\ rowLock' = IF rowLock = r THEN NoRun ELSE rowLock
  /\ appended' = [appended EXCEPT ![r] = {}]
  /\ UNCHANGED <<current, history, audit, backup, expected, tail>>

RunStep(r) ==
  \/ Admit(r) \/ RecordOnly(r) \/ Begin(r) \/ Swap(r) \/ SwapStale(r) \/ ReadTail(r)
  \/ AppendEvent(r) \/ WriteBackup(r) \/ Commit(r) \/ Rollback(r)

Next == \E r \in Runs : RunStep(r)

Spec == Init /\ [][Next]_vars

-----------------------------------------------------------------------------
(* Successive current runs form one line: a recorded run replaced the run  *)
(* it was admitted against, no two replaced the same one (no success is    *)
(* overwritten by a run that had not seen it), and the current run is the  *)
(* one nobody has replaced.                                                *)
LinearHistory ==
  /\ \A r \in history : expected[r] \in (history \ {r}) \cup {NoRun}
  /\ \A r1, r2 \in history : expected[r1] = expected[r2] => r1 = r2
  /\ \A r \in history : current # expected[r]
  /\ IF history = {} THEN current = NoRun ELSE current \in history

(* The audit events of the stage always pass stageStateAuditChainFailures: *)
(* the latest event is read and the next one inserted by two statements,   *)
(* and it is the row lock of the swap that keeps other runs out between.   *)
StageChainIntact == ChainIntact(audit)

(* The audit chain tells of exactly the runs that became current, with all *)
(* the events of each.                                                     *)
AuditTellsHistory == {event.content : event \in audit} = UNION {Contents(r) : r \in history}

(* The backup file names the current run, unless the transaction that      *)
(* wrote it is still open or was rolled back after the write.              *)
BackupFollowsCurrent ==
  backup # current => \E r \in Runs : backup = r /\ phase[r] \in {"backedUp", "rolledBack"}
=============================================================================
