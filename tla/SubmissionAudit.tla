--------------------------- MODULE SubmissionAudit ---------------------------
(***************************************************************************)
(* The audit events of submissions that are cancelled or recovered:        *)
(* writeBackendSubmissionDoc appends one after every write of such a       *)
(* document (writeBackendSubmissionAuditEvents and appendAuditEvent,       *)
(* deployment-stage-state-audit.ts).                                       *)
(*                                                                         *)
(* Submission documents carry no environment stage, so all those of one    *)
(* deployment share the chain (deployment, "unknown").  The append is the  *)
(* one StageState models, but here each of its three statements commits by *)
(* itself, and the writers (workers, and the service's handling of cancel  *)
(* requests) hold no common lock.                                          *)
(***************************************************************************)
EXTENDS AuditEvents

CONSTANTS Writers,    \* writes of cancelled or recovered documents
          ContentOf   \* writer -> the content of its event: two writes of
                      \* the same document have the same

ASSUME AuditAssumption == Writers = DOMAIN ContentOf

VARIABLES audit,   \* the chain's rows of stage_state_audit_events
          phase,   \* writer -> how far its append has come
          tail     \* writer -> the previous event it read

vars == <<audit, phase, tail>>

Phases == {"new", "unique", "tailRead", "appended", "failed"}

TypeOK ==
  /\ \A event \in audit : event.sequence \in Nat \ {0}
  /\ phase \in [Writers -> Phases]
  /\ DOMAIN tail = Writers
  /\ \A w \in Writers : tail[w].sequence \in Nat

Goto(w, from, to) == phase[w] = from /\ phase' = [phase EXCEPT ![w] = to]

Told(content) == \E event \in audit : event.content = content

Init ==
  /\ audit = {}
  /\ phase = [w \in Writers |-> "new"]
  /\ tail = [w \in Writers |-> NoTail]

(* SELECT ... WHERE content_hash: an event of this content ends the append. *)
FindDuplicate(w) ==
  /\ Goto(w, "new", IF Told(ContentOf[w]) THEN "appended" ELSE "unique")
  /\ UNCHANGED <<audit, tail>>

(* SELECT the latest row of the chain. *)
ReadTail(w) ==
  /\ Goto(w, "unique", "tailRead")
  /\ \E t \in {NoTail} \cup {[sequence |-> e.sequence, hash |-> EventHash(e)] : e \in audit} :
       IsTail(audit, t) /\ tail' = [tail EXCEPT ![w] = t]
  /\ UNCHANGED audit

(* Mutant of Append: ON CONFLICT(audit_sequence) DO NOTHING. *)
AppendInSequence(w) ==
  /\ Goto(w, "tailRead", "appended")
  /\ LET next == Event(ContentOf[w], tail[w]) IN
       audit' = IF \E event \in audit : event.sequence = next.sequence
                THEN audit ELSE audit \cup {next}
  /\ UNCHANGED tail

(* INSERT ... ON CONFLICT(event_id) DO NOTHING; event_id is the hash. *)
Append(w) ==
  /\ Goto(w, "tailRead", "appended")
  /\ LET next == Event(ContentOf[w], tail[w]) IN
       audit' = IF \E event \in audit : EventHash(event) = EventHash(next)
                THEN audit ELSE audit \cup {next}
  /\ UNCHANGED tail

(* A statement throws, or the process dies: nothing is rolled back. *)
Fail(w) ==
  /\ \E from \in {"new", "unique", "tailRead"} : Goto(w, from, "failed")
  /\ UNCHANGED <<audit, tail>>

Next == \E w \in Writers : FindDuplicate(w) \/ ReadTail(w) \/ Append(w) \/ Fail(w)

Spec == Init /\ [][Next]_vars

-----------------------------------------------------------------------------
(* Whatever the interleaving, the event of a write that returned is in the *)
(* chain: neither the search for a duplicate nor the conflict on event_id  *)
(* swallows one.                                                           *)
NothingSwallowed == \A w \in Writers : phase[w] = "appended" => Told(ContentOf[w])

(* Every event names the hash of a row one place before it: the rows form  *)
(* a tree that hangs together from its first events.                       *)
LinksResolve == \A event \in audit : FollowsFrom(audit, event)

(* What the documentation says and the code does not keep: see the known   *)
(* limits in README.md.                                                    *)

(* docs/history/tasks/16-unified-audit-logging.md:25-27: the rows form one *)
(* hash chain, in which stageStateAuditChainFailures finds no failure.     *)
SubmissionChainIntact == ChainIntact(audit)
=============================================================================
