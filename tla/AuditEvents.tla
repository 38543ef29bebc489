----------------------------- MODULE AuditEvents -----------------------------
(***************************************************************************)
(* The rows of stage_state_audit_events: hash-chained events, one chain    *)
(* for each (deployment_id, environment_stage).                            *)
(* (deployment-stage-state-audit.ts, deployment-stage-state-audit-chain.ts)*)
(***************************************************************************)
EXTENDS Integers

(* fingerprintValue over the content hash and the previous event's hash:   *)
(* SHA-256 is taken to be injective.                                       *)
EventHash(event) == <<event.content, event.previousHash>>

(* The row SELECT ... ORDER BY audit_sequence DESC LIMIT 1 returns. *)
IsLatest(rows, event) == event \in rows /\ \A other \in rows : other.sequence <= event.sequence

(* The sequence number and hash the next event is built from: those of the *)
(* latest row, or none.                                                    *)
NoTail == [sequence |-> 0, hash |-> <<>>]
IsTail(rows, tail) ==
  \/ rows = {} /\ tail = NoTail
  \/ \E event \in rows :
       IsLatest(rows, event) /\ tail = [sequence |-> event.sequence, hash |-> EventHash(event)]

(* Mutant of Event: it is not linked. *)
EventUnlinked(content, tail) ==
  [content |-> content, sequence |-> tail.sequence + 1, previousHash |-> NoTail.hash]

Event(content, tail) ==
  [content |-> content, sequence |-> tail.sequence + 1, previousHash |-> tail.hash]

(* stageStateAuditChainFailures finds no failure: read in the order of     *)
(* their sequence numbers the events count 1, 2, 3, ... and each names the *)
(* hash of the one before it.                                              *)
FollowsFrom(rows, event) ==
  \/ event.sequence = 1 /\ event.previousHash = NoTail.hash
  \/ \E previous \in rows :
       /\ previous.sequence = event.sequence - 1
       /\ event.previousHash = EventHash(previous)
ChainIntact(rows) ==
  /\ \A event \in rows : event.sequence >= 1 /\ FollowsFrom(rows, event)
  /\ \A e1, e2 \in rows : e1.sequence = e2.sequence => e1 = e2
=============================================================================
