------------------------ MODULE SubmissionAudit_proofs ------------------------
(***************************************************************************)
(* What appends outside a transaction still guarantee, for any number of   *)
(* writers.  One fact carries the argument: rows are only ever added, so   *)
(* the event a writer has read stays in the chain until it appends.        *)
(***************************************************************************)
EXTENDS SubmissionAudit, TLAPS

(* The tail a writer read is that of an event in the chain, or none. *)
TailOf(event) == [sequence |-> event.sequence, hash |-> EventHash(event)]
TailsKnown ==
  \A w \in Writers : tail[w] = NoTail \/ \E event \in audit : tail[w] = TailOf(event)

IInv == TypeOK /\ NothingSwallowed /\ LinksResolve /\ TailsKnown

-----------------------------------------------------------------------------
(* An event built from a known tail links to a row of the chain. *)
LEMMA NextFollows ==
  ASSUME NEW w \in Writers, TypeOK, TailsKnown, NEW next, next = Event(ContentOf[w], tail[w])
  PROVE  next.sequence \in Nat \ {0} /\ FollowsFrom(audit, next)
<1>1. next.sequence = tail[w].sequence + 1 /\ next.previousHash = tail[w].hash
  BY DEF Event
<1>2. tail[w].sequence \in Nat
  BY DEF TypeOK
<1>3. CASE tail[w] = NoTail
  BY <1>1, <1>3 DEF NoTail, FollowsFrom
<1>4. CASE \E event \in audit : tail[w] = TailOf(event)
  <2>1. PICK event \in audit : tail[w] = TailOf(event)
    BY <1>4
  <2>2. tail[w].sequence = event.sequence /\ tail[w].hash = EventHash(event)
    BY <2>1 DEF TailOf
  <2>3. event.sequence = next.sequence - 1
    BY <1>1, <1>2, <2>2
  <2>4. FollowsFrom(audit, next)
    BY <1>1, <2>2, <2>3 DEF FollowsFrom
  <2> QED BY <1>1, <1>2, <2>4
<1> QED BY <1>3, <1>4 DEF TailsKnown

(* A link that resolves keeps resolving when rows are added. *)
LEMMA LinkStays ==
  ASSUME NEW rows, NEW more, rows \subseteq more, NEW event, FollowsFrom(rows, event)
  PROVE  FollowsFrom(more, event)
BY DEF FollowsFrom

(* Rows with one hash have one content. *)
LEMMA SameHash ==
  ASSUME NEW e1, NEW e2, EventHash(e1) = EventHash(e2)
  PROVE  e1.content = e2.content
BY DEF EventHash

-----------------------------------------------------------------------------
LEMMA Initially == Init => IInv
BY DEF Init, IInv, TypeOK, Phases, NothingSwallowed, LinksResolve, TailsKnown, NoTail

(* An append keeps the invariant. *)
LEMMA AppendKeeps ==
  ASSUME IInv, NEW w \in Writers, Append(w)
  PROVE  IInv'
<1> DEFINE next == Event(ContentOf[w], tail[w])
<1>1. phase' = [phase EXCEPT ![w] = "appended"] /\ tail' = tail
  BY DEF Append, Goto
<1>2. \/ audit' = audit /\ \E event \in audit : EventHash(event) = EventHash(next)
      \/ audit' = audit \cup {next}
  BY DEF Append
<1>3. next.sequence \in Nat \ {0} /\ FollowsFrom(audit, next)
  BY NextFollows DEF IInv
<1>4. audit \subseteq audit'
  BY <1>2
<1>5. TypeOK'
  BY <1>1, <1>2, <1>3 DEF IInv, TypeOK, Phases
<1>6. Told(ContentOf[w])'
  <2>1. next.content = ContentOf[w]
    BY DEF Event
  <2>2. CASE audit' = audit \cup {next}
    BY <2>1, <2>2 DEF Told
  <2>3. CASE audit' = audit /\ \E event \in audit : EventHash(event) = EventHash(next)
    BY <2>1, <2>3, SameHash DEF Told
  <2> QED BY <1>2, <2>2, <2>3
<1>7. NothingSwallowed'
  <2> SUFFICES ASSUME NEW o \in Writers, phase'[o] = "appended"
               PROVE  Told(ContentOf[o])'
    BY DEF NothingSwallowed
  <2>1. CASE o = w
    BY <1>6, <2>1
  <2>2. CASE o # w
    <3>1. phase[o] = "appended"
      BY <1>1, <2>2 DEF IInv, TypeOK
    <3> QED BY <1>4, <3>1 DEF IInv, NothingSwallowed, Told
  <2> QED BY <2>1, <2>2
<1>8. LinksResolve'
  <2> SUFFICES ASSUME NEW event \in audit'
               PROVE  FollowsFrom(audit', event)
    BY DEF LinksResolve
  <2>1. FollowsFrom(audit, event)
    BY <1>2, <1>3 DEF IInv, LinksResolve
  <2> QED BY <1>4, <2>1, LinkStays
<1>9. TailsKnown'
  BY <1>1, <1>4 DEF IInv, TailsKnown
<1> QED BY <1>5, <1>7, <1>8, <1>9 DEF IInv

LEMMA StepKeeps == IInv /\ [Next]_vars => IInv'
<1> SUFFICES ASSUME IInv, [Next]_vars
             PROVE  IInv'
  OBVIOUS
<1> USE DEF IInv, TypeOK, Phases
<1>1. ASSUME NEW w \in Writers, FindDuplicate(w)
      PROVE  IInv'
  <2>1. /\ phase' = [phase EXCEPT ![w] = IF Told(ContentOf[w]) THEN "appended" ELSE "unique"]
        /\ audit' = audit /\ tail' = tail
    BY <1>1 DEF FindDuplicate, Goto
  <2>2. NothingSwallowed'
    BY <2>1 DEF NothingSwallowed, Told
  <2> QED BY <2>1, <2>2 DEF LinksResolve, TailsKnown
<1>2. ASSUME NEW w \in Writers, ReadTail(w)
      PROVE  IInv'
  <2>1. phase' = [phase EXCEPT ![w] = "tailRead"] /\ audit' = audit
    BY <1>2 DEF ReadTail, Goto
  <2>2. PICK t : /\ t = NoTail \/ \E event \in audit : t = TailOf(event)
                 /\ tail' = [tail EXCEPT ![w] = t]
    BY <1>2 DEF ReadTail, TailOf
  <2>3. t.sequence \in Nat
    BY <2>2 DEF NoTail, TailOf
  <2>4. TypeOK'
    BY <2>1, <2>2, <2>3
  <2>5. NothingSwallowed' /\ LinksResolve'
    BY <2>1 DEF NothingSwallowed, Told, LinksResolve
  <2>6. TailsKnown'
    BY <2>1, <2>2 DEF TailsKnown
  <2> QED BY <2>4, <2>5, <2>6
<1>3. ASSUME NEW w \in Writers, Append(w)
      PROVE  IInv'
  BY <1>3, AppendKeeps
<1>4. ASSUME NEW w \in Writers, Fail(w)
      PROVE  IInv'
  <2>1. phase' = [phase EXCEPT ![w] = "failed"] /\ audit' = audit /\ tail' = tail
    BY <1>4 DEF Fail, Goto
  <2> QED BY <2>1 DEF NothingSwallowed, Told, LinksResolve, TailsKnown
<1>5. CASE UNCHANGED vars
  BY <1>5 DEF vars, NothingSwallowed, Told, LinksResolve, TailsKnown
<1> QED BY <1>1, <1>2, <1>3, <1>4, <1>5 DEF Next

(* The inductive invariant of the appends outside a transaction. *)
THEOREM Invariance == Spec => []IInv
BY Initially, StepKeeps, PTL DEF Spec

(* Sequence numbers count from one, whatever appends interleave. *)
THEOREM TypeCorrect == Spec => []TypeOK
<1>1. IInv => TypeOK
  BY DEF IInv
<1> QED BY <1>1, Invariance, PTL

(* No event of a write that returned is lost (appendAuditEvent). *)
THEOREM NoneSwallowed == Spec => []NothingSwallowed
<1>1. IInv => NothingSwallowed
  BY DEF IInv
<1> QED BY <1>1, Invariance, PTL

(* Every event names the hash of a row one place before it: the chain may  *)
(* fork, but it is never torn.                                             *)
THEOREM NeverTorn == Spec => []LinksResolve
<1>1. IInv => LinksResolve
  BY DEF IInv
<1> QED BY <1>1, Invariance, PTL
=============================================================================
