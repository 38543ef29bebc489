------------------------ MODULE ChallengedSubmit_proofs ------------------------
(***************************************************************************)
(* What ChallengedSubmit's runs check, for any number of attempts,         *)
(* submissions, keys and challenges.                                       *)
(*                                                                         *)
(* The inductive invariant says of each kind of row what the lock on it    *)
(* buys: while a transaction holds it there is no committed row, and no    *)
(* other transaction holds it; and that a committed row is that of the     *)
(* accepted attempt until somebody with the same row has taken back by     *)
(* hand.                                                                   *)
(***************************************************************************)
EXTENDS ChallengedSubmit, TLAPS

Undoing == {"unspend", "queue", "submissions", "snapshots", "idempotency"}

(* Only an attempt that failed after its insert takes back, and it is      *)
(* refused then.                                                           *)
Marked ==
  \A a \in Attempts :
    /\ Undid(a) => att[a].pc \in Undoing \cup {"reject", "refused", "died"}
    /\ att[a].pc \in Undoing => Undid(a)

(* An accepted attempt does nothing more to rows. *)
Settled ==
  \A a \in accepted : ~Undid(a) /\ att[a].pc \in {"answered", "reject", "refused", "died"}

KeyLocked ==
  \A a \in Attempts : HoldsKey(a) =>
    /\ idempotency[Key(a)] = Nobody
    /\ \A b \in Attempts : b # a /\ HoldsKey(b) => Key(b) # Key(a)

ChallengeLocked ==
  \A a \in Attempts : HoldsChallenge(a) =>
    /\ used[att[a].challenge] = Nobody
    /\ \A b \in Attempts : b # a /\ HoldsChallenge(b) => att[b].challenge # att[a].challenge

SubLocked ==
  \A a \in Attempts : HoldsSub(a) =>
    /\ SlotsFree(a)
    /\ \A b \in Attempts : b # a /\ HoldsSub(b) => att[b].sub # att[a].sub

KeyUndone(a) == \E r \in Attempts : Undid(r) /\ Key(r) = Key(a)
ChallengeUndone(a) == \E r \in Attempts : Undid(r) /\ att[r].challenge = att[a].challenge
SubUndone(a) == \E r \in Attempts : Undid(r) /\ att[r].sub = att[a].sub

KeyKept == \A a \in accepted : idempotency[Key(a)] = a \/ KeyUndone(a)
ChallengeKept == \A a \in accepted : used[att[a].challenge] = a \/ ChallengeUndone(a)
SubKept == \A a \in accepted : (\A t \in Tables : tables[t][att[a].sub] = a) \/ SubUndone(a)

KeyRows ==
  \A k \in Keys \cup Subs :
    idempotency[k] # Nobody => idempotency[k] \in accepted /\ Key(idempotency[k]) = k
ChallengeRows ==
  \A c \in Challenges : used[c] # Nobody => used[c] \in accepted
SubRows ==
  \A t \in Tables, s \in Subs :
    tables[t][s] # Nobody => tables[t][s] \in accepted /\ att[tables[t][s]].sub = s

Tells(a, c) ==
  \/ Key(c) = Key(a) /\ Content(c) = Content(a)
  \/ SubUndone(c)
Told ==
  \A a, c \in Attempts : att[a].answer = c => c \in accepted /\ Tells(a, c)

IInv ==
  /\ ChallengeTypeOK
  /\ Marked /\ Settled
  /\ KeyLocked /\ ChallengeLocked /\ SubLocked
  /\ KeyKept /\ ChallengeKept /\ SubKept
  /\ KeyRows /\ ChallengeRows /\ SubRows
  /\ Told

-----------------------------------------------------------------------------
(* What a request asks for does not change, and who has taken back stays   *)
(* marked.                                                                 *)
Lasting ==
  \A b \in Attempts :
    /\ att'[b].sub = att[b].sub
    /\ att'[b].key = att[b].key
    /\ att'[b].body = att[b].body
    /\ att'[b].challenge = att[b].challenge
    /\ att[b].undid => att'[b].undid

Others(a) == \A b \in Attempts \ {a} : att'[b] = att[b]

LEMMA KeyIsRow ==
  ASSUME ChallengeTypeOK, NEW a \in Attempts
  PROVE  Key(a) \in Keys \cup Subs
  BY DEF ChallengeTypeOK, Handlers, Key

LEMMA LastingKeeps ==
  ASSUME Lasting, NEW b \in Attempts
  PROVE  /\ Key(b)' = Key(b)
         /\ Content(b)' = Content(b)
         /\ Undid(b) => Undid(b)'
         /\ KeyUndone(b) => KeyUndone(b)'
         /\ ChallengeUndone(b) => ChallengeUndone(b)'
         /\ SubUndone(b) => SubUndone(b)'
<1>1. \A r \in Attempts : Key(r)' = Key(r)
  BY DEF Lasting, Key
<1>2. Content(b)' = Content(b)
  BY DEF Lasting, Content
<1>3. KeyUndone(b) => KeyUndone(b)'
  BY <1>1 DEF KeyUndone, Lasting, Undid
<1>4. ChallengeUndone(b) => ChallengeUndone(b)'
  BY DEF ChallengeUndone, Lasting, Undid
<1>5. SubUndone(b) => SubUndone(b)'
  BY DEF SubUndone, Lasting, Undid
<1> QED
  BY <1>1, <1>2, <1>3, <1>4, <1>5 DEF Lasting, Undid

(* A step that moves one handler, and what it may gain by it. *)
Moves(a) ==
  /\ UNCHANGED rows
  /\ Others(a)
  /\ Lasting
  /\ att' \in [Attempts -> Handlers]
  /\ att'[a].undid => att'[a].pc \in Undoing \cup {"reject", "refused", "died"}
  /\ att'[a].pc \in Undoing => att'[a].undid
  /\ a \in accepted => /\ ~att'[a].undid
                       /\ att'[a].pc \in {"answered", "reject", "refused", "died"}
  /\ att'[a].pc \in {"spend", "persist", "commit"} =>
       \/ HoldsKey(a)
       \/ /\ idempotency[Key(a)] = Nobody
          /\ \A b \in Attempts : HoldsKey(b) => Key(b) # Key(a)
  /\ att'[a].pc \in {"persist", "commit"} =>
       \/ HoldsChallenge(a)
       \/ /\ used[att[a].challenge] = Nobody
          /\ \A b \in Attempts : HoldsChallenge(b) => att[b].challenge # att[a].challenge
  /\ att'[a].pc = "commit" =>
       \/ HoldsSub(a)
       \/ /\ SlotsFree(a)
          /\ \A b \in Attempts : HoldsSub(b) => att[b].sub # att[a].sub
  /\ \/ att'[a].answer = att[a].answer
     \/ /\ Target(a) # Nobody
        /\ ~Conflicts(a)
        /\ Found(a) # Nobody
        /\ att'[a].answer = Found(a)

LEMMA GoIs ==
  ASSUME ChallengeTypeOK, NEW a \in Attempts, NEW pc \in Steps, Go(a, pc)
  PROVE  /\ Others(a) /\ Lasting
         /\ att' \in [Attempts -> Handlers]
         /\ att'[a].pc = pc /\ att'[a].undid = att[a].undid /\ att'[a].answer = att[a].answer
<1>1. att[a] \in Handlers
  BY DEF ChallengeTypeOK
<1>2. att'[a] = [att[a] EXCEPT !.pc = pc] /\ Others(a)
  BY DEF ChallengeTypeOK, Go, Others
<1>3. [att[a] EXCEPT !.pc = pc] \in Handlers
  BY <1>1 DEF Handlers
<1>4. att' \in [Attempts -> Handlers]
  BY <1>2, <1>3 DEF ChallengeTypeOK, Go
<1>5. Lasting
  BY <1>1, <1>2 DEF Lasting, Handlers, Others
<1> QED
  BY <1>1, <1>2, <1>4, <1>5 DEF Handlers

LEMMA AnswerIs ==
  ASSUME ChallengeTypeOK, NEW a \in Attempts, NEW b \in Writers, Answer(a, b)
  PROVE  /\ Others(a) /\ Lasting
         /\ att' \in [Attempts -> Handlers]
         /\ att'[a].pc = "answered" /\ att'[a].undid = att[a].undid /\ att'[a].answer = b
<1>1. att[a] \in Handlers
  BY DEF ChallengeTypeOK
<1>2. att'[a] = [att[a] EXCEPT !.pc = "answered", !.answer = b] /\ Others(a)
  BY DEF ChallengeTypeOK, Answer, Others
<1>3. [att[a] EXCEPT !.pc = "answered", !.answer = b] \in Handlers
  BY <1>1 DEF Handlers, Steps
<1>4. att' \in [Attempts -> Handlers]
  BY <1>2, <1>3 DEF ChallengeTypeOK, Answer
<1>5. Lasting
  BY <1>1, <1>2 DEF Lasting, Handlers, Others
<1> QED
  BY <1>1, <1>2, <1>4, <1>5 DEF Handlers

(* It fails and begins to take back. *)
Fails(a, pc) == att' = [att EXCEPT ![a].pc = pc, ![a].undid = TRUE]

LEMMA FailsIs ==
  ASSUME ChallengeTypeOK, NEW a \in Attempts, NEW pc \in Steps, Fails(a, pc)
  PROVE  /\ Others(a) /\ Lasting
         /\ att' \in [Attempts -> Handlers]
         /\ att'[a].pc = pc /\ att'[a].undid = TRUE /\ att'[a].answer = att[a].answer
<1>1. att[a] \in Handlers
  BY DEF ChallengeTypeOK
<1>2. att'[a] = [att[a] EXCEPT !.pc = pc, !.undid = TRUE] /\ Others(a)
  BY DEF ChallengeTypeOK, Fails, Others
<1>3. [att[a] EXCEPT !.pc = pc, !.undid = TRUE] \in Handlers
  BY <1>1 DEF Handlers
<1>4. att' \in [Attempts -> Handlers]
  BY <1>2, <1>3 DEF ChallengeTypeOK, Fails
<1>5. Lasting
  <2>1. /\ att'[a].sub = att[a].sub /\ att'[a].key = att[a].key /\ att'[a].body = att[a].body
        /\ att'[a].challenge = att[a].challenge /\ att'[a].undid = TRUE
    BY <1>1, <1>2 DEF Handlers
  <2> QED
    BY <1>2, <2>1 DEF Lasting, Others
<1> QED
  BY <1>1, <1>2, <1>4, <1>5 DEF Handlers

-----------------------------------------------------------------------------
(* What each step that leaves the rows alone may gain. *)
LEMMA ReuseMoves ==
  ASSUME IInv, NEW a \in Attempts, NEW next \in {"verify", "check", "spend"},
         att[a].pc \in {"new", "lookup", "insert"}, Reuse(a, next), UNCHANGED rows,
         next = "spend" => \A b \in Attempts : HoldsKey(b) => Key(b) # Key(a)
  PROVE  Moves(a)
<1>0. ChallengeTypeOK /\ ~Undid(a) /\ a \notin accepted
  BY DEF IInv, Marked, Settled, Undoing
<1>1. CASE Target(a) = Nobody /\ Go(a, next)
  <2>1. next \in Steps
    BY DEF Steps
  <2> QED
    BY <1>0, <1>1, <2>1, GoIs DEF Moves, Undid, Undoing, Target
<1>2. CASE Target(a) # Nobody /\ Go(a, "reject")
  <2>1. "reject" \in Steps
    BY DEF Steps
  <2> QED
    BY <1>0, <1>2, <2>1, GoIs DEF Moves, Undid, Undoing
<1>3. CASE Target(a) # Nobody /\ ~Conflicts(a) /\ Found(a) # Nobody /\ Answer(a, Found(a))
  <2>1. Target(a) \in Attempts
    BY <1>0, <1>3, KeyIsRow DEF ChallengeTypeOK, Target, Writers
  <2>2. att[Target(a)].sub \in Subs
    BY <1>0, <2>1 DEF ChallengeTypeOK, Handlers
  <2>3. Found(a) \in Writers
    BY <1>0, <2>2 DEF ChallengeTypeOK, Found, Tables
  <2> QED
    BY <1>0, <1>3, <2>3, AnswerIs DEF Moves, Undid, Undoing
<1> QED
  BY <1>1, <1>2, <1>3 DEF Reuse

LEMMA GoMoves ==
  ASSUME IInv, NEW a \in Attempts, NEW pc \in Steps, Go(a, pc), UNCHANGED rows,
         \/ ~Undid(a) /\ pc \notin Undoing
         \/ pc \in {"reject", "refused", "died"},
         a \in accepted => pc \in {"answered", "reject", "refused", "died"},
         pc \notin {"spend", "persist", "commit"}
  PROVE  Moves(a)
BY GoIs DEF Moves, IInv, Settled, Undid, Undoing

LEMMA GainMoves ==
  ASSUME IInv, NEW a \in Attempts, NEW pc \in {"persist", "commit"}, Go(a, pc), UNCHANGED rows,
         HoldsKey(a),
         \/ HoldsChallenge(a)
         \/ /\ used[att[a].challenge] = Nobody
            /\ \A b \in Attempts : HoldsChallenge(b) => att[b].challenge # att[a].challenge,
         pc = "commit" =>
           /\ SlotsFree(a)
           /\ \A b \in Attempts : HoldsSub(b) => att[b].sub # att[a].sub
  PROVE  Moves(a)
<1>1. ~Undid(a) /\ a \notin accepted /\ ChallengeTypeOK
  BY DEF IInv, Marked, Settled, Undoing, HoldsKey
<1>2. pc \in Steps
  BY DEF Steps
<1> QED
  BY <1>1, <1>2, GoIs DEF Moves, Undid, Undoing

LEMMA FailsMoves ==
  ASSUME IInv, NEW a \in Attempts, NEW pc \in {"unspend", "queue"}, Fails(a, pc), HoldsKey(a),
         UNCHANGED rows
  PROVE  Moves(a)
<1>1. a \notin accepted /\ ChallengeTypeOK
  BY DEF IInv, Settled, HoldsKey
<1>2. pc \in Steps
  BY DEF Steps, Deletes, Tables
<1> QED
  BY <1>1, <1>2, FailsIs DEF Moves, Undoing

Quiet(a) ==
  \/ Arrive(a) \/ Verify(a) \/ Prepare(a) \/ Lookup(a) \/ Check(a) \/ InsertKey(a)
  \/ Spend(a) \/ Persist(a) \/ Fail(a) \/ Clean(a) \/ CleanFails(a) \/ Crash(a)

LEMMA QuietMoves ==
  ASSUME IInv, NEW a \in Attempts, Quiet(a)
  PROVE  Moves(a)
<1> USE DEF rows
<1>0. ChallengeTypeOK /\ att[a] \in Handlers
  BY DEF IInv, ChallengeTypeOK
<1>s. /\ {"prepare", "lookup", "reject", "refused", "died"} \subseteq Steps
      /\ "insert" \in Steps
  BY DEF Steps
<1>e. att[a].pc \notin Undoing \cup {"reject", "refused", "died", "answered"}
        => ~Undid(a) /\ a \notin accepted
  BY DEF IInv, Marked, Settled
<1>1. CASE Arrive(a)
  BY <1>1, ReuseMoves DEF Arrive
<1>2. CASE Verify(a)
  BY <1>2, <1>s, <1>e, GoMoves DEF Verify, Undoing
<1>3. CASE Prepare(a)
  BY <1>3, <1>s, <1>e, GoMoves DEF Prepare, Undoing
<1>4. CASE Lookup(a)
  BY <1>4, ReuseMoves DEF Lookup
<1>5. CASE Check(a)
  <2>1. CASE Go(a, "reject")
    BY <1>5, <2>1, <1>s, <1>e, GoMoves DEF Check, Undoing
  <2>2. ASSUME NEW at \in {Latest, Latest + 1} \cap 1 .. MaxTime,
               att' = [att EXCEPT ![a].pc = "insert", ![a].at = at]
        PROVE  Moves(a)
    <3>1. att'[a] = [att[a] EXCEPT !.pc = "insert", !.at = at] /\ Others(a)
      BY <1>0, <2>2 DEF Others, ChallengeTypeOK
    <3>2. at \in 0 .. MaxTime
      BY ChallengedAssumption
    <3>h. att'[a] \in Handlers
      BY <1>0, <1>s, <3>1, <3>2 DEF Handlers
    <3>3. att' \in [Attempts -> Handlers]
      BY <1>0, <2>2, <3>1, <3>h DEF ChallengeTypeOK
    <3>4. Lasting
      BY <1>0, <3>1 DEF Lasting, Handlers, Others
    <3>5. att'[a].pc = "insert" /\ att'[a].undid = att[a].undid /\ att'[a].answer = att[a].answer
      BY <1>0, <3>1 DEF Handlers
    <3> QED
      BY <1>5, <1>e, <3>1, <3>3, <3>4, <3>5 DEF Check, Moves, Undoing, Undid
  <2> QED
    BY <1>5, <2>1, <2>2 DEF Check
<1>6. CASE InsertKey(a)
  BY <1>6, ReuseMoves DEF InsertKey
<1>7. CASE Spend(a)
  <2>1. HoldsKey(a)
    BY <1>7 DEF Spend, HoldsKey
  <2>2. CASE used[att[a].challenge] = Nobody
    BY <1>7, <2>1, <2>2, GainMoves DEF Spend
  <2>3. CASE used[att[a].challenge] # Nobody
    BY <1>7, <2>1, <2>3, FailsMoves DEF Spend, Fails
  <2> QED
    BY <2>2, <2>3
<1>8. CASE Persist(a)
  <2>1. HoldsKey(a) /\ HoldsChallenge(a)
    BY <1>8 DEF Persist, HoldsKey, HoldsChallenge
  <2>2. CASE SlotsFree(a)
    BY <1>8, <2>1, <2>2, GainMoves DEF Persist
  <2>3. CASE ~SlotsFree(a)
    BY <1>8, <2>1, <2>3, FailsMoves DEF Persist, Fails
  <2> QED
    BY <2>2, <2>3
<1>9. CASE Fail(a)
  <2>1. CASE HoldsKey(a)
    <3>1. \E pc \in {"unspend", "queue"} : Fails(a, pc)
      BY <1>9, <2>1 DEF Fail, Fails
    <3> QED
      BY <1>9, <2>1, <3>1, FailsMoves DEF Fail
  <2>2. CASE ~HoldsKey(a)
    <3>0. ~HoldsChallenge(a) /\ (HoldsKey(a) <=> FALSE)
      BY <2>2 DEF HoldsKey, HoldsChallenge
    <3>a. (CASE HoldsChallenge(a) -> "unspend" [] HoldsKey(a) -> "queue" [] OTHER -> "reject")
            = "reject"
      BY <3>0
    <3>b. HoldsKey(a) = FALSE
      BY <3>0 DEF HoldsKey
    <3>1. att' = [att EXCEPT ![a].pc = "reject", ![a].undid = FALSE]
      BY <1>9, <3>a, <3>b DEF Fail
    <3>2. ~Undid(a) /\ a \notin accepted
      BY <1>9, <1>e DEF Fail, Undoing
    <3>3. att'[a] = [att[a] EXCEPT !.pc = "reject", !.undid = FALSE] /\ Others(a)
      BY <1>0, <3>1 DEF Others, ChallengeTypeOK
    <3>h. att'[a] \in Handlers
      BY <1>0, <1>s, <3>3 DEF Handlers
    <3>4. att' \in [Attempts -> Handlers]
      BY <1>0, <3>1, <3>3, <3>h DEF ChallengeTypeOK
    <3>l. /\ att'[a].sub = att[a].sub /\ att'[a].key = att[a].key
          /\ att'[a].body = att[a].body /\ att'[a].challenge = att[a].challenge
      BY <1>0, <3>3, SMTT(30) DEF Handlers
    <3>m. \A b \in Attempts : b # a => att'[b] = att[b]
      BY <3>3 DEF Others
    <3>5. Lasting
      BY <3>2, <3>l, <3>m DEF Lasting, Undid
    <3>6. att'[a].pc = "reject" /\ att'[a].undid = FALSE /\ att'[a].answer = att[a].answer
      BY <1>0, <3>3 DEF Handlers
    <3> QED
      BY <1>9, <3>2, <3>3, <3>4, <3>5, <3>6 DEF Fail, Moves, Undoing
  <2> QED
    BY <2>1, <2>2
<1>10. CASE Clean(a)
  BY <1>10, <1>s, GoMoves DEF Clean
<1>11. CASE CleanFails(a)
  BY <1>11, <1>s, GoMoves DEF CleanFails
<1>12. CASE Crash(a)
  BY <1>12, <1>s, GoMoves DEF Crash
<1> QED
  BY <1>1, <1>2, <1>3, <1>4, <1>5, <1>6, <1>7, <1>8, <1>9, <1>10, <1>11, <1>12 DEF Quiet

-----------------------------------------------------------------------------
LEMMA SameHolds ==
  ASSUME NEW a, Others(a), NEW b \in Attempts, b # a
  PROVE  /\ HoldsKey(b)' <=> HoldsKey(b)
         /\ HoldsChallenge(b)' <=> HoldsChallenge(b)
         /\ HoldsSub(b)' <=> HoldsSub(b)
         /\ Undid(b)' <=> Undid(b)
  BY DEF Others, HoldsKey, HoldsChallenge, HoldsSub, Undid

(* The parts of the invariant about rows that were committed survive any   *)
(* step that leaves the rows alone and keeps the marks.                    *)
LEMMA RowsKeep ==
  ASSUME IInv, Lasting, UNCHANGED rows
  PROVE  (KeyKept /\ ChallengeKept /\ SubKept /\ KeyRows /\ ChallengeRows /\ SubRows)'
<1> USE DEF rows
<1>0. /\ KeyKept /\ ChallengeKept /\ SubKept /\ KeyRows /\ ChallengeRows /\ SubRows
      /\ accepted \subseteq Attempts
  BY DEF IInv, ChallengeTypeOK
<1>1. KeyKept'
  BY <1>0, LastingKeeps DEF KeyKept
<1>2. ChallengeKept'
  <2> SUFFICES ASSUME NEW c \in accepted
               PROVE  used[att'[c].challenge] = c \/ ChallengeUndone(c)'
    BY DEF ChallengeKept
  <2> QED
    BY <1>0, LastingKeeps DEF ChallengeKept, Lasting
<1>3. SubKept'
  <2> SUFFICES ASSUME NEW c \in accepted
               PROVE  (\A t \in Tables : tables[t][att'[c].sub] = c) \/ SubUndone(c)'
    BY DEF SubKept
  <2>1. att'[c].sub = att[c].sub /\ (SubUndone(c) => SubUndone(c)')
    BY <1>0, LastingKeeps DEF Lasting
  <2> QED
    BY <1>0, <2>1 DEF SubKept
<1>4. KeyRows'
  BY <1>0, LastingKeeps DEF KeyRows
<1>5. ChallengeRows'
  BY <1>0 DEF ChallengeRows
<1>6. SubRows'
  BY <1>0 DEF SubRows, Lasting
<1> QED
  BY <1>1, <1>2, <1>3, <1>4, <1>5, <1>6

LEMMA MovesKeep ==
  ASSUME IInv, NEW a \in Attempts, Moves(a), ChallengeTypeOK'
  PROVE  IInv'
<1> USE DEF rows
<1>0. /\ ChallengeTypeOK /\ Others(a) /\ Lasting /\ UNCHANGED rows /\ accepted \subseteq Attempts
  BY DEF Moves, IInv, ChallengeTypeOK
<1>1. Marked'
  BY <1>0 DEF IInv, Moves, Marked, Others, Undid
<1>2. Settled'
  BY <1>0 DEF IInv, Moves, Settled, Others, Undid
<1>3. KeyLocked'
  <2>1. ASSUME NEW b \in Attempts, HoldsKey(b)'
        PROVE  /\ idempotency[Key(b)] = Nobody
               /\ \A c \in Attempts : c # b /\ HoldsKey(c)' => Key(c) # Key(b)
    <3>1. CASE b = a
      <4>1. /\ idempotency[Key(a)] = Nobody
            /\ \A c \in Attempts : c # a /\ HoldsKey(c) => Key(c) # Key(a)
        BY <2>1, <3>1 DEF IInv, Moves, KeyLocked, HoldsKey
      <4> QED
        BY <1>0, <3>1, <4>1, SameHolds
    <3>2. CASE b # a
      <4>1. HoldsKey(b)
        BY <1>0, <2>1, <3>2, SameHolds
      <4>2. HoldsKey(a)' => Key(a) # Key(b)
        BY <3>2, <4>1 DEF IInv, Moves, KeyLocked, HoldsKey
      <4> QED
        BY <1>0, <4>1, <4>2, SameHolds DEF IInv, KeyLocked
    <3> QED
      BY <3>1, <3>2
  <2> QED
    BY <1>0, <2>1, LastingKeeps DEF KeyLocked
<1>4. ChallengeLocked'
  <2>1. ASSUME NEW b \in Attempts, HoldsChallenge(b)'
        PROVE  /\ used[att[b].challenge] = Nobody
               /\ \A c \in Attempts : c # b /\ HoldsChallenge(c)'
                                        => att[c].challenge # att[b].challenge
    <3>1. CASE b = a
      <4>1. /\ used[att[a].challenge] = Nobody
            /\ \A c \in Attempts : c # a /\ HoldsChallenge(c) => att[c].challenge # att[a].challenge
        BY <2>1, <3>1 DEF IInv, Moves, ChallengeLocked, HoldsChallenge
      <4> QED
        BY <1>0, <3>1, <4>1, SameHolds
    <3>2. CASE b # a
      <4>1. HoldsChallenge(b)
        BY <1>0, <2>1, <3>2, SameHolds
      <4>2. HoldsChallenge(a)' => att[a].challenge # att[b].challenge
        BY <3>2, <4>1 DEF IInv, Moves, ChallengeLocked, HoldsChallenge
      <4> QED
        BY <1>0, <4>1, <4>2, SameHolds DEF IInv, ChallengeLocked
    <3> QED
      BY <3>1, <3>2
  <2> QED
    BY <1>0, <2>1 DEF ChallengeLocked, Lasting
<1>5. SubLocked'
  <2>1. ASSUME NEW b \in Attempts, HoldsSub(b)'
        PROVE  /\ SlotsFree(b)
               /\ \A c \in Attempts : c # b /\ HoldsSub(c)' => att[c].sub # att[b].sub
    <3>1. CASE b = a
      <4>1. /\ SlotsFree(a)
            /\ \A c \in Attempts : c # a /\ HoldsSub(c) => att[c].sub # att[a].sub
        BY <2>1, <3>1 DEF IInv, Moves, SubLocked, HoldsSub
      <4> QED
        BY <1>0, <3>1, <4>1, SameHolds
    <3>2. CASE b # a
      <4>1. HoldsSub(b)
        BY <1>0, <2>1, <3>2, SameHolds
      <4>2. HoldsSub(a)' => att[a].sub # att[b].sub
        BY <3>2, <4>1 DEF IInv, Moves, SubLocked, HoldsSub
      <4> QED
        BY <1>0, <4>1, <4>2, SameHolds DEF IInv, SubLocked
    <3> QED
      BY <3>1, <3>2
  <2>2. \A b \in Attempts : SlotsFree(b)' <=> SlotsFree(b)
    BY <1>0 DEF SlotsFree, Lasting
  <2> QED
    BY <1>0, <2>1, <2>2 DEF SubLocked, Lasting
<1>6. Told'
  <2>0. SubRows /\ KeyRows /\ SubKept /\ Told
    BY DEF IInv
  <2>k. \A b, c \in Attempts : Tells(b, c) => Tells(b, c)'
    BY <1>0, LastingKeeps DEF Tells
  <2> SUFFICES ASSUME NEW b \in Attempts, NEW c \in Attempts, att'[b].answer = c
               PROVE  c \in accepted /\ Tells(b, c)
    BY <1>0, <2>k DEF Told
  <2>1. CASE att'[b].answer = att[b].answer
    BY <2>0, <2>1 DEF Told
  <2>2. CASE att'[b].answer # att[b].answer
    <3>1. /\ b = a /\ Target(a) # Nobody /\ ~Conflicts(a) /\ c # Nobody
          /\ c = Found(a)
      BY <2>2, ChallengedAssumption DEF Moves, Others
    <3> DEFINE t == Target(a)
    <3>2. t \in accepted /\ Key(t) = Key(a) /\ Content(t) = Content(a) /\ t \in Attempts
      BY <1>0, <2>0, <3>1, KeyIsRow DEF KeyRows, Target, Conflicts
    <3>3. att[t].sub \in Subs /\ "submissions" \in Tables
      BY <1>0, <3>2 DEF ChallengeTypeOK, Handlers, Tables
    <3>4. c \in accepted /\ att[c].sub = att[t].sub
      BY <1>0, <2>0, <3>1, <3>3 DEF SubRows, Found
    <3>5. CASE c = t
      BY <3>1, <3>2, <3>5 DEF Tells
    <3>6. CASE c # t
      <4>1. SubUndone(t)
        BY <2>0, <3>1, <3>2, <3>3, <3>6 DEF SubKept, Found
      <4> QED
        BY <3>4, <4>1 DEF SubUndone, Tells
    <3> QED
      BY <3>5, <3>6
  <2> QED
    BY <2>1, <2>2
<1> QED
  BY <1>0, <1>1, <1>2, <1>3, <1>4, <1>5, <1>6, RowsKeep DEF IInv

-----------------------------------------------------------------------------
(* COMMIT *)
LEMMA CommitKeeps ==
  ASSUME IInv, NEW a \in Attempts, att[a].pc = "commit", Committed(a),
         Others(a), Lasting, att'[a].undid = att[a].undid,
         att'[a].pc \in {"answered", "reject"},
         att'[a].answer \in {a, att[a].answer}, ChallengeTypeOK'
  PROVE  IInv'
<1>0. /\ ChallengeTypeOK /\ accepted \subseteq Attempts /\ a \notin accepted /\ ~Undid(a)
      /\ HoldsKey(a) /\ HoldsChallenge(a) /\ HoldsSub(a) /\ att[a] \in Handlers
  BY DEF IInv, ChallengeTypeOK, Settled, Marked, Undoing, HoldsKey, HoldsChallenge, HoldsSub
<1>1. /\ idempotency[Key(a)] = Nobody
      /\ used[att[a].challenge] = Nobody
      /\ SlotsFree(a)
  BY <1>0 DEF IInv, KeyLocked, ChallengeLocked, SubLocked
<1>2. ~HoldsKey(a)' /\ ~HoldsChallenge(a)' /\ ~HoldsSub(a)'
  BY DEF HoldsKey, HoldsChallenge, HoldsSub
<1>3. /\ \A k \in Keys \cup Subs : idempotency'[k] = IF k = Key(a) THEN a ELSE idempotency[k]
      /\ \A c \in Challenges : used'[c] = IF c = att[a].challenge THEN a ELSE used[c]
      /\ \A t \in Tables, s \in Subs :
           tables'[t][s] = IF s = att[a].sub THEN a ELSE tables[t][s]
      /\ accepted' = accepted \cup {a}
  BY <1>0 DEF ChallengeTypeOK, Committed
<1>4. \A b \in Attempts : /\ Key(b) \in Keys \cup Subs
                          /\ att[b].challenge \in Challenges
                          /\ att[b].sub \in Subs
  BY <1>0, KeyIsRow DEF ChallengeTypeOK, Handlers
<1>5. Marked'
  BY <1>0 DEF IInv, Marked, Others, Undid, Undoing
<1>6. Settled'
  BY <1>0, <1>3 DEF IInv, Settled, Others, Undid
<1>7. KeyLocked'
  <2> SUFFICES ASSUME NEW b \in Attempts, b # a, HoldsKey(b)
               PROVE  /\ idempotency'[Key(b)] = Nobody
                      /\ \A c \in Attempts : c # b /\ HoldsKey(c)' => Key(c) # Key(b)
    BY <1>2, SameHolds, LastingKeeps DEF KeyLocked
  <2> QED
    BY <1>0, <1>2, <1>3, <1>4, SameHolds DEF IInv, KeyLocked
<1>8. ChallengeLocked'
  <2> SUFFICES ASSUME NEW b \in Attempts, b # a, HoldsChallenge(b)
               PROVE  /\ used'[att[b].challenge] = Nobody
                      /\ \A c \in Attempts : c # b /\ HoldsChallenge(c)'
                                               => att[c].challenge # att[b].challenge
    BY <1>2, SameHolds DEF ChallengeLocked, Lasting
  <2> QED
    BY <1>0, <1>2, <1>3, <1>4, SameHolds DEF IInv, ChallengeLocked
<1>9. SubLocked'
  <2> SUFFICES ASSUME NEW b \in Attempts, b # a, HoldsSub(b)
               PROVE  /\ \A t \in Tables : tables'[t][att[b].sub] = Nobody
                      /\ \A c \in Attempts : c # b /\ HoldsSub(c)' => att[c].sub # att[b].sub
    BY <1>2, SameHolds DEF SubLocked, SlotsFree, Lasting
  <2> QED
    BY <1>0, <1>2, <1>3, <1>4, SameHolds DEF IInv, SubLocked, SlotsFree
<1>10. KeyKept'
  <2> SUFFICES ASSUME NEW c \in accepted \cup {a}
               PROVE  idempotency'[Key(c)] = c \/ KeyUndone(c)'
    BY <1>0, <1>3, LastingKeeps DEF KeyKept
  <2>1. c \in accepted => c # Nobody
    BY <1>0, ChallengedAssumption
  <2> QED
    BY <1>0, <1>1, <1>3, <1>4, <2>1, LastingKeeps DEF IInv, KeyKept
<1>11. ChallengeKept'
  <2> SUFFICES ASSUME NEW c \in accepted \cup {a}
               PROVE  used'[att[c].challenge] = c \/ ChallengeUndone(c)'
    BY <1>0, <1>3 DEF ChallengeKept, Lasting
  <2>1. c \in accepted => c # Nobody
    BY <1>0, ChallengedAssumption
  <2> QED
    BY <1>0, <1>1, <1>3, <1>4, <2>1, LastingKeeps DEF IInv, ChallengeKept
<1>12. SubKept'
  <2> SUFFICES ASSUME NEW c \in accepted \cup {a}
               PROVE  (\A t \in Tables : tables'[t][att[c].sub] = c) \/ SubUndone(c)'
    BY <1>0, <1>3 DEF SubKept, Lasting
  <2>1. c \in accepted => c # Nobody
    BY <1>0, ChallengedAssumption
  <2>2. Tables # {}
    BY DEF Tables
  <2>3. CASE c \in accepted
    <3>1. CASE att[c].sub = att[a].sub
      <4>1. \A t \in Tables : tables[t][att[c].sub] # c
        BY <1>1, <2>1, <2>3, <3>1 DEF SlotsFree
      <4> QED
        BY <1>0, <2>2, <2>3, <4>1, LastingKeeps DEF IInv, SubKept
    <3>2. CASE att[c].sub # att[a].sub
      BY <1>0, <1>3, <1>4, <2>3, <3>2, LastingKeeps DEF IInv, SubKept
    <3> QED
      BY <3>1, <3>2
  <2>4. CASE c = a
    BY <1>3, <1>4, <2>4
  <2> QED
    BY <2>3, <2>4
<1>13. KeyRows'
  <2> SUFFICES ASSUME NEW k \in Keys \cup Subs, idempotency'[k] # Nobody
               PROVE  idempotency'[k] \in accepted' /\ Key(idempotency'[k]) = k
    <3>1. \A c \in Attempts : Key(c)' = Key(c)
      BY LastingKeeps
    <3> QED
      BY <1>0, <1>3, <3>1 DEF KeyRows
  <2> QED
    BY <1>3 DEF IInv, KeyRows
<1>14. ChallengeRows'
  BY <1>3 DEF IInv, ChallengeRows
<1>15. SubRows'
  <2> SUFFICES ASSUME NEW t \in Tables, NEW s \in Subs, tables'[t][s] # Nobody
               PROVE  tables'[t][s] \in accepted' /\ att[tables'[t][s]].sub = s
    BY <1>0, <1>3 DEF SubRows, Lasting
  <2> QED
    BY <1>3 DEF IInv, SubRows
<1>16. Told'
  <2>k. \A b, c \in Attempts : Tells(b, c) => Tells(b, c)'
    BY <1>0, LastingKeeps DEF Tells
  <2>1. Tells(a, a)
    BY DEF Tells
  <2> QED
    BY <1>0, <1>3, <2>k, <2>1 DEF IInv, Told, Others
<1> QED
  BY <1>5, <1>6, <1>7, <1>8, <1>9, <1>10, <1>11, <1>12, <1>13, <1>14, <1>15, <1>16 DEF IInv

-----------------------------------------------------------------------------
(* Taking back: rows of the attempt's key, challenge and submission go. *)
LEMMA TakingBackKeeps ==
  ASSUME IInv, NEW a \in Attempts, att[a].pc \in Undoing,
         NEW pc \in Undoing \cup {"reject"}, Go(a, pc), accepted' = accepted,
         \A c \in Challenges : used'[c] = used[c] \/ (c = att[a].challenge /\ used'[c] = Nobody),
         \A k \in Keys \cup Subs :
           idempotency'[k] = idempotency[k] \/ (k = Key(a) /\ idempotency'[k] = Nobody),
         \A t \in Tables, s \in Subs :
           tables'[t][s] = tables[t][s] \/ (s = att[a].sub /\ tables'[t][s] = Nobody),
         ChallengeTypeOK'
  PROVE  IInv'
<1>1. /\ ChallengeTypeOK /\ accepted \subseteq Attempts /\ Undid(a) /\ a \notin accepted
  BY DEF IInv, ChallengeTypeOK, Marked, Settled
<1>2. pc \in Steps
  BY DEF Undoing, Steps, Deletes, Tables
<1>3. /\ Others(a) /\ Lasting /\ att'[a].pc = pc /\ att'[a].undid = att[a].undid
      /\ att'[a].answer = att[a].answer
  BY <1>1, <1>2, GoIs
<1>4. \A b \in Attempts : /\ Key(b) \in Keys \cup Subs
                          /\ att[b].challenge \in Challenges
                          /\ att[b].sub \in Subs
  BY <1>1, KeyIsRow DEF ChallengeTypeOK, Handlers
<1>5. ~HoldsKey(a)' /\ ~HoldsChallenge(a)' /\ ~HoldsSub(a)'
  BY <1>3 DEF HoldsKey, HoldsChallenge, HoldsSub, Undoing
<1>6. Marked' /\ Settled'
  <2>1. \A b \in Attempts : b # a => att'[b] = att[b]
    BY <1>3 DEF Others
  <2>2. att'[a].undid /\ att'[a].pc \in Undoing \cup {"reject", "refused", "died"}
    BY <1>1, <1>3 DEF Undid
  <2>3. Marked'
    BY <2>1, <2>2 DEF IInv, Marked, Undid
  <2>4. Settled'
    BY <1>1, <2>1 DEF IInv, Settled, Undid
  <2> QED
    BY <2>3, <2>4
<1>7. KeyLocked'
  <2> SUFFICES ASSUME NEW b \in Attempts, b # a, HoldsKey(b)
               PROVE  /\ idempotency'[Key(b)] = Nobody
                      /\ \A c \in Attempts : c # b /\ HoldsKey(c)' => Key(c) # Key(b)
    BY <1>3, <1>5, SameHolds, LastingKeeps DEF KeyLocked
  <2> QED
    BY <1>3, <1>4, <1>5, SameHolds DEF IInv, KeyLocked
<1>8. ChallengeLocked'
  <2> SUFFICES ASSUME NEW b \in Attempts, b # a, HoldsChallenge(b)
               PROVE  /\ used'[att[b].challenge] = Nobody
                      /\ \A c \in Attempts : c # b /\ HoldsChallenge(c)'
                                               => att[c].challenge # att[b].challenge
    BY <1>3, <1>5, SameHolds DEF ChallengeLocked, Lasting
  <2> QED
    BY <1>3, <1>4, <1>5, SameHolds DEF IInv, ChallengeLocked
<1>9. SubLocked'
  <2> SUFFICES ASSUME NEW b \in Attempts, b # a, HoldsSub(b)
               PROVE  /\ \A t \in Tables : tables'[t][att[b].sub] = Nobody
                      /\ \A c \in Attempts : c # b /\ HoldsSub(c)' => att[c].sub # att[b].sub
    BY <1>3, <1>5, SameHolds DEF SubLocked, SlotsFree, Lasting
  <2> QED
    BY <1>3, <1>4, <1>5, SameHolds DEF IInv, SubLocked, SlotsFree
<1>10. KeyKept'
  <2> SUFFICES ASSUME NEW c \in accepted
               PROVE  idempotency'[Key(c)] = c \/ KeyUndone(c)
    BY <1>1, <1>3, LastingKeeps DEF KeyKept
  <2>1. Key(c) = Key(a) => KeyUndone(c)
    BY <1>1 DEF KeyUndone
  <2> QED
    BY <1>1, <1>4, <2>1 DEF IInv, KeyKept
<1>11. ChallengeKept'
  <2> SUFFICES ASSUME NEW c \in accepted
               PROVE  used'[att[c].challenge] = c \/ ChallengeUndone(c)
    BY <1>1, <1>3, LastingKeeps DEF ChallengeKept, Lasting
  <2>1. att[c].challenge = att[a].challenge => ChallengeUndone(c)
    BY <1>1 DEF ChallengeUndone
  <2> QED
    BY <1>1, <1>4, <2>1 DEF IInv, ChallengeKept
<1>12. SubKept'
  <2> SUFFICES ASSUME NEW c \in accepted
               PROVE  (\A t \in Tables : tables'[t][att[c].sub] = c) \/ SubUndone(c)
    BY <1>1, <1>3, LastingKeeps DEF SubKept, Lasting
  <2>1. att[c].sub = att[a].sub => SubUndone(c)
    BY <1>1 DEF SubUndone
  <2> QED
    BY <1>1, <1>4, <2>1 DEF IInv, SubKept
<1>13. KeyRows'
  <2>1. \A c \in Attempts : Key(c)' = Key(c)
    BY <1>3, LastingKeeps
  <2> QED
    BY <1>1, <2>1 DEF IInv, KeyRows
<1>14. ChallengeRows'
  BY DEF IInv, ChallengeRows
<1>15. SubRows'
  <2> SUFFICES ASSUME NEW t \in Tables, NEW s \in Subs, tables'[t][s] # Nobody
               PROVE  tables'[t][s] \in accepted /\ att[tables'[t][s]].sub = s
    BY <1>1, <1>3 DEF SubRows, Lasting
  <2> QED
    BY DEF IInv, SubRows
<1>16. Told'
  <2>k. \A b, c \in Attempts : Tells(b, c) => Tells(b, c)'
    BY <1>3, LastingKeeps DEF Tells
  <2> QED
    BY <1>3, <2>k DEF IInv, Told, Others
<1> QED
  BY <1>6, <1>7, <1>8, <1>9, <1>10, <1>11, <1>12, <1>13, <1>14, <1>15, <1>16 DEF IInv

-----------------------------------------------------------------------------
LEMMA FaultCounts ==
  ASSUME faults \in 0 .. MaxFaults, NEW kind, Fault(kind)
  PROVE  faults' \in 0 .. MaxFaults
  BY ChallengedAssumption DEF Fault

LEMMA TypeStep ==
  ASSUME IInv, [Next]_challengedVars
  PROVE  ChallengeTypeOK'
<1>0. ChallengeTypeOK
  BY DEF IInv
<1>1. CASE UNCHANGED challengedVars
  BY <1>0, <1>1 DEF ChallengeTypeOK, challengedVars
<1>2. ASSUME NEW c \in Challenges, Expire(c)
      PROVE  ChallengeTypeOK'
  BY <1>0, <1>2 DEF ChallengeTypeOK, Expire
<1>3. ASSUME NEW a \in Attempts, Issue(a)
      PROVE  ChallengeTypeOK'
  <2>1. Content(a) \in Contents
    BY <1>0 DEF ChallengeTypeOK, Handlers, Content, Contents
  <2> QED
    BY <1>0, <1>3, <2>1 DEF ChallengeTypeOK, Issue
<1>4. ASSUME NEW a \in Attempts, Quiet(a)
      PROVE  ChallengeTypeOK'
  <2>1. att' \in [Attempts -> Handlers] /\ UNCHANGED rows
    BY <1>4, QuietMoves DEF Moves
  <2>2. faults' \in 0 .. MaxFaults /\ UNCHANGED <<bound, expired>>
    BY <1>0, <1>4, FaultCounts
    DEF Quiet, Arrive, Verify, Prepare, Lookup, Check, InsertKey, Spend, Persist, Fail, Clean,
        CleanFails, Crash, ChallengeTypeOK
  <2>3. att[a].body \in Bodies
    BY <1>0 DEF ChallengeTypeOK, Handlers
  <2>4. staged' \subseteq Bodies /\ janitor' \subseteq Bodies
    BY <1>0, <1>4, <2>3
    DEF Quiet, Arrive, Verify, Prepare, Lookup, Check, InsertKey, Spend, Persist, Fail, Clean,
        CleanFails, Crash, ChallengeTypeOK
  <2> QED
    BY <1>0, <2>1, <2>2, <2>4 DEF ChallengeTypeOK, rows
<1>5. ASSUME NEW a \in Attempts, Committed(a), faults' \in 0 .. MaxFaults,
             att' \in [Attempts -> Handlers], UNCHANGED <<bound, expired, staged, janitor>>
      PROVE  ChallengeTypeOK'
  <2>1. tables' \in [Tables -> [Subs -> Writers]]
    BY <1>0, <1>5 DEF ChallengeTypeOK, Committed, Writers
  <2>2. used' \in [Challenges -> Writers] /\ idempotency' \in [Keys \cup Subs -> Writers]
    BY <1>0, <1>5 DEF ChallengeTypeOK, Committed, Writers
  <2> QED
    BY <1>0, <1>5, <2>1, <2>2 DEF ChallengeTypeOK, Committed
<1>6. ASSUME NEW a \in Attempts, Commit(a)
      PROVE  ChallengeTypeOK'
  <2>1. a \in Writers
    BY DEF Writers
  <2> QED
    BY <1>0, <1>5, <1>6, <2>1, AnswerIs DEF Commit, ChallengeTypeOK
<1>7. ASSUME NEW a \in Attempts, CommitLost(a)
      PROVE  ChallengeTypeOK'
  <2>1. "reject" \in Steps
    BY DEF Steps
  <2> QED
    BY <1>0, <1>5, <1>7, <2>1, GoIs, FaultCounts DEF CommitLost, ChallengeTypeOK
<1>8. ASSUME NEW a \in Attempts, Unspend(a)
      PROVE  ChallengeTypeOK'
  <2>1. "queue" \in Steps
    BY DEF Steps, Deletes, Tables
  <2>2. att' \in [Attempts -> Handlers]
    BY <1>0, <1>8, <2>1, GoIs DEF Unspend
  <2> QED
    BY <1>0, <1>8, <2>2 DEF Unspend, ChallengeTypeOK, Writers
<1>9. ASSUME NEW a \in Attempts, Delete(a)
      PROVE  ChallengeTypeOK'
  <2>1. NextDelete(att[a].pc) \in Steps
    BY <1>9 DEF Delete, NextDelete, Steps, Deletes, Tables
  <2>2. att' \in [Attempts -> Handlers]
    BY <1>0, <1>9, <2>1, GoIs DEF Delete
  <2>3. tables' \in [Tables -> [Subs -> Writers]]
    BY <1>0, <1>9 DEF Delete, ChallengeTypeOK, Writers
  <2>4. idempotency' \in [Keys \cup Subs -> Writers]
    BY <1>0, <1>9 DEF Delete, ChallengeTypeOK, Writers
  <2> QED
    BY <1>0, <1>9, <2>2, <2>3, <2>4 DEF Delete, ChallengeTypeOK
<1> QED
  BY <1>1, <1>2, <1>3, <1>4, <1>6, <1>7, <1>8, <1>9
  DEF Next, Handle, Quiet, Finished

LEMMA UntouchedKeeps ==
  ASSUME IInv, UNCHANGED <<att, used, idempotency, tables, accepted>>, ChallengeTypeOK'
  PROVE  IInv'
BY DEF IInv, Marked, Settled, KeyLocked, ChallengeLocked, SubLocked, KeyKept, ChallengeKept,
       SubKept, KeyRows, ChallengeRows, SubRows, Told, Tells, Key, Content, Undid, HoldsKey,
       HoldsChallenge, HoldsSub, SlotsFree, KeyUndone, ChallengeUndone, SubUndone

LEMMA Begins == Init => IInv
<1> SUFFICES ASSUME Init PROVE IInv
  OBVIOUS
<1>1. ChallengeTypeOK
  BY ChallengedAssumption DEF Init, ChallengeTypeOK, Writers
<1>2. \A a \in Attempts : att[a].pc = "new" /\ ~Undid(a) /\ att[a].answer = Nobody
  BY DEF Init, Undid
<1>3. Marked /\ Settled /\ KeyKept /\ ChallengeKept /\ SubKept
  BY <1>2 DEF Init, Marked, Settled, KeyKept, ChallengeKept, SubKept, Undoing
<1>4. KeyLocked /\ ChallengeLocked /\ SubLocked
  BY <1>2 DEF KeyLocked, ChallengeLocked, SubLocked, HoldsKey, HoldsChallenge, HoldsSub
<1>5. KeyRows /\ ChallengeRows /\ SubRows
  BY DEF Init, KeyRows, ChallengeRows, SubRows
<1>6. Told
  BY <1>2, ChallengedAssumption DEF Told
<1> QED
  BY <1>1, <1>3, <1>4, <1>5, <1>6 DEF IInv

LEMMA Keeps == IInv /\ [Next]_challengedVars => IInv'
<1> SUFFICES ASSUME IInv, [Next]_challengedVars PROVE IInv'
  OBVIOUS
<1>0. ChallengeTypeOK /\ ChallengeTypeOK'
  BY TypeStep DEF IInv
<1>1. CASE UNCHANGED challengedVars
  BY <1>0, <1>1, UntouchedKeeps DEF challengedVars
<1>2. ASSUME NEW c \in Challenges, Expire(c)
      PROVE  IInv'
  BY <1>0, <1>2, UntouchedKeeps DEF Expire
<1>3. ASSUME NEW a \in Attempts, Issue(a)
      PROVE  IInv'
  BY <1>0, <1>3, UntouchedKeeps DEF Issue
<1>4. ASSUME NEW a \in Attempts, Quiet(a)
      PROVE  IInv'
  BY <1>0, <1>4, QuietMoves, MovesKeep
<1>5. ASSUME NEW a \in Attempts, Commit(a)
      PROVE  IInv'
  <2>1. a \in Writers
    BY DEF Writers
  <2> QED
    BY <1>0, <1>5, <2>1, AnswerIs, CommitKeeps DEF Commit
<1>6. ASSUME NEW a \in Attempts, CommitLost(a)
      PROVE  IInv'
  <2>1. "reject" \in Steps
    BY DEF Steps
  <2> QED
    BY <1>0, <1>6, <2>1, GoIs, CommitKeeps DEF CommitLost
<1>7. ASSUME NEW a \in Attempts, Unspend(a)
      PROVE  IInv'
  <2>1. /\ att[a].pc \in Undoing /\ "queue" \in Undoing \cup {"reject"} /\ Go(a, "queue")
        /\ UNCHANGED <<accepted, idempotency, tables>>
    BY <1>7 DEF Unspend, Undoing
  <2>2. \A c \in Challenges : used'[c] = used[c] \/ (c = att[a].challenge /\ used'[c] = Nobody)
    BY <1>0, <1>7 DEF Unspend, ChallengeTypeOK
  <2> QED
    BY <1>0, <2>1, <2>2, TakingBackKeeps
<1>8. ASSUME NEW a \in Attempts, Delete(a)
      PROVE  IInv'
  <2> DEFINE pc == NextDelete(att[a].pc)
  <2>1. /\ att[a].pc \in Undoing /\ pc \in Undoing \cup {"reject"} /\ Go(a, pc)
        /\ UNCHANGED <<accepted, used>>
    BY <1>8 DEF Delete, Undoing, Deletes, Tables, NextDelete
  <2>2. \A k \in Keys \cup Subs :
          idempotency'[k] = idempotency[k] \/ (k = Key(a) /\ idempotency'[k] = Nobody)
    BY <1>0, <1>8 DEF Delete, ChallengeTypeOK
  <2>3. \A t \in Tables, s \in Subs :
          tables'[t][s] = tables[t][s] \/ (s = att[a].sub /\ tables'[t][s] = Nobody)
    BY <1>0, <1>8 DEF Delete, ChallengeTypeOK
  <2> HIDE DEF pc
  <2> QED
    BY <1>0, <2>1, <2>2, <2>3, TakingBackKeeps
<1> QED
  BY <1>1, <1>2, <1>3, <1>4, <1>5, <1>6, <1>7, <1>8 DEF Next, Handle, Quiet, Finished

(* The invariant holds in every reachable state. *)
THEOREM Invariance == Spec => []IInv
  BY Begins, Keeps, PTL DEF Spec

(* The handlers, rows and bounds keep their types. *)
THEOREM TypeCorrect == Spec => []ChallengeTypeOK
<1>1. IInv => ChallengeTypeOK
  BY DEF IInv
<1> QED
  BY <1>1, Invariance, PTL

(* Of the attempts that carry a challenge one at most is accepted, unless  *)
(* one of them took back by hand after a rollback.                         *)
THEOREM OneUse == Spec => []OneUsePerChallenge
<1>1. IInv => OneUsePerChallenge
  <2> SUFFICES ASSUME IInv, NEW a \in accepted, NEW b \in accepted, a # b,
                      att[a].challenge = att[b].challenge
               PROVE  ChallengeUndone(a)
    BY DEF OneUsePerChallenge, ChallengeUndone
  <2>1. ChallengeUndone(b) => ChallengeUndone(a)
    BY DEF ChallengeUndone
  <2> QED
    BY <2>1 DEF IInv, ChallengeKept
<1> QED
  BY <1>1, Invariance, PTL

(* A key is accepted once, and retries are answered with what it was       *)
(* accepted for, unless somebody with that key took back by hand.          *)
THEOREM OnePerKey == Spec => []OneAcceptPerKey
<1>1. IInv => OneAcceptPerKey
  <2> SUFFICES ASSUME IInv PROVE OneAcceptPerKey
    OBVIOUS
  <2>1. ASSUME NEW a \in accepted, NEW b \in accepted, a # b, Key(a) = Key(b)
        PROVE  \E r \in Attempts : Undid(r) /\ Key(r) = Key(a)
    <3>1. KeyUndone(b) => KeyUndone(a)
      BY <2>1 DEF KeyUndone
    <3> QED
      BY <2>1, <3>1 DEF IInv, KeyKept, KeyUndone
  <2>2. ASSUME NEW a \in Attempts, att[a].answer # Nobody
        PROVE  att[a].answer \in Attempts
    BY <2>2 DEF IInv, ChallengeTypeOK, Handlers, Writers
  <2>3. ASSUME NEW a \in Attempts, att[a].answer # Nobody
        PROVE  att[a].answer \in accepted /\ Tells(a, att[a].answer)
    BY <2>2, <2>3 DEF IInv, Told
  <2> QED
    BY <2>1, <2>3 DEF OneAcceptPerKey, Tells, SubUndone
<1> QED
  BY <1>1, Invariance, PTL

(* An acceptance is whole and stays, unless somebody it met took back by   *)
(* hand; and there is no row without an acceptance.                        *)
THEOREM Whole == Spec => []AcceptedIsWhole
<1>1. IInv => AcceptedIsWhole
  <2> SUFFICES ASSUME IInv PROVE AcceptedIsWhole
    OBVIOUS
  <2>1. ASSUME NEW a \in accepted
        PROVE  \/ /\ used[att[a].challenge] = a
                  /\ idempotency[Key(a)] = a
                  /\ \A t \in Tables : tables[t][att[a].sub] = a
               \/ \E r \in Attempts : Undid(r) /\ Meet(r, a)
    BY DEF IInv, KeyKept, ChallengeKept, SubKept, KeyUndone, ChallengeUndone, SubUndone, Meet
  <2>2. /\ \A c \in Challenges : used[c] \in accepted \cup {Nobody}
        /\ \A k \in Keys \cup Subs : idempotency[k] \in accepted \cup {Nobody}
        /\ \A t \in Tables, s \in Subs : tables[t][s] \in accepted \cup {Nobody}
    BY DEF IInv, KeyRows, ChallengeRows, SubRows
  <2> QED
    BY <2>1, <2>2 DEF AcceptedIsWhole
<1> QED
  BY <1>1, Invariance, PTL
=============================================================================
