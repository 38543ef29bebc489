--------------------------- MODULE ChallengedSubmit ---------------------------
(***************************************************************************)
(* Submissions with an uploaded artifact: the client asks for a one-time   *)
(* challenge, proves its request with it, and the service accepts the      *)
(* request, spends the challenge and queues the run in one transaction.    *)
(*                                                                         *)
(*  - acceptChallengedNixosSharedHostSubmit  (...-challenged-submit)       *)
(*  - acceptChallengedArtifactSubmission     (...-submit-transaction)      *)
(*  - reuseChallengedArtifactSubmissionIfPresent  (...-submit-idempotency) *)
(*  - createDeploymentArtifactChallenge      (...-artifact-challenges)     *)
(*  - cleanupRejectedStagedArtifacts         (...-staged-artifact-cleanup) *)
(*                                                                         *)
(* The transaction runs at PostgreSQL's default level, READ COMMITTED: a   *)
(* statement sees what is committed when it starts, and one that meets a   *)
(* row another transaction is about to write waits for its end.  What a    *)
(* transaction has written and not committed follows from where it stands. *)
(***************************************************************************)
EXTENDS Integers, FiniteSets

CONSTANTS Attempts,    \* submit calls the service handles
          Subs,        \* submission ids
          Keys,        \* idempotency keys clients choose
          Bodies,      \* the rest of a request, its staged directory included
          Challenges,  \* challenge ids
          Nobody,      \* no attempt
          NoKey,       \* a request without a key
          Faults,      \* what may go wrong: "error", "lost", "crash", "keep"
          MaxFaults,
          MaxTime      \* bound on the times of attempts

ASSUME ChallengedAssumption ==
  /\ Nobody \notin Attempts
  /\ NoKey \notin Keys
  /\ Keys \cap Subs = {}
  /\ MaxTime \in Nat \ {0}
  /\ MaxFaults \in Nat

VARIABLES att,         \* attempt -> where its handler stands
          bound,       \* challenge -> contents of the request it was issued for
          expired,     \* challenges past their two minutes
          used,        \* challenge -> attempt that spent it (used_at)
          idempotency, \* key -> attempt whose submission is its target
          tables,      \* table -> submission id -> attempt that wrote the row
          staged,      \* bodies whose upload lies in the staging directory
          janitor,     \* bodies with a janitor record
          accepted,    \* attempts whose transaction was committed (history)
          faults

challengedVars ==
  <<att, bound, expired, used, idempotency, tables, staged, janitor, accepted, faults>>
rows == <<used, idempotency, tables, accepted>>

-----------------------------------------------------------------------------
Contents == [key : Keys \cup {NoKey}, body : Bodies]
Tables == {"queue", "submissions", "snapshots"}
Deletes == Tables \cup {"idempotency"}
Writers == Attempts \cup {Nobody}

(* idempotencyKey || submissionId *)
Key(a) == IF att[a].key = NoKey THEN att[a].sub ELSE att[a].key
Content(a) == [key |-> att[a].key, body |-> att[a].body]

Over(a) == att[a].pc \in {"answered", "refused", "died"}

(* The locks of a's transaction: it has inserted the key, updated the      *)
(* challenge, inserted the rows of its submission.                         *)
HoldsKey(a) == att[a].pc \in {"spend", "persist", "commit"}
HoldsChallenge(a) == att[a].pc \in {"persist", "commit"}
HoldsSub(a) == att[a].pc = "commit"

(* a failed after it had inserted its key: it deletes by submission and by *)
(* key, in statements of their own, once its transaction is rolled back.   *)
Undid(a) == att[a].undid

Steps == {"new", "verify", "prepare", "lookup", "check", "insert", "spend", "persist", "commit",
          "unspend", "reject", "answered", "refused", "died"} \cup Deletes

Handlers == [pc : Steps, sub : Subs, key : Keys \cup {NoKey}, body : Bodies,
             challenge : Challenges, at : 0 .. MaxTime, answer : Writers, undid : BOOLEAN]

ChallengeTypeOK ==
  /\ att \in [Attempts -> Handlers]
  /\ bound \in [Challenges -> Contents \cup {Nobody}]
  /\ expired \subseteq Challenges
  /\ used \in [Challenges -> Writers]
  /\ idempotency \in [Keys \cup Subs -> Writers]
  /\ tables \in [Tables -> [Subs -> Writers]]
  /\ staged \subseteq Bodies
  /\ janitor \subseteq Bodies
  /\ accepted \subseteq Attempts
  /\ faults \in 0 .. MaxFaults

Init ==
  /\ att \in [Attempts -> {h \in Handlers : h.pc = "new" /\ h.at = 0 /\ h.answer = Nobody
                                              /\ h.undid = FALSE}]
  /\ bound = [c \in Challenges |-> Nobody]
  /\ expired = {}
  /\ used = [c \in Challenges |-> Nobody]
  /\ idempotency = [k \in Keys \cup Subs |-> Nobody]
  /\ tables = [t \in Tables |-> [s \in Subs |-> Nobody]]
  /\ staged = Bodies
  /\ janitor = {}
  /\ accepted = {}
  /\ faults = 0

-----------------------------------------------------------------------------
Go(a, pc) == att' = [att EXCEPT ![a].pc = pc]
Answer(a, b) == att' = [att EXCEPT ![a].pc = "answered", ![a].answer = b]

Fault(kind) ==
  /\ kind \in Faults
  /\ faults < MaxFaults
  /\ faults' = faults + 1

(* createDeploymentArtifactChallenge: the client of attempt a, or of one   *)
(* that carries the same challenge, asks before it submits.                *)
Issue(a) ==
  /\ att[a].pc = "new"
  /\ bound[att[a].challenge] = Nobody
  /\ bound' = [bound EXCEPT ![att[a].challenge] = Content(a)]
  /\ UNCHANGED <<att, expired, used, idempotency, tables, staged, janitor, accepted, faults>>

(* Two minutes pass: told only while somebody may still look. *)
Expire(c) ==
  /\ bound[c] # Nobody
  /\ c \notin expired
  /\ \E a \in Attempts :
       att[a].challenge = c /\ att[a].pc \in {"new", "verify", "prepare", "lookup", "check"}
  /\ expired' = expired \cup {c}
  /\ UNCHANGED <<att, bound, used, idempotency, tables, staged, janitor, accepted, faults>>

(* The submission the key of attempt a stands for, if its fingerprint is   *)
(* that of a's request and the document is there.                          *)
Target(a) == idempotency[Key(a)]
Conflicts(a) == Content(Target(a)) # Content(a)
Found(a) == tables["submissions"][att[Target(a)].sub]

(* reuseChallengedArtifactSubmissionIfPresent: a key without a row goes on *)
(* at next, one with a row is answered or refused.                         *)
Reuse(a, next) ==
  \/ /\ Target(a) = Nobody
     /\ Go(a, next)
  \/ /\ Target(a) # Nobody
     /\ IF Conflicts(a) \/ Found(a) = Nobody THEN Go(a, "reject") ELSE Answer(a, Found(a))

(* verifyChallengeRow, verifyArtifactChallengeForSubmit *)
Valid(a) ==
  LET c == att[a].challenge
  IN  /\ bound[c] = Content(a)
      /\ used[c] = Nobody
      /\ c \notin expired

SlotsFree(a) == \A t \in Tables : tables[t][att[a].sub] = Nobody

-----------------------------------------------------------------------------
(* Before the transaction: the key is looked up, the challenge verified,   *)
(* and the staged artifact read and put into the object store.             *)
Arrive(a) ==
  /\ att[a].pc = "new"
  /\ bound[att[a].challenge] # Nobody
  /\ Reuse(a, "verify")
  /\ UNCHANGED <<bound, expired, rows, staged, janitor, faults>>

Verify(a) ==
  /\ att[a].pc = "verify"
  /\ Go(a, IF Valid(a) THEN "prepare" ELSE "reject")
  /\ UNCHANGED <<bound, expired, rows, staged, janitor, faults>>

Prepare(a) ==
  /\ att[a].pc = "prepare"
  /\ Go(a, IF att[a].body \in staged THEN "lookup" ELSE "reject")
  /\ UNCHANGED <<bound, expired, rows, staged, janitor, faults>>

(* BEGIN, and the lookup again *)
Lookup(a) ==
  /\ att[a].pc = "lookup"
  /\ Reuse(a, "check")
  /\ UNCHANGED <<bound, expired, rows, staged, janitor, faults>>

(* The challenge is verified again and no row of the submission may exist. *)
(* verifiedAt is a time in milliseconds, which two attempts may share.     *)
Latest == CHOOSE t \in 0 .. MaxTime :
            /\ \A a \in Attempts : att[a].at <= t
            /\ t = 0 \/ \E a \in Attempts : att[a].at = t

Check(a) ==
  /\ att[a].pc = "check"
  /\ \/ /\ Valid(a) /\ SlotsFree(a)
        /\ \E at \in {Latest, Latest + 1} \cap 1 .. MaxTime :
             att' = [att EXCEPT ![a].pc = "insert", ![a].at = at]
     \/ /\ ~(Valid(a) /\ SlotsFree(a))
        /\ Go(a, "reject")
  /\ UNCHANGED <<bound, expired, rows, staged, janitor, faults>>

(* Mutant of InsertKey: the lookup has found no row, so it is written. *)
InsertAnyway(a) ==
  /\ att[a].pc = "insert"
  /\ Go(a, "spend")
  /\ UNCHANGED <<bound, expired, rows, staged, janitor, faults>>

(* INSERT INTO idempotency ... ON CONFLICT DO NOTHING waits for a          *)
(* transaction that has inserted the key.                                  *)
InsertKey(a) ==
  /\ att[a].pc = "insert"
  /\ \A b \in Attempts : HoldsKey(b) => Key(b) # Key(a)
  /\ Reuse(a, "spend")
  /\ UNCHANGED <<bound, expired, rows, staged, janitor, faults>>

(* Mutants of Spend: the challenge was verified, so it is not asked whether *)
(* it is still unused; it is spent on another connection of the pool.      *)
SpendVerified(a) ==
  /\ att[a].pc = "spend"
  /\ Go(a, "persist")
  /\ UNCHANGED <<bound, expired, rows, staged, janitor, faults>>

SpendAtOnce(a) ==
  /\ att[a].pc = "spend"
  /\ used[att[a].challenge] = Nobody
  /\ used' = [used EXCEPT ![att[a].challenge] = a]
  /\ Go(a, "persist")
  /\ UNCHANGED <<bound, expired, idempotency, tables, staged, janitor, accepted, faults>>

(* UPDATE artifact_challenges ... AND used_at IS NULL *)
Spend(a) ==
  /\ att[a].pc = "spend"
  /\ \A b \in Attempts : HoldsChallenge(b) => att[b].challenge # att[a].challenge
  /\ IF used[att[a].challenge] = Nobody
     THEN Go(a, "persist")
     ELSE att' = [att EXCEPT ![a].pc = "queue", ![a].undid = TRUE]
  /\ UNCHANGED <<bound, expired, rows, staged, janitor, faults>>

(* persistAccepted: the three rows, whose primary key is the submission *)
Persist(a) ==
  /\ att[a].pc = "persist"
  /\ \A b \in Attempts : HoldsSub(b) => att[b].sub # att[a].sub
  /\ IF SlotsFree(a)
     THEN Go(a, "commit")
     ELSE att' = [att EXCEPT ![a].pc = "unspend", ![a].undid = TRUE]
  /\ UNCHANGED <<bound, expired, rows, staged, janitor, faults>>

(* What a's transaction has written is there for all to see. *)
Committed(a) ==
  /\ used' = [used EXCEPT ![att[a].challenge] = a]
  /\ idempotency' = [idempotency EXCEPT ![Key(a)] = a]
  /\ tables' = [t \in Tables |-> [tables[t] EXCEPT ![att[a].sub] = a]]
  /\ accepted' = accepted \cup {a}

Commit(a) ==
  /\ att[a].pc = "commit"
  /\ Committed(a)
  /\ Answer(a, a)
  /\ UNCHANGED <<bound, expired, staged, janitor, faults>>

(* The connection breaks during COMMIT: what follows on it fails as well,  *)
(* and the caller sees an error.                                           *)
CommitLost(a) ==
  /\ att[a].pc = "commit"
  /\ Fault("lost")
  /\ Committed(a)
  /\ Go(a, "reject")
  /\ UNCHANGED <<bound, expired, staged, janitor>>

-----------------------------------------------------------------------------
(* A statement fails: ROLLBACK, and what the handler remembers to have     *)
(* written is taken back by hand.                                          *)
Fail(a) ==
  /\ att[a].pc \in {"lookup", "check", "insert", "spend", "persist", "commit"}
  /\ Fault("error")
  /\ att' = [att EXCEPT ![a].pc = IF HoldsChallenge(a) THEN "unspend"
                                   ELSE IF HoldsKey(a) THEN "queue" ELSE "reject",
                        ![a].undid = HoldsKey(a)]
  /\ UNCHANGED <<bound, expired, rows, staged, janitor>>

(* UPDATE artifact_challenges SET used_at = NULL ... AND used_at = verifiedAt *)
Unspend(a) ==
  LET c == att[a].challenge
  IN  /\ att[a].pc = "unspend"
      /\ used' = IF used[c] # Nobody /\ att[used[c]].at = att[a].at
                 THEN [used EXCEPT ![c] = Nobody] ELSE used
      /\ Go(a, "queue")
      /\ UNCHANGED <<bound, expired, idempotency, tables, staged, janitor, accepted, faults>>

(* The four DELETEs, one after the other on one connection *)
NextDelete(t) ==
  CASE t = "queue"       -> "submissions"
    [] t = "submissions" -> "snapshots"
    [] t = "snapshots"   -> "idempotency"
    [] OTHER             -> "reject"

Delete(a) ==
  /\ att[a].pc \in Deletes
  /\ IF att[a].pc = "idempotency"
     THEN /\ idempotency' = [idempotency EXCEPT ![Key(a)] = Nobody]
          /\ UNCHANGED tables
     ELSE /\ tables' = [tables EXCEPT ![att[a].pc][att[a].sub] = Nobody]
          /\ UNCHANGED idempotency
  /\ Go(a, NextDelete(att[a].pc))
  /\ UNCHANGED <<bound, expired, used, staged, janitor, accepted, faults>>

(* cleanupThenRethrowRejectedNixosSubmit: the upload of a refused request  *)
(* is removed, or a janitor record tells that it could not be.             *)
Clean(a) ==
  /\ att[a].pc = "reject"
  /\ staged' = staged \ {att[a].body}
  /\ Go(a, "refused")
  /\ UNCHANGED <<bound, expired, rows, janitor, faults>>

CleanFails(a) ==
  /\ att[a].pc = "reject"
  /\ Fault("keep")
  /\ janitor' = janitor \cup {att[a].body}
  /\ Go(a, "refused")
  /\ UNCHANGED <<bound, expired, rows, staged>>

(* The service dies: the transaction is gone, and nobody takes back by     *)
(* hand or cleans.                                                         *)
Crash(a) ==
  /\ ~Over(a)
  /\ Fault("crash")
  /\ Go(a, "died")
  /\ UNCHANGED <<bound, expired, rows, staged, janitor>>

-----------------------------------------------------------------------------
Finished ==
  /\ \A a \in Attempts : Over(a)
  /\ UNCHANGED challengedVars

Handle(a) ==
  \/ Issue(a) \/ Arrive(a) \/ Verify(a) \/ Prepare(a)
  \/ Lookup(a) \/ Check(a) \/ InsertKey(a) \/ Spend(a) \/ Persist(a)
  \/ Commit(a) \/ CommitLost(a)
  \/ Fail(a) \/ Unspend(a) \/ Delete(a)
  \/ Clean(a) \/ CleanFails(a) \/ Crash(a)

Next ==
  \/ \E c \in Challenges : Expire(c)
  \/ \E a \in Attempts : Handle(a)
  \/ Finished

Spec == Init /\ [][Next]_challengedVars

-----------------------------------------------------------------------------
(* Two attempts ask for the same row somewhere. *)
Meet(a, b) ==
  \/ Key(a) = Key(b)
  \/ att[a].sub = att[b].sub
  \/ att[a].challenge = att[b].challenge

(* A challenge buys one submission: however attempts that carry it         *)
(* interleave, crash and are retried, one of them at most is accepted.     *)
(* Only one that took back what it had rolled back already can free the    *)
(* challenge again, when its time was that of the attempt that spent it.   *)
OneUsePerChallenge ==
  \A a, b \in accepted :
    a # b /\ att[a].challenge = att[b].challenge
      => \E r \in Attempts : Undid(r) /\ att[r].challenge = att[a].challenge

(* An idempotency key is accepted once, and whoever is answered with an    *)
(* earlier submission asked for the same; except where the rows by which   *)
(* this is known were deleted by an attempt with that key which failed     *)
(* after a rival's commit.                                                 *)
OneAcceptPerKey ==
  /\ \A a, b \in accepted :
       a # b /\ Key(a) = Key(b) => \E r \in Attempts : Undid(r) /\ Key(r) = Key(a)
  /\ \A a \in Attempts :
       att[a].answer # Nobody
         => /\ att[a].answer \in accepted
            /\ \/ Key(att[a].answer) = Key(a) /\ Content(att[a].answer) = Content(a)
               \/ \E r \in Attempts : Undid(r) /\ att[r].sub = att[att[a].answer].sub

(* Acceptance is all or nothing and lasts: the challenge is spent, the key *)
(* taken, and snapshot, submission and queue row written together or not   *)
(* at all, whatever fails between two statements; and they stay until an   *)
(* attempt that met this one takes back what was not its own.              *)
AcceptedIsWhole ==
  /\ \A a \in accepted :
       \/ /\ used[att[a].challenge] = a
          /\ idempotency[Key(a)] = a
          /\ \A t \in Tables : tables[t][att[a].sub] = a
       \/ \E r \in Attempts : Undid(r) /\ Meet(r, a)
  /\ \A c \in Challenges : used[c] \in accepted \cup {Nobody}
  /\ \A k \in Keys \cup Subs : idempotency[k] \in accepted \cup {Nobody}
  /\ \A t \in Tables, s \in Subs : tables[t][s] \in accepted \cup {Nobody}
=============================================================================
