--------------------------- MODULE WasmWatch_proofs ---------------------------
(***************************************************************************)
(* For any number of clients, tasks, daemon processes, changes and faults: *)
(* the types, one daemon at a time, generations that grow, failures that   *)
(* are seen, and acknowledgements that follow the copies they stand for.   *)
(***************************************************************************)
EXTENDS WasmWatch, TLAPS

-----------------------------------------------------------------------------
(* The inductive invariant, by parts. *)

(* A daemon that passed the lock, and has not removed it, is alone. *)
OneDaemon ==
  /\ \A d \in Daemons : Holds(d) => lock["instance"] # "free"
  /\ \A d, e \in Daemons : Holds(d) /\ Holds(e) => d = e

(* The build at hand is the first of its generation, no older than any     *)
(* copy there is, and no newer than the sources.                           *)
BuildIsNext ==
  \A d \in Daemons : daemon[d].pc = "build" =>
    /\ daemon[d].task \in Tasks
    /\ daemon[d].seq > result[daemon[d].task].gen
    /\ daemon[d].built <= source[daemon[d].task].rev
    /\ \A c \in Clients : daemon[d].built >= out[daemon[d].task][c]

(* Copies and requests are no newer than the sources. *)
CopiesAreOlder == \A t \in Tasks, c \in Clients : out[t][c] <= source[t].rev
RequestsAreOlder == \A c \in Clients, t \in Tasks : since[c][t] <= source[t].rev

(* No request is known before it was made. *)
RequestsWereMade ==
  /\ \A c \in Clients : lease[c].req <= client[c].req
  /\ \A t \in Tasks : \A r \in result[t].reqs : r[2] <= client[r[1]].req
  /\ \A d \in Daemons, t \in Tasks : \A r \in daemon[d].subscribed[t] : r[2] <= client[r[1]].req

(* A build for a client's last request began after the request, and the    *)
(* client has its copy unless it is still to get it.                       *)
BuildServes ==
  \A d \in Daemons, c \in Clients :
    /\ daemon[d].pc = "build"
    /\ <<c, client[c].req>> \in daemon[d].subscribed[daemon[d].task]
    /\ client[c].req > 0
    => /\ daemon[d].built >= since[c][daemon[d].task]
       /\ c \in daemon[d].left \/ out[daemon[d].task][c] >= since[c][daemon[d].task]

(* A client has seen no generation that is not there yet. *)
SeenExists == \A c \in Clients, t \in Tasks : client[c].last[t] <= result[t].gen

Served == CopiesAreOlder /\ RequestsAreOlder /\ RequestsWereMade /\ BuildServes /\ AckMeansSynced
Seen   == SeenExists /\ FailureIsSeen
IInv   == WatchTypeOK /\ OneDaemon /\ BuildIsNext /\ Served /\ Seen

-----------------------------------------------------------------------------
(* What is in daemon and client: the types of their parts. *)
LEMMA Parts ==
  ASSUME WatchTypeOK
  PROVE  /\ \A d \in Daemons :
              /\ daemon[d] \in DaemonStates
              /\ daemon[d].subscribed \in [Tasks -> SUBSET RequestIds]
              /\ daemon[d].seq \in Nat /\ daemon[d].built \in Nat
              /\ daemon[d].left \subseteq Clients /\ daemon[d].pending \subseteq Tasks
              /\ daemon[d].prev \in [Tasks -> Fingerprints]
         /\ \A c \in Clients :
              /\ client[c] \in ClientStates
              /\ client[c].req \in Nat
              /\ client[c].last \in [Tasks -> Nat]
              /\ client[c].prev \in [Tasks -> Fingerprints]
              /\ client[c].todo \subseteq Tasks
         /\ \A t \in Tasks :
              /\ source[t] \in Fingerprints
              /\ source[t].rev \in Nat /\ source[t].members \in {0, 1}
              /\ result[t].gen \in Nat /\ result[t].reqs \subseteq RequestIds
BY DEF WatchTypeOK, DaemonStates, ClientStates, Fingerprints

LEMMA FreshIsState == Fresh \in DaemonStates
BY DEF Fresh, DaemonStates, Unread, Fingerprints

LEMMA RequestsAreIds ==
  ASSUME WatchTypeOK, NEW t \in Tasks
  PROVE  Requests(t) \subseteq RequestIds
BY DEF WatchTypeOK, Requests, RequestIds

LEMMA NextGeneration ==
  ASSUME WatchTypeOK, NEW d \in Daemons, NEW t \in Tasks
  PROVE  Generation(d, t) \in Nat /\ Generation(d, t) > result[t].gen
BY Parts DEF Generation, Larger

LEMMA InitIInv == Init => IInv
<1> SUFFICES ASSUME Init PROVE IInv
  OBVIOUS
<1>1. WatchTypeOK
  BY FreshIsState, WatchAssumption
  DEF Init, WatchTypeOK, Fingerprints, RequestIds, ClientStates, Unread, Locks, Changes
<1>2. OneDaemon /\ BuildIsNext
  BY DEF Init, OneDaemon, BuildIsNext, Holds, Fresh
<1>3. Served
  BY DEF Init, Served, CopiesAreOlder, RequestsAreOlder, RequestsWereMade, BuildServes,
         AckMeansSynced, Fresh
<1>4. Seen
  BY DEF Init, Seen, SeenExists, FailureIsSeen
<1> QED
  BY <1>1, <1>2, <1>3, <1>4 DEF IInv

-----------------------------------------------------------------------------
(* What a step does to one daemon. *)
LEMMA DaemonUpdate ==
  ASSUME WatchTypeOK, NEW d \in Daemons, NEW e \in DaemonStates, daemon' = [daemon EXCEPT ![d] = e]
  PROVE  /\ daemon' \in [Daemons -> DaemonStates]
         /\ daemon'[d] = e
         /\ \A x \in Daemons : x # d => daemon'[x] = daemon[x]
BY DEF WatchTypeOK

(* A step keeps the jobs of the daemons: what a process builds, for whom,  *)
(* or that it builds nothing; and it adds no request to any.               *)
JobsKept ==
  /\ daemon' \in [Daemons -> DaemonStates]
  /\ \A x \in Daemons :
       /\ \A t \in Tasks : daemon'[x].subscribed[t] \subseteq daemon[x].subscribed[t]
       /\ daemon'[x].pc = "build" =>
            /\ daemon[x].pc = "build"
            /\ daemon'[x].task = daemon[x].task
            /\ daemon'[x].seq = daemon[x].seq
            /\ daemon'[x].built = daemon[x].built
            /\ daemon'[x].left = daemon[x].left
            /\ daemon'[x].subscribed = daemon[x].subscribed

(* No process comes to hold the lock. *)
HoldersKept == \A x \in Daemons : Holds(x)' => Holds(x)

LEMMA JobStays ==
  ASSUME WatchTypeOK, NEW d \in Daemons, NEW e \in DaemonStates, daemon' = [daemon EXCEPT ![d] = e],
         \A t \in Tasks : e.subscribed[t] \subseteq daemon[d].subscribed[t],
         e.pc = "build" =>
            /\ daemon[d].pc = "build"
            /\ e.task = daemon[d].task
            /\ e.seq = daemon[d].seq
            /\ e.built = daemon[d].built
            /\ e.left = daemon[d].left
            /\ e.subscribed = daemon[d].subscribed
  PROVE  JobsKept
BY DaemonUpdate DEF JobsKept

(* A step of a process that does not build after it, and holds the lock    *)
(* after it only if it did before.                                         *)
LEMMA Moved ==
  ASSUME WatchTypeOK, NEW d \in Daemons, NEW e \in DaemonStates, daemon' = [daemon EXCEPT ![d] = e],
         e.subscribed = daemon[d].subscribed,
         e.pc # "build",
         e.pc \in {"pid", "loop", "scan", "unlock"} => Holds(d)
  PROVE  JobsKept /\ HoldersKept
<1>1. JobsKept
  BY JobStays
<1>2. HoldersKept
  BY DaemonUpdate DEF HoldersKept, Holds
<1> QED
  BY <1>1, <1>2

(* A process that ends. *)
LEMMA Ended ==
  ASSUME WatchTypeOK, NEW d \in Daemons, daemon' = [daemon EXCEPT ![d] = Fresh]
  PROVE  JobsKept /\ HoldersKept
<1>1. Fresh \in DaemonStates /\ Fresh.pc = "off" /\ \A t \in Tasks : Fresh.subscribed[t] = {}
  BY FreshIsState DEF Fresh
<1>2. JobsKept
  BY <1>1, JobStays
<1>3. HoldersKept
  BY <1>1, DaemonUpdate DEF HoldersKept, Holds
<1> QED
  BY <1>2, <1>3

(* A process that goes on with what it does. *)
LEMMA GoesOn ==
  ASSUME WatchTypeOK, NEW d \in Daemons, NEW e \in DaemonStates, daemon' = [daemon EXCEPT ![d] = e],
         e.pc = daemon[d].pc, e.subscribed = daemon[d].subscribed, e.task = daemon[d].task,
         e.seq = daemon[d].seq, e.built = daemon[d].built, e.left = daemon[d].left
  PROVE  JobsKept /\ HoldersKept
<1>1. JobsKept
  BY JobStays
<1>2. HoldersKept
  BY DaemonUpdate DEF HoldersKept, Holds
<1> QED
  BY <1>1, <1>2

(* A signal is noted, or ends the process. *)
LEMMA SignalEffect ==
  ASSUME WatchTypeOK, NEW d \in Daemons, Signal(d)
  PROVE  /\ JobsKept /\ HoldersKept
         /\ lock' \in Locks /\ pid' \in Daemons \cup {None}
         /\ lock["instance"] # "free" => lock'["instance"] # "free"
<1>1. /\ daemon[d] \in DaemonStates /\ lock \in Locks /\ pid \in Daemons \cup {None}
  BY DEF WatchTypeOK
<1>2. CASE Handles(d)
  <2> DEFINE command == IF daemon[d].command = "runs" THEN "interrupted" ELSE daemon[d].command
             e == [daemon[d] EXCEPT !.stopping = TRUE, !.command = command]
  <2>3. daemon' = [daemon EXCEPT ![d] = e] /\ UNCHANGED <<lock, pid>>
    BY <1>1, <1>2 DEF Signal
  <2>1. command \in {"none", "runs", "interrupted"}
    BY <1>1 DEF DaemonStates
  <2> HIDE DEF command
  <2>2. /\ e \in DaemonStates
        /\ e.pc = daemon[d].pc /\ e.subscribed = daemon[d].subscribed /\ e.task = daemon[d].task
        /\ e.seq = daemon[d].seq /\ e.built = daemon[d].built /\ e.left = daemon[d].left
    BY <1>1, <2>1 DEF DaemonStates
  <2> HIDE DEF e
  <2> QED
    BY <1>1, <2>2, <2>3, GoesOn
<1>3. CASE Dies(d)
  <2>1. JobsKept /\ HoldersKept
    BY <1>3, Ended DEF Dies
  <2>2. lock' \in Locks /\ (lock["instance"] # "free" => lock'["instance"] # "free")
    BY <1>1, <1>3 DEF Dies, Locks
  <2> QED
    BY <1>1, <1>3, <2>1, <2>2 DEF Dies
<1> QED
  BY <1>2, <1>3 DEF Signal

(* The steps of a daemon that move it, or end it. *)
LEMMA DaemonMoves ==
  ASSUME WatchTypeOK, NEW d \in Daemons,
         WritePidFile(d) \/ Stops(d) \/ IdleExit(d) \/ Scan(d) \/ CommandEnds(d) \/ Unlock(d)
           \/ RemovePidFile(d) \/ Terminate(d) \/ Kill(d)
  PROVE  JobsKept /\ HoldersKept
<1>d. daemon[d] \in DaemonStates
  BY DEF WatchTypeOK
<1>1. CASE WritePidFile(d)
  <2> DEFINE e == [daemon[d] EXCEPT !.pc = "loop"]
  <2>1. e \in DaemonStates /\ e.pc = "loop" /\ e.subscribed = daemon[d].subscribed
    BY <1>d DEF DaemonStates
  <2>2. Holds(d) /\ daemon' = [daemon EXCEPT ![d] = e]
    BY <1>1 DEF WritePidFile, Holds
  <2> HIDE DEF e
  <2> QED
    BY <2>1, <2>2, Moved
<1>2. CASE Stops(d) \/ IdleExit(d)
  <2> DEFINE e == [daemon[d] EXCEPT !.pc = "unlock"]
  <2>1. e \in DaemonStates /\ e.pc = "unlock" /\ e.subscribed = daemon[d].subscribed
    BY <1>d DEF DaemonStates
  <2>2. Holds(d) /\ daemon' = [daemon EXCEPT ![d] = e]
    BY <1>2 DEF Stops, IdleExit, EndsLoop, Polls, Holds
  <2> HIDE DEF e
  <2> QED
    BY <2>1, <2>2, Moved
<1>3. CASE Unlock(d)
  <2> DEFINE e == [daemon[d] EXCEPT !.pc = "unpid"]
  <2>1. e \in DaemonStates /\ e.pc = "unpid" /\ e.subscribed = daemon[d].subscribed
    BY <1>d DEF DaemonStates
  <2>2. daemon' = [daemon EXCEPT ![d] = e]
    BY <1>3 DEF Unlock
  <2> HIDE DEF e
  <2> QED
    BY <2>1, <2>2, Moved
<1>4. CASE Scan(d)
  <2> DEFINE e == [daemon[d] EXCEPT !.pc = "loop",
       !.prev = [t \in Tasks |-> IF t \in Changed(d) THEN source[t] ELSE @[t]],
       !.pending = @ \cup Asked(d)
         \cup {t \in Changed(d) : daemon[d].prev[t].members = source[t].members}]
  <2>0. /\ \A t \in Tasks : source[t] \in Fingerprints /\ daemon[d].prev[t] \in Fingerprints
        /\ Changed(d) \subseteq Tasks /\ Asked(d) \subseteq Tasks /\ daemon[d].pending \subseteq Tasks
    BY Parts DEF Changed, Asked
  <2>1. e \in DaemonStates /\ e.pc = "loop" /\ e.subscribed = daemon[d].subscribed
    BY <1>d, <2>0 DEF DaemonStates
  <2>2. Holds(d) /\ daemon' = [daemon EXCEPT ![d] = e]
    BY <1>4 DEF Scan, Holds
  <2> HIDE DEF e
  <2> QED
    BY <2>1, <2>2, Moved
<1>5. CASE CommandEnds(d)
  <2> DEFINE e == [daemon[d] EXCEPT !.command = "none"]
  <2>1. /\ e \in DaemonStates
        /\ e.pc = daemon[d].pc /\ e.subscribed = daemon[d].subscribed /\ e.task = daemon[d].task
        /\ e.seq = daemon[d].seq /\ e.built = daemon[d].built /\ e.left = daemon[d].left
    BY <1>d DEF DaemonStates
  <2>2. daemon' = [daemon EXCEPT ![d] = e]
    BY <1>5 DEF CommandEnds
  <2> HIDE DEF e
  <2> QED
    BY <2>1, <2>2, GoesOn
<1>6. CASE RemovePidFile(d) \/ Kill(d)
  BY <1>6, Ended DEF RemovePidFile, Kill, Dies
<1>7. CASE Terminate(d)
  BY <1>7, SignalEffect DEF Terminate
<1> QED
  BY <1>1, <1>2, <1>3, <1>4, <1>5, <1>6, <1>7

(* A spawned process takes the lock, or ends. *)
LEMMA SingletonEffect ==
  ASSUME WatchTypeOK, NEW d \in Daemons, Singleton(d)
  PROVE  /\ JobsKept
         /\ daemon'[d].pc = IF lock["instance"] = "free" THEN "pid" ELSE "off"
         /\ \A x \in Daemons : x # d => daemon'[x] = daemon[x]
<1> DEFINE e == [daemon[d] EXCEPT !.pc = IF lock["instance"] = "free" THEN "pid" ELSE "off"]
<1>1. daemon[d] \in DaemonStates
  BY DEF WatchTypeOK
<1>2. (IF lock["instance"] = "free" THEN "pid" ELSE "off") \in {"off", "pid"}
  OBVIOUS
<1>3. /\ e \in DaemonStates
      /\ e.pc = (IF lock["instance"] = "free" THEN "pid" ELSE "off") /\ e.subscribed = daemon[d].subscribed
  BY <1>1, <1>2 DEF DaemonStates
<1>4. daemon' = [daemon EXCEPT ![d] = e]
  BY DEF Singleton
<1> HIDE DEF e
<1>5. JobsKept
  BY <1>2, <1>3, <1>4, JobStays
<1> QED
  BY <1>3, <1>4, <1>5, DaemonUpdate

LEMMA UpgradeEffect ==
  ASSUME WatchTypeOK, Upgrade
  PROVE  JobsKept /\ HoldersKept
<1>1. ASSUME NEW x \in Daemons
      PROVE  /\ daemon'[x] \in DaemonStates
             /\ daemon'[x].pc = daemon[x].pc /\ daemon'[x].subscribed = daemon[x].subscribed
             /\ daemon'[x].task = daemon[x].task /\ daemon'[x].seq = daemon[x].seq
             /\ daemon'[x].built = daemon[x].built /\ daemon'[x].left = daemon[x].left
  <2>1. daemon[x] \in DaemonStates
    BY DEF WatchTypeOK
  <2>2. daemon'[x] = [daemon[x] EXCEPT !.old = daemon[x].pc \notin {"off", "spawned", "pid"}]
    BY DEF Upgrade
  <2> QED
    BY <2>1, <2>2 DEF DaemonStates
<1>2. daemon' \in [Daemons -> DaemonStates]
  BY <1>1 DEF Upgrade
<1> QED
  BY <1>1, <1>2 DEF JobsKept, HoldersKept, Holds

LEMMA SpawnEffect ==
  ASSUME WatchTypeOK, NEW c \in Clients, SpawnDaemon(c)
  PROVE  JobsKept /\ HoldersKept
<1> DEFINE e == [Fresh EXCEPT !.pc = "spawned"]
<1>1. e \in DaemonStates /\ e.pc = "spawned" /\ \A t \in Tasks : e.subscribed[t] = {}
  BY FreshIsState DEF Fresh, DaemonStates
<1>2. daemon' = daemon \/ \E d \in Daemons : daemon' = [daemon EXCEPT ![d] = e]
  BY DEF SpawnDaemon
<1> HIDE DEF e
<1>3. ASSUME NEW d \in Daemons, daemon' = [daemon EXCEPT ![d] = e] PROVE JobsKept /\ HoldersKept
  <2>1. JobsKept
    BY <1>1, <1>3, JobStays
  <2>2. HoldersKept
    BY <1>1, <1>3, DaemonUpdate DEF HoldersKept, Holds
  <2> QED
    BY <2>1, <2>2
<1>4. ASSUME daemon' = daemon PROVE JobsKept /\ HoldersKept
  BY <1>4 DEF WatchTypeOK, JobsKept, HoldersKept, Holds
<1> QED
  BY <1>2, <1>3, <1>4

LEMMA ReadLeasesEffect ==
  ASSUME WatchTypeOK, NEW d \in Daemons, ReadLeases(d)
  PROVE  /\ daemon' \in [Daemons -> DaemonStates]
         /\ daemon[d].pc = "loop" /\ daemon'[d].pc = "scan"
         /\ \A t \in Tasks : daemon'[d].subscribed[t] = Requests(t)
         /\ \A x \in Daemons : x # d => daemon'[x] = daemon[x]
<1> DEFINE added == {t \in Tasks : Requests(t) # {} /\ daemon[d].subscribed[t] = {}}
           e == [daemon[d] EXCEPT
                   !.pc = "scan",
                   !.subscribed = [t \in Tasks |-> Requests(t)],
                   !.prev = [t \in Tasks |-> IF t \in added THEN source[t]
                                             ELSE IF Requests(t) = {} THEN Unread ELSE @[t]],
                   !.pending = added]
<1>1. daemon[d] \in DaemonStates
  BY DEF WatchTypeOK
<1>2. \A t \in Tasks : Requests(t) \subseteq RequestIds
  BY RequestsAreIds
<1>3. Unread \in Fingerprints
  BY DEF Unread, Fingerprints
<1>4. \A t \in Tasks : source[t] \in Fingerprints /\ daemon[d].prev[t] \in Fingerprints
  BY Parts
<1>5. /\ e \in DaemonStates
      /\ e.pc = "scan" /\ \A t \in Tasks : e.subscribed[t] = Requests(t)
  BY <1>1, <1>2, <1>3, <1>4 DEF DaemonStates
<1>6. daemon' = [daemon EXCEPT ![d] = e] /\ daemon[d].pc = "loop"
  BY DEF ReadLeases, Polls
<1> HIDE DEF e
<1> QED
  BY <1>5, <1>6, DaemonUpdate

LEMMA BuildEffect ==
  ASSUME WatchTypeOK, NEW d \in Daemons, Build(d)
  PROVE  /\ daemon' \in [Daemons -> DaemonStates]
         /\ daemon[d].pc = "loop" /\ daemon'[d].pc = "build"
         /\ daemon'[d].subscribed = daemon[d].subscribed
         /\ \A x \in Daemons : x # d => daemon'[x] = daemon[x]
         /\ daemon'[d].task \in Tasks
         /\ daemon'[d].seq > result[daemon'[d].task].gen
         /\ daemon'[d].built = source[daemon'[d].task].rev
         /\ daemon'[d].left = {r[1] : r \in daemon[d].subscribed[daemon'[d].task]}
<1>1. PICK t \in daemon[d].pending :
        daemon' = [daemon EXCEPT ![d] =
          [daemon[d] EXCEPT !.pc = "build", !.task = t, !.pending = @ \ {t},
                    !.seq = Generation(d, t), !.built = source[t].rev,
                    !.left = {r[1] : r \in daemon[d].subscribed[t]}, !.command = "runs"]]
  BY DEF Build
<1> DEFINE e == [daemon[d] EXCEPT !.pc = "build", !.task = t, !.pending = @ \ {t},
                   !.seq = Generation(d, t), !.built = source[t].rev,
                   !.left = {r[1] : r \in daemon[d].subscribed[t]}, !.command = "runs"]
<1>2. daemon[d] \in DaemonStates /\ t \in Tasks /\ source[t].rev \in Nat
      /\ daemon[d].pending \subseteq Tasks
  BY Parts
<1>3. Generation(d, t) \in Nat /\ Generation(d, t) > result[t].gen
  BY <1>2, NextGeneration
<1>4. {r[1] : r \in daemon[d].subscribed[t]} \subseteq Clients
  BY <1>2, Parts DEF RequestIds
<1>5. /\ e \in DaemonStates
      /\ e.pc = "build" /\ e.task = t /\ e.seq = Generation(d, t) /\ e.built = source[t].rev
      /\ e.left = {r[1] : r \in daemon[d].subscribed[t]}
      /\ e.subscribed = daemon[d].subscribed
  BY <1>2, <1>3, <1>4 DEF DaemonStates
<1>6. daemon' = [daemon EXCEPT ![d] = e]
  BY <1>1
<1>7. daemon[d].pc = "loop"
  BY DEF Build
<1> HIDE DEF e
<1> QED
  BY <1>2, <1>3, <1>5, <1>6, <1>7, DaemonUpdate

LEMMA CopyEffect ==
  ASSUME WatchTypeOK, NEW d \in Daemons, CopyAtomically(d)
  PROVE  /\ daemon' \in [Daemons -> DaemonStates]
         /\ daemon[d].pc = "build" /\ daemon'[d].pc = "build"
         /\ daemon'[d].subscribed = daemon[d].subscribed
         /\ daemon'[d].task = daemon[d].task /\ daemon'[d].seq = daemon[d].seq
         /\ daemon'[d].built = daemon[d].built
         /\ \A x \in Daemons : x # d => daemon'[x] = daemon[x]
         /\ \E c \in daemon[d].left :
              /\ out' = [out EXCEPT ![daemon[d].task][c] = daemon[d].built]
              /\ daemon'[d].left = daemon[d].left \ {c}
<1>1. PICK c \in daemon[d].left :
        /\ out' = [out EXCEPT ![daemon[d].task][c] = daemon[d].built]
        /\ daemon' = [daemon EXCEPT ![d] = [daemon[d] EXCEPT !.left = @ \ {c}]]
  BY DEF CopyAtomically
<1> DEFINE e == [daemon[d] EXCEPT !.left = @ \ {c}]
<1>2. daemon[d] \in DaemonStates /\ daemon[d].left \subseteq Clients
  BY Parts
<1>3. /\ e \in DaemonStates
      /\ e.pc = daemon[d].pc /\ e.task = daemon[d].task /\ e.seq = daemon[d].seq
      /\ e.built = daemon[d].built /\ e.subscribed = daemon[d].subscribed
      /\ e.left = daemon[d].left \ {c}
  BY <1>2 DEF DaemonStates
<1>4. daemon' = [daemon EXCEPT ![d] = e] /\ daemon[d].pc = "build"
  BY <1>1 DEF CopyAtomically
<1> HIDE DEF e
<1> QED
  BY <1>1, <1>3, <1>4, DaemonUpdate

LEMMA ResultEffect ==
  ASSUME WatchTypeOK, NEW d \in Daemons, NEW ok \in BOOLEAN, WriteResult(d, ok),
         daemon[d].pc = "build"
  PROVE  /\ JobsKept /\ HoldersKept
         /\ daemon'[d].pc = "loop"
         /\ \A x \in Daemons : x # d => daemon'[x] = daemon[x]
<1> DEFINE e == [daemon[d] EXCEPT !.pc = "loop", !.task = None, !.built = 0, !.left = {},
                                    !.command = "none"]
<1>1. daemon[d] \in DaemonStates
  BY DEF WatchTypeOK
<1>2. /\ e \in DaemonStates
      /\ e.pc = "loop" /\ e.subscribed = daemon[d].subscribed
  BY <1>1 DEF DaemonStates
<1>3. daemon' = [daemon EXCEPT ![d] = e]
  BY DEF WriteResult
<1> HIDE DEF e
<1>4. JobsKept
  BY <1>2, <1>3, JobStays
<1> QED
  BY <1>2, <1>3, <1>4, DaemonUpdate DEF HoldersKept, Holds

-----------------------------------------------------------------------------
(* What a step does to one client. *)
LEMMA ClientUpdate ==
  ASSUME WatchTypeOK, NEW c \in Clients, NEW e \in ClientStates, client' = [client EXCEPT ![c] = e]
  PROVE  /\ client' \in [Clients -> ClientStates]
         /\ client'[c] = e
         /\ \A x \in Clients : x # c => client'[x] = client[x]
BY DEF WatchTypeOK

(* No client makes a request or reads a result. *)
ClientsKept ==
  /\ client' \in [Clients -> ClientStates]
  /\ \A x \in Clients : client'[x].req = client[x].req /\ client'[x].last = client[x].last

LEMMA ClientMoves ==
  ASSUME WatchTypeOK, NEW c \in Clients,
         \/ Start(c) \/ FindsDaemon(c) \/ LacksDaemon(c) \/ TakeStartLock(c) \/ SpawnDaemon(c)
         \/ RemoveStartLock(c) \/ Rejected(c) \/ TimesOut(c)
         \/ Wake(c) \/ Refresh(c) \/ Quit(c) \/ (\E t \in Tasks : LookAt(c, t))
  PROVE  ClientsKept
<1>c. /\ client[c] \in ClientStates
      /\ client[c].prev \in [Tasks -> Fingerprints] /\ client[c].todo \subseteq Tasks
      /\ client[c].change \in [Tasks -> {"no", "settling", "tried"}]
      /\ source \in [Tasks -> Fingerprints] /\ Uses[c] \subseteq Tasks
  BY WatchAssumption DEF WatchTypeOK, ClientStates
<1>k. ASSUME NEW e \in ClientStates, client' = [client EXCEPT ![c] = e],
             e.req = client[c].req, e.last = client[c].last
      PROVE  ClientsKept
  BY <1>k, ClientUpdate DEF ClientsKept
<1>1. CASE Start(c)
  <2> DEFINE e == [client[c] EXCEPT !.pc = "scan",
       !.prev = [t \in Tasks |-> IF t \in Uses[c] THEN source[t] ELSE @[t]]]
  <2>1. e \in ClientStates /\ e.req = client[c].req /\ e.last = client[c].last
    BY <1>c DEF ClientStates
  <2>2. client' = [client EXCEPT ![c] = e]
    BY <1>1 DEF Start
  <2> QED
    BY <2>1, <2>2, <1>k
<1>p. ASSUME NEW pc \in {"start", "spawn", "unlock", "lease", "wait"},
             client' = [client EXCEPT ![c].pc = pc]
      PROVE  ClientsKept
  <2> DEFINE e == [client[c] EXCEPT !.pc = pc]
  <2>1. e \in ClientStates /\ e.req = client[c].req /\ e.last = client[c].last
    BY <1>c DEF ClientStates
  <2> QED
    BY <2>1, <1>p, <1>k
<1>a. After(c) \in {"lease", "wait"}
  BY DEF After
<1>2. CASE FindsDaemon(c)
  BY <1>2, <1>a, <1>p DEF FindsDaemon
<1>3. CASE LacksDaemon(c) \/ SpawnDaemon(c) \/ RemoveStartLock(c)
  BY <1>3, <1>a, <1>p DEF LacksDaemon, SpawnDaemon, RemoveStartLock
<1>s. CASE TakeStartLock(c)
  <2>1. (IF lock["start"] = "free" THEN "spawn" ELSE After(c)) \in {"spawn", "lease", "wait"}
    BY <1>a
  <2> QED
    BY <1>s, <2>1, <1>p DEF TakeStartLock
<1>4. CASE Rejected(c)
  <2> DEFINE e == [client[c] EXCEPT !.pc = "gone"]
  <2>1. e \in ClientStates /\ e.req = client[c].req /\ e.last = client[c].last
    BY <1>c DEF ClientStates
  <2>2. client' = [client EXCEPT ![c] = e]
    BY <1>4 DEF Rejected
  <2> QED
    BY <2>1, <2>2, <1>k
<1>5. CASE TimesOut(c)
  <2> DEFINE e == [client[c] EXCEPT !.pc = "gone"]
  <2>1. e \in ClientStates /\ e.req = client[c].req /\ e.last = client[c].last
    BY <1>c DEF ClientStates
  <2>2. client' = [client EXCEPT ![c] = e]
    BY <1>5 DEF TimesOut
  <2> QED
    BY <2>1, <2>2, <1>k
<1>6. CASE Wake(c)
  <2> DEFINE e == [client[c] EXCEPT !.pc = "scan", !.todo = Uses[c]]
  <2>1. e \in ClientStates /\ e.req = client[c].req /\ e.last = client[c].last
    BY <1>c DEF ClientStates
  <2>2. client' = [client EXCEPT ![c] = e]
    BY <1>6 DEF Wake
  <2> QED
    BY <2>1, <2>2, <1>k
<1>7. CASE Refresh(c)
  <2> DEFINE e == [client[c] EXCEPT !.pc = "lease"]
  <2>1. e \in ClientStates /\ e.req = client[c].req /\ e.last = client[c].last
    BY <1>c DEF ClientStates
  <2>2. client' = [client EXCEPT ![c] = e]
    BY <1>7 DEF Refresh
  <2> QED
    BY <2>1, <2>2, <1>k
<1>8. CASE Quit(c)
  <2> DEFINE e == [client[c] EXCEPT !.pc = "gone"]
  <2>1. e \in ClientStates /\ e.req = client[c].req /\ e.last = client[c].last
    BY <1>c DEF ClientStates
  <2>2. client' = [client EXCEPT ![c] = e]
    BY <1>8 DEF Quit
  <2> QED
    BY <2>1, <2>2, <1>k
<1>9. ASSUME NEW t \in Tasks, LookAt(c, t) PROVE ClientsKept
  <2> DEFINE accepted == [client[c] EXCEPT !.prev[t] = source[t], !.change[t] = "no",
                                           !.todo = @ \ {t}]
             settling == [client[c] EXCEPT !.change[t] = "settling", !.todo = @ \ {t}]
             tried    == [client[c] EXCEPT !.pc = "lease", !.change[t] = "tried", !.todo = {}]
  <2>a. /\ [client[c].prev EXCEPT ![t] = source[t]] \in [Tasks -> Fingerprints]
        /\ \A x \in {"no", "settling", "tried"} :
             [client[c].change EXCEPT ![t] = x] \in [Tasks -> {"no", "settling", "tried"}]
    BY <1>c
  <2>b. accepted \in ClientStates /\ accepted.req = client[c].req /\ accepted.last = client[c].last
    BY <1>c, <2>a DEF ClientStates
  <2>c. settling \in ClientStates /\ settling.req = client[c].req /\ settling.last = client[c].last
    BY <1>c, <2>a DEF ClientStates
  <2>d. tried \in ClientStates /\ tried.req = client[c].req /\ tried.last = client[c].last
    BY <1>c, <2>a DEF ClientStates
  <2>2. \/ client' = [client EXCEPT ![c] = accepted]
        \/ client' = [client EXCEPT ![c] = settling]
        \/ client' = [client EXCEPT ![c] = tried]
    BY <1>9 DEF LookAt, Accept
  <2> HIDE DEF accepted, settling, tried
  <2> QED
    BY <2>b, <2>c, <2>d, <2>2, <1>k
<1> QED
  BY <1>1, <1>2, <1>3, <1>s, <1>4, <1>5, <1>6, <1>7, <1>8, <1>9

LEMMA WriteLeaseEffect ==
  ASSUME WatchTypeOK, NEW c \in Clients, WriteLease(c)
  PROVE  /\ client' \in [Clients -> ClientStates]
         /\ client'[c].req = client[c].req + 1
         /\ client'[c].last = client[c].last
         /\ \A x \in Clients : x # c => client'[x] = client[x]
<1> DEFINE e == [client[c] EXCEPT !.pc = "wait", !.req = @ + 1]
<1>1. client[c] \in ClientStates /\ client[c].req + 1 \in Nat
  BY Parts
<1>2. e \in ClientStates /\ e.req = client[c].req + 1 /\ e.last = client[c].last
  BY <1>1 DEF ClientStates
<1>3. client' = [client EXCEPT ![c] = e]
  BY DEF WriteLease
<1> HIDE DEF e
<1> QED
  BY <1>2, <1>3, ClientUpdate

LEMMA AcknowledgedEffect ==
  ASSUME WatchTypeOK, NEW c \in Clients, Acknowledged(c)
  PROVE  /\ client' \in [Clients -> ClientStates]
         /\ client'[c].req = client[c].req
         /\ \A t \in Tasks : client'[c].last[t] # client[c].last[t] =>
              client'[c].last[t] = result[t].gen /\ result[t].ok
         /\ \A x \in Clients : x # c => client'[x] = client[x]
<1> DEFINE e == [client[c] EXCEPT !.pc = "watch",
                   !.last = [t \in Tasks |-> IF t \in News(c) THEN result[t].gen ELSE @[t]]]
<1>1. client[c] \in ClientStates /\ client[c].last \in [Tasks -> Nat]
      /\ \A t \in Tasks : result[t].gen \in Nat
  BY Parts
<1>2. \A t \in News(c) : result[t].ok
  BY DEF Acknowledged
<1>3. /\ e \in ClientStates /\ e.req = client[c].req
      /\ e.last = [t \in Tasks |-> IF t \in News(c) THEN result[t].gen ELSE client[c].last[t]]
  BY <1>1 DEF ClientStates
<1>4. client' = [client EXCEPT ![c] = e]
  BY DEF Acknowledged
<1>5. \A t \in Tasks : e.last[t] # client[c].last[t] =>
        e.last[t] = result[t].gen /\ result[t].ok
  BY <1>2, <1>3
<1> HIDE DEF e
<1>6. client'[c] = e
  BY <1>3, <1>4, ClientUpdate
<1> QED
  BY <1>3, <1>4, <1>5, <1>6, ClientUpdate

-----------------------------------------------------------------------------
(* Steps that build, copy, acknowledge and request nothing keep the whole  *)
(* invariant.                                                              *)
FilesKept == out' = out /\ result' = result /\ since' = since

LEMMA KeepIInv ==
  ASSUME IInv, JobsKept, ClientsKept, FilesKept, OneDaemon',
         source' \in [Tasks -> Fingerprints], \A t \in Tasks : source[t].rev <= source'[t].rev,
         lease' \in [Clients -> [req : Nat, fresh : BOOLEAN]],
         \A c \in Clients : lease'[c].req <= client[c].req,
         lock' \in Locks, pid' \in Daemons \cup {None},
         changes' \in Changes
  PROVE  IInv'
<1> USE DEF FilesKept
<1>1. WatchTypeOK'
  BY DEF IInv, WatchTypeOK, JobsKept, ClientsKept
<1>p. WatchTypeOK
  BY DEF IInv
<1>t. /\ \A t \in Tasks : source[t].rev \in Nat /\ source'[t].rev \in Nat
      /\ \A t \in Tasks, c \in Clients : out[t][c] \in Nat /\ since[c][t] \in Nat
      /\ \A d \in Daemons : daemon[d].built \in Nat
  BY <1>p, Parts DEF WatchTypeOK, Fingerprints
<1>2. BuildIsNext'
  <2>1. SUFFICES ASSUME NEW d \in Daemons, daemon'[d].pc = "build"
                 PROVE  /\ daemon'[d].task \in Tasks
                        /\ daemon'[d].seq > result'[daemon'[d].task].gen
                        /\ daemon'[d].built <= source'[daemon'[d].task].rev
                        /\ \A c \in Clients : daemon'[d].built >= out'[daemon'[d].task][c]
    BY DEF BuildIsNext
  <2>2. /\ daemon[d].pc = "build" /\ daemon'[d].task = daemon[d].task
        /\ daemon'[d].seq = daemon[d].seq /\ daemon'[d].built = daemon[d].built
    BY <2>1 DEF JobsKept
  <2>3. /\ daemon[d].task \in Tasks
        /\ daemon[d].seq > result[daemon[d].task].gen
        /\ daemon[d].built <= source[daemon[d].task].rev
        /\ \A c \in Clients : daemon[d].built >= out[daemon[d].task][c]
    BY <2>2 DEF IInv, BuildIsNext
  <2>4. daemon[d].built <= source'[daemon[d].task].rev
    BY <1>t, <2>3
  <2> QED
    BY <2>2, <2>3, <2>4
<1>3. CopiesAreOlder' /\ RequestsAreOlder'
  BY <1>t DEF IInv, Served, CopiesAreOlder, RequestsAreOlder
<1>4. RequestsWereMade'
  <2>1. \A c \in Clients : lease'[c].req <= client'[c].req
    BY DEF ClientsKept
  <2>2. \A t \in Tasks : \A r \in result'[t].reqs : r[2] <= client'[r[1]].req
    BY <1>p, Parts DEF IInv, Served, RequestsWereMade, ClientsKept, RequestIds
  <2>3. \A d \in Daemons, t \in Tasks : \A r \in daemon'[d].subscribed[t] : r[2] <= client'[r[1]].req
    BY <1>p, Parts DEF IInv, Served, RequestsWereMade, ClientsKept, JobsKept, RequestIds
  <2> QED
    BY <2>1, <2>2, <2>3 DEF RequestsWereMade
<1>5. BuildServes'
  BY DEF IInv, Served, BuildServes, JobsKept, ClientsKept
<1>6. AckMeansSynced'
  BY DEF IInv, Served, AckMeansSynced, ClientsKept
<1>7. Seen'
  BY DEF IInv, Seen, SeenExists, FailureIsSeen, ClientsKept
<1> QED
  BY <1>1, <1>2, <1>3, <1>4, <1>5, <1>6, <1>7 DEF IInv, Served

LEMMA Idle ==
  ASSUME WatchTypeOK
  PROVE  /\ daemon' = daemon => JobsKept /\ HoldersKept
         /\ client' = client => ClientsKept
<1>1. ASSUME daemon' = daemon PROVE JobsKept /\ HoldersKept
  <2>1. HoldersKept
    BY <1>1 DEF HoldersKept, Holds
  <2>2. daemon \in [Daemons -> DaemonStates]
    BY DEF WatchTypeOK
  <2> QED
    BY <1>1, <2>1, <2>2 DEF JobsKept
<1>2. ASSUME client' = client PROVE ClientsKept
  <2>1. client \in [Clients -> ClientStates]
    BY DEF WatchTypeOK
  <2> QED
    BY <1>2, <2>1 DEF ClientsKept
<1> QED
  BY <1>1, <1>2

LEMMA KeepOne ==
  ASSUME OneDaemon, HoldersKept, lock["instance"] # "free" => lock'["instance"] # "free"
  PROVE  OneDaemon'
BY DEF OneDaemon, HoldersKept, Holds

(* What is counted: one change more keeps the types. *)
LEMMA CountTypes ==
  ASSUME WatchTypeOK
  PROVE  /\ changes \in Changes
         /\ changes.clients + 1 \in Nat /\ changes.edits + 1 \in Nat
         /\ changes.renames + 1 \in Nat /\ changes.faults + 1 \in Nat
         /\ changes.kinds \subseteq Faults /\ changes.hasty \subseteq Tasks
BY DEF WatchTypeOK, Changes

LEMMA FaultTypes ==
  ASSUME WatchTypeOK, NEW f \in Faults, Fault(f)
  PROVE  changes' \in Changes
<1>1. changes' = [changes EXCEPT !.faults = changes.faults + 1, !.kinds = changes.kinds \cup {f}]
  BY DEF Fault
<1> QED
  BY <1>1, CountTypes DEF Changes

(* The daemon's turn. *)
LEMMA DaemonKeeps ==
  ASSUME IInv, NEW d \in Daemons,
         \/ Singleton(d) \/ WritePidFile(d) \/ Stops(d) \/ IdleExit(d) \/ Scan(d) \/ CommandEnds(d)
         \/ Unlock(d) \/ RemovePidFile(d) \/ Terminate(d) \/ Kill(d)
  PROVE  IInv'
<1>t. WatchTypeOK /\ OneDaemon /\ (\A c \in Clients : lease[c].req <= client[c].req)
  BY DEF IInv, Served, RequestsWereMade
<1>1. /\ FilesKept /\ source' = source /\ lease' = lease /\ client' = client
      /\ changes' \in Changes
  BY <1>t, FaultTypes, CountTypes DEF Faults, FilesKept, files, Singleton, WritePidFile, Stops, IdleExit,
     EndsLoop, Scan, CommandEnds, Unlock, RemovePidFile, Terminate, Kill
<1>l. /\ lock' \in Locks /\ pid' \in Daemons \cup {None}
      /\ ~Unlock(d) => (lock["instance"] # "free" => lock'["instance"] # "free")
  <2>1. lock \in Locks /\ pid \in Daemons \cup {None}
    BY <1>t DEF WatchTypeOK
  <2>2. CASE Terminate(d)
    BY <1>t, <2>2, SignalEffect DEF Terminate
  <2>3. CASE Kill(d)
    BY <2>1, <2>3 DEF Kill, Dies, Locks
  <2>4. CASE Singleton(d)
    BY <2>1, <2>4 DEF Singleton, Locks
  <2>5. CASE Unlock(d)
    BY <2>1, <2>5 DEF Unlock, Locks
  <2>6. CASE WritePidFile(d) \/ Stops(d) \/ IdleExit(d) \/ Scan(d) \/ CommandEnds(d) \/ RemovePidFile(d)
    BY <2>1, <2>6 DEF files, WritePidFile, Stops, IdleExit, EndsLoop, Scan, CommandEnds, RemovePidFile
  <2> QED
    BY <2>2, <2>3, <2>4, <2>5, <2>6
<1>2. JobsKept
  BY <1>t, DaemonMoves, SingletonEffect
<1>3. OneDaemon'
  <2>1. CASE Singleton(d)
    <3>1. lock'["instance"] # "free" /\ daemon[d].pc = "spawned"
      BY <1>t, <2>1 DEF Singleton, WatchTypeOK, Locks
    <3>2. /\ daemon'[d].pc = IF lock["instance"] = "free" THEN "pid" ELSE "off"
          /\ \A x \in Daemons : x # d => daemon'[x] = daemon[x]
      BY <1>t, <2>1, SingletonEffect
    <3> QED
      BY <1>t, <3>1, <3>2 DEF OneDaemon, Holds
  <2>2. CASE Unlock(d)
    <3>1. HoldersKept
      BY <1>t, <2>2, DaemonMoves
    <3>2. Holds(d) /\ ~Holds(d)'
      BY <1>t, <2>2 DEF Unlock, Holds, WatchTypeOK, DaemonStates
    <3> QED
      BY <1>t, <3>1, <3>2 DEF OneDaemon, HoldersKept
  <2>3. CASE ~Singleton(d) /\ ~Unlock(d)
    BY <1>t, <1>l, <2>3, DaemonMoves, KeepOne
  <2> QED
    BY <2>1, <2>2, <2>3
<1>4. ClientsKept
  BY <1>t, <1>1, Idle
<1>5. source' \in [Tasks -> Fingerprints] /\ lease' \in [Clients -> [req : Nat, fresh : BOOLEAN]]
      /\ \A t \in Tasks : source[t].rev <= source'[t].rev
  BY <1>t, <1>1 DEF WatchTypeOK, Fingerprints
<1> QED
  BY <1>t, <1>1, <1>l, <1>2, <1>3, <1>4, <1>5, KeepIInv

(* The turn of a client, but for its requests and what it reads. *)
LEMMA ClientKeeps ==
  ASSUME IInv, NEW c \in Clients,
         \/ Start(c) \/ FindsDaemon(c) \/ LacksDaemon(c) \/ TakeStartLock(c) \/ SpawnDaemon(c)
         \/ RemoveStartLock(c) \/ Rejected(c) \/ TimesOut(c)
         \/ Wake(c) \/ Refresh(c) \/ Quit(c) \/ (\E t \in Tasks : LookAt(c, t))
         \/ Lapse(c)
  PROVE  IInv'
<1>t. WatchTypeOK /\ OneDaemon /\ (\A x \in Clients : lease[x].req <= client[x].req)
  BY DEF IInv, Served, RequestsWereMade
<1>l. /\ lease \in [Clients -> [req : Nat, fresh : BOOLEAN]]
      /\ \A x \in Clients : client[x].req \in Nat
  BY <1>t, Parts DEF WatchTypeOK
<1>1. /\ FilesKept /\ source' = source /\ changes' \in Changes
  <2>1. CASE Start(c)
    <3>1. changes' = [changes EXCEPT !.clients = changes.clients + 1]
      BY <2>1 DEF Start
    <3> QED
      BY <1>t, <2>1, <3>1, CountTypes DEF Start, FilesKept, files, Changes
  <2>2. CASE ~Start(c)
    BY <1>t, <2>2, FaultTypes, CountTypes DEF Faults, FilesKept, files, FindsDaemon, LacksDaemon,
       TakeStartLock, SpawnDaemon, RemoveStartLock, Rejected, TimesOut, Wake, Refresh, Quit, LookAt, Lapse
  <2> QED
    BY <2>1, <2>2
<1>2. /\ lease' \in [Clients -> [req : Nat, fresh : BOOLEAN]]
      /\ \A x \in Clients : lease'[x].req <= client[x].req
  <2>1. ASSUME NEW e \in [req : Nat, fresh : BOOLEAN], e.req <= client[c].req,
               lease' = [lease EXCEPT ![c] = e]
        PROVE  /\ lease' \in [Clients -> [req : Nat, fresh : BOOLEAN]]
               /\ \A x \in Clients : lease'[x].req <= client[x].req
    BY <1>t, <1>l, <2>1
  <2>2. CASE lease' = lease
    BY <1>t, <1>l, <2>2
  <2>3. CASE Quit(c) /\ lease' # lease
    <3>1. lease' = [lease EXCEPT ![c] = [req |-> 0, fresh |-> FALSE]]
      BY <2>3 DEF Quit
    <3>2. /\ [req |-> 0, fresh |-> FALSE] \in [req : Nat, fresh : BOOLEAN]
          /\ [req |-> 0, fresh |-> FALSE].req <= client[c].req
      BY <1>l
    <3> QED
      BY <2>1, <3>1, <3>2
  <2>4. ASSUME NEW fresh \in BOOLEAN, lease' = [lease EXCEPT ![c].fresh = fresh]
        PROVE  /\ lease' \in [Clients -> [req : Nat, fresh : BOOLEAN]]
               /\ \A x \in Clients : lease'[x].req <= client[x].req
    <3>1. lease[c] \in [req : Nat, fresh : BOOLEAN]
      BY <1>l
    <3>2. /\ [lease[c] EXCEPT !.fresh = fresh] \in [req : Nat, fresh : BOOLEAN]
          /\ [lease[c] EXCEPT !.fresh = fresh].req = lease[c].req
      BY <3>1
    <3> QED
      BY <1>t, <2>1, <2>4, <3>2
  <2>5. CASE Wake(c)
    BY <2>4, <2>5 DEF Wake
  <2>6. CASE Lapse(c)
    BY <2>4, <2>6 DEF Lapse
  <2>7. CASE lease' # lease /\ ~Quit(c) /\ ~Wake(c) /\ ~Lapse(c)
    BY <2>7 DEF files, Start, FindsDaemon, LacksDaemon, TakeStartLock, SpawnDaemon, RemoveStartLock,
       Rejected, TimesOut, Refresh, LookAt
  <2> QED
    BY <2>2, <2>3, <2>5, <2>6, <2>7
<1>3. ClientsKept
  <2>1. CASE Lapse(c)
    BY <1>t, <2>1, Idle DEF Lapse
  <2> QED
    BY <1>t, <2>1, ClientMoves
<1>4. /\ JobsKept /\ HoldersKept
      /\ lock' \in Locks /\ pid' \in Daemons \cup {None}
      /\ lock["instance"] # "free" => lock'["instance"] # "free"
  <2>1. lock \in Locks /\ pid \in Daemons \cup {None}
    BY <1>t DEF WatchTypeOK
  <2>2. CASE SpawnDaemon(c)
    BY <1>t, <2>1, <2>2, SpawnEffect DEF SpawnDaemon, files
  <2>3. CASE LacksDaemon(c) /\ daemon' = daemon /\ lock' = lock /\ pid' = pid
    BY <1>t, <2>1, <2>3, Idle
  <2>4. CASE LacksDaemon(c) /\ pid # None /\ Signal(pid)
    BY <1>t, <2>1, <2>4, SignalEffect
  <2>5. CASE LacksDaemon(c)
    BY <2>3, <2>4, <2>5 DEF LacksDaemon
  <2>6. CASE TakeStartLock(c) \/ RemoveStartLock(c) \/ Quit(c)
    <3>1. daemon' = daemon /\ pid' = pid
      BY <2>6 DEF TakeStartLock, RemoveStartLock, Quit
    <3>2. \E x \in {"free", "held", "left"} : lock' = [lock EXCEPT !["start"] = x]
      BY <2>1, <2>6 DEF TakeStartLock, RemoveStartLock, Quit, Locks
    <3>3. lock' \in Locks /\ lock'["instance"] = lock["instance"]
      BY <2>1, <3>2 DEF Locks
    <3> QED
      BY <1>t, <2>1, <3>1, <3>3, Idle
  <2>7. CASE \/ Start(c) \/ FindsDaemon(c) \/ Rejected(c) \/ TimesOut(c) \/ Wake(c) \/ Refresh(c)
            \/ (\E t \in Tasks : LookAt(c, t)) \/ Lapse(c)
    <3>1. daemon' = daemon /\ lock' = lock /\ pid' = pid
      BY <2>7 DEF files, Start, FindsDaemon, Rejected, TimesOut, Wake, Refresh, LookAt, Lapse
    <3> QED
      BY <1>t, <2>1, <3>1, Idle
  <2> QED
    BY <2>2, <2>5, <2>6, <2>7
<1>5. OneDaemon'
  BY <1>t, <1>4, KeepOne
<1>6. source' \in [Tasks -> Fingerprints] /\ \A t \in Tasks : source[t].rev <= source'[t].rev
  BY <1>t, <1>1 DEF WatchTypeOK, Fingerprints
<1> QED
  BY <1>1, <1>2, <1>3, <1>4, <1>5, <1>6, KeepIInv

(* Changes of sources and of the daemon's code. *)
LEMMA WorldKeeps ==
  ASSUME IInv, Upgrade \/ (\E t \in Tasks : Edit(t) \/ Rename(t)) \/ UNCHANGED vars
  PROVE  IInv'
<1>t. WatchTypeOK /\ OneDaemon /\ (\A x \in Clients : lease[x].req <= client[x].req)
  BY DEF IInv, Served, RequestsWereMade
<1>1. /\ FilesKept /\ lease' = lease /\ client' = client /\ lock' = lock /\ pid' = pid
  BY DEF FilesKept, files, vars, Upgrade, Edit, Rename
<1>2. changes' \in Changes
  <2>1. CASE Upgrade
    BY <1>t, <2>1, FaultTypes DEF Upgrade, Faults
  <2>2. ASSUME NEW t \in Tasks, Edit(t)
        PROVE  changes' \in Changes
    <3>1. changes' = [changes EXCEPT !.edits = changes.edits + 1]
      BY <2>2 DEF Edit
    <3> QED
      BY <1>t, <3>1, CountTypes DEF Changes
  <2>3. ASSUME NEW t \in Tasks, Rename(t)
        PROVE  changes' \in Changes
    <3> DEFINE hasty == IF Busy(t) THEN changes.hasty \cup {t} ELSE changes.hasty
    <3>1. hasty \in SUBSET Tasks
      BY <1>t, CountTypes
    <3>2. changes' = [changes EXCEPT !.renames = changes.renames + 1, !.hasty = hasty]
      BY <2>3 DEF Rename
    <3> HIDE DEF hasty
    <3> QED
      BY <1>t, <3>1, <3>2, CountTypes DEF Changes
  <2>4. CASE UNCHANGED vars
    BY <1>t, <2>4 DEF WatchTypeOK, vars
  <2> QED
    BY <2>1, <2>2, <2>3, <2>4
<1>3. source' \in [Tasks -> Fingerprints] /\ \A t \in Tasks : source[t].rev <= source'[t].rev
  <2>1. CASE source' = source
    BY <1>t, <2>1 DEF WatchTypeOK, Fingerprints
  <2>2. ASSUME NEW t \in Tasks, NEW f \in Fingerprints, f.rev = source[t].rev + 1,
               source' = [source EXCEPT ![t] = f]
        PROVE  source' \in [Tasks -> Fingerprints] /\ \A x \in Tasks : source[x].rev <= source'[x].rev
    BY <1>t, <2>2 DEF WatchTypeOK, Fingerprints
  <2>3. ASSUME NEW t \in Tasks, Edit(t)
        PROVE  source' \in [Tasks -> Fingerprints] /\ \A x \in Tasks : source[x].rev <= source'[x].rev
    <3>1. source[t] \in Fingerprints
      BY <1>t DEF WatchTypeOK
    <3>2. /\ [source[t] EXCEPT !.rev = @ + 1] \in Fingerprints
          /\ [source[t] EXCEPT !.rev = @ + 1].rev = source[t].rev + 1
      BY <3>1 DEF Fingerprints
    <3> QED
      BY <2>2, <2>3, <3>2 DEF Edit
  <2>4. ASSUME NEW t \in Tasks, Rename(t)
        PROVE  source' \in [Tasks -> Fingerprints] /\ \A x \in Tasks : source[x].rev <= source'[x].rev
    <3>1. source[t] \in Fingerprints
      BY <1>t DEF WatchTypeOK
    <3>2. [rev |-> source[t].rev + 1, members |-> 1 - source[t].members] \in Fingerprints
      BY <3>1 DEF Fingerprints
    <3> QED
      BY <2>2, <2>4, <3>2 DEF Rename
  <2> QED
    BY <2>1, <2>3, <2>4 DEF Upgrade, files, vars
<1>4. JobsKept /\ HoldersKept
  BY <1>t, UpgradeEffect, Idle DEF Edit, Rename, vars
<1>5. ClientsKept /\ OneDaemon'
  BY <1>t, <1>1, <1>4, Idle, KeepOne
<1>6. /\ lease' \in [Clients -> [req : Nat, fresh : BOOLEAN]]
      /\ \A c \in Clients : lease'[c].req <= client[c].req
      /\ lock' \in Locks /\ pid' \in Daemons \cup {None}
  BY <1>t, <1>1 DEF WatchTypeOK
<1> QED
  BY <1>1, <1>2, <1>3, <1>4, <1>5, <1>6, KeepIInv

(* The daemon reads the leases: the requests it learns of were made. *)
LEMMA ReadLeasesKeeps ==
  ASSUME IInv, NEW d \in Daemons, ReadLeases(d)
  PROVE  IInv'
<1>t. WatchTypeOK
  BY DEF IInv
<1>1. /\ daemon' \in [Daemons -> DaemonStates]
      /\ daemon[d].pc = "loop" /\ daemon'[d].pc = "scan"
      /\ \A t \in Tasks : daemon'[d].subscribed[t] = Requests(t)
      /\ \A x \in Daemons : x # d => daemon'[x] = daemon[x]
  BY <1>t, ReadLeasesEffect
<1>2. UNCHANGED <<source, out, lease, result, lock, pid, client, changes, since>>
  BY DEF ReadLeases, files
<1>3. WatchTypeOK'
  BY <1>t, <1>1, <1>2 DEF WatchTypeOK
<1>4. OneDaemon'
  BY <1>1, <1>2 DEF IInv, OneDaemon, Holds
<1>5. BuildIsNext'
  BY <1>1, <1>2 DEF IInv, BuildIsNext
<1>6. RequestsWereMade'
  <2>1. \A t \in Tasks : \A r \in Requests(t) : r[2] <= client[r[1]].req
    BY DEF IInv, Served, RequestsWereMade, Requests
  <2> QED
    BY <1>1, <1>2, <2>1 DEF IInv, Served, RequestsWereMade
<1>7. BuildServes'
  BY <1>1, <1>2 DEF IInv, Served, BuildServes
<1>8. CopiesAreOlder' /\ RequestsAreOlder' /\ AckMeansSynced' /\ Seen'
  BY <1>2 DEF IInv, Served, CopiesAreOlder, RequestsAreOlder, AckMeansSynced, Seen, SeenExists,
     FailureIsSeen
<1> QED
  BY <1>3, <1>4, <1>5, <1>6, <1>7, <1>8 DEF IInv, Served

(* A build begins: it serves all requests of its task known so far. *)
LEMMA BuildKeeps ==
  ASSUME IInv, NEW d \in Daemons, Build(d)
  PROVE  IInv'
<1>t. WatchTypeOK
  BY DEF IInv
<1>1. /\ daemon' \in [Daemons -> DaemonStates]
      /\ daemon[d].pc = "loop" /\ daemon'[d].pc = "build"
      /\ daemon'[d].subscribed = daemon[d].subscribed
      /\ \A x \in Daemons : x # d => daemon'[x] = daemon[x]
      /\ daemon'[d].task \in Tasks
      /\ daemon'[d].seq > result[daemon'[d].task].gen
      /\ daemon'[d].built = source[daemon'[d].task].rev
      /\ daemon'[d].left = {r[1] : r \in daemon[d].subscribed[daemon'[d].task]}
  BY <1>t, BuildEffect
<1>2. UNCHANGED <<source, out, lease, result, lock, pid, client, changes, since>>
  BY DEF Build, files
<1>s. \A t \in Tasks : source[t].rev \in Nat
           /\ \A c \in Clients : out[t][c] \in Nat /\ since[c][t] \in Nat
  BY <1>t DEF WatchTypeOK, Fingerprints
<1>3. WatchTypeOK'
  BY <1>t, <1>1, <1>2 DEF WatchTypeOK
<1>4. OneDaemon'
  BY <1>1, <1>2 DEF IInv, OneDaemon, Holds
<1>5. BuildIsNext'
  <2>1. \A c \in Clients : out[daemon'[d].task][c] <= daemon'[d].built
    BY <1>1 DEF IInv, Served, CopiesAreOlder
  <2>2. daemon'[d].built <= source[daemon'[d].task].rev
    BY <1>1, <1>s
  <2>3. \A c \in Clients : daemon'[d].built >= out[daemon'[d].task][c]
    BY <1>1, <1>s, <2>1
  <2> QED
    BY <1>1, <1>2, <2>2, <2>3 DEF IInv, BuildIsNext
<1>6. RequestsWereMade'
  <2>1. \A x \in Daemons : daemon'[x].subscribed = daemon[x].subscribed
    BY <1>1
  <2> QED
    BY <1>2, <2>1 DEF IInv, Served, RequestsWereMade
<1>7. BuildServes'
  <2>1. ASSUME NEW c \in Clients, <<c, client[c].req>> \in daemon[d].subscribed[daemon'[d].task]
        PROVE  /\ daemon'[d].built >= since[c][daemon'[d].task]
               /\ c \in daemon'[d].left
    <3>1. since[c][daemon'[d].task] <= daemon'[d].built
      BY <1>1 DEF IInv, Served, RequestsAreOlder
    <3>2. <<c, client[c].req>>[1] = c
      OBVIOUS
    <3>3. c \in {r[1] : r \in daemon[d].subscribed[daemon'[d].task]}
      BY <2>1, <3>2
    <3> QED
      BY <1>1, <1>s, <3>1, <3>3
  <2> QED
    BY <1>1, <1>2, <2>1 DEF IInv, Served, BuildServes
<1>8. CopiesAreOlder' /\ RequestsAreOlder' /\ AckMeansSynced' /\ Seen'
  BY <1>2 DEF IInv, Served, CopiesAreOlder, RequestsAreOlder, AckMeansSynced, Seen, SeenExists,
     FailureIsSeen
<1> QED
  BY <1>3, <1>4, <1>5, <1>6, <1>7, <1>8 DEF IInv, Served

(* A copy only becomes newer. *)
LEMMA CopyKeeps ==
  ASSUME IInv, NEW d \in Daemons, CopyAtomically(d)
  PROVE  IInv'
<1>t. WatchTypeOK
  BY DEF IInv
<1>1. /\ daemon' \in [Daemons -> DaemonStates]
      /\ daemon[d].pc = "build" /\ daemon'[d].pc = "build"
      /\ daemon'[d].subscribed = daemon[d].subscribed
      /\ daemon'[d].task = daemon[d].task /\ daemon'[d].seq = daemon[d].seq
      /\ daemon'[d].built = daemon[d].built
      /\ \A x \in Daemons : x # d => daemon'[x] = daemon[x]
  BY <1>t, CopyEffect
<1>2. PICK c \in daemon[d].left :
        /\ out' = [out EXCEPT ![daemon[d].task][c] = daemon[d].built]
        /\ daemon'[d].left = daemon[d].left \ {c}
  BY <1>t, CopyEffect
<1>3. UNCHANGED <<source, lease, result, lock, pid, client, changes, since>>
  BY DEF CopyAtomically
<1>4. /\ daemon[d].task \in Tasks /\ c \in Clients /\ daemon[d].built \in Nat
      /\ daemon[d].built <= source[daemon[d].task].rev
      /\ \A x \in Clients : daemon[d].built >= out[daemon[d].task][x]
  BY <1>t, <1>1, Parts DEF IInv, BuildIsNext
<1>s. \A t \in Tasks : source[t].rev \in Nat
           /\ \A x \in Clients : out[t][x] \in Nat /\ since[x][t] \in Nat
  BY <1>t DEF WatchTypeOK, Fingerprints
<1>5. /\ out' \in [Tasks -> [Clients -> Nat]]
      /\ out'[daemon[d].task][c] = daemon[d].built
      /\ \A t \in Tasks, x \in Clients :
           t # daemon[d].task \/ x # c => out'[t][x] = out[t][x]
  BY <1>t, <1>2, <1>4 DEF WatchTypeOK
<1>6. \A t \in Tasks, x \in Clients : out'[t][x] >= out[t][x]
  BY <1>4, <1>5, <1>s
<1>n. \A t \in Tasks, x \in Clients : out'[t][x] \in Nat
  BY <1>5
<1>7. WatchTypeOK'
  BY <1>t, <1>1, <1>3, <1>5 DEF WatchTypeOK
<1>8. OneDaemon'
  BY <1>1, <1>3 DEF IInv, OneDaemon, Holds
<1>9. \A x \in Daemons : daemon[x].pc = "build" => x = d
  BY <1>1 DEF IInv, OneDaemon, Holds
<1>10. BuildIsNext'
  <2>1. \A x \in Clients : daemon[d].built >= out'[daemon[d].task][x]
    BY <1>4, <1>5
  <2>2. /\ daemon[d].seq > result[daemon[d].task].gen
    BY <1>1 DEF IInv, BuildIsNext
  <2> QED
    BY <1>1, <1>3, <1>4, <1>9, <2>1, <2>2 DEF BuildIsNext
<1>11. RequestsWereMade'
  <2>1. \A x \in Daemons : daemon'[x].subscribed = daemon[x].subscribed
    BY <1>1
  <2> QED
    BY <1>3, <2>1 DEF IInv, Served, RequestsWereMade
<1>12. BuildServes'
  <2>1. ASSUME NEW x \in Clients, <<x, client[x].req>> \in daemon[d].subscribed[daemon[d].task],
               client[x].req > 0
        PROVE  /\ daemon[d].built >= since[x][daemon[d].task]
               /\ x \in daemon'[d].left \/ out'[daemon[d].task][x] >= since[x][daemon[d].task]
    <3>1. /\ daemon[d].built >= since[x][daemon[d].task]
          /\ x \in daemon[d].left \/ out[daemon[d].task][x] >= since[x][daemon[d].task]
      BY <1>1, <2>1 DEF IInv, Served, BuildServes
    <3>2. CASE x = c
      BY <1>5, <3>1, <3>2
    <3>3. CASE x # c
      BY <1>2, <1>4, <1>5, <3>1, <3>3
    <3> QED
      BY <3>2, <3>3
  <2> QED
    BY <1>1, <1>3, <1>9, <2>1 DEF BuildServes
<1>13. CopiesAreOlder'
  BY <1>3, <1>4, <1>5 DEF IInv, Served, CopiesAreOlder
<1>14. AckMeansSynced'
  BY <1>3, <1>6, <1>n, <1>s DEF IInv, Served, AckMeansSynced
<1>15. RequestsAreOlder' /\ Seen'
  BY <1>3 DEF IInv, Served, RequestsAreOlder, Seen, SeenExists, FailureIsSeen
<1> QED
  BY <1>7, <1>8, <1>10, <1>11, <1>12, <1>13, <1>14, <1>15 DEF IInv, Served

(* A result: of a generation nobody has seen, for requests that are served *)
(* if it is a success.                                                     *)
LEMMA ResultKeeps ==
  ASSUME IInv, NEW d \in Daemons, Succeeds(d) \/ Fails(d) \/ GivesUp(d)
  PROVE  IInv'
<1>t. WatchTypeOK
  BY DEF IInv
<1>1. PICK ok \in BOOLEAN : WriteResult(d, ok) /\ (ok => daemon[d].left = {})
  BY DEF Succeeds, Fails, GivesUp
<1>2. /\ daemon[d].pc = "build"
      /\ changes' \in Changes
  BY <1>t, FaultTypes, CountTypes DEF Faults, Succeeds, Fails, GivesUp
<1>3. /\ JobsKept /\ HoldersKept /\ daemon'[d].pc = "loop"
      /\ \A x \in Daemons : x # d => daemon'[x] = daemon[x]
  BY <1>t, <1>1, <1>2, ResultEffect
<1>4. UNCHANGED <<source, out, lease, lock, pid, client, since>>
  BY <1>1 DEF WriteResult
<1>5. /\ daemon[d].task \in Tasks
      /\ daemon[d].seq \in Nat /\ daemon[d].seq > result[daemon[d].task].gen
      /\ daemon[d].subscribed[daemon[d].task] \subseteq RequestIds
  BY <1>t, <1>2, Parts DEF IInv, BuildIsNext
<1>6. /\ result' \in [Tasks -> [gen : Nat, reqs : SUBSET RequestIds, ok : BOOLEAN]]
      /\ result'[daemon[d].task].gen = daemon[d].seq
      /\ result'[daemon[d].task].reqs = daemon[d].subscribed[daemon[d].task]
      /\ result'[daemon[d].task].ok = ok
      /\ \A t \in Tasks : t # daemon[d].task => result'[t] = result[t]
  BY <1>t, <1>1, <1>5 DEF WriteResult, WatchTypeOK
<1>s. /\ \A t \in Tasks : result[t].gen \in Nat
      /\ \A c \in Clients, t \in Tasks : client[c].last[t] \in Nat
  BY <1>t, Parts
<1>7. WatchTypeOK'
  BY <1>t, <1>2, <1>3, <1>4, <1>6 DEF WatchTypeOK, JobsKept
<1>8. OneDaemon'
  BY <1>3, <1>4, KeepOne DEF IInv
<1>9. \A x \in Daemons : daemon'[x].pc # "build"
  BY <1>2, <1>3 DEF IInv, OneDaemon, Holds, JobsKept
<1>10. BuildIsNext' /\ BuildServes'
  BY <1>9 DEF BuildIsNext, BuildServes
<1>11. RequestsWereMade'
  <2>1. \A t \in Tasks : \A r \in result'[t].reqs : r[2] <= client[r[1]].req
    BY <1>5, <1>6 DEF IInv, Served, RequestsWereMade
  <2>2. \A x \in Daemons, t \in Tasks : \A r \in daemon'[x].subscribed[t] : r[2] <= client[r[1]].req
    BY <1>3 DEF IInv, Served, RequestsWereMade, JobsKept
  <2> QED
    BY <1>4, <2>1, <2>2 DEF IInv, Served, RequestsWereMade
<1>12. AckMeansSynced'
  <2>1. ASSUME NEW c \in Clients, NEW t \in Tasks, client[c].req > 0,
               <<c, client[c].req>> \in result'[t].reqs, result'[t].ok
        PROVE  out[t][c] >= since[c][t]
    <3>1. CASE t = daemon[d].task
      <4>1. daemon[d].left = {} /\ <<c, client[c].req>> \in daemon[d].subscribed[daemon[d].task]
        BY <1>1, <1>6, <2>1, <3>1
      <4> QED
        BY <1>2, <2>1, <3>1, <4>1 DEF IInv, Served, BuildServes
    <3>2. CASE t # daemon[d].task
      BY <1>6, <2>1, <3>2 DEF IInv, Served, AckMeansSynced
    <3> QED
      BY <3>1, <3>2
  <2> QED
    BY <1>4, <2>1 DEF AckMeansSynced
<1>13. CopiesAreOlder' /\ RequestsAreOlder'
  BY <1>4 DEF IInv, Served, CopiesAreOlder, RequestsAreOlder
<1>14. Seen'
  <2>1. \A c \in Clients : client[c].last[daemon[d].task] < daemon[d].seq
    BY <1>5, <1>s DEF IInv, Seen, SeenExists
  <2>2. SeenExists'
    BY <1>4, <1>5, <1>6, <1>s, <2>1 DEF IInv, Seen, SeenExists
  <2>3. FailureIsSeen'
    BY <1>4, <1>5, <1>6, <1>s, <2>1 DEF IInv, Seen, FailureIsSeen
  <2> QED
    BY <2>2, <2>3 DEF Seen
<1> QED
  BY <1>7, <1>8, <1>10, <1>11, <1>12, <1>13, <1>14 DEF IInv, Served

(* A new request is one nobody has served. *)
LEMMA WriteLeaseKeeps ==
  ASSUME IInv, NEW c \in Clients, WriteLease(c)
  PROVE  IInv'
<1>t. WatchTypeOK
  BY DEF IInv
<1>1. /\ client' \in [Clients -> ClientStates]
      /\ client'[c].req = client[c].req + 1
      /\ client'[c].last = client[c].last
      /\ \A x \in Clients : x # c => client'[x] = client[x]
  BY <1>t, WriteLeaseEffect
<1>2. UNCHANGED <<source, out, result, lock, pid, daemon, changes>>
  BY DEF WriteLease
<1>3. /\ lease' = [lease EXCEPT ![c] = [req |-> client[c].req + 1, fresh |-> TRUE]]
      /\ since' = [since EXCEPT ![c] =
                     [t \in Tasks |-> IF t \in Uses[c] THEN source[t].rev ELSE since[c][t]]]
  BY DEF WriteLease
<1>s. /\ \A x \in Clients : client[x].req \in Nat
      /\ \A t \in Tasks : source[t].rev \in Nat
      /\ lease \in [Clients -> [req : Nat, fresh : BOOLEAN]]
      /\ since \in [Clients -> [Tasks -> Nat]]
  BY <1>t, Parts DEF WatchTypeOK
<1>4. /\ lease' \in [Clients -> [req : Nat, fresh : BOOLEAN]]
      /\ lease'[c].req = client[c].req + 1
      /\ \A x \in Clients : x # c => lease'[x] = lease[x]
  <2>1. [req |-> client[c].req + 1, fresh |-> TRUE] \in [req : Nat, fresh : BOOLEAN]
    BY <1>s
  <2> QED
    BY <1>3, <1>s, <2>1
<1>5. /\ since' \in [Clients -> [Tasks -> Nat]]
      /\ \A t \in Tasks : since'[c][t] \in {source[t].rev, since[c][t]}
      /\ \A x \in Clients : x # c => since'[x] = since[x]
  BY <1>3, <1>s
<1>6. WatchTypeOK'
  BY <1>t, <1>1, <1>2, <1>4, <1>5 DEF WatchTypeOK
<1>7. OneDaemon' /\ BuildIsNext' /\ CopiesAreOlder'
  BY <1>2 DEF IInv, Served, OneDaemon, Holds, BuildIsNext, CopiesAreOlder
<1>8. RequestsAreOlder'
  BY <1>2, <1>5, <1>s DEF IInv, Served, RequestsAreOlder
<1>9. \A x \in Clients : client[x].req <= client'[x].req /\ client'[x].req \in Nat
  BY <1>1, <1>s
<1>10. RequestsWereMade'
  <2>0. ASSUME NEW r \in RequestIds, r[2] <= client[r[1]].req PROVE r[2] <= client'[r[1]].req
    <3>1. r[1] \in Clients /\ r[2] \in Nat
      BY DEF RequestIds
    <3> QED
      BY <1>9, <1>s, <2>0, <3>1
  <2>1. ASSUME NEW x \in Clients PROVE lease'[x].req <= client'[x].req
    <3>1. CASE x = c
      <4>1. lease'[x].req = client'[x].req /\ client'[x].req \in Nat
        BY <1>1, <1>4, <1>9, <3>1
      <4> QED
        BY <4>1
    <3>2. CASE x # c
      <4>1. lease'[x] = lease[x] /\ client'[x] = client[x]
        BY <1>1, <1>4, <3>2
      <4> QED
        BY <4>1 DEF IInv, Served, RequestsWereMade
    <3> QED
      BY <3>1, <3>2
  <2>2. \A t \in Tasks : \A r \in result[t].reqs : r[2] <= client'[r[1]].req
    BY <1>t, <2>0, Parts DEF IInv, Served, RequestsWereMade
  <2>3. \A d \in Daemons, t \in Tasks : \A r \in daemon[d].subscribed[t] : r[2] <= client'[r[1]].req
    BY <1>t, <2>0, Parts DEF IInv, Served, RequestsWereMade
  <2> QED
    BY <1>2, <2>1, <2>2, <2>3 DEF RequestsWereMade
<1>11. /\ \A t \in Tasks : <<c, client'[c].req>> \notin result[t].reqs
       /\ \A d \in Daemons, t \in Tasks : <<c, client'[c].req>> \notin daemon[d].subscribed[t]
  <2>1. ~(client'[c].req <= client[c].req)
    BY <1>1, <1>s
  <2>2. <<c, client'[c].req>>[1] = c /\ <<c, client'[c].req>>[2] = client'[c].req
    OBVIOUS
  <2> QED
    BY <2>1, <2>2 DEF IInv, Served, RequestsWereMade
<1>12. BuildServes'
  <2> SUFFICES ASSUME NEW d \in Daemons, NEW x \in Clients, daemon[d].pc = "build",
                      <<x, client'[x].req>> \in daemon[d].subscribed[daemon[d].task],
                      client'[x].req > 0
               PROVE  /\ daemon[d].built >= since'[x][daemon[d].task]
                      /\ x \in daemon[d].left \/ out[daemon[d].task][x] >= since'[x][daemon[d].task]
    BY <1>2 DEF BuildServes
  <2>1. daemon[d].task \in Tasks
    BY DEF IInv, BuildIsNext
  <2>2. x # c
    BY <1>11, <2>1
  <2> QED
    BY <1>1, <1>5, <2>2 DEF IInv, Served, BuildServes
<1>13. AckMeansSynced'
  BY <1>1, <1>2, <1>5, <1>11 DEF IInv, Served, AckMeansSynced
<1>14. Seen'
  BY <1>1, <1>2 DEF IInv, Seen, SeenExists, FailureIsSeen
<1> QED
  BY <1>6, <1>7, <1>8, <1>10, <1>12, <1>13, <1>14 DEF IInv, Served

(* A client has seen what there is, and it is no failure. *)
LEMMA AcknowledgedKeeps ==
  ASSUME IInv, NEW c \in Clients, Acknowledged(c)
  PROVE  IInv'
<1>t. WatchTypeOK
  BY DEF IInv
<1>1. /\ client' \in [Clients -> ClientStates]
      /\ client'[c].req = client[c].req
      /\ \A t \in Tasks : client'[c].last[t] # client[c].last[t] =>
           client'[c].last[t] = result[t].gen /\ result[t].ok
      /\ \A x \in Clients : x # c => client'[x] = client[x]
  BY <1>t, AcknowledgedEffect
<1>2. UNCHANGED <<source, out, lease, result, lock, pid, daemon, changes, since>>
  BY DEF Acknowledged, files
<1>3. \A x \in Clients : client'[x].req = client[x].req
  BY <1>1
<1>4. WatchTypeOK'
  BY <1>t, <1>1, <1>2 DEF WatchTypeOK
<1>5. OneDaemon' /\ BuildIsNext' /\ CopiesAreOlder' /\ RequestsAreOlder'
  BY <1>2 DEF IInv, Served, OneDaemon, Holds, BuildIsNext, CopiesAreOlder, RequestsAreOlder
<1>6. RequestsWereMade'
  <2>1. \A r \in RequestIds : client'[r[1]].req = client[r[1]].req
    BY <1>3 DEF RequestIds
  <2> QED
    BY <1>t, <1>2, <1>3, <2>1, Parts DEF IInv, Served, RequestsWereMade
<1>7. BuildServes' /\ AckMeansSynced'
  BY <1>2, <1>3 DEF IInv, Served, BuildServes, AckMeansSynced
<1>8. Seen'
  <2>1. \A t \in Tasks : result[t].gen \in Nat
    BY <1>t, Parts
  <2>2. SeenExists'
    BY <1>1, <1>2, <2>1 DEF IInv, Seen, SeenExists
  <2>3. FailureIsSeen'
    BY <1>1, <1>2 DEF IInv, Seen, FailureIsSeen
  <2> QED
    BY <2>2, <2>3 DEF Seen
<1> QED
  BY <1>4, <1>5, <1>6, <1>7, <1>8 DEF IInv, Served

-----------------------------------------------------------------------------
LEMMA NextKeeps ==
  ASSUME IInv, [Next]_vars
  PROVE  IInv'
<1>1. ASSUME NEW d \in Daemons, DaemonStep(d) \/ IdleExit(d) \/ Fails(d) \/ Terminate(d) \/ Kill(d)
      PROVE  IInv'
  BY <1>1, DaemonKeeps, ReadLeasesKeeps, BuildKeeps, CopyKeeps, ResultKeeps DEF DaemonStep
<1>2. ASSUME NEW c \in Clients, Start(c) \/ ClientStep(c) \/ Lapse(c) \/ Refresh(c) \/ Quit(c)
      PROVE  IInv'
  BY <1>2, ClientKeeps, WriteLeaseKeeps, AcknowledgedKeeps DEF ClientStep
<1>3. ASSUME Upgrade \/ (\E t \in Tasks : Edit(t) \/ Rename(t)) \/ UNCHANGED vars
      PROVE  IInv'
  BY <1>3, WorldKeeps
<1> QED
  BY <1>1, <1>2, <1>3 DEF Next

(* The invariant holds in every reachable state.                           *)
THEOREM Invariance == Spec => []IInv
<1>1. Init => IInv
  BY InitIInv
<1>2. IInv /\ [Next]_vars => IInv'
  BY NextKeeps
<1> QED
  BY <1>1, <1>2, PTL DEF Spec

(* The files, the daemons and the clients keep their types, whatever the   *)
(* numbers of changes, daemons and faults.                                 *)
THEOREM TypeCorrect == Spec => []WatchTypeOK
<1>1. IInv => WatchTypeOK
  BY DEF IInv
<1> QED
  BY <1>1, Invariance, PTL

(* No client is told that its request succeeded before it has a copy that  *)
(* was built from sources no older than the request: not when its daemon   *)
(* is stopped, killed, replaced or joined by another, nor when a build or  *)
(* a copy fails half way.                                                  *)
THEOREM AckSynced == Spec => []AckMeansSynced
<1>1. IInv => AckMeansSynced
  BY DEF IInv, Served
<1> QED
  BY <1>1, Invariance, PTL

(* No failure hides behind a generation its client has seen already.       *)
THEOREM FailuresSeen == Spec => []FailureIsSeen
<1>1. IInv => FailureIsSeen
  BY DEF IInv, Seen
<1> QED
  BY <1>1, Invariance, PTL

(* Only one daemon builds, and it writes each task's results in the order  *)
(* of their generations, also after another daemon.                        *)
THEOREM Generations == Spec => GenerationsGrow
<1>1. ASSUME IInv, [Next]_vars, NEW t \in Tasks, result'[t] # result[t]
      PROVE  result'[t].gen > result[t].gen
  <2>t. WatchTypeOK
    BY <1>1 DEF IInv
  <2>1. \E d \in Daemons : Succeeds(d) \/ Fails(d) \/ GivesUp(d)
    <3>1. ASSUME NEW d \in Daemons, DaemonStep(d) \/ IdleExit(d) \/ Fails(d) \/ Terminate(d) \/ Kill(d)
          PROVE  Succeeds(d) \/ Fails(d) \/ GivesUp(d)
      BY <1>1, <3>1 DEF DaemonStep, files, Singleton, WritePidFile, Stops, IdleExit, EndsLoop, ReadLeases,
         Scan, Build, CommandEnds, CopyAtomically, Unlock, RemovePidFile, Terminate, Kill
    <3>2. ASSUME NEW c \in Clients, Start(c) \/ ClientStep(c) \/ Lapse(c) \/ Refresh(c) \/ Quit(c)
          PROVE  FALSE
      BY <1>1, <3>2 DEF ClientStep, files, Start, FindsDaemon, LacksDaemon, TakeStartLock, SpawnDaemon,
         RemoveStartLock, WriteLease, Acknowledged, Rejected, TimesOut, Wake, Refresh, LookAt, Lapse, Quit
    <3>3. ~(UNCHANGED vars) /\ ~Upgrade /\ \A x \in Tasks : ~Edit(x) /\ ~Rename(x)
      BY <1>1 DEF vars, files, Upgrade, Edit, Rename
    <3> QED
      BY <1>1, <3>1, <3>2, <3>3 DEF Next
  <2>2. PICK d \in Daemons : Succeeds(d) \/ Fails(d) \/ GivesUp(d)
    BY <2>1
  <2>3. PICK ok \in BOOLEAN : WriteResult(d, ok)
    BY <2>2 DEF Succeeds, Fails, GivesUp
  <2>4. daemon[d].pc = "build"
    BY <2>2 DEF Succeeds, Fails, GivesUp
  <2>5. daemon[d].task \in Tasks /\ daemon[d].seq > result[daemon[d].task].gen
    BY <1>1, <2>4 DEF IInv, BuildIsNext
  <2>6. t = daemon[d].task /\ result'[t].gen = daemon[d].seq
    BY <1>1, <2>t, <2>3, <2>5 DEF WriteResult, WatchTypeOK
  <2> QED
    BY <2>5, <2>6
<1>2. IInv /\ [Next]_vars =>
        [\A t \in Tasks : result'[t] # result[t] => result'[t].gen > result[t].gen]_vars
  BY <1>1
<1> QED
  BY <1>2, Invariance, PTL DEF Spec, GenerationsGrow
=============================================================================
