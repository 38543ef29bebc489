------------------------------ MODULE WasmWatch ------------------------------
(***************************************************************************)
(* The wasm watch coordinator: the dev servers of several apps share one   *)
(* daemon that builds their wasm modules and copies what it built to each. *)
(*                                                                         *)
(*  - the daemon       (wasm-watch-coordinator-daemon, -results, -types)   *)
(*  - its clients      (watch-wasm-coordinator)                            *)
(*  - fingerprints, builds and copies  (watch-wasm-producer-ops)           *)
(*                                                                         *)
(* They share files only: leases, which clients renew and the daemon polls,*)
(* results, which the daemon writes and clients poll, a directory that is  *)
(* the lock of the running daemon, one that is the lock of the client that *)
(* starts it, and a pid file.  Leases, results and copies are written to a *)
(* file that is then renamed; the pid file is written in place, and while  *)
(* it is empty it names nobody.                                            *)
(***************************************************************************)
EXTENDS Integers, FiniteSets

CONSTANTS Clients, Tasks,  \* dev servers; builds, by taskKey
          Uses,            \* client -> the tasks of its manifest
          Daemons,         \* processes of the daemon, each used again when it has ended
          None,
          Bounds           \* what may happen: one of these

Faults == {"build", "stop", "upgrade", "kill", "lapse", "refresh", "quit"}

ASSUME WatchAssumption ==
  /\ Uses \in [Clients -> SUBSET Tasks]
  /\ None \notin Daemons
  /\ Bounds \subseteq [clients : Nat, edits : Nat, renames : Nat, faults : Nat,
                       kinds : SUBSET Faults]

VARIABLES source,  \* task -> the fingerprint of what it watches
          out,     \* task -> client -> rev its copy was built from, 0 without a copy
          lease,   \* client -> its lease file
          result,  \* task -> its result file
          lock,    \* the directories daemon.instance.lock and daemon.start.lock
          pid,     \* the process daemon.pid names, None when it names none that runs
          daemon,  \* process -> state of the daemon
          client,  \* client -> state of its watcher
          changes, \* clients, edits, renames, faults so far; their kinds; tasks renamed in haste
          since    \* history: client -> task -> rev when its lease was last requested

files == <<source, out, lease, result, lock, pid>>
vars  == <<files, daemon, client, changes, since>>

-----------------------------------------------------------------------------
(* rev stands for the newest mtime and the size, which every change moves; *)
(* a rename changes which files there are and another may undo that.       *)
Fingerprints == [rev : Nat, members : {0, 1}]

(* A subscription's requestId is new with every lease requested: a client  *)
(* and a number.  req is 0 where there is no lease file.                   *)
RequestIds == Clients \X Nat

(* A lock is held by its maker, or left behind by one that died. *)
Locks == [{"instance", "start"} -> {"free", "held", "left"}]

(* Where a daemon is: it has just been spawned, writes its pid file, loops *)
(* (polls the leases when nothing is pending), looks for what to build,    *)
(* builds a task by a command and copies it to the clients in left, or     *)
(* cleans up.                                                              *)
DaemonStates == [pc : {"off", "spawned", "pid", "loop", "scan", "build", "unlock", "unpid"},
                 stopping : BOOLEAN, old : BOOLEAN,
                 subscribed : [Tasks -> SUBSET RequestIds],
                 prev : [Tasks -> Fingerprints], pending : SUBSET Tasks,
                 seq : Nat, task : Tasks \cup {None}, built : Nat, left : SUBSET Clients,
                 command : {"none", "runs", "interrupted"}]

(* Where a client is: it looks at its sources and, none left in todo, sees *)
(* to it that a daemon runs or starts one (takes the start lock, spawns,   *)
(* unlocks); it writes a lease, waits for the results, and wakes up at     *)
(* intervals to look again.  A change of membership it has seen is         *)
(* settling, then tried: answered by a refresh.                            *)
ClientStates == [pc : {"new", "scan", "start", "spawn", "unlock", "lease", "wait", "watch", "gone"},
                 req : Nat, prev : [Tasks -> Fingerprints], todo : SUBSET Tasks,
                 change : [Tasks -> {"no", "settling", "tried"}], last : [Tasks -> Nat]]

Changes == [clients : Nat, edits : Nat, renames : Nat, faults : Nat,
            kinds : SUBSET Faults, hasty : SUBSET Tasks]

WatchTypeOK ==
  /\ source \in [Tasks -> Fingerprints]
  /\ out \in [Tasks -> [Clients -> Nat]]
  /\ lease \in [Clients -> [req : Nat, fresh : BOOLEAN]]
  /\ result \in [Tasks -> [gen : Nat, reqs : SUBSET RequestIds, ok : BOOLEAN]]
  /\ lock \in Locks
  /\ pid \in Daemons \cup {None}
  /\ daemon \in [Daemons -> DaemonStates]
  /\ client \in [Clients -> ClientStates]
  /\ changes \in Changes
  /\ since \in [Clients -> [Tasks -> Nat]]

Unread == [rev |-> 0, members |-> 0]

Fresh == [pc |-> "off", stopping |-> FALSE, old |-> FALSE, subscribed |-> [t \in Tasks |-> {}],
          prev |-> [t \in Tasks |-> Unread], pending |-> {}, seq |-> 0, task |-> None,
          built |-> 0, left |-> {}, command |-> "none"]

Init ==
  /\ source = [t \in Tasks |-> [rev |-> 1, members |-> 0]]
  /\ out = [t \in Tasks |-> [c \in Clients |-> 0]]
  /\ lease = [c \in Clients |-> [req |-> 0, fresh |-> FALSE]]
  /\ result = [t \in Tasks |-> [gen |-> 0, reqs |-> {}, ok |-> FALSE]]
  /\ lock = [x \in {"instance", "start"} |-> "free"]
  /\ pid = None
  /\ daemon = [d \in Daemons |-> Fresh]
  /\ client = [c \in Clients |->
       [pc |-> "new", req |-> 0, prev |-> [t \in Tasks |-> Unread], todo |-> {},
        change |-> [t \in Tasks |-> "no"], last |-> [t \in Tasks |-> 0]]]
  /\ changes = [clients |-> 0, edits |-> 0, renames |-> 0, faults |-> 0, kinds |-> {}, hasty |-> {}]
  /\ since = [c \in Clients |-> [t \in Tasks |-> 0]]

-----------------------------------------------------------------------------
Bounded == \E b \in Bounds :
  /\ changes'.clients <= b.clients
  /\ changes'.edits <= b.edits
  /\ changes'.renames <= b.renames
  /\ changes'.faults <= b.faults /\ changes'.kinds \subseteq b.kinds

(* The programmer changes a file, or creates, removes or renames one. *)
Edit(t) ==
  /\ changes' = [changes EXCEPT !.edits = @ + 1]
  /\ Bounded
  /\ source' = [source EXCEPT ![t].rev = @ + 1]
  /\ UNCHANGED <<out, lease, result, lock, pid, daemon, client, since>>

(* A client is not done with the last change of membership. *)
Busy(t) == \E c \in Clients : t \in Uses[c] /\ client[c].pc # "new"
             /\ (client[c].change[t] # "no" \/ client[c].prev[t].members # source[t].members)

Rename(t) ==
  /\ changes' = [changes EXCEPT !.renames = @ + 1,
                                !.hasty = IF Busy(t) THEN @ \cup {t} ELSE @]
  /\ Bounded
  /\ source' = [source EXCEPT ![t] = [rev |-> @.rev + 1, members |-> 1 - @.members]]
  /\ UNCHANGED <<out, lease, result, lock, pid, daemon, client, since>>

Fault(f) ==
  /\ changes' = [changes EXCEPT !.faults = @ + 1, !.kinds = @ \cup {f}]
  /\ Bounded

(* A lease is not renewed for leaseTtlMs: its client waits for a result,   *)
(* or is gone.                                                             *)
Lapse(c) ==
  /\ lease[c].fresh
  /\ client[c].pc \in {"wait", "gone"}
  /\ Fault("lapse")
  /\ lease' = [lease EXCEPT ![c].fresh = FALSE]
  /\ UNCHANGED <<source, out, result, lock, pid, daemon, client, since>>

-----------------------------------------------------------------------------
(* The daemon.  Mutant of Singleton: the lock is not looked at. *)
StartAnyway(d) ==
  /\ daemon[d].pc = "spawned"
  /\ lock' = [lock EXCEPT !["instance"] = "held"]
  /\ daemon' = [daemon EXCEPT ![d].pc = "pid"]
  /\ UNCHANGED <<source, out, lease, result, pid, client, changes, since>>

(* One daemon makes the lock directory, any other ends. *)
Singleton(d) ==
  /\ daemon[d].pc = "spawned"
  /\ lock' = [lock EXCEPT !["instance"] = IF @ = "free" THEN "held" ELSE @]
  /\ daemon' = [daemon EXCEPT ![d].pc = IF lock["instance"] = "free" THEN "pid" ELSE "off"]
  /\ UNCHANGED <<source, out, lease, result, pid, client, changes, since>>

WritePidFile(d) ==
  /\ daemon[d].pc = "pid"
  /\ pid' = d
  /\ daemon' = [daemon EXCEPT ![d].pc = "loop"]
  /\ UNCHANGED <<source, out, lease, result, lock, client, changes, since>>

Polls(d) == daemon[d].pc = "loop" /\ daemon[d].pending = {}

(* The loop ends by a signal, ... *)
EndsLoop(d) ==
  /\ Polls(d)
  /\ daemon' = [daemon EXCEPT ![d].pc = "unlock"]
  /\ UNCHANGED <<files, client, changes, since>>

Stops(d) == daemon[d].stopping /\ EndsLoop(d)

(* ... or when there has been no lease for idleExitMs. *)
IdleExit(d) ==
  /\ ~daemon[d].stopping
  /\ \A c \in Clients : ~lease[c].fresh
  /\ EndsLoop(d)

(* readLeases and tasksFromLeases: the requests of the clients that use t. *)
Requests(t) == {<<c, lease[c].req>> : c \in {x \in Clients : lease[x].fresh /\ t \in Uses[x]}}

(* Tasks nobody uses are forgotten, new ones fingerprinted and queued. *)
ReadLeases(d) ==
  /\ Polls(d)
  /\ ~daemon[d].stopping
  /\ LET added == {t \in Tasks : Requests(t) # {} /\ daemon[d].subscribed[t] = {}}
     IN  daemon' = [daemon EXCEPT
           ![d].pc = "scan",
           ![d].subscribed = [t \in Tasks |-> Requests(t)],
           ![d].prev = [t \in Tasks |-> IF t \in added THEN source[t]
                                         ELSE IF Requests(t) = {} THEN Unread ELSE @[t]],
           ![d].pending = added]
  /\ UNCHANGED <<files, client, changes, since>>

(* The subscribed tasks whose result lacks a request, whose source changed. *)
Asked(d) ==
  {t \in Tasks : ~(daemon[d].subscribed[t] \subseteq result[t].reqs)}
Changed(d) ==
  {t \in Tasks : daemon[d].subscribed[t] # {} /\ daemon[d].prev[t] # source[t]}

(* A change that leaves the same files is queued; one that does not is     *)
(* left to the clients, which refresh.                                     *)
Scan(d) ==
  /\ daemon[d].pc = "scan"
  /\ daemon' = [daemon EXCEPT
       ![d].pc = "loop",
       ![d].prev = [t \in Tasks |-> IF t \in Changed(d) THEN source[t] ELSE @[t]],
       ![d].pending = @ \cup Asked(d)
         \cup {t \in Changed(d) : daemon[d].prev[t].members = source[t].members}]
  /\ UNCHANGED <<files, client, changes, since>>

Larger(m, n) == IF m > n THEN m ELSE n

(* Mutant of Generation: a daemon counts its own builds. *)
OwnGeneration(d, t) == daemon[d].seq + 1

Generation(d, t) == Larger(daemon[d].seq + 1, result[t].gen + 1)

(* runQueued: the next task is built, from sources no older than now; ... *)
Build(d) ==
  /\ daemon[d].pc = "loop"
  /\ \E t \in daemon[d].pending :
       daemon' = [daemon EXCEPT ![d] =
         [daemon[d] EXCEPT !.pc = "build", !.task = t, !.pending = @ \ {t},
                            !.seq = Generation(d, t), !.built = source[t].rev,
                            !.left = {r[1] : r \in daemon[d].subscribed[t]},
                            !.command = "runs"]]
  /\ UNCHANGED <<files, client, changes, since>>

(* ... the command ends, an interrupted one perhaps in spite of it, ... *)
CommandEnds(d) ==
  /\ daemon[d].command # "none"
  /\ daemon' = [daemon EXCEPT ![d].command = "none"]
  /\ UNCHANGED <<files, client, changes, since>>

(* ... the output is copied to one subscriber after another, ... *)
CopyAtomically(d) ==
  /\ daemon[d].pc = "build" /\ daemon[d].command = "none"
  /\ \E c \in daemon[d].left :
       /\ out' = [out EXCEPT ![daemon[d].task][c] = daemon[d].built]
       /\ daemon' = [daemon EXCEPT ![d].left = @ \ {c}]
  /\ UNCHANGED <<source, lease, result, lock, pid, client, changes, since>>

WriteResult(d, ok) ==
  /\ result' = [result EXCEPT ![daemon[d].task] =
       [gen |-> daemon[d].seq, reqs |-> daemon[d].subscribed[daemon[d].task], ok |-> ok]]
  /\ daemon' = [daemon EXCEPT ![d].pc = "loop", ![d].task = None, ![d].built = 0, ![d].left = {},
                                ![d].command = "none"]
  /\ UNCHANGED <<source, out, lease, lock, pid, client, since>>

(* Mutant of Succeeds: the build is acknowledged before its output is there. *)
SucceedsAtOnce(d) ==
  /\ daemon[d].pc = "build"
  /\ WriteResult(d, TRUE)
  /\ UNCHANGED changes

(* ... and the requests are acknowledged; ... *)
Succeeds(d) ==
  /\ daemon[d].pc = "build" /\ daemon[d].command = "none"
  /\ daemon[d].left = {}
  /\ WriteResult(d, TRUE)
  /\ UNCHANGED changes

(* ... a build, or a copy, that fails is acknowledged as a failure.        *)
Fails(d) ==
  /\ daemon[d].pc = "build"
  /\ Fault("build")
  /\ WriteResult(d, FALSE)

(* So is one whose command was interrupted. *)
GivesUp(d) ==
  /\ daemon[d].pc = "build" /\ daemon[d].command = "interrupted"
  /\ WriteResult(d, FALSE)
  /\ UNCHANGED changes

(* It removes its lock, ... *)
Unlock(d) ==
  /\ daemon[d].pc = "unlock"
  /\ lock' = [lock EXCEPT !["instance"] = "free"]
  /\ daemon' = [daemon EXCEPT ![d].pc = "unpid"]
  /\ UNCHANGED <<source, out, lease, result, pid, client, changes, since>>

(* ... then the pid file, which may be the next daemon's already. *)
RemovePidFile(d) ==
  /\ daemon[d].pc = "unpid"
  /\ pid' = None
  /\ daemon' = [daemon EXCEPT ![d] = Fresh]
  /\ UNCHANGED <<source, out, lease, result, lock, client, changes, since>>

(* A process that dies removes nothing. *)
Holds(d) == daemon[d].pc \in {"pid", "loop", "scan", "build", "unlock"}

Dies(d) ==
  /\ daemon' = [daemon EXCEPT ![d] = Fresh]
  /\ lock' = [lock EXCEPT !["instance"] = IF Holds(d) THEN "left" ELSE @]
  /\ pid' = IF pid = d THEN None ELSE pid

(* SIGTERM.  The daemon's handler takes one signal only, and notes that it *)
(* is to stop; so does that of a command, which is then terminated.  When  *)
(* a signal finds neither, the process dies.                               *)
Handles(d) ==
  /\ daemon[d].pc \notin {"spawned", "pid"}
  /\ ~daemon[d].stopping \/ daemon[d].command = "runs"

Signal(d) ==
  \/ /\ Handles(d)
     /\ daemon' = [daemon EXCEPT ![d].stopping = TRUE,
                     ![d].command = IF @ = "runs" THEN "interrupted" ELSE @]
     /\ UNCHANGED <<lock, pid>>
  \/ ~Handles(d) /\ Dies(d)

Terminate(d) ==
  /\ daemon[d].pc # "off"
  /\ Fault("stop")
  /\ Signal(d)
  /\ UNCHANGED <<source, out, lease, result, client, since>>

(* SIGKILL. *)
Kill(d) ==
  /\ daemon[d].pc # "off"
  /\ Fault("kill")
  /\ Dies(d)
  /\ UNCHANGED <<source, out, lease, result, client, since>>

(* New code of the daemon, younger than the pid files there are.           *)
Upgrade ==
  /\ Fault("upgrade")
  /\ daemon' = [d \in Daemons |->
       [daemon[d] EXCEPT !.old = daemon[d].pc \notin {"off", "spawned", "pid"}]]
  /\ UNCHANGED <<files, client, since>>

-----------------------------------------------------------------------------
(* A client.  It remembers its sources as they are when it starts. *)
Start(c) ==
  /\ client[c].pc = "new"
  /\ changes' = [changes EXCEPT !.clients = @ + 1]
  /\ Bounded
  /\ client' = [client EXCEPT ![c].pc = "scan",
       ![c].prev = [t \in Tasks |-> IF t \in Uses[c] THEN source[t] ELSE @[t]]]
  /\ UNCHANGED <<files, daemon, since>>

(* Having looked at its sources it sees to it that a daemon runs.          *)
Looked(c) == client[c].pc = "scan" /\ client[c].todo = {}

After(c) == IF client[c].req = 0 THEN "lease" ELSE "wait"

(* ensureDaemon: one of the present code does, ... *)
FindsDaemon(c) ==
  /\ Looked(c)
  /\ pid # None /\ ~daemon[pid].old
  /\ client' = [client EXCEPT ![c].pc = After(c)]
  /\ UNCHANGED <<files, daemon, changes, since>>

(* ... or none, or an older one, which is sent a SIGTERM; ... *)
LacksDaemon(c) ==
  /\ Looked(c)
  /\ \/ pid = None /\ UNCHANGED <<daemon, lock, pid>>
     \/ pid # None /\ daemon[pid].old /\ Signal(pid)
  /\ client' = [client EXCEPT ![c].pc = "start"]
  /\ UNCHANGED <<source, out, lease, result, changes, since>>

(* ... one client at a time starts a new one, any other goes on; ... *)
TakeStartLock(c) ==
  /\ client[c].pc = "start"
  /\ lock' = [lock EXCEPT !["start"] = IF @ = "free" THEN "held" ELSE @]
  /\ client' = [client EXCEPT ![c].pc = IF lock["start"] = "free" THEN "spawn" ELSE After(c)]
  /\ UNCHANGED <<source, out, lease, result, pid, daemon, changes, since>>

(* ... it spawns the daemon (where Daemons has no process left, one that   *)
(* finds the lock held), ...                                               *)
SpawnDaemon(c) ==
  /\ client[c].pc = "spawn"
  /\ LET off == {d \in Daemons : daemon[d].pc = "off"}
     IN  \/ off = {} /\ UNCHANGED daemon
         \/ \E d \in off : daemon' = [daemon EXCEPT ![d] = [Fresh EXCEPT !.pc = "spawned"]]
  /\ client' = [client EXCEPT ![c].pc = "unlock"]
  /\ UNCHANGED <<files, changes, since>>

(* Mutant of RemoveStartLock: it stays for the next start. *)
KeepStartLock(c) ==
  /\ client[c].pc = "unlock"
  /\ client' = [client EXCEPT ![c].pc = After(c)]
  /\ UNCHANGED <<files, daemon, changes, since>>

(* ... and removes the start lock. *)
RemoveStartLock(c) ==
  /\ client[c].pc = "unlock"
  /\ lock' = [lock EXCEPT !["start"] = "free"]
  /\ client' = [client EXCEPT ![c].pc = After(c)]
  /\ UNCHANGED <<source, out, lease, result, pid, daemon, changes, since>>

(* writeLease: a new lease, with new requests. *)
WriteLease(c) ==
  /\ client[c].pc = "lease"
  /\ client' = [client EXCEPT ![c].pc = "wait", ![c].req = @ + 1]
  /\ lease' = [lease EXCEPT ![c] = [req |-> client[c].req + 1, fresh |-> TRUE]]
  /\ since' = [since EXCEPT ![c] = [t \in Tasks |-> IF t \in Uses[c] THEN source[t].rev ELSE @[t]]]
  /\ UNCHANGED <<source, out, result, lock, pid, daemon, changes>>

(* waitForLeaseResults: the results that answer the requests. *)
Answered(c) == {t \in Uses[c] : <<c, client[c].req>> \in result[t].reqs}
News(c) == {t \in Answered(c) : result[t].gen > client[c].last[t]}

(* All are there, and none that is new is a failure. *)
Acknowledged(c) ==
  /\ client[c].pc = "wait"
  /\ Answered(c) = Uses[c]
  /\ \A t \in News(c) : result[t].ok
  /\ client' = [client EXCEPT ![c].pc = "watch",
       ![c].last = [t \in Tasks |-> IF t \in News(c) THEN result[t].gen ELSE @[t]]]
  /\ UNCHANGED <<files, daemon, changes, since>>

(* A failure, or the time out, ends the client; its lease is left to lapse. *)
Rejected(c) ==
  /\ client[c].pc = "wait"
  /\ \E t \in News(c) : ~result[t].ok
  /\ client' = [client EXCEPT ![c].pc = "gone"]
  /\ UNCHANGED <<files, daemon, changes, since>>

TimesOut(c) ==
  /\ client[c].pc = "wait"
  /\ Answered(c) # Uses[c]
  /\ client' = [client EXCEPT ![c].pc = "gone"]
  /\ UNCHANGED <<files, daemon, changes, since>>

(* The client wakes up: it renews its lease, ... *)
Wake(c) ==
  /\ client[c].pc = "watch"
  /\ lease' = [lease EXCEPT ![c].fresh = TRUE]
  /\ client' = [client EXCEPT ![c].pc = "scan", ![c].todo = Uses[c]]
  /\ UNCHANGED <<source, out, result, lock, pid, daemon, changes, since>>

(* ... or finds that its manifest or targets changed, and refreshes.       *)
Refresh(c) ==
  /\ client[c].pc = "watch"
  /\ Fault("refresh")
  /\ client' = [client EXCEPT ![c].pc = "lease"]
  /\ UNCHANGED <<files, daemon, since>>

(* It looks at one source after another.  Looks at a change of membership  *)
(* that come before refreshThrottleMs are over change nothing.             *)
Accept(c, t) ==
  client' = [client EXCEPT ![c].prev[t] = source[t], ![c].change[t] = "no", ![c].todo = @ \ {t}]

LookAt(c, t) ==
  LET same == client[c].prev[t].members = source[t].members
      seen == client[c].change[t]
  IN  /\ client[c].pc = "scan"
      /\ t \in client[c].todo
      /\ \/ /\ same \/ seen = "tried"
            /\ Accept(c, t)
         \/ /\ ~same /\ seen = "no"
            /\ client' = [client EXCEPT ![c].change[t] = "settling", ![c].todo = @ \ {t}]
         \/ /\ ~same /\ seen = "settling"
            /\ client' = [client EXCEPT ![c].pc = "lease", ![c].change[t] = "tried", ![c].todo = {}]
      /\ UNCHANGED <<files, daemon, changes, since>>

(* The client is interrupted, and removes its lease, or it is killed.  The *)
(* start lock stays, if it has it.                                         *)
Quit(c) ==
  /\ client[c].pc \notin {"new", "gone"}
  /\ Fault("quit")
  /\ client' = [client EXCEPT ![c].pc = "gone"]
  /\ lease' \in {lease, [lease EXCEPT ![c] = [req |-> 0, fresh |-> FALSE]]}
  /\ lock' = [lock EXCEPT !["start"] = IF client[c].pc \in {"spawn", "unlock"} THEN "left" ELSE @]
  /\ UNCHANGED <<source, out, result, pid, daemon, since>>

-----------------------------------------------------------------------------
DaemonStep(d) ==
  \/ Singleton(d) \/ WritePidFile(d) \/ ReadLeases(d) \/ Scan(d) \/ Build(d)
  \/ CommandEnds(d) \/ CopyAtomically(d) \/ Succeeds(d) \/ GivesUp(d)
  \/ Stops(d) \/ Unlock(d) \/ RemovePidFile(d)

ClientStep(c) ==
  \/ FindsDaemon(c) \/ LacksDaemon(c) \/ TakeStartLock(c) \/ SpawnDaemon(c) \/ RemoveStartLock(c)
  \/ WriteLease(c) \/ Acknowledged(c) \/ Rejected(c) \/ TimesOut(c) \/ Wake(c)
  \/ \E t \in Tasks : LookAt(c, t)

Next ==
  \/ \E t \in Tasks : Edit(t) \/ Rename(t)
  \/ \E d \in Daemons : DaemonStep(d) \/ IdleExit(d) \/ Fails(d) \/ Terminate(d) \/ Kill(d)
  \/ Upgrade
  \/ \E c \in Clients : Start(c) \/ ClientStep(c) \/ Lapse(c) \/ Refresh(c) \/ Quit(c)

Spec == Init /\ [][Next]_vars

(* Processes take their steps, as long as they live.  Nothing makes a      *)
(* client come or a daemon idle, and nothing makes anything fail.          *)
FairSpec ==
  /\ Spec
  /\ \A d \in Daemons : WF_vars(DaemonStep(d))
  /\ \A c \in Clients : WF_vars(ClientStep(c))

-----------------------------------------------------------------------------
(* A client's request is acknowledged as a success only when the client    *)
(* has a copy built from sources no older than the request.                *)
AckMeansSynced ==
  \A c \in Clients, t \in Tasks :
    /\ client[c].req > 0
    /\ <<c, client[c].req>> \in result[t].reqs
    /\ result[t].ok
    => out[t][c] >= since[c][t]

(* A client does not take a failure for a result it has seen.              *)
FailureIsSeen ==
  \A c \in Clients, t \in Tasks :
    client[c].last[t] > 0 /\ result[t].gen = client[c].last[t] => result[t].ok

(* The generations of a task grow from result to result, whichever daemon  *)
(* writes them: clients tell a new result from one they have seen by it.   *)
GenerationsGrow ==
  [][\A t \in Tasks : result'[t] # result[t] => result'[t].gen > result[t].gen]_vars

(* A lock whose maker has died stays: with the daemon's lock no other      *)
(* daemon begins, with the start lock none does once the last has ended.   *)
Abandoned ==
  \/ lock["instance"] = "left"
  \/ lock["start"] = "left" /\ \A d \in Daemons : daemon[d].pc = "off"

(* build-tools/docs/scaffolding.md:225: edits of a producer update the     *)
(* output without a restart. A client that stays gets a copy built from    *)
(* its sources as they are, whatever changes while a daemon starts, polls, *)
(* builds or is replaced and whichever clients start it, with two          *)
(* exceptions: files created or removed again before the client is done    *)
(* with the last such change (it takes both for the one it refreshed), and *)
(* abandoned locks.                                                        *)
EveryChangeIsBuilt ==
  \A c \in Clients : \A t \in Uses[c] :
    client[c].pc # "new" ~>
      client[c].pc = "gone" \/ out[t][c] = source[t].rev \/ t \in changes.hasty \/ Abandoned

(* The two below do not hold: see the known limits in README.md.           *)

(* wasm-watch-coordinator-daemon.ts:114: "Another daemon process already   *)
(* owns the singleton lock for this repo", wherever it finds the lock.     *)
(* But a daemon whose code is old is signalled by each pass of each client *)
(* and dies of the second signal, its lock still there.                    *)
LockHasOwner == lock["instance"] # "free" => \E d \in Daemons : Holds(d)

(* build-tools/docs/scaffolding.md:225: what a client that stays has is    *)
(* built from its sources as they are, files created or removed included.  *)
EveryRenameIsBuilt ==
  \A c \in Clients : \A t \in Uses[c] :
    client[c].pc # "new" ~> client[c].pc = "gone" \/ out[t][c] = source[t].rev
=============================================================================
