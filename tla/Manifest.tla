------------------------------ MODULE Manifest ------------------------------
(***************************************************************************)
(* What a node has stored, and the program that sees to it that everything *)
(* selected is stored.                                                     *)
(*                                                                         *)
(* The manifest maps the paths a node has stored, and the directories      *)
(* above them, to their keys.  The runtime thread changes it in memory and *)
(* writes it to disk at the end of every store (FludFileOperations.py,     *)
(* _updateMaster); PUTM stores the file like any other and publishes its   *)
(* key under the node's id (UpdateManifest).  The scheduler is a process   *)
(* of its own, FludScheduler.py.  It asks the node for the manifest (LIST) *)
(* and has it store what is missing (PUTF) over the local protocol of      *)
(* AsyncLocal.py and AsyncLocalClient.py, which users speak as well.  The  *)
(* node answers in its server thread.                                      *)
(*                                                                         *)
(* What happens inside a store is FileStore's part.  Here it succeeds or   *)
(* fails, and only its end counts.                                         *)
(***************************************************************************)
EXTENDS Integers, FiniteSets

CONSTANTS
  Files,        \* paths of files, without the manifest's
  Dirs,         \* paths of directories
  ManifestFile, \* path of the manifest
  Above,        \* Above[p]: the directories above path p
  Selected,     \* paths selected in fludfile.conf
  Excluded,     \* paths excluded there
  Scheduler,    \* the scheduler, and
  Users,        \* other clients of the local protocol, each for one command
  UserFiles,    \* files they store
  Replicas,     \* nodes that hold what is published under the node's id
  Idle,         \* a client that waits for no answer
  Torn,         \* a manifest that cannot be decoded
  NoValue,      \* a replica that holds nothing yet
  MaxListed,    \* paths in a LIST answer the client can read: a line of 64 KiB
  MaxFailures,  \* bound on the stores that fail
  MaxCrashes    \* bound on the crashes of the node

Clients == Users \cup {Scheduler}
Paths == Files \cup Dirs \cup {ManifestFile}

\* A request is at a step; got is a manifest that belongs to it, left are the
\* replicas that are still to be told.  The answer to LIST is looked at, and is
\* "ok"; of the others and of errors it counts only that there is one ("ended").
Steps == {"asked", "wait", "fetch", "store", "save", "publish", "encode", "ok", "ended", "silent"}
Requests == [cmd : {"PUTF", "PUTM", "LIST"}, path : Paths, at : Steps,
             got : SUBSET Paths, left : SUBSET Replicas]

ASSUME ManifestAssumption ==
  /\ IsFiniteSet(Paths)
  /\ Files \cap Dirs = {} /\ ManifestFile \notin Files \cup Dirs
  /\ Above \in [Paths -> SUBSET Dirs]
  /\ Selected \subseteq Files \cup Dirs /\ Excluded \subseteq Files \cup Dirs
  /\ Scheduler \notin Users /\ UserFiles \subseteq Files
  /\ Idle \notin Requests
  /\ \A s \in SUBSET Paths : s \notin {Torn, NoValue}
  /\ MaxListed \in Nat /\ MaxFailures \in Nat /\ MaxCrashes \in Nat

VARIABLES
  exists,    \* files there are
  memory,    \* paths in the manifest that the node has in memory
  disk,      \* paths in the manifest on disk
  saving,    \* the runtime thread in _updateMaster: whose store, dirs to add, next step
  request,   \* request[c]: the command c waits for
  net,       \* net[r]: the manifest whose key r holds
  up,        \* the node runs
  phase,     \* what the scheduler is doing
  known,     \* its mastermetadata: the last answer to LIST
  todo,      \* the files it has still to send
  connected, \* its connection is open
  failures, crashes, \* counts
  acked,     \* history: files whose store was acknowledged
  hurt       \* history: a crash came while the manifest was being written

node == <<memory, disk, saving, net, up>>
scheduler == <<phase, known, todo, connected>>
history == <<failures, crashes, acked, hurt>>
vars == <<exists, node, request, scheduler, history>>

NotSaving == [client |-> Idle, dirs |-> {}, step |-> "rest"]

Init ==
  /\ exists = {}
  /\ memory = {} /\ disk = {}
  /\ saving = NotSaving
  /\ request = [c \in Clients |-> Idle]
  /\ net = [r \in Replicas |-> NoValue]
  /\ up = TRUE
  /\ phase = "list" /\ known = {} /\ todo = {} /\ connected = TRUE
  /\ failures = 0 /\ crashes = 0
  /\ acked = {} /\ hurt = FALSE

Create(f) ==
  /\ f \notin exists
  /\ exists' = exists \cup {f}
  /\ UNCHANGED <<node, request, scheduler, history>>

-----------------------------------------------------------------------------
(* Local commands.                                                         *)

Command(cmd, path, at, got) == [cmd |-> cmd, path |-> path, at |-> at, got |-> got, left |-> {}]

\* A client sends one command and holds its lock until the answer has come.
Asks(c, r) == request[c] = Idle /\ request' = [request EXCEPT ![c] = r]
Ended(c) == request[c] # Idle /\ request[c].at \in {"ok", "ended"}

\* c waits for one of the commands cmds, which is at step a.
At(c, cmds, a) == request[c] # Idle /\ request[c].cmd \in cmds /\ request[c].at = a
Over(r) == Command(r.cmd, r.path, "ended", {})
Goes(c, a) == request' = [request EXCEPT ![c].at = a]

UserPutf(u, f) ==
  /\ up /\ f \in exists
  /\ Asks(u, Command("PUTF", f, "store", {}))
  /\ UNCHANGED <<exists, node, scheduler, history>>

UserPutm(u) ==
  /\ up
  /\ Asks(u, Command("PUTM", ManifestFile, "wait", {}))
  /\ UNCHANGED <<exists, node, scheduler, history>>

-----------------------------------------------------------------------------
(* The runtime thread.                                                     *)

\* _updateMaster does not await: until it has written the manifest, no other
\* step of the thread comes between.
RuntimeFree == up /\ saving = NotSaving

\* Mutant of StartPutm: as many at a time as of the other commands.
StartPutmAny(u) ==
  /\ up /\ At(u, {"PUTM"}, "wait")
  /\ Goes(u, "fetch")
  /\ UNCHANGED <<exists, node, scheduler, history>>

\* The semaphore of PUTM lets one at a time pass.
StartPutm(u) ==
  /\ up /\ At(u, {"PUTM"}, "wait")
  /\ \A v \in Users \ {u} : ~\E a \in {"fetch", "store", "save", "publish"} : At(v, {"PUTM"}, a)
  /\ Goes(u, "fetch")
  /\ UNCHANGED <<exists, node, scheduler, history>>

\* The manifest is looked for in the network first; whatever that gives is
\* dropped.  Then the file is read, as it is on disk, to be stored.
ReadManifest(u) ==
  /\ RuntimeFree /\ At(u, {"PUTM"}, "fetch")
  /\ request' = [request EXCEPT ![u].at = "store", ![u].got = disk]
  /\ UNCHANGED <<exists, node, scheduler, history>>

\* A failed PUTF is answered with the error, or with False, if a block could not be
\* stored: that looks like success.  PUTM unpacks False, which raises; an exception
\* it returns like a result, which cannot be encoded, and there is no answer.
StoreFails(c) ==
  /\ RuntimeFree /\ At(c, {"PUTF", "PUTM"}, "store")
  /\ failures < MaxFailures /\ failures' = failures + 1
  /\ \/ request' = [request EXCEPT ![c] = Over(@)]
     \/ request[c].cmd = "PUTM" /\ Goes(c, "silent")
  /\ UNCHANGED <<exists, node, scheduler, crashes, acked, hurt>>

\* The entry of the file.  Those of the directories above it follow.
UpdateMaster(c) ==
  /\ RuntimeFree /\ At(c, {"PUTF", "PUTM"}, "store")
  /\ memory' = memory \cup {request[c].path}
  /\ saving' = [client |-> c, dirs |-> Above[request[c].path] \ memory, step |-> "dirs"]
  /\ Goes(c, "save")
  /\ UNCHANGED <<exists, disk, net, up, scheduler, history>>

AddDir(d) ==
  /\ up /\ saving.step = "dirs" /\ d \in saving.dirs
  /\ memory' = memory \cup {d}
  /\ saving' = [saving EXCEPT !.dirs = @ \ {d}]
  /\ UNCHANGED <<exists, disk, request, net, up, scheduler, history>>

\* _updateMaster raises, and the store fails.
SaveFails ==
  LET c == saving.client
  IN /\ failures < MaxFailures /\ failures' = failures + 1
     /\ saving' = NotSaving
     /\ IF request[c].cmd = "PUTF"
        THEN request' = [request EXCEPT ![c] = Over(@)]
        ELSE Goes(c, "silent")
     /\ UNCHANGED <<exists, memory, net, up, scheduler, crashes, acked, hurt>>

\* filemetadata raises if a directory is not there any more.  The entries that were
\* made stay in memory.
DirGone ==
  /\ up /\ saving.step = "dirs" /\ saving.dirs # {}
  /\ SaveFails
  /\ UNCHANGED disk

\* syncManifest: open truncates the file,
OpenDisk ==
  /\ up /\ saving.step = "dirs" /\ saving.dirs = {}
  /\ disk' = {}
  /\ saving' = [saving EXCEPT !.step = "write"]
  /\ UNCHANGED <<exists, memory, request, net, up, scheduler, history>>

\* Mutant of WriteDisk: the manifest was encoded before the entry was made.
WriteDiskStale ==
  LET c == saving.client
  IN /\ up /\ saving.step = "write"
     /\ disk' = memory \ {request[c].path}
     /\ saving' = NotSaving
     /\ IF request[c].cmd = "PUTF"
        THEN Goes(c, "ended") /\ acked' = acked \cup {request[c].path}
        ELSE request' = [request EXCEPT ![c].at = "publish", ![c].left = Replicas] /\ UNCHANGED acked
     /\ UNCHANGED <<exists, memory, net, up, scheduler, failures, crashes, hurt>>

\* and close has written it.  The store is done.
WriteDisk ==
  LET c == saving.client
  IN /\ up /\ saving.step = "write"
     /\ disk' = memory
     /\ saving' = NotSaving
     /\ IF request[c].cmd = "PUTF"
        THEN Goes(c, "ended") /\ acked' = acked \cup {request[c].path}
        ELSE request' = [request EXCEPT ![c].at = "publish", ![c].left = Replicas] /\ UNCHANGED acked
     /\ UNCHANGED <<exists, memory, net, up, scheduler, failures, crashes, hurt>>

\* Or the manifest is written, and then the copy of the block metadata is not.
CacheFails ==
  /\ up /\ saving.step = "write"
  /\ SaveFails
  /\ disk' = memory

\* k_store under the node's id.
Publish(u, r) ==
  /\ RuntimeFree /\ At(u, {"PUTM"}, "publish") /\ r \in request[u].left
  /\ net' = [net EXCEPT ![r] = request[u].got]
  /\ request' = [request EXCEPT ![u].left = @ \ {r}]
  /\ UNCHANGED <<exists, memory, disk, saving, up, scheduler, history>>

\* It raises if one of the nodes fails, when all have answered.
Published(u) ==
  /\ RuntimeFree /\ At(u, {"PUTM"}, "publish")
  /\ \/ request[u].left = {} /\ UNCHANGED failures
     \/ request[u].left # {} /\ failures < MaxFailures /\ failures' = failures + 1
  /\ request' = [request EXCEPT ![u] = Over(@)]
  /\ UNCHANGED <<exists, node, scheduler, crashes, acked, hurt>>

-----------------------------------------------------------------------------
(* LIST, in the server thread.  The dictionary is encoded without its lock: *)
(* one that grows meanwhile raises where nothing answers.                   *)

ListStarts ==
  /\ up /\ At(Scheduler, {"LIST"}, "asked")
  /\ request' = [request EXCEPT ![Scheduler].at = "encode", ![Scheduler].got = memory]
  /\ UNCHANGED <<exists, node, scheduler, history>>

Listed ==
  /\ up /\ At(Scheduler, {"LIST"}, "encode")
  /\ Goes(Scheduler, IF memory = request[Scheduler].got THEN "ok" ELSE "silent")
  /\ UNCHANGED <<exists, node, scheduler, history>>

-----------------------------------------------------------------------------
(* The scheduler.                                                          *)

\* getMasterMetadata.  On a connection that is gone it raises, and the program
\* ends.
AskList ==
  /\ phase = "list" /\ request[Scheduler] = Idle
  /\ IF connected
     THEN Asks(Scheduler, Command("LIST", ManifestFile, "asked", {})) /\ UNCHANGED phase
     ELSE phase' = "ended" /\ UNCHANGED request
  /\ UNCHANGED <<exists, node, known, todo, connected, history>>

GetList ==
  /\ phase = "list" /\ Ended(Scheduler)
  /\ LET r == request[Scheduler]
     IN IF r.at = "ok" /\ Cardinality(r.got) <= MaxListed
        THEN known' = r.got /\ phase' = "scan"
        ELSE phase' = "ended" /\ UNCHANGED known
  /\ request' = [request EXCEPT ![Scheduler] = Idle]
  /\ UNCHANGED <<exists, node, todo, connected, history>>

\* The paths checkFilesystem passes on its way from selected path e to file f.
Between(e, f) == {e, f} \cup {d \in Above[f] : e \in Above[d]}

\* What checkFilesystem finds.  A path that is excluded, or that the manifest
\* has, is passed over: a directory with all that is in it.
Changed ==
  {f \in exists : \E e \in Selected \cap ({f} \cup Above[f]) :
                    Between(e, f) \cap (known \cup Excluded) = {}}

Scan ==
  /\ phase = "scan" /\ Changed # {}
  /\ todo' = Changed
  /\ phase' = "store"
  /\ UNCHANGED <<exists, node, request, known, connected, history>>

\* storeFiles: one PUTF after the other, since each holds the client's lock.
\* Errors are collected and not looked at.
Put(f) ==
  /\ phase = "store" /\ f \in todo /\ request[Scheduler] = Idle
  /\ IF connected
     THEN Asks(Scheduler, Command("PUTF", f, "store", {})) /\ UNCHANGED todo
     ELSE todo' = todo \ {f} /\ UNCHANGED request
  /\ UNCHANGED <<exists, node, phase, known, connected, history>>

\* Mutant of PutEnds: what was sent counts as stored.
PutEndsKnown ==
  /\ phase = "store" /\ Ended(Scheduler)
  /\ todo' = todo \ {request[Scheduler].path}
  /\ known' = known \cup {request[Scheduler].path}
  /\ phase' = IF todo' = {} THEN "scan" ELSE "store"
  /\ request' = [request EXCEPT ![Scheduler] = Idle]
  /\ UNCHANGED <<exists, node, connected, history>>

PutEnds ==
  /\ phase = "store" /\ Ended(Scheduler)
  /\ todo' = todo \ {request[Scheduler].path}
  /\ request' = [request EXCEPT ![Scheduler] = Idle]
  /\ UNCHANGED <<exists, node, phase, known, connected, history>>

AllSent ==
  /\ phase = "store" /\ todo = {}
  /\ phase' = "list"
  /\ UNCHANGED <<exists, node, request, known, todo, connected, history>>

-----------------------------------------------------------------------------
(* Crashes.                                                                *)

\* Connections are closed, which ends what clients wait for.  A manifest that
\* is being written is empty, or cut off: that may be undecodable, or lack entries.
\* None and all of the entries stand for any part of them.
Crash ==
  /\ up /\ crashes < MaxCrashes
  /\ crashes' = crashes + 1
  /\ up' = FALSE
  /\ connected' = FALSE
  /\ request' = [c \in Clients |-> IF request[c] = Idle THEN Idle
                                   ELSE IF Ended(c) THEN request[c]
                                   ELSE Over(request[c])]
  /\ saving' = NotSaving
  /\ IF saving.step = "write"
     THEN disk' \in {{}, memory, Torn} /\ hurt' = TRUE
     ELSE UNCHANGED <<disk, hurt>>
  /\ UNCHANGED <<exists, memory, net, phase, known, todo, failures, acked>>

\* loadManifest.  With a torn manifest the node does not start.
Restart ==
  /\ ~up /\ disk # Torn
  /\ memory' = disk
  /\ up' = TRUE
  /\ UNCHANGED <<exists, disk, saving, net, request, scheduler, history>>

StartScheduler ==
  /\ up /\ phase = "ended"
  /\ phase' = "list" /\ known' = {} /\ todo' = {} /\ connected' = TRUE
  /\ UNCHANGED <<exists, node, request, history>>

-----------------------------------------------------------------------------
Runtime(c) ==
  \/ StartPutm(c) \/ ReadManifest(c) \/ UpdateMaster(c) \/ Published(c)
  \/ \E r \in Replicas : Publish(c, r)

Saving == OpenDisk \/ WriteDisk \/ \E d \in Dirs : AddDir(d)

List == ListStarts \/ Listed

Schedule ==
  \/ AskList \/ GetList \/ Scan \/ PutEnds \/ AllSent
  \/ \E f \in Files : Put(f)

Next ==
  \/ \E f \in Files : Create(f)
  \/ \E u \in Users : UserPutm(u) \/ \E f \in UserFiles : UserPutf(u, f)
  \/ \E c \in Clients : Runtime(c) \/ StoreFails(c)
  \/ Saving \/ DirGone \/ CacheFails \/ List \/ Schedule
  \/ Crash \/ Restart \/ StartScheduler

Spec == Init /\ [][Next]_vars

\* Both threads and the scheduler go on.  Users, crashes and restarts do as they
\* like, and stores may fail.
FairSpec ==
  /\ Spec
  /\ \A c \in Clients : WF_vars(Runtime(c))
  /\ WF_vars(Saving) /\ WF_vars(List) /\ WF_vars(Schedule)

-----------------------------------------------------------------------------
(* Properties.                                                             *)

TypeOK ==
  /\ exists \subseteq Files
  /\ memory \subseteq Paths /\ disk \in (SUBSET Paths) \cup {Torn}
  /\ saving \in [client : Clients \cup {Idle}, dirs : SUBSET Dirs, step : {"rest", "dirs", "write"}]
  /\ request \in [Clients -> Requests \cup {Idle}]
  /\ net \in [Replicas -> (SUBSET Paths) \cup {NoValue}]
  /\ up \in BOOLEAN /\ connected \in BOOLEAN /\ hurt \in BOOLEAN
  /\ phase \in {"list", "scan", "store", "ended"}
  /\ known \subseteq Paths /\ todo \subseteq Files
  /\ failures \in 0..MaxFailures /\ crashes \in 0..MaxCrashes
  /\ acked \subseteq Files

\* A file whose store was acknowledged (with a key, not with False) is in the
\* manifest, also after crashes, unless one came while the manifest was being
\* written over the old one.
AckedAreListed == ~hurt => acked \subseteq IF up THEN memory ELSE disk

\* What is published under the node's id is never replaced by an older manifest,
\* whoever publishes it, as long as no crash took entries from the one on disk.
NeverOlder ==
  [][~hurt' => \A r \in Replicas : net[r] # NoValue => net[r] \subseteq net'[r]]_vars

\* A file that is selected itself gets into the manifest, whatever stores of it
\* fail at first, if the scheduler lives: LIST could be encoded and read, and if
\* the node crashed, LIST had not shown the file before.  (It may have, though the
\* entry was not on disk yet or is lost now, and then the file is never sent.)
\* For what is in a selected directory this is not so: when the first file from
\* it is stored, the directory is in the manifest.
SelectedGetsStored ==
  \A f \in Files \cap (Selected \ Excluded) :
    f \in exists ~> \/ f \in memory
                    \/ phase = "ended"
                    \/ f \in known /\ crashes > 0
                    \/ request[Scheduler] # Idle /\ request[Scheduler].at = "silent"
=============================================================================
