--------------------------- MODULE Manifest_proofs ---------------------------
(***************************************************************************)
(* What TLAPS proves about Manifest, for any paths, clients, replicas and  *)
(* any number of failures and crashes.                                     *)
(***************************************************************************)
EXTENDS Manifest, TLAPS

\* What the disk has, or gets with the write that is under way.
Safe == IF saving.step = "write" THEN memory ELSE disk

\* The manifest is written for the store of a client that waits for it, and the
\* file has its entry.
Saver ==
  saving.step # "rest" =>
    /\ up /\ saving.client \in Clients
    /\ At(saving.client, {"PUTF", "PUTM"}, "save")
    /\ request[saving.client].path \in memory

\* The manifest is torn only by a crash, and then the node does not run.
TornByCrash == disk = Torn => ~up /\ hurt

AckedAreSafe == ~hurt => acked \subseteq Safe /\ (up => Safe \subseteq memory)

\* Clients store files, and only users store the manifest.
Asked ==
  /\ \A c \in Clients : request[c] # Idle /\ request[c].cmd = "PUTF" => request[c].path \in Files
  /\ request[Scheduler] # Idle => request[Scheduler].cmd # "PUTM"

InPutm(u) == \E s \in {"fetch", "store", "save", "publish"} : At(u, {"PUTM"}, s)
HasRead(u) == \E s \in {"store", "save", "publish"} : At(u, {"PUTM"}, s)

\* The semaphore: one PUTM at a time.
OnePutm == \A u, v \in Users : InPutm(u) /\ InPutm(v) => u = v

\* What was read to be published is older than the disk and newer than what is
\* published.
InOrder ==
  ~hurt =>
    /\ \A r \in Replicas : net[r] # NoValue => net[r] \subseteq Safe
    /\ \A u \in Users : HasRead(u) => request[u].got \subseteq Safe
    /\ \A u \in Users, r \in Replicas :
         HasRead(u) /\ net[r] # NoValue => net[r] \subseteq request[u].got

IInv == TypeOK /\ Saver /\ TornByCrash /\ AckedAreSafe /\ Asked /\ OnePutm /\ InOrder

-----------------------------------------------------------------------------
(* One client's request is changed at a time.                              *)

Sets(c, r) == request' = [request EXCEPT ![c] = r]

LEMMA Waiting ==
  ASSUME TypeOK, NEW c \in Clients, request[c] # Idle
  PROVE  /\ request[c] \in Requests
         /\ request[c] = [cmd |-> request[c].cmd, path |-> request[c].path, at |-> request[c].at,
                          got |-> request[c].got, left |-> request[c].left]
BY DEF TypeOK, Requests

LEMMA SetsEffect ==
  ASSUME TypeOK, NEW c \in Clients, NEW r \in Requests \cup {Idle}, Sets(c, r)
  PROVE  /\ request' \in [Clients -> Requests \cup {Idle}]
         /\ request'[c] = r
         /\ \A d \in Clients : d # c => request'[d] = request[d]
BY DEF TypeOK, Sets

LEMMA GoesEffect ==
  ASSUME TypeOK, NEW c \in Clients, request[c] # Idle, NEW s \in Steps, Goes(c, s)
  PROVE  /\ request' \in [Clients -> Requests \cup {Idle}]
         /\ request'[c] \in Requests
         /\ request'[c].at = s /\ request'[c].cmd = request[c].cmd
         /\ request'[c].path = request[c].path /\ request'[c].got = request[c].got
         /\ \A d \in Clients : d # c => request'[d] = request[d]
<1>1. request[c] \in Requests
  BY Waiting
<1>2. request' = [request EXCEPT ![c] = [request[c] EXCEPT !.at = s]]
  BY DEF Goes
<1> DEFINE r == [request[c] EXCEPT !.at = s]
<1>3. r \in Requests
  BY <1>1 DEF Requests
<1>4. /\ r.at = s /\ r.cmd = request[c].cmd
      /\ r.path = request[c].path /\ r.got = request[c].got
  BY <1>1 DEF Requests
<1>5. Sets(c, r)
  BY <1>2 DEF Sets
<1> HIDE DEF r
<1> QED
  BY <1>3, <1>4, <1>5, SetsEffect

LEMMA CommandType ==
  ASSUME NEW cmd \in {"PUTF", "PUTM", "LIST"}, NEW path \in Paths, NEW s \in Steps,
         NEW got \in SUBSET Paths
  PROVE  /\ Command(cmd, path, s, got) \in Requests
         /\ Command(cmd, path, s, got).cmd = cmd /\ Command(cmd, path, s, got).path = path
         /\ Command(cmd, path, s, got).at = s /\ Command(cmd, path, s, got).got = got
BY DEF Command, Requests

LEMMA OverEffect ==
  ASSUME TypeOK, NEW c \in Clients, request[c] # Idle,
         request' = [request EXCEPT ![c] = Over(@)]
  PROVE  /\ request' \in [Clients -> Requests \cup {Idle}]
         /\ request'[c] \in Requests
         /\ request'[c].at = "ended" /\ request'[c].cmd = request[c].cmd
         /\ request'[c].path = request[c].path
         /\ \A d \in Clients : d # c => request'[d] = request[d]
<1>1. request[c] \in Requests
  BY Waiting
<1>2. /\ request[c].cmd \in {"PUTF", "PUTM", "LIST"} /\ request[c].path \in Paths
      /\ "ended" \in Steps
  BY <1>1 DEF Requests, Steps
<1> DEFINE r == Over(request[c])
<1>3. /\ r \in Requests /\ r.at = "ended" /\ r.cmd = request[c].cmd
      /\ r.path = request[c].path
  BY <1>2, CommandType DEF Over
<1>4. Sets(c, r)
  BY DEF Sets
<1> HIDE DEF r
<1> QED
  BY <1>3, <1>4, SetsEffect

LEMMA AskEffect ==
  ASSUME TypeOK, NEW c \in Clients, NEW cmd \in {"PUTF", "PUTM", "LIST"}, NEW path \in Paths,
         NEW s \in Steps, Asks(c, Command(cmd, path, s, {}))
  PROVE  /\ request' \in [Clients -> Requests \cup {Idle}]
         /\ request'[c] \in Requests /\ request[c] = Idle
         /\ request'[c].at = s /\ request'[c].cmd = cmd /\ request'[c].path = path
         /\ \A d \in Clients : d # c => request'[d] = request[d]
<1> DEFINE r == Command(cmd, path, s, {})
<1>1. r \in Requests /\ r.at = s /\ r.cmd = cmd /\ r.path = path
  BY CommandType
<1>2. Sets(c, r) /\ request[c] = Idle
  BY DEF Asks, Sets
<1> HIDE DEF r
<1> QED
  BY <1>1, <1>2, SetsEffect

\* A manifest is read for a request.
LEMMA ReadEffect ==
  ASSUME TypeOK, TornByCrash, NEW u \in Clients, ReadManifest(u)
  PROVE  /\ request' \in [Clients -> Requests \cup {Idle}]
         /\ request'[u] \in Requests
         /\ request'[u].at = "store" /\ request'[u].cmd = request[u].cmd
         /\ request'[u].path = request[u].path /\ request'[u].got = disk
         /\ \A d \in Clients : d # u => request'[d] = request[d]
<1>1. request[u] \in Requests
  BY Waiting DEF ReadManifest, At
<1>2. disk \in SUBSET Paths
  BY DEF ReadManifest, RuntimeFree, TornByCrash, TypeOK
<1>3. PICK g \in SUBSET Paths : g = disk
  BY <1>2
<1> DEFINE q == [request[u] EXCEPT !.at = "store", !.got = g]
<1>4. /\ q \in Requests /\ q.at = "store" /\ q.cmd = request[u].cmd
      /\ q.path = request[u].path /\ q.got = g
  BY <1>1 DEF Requests, Steps
<1>5. Sets(u, q)
  BY <1>1, <1>3 DEF Sets, ReadManifest, TypeOK, Requests
<1> HIDE DEF q
<1> QED
  BY <1>3, <1>4, <1>5, SetsEffect

\* A manifest is on disk and is to be published.
LEMMA PublishesEffect ==
  ASSUME TypeOK, NEW u \in Clients, request[u] # Idle,
         request' = [request EXCEPT ![u].at = "publish", ![u].left = Replicas]
  PROVE  /\ request' \in [Clients -> Requests \cup {Idle}]
         /\ request'[u] \in Requests
         /\ request'[u].at = "publish" /\ request'[u].cmd = request[u].cmd
         /\ request'[u].path = request[u].path /\ request'[u].got = request[u].got
         /\ \A d \in Clients : d # u => request'[d] = request[d]
<1>1. request[u] \in Requests
  BY Waiting
<1> DEFINE q == [request[u] EXCEPT !.at = "publish", !.left = Replicas]
<1>2. /\ q \in Requests /\ q.at = "publish" /\ q.cmd = request[u].cmd
      /\ q.path = request[u].path /\ q.got = request[u].got
  BY <1>1 DEF Requests, Steps
<1>3. Sets(u, q)
  BY <1>1 DEF Sets, TypeOK, Requests
<1> HIDE DEF q
<1> QED
  BY <1>2, <1>3, SetsEffect

LEMMA ToldEffect ==
  ASSUME TypeOK, NEW u \in Clients, NEW r \in Replicas, Publish(u, r)
  PROVE  /\ request' \in [Clients -> Requests \cup {Idle}]
         /\ request'[u] \in Requests
         /\ request'[u].at = request[u].at /\ request'[u].cmd = request[u].cmd
         /\ request'[u].path = request[u].path /\ request'[u].got = request[u].got
         /\ \A d \in Clients : d # u => request'[d] = request[d]
<1>1. request[u] \in Requests
  BY Waiting DEF Publish, At
<1> DEFINE q == [request[u] EXCEPT !.left = @ \ {r}]
<1>2. /\ q \in Requests /\ q.at = request[u].at /\ q.cmd = request[u].cmd
      /\ q.path = request[u].path /\ q.got = request[u].got
  BY <1>1 DEF Requests
<1>3. Sets(u, q)
  BY <1>1 DEF Sets, Publish
<1> HIDE DEF q
<1> QED
  BY <1>2, <1>3, SetsEffect

-----------------------------------------------------------------------------
(* What a step does to the request of client c.                            *)

Kept(c) == request'[c] = request[c]

Taken(c) == request'[c] = Idle /\ Ended(c)

Sent(c) ==
  /\ request[c] = Idle /\ request'[c] # Idle
  /\ \/ request'[c].cmd = "PUTF" /\ request'[c].path \in Files
     \/ request'[c].cmd = "PUTM" /\ request'[c].at = "wait" /\ c \in Users
     \/ request'[c].cmd = "LIST"

Moved(c) ==
  /\ request[c] # Idle /\ request'[c] # Idle
  /\ request'[c].cmd = request[c].cmd /\ request'[c].path = request[c].path
  /\ \/ StartPutm(c) /\ request'[c].at = "fetch"
     \/ ReadManifest(c) /\ request'[c].got = disk
     \/ /\ request'[c].at \in {"ok", "ended", "silent", "encode"}
        /\ saving'.step = "rest" \/ request[c].at # "save"
     \/ UpdateMaster(c) /\ request'[c].at = "save" /\ request'[c].got = request[c].got
     \/ WriteDisk /\ At(c, {"PUTF", "PUTM"}, "save") /\ request'[c].got = request[c].got
     \/ /\ \E r \in Replicas : Publish(c, r)
        /\ request'[c].at = "publish" /\ request'[c].got = request[c].got

OneStep(c) == Kept(c) \/ Taken(c) \/ Sent(c) \/ Moved(c)

OneAtATime == request' \in [Clients -> Requests \cup {Idle}] /\ \A c \in Clients : OneStep(c)

LEMMA RuntimeRequests ==
  ASSUME TypeOK, TornByCrash, NEW c \in Clients, Runtime(c) \/ StoreFails(c)
  PROVE  OneAtATime
<1> USE DEF OneStep, OneAtATime
<1> SUFFICES request' \in [Clients -> Requests \cup {Idle}] /\ Moved(c)
                /\ \A d \in Clients : d # c => Kept(d)
  OBVIOUS
<1>1. CASE StartPutm(c)
  <2>1. request[c] # Idle /\ Goes(c, "fetch") /\ "fetch" \in Steps
    BY <1>1 DEF StartPutm, At, Steps
  <2>2. /\ request' \in [Clients -> Requests \cup {Idle}] /\ request'[c] \in Requests
        /\ request'[c].at = "fetch" /\ request'[c].cmd = request[c].cmd
        /\ request'[c].path = request[c].path
        /\ \A d \in Clients : d # c => request'[d] = request[d]
    BY <2>1, GoesEffect
  <2> QED
    BY <1>1, <2>1, <2>2, ManifestAssumption DEF Moved, Kept
<1>2. CASE ReadManifest(c)
  <2>1. request[c] # Idle
    BY <1>2 DEF ReadManifest, At
  <2> QED
    BY <1>2, <2>1, ReadEffect, ManifestAssumption DEF Moved, Kept
<1>3. CASE UpdateMaster(c)
  <2>1. request[c] # Idle /\ Goes(c, "save") /\ "save" \in Steps
    BY <1>3 DEF UpdateMaster, At, Steps
  <2>2. /\ request' \in [Clients -> Requests \cup {Idle}] /\ request'[c] \in Requests
        /\ request'[c].at = "save" /\ request'[c].cmd = request[c].cmd
        /\ request'[c].path = request[c].path /\ request'[c].got = request[c].got
        /\ \A d \in Clients : d # c => request'[d] = request[d]
    BY <2>1, GoesEffect
  <2> QED
    BY <1>3, <2>1, <2>2, ManifestAssumption DEF Moved, Kept
<1>4. ASSUME NEW r \in Replicas, Publish(c, r)
      PROVE  request' \in [Clients -> Requests \cup {Idle}] /\ Moved(c)
                /\ \A d \in Clients : d # c => Kept(d)
  <2>1. /\ request' \in [Clients -> Requests \cup {Idle}] /\ request'[c] \in Requests
        /\ request'[c].at = request[c].at /\ request'[c].cmd = request[c].cmd
        /\ request'[c].path = request[c].path /\ request'[c].got = request[c].got
        /\ \A d \in Clients : d # c => request'[d] = request[d]
    BY <1>4, ToldEffect
  <2>2. request[c] # Idle /\ request[c].at = "publish"
    BY <1>4 DEF Publish, At
  <2> QED
    BY <1>4, <2>1, <2>2, ManifestAssumption DEF Moved, Kept
<1>5. CASE Published(c)
  <2>1. request[c] # Idle /\ request[c].at = "publish"
    BY <1>5 DEF Published, At
  <2>2. request' = [request EXCEPT ![c] = Over(@)]
    BY <1>5 DEF Published
  <2>3. /\ request' \in [Clients -> Requests \cup {Idle}] /\ request'[c] \in Requests
        /\ request'[c].at = "ended" /\ request'[c].cmd = request[c].cmd
        /\ request'[c].path = request[c].path
        /\ \A d \in Clients : d # c => request'[d] = request[d]
    BY <2>1, <2>2, OverEffect
  <2> QED
    BY <2>1, <2>3, ManifestAssumption DEF Moved, Kept
<1>6. CASE StoreFails(c)
  <2>1. request[c] # Idle /\ request[c].at = "store" /\ "silent" \in Steps
    BY <1>6 DEF StoreFails, At, Steps
  <2>2. request' = [request EXCEPT ![c] = Over(@)] \/ Goes(c, "silent")
    BY <1>6 DEF StoreFails
  <2>3. /\ request' \in [Clients -> Requests \cup {Idle}] /\ request'[c] \in Requests
        /\ request'[c].at \in {"silent", "ended"} /\ request'[c].cmd = request[c].cmd
        /\ request'[c].path = request[c].path
        /\ \A d \in Clients : d # c => request'[d] = request[d]
    BY <2>1, <2>2, GoesEffect, OverEffect
  <2> QED
    BY <2>1, <2>3, ManifestAssumption DEF Moved, Kept
<1> QED
  BY <1>1, <1>2, <1>3, <1>4, <1>5, <1>6 DEF Runtime

LEMMA SavingRequests ==
  ASSUME TypeOK, Saver, Saving \/ DirGone \/ CacheFails
  PROVE  OneAtATime
<1>1. PICK c \in Clients \cup {Idle} : c = saving.client
  BY DEF TypeOK
<1>2. /\ c \in Clients /\ request[c] # Idle /\ request[c].at = "save"
      /\ At(c, {"PUTF", "PUTM"}, "save")
  BY <1>1 DEF Saver, At, Saving, OpenDisk, WriteDisk, AddDir, DirGone, CacheFails
<1>3. CASE OpenDisk \/ \E d \in Dirs : AddDir(d)
  BY <1>3 DEF OpenDisk, AddDir, OneAtATime, OneStep, Kept, TypeOK
<1>4. CASE DirGone \/ CacheFails
  <2>1. request' = [request EXCEPT ![c] = Over(@)] \/ Goes(c, "silent")
    BY <1>1, <1>4 DEF DirGone, CacheFails, SaveFails
  <2>2. saving'.step = "rest" /\ "silent" \in Steps
    BY <1>4 DEF DirGone, CacheFails, SaveFails, NotSaving, Steps
  <2>3. /\ request' \in [Clients -> Requests \cup {Idle}] /\ request'[c] \in Requests
        /\ request'[c].at \in {"silent", "ended"} /\ request'[c].cmd = request[c].cmd
        /\ request'[c].path = request[c].path
        /\ \A d \in Clients : d # c => request'[d] = request[d]
    BY <1>2, <2>1, <2>2, GoesEffect, OverEffect
  <2> QED
    BY <1>2, <2>2, <2>3, ManifestAssumption DEF OneAtATime, OneStep, Moved, Kept
<1>5. CASE WriteDisk
  <2>1. \/ Goes(c, "ended")
        \/ request' = [request EXCEPT ![c].at = "publish", ![c].left = Replicas]
    BY <1>1, <1>5 DEF WriteDisk
  <2>2. "ended" \in Steps
    BY DEF Steps
  <2>3. /\ request' \in [Clients -> Requests \cup {Idle}] /\ request'[c] \in Requests
        /\ request'[c].got = request[c].got /\ request'[c].cmd = request[c].cmd
        /\ request'[c].path = request[c].path
        /\ \A d \in Clients : d # c => request'[d] = request[d]
    BY <1>2, <2>1, <2>2, GoesEffect, PublishesEffect
  <2> QED
    BY <1>2, <1>5, <2>3, ManifestAssumption DEF OneAtATime, OneStep, Moved, Kept
<1> QED
  BY <1>3, <1>4, <1>5 DEF Saving

LEMMA ClientRequests ==
  ASSUME TypeOK, Saver,
         \/ List \/ Schedule
         \/ \E u \in Users : UserPutm(u) \/ \E f \in UserFiles : UserPutf(u, f)
  PROVE  OneAtATime
<1> USE DEF OneStep, OneAtATime
<1>1. /\ Scheduler \in Clients /\ Users \subseteq Clients /\ UserFiles \subseteq Files
      /\ Files \subseteq Paths /\ ManifestFile \in Paths
      /\ {"asked", "wait", "store", "encode", "ok", "silent"} \subseteq Steps
  BY ManifestAssumption DEF Clients, Paths, Steps
<1>2. CASE List
  <2>1. request[Scheduler] # Idle /\ request[Scheduler].at # "save"
    BY <1>2 DEF List, ListStarts, Listed, At
  <2>2. CASE Listed
    <3>1. PICK s \in {"ok", "silent"} : Goes(Scheduler, s)
      BY <2>2 DEF Listed
    <3>2. /\ request' \in [Clients -> Requests \cup {Idle}] /\ request'[Scheduler] \in Requests
          /\ request'[Scheduler].at = s /\ request'[Scheduler].cmd = request[Scheduler].cmd
          /\ request'[Scheduler].path = request[Scheduler].path
          /\ \A d \in Clients : d # Scheduler => request'[d] = request[d]
      BY <1>1, <2>1, <3>1, GoesEffect
    <3> QED
      BY <1>1, <2>1, <3>2, ManifestAssumption DEF Moved, Kept
  <2>3. CASE ListStarts
    <3>1. request[Scheduler] \in Requests
      BY <1>1, <2>1, Waiting
    <3>2. PICK g \in SUBSET Paths : g = memory
      BY DEF TypeOK
    <3> DEFINE q == [request[Scheduler] EXCEPT !.at = "encode", !.got = g]
    <3>3. /\ q \in Requests /\ q.at = "encode" /\ q.cmd = request[Scheduler].cmd
          /\ q.path = request[Scheduler].path
      BY <1>1, <3>1 DEF Requests
    <3>4. Sets(Scheduler, q)
      BY <2>3, <3>1, <3>2 DEF Sets, ListStarts, TypeOK, Requests
    <3> HIDE DEF q
    <3> QED
      BY <1>1, <2>1, <3>3, <3>4, SetsEffect, ManifestAssumption DEF Moved, Kept
  <2> QED
    BY <1>2, <2>2, <2>3 DEF List
<1>3. ASSUME NEW u \in Users, UserPutm(u) PROVE OneAtATime
  <2>1. Asks(u, Command("PUTM", ManifestFile, "wait", {}))
    BY <1>3 DEF UserPutm
  <2> QED
    BY <1>1, <2>1, AskEffect, ManifestAssumption DEF Sent, Kept
<1>4. ASSUME NEW u \in Users, NEW f \in UserFiles, UserPutf(u, f) PROVE OneAtATime
  <2>1. Asks(u, Command("PUTF", f, "store", {})) /\ f \in Files /\ f \in Paths
    BY <1>1, <1>4 DEF UserPutf
  <2> QED
    BY <1>1, <2>1, AskEffect, ManifestAssumption DEF Sent, Kept
<1>5. CASE Schedule
  <2>1. CASE UNCHANGED request
    BY <2>1 DEF TypeOK, Kept
  <2>2. CASE Asks(Scheduler, Command("LIST", ManifestFile, "asked", {}))
    BY <1>1, <2>2, AskEffect, ManifestAssumption DEF Sent, Kept
  <2>3. ASSUME NEW f \in Files, Asks(Scheduler, Command("PUTF", f, "store", {})) PROVE OneAtATime
    BY <1>1, <2>3, AskEffect, ManifestAssumption DEF Sent, Kept
  <2>4. CASE Ended(Scheduler) /\ request' = [request EXCEPT ![Scheduler] = Idle]
    BY <1>1, <2>4, SetsEffect DEF Sets, Taken, Kept
  <2> QED
    BY <1>5, <2>1, <2>2, <2>3, <2>4 DEF Schedule, AskList, GetList, Scan, PutEnds, AllSent, Put
<1> QED
  BY <1>2, <1>3, <1>4, <1>5

LEMMA RequestStep ==
  ASSUME TypeOK, Saver, TornByCrash, Next
  PROVE  OneAtATime
<1>1. CASE Crash
  <2>1. ASSUME NEW c \in Clients, request[c] # Idle, ~Ended(c)
        PROVE  request'[c] \in Requests /\ Moved(c)
    <3>1. request[c] \in Requests
      BY <2>1, Waiting
    <3>2. /\ request[c].cmd \in {"PUTF", "PUTM", "LIST"} /\ request[c].path \in Paths
          /\ "ended" \in Steps
      BY <3>1 DEF Requests, Steps
    <3>3. /\ Over(request[c]) \in Requests /\ Over(request[c]).at = "ended"
          /\ Over(request[c]).cmd = request[c].cmd /\ Over(request[c]).path = request[c].path
      BY <3>2, CommandType DEF Over
    <3>4. request'[c] = Over(request[c]) /\ saving'.step = "rest"
      BY <1>1, <2>1 DEF Crash, NotSaving
    <3> QED
      BY <2>1, <3>3, <3>4, ManifestAssumption DEF Moved
  <2>2. ASSUME NEW c \in Clients, request[c] = Idle \/ Ended(c)
        PROVE  request'[c] \in Requests \cup {Idle} /\ Kept(c)
    BY <1>1, <2>2 DEF Crash, Kept, TypeOK
  <2>3. request' = [c \in Clients |-> request'[c]]
    BY <1>1 DEF Crash
  <2>4. \A c \in Clients : request'[c] \in Requests \cup {Idle} /\ OneStep(c)
    BY <2>1, <2>2 DEF OneStep
  <2> QED
    BY <2>3, <2>4 DEF OneAtATime
<1>2. CASE UNCHANGED request
  BY <1>2 DEF OneAtATime, OneStep, Kept, TypeOK
<1> QED
  BY <1>1, <1>2, RuntimeRequests, SavingRequests, ClientRequests
  DEF Next, Create, Restart, StartScheduler

-----------------------------------------------------------------------------
(* Types, and who writes the manifest.                                     *)

LEMMA InitHolds == Init => IInv
<1> SUFFICES ASSUME Init PROVE IInv
  OBVIOUS
<1>1. MaxFailures \in Nat /\ MaxCrashes \in Nat /\ \A s \in SUBSET Paths : s # Torn
  BY ManifestAssumption
<1>2. disk # Torn
  BY <1>1 DEF Init
<1>3. TypeOK
  <2>1. request \in [Clients -> Requests \cup {Idle}] /\ net \in [Replicas -> (SUBSET Paths) \cup {NoValue}]
    BY DEF Init
  <2>2. disk \in (SUBSET Paths) \cup {Torn} /\ saving \in [client : Clients \cup {Idle}, dirs : SUBSET Dirs, step : {"rest", "dirs", "write"}]
    BY DEF Init, NotSaving
  <2>3. failures \in 0..MaxFailures /\ crashes \in 0..MaxCrashes
    BY <1>1 DEF Init
  <2> QED
    BY <2>1, <2>2, <2>3 DEF Init, TypeOK
<1>4. \A c \in Clients : request[c] = Idle
  BY DEF Init
<1>5. Scheduler \in Clients /\ Users \subseteq Clients
  BY DEF Clients
<1>6. Asked /\ OnePutm /\ InOrder
  BY <1>4, <1>5 DEF Init, Asked, OnePutm, InOrder, InPutm, HasRead, At
<1>7. Saver /\ TornByCrash /\ AckedAreSafe
  BY <1>2 DEF Init, Saver, TornByCrash, AckedAreSafe, Safe, NotSaving
<1> QED
  BY <1>3, <1>6, <1>7 DEF IInv

LEMMA TypeStep ==
  ASSUME TypeOK, Saver, TornByCrash, Asked, Next
  PROVE  TypeOK'
<1>1. request' \in [Clients -> Requests \cup {Idle}]
  BY RequestStep DEF OneAtATime
<1>2. /\ Scheduler \in Clients /\ Users \subseteq Clients /\ UserFiles \subseteq Files
      /\ Files \subseteq Paths /\ Dirs \subseteq Paths
      /\ Above \in [Paths -> SUBSET Dirs] /\ MaxFailures \in Nat /\ MaxCrashes \in Nat
  BY ManifestAssumption DEF Clients, Paths
<1> USE DEF node, scheduler, history
<1>3. ASSUME NEW f \in Files, Create(f) PROVE TypeOK'
  BY <1>1, <1>3 DEF Create, TypeOK
<1>4. ASSUME NEW u \in Users, UserPutm(u) PROVE TypeOK'
  BY <1>1, <1>4 DEF UserPutm, TypeOK
<1>5. ASSUME NEW u \in Users, NEW f \in UserFiles, UserPutf(u, f) PROVE TypeOK'
  BY <1>1, <1>5 DEF UserPutf, TypeOK
<1>6. ASSUME NEW c \in Clients, Runtime(c) \/ StoreFails(c) PROVE TypeOK'
  <2>1. CASE StartPutm(c) \/ ReadManifest(c)
    BY <1>1, <2>1 DEF StartPutm, ReadManifest, TypeOK
  <2>2. CASE StoreFails(c) \/ Published(c)
    BY <1>1, <1>2, <2>2 DEF StoreFails, Published, TypeOK
  <2>3. CASE UpdateMaster(c)
    <3>1. request[c] \in Requests
      BY <2>3, Waiting DEF UpdateMaster, At
    <3>2. request[c].path \in Paths
      BY <3>1 DEF Requests
    <3>3. Above[request[c].path] \in SUBSET Dirs
      BY <1>2, <3>2
    <3>4. saving' \in [client : Clients \cup {Idle}, dirs : SUBSET Dirs, step : {"rest", "dirs", "write"}]
      BY <2>3, <3>3 DEF UpdateMaster
    <3>5. memory' \subseteq Paths
      BY <2>3, <3>2 DEF UpdateMaster, TypeOK
    <3> QED
      BY <1>1, <2>3, <3>4, <3>5 DEF UpdateMaster, TypeOK
  <2>4. ASSUME NEW r \in Replicas, Publish(c, r) PROVE TypeOK'
    <3>1. request[c] \in Requests
      BY <2>4, Waiting DEF Publish, At
    <3>2. request[c].got \in SUBSET Paths
      BY <3>1 DEF Requests
    <3>3. net' \in [Replicas -> (SUBSET Paths) \cup {NoValue}]
      BY <2>4, <3>2 DEF Publish, TypeOK
    <3> QED
      BY <1>1, <2>4, <3>3 DEF Publish, TypeOK
  <2> QED
    BY <1>6, <2>1, <2>2, <2>3, <2>4 DEF Runtime
<1>7. CASE Saving \/ DirGone \/ CacheFails
  <2>1. ASSUME NEW d \in Dirs, AddDir(d) PROVE TypeOK'
    BY <1>1, <1>2, <2>1 DEF AddDir, TypeOK
  <2>2. CASE OpenDisk
    BY <1>1, <2>2 DEF OpenDisk, TypeOK
  <2>3. CASE WriteDisk
    <3>1. /\ saving.client \in Clients /\ request[saving.client] # Idle
          /\ request[saving.client].cmd \in {"PUTF", "PUTM"}
      BY <2>3 DEF WriteDisk, Saver, At
    <3>2. acked' \subseteq Files
      BY <2>3, <3>1 DEF WriteDisk, Asked, TypeOK
    <3> QED
      BY <1>1, <2>3, <3>2 DEF WriteDisk, TypeOK, NotSaving
  <2>4. CASE DirGone \/ CacheFails
    BY <1>1, <1>2, <2>4 DEF DirGone, CacheFails, SaveFails, TypeOK, NotSaving
  <2> QED
    BY <1>7, <2>1, <2>2, <2>3, <2>4 DEF Saving
<1>8. CASE List
  BY <1>1, <1>8 DEF List, ListStarts, Listed, TypeOK
<1>9. CASE Schedule
  <2>1. CASE AskList \/ AllSent \/ \E f \in Files : Put(f)
    BY <1>1, <2>1 DEF AskList, AllSent, Put, TypeOK
  <2>2. CASE GetList
    <3>1. request[Scheduler] \in Requests
      BY <1>2, <2>2, Waiting DEF GetList, Ended
    <3>2. request[Scheduler].got \subseteq Paths
      BY <3>1 DEF Requests
    <3>3. known' \subseteq Paths /\ phase' \in {"list", "scan", "store", "ended"}
      BY <2>2, <3>2 DEF GetList, TypeOK
    <3> QED
      BY <1>1, <2>2, <3>3 DEF GetList, TypeOK
  <2>3. CASE Scan
    BY <1>1, <2>3 DEF Scan, Changed, TypeOK
  <2>4. CASE PutEnds
    BY <1>1, <2>4 DEF PutEnds, TypeOK
  <2> QED
    BY <1>9, <2>1, <2>2, <2>3, <2>4 DEF Schedule
<1>10. CASE Crash
  <2>1. disk' \in (SUBSET Paths) \cup {Torn} /\ hurt' \in BOOLEAN
    BY <1>10 DEF Crash, TypeOK
  <2>2. crashes' \in 0..MaxCrashes
    BY <1>2, <1>10 DEF Crash, TypeOK
  <2>3. saving' \in [client : Clients \cup {Idle}, dirs : SUBSET Dirs, step : {"rest", "dirs", "write"}]
    BY <1>10 DEF Crash, NotSaving
  <2> QED
    BY <1>1, <1>10, <2>1, <2>2, <2>3 DEF Crash, TypeOK
<1>11. CASE Restart \/ StartScheduler
  BY <1>1, <1>11 DEF Restart, StartScheduler, TypeOK
<1> QED
  BY <1>3, <1>4, <1>5, <1>6, <1>7, <1>8, <1>9, <1>10, <1>11 DEF Next

\* Every step leaves the write as it is, goes on with it, ends it or begins it.
LEMMA SavingCases ==
  ASSUME TypeOK, Saver, Next
  PROVE  \/ saving'.step = "rest"
         \/ /\ saving.step # "rest" /\ saving'.client = saving.client
            /\ memory \subseteq memory' /\ up'
         \/ \E c \in Clients : UpdateMaster(c)
<1> USE DEF node, scheduler, history
<1>1. CASE UNCHANGED <<saving, memory, up>>
  BY <1>1 DEF Saver
<1>2. CASE DirGone \/ CacheFails \/ WriteDisk \/ Crash
  BY <1>2 DEF DirGone, CacheFails, SaveFails, WriteDisk, Crash, NotSaving
<1>3. ASSUME NEW d \in Dirs, AddDir(d)
      PROVE  saving.step # "rest" /\ saving'.client = saving.client /\ memory \subseteq memory' /\ up'
  BY <1>3 DEF AddDir, TypeOK
<1>4. CASE OpenDisk
  BY <1>4 DEF OpenDisk, TypeOK
<1>5. CASE Restart
  BY <1>5 DEF Restart, Saver
<1>6. ASSUME NEW c \in Clients, Runtime(c) \/ StoreFails(c), ~UpdateMaster(c)
      PROVE  UNCHANGED <<saving, memory, up>>
  BY <1>6 DEF Runtime, StoreFails, StartPutm, ReadManifest, Published, Publish
<1>7. CASE \/ List \/ Schedule \/ StartScheduler \/ \E f \in Files : Create(f)
           \/ \E u \in Users : UserPutm(u) \/ \E f \in UserFiles : UserPutf(u, f)
  BY <1>1, <1>7 DEF List, ListStarts, Listed, Schedule, AskList, GetList, Scan, Put, PutEnds, AllSent,
     StartScheduler, Create, UserPutm, UserPutf
<1> QED
  BY <1>1, <1>2, <1>3, <1>4, <1>5, <1>6, <1>7 DEF Next, Saving

LEMMA SaverStep ==
  ASSUME TypeOK, Saver, TornByCrash, Next
  PROVE  Saver'
<1>1. OneAtATime
  BY RequestStep
<1>2. CASE saving'.step = "rest"
  BY <1>2 DEF Saver
<1>3. ASSUME NEW c \in Clients, UpdateMaster(c) PROVE Saver'
  <2>1. /\ request[c] # Idle /\ Goes(c, "save") /\ "save" \in Steps
        /\ request[c].cmd \in {"PUTF", "PUTM"}
    BY <1>3 DEF UpdateMaster, At, Steps
  <2>2. /\ request'[c] # Idle /\ request'[c].at = "save"
        /\ request'[c].cmd = request[c].cmd /\ request'[c].path = request[c].path
    BY <2>1, GoesEffect, ManifestAssumption
  <2>3. saving'.client = c /\ up' /\ request[c].path \in memory'
    BY <1>3 DEF UpdateMaster, RuntimeFree
  <2> QED
    BY <2>1, <2>2, <2>3 DEF Saver, At
<1>4. CASE /\ saving.step # "rest" /\ saving'.client = saving.client
           /\ memory \subseteq memory' /\ up' /\ saving'.step # "rest"
  <2>1. PICK c \in Clients : c = saving.client
    BY <1>4 DEF Saver
  <2>2. /\ request[c] # Idle /\ request[c].at = "save" /\ request[c].cmd \in {"PUTF", "PUTM"}
        /\ request[c].path \in memory
    BY <1>4, <2>1 DEF Saver, At
  <2>3. saving # NotSaving
    BY <1>4 DEF NotSaving
  <2>4. ~WriteDisk
    <3>1. WriteDisk => saving' = NotSaving
      BY DEF WriteDisk
    <3> QED
      BY <1>4, <3>1 DEF NotSaving
  <2>5. ~Taken(c) /\ ~Sent(c)
    BY <2>2 DEF Taken, Ended, Sent
  <2>6. ~Moved(c)
    <3>1. ~StartPutm(c) /\ ~ReadManifest(c) /\ ~UpdateMaster(c) /\ \A r \in Replicas : ~Publish(c, r)
      BY <2>2, <2>3 DEF StartPutm, ReadManifest, UpdateMaster, Publish, At, RuntimeFree
    <3> QED
      BY <1>4, <2>2, <2>4, <3>1 DEF Moved
  <2>7. Kept(c)
    BY <1>1, <2>5, <2>6 DEF OneAtATime, OneStep
  <2> QED
    BY <1>4, <2>1, <2>2, <2>7 DEF Saver, At, Kept
<1> QED
  BY <1>2, <1>3, <1>4, SavingCases

LEMMA TornStep ==
  ASSUME TypeOK, TornByCrash, Next
  PROVE  TornByCrash'
<1> USE DEF node, scheduler, history
<1>1. Torn \notin SUBSET Paths
  BY ManifestAssumption
<1>2. CASE Crash
  BY <1>2 DEF Crash, TornByCrash
<1>3. CASE Restart
  BY <1>3 DEF Restart, TornByCrash
<1>4. CASE OpenDisk \/ WriteDisk \/ CacheFails
  BY <1>1, <1>4 DEF OpenDisk, WriteDisk, CacheFails, SaveFails, TornByCrash, TypeOK
<1>5. CASE UNCHANGED <<disk, up, hurt>>
  BY <1>5 DEF TornByCrash
<1>6. UNCHANGED <<disk, up, hurt>> \/ Crash \/ Restart \/ OpenDisk \/ WriteDisk \/ CacheFails
  BY DEF Next, Runtime, Saving, StoreFails, StartPutm, ReadManifest, UpdateMaster, Published, Publish,
     AddDir, DirGone, SaveFails, List, ListStarts, Listed, Schedule, AskList, GetList, Scan, Put, PutEnds, AllSent,
     StartScheduler, Create, UserPutm, UserPutf
<1> QED
  BY <1>2, <1>3, <1>4, <1>5, <1>6

\* What is safe stays so, unless a crash takes it.
LEMMA SafeStep ==
  ASSUME TypeOK, Saver, AckedAreSafe, Next, ~hurt'
  PROVE  ~hurt /\ Safe \subseteq Safe' /\ AckedAreSafe'
<1> USE DEF node, scheduler, history
<1>1. CASE UNCHANGED <<memory, disk, saving, up, acked, hurt>>
  BY <1>1 DEF Safe, AckedAreSafe
<1>2. ASSUME NEW c \in Clients, UpdateMaster(c) PROVE ~hurt /\ Safe \subseteq Safe' /\ AckedAreSafe'
  BY <1>2 DEF UpdateMaster, RuntimeFree, NotSaving, Safe, AckedAreSafe
<1>3. ASSUME NEW d \in Dirs, AddDir(d) PROVE ~hurt /\ Safe \subseteq Safe' /\ AckedAreSafe'
  <2>1. saving.step = "dirs" /\ saving'.step = "dirs"
    BY <1>3 DEF AddDir, TypeOK
  <2> QED
    BY <1>3, <2>1 DEF AddDir, Safe, AckedAreSafe
<1>4. CASE DirGone \/ CacheFails
  BY <1>4 DEF DirGone, CacheFails, SaveFails, NotSaving, Safe, AckedAreSafe
<1>5. CASE OpenDisk
  <2>1. saving.step = "dirs" /\ saving'.step = "write"
    BY <1>5 DEF OpenDisk, TypeOK
  <2> QED
    BY <1>5, <2>1 DEF OpenDisk, Safe, AckedAreSafe
<1>6. CASE WriteDisk
  <2>1. request[saving.client].path \in memory
    BY <1>6 DEF WriteDisk, Saver
  <2> QED
    BY <1>6, <2>1 DEF WriteDisk, NotSaving, Safe, AckedAreSafe
<1>7. CASE Crash
  BY <1>7 DEF Crash, NotSaving, Safe, AckedAreSafe
<1>8. CASE Restart
  BY <1>8 DEF Restart, Saver, Safe, AckedAreSafe
<1>9. \/ UNCHANGED <<memory, disk, saving, up, acked, hurt>> \/ DirGone \/ CacheFails \/ OpenDisk \/ WriteDisk
      \/ Crash \/ Restart \/ (\E c \in Clients : UpdateMaster(c)) \/ \E d \in Dirs : AddDir(d)
  BY DEF Next, Runtime, Saving, StoreFails, StartPutm, ReadManifest, Published, Publish,
     List, ListStarts, Listed, Schedule, AskList, GetList, Scan, Put, PutEnds, AllSent,
     StartScheduler, Create, UserPutm, UserPutf
<1> QED
  BY <1>1, <1>2, <1>3, <1>4, <1>5, <1>6, <1>7, <1>8, <1>9

-----------------------------------------------------------------------------
(* Who publishes what.                                                     *)

LEMMA AskedStep ==
  ASSUME TypeOK, Saver, TornByCrash, Asked, Next
  PROVE  Asked'
<1>1. OneAtATime
  BY RequestStep
<1>2. ASSUME NEW c \in Clients, request'[c] # Idle, request'[c].cmd = "PUTF"
      PROVE  request'[c].path \in Files
  BY <1>1, <1>2 DEF OneAtATime, OneStep, Kept, Taken, Sent, Moved, Asked
<1>3. ASSUME request'[Scheduler] # Idle
      PROVE  request'[Scheduler].cmd # "PUTM"
  <2>1. Scheduler \in Clients /\ Scheduler \notin Users
    BY ManifestAssumption DEF Clients
  <2> QED
    BY <1>1, <1>3, <2>1 DEF OneAtATime, OneStep, Kept, Taken, Sent, Moved, Asked
<1> QED
  BY <1>2, <1>3 DEF Asked

\* A user whose PUTM goes on was in it before, or passes the semaphore.
LEMMA PutmStep ==
  ASSUME TypeOK, Saver, TornByCrash, Next, NEW u \in Users, InPutm(u)'
  PROVE  InPutm(u) \/ (StartPutm(u) /\ request'[u].at = "fetch")
<1>1. u \in Clients /\ OneStep(u)
  BY RequestStep DEF OneAtATime, Clients
<1>2. /\ request'[u] # Idle /\ request'[u].cmd = "PUTM"
      /\ request'[u].at \in {"fetch", "store", "save", "publish"}
  BY DEF InPutm, At
<1>3. CASE Kept(u)
  BY <1>2, <1>3 DEF Kept, InPutm, At
<1>4. ~Taken(u) /\ ~Sent(u)
  BY <1>2 DEF Taken, Sent
<1>5. CASE Moved(u)
  <2>1. CASE StartPutm(u) /\ request'[u].at = "fetch"
    BY <2>1
  <2>2. CASE ReadManifest(u)
    BY <2>2 DEF ReadManifest, InPutm
  <2>3. CASE UpdateMaster(u)
    BY <1>2, <1>5, <2>3 DEF UpdateMaster, Moved, InPutm, At
  <2>4. CASE At(u, {"PUTF", "PUTM"}, "save")
    BY <1>2, <1>5, <2>4 DEF Moved, InPutm, At
  <2>5. ASSUME NEW r \in Replicas, Publish(u, r) PROVE InPutm(u)
    BY <2>5 DEF Publish, InPutm
  <2> QED
    BY <1>2, <1>5, <2>1, <2>2, <2>3, <2>4, <2>5 DEF Moved
<1> QED
  BY <1>1, <1>3, <1>4, <1>5 DEF OneStep

LEMMA OnePutmStep ==
  ASSUME TypeOK, Saver, TornByCrash, OnePutm, Next
  PROVE  OnePutm'
<1>1. ASSUME NEW u \in Users, NEW v \in Users, u # v, InPutm(u)', InPutm(v)' PROVE FALSE
  <2>1. ASSUME NEW x \in Users, NEW y \in Users, x # y, StartPutm(x), InPutm(y)' PROVE FALSE
    <3>1. ~InPutm(y)
      BY <2>1 DEF StartPutm, InPutm
    <3>2. request'[y] = request[y]
      <4>1. request[x] # Idle /\ Goes(x, "fetch") /\ "fetch" \in Steps
        BY <2>1 DEF StartPutm, At, Steps
      <4> QED
        BY <2>1, <4>1, GoesEffect DEF Clients
    <3> QED
      BY <2>1, <3>1, <3>2 DEF InPutm, At
  <2> QED
    BY <1>1, <2>1, PutmStep DEF OnePutm
<1> QED
  BY <1>1 DEF OnePutm

\* What a user has read stays, and what it reads is on disk.
LEMMA ReadStep ==
  ASSUME TypeOK, Saver, TornByCrash, Next, NEW u \in Users, HasRead(u)'
  PROVE  \/ HasRead(u) /\ request'[u].got = request[u].got
         \/ ReadManifest(u) /\ request'[u].got = disk
<1>1. u \in Clients /\ OneStep(u)
  BY RequestStep DEF OneAtATime, Clients
<1>2. /\ request'[u] # Idle /\ request'[u].cmd = "PUTM"
      /\ request'[u].at \in {"store", "save", "publish"}
  BY DEF HasRead, At
<1>3. CASE Kept(u)
  BY <1>2, <1>3 DEF Kept, HasRead, At
<1>4. ~Taken(u) /\ ~Sent(u)
  BY <1>2 DEF Taken, Sent
<1>5. CASE Moved(u)
  <2>1. CASE UpdateMaster(u) /\ request'[u].got = request[u].got
    BY <1>2, <1>5, <2>1 DEF UpdateMaster, Moved, HasRead, At
  <2>2. CASE At(u, {"PUTF", "PUTM"}, "save") /\ request'[u].got = request[u].got
    BY <1>2, <1>5, <2>2 DEF Moved, HasRead, At
  <2>3. ASSUME NEW r \in Replicas, Publish(u, r) PROVE HasRead(u)
    BY <2>3 DEF Publish, HasRead
  <2> QED
    BY <1>2, <1>5, <2>1, <2>2, <2>3 DEF Moved
<1> QED
  BY <1>1, <1>3, <1>4, <1>5 DEF OneStep

\* A replica holds on to what it has, or gets what a user has read.
LEMMA NetStep ==
  ASSUME TypeOK, Asked, Next
  PROVE  \/ net' = net
         \/ \E u \in Users, r \in Replicas :
              /\ Publish(u, r) /\ HasRead(u)
              /\ net'[r] = request[u].got /\ \A q \in Replicas : q # r => net'[q] = net[q]
<1>1. ASSUME NEW c \in Clients, NEW r \in Replicas, Publish(c, r)
      PROVE  /\ c \in Users /\ HasRead(c)
             /\ net'[r] = request[c].got /\ \A q \in Replicas : q # r => net'[q] = net[q]
  <2>1. c \in Users /\ HasRead(c)
    BY <1>1 DEF Publish, HasRead, At, Asked, Clients
  <2> QED
    BY <1>1, <2>1 DEF Publish, TypeOK
<1>2. net' = net \/ \E c \in Clients, r \in Replicas : Publish(c, r)
  BY DEF node, scheduler, history, Next, Runtime, Saving, StoreFails, StartPutm, ReadManifest, UpdateMaster,
     Published, AddDir, DirGone, CacheFails, SaveFails, OpenDisk, WriteDisk, List, ListStarts, Listed, Schedule, AskList, GetList,
     Scan, Put, PutEnds, AllSent, Crash, Restart, StartScheduler, Create, UserPutm, UserPutf
<1> QED
  BY <1>1, <1>2

LEMMA InOrderStep ==
  ASSUME IInv, Next
  PROVE  InOrder'
<1> USE DEF IInv
<1> SUFFICES ASSUME ~hurt' PROVE InOrder'
  BY DEF InOrder
<1>1. ~hurt /\ Safe \subseteq Safe'
  BY SafeStep
<1>2. ASSUME NEW u \in Users, HasRead(u)'
      PROVE  /\ request'[u].got \subseteq Safe
             /\ \A r \in Replicas : net[r] # NoValue => net[r] \subseteq request'[u].got
  <2>1. CASE HasRead(u) /\ request'[u].got = request[u].got
    BY <1>1, <2>1 DEF InOrder
  <2>2. CASE ReadManifest(u) /\ request'[u].got = disk
    <3>1. Safe = disk
      BY <2>2 DEF ReadManifest, RuntimeFree, NotSaving, Safe
    <3> QED
      BY <1>1, <2>2, <3>1 DEF InOrder
  <2> QED
    BY <1>2, <2>1, <2>2, ReadStep
<1>3. CASE net' = net
  BY <1>1, <1>2, <1>3 DEF InOrder
<1>4. ASSUME NEW v \in Users, NEW r \in Replicas, Publish(v, r), HasRead(v),
             net'[r] = request[v].got, \A q \in Replicas : q # r => net'[q] = net[q]
      PROVE  InOrder'
  <2>1. net'[r] \subseteq Safe
    BY <1>1, <1>4 DEF InOrder
  <2>2. ASSUME NEW u \in Users, HasRead(u)' PROVE net'[r] \subseteq request'[u].got
    <3>1. ~ReadManifest(u)
      <4>1. SUFFICES ASSUME ReadManifest(u) PROVE FALSE
        OBVIOUS
      <4>2. InPutm(u) /\ request[u].at = "fetch"
        BY <4>1 DEF ReadManifest, InPutm, At
      <4>3. InPutm(v) /\ request[v].at = "publish"
        BY <1>4 DEF Publish, InPutm, At
      <4> QED
        BY <4>2, <4>3 DEF OnePutm
    <3>2. HasRead(u) /\ request'[u].got = request[u].got
      BY <2>2, <3>1, ReadStep
    <3>3. u = v
      BY <1>4, <3>2 DEF OnePutm, InPutm, HasRead
    <3> QED
      BY <1>4, <3>2, <3>3
  <2> QED
    BY <1>1, <1>2, <1>4, <2>1, <2>2 DEF InOrder
<1> QED
  BY <1>3, <1>4, NetStep

-----------------------------------------------------------------------------
(* The theorems.                                                           *)

LEMMA Step == ASSUME IInv, Next PROVE IInv'
<1>1. AckedAreSafe'
  BY SafeStep DEF IInv, AckedAreSafe
<1> QED
  BY <1>1, TypeStep, SaverStep, TornStep, AskedStep, OnePutmStep, InOrderStep DEF IInv

LEMMA Stutter == ASSUME IInv, UNCHANGED vars PROVE IInv'
BY DEF vars, node, scheduler, history, IInv, TypeOK, Saver, TornByCrash, AckedAreSafe, Safe, Asked,
   OnePutm, InPutm, HasRead, InOrder, At

\* The inductive invariant: who writes the manifest, that one PUTM is under way
\* at most, and what is older than what.
THEOREM Invariance == Spec => []IInv
<1>1. IInv /\ [Next]_vars => IInv'
  BY Step, Stutter
<1> QED
  BY InitHolds, <1>1, PTL DEF Spec

\* Requests, the manifests and the scheduler's state have their types.
THEOREM TypeCorrect == Spec => []TypeOK
<1>1. IInv => TypeOK
  BY DEF IInv
<1> QED
  BY Invariance, <1>1, PTL

\* A file whose store was acknowledged (_updateMaster, then the answer to PUTF)
\* is in the manifest, also after a restart, unless a crash hit the write.
THEOREM AcknowledgedStaysListed == Spec => []AckedAreListed
<1>1. IInv => AckedAreListed
  <2> SUFFICES ASSUME IInv, ~hurt PROVE acked \subseteq IF up THEN memory ELSE disk
    BY DEF AckedAreListed
  <2>1. CASE up
    BY <2>1 DEF IInv, AckedAreSafe
  <2>2. CASE ~up
    BY <2>2 DEF IInv, AckedAreSafe, Saver, Safe
  <2> QED
    BY <2>1, <2>2
<1> QED
  BY Invariance, <1>1, PTL

\* The manifests published under the node's id only grow, as PUTMs are done one
\* at a time (the semaphore of PUTM, UpdateManifest).
THEOREM PublishedOnlyGrows == Spec => NeverOlder
<1>1. ASSUME IInv, [Next]_vars, ~hurt', NEW r \in Replicas, net[r] # NoValue
      PROVE  net[r] \subseteq net'[r]
  <2>1. CASE net' = net
    BY <2>1
  <2>2. ASSUME Next PROVE net[r] \subseteq net'[r]
    <3>1. ~hurt
      BY <1>1, <2>2, SafeStep DEF IInv
    <3>2. CASE net' = net
      BY <3>2
    <3>3. ASSUME NEW u \in Users, NEW q \in Replicas, HasRead(u), net'[q] = request[u].got,
                 \A p \in Replicas : p # q => net'[p] = net[p]
          PROVE  net[r] \subseteq net'[r]
      BY <1>1, <3>1, <3>3 DEF IInv, InOrder
    <3> QED
      BY <1>1, <2>2, <3>2, <3>3, NetStep DEF IInv
  <2> QED
    BY <1>1, <2>1, <2>2 DEF vars, node
<1>2. IInv /\ [Next]_vars =>
        (~hurt' => \A r \in Replicas : net[r] # NoValue => net[r] \subseteq net'[r])
  BY <1>1
<1> QED
  BY Invariance, <1>2, PTL DEF Spec, NeverOlder

=============================================================================
