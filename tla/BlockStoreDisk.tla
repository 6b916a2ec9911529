--------------------------- MODULE BlockStoreDisk ---------------------------
(***************************************************************************)
(* The files behind BlockStore, and what a crash leaves of them.           *)
(*                                                                         *)
(* A peer's tarball rests as .tar.gz.  To change it the handlers           *)
(* decompress it into .tar, change that, and compress it again, or write   *)
(* the members that stay into a temporary file: TarfileUtils.py.  A large  *)
(* block is received into a file that BlockFile.convert then replaces, and *)
(* its accounting is written over the old one in place: BlockFile.py.      *)
(*                                                                         *)
(* The handlers of src/flud/protocol/AiohttpServer.py do not await, so     *)
(* one request at a time is carried out, file operation by file operation. *)
(* A crash comes between any two of them and is followed by a restart;     *)
(* nothing is repaired at a start.  A file that was opened for writing and *)
(* not closed is torn: it may hold anything.  Answers are not lost here    *)
(* (that is BlockStore's part), but who gets none does not know.           *)
(***************************************************************************)
EXTENDS Integers, FiniteSets

CONSTANTS
  Nodes, Small, Large, MetaKeys, Data,  \* as in BlockStore
  NoRequest,  \* no request is being carried out
  Absent,     \* no such file
  Torn,       \* a file that was being written
  Raw,        \* a large block that is not yet a BlockFile
  MaxCrashes  \* bound on the crashes of a behaviour

VARIABLES
  gz,        \* gz[n]: member names in n's .tar.gz
  tar,       \* tar[n]: member names in n's .tar
  file,      \* file[b]: the accounting of large block b, pairs <<node, key>>
  job,       \* the request being carried out, and the files when it came
  step,      \* its next file operation
  left,      \* members, or accounting, that are being written
  owed,      \* history, as in BlockStore
  doubt,     \* history, as in BlockStore
  oneDevice, \* temporary files are on the device of the store, so that they can be renamed
  crashes,   \* number of crashes so far
  hurt       \* history: peers and large blocks that lost data in one of the ways named below

vars == <<gz, tar, file, job, step, left, owed, doubt, oneDevice, crashes, hurt>>

Names == Small \X (MetaKeys \cup {Data})
Whole(f) == f \notin {Absent, Torn}
Intact(f) == f \notin {Absent, Torn, Raw}

\* What RETRIEVE reads: .tar.gz if that can be read, or else .tar.
TarOf(n) == IF Whole(gz[n]) THEN gz[n] ELSE IF Whole(tar[n]) THEN tar[n] ELSE {}

Resting == step = "rest"
SeenTar == IF Resting THEN [n \in Nodes |-> TarOf(n)] ELSE job.tar
SeenFile == IF Resting THEN file ELSE job.file

Store == INSTANCE BlockStore WITH
  tar <- SeenTar,
  onDisk <- {b \in Large : SeenFile[b] # Absent},
  acct <- [b \in Large |-> IF Intact(SeenFile[b]) THEN SeenFile[b] ELSE {}],
  request <- [n \in Nodes |-> IF ~Resting /\ n = job.node THEN job.q ELSE NoRequest],
  timeouts <- [n \in Nodes |-> 0],
  Lossy <- {}, MaxTimeouts <- 1

ASSUME BlockStoreDiskAssumption ==
  /\ IsFiniteSet(Small) /\ IsFiniteSet(MetaKeys)
  /\ Small \cap Large = {} /\ Data \notin MetaKeys
  /\ NoRequest \notin Store!Requests
  /\ \A f \in (SUBSET Names) \cup (SUBSET (Nodes \X MetaKeys)) : f \notin {Absent, Torn, Raw}
  /\ Absent # Torn /\ Raw \notin {Absent, Torn}
  /\ MaxCrashes \in Nat

Init ==
  /\ gz = [n \in Nodes |-> Absent]
  /\ tar = [n \in Nodes |-> Absent]
  /\ file = [b \in Large |-> Absent]
  /\ job = NoRequest
  /\ step = "rest"
  /\ left = {}
  /\ owed = {} /\ doubt = {}
  /\ oneDevice \in BOOLEAN
  /\ crashes = 0
  /\ hurt = {}

-----------------------------------------------------------------------------
(* The beginning and the ends of a request.                                *)

Begin(n, q) ==
  /\ Resting
  /\ q.op = "delete" => Store!Of(n, q.refs) \subseteq owed
  /\ job' = [node |-> n, q |-> q, tar |-> SeenTar, file |-> file]
  /\ step' = "look"
  /\ owed' = IF q.op = "delete" THEN owed \ Store!Of(n, q.refs) ELSE owed
  /\ UNCHANGED <<gz, tar, file, left, doubt, oneDevice, crashes, hurt>>

Op == job.q.op
Peer == job.node
Refs == Store!Of(Peer, job.q.refs)

\* For a request other than an aggregated STORE: its block and key.
Block == (CHOOSE r \in job.q.refs : TRUE)[1]
Key == (CHOOSE r \in job.q.refs : TRUE)[2]

Ended == job' = NoRequest /\ step' = "rest" /\ left' = {}

Done ==
  /\ Ended
  /\ owed' = IF Op = "delete" THEN owed ELSE owed \cup Refs
  /\ doubt' = IF Op = "verify" THEN doubt ELSE doubt \ Refs
  /\ UNCHANGED hurt

NotFound ==
  /\ Ended
  /\ doubt' = IF Op = "verify" THEN doubt ELSE doubt \ Refs
  /\ UNCHANGED <<owed, hurt>>

\* The handler raises, or the node crashes: the peer has no useful answer.
Failed(h) ==
  /\ Ended
  /\ doubt' = doubt \cup (Refs \ owed)
  /\ hurt' = hurt \cup h
  /\ UNCHANGED owed

GoOn(s) == step' = s /\ UNCHANGED <<job, owed, doubt, hurt>>

-----------------------------------------------------------------------------
(* Tarballs.                                                               *)

\* gunzipTarball opens .tar for writing, whatever is in it.  Beside a .tar.gz
\* that is torn, it may be the good one.
OpenTar ==
  /\ step = "gunzip"
  /\ tar' = [tar EXCEPT ![Peer] = Torn]
  /\ step' = "expand"
  /\ hurt' = IF gz[Peer] = Torn THEN hurt \cup {Peer} ELSE hurt
  /\ UNCHANGED <<gz, file, job, left, owed, doubt>>

\* Mutant of Expand: the compressed file is removed before .tar is closed.
ExpandEarly ==
  /\ step = "expand"
  /\ \/ /\ Whole(gz[Peer])
        /\ left' = gz[Peer]
        /\ gz' = [gz EXCEPT ![Peer] = Absent]
        /\ GoOn("close")
        /\ UNCHANGED tar
     \/ /\ gz[Peer] = Torn /\ Op = "tar"
        /\ gz' = [gz EXCEPT ![Peer] = Absent]
        /\ GoOn("append")
        /\ UNCHANGED <<tar, left>>
  /\ UNCHANGED file

\* .tar gets the members.  What cannot be decompressed a STORE removes; in a
\* VERIFY it counts as not found, and a DELETE fails.
Expand ==
  /\ step = "expand"
  /\ \/ /\ Whole(gz[Peer])
        /\ tar' = [tar EXCEPT ![Peer] = gz[Peer]]
        /\ GoOn("removeGz")
        /\ UNCHANGED <<gz, left>>
     \/ /\ gz[Peer] = Torn /\ Op = "tar"
        /\ gz' = [gz EXCEPT ![Peer] = Absent]
        /\ GoOn("append")
        /\ UNCHANGED <<tar, left>>
     \/ gz[Peer] = Torn /\ Op = "verify" /\ NotFound /\ UNCHANGED <<gz, tar>>
     \/ gz[Peer] = Torn /\ Op = "delete" /\ Failed({}) /\ UNCHANGED <<gz, tar>>
  /\ UNCHANGED file

RemoveGz ==
  /\ step = "removeGz"
  /\ gz' = [gz EXCEPT ![Peer] = Absent]
  /\ GoOn(IF Op = "delete" THEN "removeTar" ELSE "append")
  /\ UNCHANGED <<tar, file, left>>

\* STORE adds blocks and metadata, VERIFY metadata only.
Added ==
  IF Op = "tar" THEN job.q.refs \cup {<<r[1], Data>> : r \in job.q.refs} ELSE job.q.refs

Appending == step \in {"append", "appendTar"}

\* Mutant of Append: the tarball is opened with mode "w".
AppendOver ==
  /\ Appending
  /\ left' = Added
  /\ tar' = [tar EXCEPT ![Peer] = Torn]
  /\ GoOn(IF step = "append" THEN "close" ELSE "closeTar")
  /\ UNCHANGED <<gz, file>>

\* A tarball that cannot be opened to append is replaced by a new one.
Append ==
  /\ Appending
  /\ left' = Added \cup IF Whole(tar[Peer]) THEN tar[Peer] ELSE {}
  /\ tar' = [tar EXCEPT ![Peer] = Torn]
  /\ GoOn(IF step = "append" THEN "close" ELSE "closeTar")
  /\ UNCHANGED <<gz, file>>

Close ==
  /\ step \in {"close", "closeTar"}
  /\ tar' = [tar EXCEPT ![Peer] = left]
  /\ IF step = "close" THEN GoOn("gzip") /\ UNCHANGED left ELSE Done
  /\ UNCHANGED <<gz, file>>

\* gzipTarball.
OpenGz ==
  /\ step = "gzip"
  /\ gz' = [gz EXCEPT ![Peer] = Torn]
  /\ GoOn("compress")
  /\ UNCHANGED <<tar, file, left>>

Compress ==
  /\ step = "compress"
  /\ gz' = [gz EXCEPT ![Peer] = tar[Peer]]
  /\ GoOn("gzipped")
  /\ UNCHANGED <<tar, file, left>>

RemoveTar ==
  /\ step = "gzipped"
  /\ tar' = [tar EXCEPT ![Peer] = Absent]
  /\ Done
  /\ UNCHANGED <<gz, file>>

\* TarfileUtils.delete has written what stays to a temporary file, and removes
\* the tarball before it puts that file in its place.
DropTar ==
  /\ step = "removeTar"
  /\ tar' = [tar EXCEPT ![Peer] = Absent]
  /\ GoOn("place")
  /\ UNCHANGED <<gz, file, left>>

PlaceGz ==
  /\ step = "place"
  /\ IF oneDevice THEN gz' = [gz EXCEPT ![Peer] = left] /\ Done
                  ELSE UNCHANGED gz /\ Failed({Peer})
  /\ UNCHANGED <<tar, file>>

\* A .tar is replaced in one step, or stays.
PlaceTar ==
  /\ step = "placeTar"
  /\ IF oneDevice THEN tar' = [tar EXCEPT ![Peer] = left] /\ Done
                  ELSE UNCHANGED tar /\ Failed({})
  /\ UNCHANGED <<gz, file>>

-----------------------------------------------------------------------------
(* What the handlers do when they have looked at the files.                *)

\* An aggregated STORE is merged into the tarball.
StoreTar ==
  /\ step = "look" /\ Op = "tar"
  /\ GoOn(IF gz[Peer] = Absent THEN "append" ELSE "gunzip")
  /\ UNCHANGED <<gz, tar, file, left>>

InTarball == step = "look" /\ Op # "direct" /\ (Block \in Large => file[Block] = Absent)

Has(f, b) == Whole(f) /\ <<b, Data>> \in f

\* VERIFY looks for the block in .tar.gz, then in .tar.  A .tar.gz that is torn
\* may show its members before it fails.
VerifyTar ==
  /\ InTarball /\ Op = "verify"
  /\ LET found == IF Has(gz[Peer], Block) THEN gz[Peer]
                  ELSE IF Has(tar[Peer], Block) THEN tar[Peer] ELSE {}
     IN \/ /\ gz[Peer] = Torn
           /\ GoOn("gunzip")
           /\ UNCHANGED left
        \/ /\ found # {} /\ <<Block, Key>> \notin found
           /\ GoOn(IF Has(gz[Peer], Block) THEN "gunzip" ELSE "appendTar")
           /\ UNCHANGED left
        \/ /\ <<Block, Key>> \in found
           /\ Done
        \/ /\ found = {}
           /\ NotFound
  /\ UNCHANGED <<gz, tar, file>>

Stays(f) == Store!DeleteMember(f, Block, Key)

\* None of the names that TarfileUtils.delete is given is a member.
Unnamed(f) == Cardinality(Store!MembersOf(f, Block)) > 2 /\ <<Block, Key>> \notin f

\* It returns if so, or else begins to write what stays.
Rewrite(f, s) == IF Unnamed(f) THEN Done ELSE left' = Stays(f) /\ GoOn(s)

\* DELETE takes the first tarball that can be opened, for which one that is torn
\* may be good enough; it can fail later.  When no member stays, the file is
\* removed; of a torn one those that are seen count.  A torn .tar stays torn
\* when it is written again.
DeleteTar ==
  /\ InTarball /\ Op = "delete"
  /\ \/ /\ Whole(gz[Peer]) /\ Stays(gz[Peer]) # {}
        /\ Rewrite(gz[Peer], "gunzip")
        /\ UNCHANGED <<gz, tar>>
     \/ /\ Whole(gz[Peer]) /\ Stays(gz[Peer]) = {}
        /\ gz' = [gz EXCEPT ![Peer] = Absent]
        /\ Done
        /\ UNCHANGED tar
     \/ /\ gz[Peer] = Torn
        /\ GoOn("gunzip")
        /\ UNCHANGED <<gz, tar, left>>
     \/ /\ gz[Peer] = Torn
        /\ gz' \in {gz, [gz EXCEPT ![Peer] = Absent]}
        /\ Done
        /\ UNCHANGED tar
     \/ /\ ~Whole(gz[Peer]) /\ tar[Peer] = Torn
        /\ tar' \in {tar, [tar EXCEPT ![Peer] = Absent]}
        /\ Done
        /\ UNCHANGED gz
     \/ /\ ~Whole(gz[Peer]) /\ Torn \in {gz[Peer], tar[Peer]}
        /\ Failed({})
        /\ UNCHANGED <<gz, tar>>
     \/ /\ ~Whole(gz[Peer]) /\ ~Whole(tar[Peer])
        /\ NotFound
        /\ UNCHANGED <<gz, tar>>
     \/ /\ ~Whole(gz[Peer]) /\ Whole(tar[Peer]) /\ Stays(tar[Peer]) # {}
        /\ Rewrite(tar[Peer], "placeTar")
        /\ UNCHANGED <<gz, tar>>
     \/ /\ ~Whole(gz[Peer]) /\ Whole(tar[Peer]) /\ Stays(tar[Peer]) = {}
        /\ tar' = [tar EXCEPT ![Peer] = Absent]
        /\ Done
        /\ UNCHANGED gz
  /\ UNCHANGED file

-----------------------------------------------------------------------------
(* Large blocks.                                                           *)

\* Before a block that is new is received, the peer's tarballs are searched for
\* it; those that turn out to be torn are removed.
Sweep ==
  /\ step = "look" /\ Op = "direct" /\ file[Block] = Absent
  /\ \/ gz[Peer] = Torn /\ gz' = [gz EXCEPT ![Peer] = Absent] /\ UNCHANGED tar
     \/ tar[Peer] = Torn /\ tar' = [tar EXCEPT ![Peer] = Absent] /\ UNCHANGED gz
  /\ GoOn("look")
  /\ UNCHANGED <<file, left>>

\* A block that is new gets its name before it is a BlockFile.
Receive ==
  /\ step = "look" /\ Op = "direct" /\ file[Block] = Absent
  /\ file' = [file EXCEPT ![Block] = Raw]
  /\ GoOn("convert")
  /\ UNCHANGED <<gz, tar, left>>

\* BlockFile.convert puts a temporary file in its place.
Convert ==
  /\ step = "convert"
  /\ IF oneDevice THEN file' = [file EXCEPT ![Block] = {<<Peer, Key>>}] /\ Done
                  ELSE UNCHANGED file /\ Failed({})
  /\ UNCHANGED <<gz, tar>>

\* The accounting that is to be written, when the file has the accounting f.
Accounted(f) ==
  IF Op = "delete"
  THEN IF \E m \in MetaKeys : <<Peer, m>> \in f THEN f \ {<<Peer, Key>>} ELSE f
  ELSE f \cup {<<Peer, Key>>}

\* A BlockFile is opened, which fails if it is none; its accounting is written
\* when it is closed, if it has changed.
OpenBlock ==
  /\ step = "look" /\ Block \in Large /\ file[Block] # Absent
  /\ \/ ~Intact(file[Block]) /\ Failed({})
     \/ Intact(file[Block]) /\ Accounted(file[Block]) = file[Block] /\ Done
     \/ /\ Intact(file[Block]) /\ Accounted(file[Block]) # file[Block]
        /\ left' = Accounted(file[Block])
        /\ GoOn("account")
  /\ UNCHANGED <<gz, tar, file>>

\* BlockFile.close.
WriteAccounting ==
  /\ step = "account"
  /\ file' = [file EXCEPT ![Block] = Torn]
  /\ GoOn("truncate")
  /\ UNCHANGED <<gz, tar, left>>

\* Mutant of CloseBlock: the file goes when the peer has no key left in it.
CloseBlockOwn ==
  /\ step = "truncate"
  /\ file' = [file EXCEPT ![Block] = left]
  /\ IF Op = "delete" /\ \A m \in MetaKeys : <<Peer, m>> \notin left
     THEN GoOn("remove") /\ UNCHANGED left ELSE Done
  /\ UNCHANGED <<gz, tar>>

CloseBlock ==
  /\ step = "truncate"
  /\ file' = [file EXCEPT ![Block] = left]
  /\ IF Op = "delete" /\ left = {} THEN GoOn("remove") /\ UNCHANGED left ELSE Done
  /\ UNCHANGED <<gz, tar>>

RemoveBlock ==
  /\ step = "remove"
  /\ file' = [file EXCEPT ![Block] = Absent]
  /\ Done
  /\ UNCHANGED <<gz, tar>>

-----------------------------------------------------------------------------
\* What a crash tears without a copy: a tarball to which members are added, one
\* that is to be replaced, and the accounting of a large block.
Exposed ==
  IF step \in {"close", "closeTar", "place"} THEN {Peer}
  ELSE IF step = "truncate" THEN {Block} ELSE {}

\* The node goes down and is started again.
Crash ==
  /\ crashes < MaxCrashes
  /\ crashes' = crashes + 1
  /\ Failed(Exposed)
  /\ UNCHANGED <<gz, tar, file, oneDevice>>

Handle ==
  /\ \/ StoreTar \/ VerifyTar \/ DeleteTar \/ Sweep \/ Receive \/ OpenBlock
     \/ OpenTar \/ Expand \/ RemoveGz \/ Append \/ Close
     \/ OpenGz \/ Compress \/ RemoveTar \/ DropTar \/ PlaceGz \/ PlaceTar
     \/ Convert \/ WriteAccounting \/ CloseBlock \/ RemoveBlock
  /\ UNCHANGED <<oneDevice, crashes>>

Next ==
  \/ \E n \in Nodes : \E q \in Store!Requests : Begin(n, q)
  \/ ~Resting /\ (Handle \/ Crash)

Spec == Init /\ [][Next]_vars

-----------------------------------------------------------------------------
(* Properties.                                                             *)

TarSteps ==
  {"gunzip", "expand", "removeGz", "append", "appendTar", "close", "closeTar",
   "gzip", "compress", "gzipped", "removeTar", "place", "placeTar"}
FileSteps == {"convert", "account", "truncate", "remove"}

TarFile == {Absent, Torn} \cup SUBSET Names
BlockFile == {Absent, Torn, Raw} \cup SUBSET (Nodes \X MetaKeys)

\* Type invariant: tarballs have members, BlockFiles accountings, and a handler
\* writes to each what belongs there.
TypeOK ==
  /\ gz \in [Nodes -> TarFile] /\ tar \in [Nodes -> TarFile]
  /\ file \in [Large -> BlockFile]
  /\ step \in {"rest", "look"} \cup TarSteps \cup FileSteps
  /\ Resting \/ job \in [node : Nodes, q : Store!Requests,
                        tar : [Nodes -> SUBSET Names], file : [Large -> BlockFile]]
  /\ left \subseteq IF step \in TarSteps THEN Names
                    ELSE IF step \in FileSteps THEN Nodes \X MetaKeys ELSE {}
  /\ owed \subseteq Nodes \X (Small \cup Large) \X MetaKeys
  /\ doubt \subseteq Nodes \X (Small \cup Large) \X MetaKeys
  /\ oneDevice \in BOOLEAN
  /\ crashes \in 0..MaxCrashes
  /\ hurt \subseteq Nodes \cup Large

\* A crash at any other moment than those of Exposed, or none, costs nobody a
\* block or metadata that was acknowledged, and at those moments only the peer
\* whose tarball, or the owners of the block whose accounting is being written.
\* Two more steps can, and are noted in hurt: decompressing a torn .tar.gz over
\* the good .tar beside it, and a rename that cannot cross devices.
LostOnlyWhereExposed ==
  Resting =>
    \A o \in owed \ Store!Served : (IF o[2] \in Small THEN o[1] ELSE o[2]) \in hurt

\* While nothing crashed and every rename works, the files implement the block
\* store: what can be read between requests is what the handlers there say.
ImplementsStore == [][oneDevice /\ crashes' = 0 => Store!Next]_(Store!vars)

=============================================================================
