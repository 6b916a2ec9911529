----------------------- MODULE BlockStoreDisk_proofs -----------------------
(***************************************************************************)
(* Proofs about the files behind the block store.  Whatever the moment of  *)
(* a crash, and however many there are, what was acknowledged can still be *)
(* read unless the crash hit one of the steps that change a file in place; *)
(* and without crashes the file operations of a request amount to the one  *)
(* step that BlockStore makes of it.                                       *)
(*                                                                         *)
(* While a request is carried out the argument compares the files with     *)
(* those that were there when it came, which job remembers.                *)
(***************************************************************************)
EXTENDS BlockStoreDisk, FiniteSetTheorems, TLAPS

\* The peer's tarball as it was when the request came, and with what a STORE or
\* a VERIFY adds.
Old == job.tar[Peer]
New == Old \cup Added

\* The tarball f serves reference o.
InTar(f, o) == <<o[2], Data>> \in f /\ <<o[2], o[3]>> \in f

\* What is owed could be read when the request came, or is known to be lost.
SeenServes ==
  \A o \in owed :
    IF o[2] \in Small THEN o[1] \in hurt \/ InTar(SeenTar[o[1]], o)
    ELSE \/ Intact(SeenFile[o[2]]) /\ <<o[1], o[3]>> \in SeenFile[o[2]]
         \/ SeenFile[o[2]] = Torn /\ o[2] \in hurt

\* Where both files of a tarball can be read they agree.
Twins ==
  \A n \in Nodes \ hurt : Whole(gz[n]) /\ Whole(tar[n]) => gz[n] = tar[n]

\* A request changes nothing but the tarball or the block that it is about.
Snapshot ==
  ~Resting =>
    /\ \A n \in Nodes : TarOf(n) = job.tar[n] \/ (n = Peer /\ step \in TarSteps)
    /\ \A b \in Large : \/ file[b] = job.file[b]
                        \/ b = Block /\ step \in {"convert", "truncate", "remove"}

\* A peer deletes what it was owed, and so finds it, or it is known to be lost.
Deleting ==
  ~Resting /\ Op = "delete" =>
    /\ Refs \cap owed = {}
    /\ \A o \in Refs :
         IF o[2] \in Small THEN Peer \in hurt \/ InTar(Old, o)
         ELSE job.file[o[2]] # Absent

\* Which requests come to which steps.
StepOps ==
  /\ step \in {"convert"} => Op = "direct"
  /\ step \in FileSteps => Op # "tar" /\ Block \in Large
  /\ step \in {"remove", "removeTar", "place", "placeTar"} => Op = "delete"
  /\ step \in {"append", "close", "gzip", "compress", "gzipped"} => Op \in {"tar", "verify"}
  /\ step \in {"appendTar", "closeTar"} => Op = "verify"
  /\ step \in {"gunzip", "expand", "removeGz"} => Op # "direct"
  /\ step \in TarSteps /\ Op = "verify" =>
       Block \in Small \/ (step \in {"gunzip", "expand"} /\ gz[Peer] = Torn)
  /\ step \in TarSteps /\ Op = "delete" => Block \in Small

\* Which of the two files of the tarball is there, step by step.
TarShape ==
  /\ step = "gunzip" => gz[Peer] # Absent
  /\ step = "expand" => /\ gz[Peer] # Absent /\ tar[Peer] = Torn
                        /\ gz[Peer] = Torn => Peer \in hurt
  /\ step \in {"removeGz", "gzipped"} => Whole(gz[Peer]) /\ gz[Peer] = tar[Peer]
  /\ step \in {"append", "close", "gzip", "removeTar", "place"} => gz[Peer] = Absent
  /\ step \in {"appendTar", "closeTar", "placeTar"} => Peer \in hurt \/ ~Whole(gz[Peer])
  /\ step \in {"close", "closeTar"} => tar[Peer] = Torn
  /\ step = "compress" => gz[Peer] = Torn
  /\ step \in {"gzip", "compress", "removeTar", "placeTar"} => Whole(tar[Peer])
  /\ step = "place" => tar[Peer] = Absent

Opened == step \in {"removeGz", "removeTar", "place", "placeTar"}
            \/ (step \in {"gunzip", "expand"} /\ Whole(gz[Peer]))

\* What the files hold, step by step.
TarContent ==
  step \in TarSteps /\ Peer \notin hurt =>
    /\ step \in {"gunzip", "expand", "removeGz", "append", "appendTar", "removeTar", "placeTar"}
         => TarOf(Peer) = Old
    /\ step \in {"close", "closeTar"} => left = New
    /\ step \in {"gzip", "compress", "gzipped"} => tar[Peer] = New
    /\ Opened /\ Op = "delete" => left = Stays(Old)
    /\ step \in TarSteps /\ Op = "verify" =>
         <<Block, Data>> \in Old \/ (step = "gunzip" /\ gz[Peer] = Torn)

\* The same for the steps that change a large block.
FileContent ==
  /\ step = "convert" => file[Block] = Raw /\ job.file[Block] = Absent
  /\ step \in {"account", "truncate", "remove"} =>
       Intact(job.file[Block]) /\ left = Accounted(job.file[Block])
  /\ step = "truncate" => file[Block] = Torn
  /\ step = "remove" => file[Block] = {} /\ left = {}

\* Nothing went wrong so far.
Calm == oneDevice /\ crashes = 0

\* Then a tarball is one .tar.gz, and every large block a BlockFile.
CalmFiles ==
  Calm =>
    /\ hurt = {}
    /\ \A n \in Nodes :
         \/ tar[n] = Absent /\ gz[n] # Torn
         \/ ~Resting /\ n = Peer /\ step \in TarSteps
    /\ \A b \in Large :
         \/ file[b] = Absent
         \/ Intact(file[b]) /\ file[b] # {}
         \/ step \in {"convert", "truncate", "remove"} /\ b = Block
    /\ ~Resting => \A b \in Large : job.file[b] # {}
    /\ step \notin {"appendTar", "closeTar", "placeTar"}
    /\ step = "gunzip" => Whole(gz[Peer])

\* The inductive invariant.
IInv ==
  /\ TypeOK
  /\ SeenServes
  /\ Twins
  /\ Snapshot
  /\ Deleting
  /\ StepOps
  /\ TarShape
  /\ TarContent
  /\ FileContent
  /\ CalmFiles

USE BlockStoreDiskAssumption

-----------------------------------------------------------------------------
(* Tarballs, and the request that is carried out.                          *)

\* Member names are finitely many.
LEMMA NamesFinite == ASSUME NEW S \in SUBSET Names PROVE IsFiniteSet(S)
<1>1. IsFiniteSet(MetaKeys \cup {Data})
  BY FS_AddElement
<1>2. IsFiniteSet(Names)
  BY <1>1, FS_Product DEF Names
<1>3. QED BY <1>2, FS_Subset

\* The instance counts as we do.
LEMMA SameCount == \A S : Store!Cardinality(S) = Cardinality(S)
BY DEF Store!Cardinality, Cardinality

\* A third member of the block makes more than two.
LEMMA ThreeMembers ==
  ASSUME NEW S, IsFiniteSet(S), NEW x \in S, NEW y \in S, NEW z \in S,
         x # y, x # z, y # z
  PROVE  Cardinality(S) > 2
<1>1. Cardinality({x}) = 1 /\ IsFiniteSet({x})
  BY FS_Singleton
<1>2. Cardinality({x} \cup {y}) = 2 /\ IsFiniteSet({x} \cup {y})
  <2>1. y \notin {x}
    OBVIOUS
  <2>2. /\ IsFiniteSet({x} \cup {y})
        /\ Cardinality({x} \cup {y}) = IF y \in {x} THEN Cardinality({x}) ELSE Cardinality({x}) + 1
    BY <1>1, FS_AddElement
  <2>3. QED BY <1>1, <2>1, <2>2
<1> DEFINE T == {x} \cup {y}
<1>3. z \notin T /\ T \cup {z} \subseteq S
  OBVIOUS
<1> HIDE DEF T
<1>4. Cardinality(T \cup {z}) = 3
  <2>1. Cardinality(T \cup {z}) = IF z \in T THEN Cardinality(T) ELSE Cardinality(T) + 1
    BY <1>2, FS_AddElement DEF T
  <2>2. QED BY <1>2, <1>3, <2>1 DEF T
<1>5. QED BY <1>3, <1>4, FS_Subset, FS_CardinalityType

\* Sets of members and of accountings are files that can be read.
LEMMA SetsAreWhole ==
  /\ \A f \in SUBSET Names : Whole(f)
  /\ \A f \in SUBSET (Nodes \X MetaKeys) : Intact(f)
BY DEF Whole, Intact

LEMMA FileTypes ==
  /\ \A f \in TarFile : Whole(f) <=> f \in SUBSET Names
  /\ \A f \in TarFile : ~Whole(f) <=> f \in {Absent, Torn}
  /\ \A f \in BlockFile : Intact(f) <=> f \in SUBSET (Nodes \X MetaKeys)
  /\ \A f \in BlockFile : ~Intact(f) <=> f \in {Absent, Torn, Raw}
BY DEF Whole, Intact, TarFile, BlockFile

\* What TarfileUtils.delete writes is part of what it reads.
LEMMA StaysSubset == ASSUME NEW f PROVE Stays(f) \subseteq f
BY DEF Stays, Store!DeleteMember, Store!TarDelete

\* The request that is carried out.
LEMMA JobShape ==
  ASSUME TypeOK, ~Resting
  PROVE  /\ Peer \in Nodes /\ Op \in {"tar", "direct", "verify", "delete"}
         /\ job.tar \in [Nodes -> SUBSET Names] /\ job.file \in [Large -> BlockFile]
         /\ Old \in SUBSET Names
         /\ job.q \in Store!Requests
         /\ Op = "tar" => job.q.refs \subseteq Small \X MetaKeys
         /\ Op # "tar" => /\ job.q.refs = {<<Block, Key>>}
                          /\ Block \in Small \cup Large /\ Key \in MetaKeys
         /\ Op = "direct" => Block \in Large
<1>1. job \in [node : Nodes, q : Store!Requests, tar : [Nodes -> SUBSET Names],
               file : [Large -> BlockFile]]
  BY DEF TypeOK
<1>2. /\ Peer \in Nodes /\ job.q \in Store!Requests
      /\ job.tar \in [Nodes -> SUBSET Names] /\ job.file \in [Large -> BlockFile]
  BY <1>1 DEF Peer
<1>3. Op \in {"tar", "direct", "verify", "delete"}
  BY <1>2 DEF Store!Requests, Op
<1>4. Op = "tar" => job.q.refs \subseteq Small \X MetaKeys
  BY <1>2 DEF Store!Requests, Op
<1>5. ASSUME Op # "tar"
      PROVE  \E r \in (Small \cup Large) \X MetaKeys :
               job.q.refs = {r} /\ (Op = "direct" => r[1] \in Large)
  BY <1>2, <1>5 DEF Store!Requests, Store!Ref, Store!Blocks, Op
<1>6. ASSUME Op # "tar"
      PROVE  /\ job.q.refs = {<<Block, Key>>}
             /\ Block \in Small \cup Large /\ Key \in MetaKeys
             /\ Op = "direct" => Block \in Large
  <2>1. PICK r \in (Small \cup Large) \X MetaKeys :
          job.q.refs = {r} /\ (Op = "direct" => r[1] \in Large)
    BY <1>5, <1>6
  <2>2. (CHOOSE x \in job.q.refs : TRUE) = r
    BY <2>1
  <2>3. Block = r[1] /\ Key = r[2]
    BY <2>2 DEF Block, Key
  <2>4. QED BY <2>1, <2>3
<1>7. QED BY <1>2, <1>3, <1>4, <1>6 DEF Old

\* A request about a large block is no aggregated STORE.
LEMMA TarIsSmall ==
  ASSUME TypeOK, ~Resting, Block \in Large
  PROVE  Op # "tar"
<1>1. SUFFICES ASSUME Op = "tar" PROVE FALSE
  OBVIOUS
<1>2. job.q \in Store!Requests
  BY JobShape
<1>3. job.q.refs # {} /\ job.q.refs \subseteq Small \X MetaKeys
  BY <1>1, <1>2 DEF Store!Requests, Op
<1>4. Block \in Small
  BY <1>3 DEF Block
<1>5. QED BY <1>4

LEMMA RefsType ==
  ASSUME TypeOK, ~Resting
  PROVE  /\ Refs \subseteq Nodes \X (Small \cup Large) \X MetaKeys
         /\ \A o \in Refs : o[1] = Peer
         /\ Op = "tar" => \A o \in Refs : o[2] \in Small
         /\ Op # "tar" => Refs = {<<Peer, Block, Key>>}
<1>1. ASSUME Op = "tar"
      PROVE  \A r \in job.q.refs : r[1] \in Small /\ r[2] \in MetaKeys
  BY <1>1, JobShape
<1>2. ASSUME Op # "tar"
      PROVE  /\ Refs = {<<Peer, Block, Key>>}
             /\ Refs \subseteq Nodes \X (Small \cup Large) \X MetaKeys
  <2>1. /\ job.q.refs = {<<Block, Key>>} /\ Peer \in Nodes
        /\ Block \in Small \cup Large /\ Key \in MetaKeys
    BY <1>2, JobShape
  <2>2. Refs = {<<Peer, Block, Key>>}
    BY <2>1 DEF Refs, Store!Of
  <2>3. QED BY <2>1, <2>2
<1>3. QED BY <1>1, <1>2, JobShape DEF Refs, Store!Of

\* What a request adds are member names, and enough to serve its references.
LEMMA AddedServes ==
  ASSUME TypeOK, ~Resting, Op = "tar" \/ (Op = "verify" /\ Block \in Small)
  PROVE  /\ Added \subseteq Names
         /\ \A o \in Refs : /\ <<o[2], o[3]>> \in Added
                            /\ Op = "tar" => <<o[2], Data>> \in Added
                            /\ Op # "tar" => o[2] = Block
<1>1. CASE Op = "tar"
  <2>1. \A r \in job.q.refs : r[1] \in Small /\ r[2] \in MetaKeys /\ r = <<r[1], r[2]>>
    BY <1>1, JobShape
  <2>2. QED BY <1>1, <2>1 DEF Added, Names, Refs, Store!Of
<1>2. CASE Op = "verify" /\ Block \in Small
  BY <1>2, JobShape, RefsType DEF Added, Names
<1>3. QED BY <1>1, <1>2

\* The parts of the request do not change while it is carried out.
LEMMA JobSame ==
  ASSUME job' = job
  PROVE  /\ Peer' = Peer /\ Op' = Op /\ Block' = Block /\ Key' = Key
         /\ Refs' = Refs /\ Added' = Added /\ Old' = Old /\ New' = New
         /\ Stays(Old)' = Stays(Old)
         /\ Accounted(job.file[Block])' = Accounted(job.file[Block])
<1>1. /\ Peer' = Peer /\ Op' = Op /\ Block' = Block /\ Key' = Key
  BY DEF Peer, Op, Block, Key
<1>2. Refs' = Refs /\ Added' = Added
  BY <1>1 DEF Refs, Added
<1>3. Old' = Old /\ New' = New
  BY <1>1, <1>2 DEF Old, New
<1>4. Stays(Old)' = Stays(Old)
  BY <1>1, <1>3 DEF Stays
<1>5. QED BY <1>1, <1>2, <1>3, <1>4 DEF Accounted

\* A DELETE of a reference that is there leaves every other one.
LEMMA StaysKeeps ==
  ASSUME TypeOK, ~Resting, Op = "delete", NEW f \in SUBSET Names,
         InTar(f, <<Peer, Block, Key>>),
         NEW o, InTar(f, o), o[3] \in MetaKeys, ~(o[2] = Block /\ o[3] = Key)
  PROVE  InTar(Stays(f), o)
<1> DEFINE d == <<Block, Data>>
           p == <<Block, Key>>
           x == <<o[2], Data>>
           y == <<o[2], o[3]>>
           M == Store!MembersOf(f, Block)
<1>1. Key \in MetaKeys /\ Data \notin MetaKeys
  BY JobShape
<1>2. d \in f /\ p \in f /\ x \in f /\ y \in f /\ d # p /\ y # p /\ x # p /\ y # d
  BY <1>1 DEF InTar
<1>3. IsFiniteSet(f) /\ IsFiniteSet(M)
  BY NamesFinite, FS_Subset DEF Store!MembersOf
<1>4. ASSUME NEW G \in SUBSET f
      PROVE  Store!TarDelete(f, G) = f \ G
  <2>1. Cardinality(f) = Cardinality(G) => f = G
    BY <1>3, FS_Subset
  <2>2. QED BY <2>1, SameCount DEF Store!TarDelete
<1>5. CASE Cardinality(M) > 2
  <2>1. Stays(f) = Store!TarDelete(f, {p} \cap f)
    BY <1>5, SameCount DEF Stays, Store!DeleteMember
  <2>2. Stays(f) = f \ {p}
    BY <1>4, <2>1
  <2>3. QED BY <1>2, <2>2 DEF InTar
<1>6. CASE ~(Cardinality(M) > 2)
  <2>1. Stays(f) = Store!TarDelete(f, {d, p} \cap f)
    BY <1>2, <1>6, SameCount DEF Stays, Store!DeleteMember, Store!Pruned
  <2>2. Stays(f) = f \ {d, p}
    BY <1>4, <2>1
  <2>3. o[2] # Block
    <3>1. SUFFICES ASSUME o[2] = Block PROVE FALSE
      OBVIOUS
    <3>2. d \in M /\ p \in M /\ y \in M
      BY <1>2, <3>1 DEF Store!MembersOf
    <3>3. Cardinality(M) > 2
      BY <1>2, <1>3, <3>2, ThreeMembers
    <3>4. QED BY <1>6, <3>3
  <2>4. x # d
    BY <2>3
  <2>5. QED BY <1>2, <2>2, <2>4 DEF InTar
<1>7. QED BY <1>5, <1>6

-----------------------------------------------------------------------------
(* Typing.                                                                 *)

LEMMA TypeInit == Init => TypeOK
BY DEF Init, TypeOK, TarFile, BlockFile, Resting, TarSteps, FileSteps

\* The end of a request.
LEMMA TypeEnd ==
  ASSUME TypeOK, ~Resting, Done \/ NotFound \/ (\E h \in SUBSET (Nodes \cup Large) : Failed(h)),
         gz' \in [Nodes -> TarFile], tar' \in [Nodes -> TarFile],
         file' \in [Large -> BlockFile], oneDevice' = oneDevice, crashes' \in 0..MaxCrashes
  PROVE  TypeOK' /\ Resting'
<1>1. step' = "rest" /\ left' = {}
  BY DEF Done, NotFound, Failed, Ended
<1>2. /\ owed' \subseteq owed \cup Refs /\ doubt' \subseteq doubt \cup Refs
      /\ hurt' \subseteq Nodes \cup Large
  BY DEF Done, NotFound, Failed, TypeOK
<1>3. QED BY <1>1, <1>2, RefsType DEF TypeOK, Resting

\* A file operation of a request that goes on.
LEMMA TypeGoOn ==
  ASSUME TypeOK, ~Resting, job' = job, owed' = owed, doubt' = doubt,
         step' \in TarSteps \cup FileSteps,
         gz' \in [Nodes -> TarFile], tar' \in [Nodes -> TarFile],
         file' \in [Large -> BlockFile],
         oneDevice' = oneDevice, crashes' = crashes, hurt' \subseteq Nodes \cup Large,
         left' \subseteq IF step' \in TarSteps THEN Names ELSE Nodes \X MetaKeys
  PROVE  TypeOK' /\ ~Resting'
<1>1. step' # "rest"
  BY DEF TarSteps, FileSteps
<1>2. step' \in TarSteps \/ (step' \notin TarSteps /\ step' \in FileSteps)
  OBVIOUS
<1>3. QED BY <1>1, <1>2 DEF TypeOK, Resting

-----------------------------------------------------------------------------
(* The invariant, for what every step does not do.                         *)

LEMMA InitIInv == Init => IInv
<1> SUFFICES ASSUME Init PROVE IInv
  OBVIOUS
<1>1. TypeOK
  BY TypeInit
<1>2. step = "rest" /\ Resting /\ owed = {}
  BY DEF Init, Resting
<1>3. SeenServes /\ Snapshot /\ Deleting
  BY <1>2 DEF SeenServes, Snapshot, Deleting
<1>4. Twins
  BY DEF Init, Twins, Whole
<1>5. StepOps /\ TarShape /\ TarContent /\ FileContent
  BY <1>2 DEF StepOps, TarShape, TarContent, FileContent, TarSteps, FileSteps
<1>6. CalmFiles
  BY <1>2 DEF Init, CalmFiles
<1>7. QED BY <1>1, <1>3, <1>4, <1>5, <1>6 DEF IInv

\* Between requests.
LEMMA RestIInv ==
  ASSUME TypeOK', Resting', SeenServes', Twins',
         Calm' => /\ hurt' = {}
                  /\ \A n \in Nodes : tar'[n] = Absent /\ gz'[n] # Torn
                  /\ \A b \in Large : \/ file'[b] = Absent
                                      \/ Intact(file'[b]) /\ file'[b] # {}
  PROVE  IInv'
<1>1. step' = "rest"
  BY DEF Resting
<1>2. Snapshot' /\ Deleting'
  BY DEF Snapshot, Deleting
<1>3. StepOps' /\ TarShape' /\ TarContent' /\ FileContent'
  BY <1>1 DEF StepOps, TarShape, TarContent, FileContent, TarSteps, FileSteps
<1>4. CalmFiles'
  BY <1>1 DEF CalmFiles, Calm
<1>5. QED BY <1>2, <1>3, <1>4 DEF IInv

\* What RETRIEVE reads after the step.
TarNext == [n \in Nodes |-> TarOf(n)']

\* The tarballs of the other peers are left alone.
OnlyPeer == \A n \in Nodes \ {Peer} : gz'[n] = gz[n] /\ tar'[n] = tar[n]

\* Then their tarballs are those of the snapshot.
LEMMA OthersSame ==
  ASSUME IInv, ~Resting, OnlyPeer, hurt \subseteq hurt'
  PROVE  \A n \in Nodes \ {Peer} :
           /\ TarNext[n] = job.tar[n]
           /\ n \notin hurt' /\ Whole(gz'[n]) /\ Whole(tar'[n]) => gz'[n] = tar'[n]
           /\ Calm => tar'[n] = Absent /\ gz'[n] # Torn
<1> SUFFICES ASSUME NEW n \in Nodes \ {Peer}
             PROVE  /\ TarNext[n] = job.tar[n]
                    /\ n \notin hurt' /\ Whole(gz'[n]) /\ Whole(tar'[n]) => gz'[n] = tar'[n]
                    /\ Calm => tar'[n] = Absent /\ gz'[n] # Torn
  OBVIOUS
<1>1. gz'[n] = gz[n] /\ tar'[n] = tar[n]
  BY DEF OnlyPeer
<1>2. TarNext[n] = TarOf(n)
  BY <1>1 DEF TarOf, TarNext
<1>3. QED BY <1>1, <1>2 DEF IInv, Snapshot, Twins, CalmFiles

\* Outside the steps that change a block the files are those of the snapshot,
\* and outside those that change a tarball it is.
LEMMA FilesSame ==
  ASSUME IInv, ~Resting, step \notin {"convert", "truncate", "remove"}
  PROVE  /\ file = job.file
         /\ Calm => \A b \in Large : \/ file[b] = Absent
                                     \/ Intact(file[b]) /\ file[b] # {}
<1>1. file \in [Large -> BlockFile] /\ job.file \in [Large -> BlockFile]
  BY JobShape DEF IInv, TypeOK
<1>2. \A b \in Large : file[b] = job.file[b]
  BY DEF IInv, Snapshot
<1>3. QED BY <1>1, <1>2 DEF IInv, CalmFiles

LEMMA TarsSame ==
  ASSUME IInv, ~Resting, step \notin TarSteps
  PROVE  /\ \A n \in Nodes : TarOf(n) = job.tar[n]
         /\ TarOf(Peer) = Old
         /\ Calm => \A n \in Nodes : tar[n] = Absent /\ gz[n] # Torn
BY JobShape DEF IInv, Snapshot, CalmFiles, Old

\* A DELETE leaves of the tarball what its peer is owed.
LEMMA DeleteServes ==
  ASSUME IInv, ~Resting, Op = "delete", Block \in Small, Peer \notin hurt,
         NEW o \in owed, o[1] = Peer, o[2] \in Small
  PROVE  InTar(Stays(Old), o)
<1>1. TypeOK /\ SeenServes /\ Deleting
  BY DEF IInv
<1>2. Refs = {<<Peer, Block, Key>>} /\ Old \in SUBSET Names
  BY <1>1, RefsType, JobShape
<1>3. InTar(Old, <<Peer, Block, Key>>)
  BY <1>1, <1>2 DEF Deleting
<1>4. InTar(Old, o)
  BY <1>1 DEF SeenServes, SeenTar, Old
<1>5. o = <<Peer, o[2], o[3]>> /\ o[3] \in MetaKeys
  BY <1>1 DEF TypeOK
<1>6. ~(o[2] = Block /\ o[3] = Key)
  BY <1>1, <1>2, <1>5 DEF Deleting
<1>7. QED BY <1>1, <1>2, <1>3, <1>4, <1>5, <1>6, StaysKeeps

-----------------------------------------------------------------------------
(* Requests about a tarball.                                               *)

\* The tarball serves what it should when the request ends.
TarEnds ==
  \/ /\ owed' = owed
     /\ Peer \notin hurt' =>
          \/ Old \subseteq TarNext[Peer]
          \/ Op = "delete" /\ Block \in Small /\ Stays(Old) \subseteq TarNext[Peer]
  \/ /\ owed' = owed \cup Refs
     /\ Op = "tar" \/ (Op = "verify" /\ Block \in Small)
     /\ Peer \notin hurt' => New \subseteq TarNext[Peer]
     /\ Peer \notin hurt' /\ Op = "verify" => <<Block, Data>> \in Old

LEMMA TarEndIInv ==
  ASSUME IInv, ~Resting, step \in TarSteps \cup {"look"}, OnlyPeer, file' = file,
         TypeOK', Resting', oneDevice' = oneDevice, crashes' >= crashes,
         hurt \subseteq hurt', TarEnds,
         Peer \notin hurt' /\ Whole(gz'[Peer]) /\ Whole(tar'[Peer]) => gz'[Peer] = tar'[Peer],
         Calm' => hurt' = {} /\ tar'[Peer] = Absent /\ gz'[Peer] # Torn
  PROVE  IInv'
<1>1. TypeOK /\ SeenServes
  BY DEF IInv
<1>2. Peer \in Nodes
  BY <1>1, JobShape
<1>3. step \notin {"convert", "truncate", "remove"}
  BY DEF TarSteps
<1>4. SeenTar = job.tar /\ SeenFile = file /\ SeenFile' = file
  BY <1>3, FilesSame DEF SeenTar, SeenFile
<1>5. ASSUME NEW o \in owed', o[2] \notin Small
      PROVE  \/ Intact(SeenFile'[o[2]]) /\ <<o[1], o[3]>> \in SeenFile'[o[2]]
             \/ SeenFile'[o[2]] = Torn /\ o[2] \in hurt'
  <2>1. o \in owed
    <3>1. ASSUME o \in Refs, Op = "tar" \/ (Op = "verify" /\ Block \in Small)
          PROVE  FALSE
      BY <1>1, <1>5, <3>1, RefsType
    <3>2. QED BY <3>1 DEF TarEnds
  <2>2. QED BY <1>1, <1>4, <1>5, <2>1 DEF SeenServes
<1>6. ASSUME NEW o \in owed', o[2] \in Small, o[1] \notin hurt'
      PROVE  InTar(TarNext[o[1]], o)
  <2>1. CASE o[1] # Peer
    <3>1. o \in owed
      BY <1>1, <2>1, RefsType DEF TarEnds
    <3>2. o[1] \in Nodes \ {Peer}
      BY <1>1, <2>1, <3>1 DEF TypeOK
    <3>3. InTar(job.tar[o[1]], o)
      BY <1>1, <1>4, <1>6, <3>1 DEF SeenServes
    <3>4. TarNext[o[1]] = job.tar[o[1]]
      BY <3>2, OthersSame
    <3>5. QED BY <3>3, <3>4 DEF InTar
  <2>2. CASE o[1] = Peer /\ o \in owed
    <3>1. InTar(Old, o)
      BY <1>1, <1>4, <1>6, <2>2 DEF SeenServes, Old
    <3>2. Op = "delete" /\ Block \in Small => InTar(Stays(Old), o)
      BY <1>6, <2>2, DeleteServes
    <3>3. \/ Old \subseteq TarNext[Peer]
          \/ Op = "delete" /\ Block \in Small /\ Stays(Old) \subseteq TarNext[Peer]
      <4>1. Peer \notin hurt'
        BY <1>6, <2>2
      <4>2. New \subseteq TarNext[Peer] => Old \subseteq TarNext[Peer]
        BY DEF New
      <4>3. QED BY <4>1, <4>2 DEF TarEnds
    <3>4. InTar(TarNext[Peer], o)
      BY <3>1, <3>2, <3>3 DEF InTar
    <3>5. QED BY <2>2, <3>4
  <2>3. CASE o[1] = Peer /\ o \notin owed
    <3>1. /\ o \in Refs /\ New \subseteq TarNext[Peer]
          /\ Op = "tar" \/ (Op = "verify" /\ Block \in Small)
          /\ Op = "verify" => <<Block, Data>> \in Old
      <4>1. Peer \notin hurt' /\ owed' # owed
        BY <1>6, <2>3
      <4>2. owed' = owed \cup Refs
        BY <4>1 DEF TarEnds
      <4>3. o \in Refs
        BY <1>6, <2>3, <4>2
      <4>4. QED BY <4>1, <4>3 DEF TarEnds
    <3>2. <<o[2], o[3]>> \in New /\ <<o[2], Data>> \in New
      BY <1>1, <3>1, AddedServes DEF New
    <3>3. QED BY <2>3, <3>1, <3>2 DEF InTar
  <2>4. QED BY <2>1, <2>2, <2>3
<1>7. SeenServes'
  <2>1. \A o \in owed' : o[1] \in Nodes
    BY DEF TypeOK
  <2>2. SeenTar' = TarNext
    BY DEF SeenTar, TarNext
  <2>3. QED BY <1>5, <1>6, <2>1, <2>2 DEF SeenServes
<1>8. Twins'
  <2>1. ASSUME NEW n \in Nodes \ hurt', Whole(gz'[n]), Whole(tar'[n])
        PROVE  gz'[n] = tar'[n]
    BY <2>1, OthersSame
  <2>2. QED BY <2>1 DEF Twins, Whole
<1>9. ASSUME Calm'
      PROVE  /\ hurt' = {}
             /\ \A n \in Nodes : tar'[n] = Absent /\ gz'[n] # Torn
             /\ \A b \in Large : \/ file'[b] = Absent
                                 \/ Intact(file'[b]) /\ file'[b] # {}
  <2>1. Calm
    BY <1>1, <1>9 DEF Calm, TypeOK
  <2>2. QED BY <1>3, <1>9, <2>1, OthersSame, FilesSame
<1>10. QED BY <1>7, <1>8, <1>9, RestIInv

LEMMA TarGoOnIInv ==
  ASSUME IInv, ~Resting, step \in TarSteps \cup {"look"}, step' \in TarSteps,
         job' = job, owed' = owed, OnlyPeer, file' = file, TypeOK', ~Resting',
         oneDevice' = oneDevice, crashes' = crashes, hurt \subseteq hurt',
         Peer \notin hurt' /\ Whole(gz'[Peer]) /\ Whole(tar'[Peer]) => gz'[Peer] = tar'[Peer],
         StepOps', TarShape', TarContent',
         Calm => /\ hurt' = {}
                 /\ step' \notin {"appendTar", "closeTar", "placeTar"}
                 /\ step' = "gunzip" => Whole(gz'[Peer])
  PROVE  IInv'
<1>1. step \notin {"convert", "truncate", "remove"} /\ Peer \in Nodes
  BY JobShape DEF TarSteps, IInv
<1>2. Peer' = Peer /\ Op' = Op /\ Refs' = Refs /\ Old' = Old /\ Block' = Block
  BY JobSame
<1>3. SeenServes'
  BY DEF IInv, SeenServes, SeenTar, SeenFile
<1>4. Deleting'
  <2>1. Deleting
    BY DEF IInv
  <2>2. QED BY <1>2, <2>1 DEF Deleting, InTar
<1>5. Twins'
  <2>1. ASSUME NEW n \in Nodes \ hurt', Whole(gz'[n]), Whole(tar'[n])
        PROVE  gz'[n] = tar'[n]
    BY <2>1, OthersSame
  <2>2. QED BY <2>1 DEF Twins, Whole
<1>6. Snapshot'
  <2>1. \A n \in Nodes : TarOf(n)' = job'.tar[n] \/ n = Peer'
    BY <1>2, OthersSame DEF TarNext
  <2>2. \A b \in Large : file'[b] = job'.file[b]
    BY <1>1, FilesSame
  <2>3. QED BY <2>1, <2>2 DEF Snapshot
<1>7. FileContent'
  BY DEF FileContent, TarSteps
<1>8. CalmFiles'
  <2>1. SUFFICES ASSUME Calm'
                 PROVE  /\ hurt' = {}
                        /\ \A n \in Nodes : (tar'[n] = Absent /\ gz'[n] # Torn) \/ n = Peer'
                        /\ \A b \in Large : \/ file'[b] = Absent
                                            \/ Intact(file'[b]) /\ file'[b] # {}
                        /\ \A b \in Large : job'.file[b] # {}
                        /\ step' \notin {"appendTar", "closeTar", "placeTar"}
                        /\ step' = "gunzip" => Whole(gz'[Peer'])
    BY DEF CalmFiles, Whole, Intact
  <2>2. Calm
    BY <2>1 DEF Calm
  <2>3. \A b \in Large : job'.file[b] # {}
    BY <2>2 DEF IInv, CalmFiles
  <2>4. QED BY <1>1, <1>2, <2>2, <2>3, OthersSame, FilesSame
<1>9. QED BY <1>3, <1>4, <1>5, <1>6, <1>7, <1>8 DEF IInv
\* Decompressing: the .tar is opened.
LEMMA OpenTarIInv ==
  ASSUME IInv, ~Resting, OpenTar, UNCHANGED <<oneDevice, crashes>>
  PROVE  IInv'
<1>1. TypeOK /\ StepOps /\ TarShape /\ TarContent /\ CalmFiles
      /\ Peer \in Nodes /\ Op \in {"tar", "direct", "verify", "delete"}
  BY JobShape DEF IInv
<1>2. /\ step = "gunzip" /\ step' = "expand" /\ left' = left
      /\ gz' = gz /\ tar' \in [Nodes -> TarFile] /\ tar'[Peer] = Torn
      /\ hurt' = IF gz[Peer] = Torn THEN hurt \cup {Peer} ELSE hurt
      /\ job' = job /\ owed' = owed /\ doubt' = doubt /\ file' = file
      /\ OnlyPeer
  BY <1>1 DEF OpenTar, GoOn, OnlyPeer, TypeOK, TarFile
<1>3. step \in TarSteps /\ step' \in TarSteps
  BY <1>2 DEF TarSteps
<1>4. TypeOK' /\ ~Resting'
  BY <1>1, <1>2, <1>3, TypeGoOn DEF TypeOK
<1>5. StepOps' /\ TarShape' /\ TarContent'
  BY <1>1, <1>2, <1>3, JobSame, FileTypes
     DEF StepOps, TarShape, TarContent, TarSteps, FileSteps, TarOf, Whole, Opened
<1>6. QED
  BY <1>1, <1>2, <1>3, <1>4, <1>5, TarGoOnIInv DEF CalmFiles, TarShape, Whole

\* The .tar.gz goes when .tar is complete.
LEMMA RemoveGzIInv ==
  ASSUME IInv, ~Resting, RemoveGz, UNCHANGED <<oneDevice, crashes>>
  PROVE  IInv'
<1>1. TypeOK /\ StepOps /\ TarShape /\ TarContent /\ CalmFiles
      /\ Peer \in Nodes /\ Op \in {"tar", "direct", "verify", "delete"}
  BY JobShape DEF IInv
<1>2. /\ step = "removeGz" /\ step' = (IF Op = "delete" THEN "removeTar" ELSE "append")
      /\ gz' \in [Nodes -> TarFile] /\ gz'[Peer] = Absent /\ tar' = tar
      /\ left' = left /\ hurt' = hurt
      /\ job' = job /\ owed' = owed /\ doubt' = doubt /\ file' = file
      /\ OnlyPeer
  BY <1>1 DEF RemoveGz, GoOn, OnlyPeer, TypeOK, TarFile
<1>3. step \in TarSteps /\ step' \in TarSteps
  BY <1>2 DEF TarSteps
<1>4. TypeOK' /\ ~Resting'
  BY <1>1, <1>2, <1>3, TypeGoOn DEF TypeOK
<1>5. StepOps' /\ TarShape' /\ TarContent'
  BY <1>1, <1>2, <1>3, JobSame, FileTypes
     DEF StepOps, TarShape, TarContent, TarSteps, FileSteps, TarOf, Whole, Opened
<1>6. QED
  BY <1>1, <1>2, <1>3, <1>4, <1>5, TarGoOnIInv DEF CalmFiles, TarShape, Whole

\* Compressing: the .tar.gz is opened.
LEMMA OpenGzIInv ==
  ASSUME IInv, ~Resting, OpenGz, UNCHANGED <<oneDevice, crashes>>
  PROVE  IInv'
<1>1. TypeOK /\ StepOps /\ TarShape /\ TarContent /\ CalmFiles
      /\ Peer \in Nodes /\ Op \in {"tar", "direct", "verify", "delete"}
  BY JobShape DEF IInv
<1>2. /\ step = "gzip" /\ step' = "compress"
      /\ gz' \in [Nodes -> TarFile] /\ gz'[Peer] = Torn /\ tar' = tar
      /\ left' = left /\ hurt' = hurt
      /\ job' = job /\ owed' = owed /\ doubt' = doubt /\ file' = file
      /\ OnlyPeer
  BY <1>1 DEF OpenGz, GoOn, OnlyPeer, TypeOK, TarFile
<1>3. step \in TarSteps /\ step' \in TarSteps
  BY <1>2 DEF TarSteps
<1>4. TypeOK' /\ ~Resting'
  BY <1>1, <1>2, <1>3, TypeGoOn DEF TypeOK
<1>5. StepOps' /\ TarShape' /\ TarContent'
  BY <1>1, <1>2, <1>3, JobSame, FileTypes
     DEF StepOps, TarShape, TarContent, TarSteps, FileSteps, TarOf, Whole, Opened
<1>6. QED
  BY <1>1, <1>2, <1>3, <1>4, <1>5, TarGoOnIInv DEF CalmFiles, TarShape, Whole

\* The .tar.gz is complete.
LEMMA CompressIInv ==
  ASSUME IInv, ~Resting, Compress, UNCHANGED <<oneDevice, crashes>>
  PROVE  IInv'
<1>1. TypeOK /\ StepOps /\ TarShape /\ TarContent /\ CalmFiles
      /\ Peer \in Nodes /\ Op \in {"tar", "direct", "verify", "delete"}
  BY JobShape DEF IInv
<1>2. /\ step = "compress" /\ step' = "gzipped"
      /\ gz' \in [Nodes -> TarFile] /\ gz'[Peer] = tar[Peer] /\ tar' = tar
      /\ left' = left /\ hurt' = hurt
      /\ job' = job /\ owed' = owed /\ doubt' = doubt /\ file' = file
      /\ OnlyPeer
  BY <1>1 DEF Compress, GoOn, OnlyPeer, TypeOK, TarFile
<1>3. step \in TarSteps /\ step' \in TarSteps
  BY <1>2 DEF TarSteps
<1>4. TypeOK' /\ ~Resting'
  BY <1>1, <1>2, <1>3, TypeGoOn DEF TypeOK
<1>5. StepOps' /\ TarShape' /\ TarContent'
  BY <1>1, <1>2, <1>3, JobSame, FileTypes
     DEF StepOps, TarShape, TarContent, TarSteps, FileSteps, TarOf, Whole, Opened
<1>6. QED
  BY <1>1, <1>2, <1>3, <1>4, <1>5, TarGoOnIInv DEF CalmFiles, TarShape, Whole

\* The tarball goes before what stays of it is put in its place.
LEMMA DropTarIInv ==
  ASSUME IInv, ~Resting, DropTar, UNCHANGED <<oneDevice, crashes>>
  PROVE  IInv'
<1>1. TypeOK /\ StepOps /\ TarShape /\ TarContent /\ CalmFiles
      /\ Peer \in Nodes /\ Op \in {"tar", "direct", "verify", "delete"}
  BY JobShape DEF IInv
<1>2. /\ step = "removeTar" /\ step' = "place"
      /\ tar' \in [Nodes -> TarFile] /\ tar'[Peer] = Absent /\ gz' = gz
      /\ left' = left /\ hurt' = hurt
      /\ job' = job /\ owed' = owed /\ doubt' = doubt /\ file' = file
      /\ OnlyPeer
  BY <1>1 DEF DropTar, GoOn, OnlyPeer, TypeOK, TarFile
<1>3. step \in TarSteps /\ step' \in TarSteps
  BY <1>2 DEF TarSteps
<1>4. TypeOK' /\ ~Resting'
  BY <1>1, <1>2, <1>3, TypeGoOn DEF TypeOK
<1>5. StepOps' /\ TarShape' /\ TarContent'
  BY <1>1, <1>2, <1>3, JobSame, FileTypes
     DEF StepOps, TarShape, TarContent, TarSteps, FileSteps, TarOf, Whole, Opened
<1>6. QED
  BY <1>1, <1>2, <1>3, <1>4, <1>5, TarGoOnIInv DEF CalmFiles, TarShape, Whole

\* Members are added: a member of the tarball is lost if it was hurt before.
LEMMA AppendIInv ==
  ASSUME IInv, ~Resting, Append, UNCHANGED <<oneDevice, crashes>>
  PROVE  IInv'
<1>1. TypeOK /\ StepOps /\ TarShape /\ TarContent /\ CalmFiles
      /\ Peer \in Nodes /\ Op \in {"tar", "direct", "verify", "delete"}
  BY JobShape DEF IInv
<1>2. /\ step \in {"append", "appendTar"}
      /\ step' = (IF step = "append" THEN "close" ELSE "closeTar")
      /\ gz' = gz /\ tar' \in [Nodes -> TarFile] /\ tar'[Peer] = Torn
      /\ left' = Added \cup (IF Whole(tar[Peer]) THEN tar[Peer] ELSE {})
      /\ hurt' = hurt
      /\ job' = job /\ owed' = owed /\ doubt' = doubt /\ file' = file
      /\ OnlyPeer
  BY <1>1 DEF Append, Appending, GoOn, OnlyPeer, TypeOK, TarFile
<1>3. step \in TarSteps /\ step' \in TarSteps
  BY <1>2 DEF TarSteps
<1>4. Op = "tar" \/ (Op = "verify" /\ Block \in Small)
  BY <1>1, <1>2, <1>3 DEF StepOps
<1>5. left' \subseteq Names
  <2>1. tar[Peer] \in TarFile
    BY <1>1 DEF TypeOK
  <2>2. QED BY <1>1, <1>2, <1>4, <2>1, AddedServes, FileTypes
<1>6. TypeOK' /\ ~Resting'
  BY <1>1, <1>2, <1>3, <1>5, TypeGoOn DEF TypeOK
<1>7. Peer \notin hurt => left' = New
  <2>1. Peer \notin hurt => TarOf(Peer) = Old /\ ~Whole(gz[Peer])
    BY <1>1, <1>2, <1>3 DEF TarContent, TarShape, Whole
  <2>2. QED BY <1>2, <2>1 DEF TarOf, New
<1>8. StepOps' /\ TarShape' /\ TarContent'
  BY <1>1, <1>2, <1>3, <1>7, JobSame
     DEF StepOps, TarShape, TarContent, TarSteps, FileSteps, Whole, Opened
<1>9. QED
  BY <1>1, <1>2, <1>3, <1>6, <1>8, TarGoOnIInv DEF CalmFiles, TarShape, Whole

\* The tarball is complete: it is still to be compressed, or the request ends.
LEMMA CloseIInv ==
  ASSUME IInv, ~Resting, Close, UNCHANGED <<oneDevice, crashes>>
  PROVE  IInv'
<1>1. TypeOK /\ StepOps /\ TarShape /\ TarContent /\ CalmFiles
      /\ Peer \in Nodes /\ Op \in {"tar", "direct", "verify", "delete"}
  BY JobShape DEF IInv
<1>2. /\ step \in {"close", "closeTar"} /\ step \in TarSteps
      /\ gz' = gz /\ tar' = [tar EXCEPT ![Peer] = left] /\ file' = file
  BY DEF Close, TarSteps
<1>3. left \in SUBSET Names
  BY <1>1, <1>2 DEF TypeOK
<1>4. tar' \in [Nodes -> TarFile] /\ tar'[Peer] = left /\ OnlyPeer /\ Whole(left)
  BY <1>1, <1>2, <1>3, SetsAreWhole DEF OnlyPeer, TypeOK, TarFile
<1>5. CASE step = "close"
  <2>1. /\ step' = "gzip" /\ left' = left /\ hurt' = hurt
        /\ job' = job /\ owed' = owed /\ doubt' = doubt
    BY <1>5 DEF Close, GoOn
  <2>2. step' \in TarSteps
    BY <2>1 DEF TarSteps
  <2>3. TypeOK' /\ ~Resting'
    BY <1>1, <1>2, <1>4, <2>1, <2>2, <1>3, TypeGoOn DEF TypeOK
  <2>4. StepOps' /\ TarShape' /\ TarContent'
    BY <1>1, <1>2, <1>4, <1>5, <2>1, <2>2, JobSame
       DEF StepOps, TarShape, TarContent, TarSteps, FileSteps, Whole, Opened
  <2>5. ~Whole(gz'[Peer])
    BY <1>1, <1>2, <1>5 DEF TarShape, Whole
  <2>6. QED BY <1>1, <1>2, <1>4, <2>1, <2>2, <2>3, <2>4, <2>5, TarGoOnIInv DEF CalmFiles
<1>6. CASE step = "closeTar"
  <2>1. Done /\ hurt' = hurt
    BY <1>6 DEF Close, Done
  <2>2. TypeOK' /\ Resting'
    BY <1>1, <1>2, <1>4, <2>1, TypeEnd DEF TypeOK
  <2>3. Op = "verify" /\ Block \in Small /\ owed' = owed \cup Refs
    BY <1>1, <1>2, <1>6, <2>1 DEF StepOps, Done
  <2>4. Peer \notin hurt => ~Whole(gz'[Peer]) /\ left = New /\ <<Block, Data>> \in Old
    BY <1>1, <1>2, <1>6, <2>3 DEF TarShape, TarContent
  <2>5. Peer \notin hurt => TarNext[Peer] = New
    BY <1>1, <1>4, <2>4 DEF TarNext, TarOf
  <2>6. TarEnds
    BY <2>1, <2>3, <2>4, <2>5 DEF TarEnds
  <2>7. ~Calm
    BY <1>1, <1>6 DEF CalmFiles
  <2>8. crashes' >= crashes /\ ~Calm'
    BY <1>1, <2>7 DEF Calm, TypeOK
  <2>9. QED BY <1>1, <1>2, <1>4, <2>1, <2>2, <2>4, <2>6, <2>8, TarEndIInv
<1>7. QED BY <1>2, <1>5, <1>6

\* The .tar goes when it is compressed.
LEMMA RemoveTarIInv ==
  ASSUME IInv, ~Resting, RemoveTar, UNCHANGED <<oneDevice, crashes>>
  PROVE  IInv'
<1>1. TypeOK /\ StepOps /\ TarShape /\ TarContent /\ CalmFiles
      /\ Peer \in Nodes /\ Op \in {"tar", "direct", "verify", "delete"}
  BY JobShape DEF IInv
<1>2. /\ step = "gzipped" /\ step \in TarSteps /\ Done /\ hurt' = hurt
      /\ gz' = gz /\ tar' \in [Nodes -> TarFile] /\ tar'[Peer] = Absent
      /\ file' = file /\ OnlyPeer
  BY <1>1 DEF RemoveTar, Done, TarSteps, OnlyPeer, TypeOK, TarFile
<1>3. TypeOK' /\ Resting'
  BY <1>1, <1>2, TypeEnd DEF TypeOK
<1>4. /\ Op = "tar" \/ (Op = "verify" /\ Block \in Small)
      /\ owed' = owed \cup Refs
  BY <1>1, <1>2 DEF StepOps, Done
<1>5. /\ Whole(gz'[Peer]) /\ gz'[Peer] = tar[Peer]
      /\ Peer \notin hurt => tar[Peer] = New /\ (Op = "verify" => <<Block, Data>> \in Old)
  BY <1>1, <1>2 DEF TarShape, TarContent
<1>6. TarNext[Peer] = gz'[Peer]
  BY <1>1, <1>5 DEF TarNext, TarOf
<1>7. TarEnds
  BY <1>2, <1>4, <1>5, <1>6 DEF TarEnds
<1>8. /\ crashes' >= crashes
      /\ ~(Whole(gz'[Peer]) /\ Whole(tar'[Peer]))
      /\ Calm' => hurt' = {} /\ gz'[Peer] # Torn
  BY <1>1, <1>2, <1>5 DEF Calm, CalmFiles, TypeOK, Whole
<1>9. QED BY <1>2, <1>3, <1>7, <1>8, TarEndIInv

\* Expanding: a whole .tar.gz is expanded, a torn one was hurt.
LEMMA ExpandIInv ==
  ASSUME IInv, ~Resting, Expand, UNCHANGED <<oneDevice, crashes>>
  PROVE  IInv'
<1>1. TypeOK /\ StepOps /\ TarShape /\ TarContent /\ CalmFiles
      /\ Peer \in Nodes /\ Op \in {"tar", "direct", "verify", "delete"}
  BY JobShape DEF IInv
<1>2. step = "expand" /\ step \in TarSteps /\ file' = file
  BY DEF Expand, TarSteps
<1>3. CASE Whole(gz[Peer])
  <2>1. /\ step' = "removeGz" /\ gz' = gz /\ left' = left /\ hurt' = hurt
        /\ job' = job /\ owed' = owed /\ doubt' = doubt
        /\ tar' = [tar EXCEPT ![Peer] = gz[Peer]]
    BY <1>3 DEF Expand, GoOn, Whole
  <2>2. tar' \in [Nodes -> TarFile] /\ tar'[Peer] = gz[Peer] /\ OnlyPeer
    BY <1>1, <2>1 DEF OnlyPeer, TypeOK
  <2>3. step' \in TarSteps
    BY <2>1 DEF TarSteps
  <2>4. TypeOK' /\ ~Resting'
    BY <1>1, <1>2, <2>1, <2>2, <2>3, TypeGoOn DEF TypeOK
  <2>5. StepOps' /\ TarShape' /\ TarContent'
    BY <1>1, <1>2, <1>3, <2>1, <2>2, <2>3, JobSame
       DEF StepOps, TarShape, TarContent, TarSteps, FileSteps, TarOf, Whole, Opened
  <2>6. QED BY <1>1, <1>2, <2>1, <2>2, <2>3, <2>4, <2>5, TarGoOnIInv DEF CalmFiles
<1>4. CASE ~Whole(gz[Peer])
  <2>1. gz[Peer] = Torn /\ Peer \in hurt /\ ~Calm
    BY <1>1, <1>2, <1>4, FileTypes DEF TarShape, TypeOK, CalmFiles
  <2>2. CASE Op = "tar"
    <3>1. /\ step' = "append" /\ tar' = tar /\ left' = left /\ hurt' = hurt
          /\ job' = job /\ owed' = owed /\ doubt' = doubt
          /\ gz' = [gz EXCEPT ![Peer] = Absent]
      BY <1>4, <2>2 DEF Expand, GoOn
    <3>2. gz' \in [Nodes -> TarFile] /\ gz'[Peer] = Absent /\ OnlyPeer
      BY <1>1, <3>1 DEF OnlyPeer, TypeOK, TarFile
    <3>3. step' \in TarSteps
      BY <3>1 DEF TarSteps
    <3>4. TypeOK' /\ ~Resting'
      BY <1>1, <1>2, <3>1, <3>2, <3>3, TypeGoOn DEF TypeOK
    <3>5. StepOps' /\ TarShape' /\ TarContent'
      BY <1>1, <1>2, <2>1, <2>2, <3>1, <3>2, <3>3, JobSame
         DEF StepOps, TarShape, TarContent, TarSteps, FileSteps, Whole, Opened
    <3>6. QED BY <1>1, <1>2, <2>1, <3>1, <3>2, <3>3, <3>4, <3>5, TarGoOnIInv
  <2>3. CASE Op # "tar"
    <3>1. NotFound \/ Failed({})
      BY <1>4, <2>3 DEF Expand
    <3>2. gz' = gz /\ tar' = tar /\ owed' = owed /\ hurt' = hurt /\ OnlyPeer
      BY <1>4, <2>3 DEF Expand, NotFound, Failed, OnlyPeer
    <3>3. TypeOK' /\ Resting'
      BY <1>1, <1>2, <3>1, <3>2, TypeEnd DEF TypeOK
    <3>4. TarEnds
      BY <2>1, <3>2 DEF TarEnds
    <3>5. crashes' >= crashes /\ ~Calm'
      BY <1>1, <2>1 DEF Calm, TypeOK
    <3>6. QED BY <1>2, <2>1, <3>2, <3>3, <3>4, <3>5, TarEndIInv
  <2>4. QED BY <2>2, <2>3
<1>5. QED BY <1>3, <1>4

\* What stays of a .tar.gz is put in its place, or lost between two devices.
LEMMA PlaceGzIInv ==
  ASSUME IInv, ~Resting, PlaceGz, UNCHANGED <<oneDevice, crashes>>
  PROVE  IInv'
<1>1. TypeOK /\ StepOps /\ TarShape /\ TarContent /\ CalmFiles
      /\ Peer \in Nodes /\ Op \in {"tar", "direct", "verify", "delete"}
  BY JobShape DEF IInv
<1>2. /\ step = "place" /\ step \in TarSteps /\ file' = file /\ tar' = tar
      /\ tar[Peer] = Absent /\ Op = "delete" /\ Block \in Small
      /\ left \in SUBSET Names
  BY <1>1 DEF PlaceGz, TarSteps, TarShape, StepOps, TypeOK
<1>3. crashes' >= crashes /\ (Calm' <=> Calm)
  BY <1>1 DEF TypeOK, Calm
<1>4. CASE oneDevice
  <2>1. Done /\ gz' = [gz EXCEPT ![Peer] = left] /\ hurt' = hurt /\ owed' = owed
    BY <1>2, <1>4 DEF PlaceGz, Done
  <2>2. /\ gz' \in [Nodes -> TarFile] /\ gz'[Peer] = left /\ OnlyPeer
        /\ Whole(left) /\ left # Torn
    BY <1>1, <1>2, <2>1, SetsAreWhole DEF OnlyPeer, TypeOK, TarFile, Whole
  <2>3. TypeOK' /\ Resting'
    BY <1>1, <1>2, <2>1, <2>2, TypeEnd DEF TypeOK
  <2>4. TarNext[Peer] = left
    BY <1>1, <2>2 DEF TarNext, TarOf
  <2>5. Peer \notin hurt => left = Stays(Old)
    BY <1>1, <1>2 DEF TarContent, Opened
  <2>6. TarEnds
    BY <1>2, <2>1, <2>4, <2>5 DEF TarEnds
  <2>7. ~Whole(tar'[Peer])
    BY <1>2 DEF Whole
  <2>8. QED BY <1>1, <1>2, <1>3, <2>1, <2>2, <2>3, <2>6, <2>7, TarEndIInv DEF CalmFiles
<1>5. CASE ~oneDevice
  <2>1. Failed({Peer}) /\ gz' = gz /\ hurt' = hurt \cup {Peer} /\ owed' = owed
    BY <1>5 DEF PlaceGz, Failed
  <2>2. TypeOK' /\ Resting' /\ OnlyPeer
    BY <1>1, <1>2, <2>1, TypeEnd DEF TypeOK, OnlyPeer
  <2>3. TarEnds /\ ~Calm'
    BY <1>3, <1>5, <2>1 DEF TarEnds, Calm
  <2>4. QED BY <1>2, <1>3, <2>1, <2>2, <2>3, TarEndIInv
<1>6. QED BY <1>4, <1>5

\* A .tar is replaced, or stays.
LEMMA PlaceTarIInv ==
  ASSUME IInv, ~Resting, PlaceTar, UNCHANGED <<oneDevice, crashes>>
  PROVE  IInv'
<1>1. TypeOK /\ StepOps /\ TarShape /\ TarContent /\ CalmFiles /\ Twins
      /\ Peer \in Nodes /\ Op \in {"tar", "direct", "verify", "delete"}
  BY JobShape DEF IInv
<1>2. /\ step = "placeTar" /\ step \in TarSteps /\ file' = file /\ gz' = gz
      /\ Op = "delete" /\ Block \in Small /\ left \in SUBSET Names
      /\ Peer \in hurt \/ ~Whole(gz[Peer])
  BY <1>1 DEF PlaceTar, TarSteps, TarShape, StepOps, TypeOK
<1>3. crashes' >= crashes /\ ~Calm'
  BY <1>1, <1>2 DEF TypeOK, Calm, CalmFiles
<1>4. CASE oneDevice
  <2>1. Done /\ tar' = [tar EXCEPT ![Peer] = left] /\ hurt' = hurt /\ owed' = owed
    BY <1>2, <1>4 DEF PlaceTar, Done
  <2>2. tar' \in [Nodes -> TarFile] /\ tar'[Peer] = left /\ OnlyPeer /\ Whole(left)
    BY <1>1, <1>2, <2>1, SetsAreWhole DEF OnlyPeer, TypeOK, TarFile
  <2>3. TypeOK' /\ Resting'
    BY <1>1, <1>2, <2>1, <2>2, TypeEnd DEF TypeOK
  <2>4. Peer \notin hurt => TarNext[Peer] = left
    BY <1>1, <1>2, <2>2 DEF TarNext, TarOf
  <2>5. Peer \notin hurt => left = Stays(Old)
    BY <1>1, <1>2 DEF TarContent, Opened
  <2>6. TarEnds
    BY <1>2, <2>1, <2>4, <2>5 DEF TarEnds
  <2>7. QED BY <1>2, <1>3, <2>1, <2>2, <2>3, <2>6, TarEndIInv
<1>5. CASE ~oneDevice
  <2>1. Failed({}) /\ tar' = tar /\ hurt' = hurt /\ owed' = owed
    BY <1>5 DEF PlaceTar, Failed
  <2>2. TypeOK' /\ Resting' /\ OnlyPeer
    BY <1>1, <1>2, <2>1, TypeEnd DEF TypeOK, OnlyPeer
  <2>3. Peer \notin hurt => TarNext[Peer] = Old
    BY <1>1, <1>2, <2>1 DEF TarNext, TarOf, TarContent
  <2>4. TarEnds
    BY <2>1, <2>3 DEF TarEnds
  <2>5. QED BY <1>2, <1>3, <2>1, <2>2, <2>4, TarEndIInv
<1>6. QED BY <1>4, <1>5

\* What the handlers find when they look.
LEMMA Looking ==
  ASSUME IInv, ~Resting, step = "look"
  PROVE  /\ Peer \in Nodes /\ Op \in {"tar", "direct", "verify", "delete"}
         /\ TarOf(Peer) = Old /\ file = job.file /\ left = {}
         /\ gz[Peer] \in TarFile /\ tar[Peer] \in TarFile
         /\ Peer \notin hurt /\ Whole(gz[Peer]) /\ Whole(tar[Peer]) => gz[Peer] = tar[Peer]
         /\ Calm => hurt = {} /\ tar[Peer] = Absent /\ gz[Peer] # Torn
         /\ Op = "delete" /\ InTarball => Block \in Small
<1>1. TypeOK /\ Twins /\ Deleting /\ CalmFiles /\ step \notin TarSteps
  BY DEF IInv, TarSteps
<1>2. Peer \in Nodes /\ Op \in {"tar", "direct", "verify", "delete"}
  BY <1>1, JobShape
<1>3. left = {}
  BY <1>1 DEF TypeOK, FileSteps
<1>4. TarOf(Peer) = Old /\ file = job.file
  BY <1>1, TarsSame, FilesSame
<1>5. ASSUME Op = "delete", InTarball PROVE Block \in Small
  <2>1. Refs = {<<Peer, Block, Key>>} /\ Block \in Small \cup Large
    BY <1>1, <1>5, RefsType, JobShape
  <2>2. Block \in Large => file[Block] = Absent
    BY <1>5 DEF InTarball
  <2>3. Block \notin Small => job.file[Block] # Absent
    BY <1>1, <1>5, <2>1 DEF Deleting
  <2>4. QED BY <1>4, <2>1, <2>2, <2>3
<1>6. gz[Peer] \in TarFile /\ tar[Peer] \in TarFile
  BY <1>1, <1>2 DEF TypeOK
<1>7. QED BY <1>1, <1>2, <1>3, <1>4, <1>5, <1>6 DEF Twins, CalmFiles

\* An aggregated STORE begins.
LEMMA StoreTarIInv ==
  ASSUME IInv, ~Resting, StoreTar, UNCHANGED <<oneDevice, crashes>>
  PROVE  IInv'
<1>1. TypeOK
  BY DEF IInv
<1>2. /\ step = "look" /\ Op = "tar" /\ left' = left /\ hurt' = hurt
      /\ step' = (IF gz[Peer] = Absent THEN "append" ELSE "gunzip")
      /\ gz' = gz /\ tar' = tar /\ file' = file
      /\ job' = job /\ owed' = owed /\ doubt' = doubt /\ OnlyPeer
  BY DEF StoreTar, GoOn, OnlyPeer
<1>3. step' \in TarSteps
  BY <1>2 DEF TarSteps
<1>4. TypeOK' /\ ~Resting'
  BY <1>1, <1>2, <1>3, Looking, TypeGoOn DEF TypeOK
<1>5. StepOps' /\ TarShape' /\ TarContent'
  BY <1>2, <1>3, JobSame, Looking
     DEF StepOps, TarShape, TarContent, TarSteps, FileSteps, TarOf, Whole, Opened
<1>6. QED BY <1>2, <1>3, <1>4, <1>5, Looking, TarGoOnIInv DEF TarFile, Whole

\* A VERIFY of a block in a tarball.
LEMMA VerifyTarIInv ==
  ASSUME IInv, ~Resting, VerifyTar, UNCHANGED <<oneDevice, crashes>>
  PROVE  IInv'
<1> DEFINE found == IF Has(gz[Peer], Block) THEN gz[Peer]
                    ELSE IF Has(tar[Peer], Block) THEN tar[Peer] ELSE {}
<1>1. TypeOK
  BY DEF IInv
<1>2. /\ step = "look" /\ Op = "verify" /\ InTarball
      /\ gz' = gz /\ tar' = tar /\ file' = file /\ OnlyPeer
      /\ step \in TarSteps \cup {"look"}
  BY DEF VerifyTar, InTarball, OnlyPeer
<1>3. /\ Peer \in Nodes /\ TarOf(Peer) = Old /\ left = {}
      /\ gz[Peer] \in TarFile /\ tar[Peer] \in TarFile
      /\ Peer \notin hurt /\ Whole(gz[Peer]) /\ Whole(tar[Peer]) => gz[Peer] = tar[Peer]
      /\ Calm => hurt = {} /\ tar[Peer] = Absent /\ gz[Peer] # Torn
  BY <1>2, Looking
<1>4. ASSUME NEW f \in TarFile, Has(f, Block)
      PROVE  Whole(f) /\ f \in SUBSET Names /\ <<Block, Data>> \in f /\ Block \in Small
  <2>1. Whole(f) /\ <<Block, Data>> \in f
    BY <1>4 DEF Has
  <2>2. f \in SUBSET Names
    BY <2>1, FileTypes
  <2>3. QED BY <2>1, <2>2 DEF Names
<1>5. Peer \notin hurt /\ Has(tar[Peer], Block) /\ ~Has(gz[Peer], Block) => ~Whole(gz[Peer])
  BY <1>3, <1>4
<1>6. ASSUME found # {}
      PROVE  /\ Block \in Small
             /\ Peer \notin hurt => found = Old /\ <<Block, Data>> \in Old
  BY <1>3, <1>4, <1>5, <1>6 DEF TarOf
<1>7. CASE gz[Peer] = Torn /\ GoOn("gunzip") /\ UNCHANGED left
  <2>1. /\ step' = "gunzip" /\ left' = left /\ hurt' = hurt
        /\ job' = job /\ owed' = owed /\ doubt' = doubt /\ step' \in TarSteps
    BY <1>7 DEF GoOn, TarSteps
  <2>2. TypeOK' /\ ~Resting'
    BY <1>1, <1>2, <1>3, <2>1, TypeGoOn DEF TypeOK
  <2>3. StepOps' /\ TarShape' /\ TarContent'
    BY <1>2, <1>3, <1>7, <2>1, JobSame
       DEF StepOps, TarShape, TarContent, TarSteps, FileSteps, TarOf, Whole, Opened
  <2>4. QED BY <1>2, <1>3, <1>7, <2>1, <2>2, <2>3, TarGoOnIInv
<1>8. CASE /\ found # {} /\ UNCHANGED left
           /\ GoOn(IF Has(gz[Peer], Block) THEN "gunzip" ELSE "appendTar")
  <2>1. /\ step' = (IF Has(gz[Peer], Block) THEN "gunzip" ELSE "appendTar")
        /\ left' = left /\ hurt' = hurt
        /\ job' = job /\ owed' = owed /\ doubt' = doubt /\ step' \in TarSteps
    BY <1>8 DEF GoOn, TarSteps
  <2>2. TypeOK' /\ ~Resting'
    BY <1>1, <1>2, <1>3, <2>1, TypeGoOn DEF TypeOK
  <2>3. /\ Has(gz[Peer], Block) \/ Has(tar[Peer], Block)
        /\ Has(gz[Peer], Block) => Whole(gz[Peer])
        /\ ~Has(gz[Peer], Block) => Whole(tar[Peer])
    BY <1>3, <1>4, <1>8
  <2>4. StepOps' /\ TarShape'
    BY <1>2, <1>3, <1>5, <1>6, <1>8, <2>1, <2>3, JobSame
       DEF StepOps, TarShape, TarSteps, FileSteps, Whole
  <2>5. TarContent'
    BY <1>2, <1>3, <1>6, <1>8, <2>1, JobSame DEF TarContent, TarSteps, TarOf, Whole, Opened
  <2>6. Calm => step' = "gunzip" /\ Whole(gz'[Peer])
    BY <1>2, <1>3, <2>1, <2>3 DEF Whole
  <2>7. QED BY <1>2, <1>3, <2>1, <2>2, <2>4, <2>5, <2>6, TarGoOnIInv
<1>9. CASE Done \/ NotFound
  <2>1. TypeOK' /\ Resting'
    BY <1>1, <1>2, <1>9, TypeEnd DEF TypeOK
  <2>2. TarNext[Peer] = Old
    BY <1>2, <1>3 DEF TarNext, TarOf
  <2>3. hurt' = hurt
    BY <1>9 DEF Done, NotFound
  <2>4. TarEnds
    <3>1. CASE NotFound
      BY <2>2, <3>1 DEF TarEnds, NotFound
    <3>2. CASE ~NotFound
      <4>1. <<Block, Key>> \in found /\ owed' = owed \cup Refs
        <5>1. Done /\ <<Block, Key>> \in found
          BY <1>9, <3>2 DEF VerifyTar, GoOn, Done, Ended
        <5>2. QED BY <1>2, <5>1 DEF Done
      <4>2. Added = {<<Block, Key>>}
        BY <1>1, <1>2, JobShape DEF Added
      <4>3. Block \in Small /\ (Peer \notin hurt => New \subseteq Old /\ <<Block, Data>> \in Old)
        BY <1>6, <4>1, <4>2 DEF New
      <4>4. QED BY <1>2, <2>2, <2>3, <4>1, <4>3 DEF TarEnds
    <3>3. QED BY <3>1, <3>2
  <2>5. crashes' >= crashes /\ (Calm' => Calm)
    BY <1>1 DEF Calm, TypeOK
  <2>6. QED BY <1>2, <1>3, <2>1, <2>3, <2>4, <2>5, TarEndIInv
<1>10. QED BY <1>7, <1>8, <1>9 DEF VerifyTar

\* A tarball that is torn may go: nothing can be read of it.
TornGoes ==
  /\ \/ gz' = gz
     \/ gz[Peer] = Torn /\ gz' = [gz EXCEPT ![Peer] = Absent]
  /\ \/ tar' = tar
     \/ tar[Peer] = Torn /\ tar' = [tar EXCEPT ![Peer] = Absent]

LEMMA TornSame ==
  ASSUME TypeOK, Peer \in Nodes, TornGoes, hurt' = hurt
  PROVE  /\ gz' \in [Nodes -> TarFile] /\ tar' \in [Nodes -> TarFile]
         /\ OnlyPeer
         /\ TarNext[Peer] = TarOf(Peer)
         /\ Whole(gz'[Peer]) => gz'[Peer] = gz[Peer]
         /\ Whole(tar'[Peer]) => tar'[Peer] = tar[Peer]
         /\ gz[Peer] # Torn => gz'[Peer] # Torn
         /\ tar[Peer] = Absent => tar'[Peer] = Absent
<1>1. /\ gz \in [Nodes -> TarFile] /\ tar \in [Nodes -> TarFile] /\ Absent \in TarFile
  BY DEF TypeOK, TarFile
<1>2. /\ gz' \in [Nodes -> TarFile] /\ tar' \in [Nodes -> TarFile]
      /\ \A n \in Nodes \ {Peer} : gz'[n] = gz[n] /\ tar'[n] = tar[n]
      /\ gz'[Peer] = gz[Peer] \/ (gz[Peer] = Torn /\ gz'[Peer] = Absent)
      /\ tar'[Peer] = tar[Peer] \/ (tar[Peer] = Torn /\ tar'[Peer] = Absent)
  BY <1>1 DEF TornGoes
<1>3. OnlyPeer
  BY <1>2 DEF OnlyPeer
<1>4. TarNext[Peer] = TarOf(Peer)
  BY <1>2 DEF TarNext, TarOf, Whole
<1>5. QED BY <1>2, <1>3, <1>4 DEF Whole

\* A DELETE of a block in a tarball.
LEMMA DeleteTarIInv ==
  ASSUME IInv, ~Resting, DeleteTar, UNCHANGED <<oneDevice, crashes>>
  PROVE  IInv'
<1>1. TypeOK
  BY DEF IInv
<1>2. /\ step = "look" /\ Op = "delete" /\ InTarball /\ file' = file
      /\ step \in TarSteps \cup {"look"}
  BY DEF DeleteTar, InTarball
<1>3. /\ Peer \in Nodes /\ TarOf(Peer) = Old /\ left = {} /\ Block \in Small
      /\ gz[Peer] \in TarFile /\ tar[Peer] \in TarFile
      /\ Peer \notin hurt /\ Whole(gz[Peer]) /\ Whole(tar[Peer]) => gz[Peer] = tar[Peer]
      /\ Calm => hurt = {} /\ tar[Peer] = Absent /\ gz[Peer] # Torn
  BY <1>2, Looking
<1>4. crashes' >= crashes /\ (Calm' => Calm)
  BY <1>1 DEF Calm, TypeOK
<1>5. CASE /\ UNCHANGED <<gz, tar>> /\ GoOn("gunzip") /\ gz[Peer] # Absent
           /\ \/ Whole(gz[Peer]) /\ left' = Stays(gz[Peer])
              \/ gz[Peer] = Torn /\ UNCHANGED left
  <2>1. /\ step' = "gunzip" /\ gz' = gz /\ tar' = tar /\ hurt' = hurt
        /\ job' = job /\ owed' = owed /\ doubt' = doubt /\ step' \in TarSteps
        /\ OnlyPeer
    BY <1>5 DEF GoOn, TarSteps, OnlyPeer
  <2>2. left' \subseteq Names
    BY <1>3, <1>5, FileTypes, StaysSubset
  <2>3. TypeOK' /\ ~Resting'
    BY <1>1, <1>2, <2>1, <2>2, TypeGoOn DEF TypeOK
  <2>4. Whole(gz[Peer]) => left' = Stays(Old)
    BY <1>3, <1>5 DEF TarOf, Whole
  <2>5. StepOps' /\ TarShape' /\ TarContent'
    BY <1>2, <1>3, <1>5, <2>1, <2>4, JobSame
       DEF StepOps, TarShape, TarContent, TarSteps, FileSteps, TarOf, Whole, Opened
  <2>6. Calm => Whole(gz'[Peer])
    BY <1>3, <1>5, <2>1 DEF Whole
  <2>7. QED BY <1>2, <1>3, <2>1, <2>3, <2>5, <2>6, TarGoOnIInv
<1>6. CASE /\ UNCHANGED <<gz, tar>> /\ GoOn("placeTar")
           /\ ~Whole(gz[Peer]) /\ Whole(tar[Peer]) /\ left' = Stays(tar[Peer])
  <2>1. /\ step' = "placeTar" /\ gz' = gz /\ tar' = tar /\ hurt' = hurt
        /\ job' = job /\ owed' = owed /\ doubt' = doubt /\ step' \in TarSteps
        /\ OnlyPeer
    BY <1>6 DEF GoOn, TarSteps, OnlyPeer
  <2>2. left' \subseteq Names
    BY <1>3, <1>6, FileTypes, StaysSubset
  <2>3. TypeOK' /\ ~Resting'
    BY <1>1, <1>2, <2>1, <2>2, TypeGoOn DEF TypeOK
  <2>4. left' = Stays(Old)
    BY <1>3, <1>6 DEF TarOf
  <2>5. StepOps' /\ TarShape' /\ TarContent'
    BY <1>2, <1>3, <1>6, <2>1, <2>4, JobSame
       DEF StepOps, TarShape, TarContent, TarSteps, FileSteps, TarOf, Whole, Opened
  <2>6. ~Calm
    BY <1>3, <1>6 DEF Whole
  <2>7. QED BY <1>2, <1>3, <1>6, <2>1, <2>3, <2>5, <2>6, TarGoOnIInv
<1>7. CASE UNCHANGED <<gz, tar>> /\ (NotFound \/ Failed({}))
  <2>1. gz' = gz /\ tar' = tar /\ owed' = owed /\ hurt' = hurt /\ OnlyPeer
    BY <1>7 DEF NotFound, Failed, OnlyPeer
  <2>2. TypeOK' /\ Resting'
    BY <1>1, <1>2, <1>7, <2>1, TypeEnd DEF TypeOK
  <2>3. TarNext[Peer] = Old
    BY <1>3, <2>1 DEF TarNext, TarOf
  <2>4. QED BY <1>2, <1>3, <1>4, <2>1, <2>2, <2>3, TarEndIInv DEF TarEnds
<1>8. CASE /\ Whole(gz[Peer]) /\ Stays(gz[Peer]) = {}
           /\ gz' = [gz EXCEPT ![Peer] = Absent] /\ Done /\ UNCHANGED tar
  <2>1. /\ gz' \in [Nodes -> TarFile] /\ gz'[Peer] = Absent /\ tar' = tar
        /\ owed' = owed /\ hurt' = hurt /\ OnlyPeer
    <3>1. owed' = owed /\ hurt' = hurt
      BY <1>2, <1>8 DEF Done
    <3>2. QED BY <1>1, <1>3, <1>8, <3>1 DEF OnlyPeer, TypeOK, TarFile
  <2>2. TypeOK' /\ Resting'
    BY <1>1, <1>2, <1>8, <2>1, TypeEnd DEF TypeOK
  <2>3. Stays(Old) = {}
    BY <1>3, <1>8 DEF TarOf
  <2>4. TarEnds
    BY <1>2, <1>3, <2>1, <2>3 DEF TarEnds
  <2>5. ~Whole(gz'[Peer]) /\ gz'[Peer] # Torn
    BY <2>1 DEF Whole
  <2>6. QED BY <1>2, <1>3, <1>4, <2>1, <2>2, <2>4, <2>5, TarEndIInv
<1>9. CASE /\ ~Whole(gz[Peer]) /\ Whole(tar[Peer]) /\ Stays(tar[Peer]) = {}
           /\ tar' = [tar EXCEPT ![Peer] = Absent] /\ Done /\ UNCHANGED gz
  <2>1. /\ tar' \in [Nodes -> TarFile] /\ tar'[Peer] = Absent /\ gz' = gz
        /\ owed' = owed /\ hurt' = hurt /\ OnlyPeer
    <3>1. owed' = owed /\ hurt' = hurt
      BY <1>2, <1>9 DEF Done
    <3>2. QED BY <1>1, <1>3, <1>9, <3>1 DEF OnlyPeer, TypeOK, TarFile
  <2>2. TypeOK' /\ Resting'
    BY <1>1, <1>2, <1>9, <2>1, TypeEnd DEF TypeOK
  <2>3. Stays(Old) = {}
    BY <1>3, <1>9 DEF TarOf
  <2>4. TarEnds
    BY <1>2, <1>3, <2>1, <2>3 DEF TarEnds
  <2>5. ~Whole(tar'[Peer])
    BY <2>1 DEF Whole
  <2>6. QED BY <1>2, <1>3, <1>4, <2>1, <2>2, <2>4, <2>5, TarEndIInv
<1>10. CASE Done /\ TornGoes
  <2>1. owed' = owed /\ hurt' = hurt
    BY <1>2, <1>10 DEF Done
  <2>2. /\ gz' \in [Nodes -> TarFile] /\ tar' \in [Nodes -> TarFile]
        /\ OnlyPeer /\ TarNext[Peer] = Old
    BY <1>1, <1>3, <1>10, <2>1, TornSame
  <2>3. TypeOK' /\ Resting'
    BY <1>1, <1>2, <1>10, <2>1, <2>2, TypeEnd DEF TypeOK
  <2>4. Peer \notin hurt' /\ Whole(gz'[Peer]) /\ Whole(tar'[Peer]) => gz'[Peer] = tar'[Peer]
    BY <1>1, <1>3, <1>10, <2>1, TornSame
  <2>5. Calm' => hurt' = {} /\ tar'[Peer] = Absent /\ gz'[Peer] # Torn
    BY <1>1, <1>3, <1>4, <1>10, <2>1, TornSame
  <2>6. TarEnds
    BY <2>1, <2>2 DEF TarEnds
  <2>7. QED BY <1>2, <1>4, <2>1, <2>2, <2>3, <2>4, <2>5, <2>6, TarEndIInv
<1>11. Whole(gz[Peer]) => gz[Peer] # Absent
  BY DEF Whole
<1>12. Absent # Torn
  OBVIOUS
<1>13. /\ Rewrite(gz[Peer], "gunzip") =>
            Done \/ (left' = Stays(gz[Peer]) /\ GoOn("gunzip"))
       /\ Rewrite(tar[Peer], "placeTar") =>
            Done \/ (left' = Stays(tar[Peer]) /\ GoOn("placeTar"))
  BY DEF Rewrite
<1>14. CASE Done /\ ~TornGoes
  BY <1>3, <1>8, <1>9, <1>13, <1>14 DEF DeleteTar, TornGoes, GoOn, Done, Ended, NotFound, Failed
<1>15. CASE ~Done
  BY <1>5, <1>6, <1>7, <1>11, <1>12, <1>13, <1>15 DEF DeleteTar
<1>16. QED BY <1>10, <1>14, <1>15

-----------------------------------------------------------------------------
(* Requests about a large block.                                           *)

\* The accounting serves what it should when the request ends.  If it does not
\* change, nor does what is owed, unless the reference was there.
FileEnds ==
  \/ owed' = owed /\ file'[Block] = job.file[Block]
  \/ owed' = owed /\ job.file[Block] = Absent
  \/ /\ Intact(job.file[Block])
     /\ \/ file'[Block] = Torn /\ Block \in hurt' /\ owed' = owed
        \/ /\ Op = "delete" /\ owed' = owed
           /\ \/ file'[Block] = Accounted(job.file[Block])
              \/ Accounted(job.file[Block]) = {}
  \/ /\ Op # "delete" /\ owed' = owed \cup Refs
     /\ \/ Intact(job.file[Block]) /\ file'[Block] = Accounted(job.file[Block])
        \/ job.file[Block] = Absent /\ file'[Block] = {<<Peer, Key>>}

LEMMA AccountedType ==
  ASSUME TypeOK, ~Resting, Op # "tar", NEW f \in SUBSET (Nodes \X MetaKeys)
  PROVE  /\ Accounted(f) \in SUBSET (Nodes \X MetaKeys)
         /\ f \ {<<Peer, Key>>} \subseteq Accounted(f)
         /\ Op # "delete" => Accounted(f) = f \cup {<<Peer, Key>>}
BY JobShape DEF Accounted

LEMMA FileEndIInv ==
  ASSUME IInv, ~Resting, step \in FileSteps \cup {"look"}, Op # "tar", Block \in Large,
         gz' = gz, tar' = tar, \A b \in Large \ {Block} : file'[b] = file[b],
         TypeOK', Resting', oneDevice' = oneDevice, crashes' >= crashes,
         hurt \subseteq hurt', FileEnds,
         Calm' => /\ hurt' = {}
                  /\ file'[Block] = Absent \/ (Intact(file'[Block]) /\ file'[Block] # {})
  PROVE  IInv'
<1>1. TypeOK /\ SeenServes /\ Snapshot /\ Deleting /\ Twins
  BY DEF IInv
<1>2. /\ Peer \in Nodes /\ Key \in MetaKeys /\ Refs = {<<Peer, Block, Key>>}
      /\ step \notin TarSteps /\ Block \notin Small
      /\ job.file[Block] \in BlockFile
  BY <1>1, JobShape, RefsType DEF TarSteps, FileSteps
<1>3. SeenTar = job.tar /\ SeenFile = job.file /\ SeenFile' = file'
  BY DEF SeenTar, SeenFile
<1>4. TarNext = job.tar /\ SeenTar' = TarNext
  <2>1. \A n \in Nodes : TarOf(n)' = TarOf(n)
    BY DEF TarOf
  <2>2. SeenTar' = TarNext
    BY DEF SeenTar, TarNext
  <2>3. job.tar \in [Nodes -> SUBSET Names]
    BY <1>1, JobShape
  <2>4. QED BY <1>2, <2>1, <2>2, <2>3, TarsSame DEF TarNext
<1>5. ASSUME NEW o \in owed', o[2] \in Small, o[1] \notin hurt'
      PROVE  InTar(TarNext[o[1]], o)
  <2>1. o \in owed
    BY <1>2, <1>5 DEF FileEnds
  <2>2. QED BY <1>1, <1>3, <1>4, <1>5, <2>1 DEF SeenServes
<1>6. ASSUME NEW o \in owed', o[2] \notin Small
      PROVE  \/ Intact(file'[o[2]]) /\ <<o[1], o[3]>> \in file'[o[2]]
             \/ file'[o[2]] = Torn /\ o[2] \in hurt'
  <2>1. /\ o = <<o[1], o[2], o[3]>> /\ o[1] \in Nodes /\ o[2] \in Large /\ o[3] \in MetaKeys
        /\ o \in owed => \/ Intact(job.file[o[2]]) /\ <<o[1], o[3]>> \in job.file[o[2]]
                         \/ job.file[o[2]] = Torn /\ o[2] \in hurt
    <3>1. owed' \subseteq Nodes \X (Small \cup Large) \X MetaKeys
      BY DEF TypeOK
    <3>2. o = <<o[1], o[2], o[3]>> /\ o[1] \in Nodes /\ o[2] \in Large /\ o[3] \in MetaKeys
      BY <1>6, <3>1
    <3>3. o \in owed => \/ Intact(job.file[o[2]]) /\ <<o[1], o[3]>> \in job.file[o[2]]
                        \/ job.file[o[2]] = Torn /\ o[2] \in hurt
      BY <1>1, <1>3, <1>6 DEF SeenServes
    <3>4. QED BY <3>2, <3>3
  <2>2. CASE o[2] # Block
    <3>1. o \in owed
      BY <1>2, <1>6, <2>2 DEF FileEnds
    <3>2. file'[o[2]] = job.file[o[2]]
      BY <1>1, <2>1, <2>2 DEF Snapshot
    <3>3. QED BY <2>1, <3>1, <3>2
  <2>3. CASE o[2] = Block /\ o \in owed
    <3>1. job.file[Block] # Absent
      BY <2>1, <2>3 DEF Intact
    <3>2. ASSUME Intact(job.file[Block])
          PROVE  /\ <<o[1], o[3]>> \in job.file[Block]
                 /\ job.file[Block] \in SUBSET (Nodes \X MetaKeys)
                 /\ Accounted(job.file[Block]) \in SUBSET (Nodes \X MetaKeys)
                 /\ Intact(Accounted(job.file[Block]))
                 /\ <<o[1], o[3]>> \in Accounted(job.file[Block])
      <4>1. <<o[1], o[3]>> \in job.file[Block] /\ job.file[Block] \in SUBSET (Nodes \X MetaKeys)
        BY <1>2, <2>1, <2>3, <3>2, FileTypes DEF Intact
      <4>2. Op = "delete" => <<o[1], o[3]>> # <<Peer, Key>>
        BY <1>1, <1>2, <2>1, <2>3 DEF Deleting
      <4>3. QED BY <1>1, <4>1, <4>2, AccountedType, SetsAreWhole
    <3>3. QED BY <2>1, <2>3, <3>1, <3>2 DEF FileEnds
  <2>4. CASE o[2] = Block /\ o \notin owed
    <3>1. o = <<Peer, Block, Key>> /\ Op # "delete"
      BY <1>2, <1>6, <2>4 DEF FileEnds
    <3>2. CASE Intact(job.file[Block]) /\ file'[Block] = Accounted(job.file[Block])
      <4>1. job.file[Block] \in SUBSET (Nodes \X MetaKeys)
        BY <1>2, <3>2, FileTypes
      <4>2. QED BY <1>1, <2>4, <3>1, <3>2, <4>1, AccountedType, SetsAreWhole
    <3>3. CASE file'[Block] = {<<Peer, Key>>}
      <4>1. Intact(file'[Block])
        BY <1>2, <3>3, SetsAreWhole
      <4>2. QED BY <2>4, <3>1, <3>3, <4>1
    <3>4. QED BY <1>6, <2>4, <3>2, <3>3 DEF FileEnds
  <2>5. QED BY <2>2, <2>3, <2>4
<1>7. SeenServes'
  BY <1>3, <1>4, <1>5, <1>6 DEF SeenServes
<1>8. Twins'
  BY <1>1 DEF Twins, Whole
<1>9. ASSUME Calm'
      PROVE  /\ hurt' = {}
             /\ \A n \in Nodes : tar'[n] = Absent /\ gz'[n] # Torn
             /\ \A b \in Large : \/ file'[b] = Absent
                                 \/ Intact(file'[b]) /\ file'[b] # {}
  <2>1. Calm
    BY <1>1, <1>9 DEF Calm, TypeOK
  <2>2. \A b \in Large \ {Block} : \/ file[b] = Absent
                                   \/ Intact(file[b]) /\ file[b] # {}
    BY <2>1 DEF IInv, CalmFiles
  <2>3. QED BY <1>2, <1>9, <2>1, <2>2, TarsSame
<1>10. QED BY <1>7, <1>8, <1>9, RestIInv

LEMMA FileGoOnIInv ==
  ASSUME IInv, ~Resting, step \in FileSteps \cup {"look"}, step' \in FileSteps,
         Op # "tar", Block \in Large, job' = job, owed' = owed, gz' = gz, tar' = tar,
         \A b \in Large \ {Block} : file'[b] = file[b],
         step' \in {"convert", "truncate", "remove"} \/ (file' = file /\ step = "look"),
         TypeOK', ~Resting', oneDevice' = oneDevice, crashes' = crashes, hurt' = hurt,
         StepOps', FileContent'
  PROVE  IInv'
<1>1. TypeOK /\ SeenServes /\ Snapshot /\ Deleting /\ Twins /\ CalmFiles
  BY DEF IInv
<1>2. Peer' = Peer /\ Op' = Op /\ Refs' = Refs /\ Old' = Old /\ Block' = Block
  BY JobSame
<1>3. step \notin TarSteps /\ step' \notin TarSteps /\ Peer \in Nodes
  BY <1>1, JobShape DEF TarSteps, FileSteps
<1>4. SeenServes'
  BY <1>1 DEF SeenServes, SeenTar, SeenFile
<1>5. Deleting'
  BY <1>1, <1>2 DEF Deleting, InTar
<1>6. Twins'
  BY <1>1 DEF Twins, Whole
<1>7. \A b \in Large \ {Block} :
        file[b] = job.file[b] /\ (Calm => file[b] = Absent \/ (Intact(file[b]) /\ file[b] # {}))
  BY <1>1 DEF Snapshot, CalmFiles
<1>8. step = "look" =>
        /\ file[Block] = job.file[Block]
        /\ Calm => file[Block] = Absent \/ (Intact(file[Block]) /\ file[Block] # {})
  BY FilesSame
<1>9. \A n \in Nodes : TarOf(n)' = job.tar[n]
  <2>1. \A n \in Nodes : TarOf(n)' = TarOf(n)
    BY DEF TarOf
  <2>2. QED BY <1>3, <2>1, TarsSame
<1>10. Snapshot'
  BY <1>2, <1>7, <1>8, <1>9 DEF Snapshot
<1>11. TarShape' /\ TarContent'
  BY <1>3 DEF TarShape, TarContent, TarSteps
<1>12. CalmFiles'
  <2>1. Calm' <=> Calm
    BY DEF Calm
  <2>2. Calm => hurt = {} /\ \A n \in Nodes : tar[n] = Absent /\ gz[n] # Torn
    BY <1>1, <1>3, TarsSame DEF CalmFiles
  <2>3. step' \notin {"appendTar", "closeTar", "placeTar", "gunzip"}
    BY DEF FileSteps
  <2>4. ASSUME Calm, NEW b \in Large
        PROVE  \/ file'[b] = Absent
               \/ Intact(file'[b]) /\ file'[b] # {}
               \/ step' \in {"convert", "truncate", "remove"} /\ b = Block
    BY <1>7, <1>8, <2>4
  <2>5. SUFFICES ASSUME Calm'
                 PROVE  /\ hurt' = {}
                        /\ \A n \in Nodes : tar'[n] = Absent /\ gz'[n] # Torn
                        /\ \A b \in Large :
                             \/ file'[b] = Absent
                             \/ Intact(file'[b]) /\ file'[b] # {}
                             \/ step' \in {"convert", "truncate", "remove"} /\ b = Block'
                        /\ \A b \in Large : job'.file[b] # {}
                        /\ step' \notin {"appendTar", "closeTar", "placeTar", "gunzip"}
    BY DEF CalmFiles, Intact
  <2>6. Calm => \A b \in Large : job'.file[b] # {}
    BY DEF IInv, CalmFiles
  <2>7. QED BY <1>2, <2>1, <2>2, <2>3, <2>4, <2>5, <2>6
<1>13. QED BY <1>4, <1>5, <1>6, <1>10, <1>11, <1>12 DEF IInv

\* A torn tarball is removed: what can be read stays as it was.
LEMMA SweepIInv ==
  ASSUME IInv, ~Resting, Sweep, UNCHANGED <<oneDevice, crashes>>
  PROVE  IInv'
<1>1. /\ TypeOK /\ SeenServes /\ Twins /\ Deleting /\ CalmFiles /\ StepOps
      /\ step = "look" /\ step' = "look" /\ job' = job /\ owed' = owed /\ doubt' = doubt
      /\ hurt' = hurt /\ file' = file /\ left' = left /\ Op = "direct"
  BY DEF Sweep, GoOn, IInv
<1>2. /\ step \notin TarSteps \cup FileSteps /\ Peer \in Nodes /\ left = {}
      /\ TarOf(Peer) = Old /\ file = job.file
      /\ Peer \notin hurt /\ Whole(gz[Peer]) /\ Whole(tar[Peer]) => gz[Peer] = tar[Peer]
      /\ Calm => hurt = {} /\ tar[Peer] = Absent /\ gz[Peer] # Torn
  BY <1>1, Looking DEF TarSteps, FileSteps
<1>3. /\ gz' \in [Nodes -> TarFile] /\ tar' \in [Nodes -> TarFile] /\ OnlyPeer
      /\ TarNext[Peer] = Old
      /\ Whole(gz'[Peer]) => gz'[Peer] = gz[Peer]
      /\ Whole(tar'[Peer]) => tar'[Peer] = tar[Peer]
      /\ gz[Peer] # Torn => gz'[Peer] # Torn
      /\ tar[Peer] = Absent => tar'[Peer] = Absent
  <2>1. TornGoes
    BY DEF Sweep, TornGoes
  <2>2. QED BY <1>1, <1>2, <2>1, TornSame
<1>4. /\ Peer' = Peer /\ Op' = Op /\ Refs' = Refs /\ Old' = Old /\ Block' = Block
      /\ ~Resting'
  BY <1>1, JobSame DEF Resting
<1>5. TypeOK'
  BY <1>1, <1>2, <1>3, <1>4 DEF TypeOK, Resting
<1>6. SeenServes' /\ Deleting'
  BY <1>1, <1>4 DEF SeenServes, SeenTar, SeenFile, Deleting, InTar
<1>7. Twins'
  <2>1. ASSUME NEW n \in Nodes \ hurt', Whole(gz'[n]), Whole(tar'[n])
        PROVE  gz'[n] = tar'[n]
    BY <1>1, <1>2, <1>3, <2>1, OthersSame
  <2>2. QED BY <2>1 DEF Twins, Whole
<1>8. Snapshot'
  <2>1. \A n \in Nodes : TarNext[n] = job.tar[n]
    BY <1>1, <1>2, <1>3, OthersSame DEF Old
  <2>2. \A n \in Nodes : TarOf(n)' = job'.tar[n]
    BY <1>1, <2>1 DEF TarNext
  <2>3. QED BY <1>1, <1>2, <2>2 DEF Snapshot
<1>9. StepOps' /\ TarShape' /\ TarContent' /\ FileContent'
  BY <1>1, <1>4 DEF StepOps, TarShape, TarContent, FileContent, TarSteps, FileSteps
<1>10. CalmFiles'
  <2>1. SUFFICES ASSUME Calm'
                 PROVE  /\ hurt' = {}
                        /\ \A n \in Nodes : tar'[n] = Absent /\ gz'[n] # Torn
                        /\ \A b \in Large : file'[b] = Absent
                                            \/ (Intact(file'[b]) /\ file'[b] # {})
                        /\ \A b \in Large : job'.file[b] # {}
    BY <1>1 DEF CalmFiles, Intact
  <2>2. Calm
    BY <2>1 DEF Calm
  <2>3. /\ hurt = {} /\ \A b \in Large : job.file[b] # {}
        /\ \A b \in Large : file[b] = Absent \/ (Intact(file[b]) /\ file[b] # {})
    BY <1>1, <2>2 DEF CalmFiles
  <2>4. QED BY <1>1, <1>2, <1>3, <2>2, <2>3, OthersSame
<1>11. QED BY <1>5, <1>6, <1>7, <1>8, <1>9, <1>10 DEF IInv

\* A block that is new is received.
LEMMA ReceiveIInv ==
  ASSUME IInv, ~Resting, Receive, UNCHANGED <<oneDevice, crashes>>
  PROVE  IInv'
<1>1. TypeOK
  BY DEF IInv
<1>2. /\ step = "look" /\ Op = "direct" /\ Block \in Large /\ file[Block] = Absent
      /\ step' = "convert" /\ step' \in FileSteps /\ step' \notin TarSteps
      /\ gz' = gz /\ tar' = tar /\ left' = left /\ hurt' = hurt
      /\ job' = job /\ owed' = owed /\ doubt' = doubt
      /\ file' = [file EXCEPT ![Block] = Raw]
  BY <1>1, JobShape DEF Receive, GoOn, FileSteps, TarSteps
<1>3. /\ file' \in [Large -> BlockFile] /\ file'[Block] = Raw
      /\ \A b \in Large \ {Block} : file'[b] = file[b]
  BY <1>1, <1>2 DEF TypeOK, BlockFile
<1>4. TypeOK' /\ ~Resting'
  BY <1>1, <1>2, <1>3, Looking, TypeGoOn DEF TypeOK
<1>5. StepOps' /\ FileContent'
  BY <1>2, <1>3, JobSame, Looking DEF StepOps, FileContent, FileSteps, TarSteps
<1>6. QED BY <1>2, <1>3, <1>4, <1>5, FileGoOnIInv

\* It becomes a BlockFile.
LEMMA ConvertIInv ==
  ASSUME IInv, ~Resting, Convert, UNCHANGED <<oneDevice, crashes>>
  PROVE  IInv'
<1>1. TypeOK /\ StepOps /\ FileContent /\ CalmFiles
  BY DEF IInv
<1>2. /\ step = "convert" /\ step \in FileSteps /\ gz' = gz /\ tar' = tar
      /\ Op = "direct" /\ Block \in Large /\ job.file[Block] = Absent
      /\ Peer \in Nodes /\ Key \in MetaKeys
  BY <1>1, JobShape DEF Convert, StepOps, FileContent, FileSteps
<1>3. crashes' >= crashes /\ (Calm' => Calm)
  BY <1>1 DEF TypeOK, Calm
<1>4. CASE oneDevice
  <2>1. Done /\ owed' = owed \cup Refs /\ hurt' = hurt
    BY <1>2, <1>4 DEF Convert, Done
  <2>2. {<<Peer, Key>>} \in SUBSET (Nodes \X MetaKeys) /\ Intact({<<Peer, Key>>})
    BY <1>2, SetsAreWhole
  <2>3. /\ file' \in [Large -> BlockFile] /\ file'[Block] = {<<Peer, Key>>}
        /\ \A b \in Large \ {Block} : file'[b] = file[b]
    BY <1>1, <1>2, <1>4, <2>2 DEF Convert, TypeOK, BlockFile
  <2>4. TypeOK' /\ Resting'
    BY <1>1, <1>2, <2>1, <2>3, TypeEnd DEF TypeOK
  <2>5. FileEnds
    BY <1>2, <2>1, <2>3 DEF FileEnds
  <2>6. QED BY <1>1, <1>2, <1>3, <2>1, <2>2, <2>3, <2>4, <2>5, FileEndIInv DEF CalmFiles
<1>5. CASE ~oneDevice
  <2>1. Failed({}) /\ owed' = owed /\ hurt' = hurt /\ file' = file
    BY <1>5 DEF Convert, Failed
  <2>2. TypeOK' /\ Resting'
    BY <1>1, <1>2, <2>1, TypeEnd DEF TypeOK
  <2>3. FileEnds /\ ~Calm'
    BY <1>2, <1>5, <2>1 DEF FileEnds, Calm
  <2>4. QED BY <1>2, <1>3, <2>1, <2>2, <2>3, FileEndIInv
<1>6. QED BY <1>4, <1>5

\* A BlockFile is opened.
LEMMA OpenBlockIInv ==
  ASSUME IInv, ~Resting, OpenBlock, UNCHANGED <<oneDevice, crashes>>
  PROVE  IInv'
<1>1. TypeOK /\ CalmFiles
  BY DEF IInv
<1>2. /\ step = "look" /\ Block \in Large /\ gz' = gz /\ tar' = tar /\ file' = file
      /\ file = job.file /\ file[Block] \in BlockFile /\ file[Block] # Absent
  BY <1>1, Looking DEF OpenBlock, TypeOK
<1>3. Calm => hurt = {} /\ Intact(file[Block]) /\ file[Block] # {}
  BY <1>1, <1>2, FilesSame DEF CalmFiles
<1>4. crashes' >= crashes /\ (Calm' => Calm)
  BY <1>1 DEF TypeOK, Calm
<1>5. Op # "tar"
  BY <1>1, <1>2, TarIsSmall
<1>6. file[Block] \in SUBSET (Nodes \X MetaKeys) <=> Intact(file[Block])
  BY <1>2, FileTypes
<1>7. CASE ~Intact(file[Block]) /\ Failed({})
  <2>1. owed' = owed /\ hurt' = hurt
    BY <1>7 DEF Failed
  <2>2. TypeOK' /\ Resting'
    BY <1>1, <1>2, <1>7, TypeEnd DEF TypeOK
  <2>3. FileEnds
    BY <1>2, <2>1 DEF FileEnds
  <2>4. QED BY <1>2, <1>3, <1>4, <1>5, <1>7, <2>1, <2>2, <2>3, FileEndIInv
<1>8. CASE Intact(file[Block]) /\ Accounted(file[Block]) = file[Block] /\ Done
  <2>1. hurt' = hurt /\ owed' = IF Op = "delete" THEN owed ELSE owed \cup Refs
    BY <1>8 DEF Done
  <2>2. TypeOK' /\ Resting'
    BY <1>1, <1>2, <1>8, TypeEnd DEF TypeOK
  <2>3. FileEnds
    BY <1>2, <1>8, <2>1 DEF FileEnds
  <2>4. QED BY <1>2, <1>3, <1>4, <1>5, <1>8, <2>1, <2>2, <2>3, FileEndIInv
<1>9. CASE Intact(file[Block]) /\ left' = Accounted(file[Block]) /\ GoOn("account")
  <2>1. /\ step' = "account" /\ step' \in FileSteps /\ step' \notin TarSteps
        /\ job' = job /\ owed' = owed /\ doubt' = doubt /\ hurt' = hurt
    BY <1>9 DEF GoOn, FileSteps, TarSteps
  <2>2. left' \subseteq Nodes \X MetaKeys
    BY <1>1, <1>5, <1>6, <1>9, AccountedType
  <2>3. TypeOK' /\ ~Resting'
    BY <1>1, <1>2, <2>1, <2>2, TypeGoOn DEF TypeOK
  <2>4. StepOps' /\ FileContent'
    BY <1>2, <1>5, <1>9, <2>1, JobSame DEF StepOps, FileContent, Intact
  <2>5. QED BY <1>2, <1>5, <2>1, <2>3, <2>4, FileGoOnIInv
<1>10. QED BY <1>7, <1>8, <1>9 DEF OpenBlock

\* Its accounting is written over the old one, and then the file is cut.
LEMMA WriteAccountingIInv ==
  ASSUME IInv, ~Resting, WriteAccounting, UNCHANGED <<oneDevice, crashes>>
  PROVE  IInv'
<1>1. TypeOK /\ StepOps /\ FileContent
  BY DEF IInv
<1>2. /\ step = "account" /\ step \in FileSteps /\ Op # "tar" /\ Block \in Large
      /\ step' = "truncate" /\ step' \in FileSteps /\ step' \notin TarSteps
      /\ gz' = gz /\ tar' = tar /\ left' = left /\ hurt' = hurt
      /\ job' = job /\ owed' = owed /\ doubt' = doubt
      /\ file' = [file EXCEPT ![Block] = Torn]
      /\ step \notin TarSteps
  BY <1>1 DEF WriteAccounting, GoOn, StepOps, FileSteps, TarSteps
<1>3. /\ file' \in [Large -> BlockFile] /\ file'[Block] = Torn
      /\ \A b \in Large \ {Block} : file'[b] = file[b]
  BY <1>1, <1>2 DEF TypeOK, BlockFile
<1>4. TypeOK' /\ ~Resting'
  BY <1>1, <1>2, <1>3, TypeGoOn DEF TypeOK
<1>5. StepOps' /\ FileContent'
  BY <1>1, <1>2, <1>3, JobSame DEF StepOps, FileContent, Intact
<1>6. QED BY <1>2, <1>3, <1>4, <1>5, FileGoOnIInv

\* The accounting is complete.
LEMMA CloseBlockIInv ==
  ASSUME IInv, ~Resting, CloseBlock, UNCHANGED <<oneDevice, crashes>>
  PROVE  IInv'
<1>1. TypeOK /\ StepOps /\ FileContent /\ CalmFiles
  BY DEF IInv
<1>2. /\ step = "truncate" /\ step \in FileSteps /\ Op # "tar" /\ Block \in Large
      /\ gz' = gz /\ tar' = tar /\ file' = [file EXCEPT ![Block] = left]
      /\ Intact(job.file[Block]) /\ left = Accounted(job.file[Block])
      /\ step \notin TarSteps
  BY <1>1 DEF CloseBlock, StepOps, FileContent, FileSteps, TarSteps
<1>3. left \in SUBSET (Nodes \X MetaKeys) /\ Intact(left)
  BY <1>1, <1>2, SetsAreWhole DEF TypeOK
<1>4. /\ file' \in [Large -> BlockFile] /\ file'[Block] = left
      /\ \A b \in Large \ {Block} : file'[b] = file[b]
  BY <1>1, <1>2, <1>3 DEF TypeOK, BlockFile
<1>5. CASE Op = "delete" /\ left = {}
  <2>1. /\ step' = "remove" /\ step' \in FileSteps /\ step' \notin TarSteps
        /\ left' = left /\ hurt' = hurt /\ job' = job /\ owed' = owed /\ doubt' = doubt
    BY <1>5 DEF CloseBlock, GoOn, FileSteps, TarSteps
  <2>2. TypeOK' /\ ~Resting'
    BY <1>1, <1>2, <1>3, <1>4, <2>1, TypeGoOn DEF TypeOK
  <2>3. StepOps' /\ FileContent'
    BY <1>1, <1>2, <1>4, <1>5, <2>1, JobSame DEF StepOps, FileContent, Intact
  <2>4. QED BY <1>2, <1>4, <2>1, <2>2, <2>3, FileGoOnIInv
<1>6. CASE ~(Op = "delete" /\ left = {})
  <2>1. Done /\ hurt' = hurt /\ owed' = IF Op = "delete" THEN owed ELSE owed \cup Refs
    BY <1>6 DEF CloseBlock, Done
  <2>2. TypeOK' /\ Resting'
    BY <1>1, <1>2, <1>4, <2>1, TypeEnd DEF TypeOK
  <2>3. FileEnds
    BY <1>2, <1>4, <2>1 DEF FileEnds
  <2>4. left # {}
    <3>1. job.file[Block] \in SUBSET (Nodes \X MetaKeys)
      BY <1>1, <1>2, JobShape, FileTypes
    <3>2. Op # "delete" => left = job.file[Block] \cup {<<Peer, Key>>}
      BY <1>1, <1>2, <3>1, AccountedType
    <3>3. QED BY <1>6, <3>2
  <2>5. crashes' >= crashes /\ (Calm' => hurt' = {})
    BY <1>1, <2>1 DEF TypeOK, Calm, CalmFiles
  <2>6. QED BY <1>2, <1>3, <1>4, <2>1, <2>2, <2>3, <2>4, <2>5, FileEndIInv
<1>7. QED BY <1>5, <1>6

\* A block that is kept for nobody goes.
LEMMA RemoveBlockIInv ==
  ASSUME IInv, ~Resting, RemoveBlock, UNCHANGED <<oneDevice, crashes>>
  PROVE  IInv'
<1>1. TypeOK /\ StepOps /\ FileContent /\ CalmFiles
  BY DEF IInv
<1>2. /\ step = "remove" /\ step \in FileSteps /\ Op = "delete" /\ Block \in Large
      /\ gz' = gz /\ tar' = tar /\ Done /\ owed' = owed /\ hurt' = hurt
      /\ Intact(job.file[Block]) /\ Accounted(job.file[Block]) = {}
      /\ file' = [file EXCEPT ![Block] = Absent]
  BY <1>1 DEF RemoveBlock, StepOps, FileContent, FileSteps, Done
<1>3. /\ file' \in [Large -> BlockFile] /\ file'[Block] = Absent
      /\ \A b \in Large \ {Block} : file'[b] = file[b]
  BY <1>1, <1>2 DEF TypeOK, BlockFile
<1>4. TypeOK' /\ Resting'
  BY <1>1, <1>2, <1>3, TypeEnd DEF TypeOK
<1>5. FileEnds
  BY <1>2 DEF FileEnds
<1>6. crashes' >= crashes /\ (Calm' => hurt' = {})
  BY <1>1, <1>2 DEF TypeOK, Calm, CalmFiles
<1>7. QED BY <1>2, <1>3, <1>4, <1>5, <1>6, FileEndIInv

-----------------------------------------------------------------------------
(* Every step.                                                             *)

LEMMA HandleIInv ==
  ASSUME IInv, ~Resting, Handle
  PROVE  IInv'
<1>1. UNCHANGED <<oneDevice, crashes>>
  BY DEF Handle
<1>2. CASE StoreTar \/ VerifyTar \/ DeleteTar
  BY <1>1, <1>2, StoreTarIInv, VerifyTarIInv, DeleteTarIInv
<1>3. CASE OpenTar \/ Expand \/ RemoveGz \/ Append \/ Close
  BY <1>1, <1>3, OpenTarIInv, ExpandIInv, RemoveGzIInv, AppendIInv, CloseIInv
<1>4. CASE OpenGz \/ Compress \/ RemoveTar \/ DropTar \/ PlaceGz \/ PlaceTar
  BY <1>1, <1>4, OpenGzIInv, CompressIInv, RemoveTarIInv, DropTarIInv, PlaceGzIInv, PlaceTarIInv
<1>5. CASE Sweep \/ Receive \/ OpenBlock \/ Convert \/ WriteAccounting \/ CloseBlock
             \/ RemoveBlock
  BY <1>1, <1>5, SweepIInv, ReceiveIInv, OpenBlockIInv, ConvertIInv, WriteAccountingIInv,
     CloseBlockIInv, RemoveBlockIInv
<1>6. QED BY <1>2, <1>3, <1>4, <1>5 DEF Handle

\* A crash loses what Exposed says, and nothing else.
LEMMA CrashIInv ==
  ASSUME IInv, ~Resting, Crash
  PROVE  IInv'
<1>1. TypeOK /\ StepOps /\ TarShape /\ TarContent /\ FileContent /\ Twins /\ Peer \in Nodes
  BY JobShape DEF IInv
<1>2. /\ crashes' = crashes + 1 /\ crashes \in Nat /\ crashes' \in 0..MaxCrashes
      /\ gz' = gz /\ tar' = tar /\ file' = file /\ oneDevice' = oneDevice
      /\ Failed(Exposed) /\ owed' = owed /\ hurt' = hurt \cup Exposed
  BY <1>1 DEF Crash, Failed, TypeOK
<1>3. step \in TarSteps \/ (step \notin TarSteps /\ step \in FileSteps \cup {"look"})
  BY <1>1 DEF TypeOK, Resting
<1>4. Exposed \subseteq Nodes \cup Large
  <2>1. step = "truncate" => Block \in Large
    BY <1>1 DEF StepOps, FileSteps
  <2>2. QED BY <1>1, <2>1 DEF Exposed
<1>5. TypeOK' /\ Resting'
  BY <1>1, <1>2, <1>4, TypeEnd DEF TypeOK
<1>6. crashes' >= crashes /\ ~Calm'
  BY <1>2 DEF Calm
<1>7. CASE step \in TarSteps \cup {"look"}
  <2>1. OnlyPeer /\ TarNext[Peer] = TarOf(Peer)
    BY <1>1, <1>2 DEF OnlyPeer, TarNext, TarOf
  <2>2. ASSUME Peer \notin hurt' PROVE Old \subseteq TarOf(Peer)
    <3>1. Peer \notin hurt /\ step \notin {"close", "closeTar", "place"}
      BY <1>2, <2>2 DEF Exposed
    <3>2. CASE step = "look"
      BY <3>2, Looking
    <3>3. CASE step \in {"gunzip", "expand", "removeGz", "append", "appendTar", "removeTar",
                        "placeTar"}
      BY <1>1, <3>1, <3>3 DEF TarContent, TarSteps
    <3>4. CASE step \in {"gzip", "compress", "gzipped"}
      <4>1. tar[Peer] = New
        BY <1>1, <3>1, <3>4 DEF TarContent, TarSteps
      <4>2. TarOf(Peer) = tar[Peer]
        BY <1>1, <3>4 DEF TarShape, TarOf, Whole
      <4>3. QED BY <4>1, <4>2 DEF New
    <3>5. QED BY <1>7, <3>1, <3>2, <3>3, <3>4 DEF TarSteps
  <2>3. TarEnds
    BY <1>2, <2>1, <2>2 DEF TarEnds
  <2>4. Peer \notin hurt' /\ Whole(gz'[Peer]) /\ Whole(tar'[Peer]) => gz'[Peer] = tar'[Peer]
    BY <1>1, <1>2 DEF Twins
  <2>5. QED BY <1>2, <1>5, <1>6, <1>7, <2>1, <2>3, <2>4, TarEndIInv
<1>8. CASE step \in FileSteps
  <2>1. Op # "tar" /\ Block \in Large
    BY <1>1, <1>8 DEF StepOps
  <2>2. FileEnds
    <3>1. CASE step = "convert"
      BY <1>1, <1>2, <3>1 DEF FileEnds, FileContent
    <3>2. CASE step = "account"
      BY <1>2, <2>1, <3>2, FilesSame DEF FileEnds
    <3>3. CASE step = "truncate"
      <4>1. Block \in hurt'
        BY <1>2, <3>3 DEF Exposed
      <4>2. QED BY <1>1, <1>2, <3>3, <4>1 DEF FileEnds, FileContent
    <3>4. CASE step = "remove"
      BY <1>1, <1>2, <3>4 DEF FileEnds, FileContent, StepOps
    <3>5. QED BY <1>8, <3>1, <3>2, <3>3, <3>4 DEF FileSteps
  <2>3. QED BY <1>2, <1>5, <1>6, <1>8, <2>1, <2>2, FileEndIInv
<1>9. QED BY <1>3, <1>7, <1>8

\* A request comes.
LEMMA BeginIInv ==
  ASSUME IInv, NEW n \in Nodes, NEW q \in Store!Requests, Begin(n, q)
  PROVE  IInv'
<1>1. TypeOK /\ SeenServes /\ Twins /\ CalmFiles
  BY DEF IInv
<1>2. /\ step = "rest" /\ step' = "look" /\ Resting /\ ~Resting'
      /\ job' = [node |-> n, q |-> q, tar |-> SeenTar, file |-> file]
      /\ gz' = gz /\ tar' = tar /\ file' = file /\ left' = left /\ doubt' = doubt
      /\ oneDevice' = oneDevice /\ crashes' = crashes /\ hurt' = hurt
      /\ q.op = "delete" => Store!Of(n, q.refs) \subseteq owed
      /\ owed' = IF q.op = "delete" THEN owed \ Store!Of(n, q.refs) ELSE owed
  BY DEF Begin, Resting
<1>3. /\ SeenTar = [k \in Nodes |-> TarOf(k)] /\ SeenFile = file
      /\ SeenTar' = SeenTar /\ SeenFile' = file
  BY <1>2 DEF SeenTar, SeenFile
<1>4. SeenTar \in [Nodes -> SUBSET Names]
  <2>1. ASSUME NEW k \in Nodes PROVE TarOf(k) \in SUBSET Names
    BY <1>1, FileTypes DEF TypeOK, TarOf
  <2>2. QED BY <1>3, <2>1
<1>5. TypeOK'
  <2>1. job' \in [node : Nodes, q : Store!Requests, tar : [Nodes -> SUBSET Names],
                  file : [Large -> BlockFile]]
    BY <1>1, <1>2, <1>4 DEF TypeOK
  <2>2. left' = {}
    BY <1>1, <1>2 DEF TypeOK, TarSteps, FileSteps
  <2>3. QED BY <1>1, <1>2, <2>1, <2>2 DEF TypeOK
<1>6. SeenServes'
  BY <1>1, <1>2, <1>3 DEF SeenServes
<1>7. Twins'
  BY <1>1, <1>2 DEF Twins, Whole
<1>8. Snapshot'
  <2>1. \A k \in Nodes : TarOf(k)' = TarOf(k)
    BY <1>2 DEF TarOf
  <2>2. QED BY <1>2, <1>3, <2>1 DEF Snapshot
<1>9. Deleting'
  <2>1. /\ Op' = q.op /\ Peer' = n /\ Refs' = Store!Of(n, q.refs)
        /\ Old' = SeenTar[n]
    BY <1>2 DEF Op, Peer, Refs, Old
  <2>2. ASSUME q.op = "delete", NEW o \in Store!Of(n, q.refs)
        PROVE  IF o[2] \in Small THEN n \in hurt \/ InTar(SeenTar[n], o)
               ELSE file[o[2]] # Absent
    <3>1. o \in owed /\ o[1] = n
      BY <1>2, <2>2 DEF Store!Of
    <3>2. o[2] \in Small => n \in hurt \/ InTar(SeenTar[n], o)
      BY <1>1, <3>1 DEF SeenServes
    <3>3. o[2] \notin Small => file[o[2]] # Absent
      BY <1>1, <1>3, <3>1 DEF SeenServes, Intact
    <3>4. QED BY <3>2, <3>3
  <2>3. QED BY <1>2, <2>1, <2>2 DEF Deleting, InTar
<1>10. StepOps' /\ TarShape' /\ TarContent' /\ FileContent'
  BY <1>2 DEF StepOps, TarShape, TarContent, FileContent, TarSteps, FileSteps
<1>11. CalmFiles'
  <2>1. Calm' <=> Calm
    BY <1>2 DEF Calm
  <2>2. Calm => /\ hurt = {}
                /\ \A k \in Nodes : tar[k] = Absent /\ gz[k] # Torn
                /\ \A b \in Large : file[b] = Absent \/ (Intact(file[b]) /\ file[b] # {})
    BY <1>1, <1>2 DEF CalmFiles
  <2>3. QED BY <1>2, <2>1, <2>2 DEF CalmFiles, Intact
<1>12. QED BY <1>5, <1>6, <1>7, <1>8, <1>9, <1>10, <1>11 DEF IInv

LEMMA NextIInv == IInv /\ [Next]_vars => IInv'
<1> SUFFICES ASSUME IInv, [Next]_vars PROVE IInv'
  OBVIOUS
<1>1. CASE UNCHANGED vars
  <2>1. /\ gz' = gz /\ tar' = tar /\ file' = file /\ job' = job /\ step' = step
        /\ left' = left /\ owed' = owed /\ doubt' = doubt /\ oneDevice' = oneDevice
        /\ crashes' = crashes /\ hurt' = hurt
    BY <1>1 DEF vars
  <2>2. TypeOK' /\ Twins' /\ SeenServes' /\ Snapshot' /\ Deleting'
    BY <2>1 DEF IInv, TypeOK, Twins, SeenServes, Snapshot, Deleting, SeenTar, SeenFile,
                TarOf, Whole, Resting, Refs, Old, Op, Peer, Block, InTar, Intact
  <2>3. StepOps' /\ TarShape' /\ TarContent' /\ FileContent' /\ CalmFiles'
    BY <2>1, JobSame
       DEF IInv, StepOps, TarShape, TarContent, FileContent, CalmFiles, Calm, TarOf, Whole,
           Intact, Resting, Opened
  <2>4. QED BY <2>2, <2>3 DEF IInv
<1>2. CASE \E n \in Nodes : \E q \in Store!Requests : Begin(n, q)
  BY <1>2, BeginIInv
<1>3. CASE ~Resting /\ (Handle \/ Crash)
  BY <1>3, HandleIInv, CrashIInv
<1>4. QED BY <1>1, <1>2, <1>3 DEF Next

\* The invariant, for any number of peers, blocks, keys and crashes.
THEOREM Invariance == Spec => []IInv
<1>1. QED BY InitIInv, NextIInv, PTL DEF Spec

\* Tarballs have members, BlockFiles accountings, and a handler writes to each
\* what belongs there.
THEOREM TypeCorrect == Spec => []TypeOK
<1>1. IInv => TypeOK
  BY DEF IInv
<1>2. QED BY <1>1, Invariance, PTL

\* What is owed and not served between requests was lost in one of the ways
\* that are named: no crash at any other moment costs a peer anything.
THEOREM CrashesLoseOnlyExposed == Spec => []LostOnlyWhereExposed
<1>1. ASSUME IInv PROVE LostOnlyWhereExposed
  <2>1. SUFFICES ASSUME Resting, NEW o \in owed, o \notin Store!Served
                 PROVE  (IF o[2] \in Small THEN o[1] ELSE o[2]) \in hurt
    BY DEF LostOnlyWhereExposed
  <2>2. TypeOK /\ SeenServes
    BY <1>1 DEF IInv
  <2>3. /\ o = <<o[1], o[2], o[3]>> /\ o \in Nodes \X (Small \cup Large) \X MetaKeys
        /\ o[2] \in Small \cup Large
    BY <2>2 DEF TypeOK
  <2>4. CASE o[2] \in Small
    <3>1. SUFFICES ASSUME o[1] \notin hurt PROVE FALSE
      BY <2>4
    <3>2. InTar(SeenTar[o[1]], o)
      BY <2>2, <2>4, <3>1 DEF SeenServes
    <3>3. o[2] \notin Large
      BY <2>4
    <3>4. o \in Store!Served
      BY <2>3, <3>2, <3>3
         DEF Store!Served, Store!Retrieves, Store!RetrievesMeta, Store!Blocks, InTar
    <3>5. QED BY <2>1, <3>4
  <2>5. CASE o[2] \notin Small
    <3>1. SUFFICES ASSUME o[2] \notin hurt PROVE FALSE
      BY <2>5
    <3>2. Intact(SeenFile[o[2]]) /\ <<o[1], o[3]>> \in SeenFile[o[2]] /\ o[2] \in Large
      BY <2>2, <2>3, <2>5, <3>1 DEF SeenServes
    <3>3. SeenFile[o[2]] # Absent
      BY <3>2 DEF Intact
    <3>4. o \in Store!Served
      BY <2>3, <3>2, <3>3
         DEF Store!Served, Store!Retrieves, Store!RetrievesMeta, Store!Blocks
    <3>5. QED BY <2>1, <3>4
  <2>6. QED BY <2>4, <2>5
<1>2. QED BY <1>1, Invariance, PTL

-----------------------------------------------------------------------------
(* Without crashes: one step of BlockStore.                                *)

\* In the middle of a request nothing of what BlockStore speaks of changes.
LEMMA MidStutters ==
  ASSUME ~Resting, ~Resting', job' = job, owed' = owed, doubt' = doubt
  PROVE  UNCHANGED Store!vars
BY DEF Store!vars, SeenTar, SeenFile

\* A request is asked when it comes.
LEMMA BeginAsks ==
  ASSUME IInv, NEW n \in Nodes, NEW q \in Store!Requests, Begin(n, q)
  PROVE  Store!Next
<1>1. /\ Resting /\ ~Resting' /\ SeenTar' = SeenTar /\ SeenFile' = SeenFile
      /\ job'.node = n /\ job'.q = q /\ doubt' = doubt
      /\ q.op = "delete" => Store!Of(n, q.refs) \subseteq owed
      /\ owed' = IF q.op = "delete" THEN owed \ Store!Of(n, q.refs) ELSE owed
  BY DEF Begin, Resting, SeenTar, SeenFile
<1>2. Store!Ask(n, q)
  BY <1>1 DEF Store!Ask, Store!disk
<1>3. QED BY <1>2 DEF Store!Next

\* It is served when it ends.
LEMMA EndServes ==
  ASSUME IInv, ~Resting, Resting', Store!Handle(Peer, job.q),
         owed' = IF Store!Acknowledged(Peer, job.q) THEN owed \cup Refs ELSE owed,
         doubt' = IF Op = "verify" THEN doubt ELSE doubt \ Refs
  PROVE  Store!Next
<1>1. Peer \in Nodes /\ job.q \in Store!Requests
  BY JobShape DEF IInv
<1>2. \A n \in Nodes : n = Peer => Store!Serve(n)
  <2>1. SUFFICES ASSUME NEW n \in Nodes, n = Peer PROVE Store!Serve(n)
    OBVIOUS
  <2>2. job.q # NoRequest
    BY <1>1
  <2>3. QED BY <2>1, <2>2 DEF Store!Serve, Refs, Op, Peer
<1>3. QED BY <1>1, <1>2 DEF Store!Next

\* A request about one block is handled when its reference is.
LEMMA HandleOne ==
  ASSUME NEW r0, job.q.refs = {r0}
  PROVE  /\ Op = "direct" /\ (\A r \in job.q.refs : Store!StoreDirect(Peer, r[1], r[2]))
              => Store!Handle(Peer, job.q) /\ Store!Acknowledged(Peer, job.q)
         /\ Op = "verify" /\ (\A r \in job.q.refs : Store!Verify(Peer, r[1], r[2]))
              => /\ Store!Handle(Peer, job.q)
                 /\ (\A r \in job.q.refs : Store!Verifies(Peer, r[1]))
                      => Store!Acknowledged(Peer, job.q)
                 /\ (\A r \in job.q.refs : ~Store!Verifies(Peer, r[1]))
                      => ~Store!Acknowledged(Peer, job.q)
         /\ Op = "delete" /\ (\A r \in job.q.refs : Store!Delete(Peer, r[1], r[2]))
              => Store!Handle(Peer, job.q) /\ ~Store!Acknowledged(Peer, job.q)
<1>1. r0 \in job.q.refs
  OBVIOUS
<1>2. job.q.op = Op
  BY DEF Op
<1>3. QED BY <1>1, <1>2 DEF Store!Handle, Store!Acknowledged

\* What the end of a request does to owed and doubt.
LEMMA EndHistory ==
  ASSUME IInv, ~Resting
  PROVE  /\ Done => /\ Resting'
                    /\ owed' = IF Op = "delete" THEN owed ELSE owed \cup Refs
                    /\ doubt' = IF Op = "verify" THEN doubt ELSE doubt \ Refs
         /\ NotFound => /\ Resting' /\ owed' = owed
                        /\ doubt' = IF Op = "verify" THEN doubt ELSE doubt \ Refs
BY DEF Done, NotFound, Ended, Resting

\* Requests that end with another tarball, and those that end with none.
LEMMA TarServed ==
  ASSUME IInv, ~Resting, Resting', OnlyPeer, file' = job.file, Done,
         \/ Op = "tar" /\ TarNext[Peer] = New
         \/ /\ Op = "verify" /\ TarNext[Peer] = New /\ <<Block, Data>> \in Old
            /\ Block \in Small
         \/ /\ Op = "delete" /\ TarNext[Peer] = Stays(Old) /\ Block \in Small
  PROVE  Store!Next
<1>1. /\ Peer \in Nodes /\ job.q \in Store!Requests /\ job.tar \in [Nodes -> SUBSET Names]
      /\ Op # "tar" => job.q.refs = {<<Block, Key>>}
  BY JobShape DEF IInv
<1>2. SeenTar = job.tar /\ SeenTar' = TarNext /\ SeenFile' = SeenFile
  BY DEF SeenTar, SeenFile, TarNext
<1>3. TarNext = [job.tar EXCEPT ![Peer] = TarNext[Peer]]
  <2>1. \A n \in Nodes \ {Peer} : TarNext[n] = job.tar[n]
    BY DEF OnlyPeer, TarNext, TarOf, IInv, Snapshot
  <2>2. TarNext = [n \in Nodes |-> TarNext[n]]
    BY DEF TarNext
  <2>3. QED BY <1>1, <2>1, <2>2
<1>4. Stays(Old) = IF Old = {} THEN {} ELSE Store!DeleteMember(Old, Block, Key)
  BY StaysSubset DEF Stays
<1>5. CASE Op = "tar"
  <2>1. New = Old \cup job.q.refs \cup {<<r[1], Data>> : r \in job.q.refs}
    BY <1>5 DEF New, Added
  <2>2. Store!StoreTar(Peer, job.q.refs)
    BY <1>2, <1>3, <1>5, <2>1 DEF Store!StoreTar, Old
  <2>3. Store!Handle(Peer, job.q) /\ Store!Acknowledged(Peer, job.q)
    BY <1>5, <2>2 DEF Store!Handle, Store!Acknowledged, Op
  <2>4. QED BY <1>5, <2>3, EndHistory, EndServes
<1>6. CASE Op = "verify"
  <2>1. New = Old \cup {<<Block, Key>>}
    BY <1>1, <1>6 DEF New, Added
  <2>2. Block \notin {b \in Large : SeenFile[b] # Absent}
    BY <1>6
  <2>3. /\ \A r \in job.q.refs : Store!Verify(Peer, r[1], r[2])
        /\ \A r \in job.q.refs : Store!Verifies(Peer, r[1])
    BY <1>1, <1>2, <1>3, <1>6, <2>1, <2>2 DEF Store!Verify, Store!Verifies, Old
  <2>4. Store!Handle(Peer, job.q) /\ Store!Acknowledged(Peer, job.q)
    BY <1>1, <1>6, <2>3, HandleOne
  <2>5. QED BY <1>6, <2>4, EndHistory, EndServes
<1>7. CASE Op = "delete"
  <2>1. Block \notin {b \in Large : SeenFile[b] # Absent}
    BY <1>7
  <2>2. \A r \in job.q.refs : Store!Delete(Peer, r[1], r[2])
    BY <1>1, <1>2, <1>3, <1>4, <1>7, <2>1 DEF Store!Delete, Old
  <2>3. Store!Handle(Peer, job.q) /\ ~Store!Acknowledged(Peer, job.q)
    BY <1>1, <1>7, <2>2, HandleOne
  <2>4. QED BY <1>7, <2>3, EndHistory, EndServes
<1>8. QED BY <1>5, <1>6, <1>7

\* A block that is not there: nothing changes, and the peer is told.
LEMMA TarNotFound ==
  ASSUME IInv, ~Resting, Resting', gz' = gz, tar' = tar, file' = job.file,
         step = "look", InTarball, NotFound,
         \/ Op = "verify" /\ <<Block, Data>> \notin Old
         \/ Op = "delete" /\ Old = {}
  PROVE  Store!Next
<1>1. /\ Peer \in Nodes /\ job.q \in Store!Requests /\ job.tar \in [Nodes -> SUBSET Names]
      /\ job.q.refs = {<<Block, Key>>}
  BY JobShape DEF IInv
<1>2. SeenTar = job.tar /\ SeenTar' = TarNext /\ SeenFile = job.file /\ SeenFile' = SeenFile
  BY DEF SeenTar, SeenFile, TarNext
<1>3. TarNext = job.tar
  <2>1. step \notin TarSteps
    BY DEF TarSteps
  <2>2. \A n \in Nodes : TarNext[n] = job.tar[n]
    BY <2>1, TarsSame DEF TarNext, TarOf
  <2>3. TarNext = [n \in Nodes |-> TarNext[n]]
    BY DEF TarNext
  <2>4. QED BY <1>1, <2>2, <2>3
<1>4. Block \notin {b \in Large : SeenFile[b] # Absent}
  BY <1>2, Looking DEF InTarball
<1>5. CASE Op = "verify"
  <2>1. /\ \A r \in job.q.refs : Store!Verify(Peer, r[1], r[2])
        /\ \A r \in job.q.refs : ~Store!Verifies(Peer, r[1])
    BY <1>1, <1>2, <1>3, <1>4, <1>5 DEF Store!Verify, Store!Verifies, Store!disk, Old
  <2>2. Store!Handle(Peer, job.q) /\ ~Store!Acknowledged(Peer, job.q)
    BY <1>1, <1>5, <2>1, HandleOne
  <2>3. QED BY <1>5, <2>2, EndHistory, EndServes
<1>6. CASE Op = "delete"
  <2>1. job.tar = [job.tar EXCEPT ![Peer] = {}]
    BY <1>1, <1>6 DEF Old
  <2>2. ASSUME NEW r \in job.q.refs PROVE Store!Delete(Peer, r[1], r[2])
    <3>1. r[1] \notin {b \in Large : SeenFile[b] # Absent}
      BY <1>1, <1>4
    <3>2. SeenTar' = [SeenTar EXCEPT ![Peer] = {}] /\ SeenTar[Peer] = {}
      BY <1>2, <1>3, <1>6, <2>1 DEF Old
    <3>3. QED BY <1>2, <3>1, <3>2 DEF Store!Delete
  <2>3. Store!Handle(Peer, job.q) /\ ~Store!Acknowledged(Peer, job.q)
    BY <1>1, <1>6, <2>2, HandleOne
  <2>4. QED BY <1>6, <2>3, EndHistory, EndServes
<1>7. QED BY <1>5, <1>6

\* Requests about a large block.
LEMMA FileServed ==
  ASSUME IInv, ~Resting, Resting', gz' = gz, tar' = tar, step \notin TarSteps,
         file' \in [Large -> BlockFile], \A b \in Large \ {Block} : file'[b] = job.file[b],
         Op # "tar", Block \in Large, Done,
         \/ /\ Op = "direct" /\ job.file[Block] = Absent /\ file'[Block] = {<<Peer, Key>>}
         \/ /\ Intact(job.file[Block]) /\ job.file[Block] # {}
            /\ Accounted(job.file[Block]) # {} \/ Op # "delete"
            /\ file'[Block] = Accounted(job.file[Block])
         \/ /\ Intact(job.file[Block]) /\ job.file[Block] # {}
            /\ Accounted(job.file[Block]) = {} /\ Op = "delete"
            /\ file'[Block] = Absent
  PROVE  Store!Next
<1> DEFINE f == job.file[Block]
           disk(g) == {b \in Large : g[b] # Absent}
           acct(g) == [b \in Large |-> IF Intact(g[b]) THEN g[b] ELSE {}]
<1>1. /\ Peer \in Nodes /\ Key \in MetaKeys /\ job.q \in Store!Requests
      /\ job.tar \in [Nodes -> SUBSET Names] /\ job.file \in [Large -> BlockFile]
      /\ job.q.refs = {<<Block, Key>>} /\ TypeOK
  BY JobShape DEF IInv
<1>2. SeenTar = job.tar /\ SeenTar' = TarNext /\ SeenFile = job.file /\ SeenFile' = file'
  BY DEF SeenTar, SeenFile, TarNext
<1>3. SeenTar' = SeenTar
  <2>1. \A n \in Nodes : TarNext[n] = job.tar[n]
    BY TarsSame DEF TarNext, TarOf
  <2>2. TarNext = [n \in Nodes |-> TarNext[n]]
    BY DEF TarNext
  <2>3. QED BY <1>1, <1>2, <2>1, <2>2
<1>4. ASSUME Intact(f)
      PROVE  /\ f \in SUBSET (Nodes \X MetaKeys) /\ f # Absent
             /\ Accounted(f) \in SUBSET (Nodes \X MetaKeys)
             /\ Intact(Accounted(f)) /\ Accounted(f) # Absent
             /\ Op # "delete" => Accounted(f) = f \cup {<<Peer, Key>>}
             /\ Block \in disk(job.file) /\ acct(job.file)[Block] = f
  <2>1. f \in SUBSET (Nodes \X MetaKeys)
    BY <1>1, <1>4, FileTypes
  <2>2. /\ Accounted(f) \in SUBSET (Nodes \X MetaKeys)
        /\ Op # "delete" => Accounted(f) = f \cup {<<Peer, Key>>}
    BY <1>1, <2>1, AccountedType
  <2>3. Intact(Accounted(f)) /\ Accounted(f) # Absent /\ f # Absent
    BY <1>4, <2>2, SetsAreWhole DEF Intact
  <2>4. QED BY <1>4, <2>1, <2>2, <2>3
<1>5. ASSUME NEW g \in SUBSET (Nodes \X MetaKeys), file'[Block] = g
      PROVE  /\ disk(file') = disk(job.file) \cup {Block}
             /\ acct(file') = [acct(job.file) EXCEPT ![Block] = g]
  <2>1. Intact(g) /\ g # Absent
    BY SetsAreWhole DEF Intact
  <2>2. QED BY <1>5, <2>1
<1>6. CASE Op \in {"direct", "verify"} /\ Intact(f) /\ file'[Block] = Accounted(f)
  <2>1. /\ disk(file') = disk(job.file) \cup {Block}
        /\ acct(file') = [acct(job.file) EXCEPT ![Block] = acct(job.file)[Block] \cup {<<Peer, Key>>}]
    BY <1>4, <1>5, <1>6
  <2>2. disk(file') = disk(job.file)
    BY <1>4, <1>6, <2>1
  <2>3. ASSUME NEW r \in job.q.refs PROVE Store!StoreDirect(Peer, r[1], r[2])
    <3>1. r[1] = Block /\ r[2] = Key
      BY <1>1
    <3>2. Store!StoreDirect(Peer, Block, Key)
      BY <1>2, <1>3, <1>4, <1>6, <2>1 DEF Store!StoreDirect, Store!Recorded
    <3>3. QED BY <3>1, <3>2 DEF Store!StoreDirect, Store!Recorded
  <2>4. Op = "verify" => /\ \A r \in job.q.refs : Store!Verify(Peer, r[1], r[2])
                         /\ \A r \in job.q.refs : Store!Verifies(Peer, r[1])
    BY <1>1, <1>2, <1>3, <1>4, <1>6, <2>1, <2>2 DEF Store!Verify, Store!Verifies
  <2>5. Store!Handle(Peer, job.q) /\ Store!Acknowledged(Peer, job.q)
    BY <1>1, <1>6, <2>3, <2>4, HandleOne
  <2>6. QED BY <1>6, <2>5, EndHistory, EndServes
<1>7. CASE Op = "direct" /\ f = Absent /\ file'[Block] = {<<Peer, Key>>}
  <2> DEFINE own == {<<Peer, Key>>}
  <2>1. own \in SUBSET (Nodes \X MetaKeys)
    BY <1>1
  <2>2. file'[Block] = own
    BY <1>7
  <2> HIDE DEF own
  <2>3. /\ disk(file') = disk(job.file) \cup {Block}
        /\ acct(file') = [acct(job.file) EXCEPT ![Block] = own]
    BY <1>5, <2>1, <2>2
  <2>4. Block \notin disk(job.file)
    BY <1>7
  <2>5. ASSUME NEW r \in job.q.refs PROVE Store!StoreDirect(Peer, r[1], r[2])
    <3>1. r[1] = Block /\ r[2] = Key
      BY <1>1
    <3>2. Store!StoreDirect(Peer, Block, Key)
      BY <1>2, <1>3, <2>3, <2>4 DEF Store!StoreDirect, own
    <3>3. QED BY <3>1, <3>2 DEF Store!StoreDirect, Store!Recorded
  <2>6. Store!Handle(Peer, job.q) /\ Store!Acknowledged(Peer, job.q)
    BY <1>1, <1>7, <2>5, HandleOne
  <2>7. QED BY <1>7, <2>6, EndHistory, EndServes
<1>8. CASE Op = "delete" /\ Intact(f) /\ f # {}
  <2>1. Store!HasNode(Block, Peer) <=> \E m \in MetaKeys : <<Peer, m>> \in f
    BY <1>2, <1>4, <1>8 DEF Store!HasNode
  <2>2. Accounted(f) = IF Store!HasNode(Block, Peer)
                       THEN Store!DelNode(Block, Peer, Key) ELSE f
    BY <1>2, <1>4, <1>8, <2>1 DEF Accounted, Store!DelNode
  <2>3. \A r \in job.q.refs : r[1] = Block /\ r[2] = Key
    BY <1>1
  <2>4. Store!Delete(Peer, Block, Key)
    <3>1. CASE ~Store!HasNode(Block, Peer)
      <4>1. file'[Block] = f
        BY <1>8, <2>2, <3>1
      <4>2. disk(file') = disk(job.file) /\ acct(file') = acct(job.file)
        BY <1>1, <4>1
      <4>3. QED BY <1>2, <1>3, <1>4, <1>8, <3>1, <4>2 DEF Store!Delete, Store!disk
    <3>2. CASE Store!HasNode(Block, Peer) /\ Accounted(f) # {}
      <4> DEFINE g == Accounted(f)
      <4>1. file'[Block] = g /\ g = Store!DelNode(Block, Peer, Key) /\ g # {}
        BY <1>8, <2>2, <3>2
      <4>2. g \in SUBSET (Nodes \X MetaKeys)
        BY <1>4, <1>8
      <4> HIDE DEF g
      <4>3. /\ disk(file') = disk(job.file) \cup {Block}
            /\ acct(file') = [acct(job.file) EXCEPT ![Block] = g]
        BY <1>5, <4>1, <4>2
      <4>4. Block \in disk(job.file)
        BY <1>4, <1>8
      <4>5. disk(file') = disk(job.file)
        BY <4>3, <4>4
      <4>6. QED
        BY <1>2, <1>3, <3>2, <4>1, <4>3, <4>4, <4>5 DEF Store!Delete, Store!FilesAfter
    <3>3. CASE Store!HasNode(Block, Peer) /\ Accounted(f) = {}
      <4>1. file'[Block] = Absent /\ Store!DelNode(Block, Peer, Key) = {}
        BY <1>8, <2>2, <3>3
      <4>2. /\ disk(file') = disk(job.file) \ {Block}
            /\ acct(file') = [acct(job.file) EXCEPT ![Block] = {}]
        <5>1. disk(file') = disk(job.file) \ {Block}
          BY <4>1
        <5>2. ~Intact(file'[Block])
          BY <4>1 DEF Intact
        <5>3. QED BY <5>1, <5>2
      <4>3. Block \in disk(job.file)
        BY <1>4, <1>8
      <4>4. QED
        BY <1>2, <1>3, <3>3, <4>1, <4>2, <4>3 DEF Store!Delete, Store!FilesAfter
    <3>4. QED BY <3>1, <3>2, <3>3
  <2>5. ASSUME NEW r \in job.q.refs PROVE Store!Delete(Peer, r[1], r[2])
    BY <2>3, <2>4
       DEF Store!Delete, Store!HasNode, Store!DelNode, Store!FilesAfter
  <2>6. Store!Handle(Peer, job.q) /\ ~Store!Acknowledged(Peer, job.q)
    BY <1>1, <1>8, <2>5, HandleOne
  <2>7. QED BY <1>8, <2>6, EndHistory, EndServes
<1>9. Op \in {"direct", "verify", "delete"}
  BY <1>1, JobShape
<1>10. QED BY <1>6, <1>7, <1>8, <1>9

\* A step in the middle of a request is none of BlockStore's.
LEMMA GoOnStutters ==
  ASSUME ~Resting, job' = job, owed' = owed, doubt' = doubt, step' # "rest"
  PROVE  UNCHANGED Store!vars
BY MidStutters DEF Resting

\* The steps that only begin or go on.
LEMMA WorkStutters ==
  ASSUME IInv, ~Resting,
         StoreTar \/ OpenTar \/ RemoveGz \/ Append \/ OpenGz \/ Compress \/ DropTar
           \/ Receive \/ WriteAccounting
  PROVE  UNCHANGED Store!vars
BY GoOnStutters
   DEF StoreTar, OpenTar, RemoveGz, Append, OpenGz, Compress, DropTar, Receive,
       WriteAccounting, GoOn

\* The compressed tarball is complete: STORE and VERIFY have done their work.
LEMMA RemoveTarServes ==
  ASSUME IInv, ~Resting, Calm, RemoveTar
  PROVE  Store!Next
<1>1. TypeOK /\ StepOps /\ TarShape /\ TarContent /\ hurt = {} /\ Peer \in Nodes
  BY JobShape DEF IInv, CalmFiles
<1>2. /\ step = "gzipped" /\ Done /\ Resting' /\ OnlyPeer /\ gz' = gz /\ file' = file
      /\ step \in TarSteps
  BY <1>1 DEF RemoveTar, OnlyPeer, TypeOK, Done, Ended, Resting, TarSteps
<1>3. file' = job.file
  BY <1>2, FilesSame
<1>4. Whole(gz[Peer]) /\ gz[Peer] = New
  BY <1>1, <1>2 DEF TarShape, TarContent
<1>5. TarNext[Peer] = New
  BY <1>1, <1>2, <1>4 DEF TarNext, TarOf, Whole
<1>6. /\ Op \in {"tar", "verify"}
      /\ Op = "verify" => <<Block, Data>> \in Old /\ Block \in Small
  BY <1>1, <1>2 DEF StepOps, TarContent
<1>7. QED BY <1>2, <1>3, <1>5, <1>6, TarServed

\* What stays of the tarball is in its place: DELETE has done its work.
LEMMA PlaceGzServes ==
  ASSUME IInv, ~Resting, Calm, PlaceGz
  PROVE  Store!Next
<1>1. TypeOK /\ StepOps /\ TarContent /\ hurt = {} /\ Peer \in Nodes
  BY JobShape DEF IInv, CalmFiles
<1>2. /\ step = "place" /\ Done /\ Resting' /\ OnlyPeer /\ file' = file
      /\ gz' = [gz EXCEPT ![Peer] = left] /\ step \in TarSteps
  BY <1>1 DEF PlaceGz, OnlyPeer, TypeOK, Done, Ended, Resting, TarSteps, Calm
<1>3. file' = job.file
  BY <1>2, FilesSame
<1>4. Op = "delete" /\ Block \in Small /\ left = Stays(Old)
  BY <1>1, <1>2 DEF StepOps, TarContent, Opened
<1>5. gz'[Peer] = left /\ Whole(left)
  BY <1>1, <1>2, SetsAreWhole DEF TypeOK
<1>6. TarNext[Peer] = Stays(Old)
  BY <1>1, <1>4, <1>5 DEF TarNext, TarOf, Whole
<1>7. QED BY <1>2, <1>3, <1>4, <1>6, TarServed

\* VERIFY finds the metadata there, or not the block.
LEMMA VerifyTarServes ==
  ASSUME IInv, ~Resting, Calm, VerifyTar
  PROVE  Store!Next \/ UNCHANGED Store!vars
<1> DEFINE found == IF Has(gz[Peer], Block) THEN gz[Peer]
                    ELSE IF Has(tar[Peer], Block) THEN tar[Peer] ELSE {}
<1>1. /\ step = "look" /\ Op = "verify" /\ InTarball
      /\ gz' = gz /\ tar' = tar /\ file' = file /\ OnlyPeer
  BY DEF VerifyTar, InTarball, OnlyPeer
<1>2. /\ Peer \in Nodes /\ TarOf(Peer) = Old /\ file' = job.file
      /\ gz[Peer] \in TarFile /\ tar[Peer] = Absent /\ gz[Peer] # Torn
  BY <1>1, Looking
<1>3. /\ found # {} => found = Old /\ <<Block, Data>> \in Old /\ Block \in Small
      /\ found = {} => <<Block, Data>> \notin Old
  <2>1. ~Has(tar[Peer], Block)
    BY <1>2 DEF Has, Whole
  <2>2. CASE Has(gz[Peer], Block)
    <3>1. Whole(gz[Peer]) /\ <<Block, Data>> \in gz[Peer] /\ gz[Peer] \in SUBSET Names
      BY <1>2, <2>2, FileTypes DEF Has
    <3>2. Block \in Small /\ gz[Peer] = Old
      BY <1>2, <3>1 DEF Names, TarOf
    <3>3. QED BY <2>2, <3>1, <3>2
  <2>3. CASE ~Has(gz[Peer], Block)
    <3>1. <<Block, Data>> \notin TarOf(Peer)
      BY <1>2, <2>3 DEF Has, TarOf, Whole
    <3>2. QED BY <1>2, <2>1, <2>3, <3>1
  <2>4. QED BY <2>2, <2>3
<1>4. \/ \E s \in {"gunzip", "appendTar"} : GoOn(s)
      \/ <<Block, Key>> \in found /\ Done
      \/ found = {} /\ NotFound
  BY <1>2 DEF VerifyTar
<1>5. CASE \E s \in {"gunzip", "appendTar"} : GoOn(s)
  BY <1>5, GoOnStutters DEF GoOn
<1>6. CASE <<Block, Key>> \in found /\ Done
  <2>1. job.q.refs = {<<Block, Key>>}
    BY <1>1, JobShape DEF IInv
  <2>2. New = Old
    BY <1>1, <1>3, <1>6, <2>1 DEF New, Added
  <2>3. TarNext[Peer] = New
    BY <1>1, <1>2, <2>2 DEF TarNext, TarOf
  <2>4. Resting'
    BY <1>6 DEF Done, Ended, Resting
  <2>5. QED BY <1>1, <1>2, <1>3, <1>6, <2>3, <2>4, TarServed
<1>7. CASE found = {} /\ NotFound
  <2>1. Resting'
    BY <1>7 DEF NotFound, Ended, Resting
  <2>2. QED BY <1>1, <1>2, <1>3, <1>7, <2>1, TarNotFound
<1>8. QED BY <1>4, <1>5, <1>6, <1>7

\* When no name is a member, every member stays.
LEMMA UnnamedStays == ASSUME NEW f \in SUBSET Names, Unnamed(f) PROVE Stays(f) = f
<1>1. Store!Cardinality(Store!MembersOf(f, Block)) > 2 /\ {<<Block, Key>>} \cap f = {}
  BY SameCount DEF Unnamed
<1>2. Store!DeleteMember(f, Block, Key) = Store!TarDelete(f, {<<Block, Key>>} \cap f)
  BY <1>1 DEF Store!DeleteMember
<1>3. Store!TarDelete(f, {}) = f
  <2>1. Cardinality({}) = 0 /\ (Cardinality(f) = 0 => f = {})
    BY NamesFinite, FS_EmptySet
  <2>2. QED BY <2>1, SameCount DEF Store!TarDelete
<1>4. QED BY <1>1, <1>2, <1>3 DEF Stays

\* DELETE finds no tarball, or one of which nothing stays.
LEMMA DeleteTarServes ==
  ASSUME IInv, ~Resting, Calm, DeleteTar
  PROVE  Store!Next \/ UNCHANGED Store!vars
<1>1. step = "look" /\ Op = "delete" /\ InTarball /\ file' = file
  BY DEF DeleteTar, InTarball
<1>2. /\ Peer \in Nodes /\ TarOf(Peer) = Old /\ file' = job.file /\ Block \in Small
      /\ tar[Peer] = Absent /\ gz[Peer] # Torn
  BY <1>1, Looking
<1>3. ~Whole(tar[Peer]) /\ tar[Peer] # Torn
  BY <1>2 DEF Whole
<1>4. \/ \E s \in {"gunzip"} : GoOn(s)
      \/ /\ Whole(gz[Peer]) /\ Stays(gz[Peer]) = {} /\ Done
         /\ gz' = [gz EXCEPT ![Peer] = Absent] /\ tar' = tar
      \/ ~Whole(gz[Peer]) /\ NotFound /\ gz' = gz /\ tar' = tar
      \/ Whole(gz[Peer]) /\ Unnamed(gz[Peer]) /\ Done /\ gz' = gz /\ tar' = tar
  BY <1>2, <1>3 DEF DeleteTar, Rewrite
<1>5. CASE \E s \in {"gunzip"} : GoOn(s)
  BY <1>5, GoOnStutters DEF GoOn
<1>6. CASE /\ Whole(gz[Peer]) /\ Stays(gz[Peer]) = {} /\ Done
           /\ gz' = [gz EXCEPT ![Peer] = Absent] /\ tar' = tar
  <2>1. OnlyPeer /\ gz'[Peer] = Absent /\ tar'[Peer] = Absent
    BY <1>2, <1>6 DEF OnlyPeer, IInv, TypeOK
  <2>2. gz[Peer] = Old
    BY <1>2, <1>6 DEF TarOf
  <2>3. TarNext[Peer] = Stays(Old)
    BY <1>2, <1>6, <2>1, <2>2 DEF TarNext, TarOf, Whole
  <2>4. Resting'
    BY <1>6 DEF Done, Ended, Resting
  <2>5. QED BY <1>1, <1>2, <1>6, <2>1, <2>3, <2>4, TarServed
<1>7. CASE ~Whole(gz[Peer]) /\ NotFound /\ gz' = gz /\ tar' = tar
  <2>1. Old = {}
    BY <1>2, <1>3, <1>7 DEF TarOf
  <2>2. Resting'
    BY <1>7 DEF NotFound, Ended, Resting
  <2>3. QED BY <1>1, <1>2, <1>7, <2>1, <2>2, TarNotFound
<1>8. CASE Whole(gz[Peer]) /\ Unnamed(gz[Peer]) /\ Done /\ gz' = gz /\ tar' = tar
  <2>1. OnlyPeer
    BY <1>8 DEF OnlyPeer
  <2>2. gz[Peer] = Old
    BY <1>2, <1>8 DEF TarOf
  <2>3. TarNext[Peer] = Stays(Old)
    <3>1. TarNext[Peer] = Old
      BY <1>2, <1>8 DEF TarNext, TarOf
    <3>2. Unnamed(Old) /\ Old \in SUBSET Names
      BY <1>2, <1>8, <2>2, Looking, <1>1, FileTypes
    <3>3. QED BY <3>1, <3>2, UnnamedStays
  <2>4. Resting'
    BY <1>8 DEF Done, Ended, Resting
  <2>5. QED BY <1>1, <1>2, <1>8, <2>1, <2>3, <2>4, TarServed
<1>9. QED BY <1>4, <1>5, <1>6, <1>7, <1>8

\* Decompressing and closing go on; without crashes they do not fail.
LEMMA TarWorkStutters ==
  ASSUME IInv, ~Resting, Calm, Expand \/ Close
  PROVE  UNCHANGED Store!vars
<1>1. TarShape /\ hurt = {} /\ step # "closeTar"
  BY DEF IInv, CalmFiles
<1>2. \E s \in {"removeGz", "append", "gzip"} : GoOn(s)
  BY <1>1 DEF Expand, Close, TarShape, Whole
<1>3. QED BY <1>2, GoOnStutters DEF GoOn

\* The steps of a request about a large block.
LEMMA ConvertServes ==
  ASSUME IInv, IInv', ~Resting, Calm, Convert
  PROVE  Store!Next
<1>1. TypeOK /\ FileContent /\ StepOps /\ file' \in [Large -> BlockFile]
  BY DEF IInv, TypeOK
<1>2. /\ step = "convert" /\ step \notin TarSteps /\ gz' = gz /\ tar' = tar /\ Done
      /\ Resting' /\ file' = [file EXCEPT ![Block] = {<<Peer, Key>>}]
      /\ Op = "direct" /\ Block \in Large /\ job.file[Block] = Absent
  BY <1>1 DEF Convert, Calm, Done, Ended, Resting, TarSteps, FileSteps, StepOps, FileContent
<1>3. \A b \in Large \ {Block} : file'[b] = job.file[b]
  BY <1>1, <1>2 DEF IInv, Snapshot, TypeOK
<1>4. file'[Block] = {<<Peer, Key>>}
  BY <1>1, <1>2 DEF TypeOK
<1>5. QED BY <1>1, <1>2, <1>3, <1>4, FileServed

LEMMA OpenBlockServes ==
  ASSUME IInv, ~Resting, Calm, OpenBlock
  PROVE  Store!Next \/ UNCHANGED Store!vars
<1>1. /\ step = "look" /\ step \notin TarSteps /\ gz' = gz /\ tar' = tar /\ file' = file
      /\ Block \in Large /\ file[Block] # Absent
  BY DEF OpenBlock, TarSteps
<1>2. /\ file = job.file /\ file \in [Large -> BlockFile] /\ Op # "tar"
      /\ Intact(file[Block]) /\ file[Block] # {}
  BY <1>1, FilesSame, TarIsSmall DEF IInv, TypeOK
<1>3. \/ Accounted(file[Block]) = file[Block] /\ Done
      \/ GoOn("account")
  BY <1>2 DEF OpenBlock
<1>4. CASE Accounted(file[Block]) = file[Block] /\ Done
  <2>1. Resting'
    BY <1>4 DEF Done, Ended, Resting
  <2>2. /\ file' \in [Large -> BlockFile]
        /\ \A b \in Large \ {Block} : file'[b] = job.file[b]
        /\ Intact(job.file[Block]) /\ job.file[Block] # {}
        /\ Accounted(job.file[Block]) # {}
        /\ file'[Block] = Accounted(job.file[Block])
    BY <1>1, <1>2, <1>4
  <2>3. QED BY <1>1, <1>2, <1>4, <2>1, <2>2, FileServed
<1>5. CASE GoOn("account")
  BY <1>5, GoOnStutters DEF GoOn
<1>6. QED BY <1>3, <1>4, <1>5

LEMMA CloseBlockServes ==
  ASSUME IInv, IInv', ~Resting, Calm, CloseBlock
  PROVE  Store!Next \/ UNCHANGED Store!vars
<1>1. TypeOK /\ FileContent /\ StepOps /\ CalmFiles /\ file' \in [Large -> BlockFile]
  BY DEF IInv, TypeOK
<1>2. /\ step = "truncate" /\ step \notin TarSteps /\ gz' = gz /\ tar' = tar
      /\ file' = [file EXCEPT ![Block] = left] /\ Op # "tar" /\ Block \in Large
      /\ Intact(job.file[Block]) /\ left = Accounted(job.file[Block])
      /\ job.file[Block] # {}
  BY <1>1 DEF CloseBlock, TarSteps, FileSteps, StepOps, FileContent, CalmFiles
<1>3. \A b \in Large \ {Block} : file'[b] = job.file[b]
  BY <1>1, <1>2 DEF IInv, Snapshot, TypeOK
<1>4. file'[Block] = Accounted(job.file[Block])
  BY <1>1, <1>2 DEF TypeOK
<1>5. \/ GoOn("remove")
      \/ Done /\ (Accounted(job.file[Block]) # {} \/ Op # "delete")
  BY <1>2 DEF CloseBlock
<1>6. CASE GoOn("remove")
  BY <1>6, GoOnStutters DEF GoOn
<1>7. CASE Done /\ (Accounted(job.file[Block]) # {} \/ Op # "delete")
  <2>1. Resting'
    BY <1>7 DEF Done, Ended, Resting
  <2>2. QED BY <1>1, <1>2, <1>3, <1>4, <1>7, <2>1, FileServed
<1>8. QED BY <1>5, <1>6, <1>7

LEMMA RemoveBlockServes ==
  ASSUME IInv, IInv', ~Resting, Calm, RemoveBlock
  PROVE  Store!Next
<1>1. TypeOK /\ FileContent /\ StepOps /\ CalmFiles /\ file' \in [Large -> BlockFile]
  BY DEF IInv, TypeOK
<1>2. /\ step = "remove" /\ step \notin TarSteps /\ gz' = gz /\ tar' = tar /\ Done
      /\ Resting' /\ file' = [file EXCEPT ![Block] = Absent] /\ Op = "delete"
      /\ Op # "tar" /\ Block \in Large
      /\ Intact(job.file[Block]) /\ Accounted(job.file[Block]) = {}
      /\ job.file[Block] # {}
  BY <1>1
     DEF RemoveBlock, TarSteps, FileSteps, StepOps, FileContent, CalmFiles, Done, Ended, Resting
<1>3. \A b \in Large \ {Block} : file'[b] = job.file[b]
  BY <1>1, <1>2 DEF IInv, Snapshot, TypeOK
<1>4. file'[Block] = Absent
  BY <1>1, <1>2 DEF TypeOK
<1>5. QED BY <1>1, <1>2, <1>3, <1>4, FileServed

\* A .tar is never what a DELETE replaces.
LEMMA NoPlaceTar ==
  ASSUME IInv, Calm, PlaceTar
  PROVE  FALSE
BY DEF IInv, CalmFiles, PlaceTar

\* Nor is there a torn tarball to remove.
LEMMA NoSweep ==
  ASSUME IInv, ~Resting, Calm, Sweep
  PROVE  FALSE
<1>1. step = "look" /\ (gz[Peer] = Torn \/ tar[Peer] = Torn)
  BY DEF Sweep
<1>2. QED BY <1>1, Looking

\* Every step, while nothing went wrong.
LEMMA NextServes ==
  ASSUME IInv, IInv', [Next]_vars, oneDevice, crashes' = 0
  PROVE  Store!Next \/ UNCHANGED Store!vars
<1>1. CASE UNCHANGED vars
  BY <1>1
     DEF vars, Store!vars, SeenTar, SeenFile, Resting, TarOf
<1>2. CASE \E n \in Nodes : \E q \in Store!Requests : Begin(n, q)
  BY <1>2, BeginAsks
<1>3. CASE ~Resting /\ Crash
  BY <1>3 DEF Crash, IInv, TypeOK
<1>4. CASE ~Resting /\ Handle
  <2>1. Calm
    BY <1>4 DEF Calm, Handle
  <2>2. ~PlaceTar /\ ~Sweep
    BY <1>4, <2>1, NoPlaceTar, NoSweep
  <2>3. \/ StoreTar \/ OpenTar \/ RemoveGz \/ Append \/ OpenGz \/ Compress \/ DropTar
           \/ Receive \/ WriteAccounting
        \/ VerifyTar \/ DeleteTar \/ OpenBlock \/ Expand \/ Close
        \/ RemoveTar \/ PlaceGz \/ Convert \/ CloseBlock \/ RemoveBlock
    BY <1>4, <2>2 DEF Handle
  <2>4. QED
    BY <1>4, <2>1, <2>3, WorkStutters, VerifyTarServes, DeleteTarServes, OpenBlockServes,
       TarWorkStutters, RemoveTarServes, PlaceGzServes, ConvertServes, CloseBlockServes,
       RemoveBlockServes
<1>5. QED BY <1>1, <1>2, <1>3, <1>4 DEF Next

\* While nothing crashed and every rename works, what can be read between
\* requests is what the handlers of BlockStore say, step by step.
THEOREM DiskImplementsStore == Spec => ImplementsStore
<1>1. IInv /\ IInv' /\ [Next]_vars =>
        [oneDevice /\ crashes' = 0 => Store!Next]_(Store!vars)
  BY NextServes
<1>2. QED BY <1>1, Invariance, PTL DEF Spec, ImplementsStore

\* So a node that never crashes, with its temporary files on one device, is a
\* BlockStore whose answers all arrive.
THEOREM CalmDiskIsStore == Spec /\ []Calm => Store!Spec
<1>1. Init => Store!Init
  <2>1. SUFFICES ASSUME Init PROVE Store!Init
    OBVIOUS
  <2>2. /\ step = "rest" /\ Resting /\ owed = {} /\ doubt = {}
        /\ \A b \in Large : file[b] = Absent
        /\ \A n \in Nodes : gz[n] = Absent /\ tar[n] = Absent
    BY <2>1 DEF Init, Resting
  <2>3. SeenFile = file /\ SeenTar = [n \in Nodes |-> {}]
    BY <2>2 DEF SeenFile, SeenTar, TarOf, Whole
  <2>4. QED BY <2>2, <2>3 DEF Store!Init, Intact
<1>2. IInv /\ IInv' /\ Calm /\ Calm' /\ [Next]_vars => [Store!Next]_(Store!vars)
  BY NextServes DEF Calm
<1>3. QED BY <1>1, <1>2, Invariance, PTL DEF Spec, Store!Spec

-----------------------------------------------------------------------------
(* What BlockStore promises, kept by the files.                            *)

\* BlockStore again, with what is proved of it.
StoreProofs == INSTANCE BlockStore_proofs WITH
  tar <- SeenTar,
  onDisk <- {b \in Large : SeenFile[b] # Absent},
  acct <- [b \in Large |-> IF Intact(SeenFile[b]) THEN SeenFile[b] ELSE {}],
  request <- [n \in Nodes |-> IF ~Resting /\ n = job.node THEN job.q ELSE NoRequest],
  timeouts <- [n \in Nodes |-> 0],
  Lossy <- {}, MaxTimeouts <- 1

\* The constants are such that its theorems hold: no answer gets lost.
LEMMA StoreAssumptions == StoreProofs!BlockStoreAssumption /\ StoreProofs!DeletesOnce
<1>1. StoreProofs!IsFiniteSet(Small) /\ StoreProofs!IsFiniteSet(MetaKeys)
  <2>1. IsFiniteSet(Small) /\ IsFiniteSet(MetaKeys)
    OBVIOUS
  <2>2. QED BY ONLY <2>1 DEF StoreProofs!IsFiniteSet, IsFiniteSet
<1>2. Store!Requests = StoreProofs!Requests
  BY DEF Store!Requests, StoreProofs!Requests, Store!Ref, StoreProofs!Ref, Store!Blocks,
         StoreProofs!Blocks
<1>3. NoRequest \notin StoreProofs!Requests
  BY <1>2
<1>4. QED
  BY <1>1, <1>3 DEF StoreProofs!BlockStoreAssumption, StoreProofs!DeletesOnce

\* The two instances are one.
LEMMA SameStore == Store!Spec => StoreProofs!Spec
<1>1. Store!Init => StoreProofs!Init
  BY DEF Store!Init, StoreProofs!Init
<1>2. Store!Next => StoreProofs!Next
  BY DEF Store!Next, StoreProofs!Next, Store!Ask, StoreProofs!Ask, Store!Serve,
         StoreProofs!Serve, Store!LoseAnswer, StoreProofs!LoseAnswer, Store!LoseRequest,
         StoreProofs!LoseRequest, Store!TimeOut, StoreProofs!TimeOut, Store!LastTry,
         StoreProofs!LastTry, Store!Of, StoreProofs!Of, Store!disk, StoreProofs!disk,
         Store!Handle, StoreProofs!Handle, Store!Acknowledged, StoreProofs!Acknowledged,
         Store!Delete, StoreProofs!Delete, Store!Verify, StoreProofs!Verify,
         Store!Verifies, StoreProofs!Verifies, Store!StoreDirect, StoreProofs!StoreDirect,
         Store!StoreTar, StoreProofs!StoreTar, Store!FilesAfter, StoreProofs!FilesAfter,
         Store!DelNode, StoreProofs!DelNode, Store!HasNode, StoreProofs!HasNode,
         Store!Recorded, StoreProofs!Recorded, Store!DeleteMember,
         StoreProofs!DeleteMember, Store!TarDelete, StoreProofs!TarDelete, Store!Pruned,
         StoreProofs!Pruned, Store!MembersOf, StoreProofs!MembersOf, Store!Cardinality,
         StoreProofs!Cardinality, Store!Requests, StoreProofs!Requests, Store!Ref,
         StoreProofs!Ref, Store!Blocks, StoreProofs!Blocks
<1>3. [Store!Next]_(Store!vars) => [StoreProofs!Next]_(StoreProofs!vars)
  BY <1>2 DEF Store!vars, StoreProofs!vars
<1>4. QED BY <1>1, <1>3, PTL DEF Store!Spec, StoreProofs!Spec

\* What BlockStore keeps the files keep, through every decompression, rewriting
\* and renaming: between requests every peer can retrieve what it is owed, and
\* each request takes or leaves the references it names, and no other ones.
THEOREM CalmDiskKeepsPromise ==
  Spec /\ []Calm => []StoreProofs!Kept /\ StoreProofs!ImplementsBlockRefs
<1>1. StoreProofs!Spec => []StoreProofs!Kept
  BY StoreAssumptions, StoreProofs!BlocksKept
<1>2. StoreProofs!Spec => StoreProofs!ImplementsBlockRefs
  BY StoreAssumptions, StoreProofs!Refinement
<1>3. QED BY <1>1, <1>2, CalmDiskIsStore, SameStore, PTL
=============================================================================
