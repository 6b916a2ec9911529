----------------------------- MODULE BlockStore -----------------------------
(***************************************************************************)
(* The blocks one flud node keeps for its peers: the STORE, VERIFY and     *)
(* DELETE handlers of src/flud/protocol/AiohttpServer.py, the accounting   *)
(* of BlockFile.py and the member deletion of TarfileUtils.py, with the    *)
(* peers that call them and retry when an answer does not arrive           *)
(* (ClientPrimitives.py).                                                  *)
(*                                                                         *)
(* A block is kept in one of two ways.  Blocks under MINSTORSIZE arrive in *)
(* a .tar.gz and are merged into one tarball per peer, block data and      *)
(* metadata being members of their own.  The others arrive alone and are   *)
(* kept in a BlockFile, shared by all peers, that ends in a list of the    *)
(* peers and metadata keys it is kept for.                                 *)
(*                                                                         *)
(* A handler runs on the server's event loop without awaiting, so it is    *)
(* one step.  The content of blocks and metadata is abstracted, as is      *)
(* which of .tar and .tar.gz a tarball is: without crashes a peer has at   *)
(* most one, and a tarball without members is no file at all.              *)
(***************************************************************************)
EXTENDS Integers, FiniteSets

CONSTANTS
  Nodes,     \* the peers that store here
  Small,     \* blocks the client aggregates into tarballs
  Large,     \* blocks the client stores one by one
  MetaKeys,  \* keys of the metadata stored with a block
  Data,      \* stands for the block itself in a member name
  Lossy,     \* the operations whose answer may get lost
  MaxTimeouts, \* after so many timeouts the client gives up
  NoRequest  \* the request of a peer that has none

Blocks == Small \cup Large
Ops == {"tar", "direct", "verify", "delete"}

\* A block together with a key under which metadata is stored for it.
Ref == Blocks \X MetaKeys

\* What the client asks for: an aggregated tarball holds several references.
Requests ==
  [op : {"tar"}, refs : (SUBSET (Small \X MetaKeys)) \ {{}}]
    \cup [op : {"direct"}, refs : {{r} : r \in Large \X MetaKeys}]
    \cup [op : {"verify", "delete"}, refs : {{r} : r \in Ref}]

ASSUME BlockStoreAssumption ==
  /\ IsFiniteSet(Small) /\ IsFiniteSet(MetaKeys)
  /\ Small \cap Large = {}
  /\ Data \notin MetaKeys
  /\ Lossy \subseteq Ops
  /\ MaxTimeouts \in Nat \ {0}
  /\ NoRequest \notin Requests

\* A member of a tarball: <<block, Data>>, or <<block, key>> for metadata.
Name == Small \X (MetaKeys \cup {Data})

VARIABLES
  tar,       \* tar[n]: the member names of n's tarball
  onDisk,    \* the blocks kept in a BlockFile
  acct,      \* acct[b]: the pairs <<node, key>> in b's accounting
  request,   \* request[n]: what n's client waits for
  timeouts,  \* timeouts[n]: how often that request has timed out
  owed,      \* history: <<n, b, m>> acknowledged and not yet asked to go
  doubt      \* history: <<n, b, m>> of requests n gave up on

disk == <<tar, onDisk, acct>>
vars == <<tar, onDisk, acct, request, timeouts, owed, doubt>>

-----------------------------------------------------------------------------
(* Tarballs.                                                               *)

MembersOf(names, b) == {x \in names : x[1] = b}

\* The names TarfileUtils.delete goes on with after it has dropped those that
\* are no members.  It removes from the list it iterates over, so that the name
\* after a dropped one is not looked at.
Pruned(names, b, m) ==
  IF <<b, Data>> \in names THEN {<<b, Data>>, <<b, m>>} \cap names
                           ELSE {<<b, m>>}

\* Mutant of TarDelete: the rewritten tarball does not replace the old one.
TarDeleteKept(names, gone) ==
  IF Cardinality(names) = Cardinality(gone) THEN {} ELSE names

\* TarfileUtils.delete: the whole tarball goes when the counts agree.
TarDelete(names, gone) ==
  IF Cardinality(names) = Cardinality(gone) THEN {} ELSE names \ gone

\* Mutants of DeleteMember: the count of members is off by one, either way.
DeleteMemberEarly(names, b, m) ==
  IF Cardinality(MembersOf(names, b)) > 3
  THEN TarDelete(names, {<<b, m>>} \cap names)
  ELSE TarDelete(names, Pruned(names, b, m))
DeleteMemberLate(names, b, m) ==
  IF Cardinality(MembersOf(names, b)) > 1
  THEN TarDelete(names, {<<b, m>>} \cap names)
  ELSE TarDelete(names, Pruned(names, b, m))

\* The block leaves with its metadata if that seems to be the only one.
DeleteMember(names, b, m) ==
  IF Cardinality(MembersOf(names, b)) > 2
  THEN TarDelete(names, {<<b, m>>} \cap names)
  ELSE TarDelete(names, Pruned(names, b, m))

-----------------------------------------------------------------------------
(* BlockFiles.                                                             *)

\* Mutant of Recorded: a hasNode that worked would skip addNode.
RecordedOnce(n, b, m) ==
  IF \E k \in MetaKeys : <<n, k>> \in acct[b] THEN {} ELSE {<<n, m>>}

\* What STORE adds to the accounting of a BlockFile it finds.  Its hasNode is
\* given the node id as a string, while the keys are integers: it never finds
\* the node, and addNode always runs.
Recorded(n, b, m) == {<<n, m>>}

HasNode(b, n) == \E m \in MetaKeys : <<n, m>> \in acct[b]

\* Mutant of DelNode: the key is not recognised.
DelNodeOtherKey(b, n, m) == acct[b]

\* delNode, for a node that is there.
DelNode(b, n, m) == acct[b] \ {<<n, m>>}

\* Mutant of FilesAfter: the emptied file stays.
FilesKept(b, left) == onDisk

\* The file goes with the last node accounted for.
FilesAfter(b, left) == IF left = {} THEN onDisk \ {b} ELSE onDisk

-----------------------------------------------------------------------------
(* The handlers: what they do to the disk, and whether they answer 200.    *)

\* The members that are not there yet are added.  A name that the sent tarball
\* holds twice, as when one reference is stored twice in a batch, is added twice
\* by the code (existing is read once), which a set of names cannot say.
StoreTar(n, refs) ==
  /\ tar' = [tar EXCEPT ![n] = @ \cup refs \cup {<<r[1], Data>> : r \in refs}]
  /\ UNCHANGED <<onDisk, acct>>

StoreDirect(n, b, m) ==
  /\ IF b \in onDisk
     THEN acct' = [acct EXCEPT ![b] = @ \cup Recorded(n, b, m)]
     ELSE acct' = [acct EXCEPT ![b] = {<<n, m>>}]
  /\ onDisk' = onDisk \cup {b}
  /\ UNCHANGED tar

\* VERIFY carries metadata, which it attaches to the block it has checked.
Verifies(n, b) == b \in onDisk \/ <<b, Data>> \in tar[n]

Verify(n, b, m) ==
  \/ /\ b \in onDisk
     /\ acct' = [acct EXCEPT ![b] = @ \cup {<<n, m>>}]
     /\ UNCHANGED <<tar, onDisk>>
  \/ /\ b \notin onDisk
     /\ <<b, Data>> \in tar[n]
     /\ tar' = [tar EXCEPT ![n] = @ \cup {<<b, m>>}]
     /\ UNCHANGED <<onDisk, acct>>
  \/ ~Verifies(n, b) /\ UNCHANGED disk

Delete(n, b, m) ==
  \/ /\ b \notin onDisk
     /\ tar' = [tar EXCEPT ![n] = IF @ = {} THEN {} ELSE DeleteMember(@, b, m)]
     /\ UNCHANGED <<onDisk, acct>>
  \/ /\ b \in onDisk
     /\ HasNode(b, n)
     /\ acct' = [acct EXCEPT ![b] = DelNode(b, n, m)]
     /\ onDisk' = FilesAfter(b, DelNode(b, n, m))
     /\ UNCHANGED tar
  \/ b \in onDisk /\ ~HasNode(b, n) /\ UNCHANGED disk

Handle(n, q) ==
  \/ q.op = "tar" /\ StoreTar(n, q.refs)
  \/ q.op = "direct" /\ \E r \in q.refs : StoreDirect(n, r[1], r[2])
  \/ q.op = "verify" /\ \E r \in q.refs : Verify(n, r[1], r[2])
  \/ q.op = "delete" /\ \E r \in q.refs : Delete(n, r[1], r[2])

\* The answer to a STORE, or to a VERIFY that found the block, is 200.
Acknowledged(n, q) ==
  \/ q.op \in {"tar", "direct"}
  \/ q.op = "verify" /\ \A r \in q.refs : Verifies(n, r[1])

-----------------------------------------------------------------------------
(* The clients.                                                            *)

Of(n, refs) == {<<n, r[1], r[2]>> : r \in refs}

Init ==
  /\ tar = [n \in Nodes |-> {}]
  /\ onDisk = {}
  /\ acct = [b \in Large |-> {}]
  /\ request = [n \in Nodes |-> NoRequest]
  /\ timeouts = [n \in Nodes |-> 0]
  /\ owed = {}
  /\ doubt = {}

\* A peer sends a request; it deletes only what it has had acknowledged.
Ask(n, q) ==
  /\ request[n] = NoRequest
  /\ q.op = "delete" => Of(n, q.refs) \subseteq owed
  /\ request' = [request EXCEPT ![n] = q]
  /\ owed' = IF q.op = "delete" THEN owed \ Of(n, q.refs) ELSE owed
  /\ UNCHANGED <<disk, timeouts, doubt>>

\* The server carries the request out and the answer arrives.
Serve(n) ==
  /\ request[n] # NoRequest
  /\ Handle(n, request[n])
  /\ owed' = IF Acknowledged(n, request[n])
             THEN owed \cup Of(n, request[n].refs) ELSE owed
  /\ doubt' = IF request[n].op = "verify" THEN doubt
              ELSE doubt \ Of(n, request[n].refs)
  /\ request' = [request EXCEPT ![n] = NoRequest]
  /\ timeouts' = [timeouts EXCEPT ![n] = 0]

LastTry(n) == timeouts[n] + 1 >= MaxTimeouts

\* The client's wait for an answer ends: it tries again, or gives up, and then
\* does not know what became of the request.
TimeOut(n) ==
  IF ~LastTry(n)
  THEN /\ timeouts' = [timeouts EXCEPT ![n] = @ + 1]
       /\ UNCHANGED <<request, owed, doubt>>
  ELSE /\ timeouts' = [timeouts EXCEPT ![n] = 0]
       /\ doubt' = doubt \cup (Of(n, request[n].refs) \ owed)
       /\ request' = [request EXCEPT ![n] = NoRequest]
       /\ UNCHANGED owed

\* The server carries the request out and the answer gets lost.
LoseAnswer(n) ==
  /\ request[n] # NoRequest
  /\ request[n].op \in Lossy
  /\ Handle(n, request[n])
  /\ TimeOut(n)

\* The request does not get to the server.
LoseRequest(n) ==
  /\ request[n] # NoRequest
  /\ TimeOut(n)
  /\ UNCHANGED disk

Next ==
  \E n \in Nodes : \/ \E q \in Requests : Ask(n, q)
                   \/ Serve(n)
                   \/ LoseAnswer(n)
                   \/ LoseRequest(n)

Spec == Init /\ [][Next]_vars

-----------------------------------------------------------------------------
(* Properties.                                                             *)

\* Type invariant: tarballs have small blocks, BlockFiles large ones.
TypeOK ==
  /\ tar \in [Nodes -> SUBSET Name]
  /\ onDisk \subseteq Large
  /\ acct \in [Large -> SUBSET (Nodes \X MetaKeys)]
  /\ request \in [Nodes -> Requests \cup {NoRequest}]
  /\ timeouts \in [Nodes -> 0 .. MaxTimeouts - 1]
  /\ owed \subseteq Nodes \X Blocks \X MetaKeys
  /\ doubt \subseteq Nodes \X Blocks \X MetaKeys

\* RETRIEVE: the block is served from its BlockFile, or else from n's tarball,
\* and the metadata from the same place.
Retrieves(n, b) == b \in onDisk \/ <<b, Data>> \in tar[n]
RetrievesMeta(n, b, m) ==
  IF b \in onDisk THEN <<n, m>> \in acct[b] ELSE <<b, m>> \in tar[n]

\* What a peer has had acknowledged it can retrieve, block and metadata, until
\* it asks for its deletion: whatever the other peers, or its own requests for
\* the block's other metadata, delete meanwhile, and however often a request is
\* repeated.
Kept ==
  \A o \in owed : Retrieves(o[1], o[2]) /\ RetrievesMeta(o[1], o[2], o[3])

\* Nothing is kept that nobody asked to keep: what is on disk for a peer is
\* owed, being asked for, or of a request whose outcome the peer does not know.
Holds(n, b, m) == <<b, m>> \in tar[n] \/ (b \in Large /\ <<n, m>> \in acct[b])
NothingExtra ==
  \A n \in Nodes : \A b \in Blocks : \A m \in MetaKeys :
    Holds(n, b, m) =>
      \/ <<n, b, m>> \in owed \cup doubt
      \/ request[n] # NoRequest /\ <<b, m>> \in request[n].refs

\* A tarball has a block exactly while it has metadata of it, so that no member
\* stays that no DELETE can remove; and a BlockFile exists exactly while it is
\* accounted to somebody, so that the last DELETE frees its space.
NoOrphans ==
  /\ \A n \in Nodes : \A b \in Small :
       <<b, Data>> \in tar[n] <=> \E m \in MetaKeys : <<b, m>> \in tar[n]
  /\ \A b \in Large : b \in onDisk <=> acct[b] # {}

-----------------------------------------------------------------------------
(* The promise.                                                            *)

\* The references that RETRIEVE serves, block and metadata.
Served ==
  {o \in Nodes \X Blocks \X MetaKeys :
     Retrieves(o[1], o[2]) /\ RetrievesMeta(o[1], o[2], o[3])}

Refs == INSTANCE BlockRefs WITH held <- Served

\* The two layouts on disk keep one promise: each request takes or leaves
\* exactly the references it names, also when it is carried out twice.
ImplementsBlockRefs == Refs!Spec
=============================================================================
