-------------------------- MODULE BlockStore_proofs --------------------------
(***************************************************************************)
(* Proofs about the block store: as long as no DELETE of a tarball member  *)
(* is carried out twice, every peer can retrieve what it has had           *)
(* acknowledged, block and metadata, until it asks for its deletion.       *)
(***************************************************************************)
EXTENDS BlockStore, FiniteSetTheorems, TLAPS

\* The condition: a lost answer never makes the client repeat a DELETE that was
\* carried out on a tarball.
DeletesOnce == "delete" \in Lossy => Small = {}

\* The reference is recorded: in the accounting, or as a member.
Has(n, b, m) == IF b \in Large THEN <<n, m>> \in acct[b] ELSE <<b, m>> \in tar[n]

\* What a peer waits to have deleted it no longer owns.  As it owned it, the
\* reference is still there, unless a DELETE may be carried out twice.
DeletePending ==
  \A n \in Nodes :
    request[n] # NoRequest /\ request[n].op = "delete" =>
      \A r \in request[n].refs :
        /\ <<n, r[1], r[2]>> \notin owed
        /\ "delete" \notin Lossy => Has(n, r[1], r[2])

\* What is owed is recorded.
OwedHeld ==
  \A n \in Nodes : \A b \in Blocks : \A m \in MetaKeys :
    <<n, b, m>> \in owed => Has(n, b, m)

\* The inductive invariant.
IInv ==
  /\ TypeOK
  /\ NoOrphans
  /\ DeletePending
  /\ OwedHeld

-----------------------------------------------------------------------------
(* Tarballs.                                                               *)

\* Member names are finitely many.
LEMMA NamesFinite == ASSUME NEW S \in SUBSET Name PROVE IsFiniteSet(S)
<1>1. IsFiniteSet(MetaKeys \cup {Data})
  BY FS_AddElement, BlockStoreAssumption
<1>2. IsFiniteSet(Name)
  BY <1>1, FS_Product, BlockStoreAssumption DEF Name
<1>3. QED BY <1>2, FS_Subset

\* TarfileUtils.delete removes the members it is to remove, and no other.
LEMMA TarDeleteExact ==
  ASSUME NEW S \in SUBSET Name, NEW G \in SUBSET S
  PROVE  TarDelete(S, G) = S \ G
<1>1. IsFiniteSet(S)
  BY NamesFinite
<1>2. CASE Cardinality(S) = Cardinality(G)
  <2>1. G = S
    BY <1>1, <1>2, FS_Subset
  <2>2. QED BY <1>2, <2>1 DEF TarDelete
<1>3. CASE Cardinality(S) # Cardinality(G)
  BY <1>3 DEF TarDelete
<1>4. QED BY <1>2, <1>3

\* A third member of the block makes more than two.
LEMMA ThreeMembers ==
  ASSUME NEW S, IsFiniteSet(S), NEW x \in S, NEW y \in S, NEW z \in S,
         x # y, x # z, y # z
  PROVE  Cardinality(S) > 2
<1>1. {x, y, z} \subseteq S
  OBVIOUS
<1>2. Cardinality({x}) = 1 /\ IsFiniteSet({x})
  BY FS_Singleton
<1>3. Cardinality({x, y}) = 2 /\ IsFiniteSet({x, y})
  <2>1. {x, y} = {x} \cup {y} /\ y \notin {x}
    OBVIOUS
  <2>2. /\ IsFiniteSet({x} \cup {y})
        /\ Cardinality({x} \cup {y}) = Cardinality({x}) + 1
    BY <1>2, <2>1, FS_AddElement
  <2>3. QED BY <1>2, <2>1, <2>2
<1>4. Cardinality({x, y, z}) = 3
  <2>1. {x, y, z} = {x, y} \cup {z} /\ z \notin {x, y}
    OBVIOUS
  <2>2. Cardinality({x, y} \cup {z}) = Cardinality({x, y}) + 1
    BY <1>3, <2>1, FS_AddElement
  <2>3. QED BY <1>3, <2>1, <2>2
<1>5. Cardinality({x, y, z}) <= Cardinality(S)
  BY <1>1, FS_Subset
<1>6. Cardinality(S) \in Nat
  BY FS_CardinalityType
<1>7. QED BY <1>4, <1>5, <1>6

\* A set of member names has a block exactly if it has metadata of it.
Whole(S) ==
  \A b \in Small : <<b, Data>> \in S <=> \E m \in MetaKeys : <<b, m>> \in S

\* A DELETE of a reference that is there takes it out and leaves every other
\* reference; the block stays while there is one, and leaves with the last.
LEMMA DeleteMemberExact ==
  ASSUME NEW S \in SUBSET Name, NEW b \in Small, NEW m \in MetaKeys,
         Whole(S), <<b, m>> \in S
  PROVE  /\ DeleteMember(S, b, m) \subseteq S
         /\ Whole(DeleteMember(S, b, m))
         /\ \A c \in Blocks, j \in MetaKeys :
              <<c, j>> \in DeleteMember(S, b, m)
                <=> <<c, j>> \in S /\ <<c, j>> # <<b, m>>
<1> DEFINE d == <<b, Data>>
           p == <<b, m>>
           M == MembersOf(S, b)
           D == DeleteMember(S, b, m)
<1>1. d \in S /\ p \in S /\ d # p
  BY BlockStoreAssumption DEF Whole
<1>2. IsFiniteSet(S) /\ IsFiniteSet(M)
  BY NamesFinite, FS_Subset DEF MembersOf
<1>3. Data \notin MetaKeys
  BY BlockStoreAssumption
<1>4. CASE Cardinality(M) > 2
  <2>1. D = TarDelete(S, {p} \cap S)
    BY <1>4 DEF DeleteMember
  <2>2. D = S \ {p}
    <3>1. TarDelete(S, {p} \cap S) = S \ ({p} \cap S)
      BY TarDeleteExact
    <3>2. QED BY <2>1, <3>1
  <2>3. PICK z \in M : z # d /\ z # p
    <3>1. SUFFICES ASSUME M \subseteq {d, p} PROVE FALSE
      OBVIOUS
    <3>2. Cardinality({d}) = 1 /\ IsFiniteSet({d})
      BY FS_Singleton
    <3>3. {d, p} = {d} \cup {p} /\ p \notin {d}
      BY <1>1
    <3>4. /\ IsFiniteSet({d} \cup {p})
          /\ Cardinality({d} \cup {p}) = Cardinality({d}) + 1
      BY <3>2, <3>3, FS_AddElement
    <3>5. Cardinality(M) <= Cardinality({d, p})
      BY <3>1, <3>3, <3>4, FS_Subset
    <3>6. Cardinality(M) \in Nat
      BY <1>2, FS_CardinalityType
    <3>7. QED BY <1>4, <3>2, <3>3, <3>4, <3>5, <3>6
  <2>4. PICK j \in MetaKeys : z = <<b, j>>
    <3>1. z \in Name /\ z[1] = b
      BY <2>3 DEF MembersOf
    <3>2. QED BY <2>3, <3>1 DEF Name
  <2>5. ASSUME NEW c \in Small
        PROVE  <<c, Data>> \in D <=> \E k \in MetaKeys : <<c, k>> \in D
    <3>1. CASE c = b
      <4>1. <<b, j>> \in D /\ <<b, Data>> \in D
        BY <1>1, <2>2, <2>3, <2>4 DEF MembersOf
      <4>2. QED BY <3>1, <4>1
    <3>2. CASE c # b
      BY <2>2, <3>2 DEF Whole
    <3>3. QED BY <3>1, <3>2
  <2>6. Whole(D)
    BY <2>5 DEF Whole
  <2>7. QED BY <2>2, <2>6
<1>5. CASE ~(Cardinality(M) > 2)
  <2>1. D = TarDelete(S, {d, p} \cap S)
    BY <1>1, <1>5 DEF DeleteMember, Pruned
  <2>2. D = S \ {d, p}
    <3>1. TarDelete(S, {d, p} \cap S) = S \ ({d, p} \cap S)
      BY TarDeleteExact
    <3>2. QED BY <2>1, <3>1
  <2>3. ASSUME NEW x \in S, x[1] = b PROVE x \in {d, p}
    <3>1. SUFFICES ASSUME x # d, x # p PROVE FALSE
      OBVIOUS
    <3>2. x \in M /\ d \in M /\ p \in M
      BY <1>1, <2>3 DEF MembersOf
    <3>3. Cardinality(M) > 2
      BY <1>1, <1>2, <3>1, <3>2, ThreeMembers
    <3>4. QED BY <1>5, <3>3
  <2>4. ASSUME NEW c \in Small
        PROVE  <<c, Data>> \in D <=> \E k \in MetaKeys : <<c, k>> \in D
    <3>1. CASE c = b
      BY <2>2, <2>3, <3>1
    <3>2. CASE c # b
      BY <2>2, <3>2 DEF Whole
    <3>3. QED BY <3>1, <3>2
  <2>5. Whole(D)
    BY <2>4 DEF Whole
  <2>6. ASSUME NEW c \in Blocks, NEW j \in MetaKeys
        PROVE  <<c, j>> \in D <=> <<c, j>> \in S /\ <<c, j>> # p
    BY <1>3, <2>2
  <2>7. QED BY <2>2, <2>5, <2>6
<1>6. QED BY <1>4, <1>5

-----------------------------------------------------------------------------
(* The handlers.                                                           *)

\* The disk is well-formed.
DiskOK ==
  /\ tar \in [Nodes -> SUBSET Name]
  /\ onDisk \subseteq Large
  /\ acct \in [Large -> SUBSET (Nodes \X MetaKeys)]
  /\ \A n \in Nodes : Whole(tar[n])
  /\ \A b \in Large : b \in onDisk <=> acct[b] # {}

\* The effects a request can have on the references that are recorded.
Adds(n, R) ==
  \A k \in Nodes, c \in Blocks, j \in MetaKeys :
    Has(k, c, j)' <=> Has(k, c, j) \/ (k = n /\ <<c, j>> \in R)

Takes(n, R) ==
  \A k \in Nodes, c \in Blocks, j \in MetaKeys :
    Has(k, c, j)' <=> Has(k, c, j) /\ ~(k = n /\ <<c, j>> \in R)

Leaves ==
  \A k \in Nodes, c \in Blocks, j \in MetaKeys : Has(k, c, j)' <=> Has(k, c, j)

\* A step that does not touch the disk.
LEMMA DiskSame ==
  ASSUME DiskOK, UNCHANGED disk
  PROVE  DiskOK' /\ Leaves
BY DEF DiskOK, Whole, disk, Leaves, Has

\* The request that is carried out, by its operation.
LEMMA RequestShape ==
  ASSUME NEW q \in Requests
  PROVE  /\ q.op \in Ops
         /\ q.refs \subseteq Ref
         /\ q.op = "tar" => q.refs \subseteq Small \X MetaKeys
         /\ q.op = "direct" => q.refs \subseteq Large \X MetaKeys
         /\ q.op # "tar" => \E r \in Ref : q.refs = {r}
  BY DEF Requests, Ops, Ref, Blocks

\* A STORE of several references into the tarball records these.
LEMMA StoreTarAdds ==
  ASSUME DiskOK, NEW n \in Nodes, NEW R \in SUBSET (Small \X MetaKeys),
         StoreTar(n, R)
  PROVE  DiskOK' /\ Adds(n, R)
<1> DEFINE B == {<<r[1], Data>> : r \in R}
<1>1. R \subseteq Name /\ B \subseteq Name
  BY DEF Name
<1>2. /\ tar' = [tar EXCEPT ![n] = @ \cup R \cup B]
      /\ UNCHANGED <<onDisk, acct>>
  BY DEF StoreTar
<1>3. tar' \in [Nodes -> SUBSET Name]
  BY <1>1, <1>2 DEF DiskOK
<1>4. /\ tar'[n] = tar[n] \cup R \cup B
      /\ \A k \in Nodes \ {n} : tar'[k] = tar[k]
  BY <1>2 DEF DiskOK
<1>5. ASSUME NEW c, NEW j
      PROVE  <<c, j>> \in B <=> j = Data /\ \E m \in MetaKeys : <<c, m>> \in R
  <2>1. ASSUME <<c, j>> \in B
        PROVE  j = Data /\ \E m \in MetaKeys : <<c, m>> \in R
    <3>1. PICK r \in R : <<c, j>> = <<r[1], Data>>
      BY <2>1
    <3>2. r = <<c, r[2]>> /\ r[2] \in MetaKeys /\ j = Data
      BY <3>1
    <3>3. QED BY <3>2
  <2>2. ASSUME j = Data, NEW m \in MetaKeys, <<c, m>> \in R
        PROVE  <<c, j>> \in B
    BY <2>2
  <2>3. QED BY <2>1, <2>2
<1> HIDE DEF B
<1>6. Data \notin MetaKeys
  BY BlockStoreAssumption
<1>7. Whole(tar'[n])
  <2>1. SUFFICES ASSUME NEW c \in Small
                 PROVE  <<c, Data>> \in tar'[n]
                          <=> \E m \in MetaKeys : <<c, m>> \in tar'[n]
    BY DEF Whole
  <2>2. <<c, Data>> \notin R
    BY <1>6
  <2>3. \A m \in MetaKeys : <<c, m>> \notin B
    BY <1>5, <1>6
  <2>4. <<c, Data>> \in tar[n] <=> \E m \in MetaKeys : <<c, m>> \in tar[n]
    BY DEF DiskOK, Whole
  <2>5. QED BY <1>4, <1>5, <2>2, <2>3, <2>4
<1>8. \A k \in Nodes : Whole(tar'[k])
  BY <1>4, <1>7 DEF DiskOK
<1>9. DiskOK'
  BY <1>2, <1>3, <1>8 DEF DiskOK, Whole
<1>10. ASSUME NEW k \in Nodes, NEW c \in Blocks, NEW j \in MetaKeys
       PROVE  Has(k, c, j)' <=> Has(k, c, j) \/ (k = n /\ <<c, j>> \in R)
  <2>1. <<c, j>> \notin B
    BY <1>5, <1>6
  <2>2. c \in Large => <<c, j>> \notin R
    BY BlockStoreAssumption
  <2>3. QED BY <1>2, <1>4, <2>1, <2>2 DEF Has
<1>11. QED BY <1>9, <1>10 DEF Adds

\* A STORE of a block of its own records it, whether the BlockFile is there or
\* not.
LEMMA StoreDirectAdds ==
  ASSUME DiskOK, NEW n \in Nodes, NEW b \in Large, NEW m \in MetaKeys,
         StoreDirect(n, b, m)
  PROVE  DiskOK' /\ Adds(n, {<<b, m>>})
<1>1. /\ tar' = tar /\ onDisk' = onDisk \cup {b}
      /\ acct' = [acct EXCEPT ![b] = acct[b] \cup {<<n, m>>}]
  <2>1. CASE b \in onDisk
    BY <2>1 DEF StoreDirect, Recorded
  <2>2. CASE b \notin onDisk
    <3>1. acct[b] = {}
      BY <2>2 DEF DiskOK
    <3>2. QED BY <2>2, <3>1 DEF StoreDirect
  <2>3. QED BY <2>1, <2>2
<1>2. /\ acct'[b] = acct[b] \cup {<<n, m>>}
      /\ \A c \in Large \ {b} : acct'[c] = acct[c]
  BY <1>1 DEF DiskOK
<1>3. DiskOK'
  <2>1. /\ tar' \in [Nodes -> SUBSET Name]
        /\ \A k \in Nodes : Whole(tar'[k])
    BY <1>1 DEF DiskOK
  <2>2. /\ onDisk' \subseteq Large
        /\ acct' \in [Large -> SUBSET (Nodes \X MetaKeys)]
    BY <1>1, <1>2 DEF DiskOK
  <2>3. \A c \in Large : c \in onDisk' <=> acct'[c] # {}
    BY <1>1, <1>2 DEF DiskOK
  <2>4. QED BY <2>1, <2>2, <2>3 DEF DiskOK, Whole
<1>4. QED BY <1>1, <1>2, <1>3 DEF Adds, Has

\* VERIFY records a reference if it finds the block, and else does nothing.
LEMMA VerifyAdds ==
  ASSUME DiskOK, NEW n \in Nodes, NEW b \in Blocks, NEW m \in MetaKeys,
         Verify(n, b, m)
  PROVE  /\ DiskOK'
         /\ Verifies(n, b) => Adds(n, {<<b, m>>})
         /\ ~Verifies(n, b) => Leaves
<1>1. CASE b \in onDisk
  <2>1. /\ tar' = tar /\ onDisk' = onDisk /\ b \in Large
        /\ acct' = [acct EXCEPT ![b] = acct[b] \cup {<<n, m>>}]
    BY <1>1 DEF Verify, Verifies, DiskOK
  <2>2. /\ acct'[b] = acct[b] \cup {<<n, m>>}
        /\ \A c \in Large \ {b} : acct'[c] = acct[c]
    BY <2>1 DEF DiskOK
  <2>3. DiskOK'
    <3>1. /\ tar' \in [Nodes -> SUBSET Name]
          /\ \A k \in Nodes : Whole(tar'[k])
      BY <2>1 DEF DiskOK
    <3>2. /\ onDisk' \subseteq Large
          /\ acct' \in [Large -> SUBSET (Nodes \X MetaKeys)]
      BY <2>1, <2>2 DEF DiskOK
    <3>3. \A c \in Large : c \in onDisk' <=> acct'[c] # {}
      BY <1>1, <2>1, <2>2 DEF DiskOK
    <3>4. QED BY <3>1, <3>2, <3>3 DEF DiskOK, Whole
  <2>4. Verifies(n, b)
    BY <1>1 DEF Verifies
  <2>5. QED BY <2>1, <2>2, <2>3, <2>4 DEF Adds, Has
<1>2. CASE b \notin onDisk /\ <<b, Data>> \in tar[n]
  <2>1. /\ acct' = acct /\ onDisk' = onDisk
        /\ tar' = [tar EXCEPT ![n] = tar[n] \cup {<<b, m>>}]
    BY <1>2 DEF Verify, Verifies
  <2>2. /\ tar'[n] = tar[n] \cup {<<b, m>>}
        /\ \A k \in Nodes \ {n} : tar'[k] = tar[k]
    BY <2>1 DEF DiskOK
  <2>3. b \in Small /\ <<b, m>> \in Name /\ b \notin Large
    BY <1>2, BlockStoreAssumption DEF DiskOK, Name
  <2>4. tar' \in [Nodes -> SUBSET Name]
    BY <2>1, <2>3 DEF DiskOK
  <2>5. Whole(tar'[n])
    <3>1. Data \notin MetaKeys
      BY BlockStoreAssumption
    <3>2. QED BY <1>2, <2>2, <3>1 DEF DiskOK, Whole
  <2>6. DiskOK'
    <3>1. \A k \in Nodes : Whole(tar'[k])
      BY <2>2, <2>5 DEF DiskOK
    <3>2. QED BY <2>1, <2>4, <3>1 DEF DiskOK, Whole
  <2>7. Verifies(n, b)
    BY <1>2 DEF Verifies
  <2>8. QED BY <2>1, <2>2, <2>3, <2>6, <2>7 DEF Adds, Has
<1>3. CASE ~Verifies(n, b)
  <2>1. UNCHANGED disk
    BY <1>3 DEF Verify, Verifies
  <2>2. QED BY <1>3, <2>1, DiskSame
<1>4. QED BY <1>1, <1>2, <1>3 DEF Verifies

\* DELETE takes one reference and leaves the others, of the same peer and of
\* every other one, provided the reference is there.
LEMMA DeleteTakes ==
  ASSUME DiskOK, NEW n \in Nodes, NEW b \in Blocks, NEW m \in MetaKeys,
         Has(n, b, m) \/ Small = {},
         Delete(n, b, m)
  PROVE  DiskOK' /\ Takes(n, {<<b, m>>})
<1>1. CASE b \in Small
  <2> DEFINE D == DeleteMember(tar[n], b, m)
  <2>1. b \notin onDisk /\ b \notin Large
    BY <1>1, BlockStoreAssumption DEF DiskOK
  <2>2. /\ tar[n] \in SUBSET Name
        /\ Whole(tar[n])
        /\ <<b, m>> \in tar[n]
    BY <1>1, <2>1 DEF DiskOK, Has
  <2>3. /\ acct' = acct /\ onDisk' = onDisk
        /\ tar' = [tar EXCEPT ![n] = D]
    BY <1>1, <2>1, <2>2 DEF Delete
  <2>4. /\ D \subseteq tar[n]
        /\ Whole(D)
        /\ \A c \in Blocks, j \in MetaKeys :
             <<c, j>> \in D <=> <<c, j>> \in tar[n] /\ <<c, j>> # <<b, m>>
    BY <1>1, <2>2, DeleteMemberExact
  <2> HIDE DEF D
  <2>5. /\ tar'[n] = D
        /\ \A k \in Nodes \ {n} : tar'[k] = tar[k]
        /\ tar' \in [Nodes -> SUBSET Name]
    BY <2>2, <2>3, <2>4 DEF DiskOK
  <2>6. DiskOK'
    <3>1. \A k \in Nodes : Whole(tar'[k])
      BY <2>4, <2>5 DEF DiskOK
    <3>2. QED BY <2>3, <2>5, <3>1 DEF DiskOK, Whole
  <2>7. QED BY <2>1, <2>3, <2>4, <2>5, <2>6 DEF Takes, Has
<1>2. CASE b \in Large /\ b \in onDisk /\ HasNode(b, n)
  <2>1. /\ tar' = tar
        /\ acct' = [acct EXCEPT ![b] = acct[b] \ {<<n, m>>}]
        /\ onDisk' = IF acct[b] \ {<<n, m>>} = {} THEN onDisk \ {b} ELSE onDisk
    BY <1>2 DEF Delete, DelNode, FilesAfter
  <2>2. /\ acct'[b] = acct[b] \ {<<n, m>>}
        /\ \A c \in Large \ {b} : acct'[c] = acct[c]
    BY <1>2, <2>1 DEF DiskOK
  <2>3. DiskOK'
    BY <1>2, <2>1, <2>2 DEF DiskOK, Whole
  <2>4. b \notin Small
    BY <1>2, BlockStoreAssumption
  <2>5. QED BY <1>2, <2>1, <2>2, <2>3, <2>4 DEF Takes, Has
<1>3. CASE b \in Large /\ b \in onDisk /\ ~HasNode(b, n)
  <2>1. UNCHANGED disk
    BY <1>3 DEF Delete
  <2>2. ~Has(n, b, m)
    BY <1>3 DEF Has, HasNode
  <2>3. QED BY <2>1, <2>2, DiskSame DEF Takes, Leaves
<1>4. CASE b \in Large /\ b \notin onDisk
  <2>1. ~Has(n, b, m)
    BY <1>4 DEF DiskOK, Has
  <2>2. tar[n] = {}
    BY <2>1 DEF DiskOK, Name
  <2>3. UNCHANGED disk
    BY <1>4, <2>2 DEF Delete, DiskOK, disk
  <2>4. QED BY <2>1, <2>3, DiskSame DEF Takes, Leaves
<1>5. QED BY <1>1, <1>2, <1>3, <1>4 DEF Blocks

\* Whatever request the server carries out, it adds or takes exactly the
\* references that are named in it.
LEMMA HandleExact ==
  ASSUME IInv, DeletesOnce, NEW n \in Nodes, request[n] # NoRequest,
         Handle(n, request[n])
  PROVE  /\ DiskOK'
         /\ \/ /\ request[n].op # "delete"
               /\ Acknowledged(n, request[n])
               /\ Adds(n, request[n].refs)
            \/ /\ request[n].op = "verify"
               /\ ~Acknowledged(n, request[n])
               /\ Leaves
            \/ /\ request[n].op = "delete"
               /\ ~Acknowledged(n, request[n])
               /\ Takes(n, request[n].refs)
<1> DEFINE q == request[n]
<1>1. DiskOK
  BY DEF IInv, TypeOK, NoOrphans, DiskOK, Whole
<1>2. /\ q.op \in Ops
      /\ q.refs \subseteq Ref
      /\ q.op = "tar" => q.refs \subseteq Small \X MetaKeys
      /\ q.op = "direct" => q.refs \subseteq Large \X MetaKeys
      /\ q.op # "tar" => \E r \in Ref : q.refs = {r}
  <2>1. q \in Requests
    BY DEF IInv, TypeOK
  <2>2. QED BY <2>1, RequestShape
<1>3. CASE q.op = "tar"
  <2>1. StoreTar(n, q.refs)
    BY <1>3 DEF Handle
  <2>2. DiskOK' /\ Adds(n, q.refs)
    BY <1>1, <1>2, <1>3, <2>1, StoreTarAdds
  <2>3. QED BY <1>3, <2>2 DEF Acknowledged
<1>4. CASE q.op = "direct"
  <2>1. PICK r \in q.refs : StoreDirect(n, r[1], r[2])
    BY <1>4 DEF Handle
  <2>2. r[1] \in Large /\ r[2] \in MetaKeys /\ q.refs = {<<r[1], r[2]>>}
    BY <1>2, <1>4
  <2>3. DiskOK' /\ Adds(n, {<<r[1], r[2]>>})
    BY <1>1, <2>1, <2>2, StoreDirectAdds
  <2>4. QED BY <1>4, <2>2, <2>3 DEF Acknowledged
<1>5. CASE q.op = "verify"
  <2>1. PICK r \in q.refs : Verify(n, r[1], r[2])
    BY <1>5 DEF Handle
  <2>2. r[1] \in Blocks /\ r[2] \in MetaKeys /\ q.refs = {<<r[1], r[2]>>}
    BY <1>2, <1>5 DEF Ref
  <2>3. /\ DiskOK'
        /\ Verifies(n, r[1]) => Adds(n, {<<r[1], r[2]>>})
        /\ ~Verifies(n, r[1]) => Leaves
    BY <1>1, <2>1, <2>2, VerifyAdds
  <2>4. Acknowledged(n, q) <=> Verifies(n, r[1])
    BY <1>5, <2>1, <2>2 DEF Acknowledged
  <2>5. QED BY <1>5, <2>2, <2>3, <2>4
<1>6. CASE q.op = "delete"
  <2>1. PICK r \in q.refs : Delete(n, r[1], r[2])
    BY <1>6 DEF Handle
  <2>2. r[1] \in Blocks /\ r[2] \in MetaKeys /\ q.refs = {<<r[1], r[2]>>}
    BY <1>2, <1>6 DEF Ref
  <2>3. Has(n, r[1], r[2]) \/ Small = {}
    BY <1>6, <2>1 DEF IInv, DeletePending, DeletesOnce
  <2>4. DiskOK' /\ Takes(n, {<<r[1], r[2]>>})
    BY <1>1, <2>1, <2>2, <2>3, DeleteTakes
  <2>5. QED BY <1>6, <2>2, <2>4 DEF Acknowledged
<1>7. QED BY <1>2, <1>3, <1>4, <1>5, <1>6 DEF Ops

\* So it takes no reference but the one it is told to delete, and what it
\* acknowledges is recorded.
LEMMA HandleHolds ==
  ASSUME IInv, DeletesOnce, NEW n \in Nodes, request[n] # NoRequest,
         Handle(n, request[n])
  PROVE  /\ DiskOK'
         /\ \A k \in Nodes, c \in Blocks, j \in MetaKeys :
              \/ Has(k, c, j) => Has(k, c, j)'
              \/ /\ request[n].op = "delete"
                 /\ k = n /\ <<c, j>> \in request[n].refs
         /\ Acknowledged(n, request[n]) =>
              \A r \in request[n].refs : Has(n, r[1], r[2])'
<1> DEFINE q == request[n]
<1>1. \A r \in q.refs : r[1] \in Blocks /\ r[2] \in MetaKeys /\ <<r[1], r[2]>> \in q.refs
  <2>1. q \in Requests
    BY DEF IInv, TypeOK
  <2>2. q.refs \subseteq Ref
    BY <2>1, RequestShape
  <2>3. QED BY <2>2 DEF Ref
<1>2. QED BY <1>1, HandleExact DEF Adds, Takes, Leaves

-----------------------------------------------------------------------------
(* The invariant.                                                          *)

\* The store starts empty.
LEMMA InitIInv == Init => IInv
<1> SUFFICES ASSUME Init PROVE IInv
  OBVIOUS
<1>1. TypeOK
  BY BlockStoreAssumption DEF Init, TypeOK
<1>2. QED BY <1>1 DEF Init, IInv, NoOrphans, DeletePending, OwedHeld

\* References are triples of the right kinds.
LEMMA OfType ==
  ASSUME NEW n \in Nodes, NEW R \in SUBSET Ref
  PROVE  Of(n, R) \subseteq Nodes \X Blocks \X MetaKeys
BY DEF Of, Ref

\* The part of the state that TimeOut changes keeps its type.
LEMMA TimeOutType ==
  ASSUME TypeOK, NEW n \in Nodes, request[n] # NoRequest, TimeOut(n)
  PROVE  /\ request' \in [Nodes -> Requests \cup {NoRequest}]
         /\ timeouts' \in [Nodes -> 0 .. MaxTimeouts - 1]
         /\ owed' = owed
         /\ doubt' \subseteq Nodes \X Blocks \X MetaKeys
         /\ \A k \in Nodes : request'[k] \in {request[k], NoRequest}
<1>1. Of(n, request[n].refs) \subseteq Nodes \X Blocks \X MetaKeys
  <2>1. request[n] \in Requests
    BY DEF TypeOK
  <2>2. QED BY <2>1, RequestShape, OfType
<1>2. MaxTimeouts \in Nat \ {0}
  BY BlockStoreAssumption
<1>3. CASE ~LastTry(n)
  BY <1>2, <1>3 DEF TimeOut, LastTry, TypeOK
<1>4. CASE LastTry(n)
  BY <1>1, <1>2, <1>4 DEF TimeOut, TypeOK
<1>5. QED BY <1>3, <1>4

\* Asking for a deletion disowns the reference while it is still there.
LEMMA AskIInv ==
  ASSUME IInv, NEW n \in Nodes, NEW q \in Requests, Ask(n, q)
  PROVE  IInv'
<1>1. /\ UNCHANGED <<tar, onDisk, acct, timeouts, doubt>>
      /\ request' = [request EXCEPT ![n] = q]
      /\ owed' \subseteq owed
      /\ q.op = "delete" => /\ Of(n, q.refs) \subseteq owed
                            /\ owed' = owed \ Of(n, q.refs)
  BY DEF Ask, disk
<1>2. TypeOK'
  BY <1>1 DEF IInv, TypeOK
<1>3. NoOrphans' /\ OwedHeld'
  BY <1>1 DEF IInv, NoOrphans, OwedHeld, Has
<1>4. DeletePending'
  <2>1. SUFFICES ASSUME NEW k \in Nodes, request'[k] # NoRequest,
                        request'[k].op = "delete", NEW r \in request'[k].refs
                 PROVE  /\ <<k, r[1], r[2]>> \notin owed'
                        /\ "delete" \notin Lossy => Has(k, r[1], r[2])'
    BY DEF DeletePending
  <2>2. Has(k, r[1], r[2])' <=> Has(k, r[1], r[2])
    BY <1>1 DEF Has
  <2>3. CASE k # n
    <3>1. request'[k] = request[k]
      BY <1>1, <2>3 DEF IInv, TypeOK
    <3>2. QED BY <1>1, <2>1, <2>2, <3>1 DEF IInv, DeletePending
  <2>4. CASE k = n
    <3>1. request'[n] = q
      BY <1>1 DEF IInv, TypeOK
    <3>2. <<n, r[1], r[2]>> \in Of(n, q.refs)
      BY <2>1, <2>4, <3>1 DEF Of
    <3>3. r[1] \in Blocks /\ r[2] \in MetaKeys
      BY <2>1, <2>4, <3>1, RequestShape DEF Ref
    <3>4. Has(n, r[1], r[2])
      BY <1>1, <2>1, <2>4, <3>1, <3>2, <3>3 DEF IInv, OwedHeld
    <3>5. QED BY <1>1, <2>1, <2>2, <2>4, <3>1, <3>2, <3>4
  <2>5. QED BY <2>3, <2>4
<1>5. QED BY <1>2, <1>3, <1>4 DEF IInv

\* An answered request: what is acknowledged becomes owed, and is held.
LEMMA ServeIInv ==
  ASSUME IInv, DeletesOnce, NEW n \in Nodes, Serve(n)
  PROVE  IInv'
<1> DEFINE q == request[n]
<1>1. /\ q # NoRequest /\ Handle(n, q)
      /\ owed' = IF Acknowledged(n, q) THEN owed \cup Of(n, q.refs) ELSE owed
      /\ doubt' \subseteq doubt
      /\ request' = [request EXCEPT ![n] = NoRequest]
      /\ timeouts' = [timeouts EXCEPT ![n] = 0]
  BY DEF Serve
<1>2. /\ DiskOK'
      /\ \A k \in Nodes, c \in Blocks, j \in MetaKeys :
           \/ Has(k, c, j) => Has(k, c, j)'
           \/ q.op = "delete" /\ k = n /\ <<c, j>> \in q.refs
      /\ Acknowledged(n, q) => \A r \in q.refs : Has(n, r[1], r[2])'
  BY <1>1, HandleHolds
<1>3. q \in Requests /\ q.refs \subseteq Ref
  BY <1>1, RequestShape DEF IInv, TypeOK
<1>4. TypeOK'
  <2>1. Of(n, q.refs) \subseteq Nodes \X Blocks \X MetaKeys
    BY <1>3, OfType
  <2>2. 0 \in 0 .. MaxTimeouts - 1
    BY BlockStoreAssumption
  <2>3. QED BY <1>1, <1>2, <2>1, <2>2 DEF IInv, TypeOK, DiskOK
<1>5. NoOrphans'
  BY <1>2 DEF DiskOK, Whole, NoOrphans
<1>6. DeletePending'
  <2>1. SUFFICES ASSUME NEW k \in Nodes, request'[k] # NoRequest,
                        request'[k].op = "delete", NEW r \in request'[k].refs
                 PROVE  /\ <<k, r[1], r[2]>> \notin owed'
                        /\ "delete" \notin Lossy => Has(k, r[1], r[2])'
    BY DEF DeletePending
  <2>2. k # n /\ request'[k] = request[k]
    BY <1>1, <2>1 DEF IInv, TypeOK
  <2>3. /\ <<k, r[1], r[2]>> \notin owed
        /\ "delete" \notin Lossy => Has(k, r[1], r[2])
    BY <2>1, <2>2 DEF IInv, DeletePending
  <2>4. <<k, r[1], r[2]>> \notin Of(n, q.refs)
    BY <2>2 DEF Of
  <2>5. r[1] \in Blocks /\ r[2] \in MetaKeys
    <3>1. request[k] \in Requests
      BY <2>1, <2>2 DEF IInv, TypeOK
    <3>2. QED BY <2>1, <2>2, <3>1, RequestShape DEF Ref
  <2>6. QED BY <1>1, <1>2, <2>2, <2>3, <2>4, <2>5
<1>7. OwedHeld'
  <2>1. SUFFICES ASSUME NEW k \in Nodes, NEW c \in Blocks, NEW j \in MetaKeys,
                        <<k, c, j>> \in owed'
                 PROVE  Has(k, c, j)'
    BY DEF OwedHeld
  <2>2. CASE <<k, c, j>> \in owed
    <3>1. ~(q.op = "delete" /\ k = n /\ <<c, j>> \in q.refs)
      BY <1>1, <2>2 DEF IInv, DeletePending
    <3>2. QED BY <1>2, <2>2, <3>1 DEF IInv, OwedHeld
  <2>3. CASE <<k, c, j>> \notin owed
    <3>1. Acknowledged(n, q) /\ <<k, c, j>> \in Of(n, q.refs)
      BY <1>1, <2>1, <2>3
    <3>2. PICK r \in q.refs : <<k, c, j>> = <<n, r[1], r[2]>>
      BY <3>1 DEF Of
    <3>3. k = n /\ c = r[1] /\ j = r[2]
      BY <3>2
    <3>4. QED BY <1>2, <3>1, <3>3
  <2>4. QED BY <2>2, <2>3
<1>8. QED BY <1>4, <1>5, <1>6, <1>7 DEF IInv

\* A request that times out, whether the server has carried it out or not.
LEMMA LoseIInv ==
  ASSUME IInv, DeletesOnce, NEW n \in Nodes, LoseAnswer(n) \/ LoseRequest(n)
  PROVE  IInv'
<1> DEFINE q == request[n]
<1>1. q # NoRequest /\ TimeOut(n)
  BY DEF LoseAnswer, LoseRequest
<1>2. /\ request' \in [Nodes -> Requests \cup {NoRequest}]
      /\ timeouts' \in [Nodes -> 0 .. MaxTimeouts - 1]
      /\ owed' = owed
      /\ doubt' \subseteq Nodes \X Blocks \X MetaKeys
      /\ \A k \in Nodes : request'[k] \in {request[k], NoRequest}
  BY <1>1, TimeOutType DEF IInv
<1>3. /\ DiskOK'
      /\ \A k \in Nodes, c \in Blocks, j \in MetaKeys :
           \/ Has(k, c, j) => Has(k, c, j)'
           \/ /\ "delete" \in Lossy
              /\ q.op = "delete" /\ k = n /\ <<c, j>> \in q.refs
  <2>1. CASE LoseAnswer(n)
    <3>1. q.op \in Lossy /\ Handle(n, q)
      BY <2>1 DEF LoseAnswer
    <3>2. QED BY <1>1, <3>1, HandleHolds
  <2>2. CASE LoseRequest(n)
    <3>1. UNCHANGED disk
      BY <2>2 DEF LoseRequest
    <3>2. DiskOK
      BY DEF IInv, TypeOK, NoOrphans, DiskOK, Whole
    <3>3. QED BY <3>1, <3>2, DiskSame DEF Leaves
  <2>3. QED BY <2>1, <2>2
<1>4. TypeOK'
  BY <1>2, <1>3 DEF IInv, TypeOK, DiskOK
<1>5. DeletePending'
  <2>1. SUFFICES ASSUME NEW k \in Nodes, request'[k] # NoRequest,
                        request'[k].op = "delete", NEW r \in request'[k].refs
                 PROVE  /\ <<k, r[1], r[2]>> \notin owed'
                        /\ "delete" \notin Lossy => Has(k, r[1], r[2])'
    BY DEF DeletePending
  <2>2. request'[k] = request[k]
    BY <1>2, <2>1
  <2>3. /\ <<k, r[1], r[2]>> \notin owed
        /\ "delete" \notin Lossy => Has(k, r[1], r[2])
    BY <2>1, <2>2 DEF IInv, DeletePending
  <2>4. r[1] \in Blocks /\ r[2] \in MetaKeys
    <3>1. request[k] \in Requests
      BY <2>1, <2>2 DEF IInv, TypeOK
    <3>2. QED BY <2>1, <2>2, <3>1, RequestShape DEF Ref
  <2>5. QED BY <1>2, <1>3, <2>3, <2>4
<1>6. OwedHeld'
  <2>1. SUFFICES ASSUME NEW k \in Nodes, NEW c \in Blocks, NEW j \in MetaKeys,
                        <<k, c, j>> \in owed
                 PROVE  Has(k, c, j)'
    BY <1>2 DEF OwedHeld
  <2>2. ~(q.op = "delete" /\ k = n /\ <<c, j>> \in q.refs)
    BY <1>1, <2>1 DEF IInv, DeletePending
  <2>3. QED BY <1>3, <2>1, <2>2 DEF IInv, OwedHeld
<1>7. NoOrphans'
  BY <1>3 DEF DiskOK, Whole, NoOrphans
<1>8. QED BY <1>4, <1>5, <1>6, <1>7 DEF IInv

\* Every step preserves the invariant.
LEMMA NextIInv ==
  ASSUME IInv, DeletesOnce, [Next]_vars
  PROVE  IInv'
<1>1. CASE Next
  <2>1. PICK n \in Nodes : \/ \E q \in Requests : Ask(n, q)
                           \/ Serve(n)
                           \/ LoseAnswer(n)
                           \/ LoseRequest(n)
    BY <1>1 DEF Next
  <2>2. QED BY <2>1, AskIInv, ServeIInv, LoseIInv
<1>2. CASE UNCHANGED vars
  BY <1>2 DEF vars, disk, IInv, TypeOK, NoOrphans,
              DeletePending, OwedHeld, Has
<1>3. QED BY <1>1, <1>2

\* While no DELETE on a tarball is carried out twice, what the handlers leave
\* on disk agrees with what the peers are owed.
THEOREM Invariance == ASSUME DeletesOnce PROVE Spec => []IInv
<1>1. IInv /\ [Next]_vars => IInv'
  BY NextIInv
<1>2. QED BY <1>1, InitIInv, PTL DEF Spec

\* Small blocks are in tarballs, large ones in BlockFiles, and every client
\* counts its timeouts below the limit.
THEOREM TypeCorrect == ASSUME DeletesOnce PROVE Spec => []TypeOK
<1>1. IInv => TypeOK
  BY DEF IInv
<1>2. QED BY <1>1, Invariance, PTL

\* What a peer has had acknowledged it can retrieve until it asks for its
\* deletion, for any number of peers, blocks and lost or repeated requests.
THEOREM BlocksKept == ASSUME DeletesOnce PROVE Spec => []Kept
<1>1. ASSUME IInv PROVE Kept
  <2>1. SUFFICES ASSUME NEW n \in Nodes, NEW b \in Blocks, NEW m \in MetaKeys,
                        <<n, b, m>> \in owed
                 PROVE  Retrieves(n, b) /\ RetrievesMeta(n, b, m)
    BY <1>1 DEF Kept, IInv, TypeOK
  <2>2. Has(n, b, m)
    BY <1>1, <2>1 DEF IInv, OwedHeld
  <2>3. CASE b \in Large
    BY <1>1, <2>2, <2>3
    DEF IInv, NoOrphans, Has, Retrieves, RetrievesMeta
  <2>4. CASE b \notin Large
    <3>1. <<b, m>> \in tar[n] /\ b \notin onDisk
      BY <1>1, <2>2, <2>4 DEF Has, IInv, TypeOK
    <3>2. b \in Small
      BY <2>4 DEF Blocks
    <3>3. <<b, Data>> \in tar[n]
      BY <1>1, <3>1, <3>2 DEF IInv, NoOrphans
    <3>4. QED BY <3>1, <3>3 DEF Retrieves, RetrievesMeta
  <2>5. QED BY <2>3, <2>4
<1>2. QED BY <1>1, Invariance, PTL

\* No member stays that no DELETE can remove, and no BlockFile that is kept for
\* nobody, for any number of peers, blocks and lost or repeated requests.
THEOREM SpaceFreed == ASSUME DeletesOnce PROVE Spec => []NoOrphans
<1>1. IInv => NoOrphans
  BY DEF IInv
<1>2. QED BY <1>1, Invariance, PTL

-----------------------------------------------------------------------------
(* Nothing extra.                                                          *)

\* What is recorded is owed, being asked for, or in doubt.
Accounted ==
  \A n \in Nodes, b \in Blocks, m \in MetaKeys :
    Has(n, b, m) =>
      \/ <<n, b, m>> \in owed \cup doubt
      \/ request[n] # NoRequest /\ <<b, m>> \in request[n].refs

\* A request that VERIFY refuses names nothing that is recorded.
LEMMA RefusedNotHeld ==
  ASSUME DiskOK, NEW n \in Nodes, NEW b \in Blocks, NEW m \in MetaKeys,
         ~Verifies(n, b)
  PROVE  ~Has(n, b, m)
<1>1. CASE b \in Large
  BY <1>1 DEF DiskOK, Has, Verifies
<1>2. CASE b \notin Large
  <2>1. b \in Small
    BY <1>2 DEF Blocks
  <2>2. QED BY <1>2, <2>1 DEF DiskOK, Whole, Has, Verifies
<1>3. QED BY <1>1, <1>2

LEMMA ServeAccounted ==
  ASSUME IInv, Accounted, DeletesOnce, NEW n \in Nodes, Serve(n)
  PROVE  Accounted'
<1> DEFINE q == request[n]
<1>1. /\ q # NoRequest /\ Handle(n, q)
      /\ owed' = IF Acknowledged(n, q) THEN owed \cup Of(n, q.refs) ELSE owed
      /\ doubt' = IF q.op = "verify" THEN doubt ELSE doubt \ Of(n, q.refs)
      /\ request' = [request EXCEPT ![n] = NoRequest]
      /\ request \in [Nodes -> Requests \cup {NoRequest}]
  BY DEF Serve, IInv, TypeOK
<1>2. q.refs \subseteq Ref /\ (q.op # "tar" => \E r \in Ref : q.refs = {r})
  BY <1>1, RequestShape
<1>3. SUFFICES ASSUME NEW k \in Nodes, NEW b \in Blocks, NEW m \in MetaKeys,
                      Has(k, b, m)'
               PROVE  \/ <<k, b, m>> \in owed' \cup doubt'
                      \/ /\ request'[k] # NoRequest
                         /\ <<b, m>> \in request'[k].refs
  BY DEF Accounted
<1>4. <<k, b, m>> \in Of(n, q.refs) <=> k = n /\ <<b, m>> \in q.refs
  BY <1>2 DEF Of, Ref
<1>5. CASE k = n /\ <<b, m>> \in q.refs
  <2>1. CASE Acknowledged(n, q)
    BY <1>1, <1>4, <1>5, <2>1
  <2>2. CASE ~Acknowledged(n, q)
    <3>1. q.op = "verify" /\ Leaves
      BY <1>1, <1>3, <1>5, <2>2, HandleExact DEF Takes
    <3>2. PICK r \in q.refs : ~Verifies(n, r[1])
      BY <2>2, <3>1 DEF Acknowledged
    <3>3. ~Verifies(n, b)
      BY <1>2, <1>5, <3>1, <3>2
    <3>4. ~Has(k, b, m)
      <4>1. DiskOK
        BY DEF IInv, TypeOK, NoOrphans, DiskOK, Whole
      <4>2. QED BY <1>5, <3>3, <4>1, RefusedNotHeld
    <3>5. QED BY <1>3, <3>1, <3>4 DEF Leaves
  <2>3. QED BY <2>1, <2>2
<1>6. CASE ~(k = n /\ <<b, m>> \in q.refs)
  <2>1. Has(k, b, m)
    BY <1>1, <1>3, <1>6, HandleExact DEF Adds, Takes, Leaves
  <2>2. CASE <<k, b, m>> \in owed \cup doubt
    BY <1>1, <1>4, <1>6, <2>2
  <2>3. CASE request[k] # NoRequest /\ <<b, m>> \in request[k].refs
    BY <1>1, <1>6, <2>3
  <2>4. QED BY <2>1, <2>2, <2>3 DEF Accounted
<1>7. QED BY <1>5, <1>6

LEMMA LoseAccounted ==
  ASSUME IInv, Accounted, DeletesOnce, NEW n \in Nodes,
         LoseAnswer(n) \/ LoseRequest(n)
  PROVE  Accounted'
<1> DEFINE q == request[n]
<1>1. /\ q # NoRequest /\ TimeOut(n)
      /\ request \in [Nodes -> Requests \cup {NoRequest}]
  BY DEF LoseAnswer, LoseRequest, IInv, TypeOK
<1>2. q.refs \subseteq Ref
  BY <1>1, RequestShape
<1>3. SUFFICES ASSUME NEW k \in Nodes, NEW b \in Blocks, NEW m \in MetaKeys,
                      Has(k, b, m)'
               PROVE  \/ <<k, b, m>> \in owed' \cup doubt'
                      \/ /\ request'[k] # NoRequest
                         /\ <<b, m>> \in request'[k].refs
  BY DEF Accounted
<1>4. Has(k, b, m) \/ (k = n /\ <<b, m>> \in q.refs)
  <2>1. CASE LoseAnswer(n)
    <3>1. Handle(n, q)
      BY <2>1 DEF LoseAnswer
    <3>2. QED BY <1>1, <1>3, <3>1, HandleExact DEF Adds, Takes, Leaves
  <2>2. CASE LoseRequest(n)
    BY <1>3, <2>2 DEF LoseRequest, disk, Has
  <2>3. QED BY <2>1, <2>2
<1>5. k = n /\ <<b, m>> \in q.refs => <<k, b, m>> \in Of(n, q.refs)
  BY DEF Of
<1>6. CASE UNCHANGED <<request, owed, doubt>>
  BY <1>1, <1>4, <1>6 DEF Accounted
<1>7. CASE /\ doubt' = doubt \cup (Of(n, q.refs) \ owed)
           /\ request' = [request EXCEPT ![n] = NoRequest]
           /\ UNCHANGED owed
  <2>1. CASE k = n /\ <<b, m>> \in q.refs
    BY <1>5, <1>7, <2>1
  <2>2. CASE ~(k = n /\ <<b, m>> \in q.refs)
    BY <1>1, <1>4, <1>7, <2>2 DEF Accounted
  <2>3. QED BY <2>1, <2>2
<1>8. QED BY <1>1, <1>6, <1>7 DEF TimeOut

LEMMA AskAccounted ==
  ASSUME IInv, Accounted, NEW n \in Nodes, NEW q \in Requests, Ask(n, q)
  PROVE  Accounted'
<1>1. /\ UNCHANGED <<tar, onDisk, acct, doubt>>
      /\ request[n] = NoRequest
      /\ request' = [request EXCEPT ![n] = q]
      /\ owed' = IF q.op = "delete" THEN owed \ Of(n, q.refs) ELSE owed
      /\ request \in [Nodes -> Requests \cup {NoRequest}]
  BY DEF Ask, disk, IInv, TypeOK
<1>2. q.refs \subseteq Ref /\ q # NoRequest
  BY RequestShape, BlockStoreAssumption
<1>3. SUFFICES ASSUME NEW k \in Nodes, NEW b \in Blocks, NEW m \in MetaKeys,
                      Has(k, b, m)'
               PROVE  \/ <<k, b, m>> \in owed' \cup doubt'
                      \/ /\ request'[k] # NoRequest
                         /\ <<b, m>> \in request'[k].refs
  BY DEF Accounted
<1>4. Has(k, b, m)
  BY <1>1, <1>3 DEF Has
<1>5. <<k, b, m>> \in Of(n, q.refs) => k = n /\ <<b, m>> \in q.refs
  BY <1>2 DEF Of, Ref
<1>6. CASE <<k, b, m>> \in owed \cup doubt
  BY <1>1, <1>2, <1>5, <1>6
<1>7. CASE request[k] # NoRequest /\ <<b, m>> \in request[k].refs
  BY <1>1, <1>7
<1>8. QED BY <1>4, <1>6, <1>7 DEF Accounted

\* Nothing is kept for a peer that it did not ask to keep, or asked to delete and
\* got an answer, for any number of peers, blocks and lost or repeated requests.
THEOREM NothingForFree == ASSUME DeletesOnce PROVE Spec => []NothingExtra
<1>1. Init => Accounted
  BY BlockStoreAssumption DEF Init, Accounted, Has
<1>2. ASSUME IInv, Accounted, [Next]_vars PROVE Accounted'
  <2>1. CASE Next
    <3>1. PICK n \in Nodes : \/ \E q \in Requests : Ask(n, q)
                             \/ Serve(n)
                             \/ LoseAnswer(n)
                             \/ LoseRequest(n)
      BY <2>1 DEF Next
    <3>2. QED BY <1>2, <3>1, AskAccounted, ServeAccounted, LoseAccounted
  <2>2. CASE UNCHANGED vars
    BY <1>2, <2>2 DEF vars, Accounted, Has
  <2>3. QED BY <1>2, <2>1, <2>2
<1>3. ASSUME IInv, Accounted PROVE NothingExtra
  <2>1. ASSUME NEW n \in Nodes, NEW b \in Blocks, NEW m \in MetaKeys,
               Holds(n, b, m)
        PROVE  Has(n, b, m)
    <3>1. <<b, m>> \in tar[n] => b \notin Large
      BY <1>3, BlockStoreAssumption DEF IInv, TypeOK, Name
    <3>2. QED BY <2>1, <3>1 DEF Holds, Has
  <2>2. QED BY <1>3, <2>1 DEF NothingExtra, Accounted
<1>4. QED BY <1>1, <1>2, <1>3, Invariance, PTL DEF Spec

-----------------------------------------------------------------------------
(* The promise.                                                            *)

LEMMA IInvDiskOK == IInv => DiskOK
BY DEF IInv, TypeOK, NoOrphans, DiskOK, Whole

\* On a well-formed disk a reference is served exactly if it is recorded.
LEMMA ServedHas ==
  ASSUME DiskOK, NEW n \in Nodes, NEW b \in Blocks, NEW m \in MetaKeys
  PROVE  <<n, b, m>> \in Served <=> Has(n, b, m)
<1>1. CASE b \in Large
  <2>1. b \in onDisk <=> acct[b] # {}
    BY <1>1 DEF DiskOK
  <2>2. b \notin Small
    BY <1>1, BlockStoreAssumption
  <2>3. \A x : <<b, x>> \notin tar[n]
    BY <2>2 DEF DiskOK, Name
  <2>4. QED BY <1>1, <2>1, <2>3 DEF Served, Has, Retrieves, RetrievesMeta
<1>2. CASE b \notin Large
  <2>1. b \in Small /\ b \notin onDisk
    BY <1>2 DEF Blocks, DiskOK
  <2>2. <<b, m>> \in tar[n] => <<b, Data>> \in tar[n]
    BY <2>1 DEF DiskOK, Whole
  <2>3. QED BY <1>2, <2>1, <2>2 DEF Served, Has, Retrieves, RetrievesMeta
<1>3. QED BY <1>1, <1>2

\* The same of the disk after a step.
LEMMA ServedHasNext ==
  ASSUME DiskOK', NEW n \in Nodes, NEW b \in Blocks, NEW m \in MetaKeys
  PROVE  <<n, b, m>> \in Served' <=> Has(n, b, m)'
<1>1. CASE b \in Large
  <2>1. b \in onDisk' <=> acct'[b] # {}
    BY <1>1 DEF DiskOK
  <2>2. b \notin Small
    BY <1>1, BlockStoreAssumption
  <2>3. \A x : <<b, x>> \notin tar'[n]
    BY <2>2 DEF DiskOK, Name
  <2>4. QED BY <1>1, <2>1, <2>3 DEF Served, Has, Retrieves, RetrievesMeta
<1>2. CASE b \notin Large
  <2>1. b \in Small /\ b \notin onDisk'
    BY <1>2 DEF Blocks, DiskOK
  <2>2. <<b, m>> \in tar'[n] => <<b, Data>> \in tar'[n]
    BY <2>1 DEF DiskOK, Whole
  <2>3. QED BY <1>2, <2>1, <2>2 DEF Served, Has, Retrieves, RetrievesMeta
<1>3. QED BY <1>1, <1>2

\* What is added to the records is added to what is served.
LEMMA ServedAdds ==
  ASSUME DiskOK, DiskOK', NEW n \in Nodes, NEW R \in SUBSET Ref, Adds(n, R)
  PROVE  Served' = Served \cup Of(n, R)
<1>1. Of(n, R) \subseteq Nodes \X Blocks \X MetaKeys
  BY OfType
<1>2. ASSUME NEW k \in Nodes, NEW c \in Blocks, NEW j \in MetaKeys
      PROVE  <<k, c, j>> \in Served' <=> <<k, c, j>> \in Served \cup Of(n, R)
  <2>1. <<k, c, j>> \in Of(n, R) <=> k = n /\ <<c, j>> \in R
    BY DEF Of, Ref
  <2>2. QED BY <2>1, ServedHas, ServedHasNext DEF Adds
<1>3. QED BY <1>1, <1>2 DEF Served

\* What is taken from the records is taken from what is served.
LEMMA ServedTakes ==
  ASSUME DiskOK, DiskOK', NEW n \in Nodes, NEW R \in SUBSET Ref, Takes(n, R)
  PROVE  Served' = Served \ Of(n, R)
<1>1. ASSUME NEW k \in Nodes, NEW c \in Blocks, NEW j \in MetaKeys
      PROVE  <<k, c, j>> \in Served' <=> <<k, c, j>> \in Served \ Of(n, R)
  <2>1. <<k, c, j>> \in Of(n, R) <=> k = n /\ <<c, j>> \in R
    BY DEF Of, Ref
  <2>2. QED BY <2>1, ServedHas, ServedHasNext DEF Takes
<1>2. QED BY <1>1 DEF Served

LEMMA ServedLeaves ==
  ASSUME DiskOK, DiskOK', Leaves
  PROVE  Served' = Served
<1>1. ASSUME NEW k \in Nodes, NEW c \in Blocks, NEW j \in MetaKeys
      PROVE  <<k, c, j>> \in Served' <=> <<k, c, j>> \in Served
  BY ServedHas, ServedHasNext DEF Leaves
<1>2. QED BY <1>1 DEF Served

\* A VERIFY that finds the block finds one that is kept for somebody.
LEMMA VerifiedIsServed ==
  ASSUME DiskOK, NEW n \in Nodes, NEW b \in Blocks, Verifies(n, b)
  PROVE  \E o \in Served : o[2] = b
<1>1. PICK k \in Nodes, j \in MetaKeys : Has(k, b, j)
  <2>1. CASE b \in onDisk
    <3>1. b \in Large /\ acct[b] # {} /\ acct[b] \subseteq Nodes \X MetaKeys
      BY <2>1 DEF DiskOK
    <3>2. PICK x \in acct[b] : x = <<x[1], x[2]>> /\ x[1] \in Nodes /\ x[2] \in MetaKeys
      BY <3>1
    <3>3. QED BY <3>1, <3>2 DEF Has
  <2>2. CASE b \notin onDisk
    <3>1. <<b, Data>> \in tar[n] /\ tar[n] \subseteq Name
      BY <2>2 DEF Verifies, DiskOK
    <3>2. b \in Small /\ b \notin Large
      BY <3>1, BlockStoreAssumption DEF Name
    <3>3. PICK j \in MetaKeys : <<b, j>> \in tar[n]
      BY <3>1, <3>2 DEF DiskOK, Whole
    <3>4. QED BY <3>2, <3>3 DEF Has
  <2>3. QED BY <2>1, <2>2
<1>2. <<k, b, j>> \in Served
  BY <1>1, ServedHas
<1>3. QED BY <1>2

\* A VERIFY that finds no block is not of a peer that the block is kept for.
LEMMA RefusedIsNotServed ==
  ASSUME NEW n \in Nodes, NEW b \in Blocks, ~Verifies(n, b),
         NEW o \in Served, o[1] = n
  PROVE  o[2] # b
BY DEF Served, Retrieves, Verifies

\* Carrying a request out is one of the promised steps, and its answer is the
\* promised one.
LEMMA HandleRefines ==
  ASSUME IInv, DeletesOnce, NEW n \in Nodes, request[n] # NoRequest,
         Handle(n, request[n])
  PROVE  \/ /\ Refs!Store(n) \/ Refs!Attach(n)
            /\ Acknowledged(n, request[n])
         \/ /\ Refs!Refuse(n) \/ Refs!Remove(n)
            /\ ~Acknowledged(n, request[n])
<1> DEFINE q == request[n]
<1>1. q.op \in Ops /\ q.refs \in SUBSET Ref
  <2>1. q \in Requests
    BY DEF IInv, TypeOK
  <2>2. QED BY <2>1, RequestShape
<1>2. DiskOK /\ DiskOK'
  BY IInvDiskOK, HandleExact
<1>3. Of(n, q.refs) = Refs!Of(n, q.refs)
  BY DEF Of, Refs!Of
<1>4. CASE q.op # "delete" /\ Acknowledged(n, q) /\ Adds(n, q.refs)
  <2>1. Served' = Served \cup Refs!Of(n, q.refs)
    BY <1>1, <1>2, <1>3, <1>4, ServedAdds
  <2>2. CASE q.op \in {"tar", "direct"}
    BY <1>4, <2>1, <2>2 DEF Refs!Store
  <2>3. CASE q.op = "verify"
    <3>1. ASSUME NEW r \in q.refs PROVE \E o \in Served : o[2] = r[1]
      <4>1. Verifies(n, r[1])
        BY <1>4, <2>3 DEF Acknowledged
      <4>2. r[1] \in Blocks
        BY <1>1 DEF Ref
      <4>3. QED BY <1>2, <4>1, <4>2, VerifiedIsServed
    <3>2. QED BY <1>4, <2>1, <2>3, <3>1 DEF Refs!Attach
  <2>4. QED BY <1>1, <1>4, <2>2, <2>3 DEF Ops
<1>5. CASE q.op = "verify" /\ ~Acknowledged(n, q) /\ Leaves
  <2>1. Served' = Served
    BY <1>2, <1>5, ServedLeaves
  <2>2. ASSUME NEW r \in q.refs, NEW o \in Served, o[1] = n
        PROVE  o[2] # r[1]
    <3>1. PICK s \in q.refs : ~Verifies(n, s[1])
      BY <1>5 DEF Acknowledged
    <3>2. s = r
      <4>1. q \in Requests
        BY DEF IInv, TypeOK
      <4>2. QED BY <1>5, <2>2, <3>1, <4>1, RequestShape
    <3>3. r[1] \in Blocks
      BY <1>1, <2>2 DEF Ref
    <3>4. QED BY <2>2, <3>1, <3>2, <3>3, RefusedIsNotServed
  <2>3. QED BY <1>5, <2>1, <2>2 DEF Refs!Refuse
<1>6. CASE q.op = "delete" /\ ~Acknowledged(n, q) /\ Takes(n, q.refs)
  <2>1. Served' = Served \ Refs!Of(n, q.refs)
    BY <1>1, <1>2, <1>3, <1>6, ServedTakes
  <2>2. QED BY <1>6, <2>1 DEF Refs!Remove
<1>7. QED BY <1>4, <1>5, <1>6, HandleExact

\* Every step of the store is a step of the promise, or none.
LEMMA NextRefines ==
  ASSUME IInv, DeletesOnce, [Next]_vars
  PROVE  [Refs!Next]_Refs!vars
<1>1. UNCHANGED disk => Served' = Served
  BY DEF disk, Served, Retrieves, RetrievesMeta
<1>2. \A n, R : Of(n, R) = Refs!Of(n, R)
  BY DEF Of, Refs!Of
<1>3. CASE UNCHANGED vars
  BY <1>1, <1>3 DEF vars, disk, Refs!vars
<1>4. ASSUME NEW n \in Nodes, NEW q \in Requests, Ask(n, q)
      PROVE  Refs!Next
  <2>1. Refs!Ask(n, q)
    BY <1>1, <1>2, <1>4 DEF Ask, Refs!Ask
  <2>2. QED BY <2>1 DEF Refs!Next
<1>5. ASSUME NEW n \in Nodes, Serve(n)
      PROVE  Refs!Next
  <2>1. Refs!Answer(n)
    <3>1. /\ request[n] # NoRequest
          /\ Handle(n, request[n])
          /\ owed' = IF Acknowledged(n, request[n])
                     THEN owed \cup Of(n, request[n].refs) ELSE owed
          /\ doubt' = IF request[n].op = "verify" THEN doubt
                      ELSE doubt \ Of(n, request[n].refs)
          /\ request' = [request EXCEPT ![n] = NoRequest]
      BY <1>5 DEF Serve
    <3>2. QED BY <1>2, <3>1, HandleRefines DEF Refs!Answer, Refs!Done
  <2>2. QED BY <2>1 DEF Refs!Next
<1>6. ASSUME NEW n \in Nodes, LoseAnswer(n) \/ LoseRequest(n)
      PROVE  Refs!Next
  <2>1. request[n] # NoRequest /\ TimeOut(n)
    BY <1>6 DEF LoseAnswer, LoseRequest
  <2>2. \/ Refs!Store(n) \/ Refs!Attach(n) \/ Refs!Refuse(n) \/ Refs!Remove(n)
        \/ UNCHANGED Served
    BY <1>1, <1>6, HandleRefines DEF LoseAnswer, LoseRequest
  <2>3. /\ UNCHANGED owed
        /\ \/ UNCHANGED <<request, doubt>>
           \/ /\ request' = [request EXCEPT ![n] = NoRequest]
              /\ doubt' = doubt \cup (Refs!Of(n, request[n].refs) \ owed)
    BY <1>2, <2>1 DEF TimeOut
  <2>4. Refs!Lose(n)
    BY <2>1, <2>2, <2>3 DEF Refs!Lose, Refs!Done
  <2>5. QED BY <2>4 DEF Refs!Next
<1>7. QED BY <1>3, <1>4, <1>5, <1>6 DEF Next

\* Tarballs and BlockFiles, with all their counting, keep the one promise of
\* BlockRefs: every request takes or leaves exactly what it names, and what is
\* answered has been done.
THEOREM Refinement == ASSUME DeletesOnce PROVE Spec => ImplementsBlockRefs
<1>1. Init => Refs!Init
  BY DEF Init, Refs!Init, Served, Retrieves, RetrievesMeta
<1>2. IInv /\ [Next]_vars => [Refs!Next]_Refs!vars
  BY NextRefines
<1>3. QED BY <1>1, <1>2, Invariance, PTL
          DEF Spec, ImplementsBlockRefs, Refs!Spec
=============================================================================
