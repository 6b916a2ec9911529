-------------------------- MODULE Membership_proofs --------------------------
(***************************************************************************)
(* Proofs about KBuckets and about Membership, which extends it.           *)
(*                                                                         *)
(* The routing table: the ranges of the buckets always partition the id    *)
(* space, every contact is in the one bucket where lookups search for it,  *)
(* no bucket outgrows K, no insertion forgets a node, and None, from a     *)
(* call that runs alone, means the contact is in the table, unless our own *)
(* id is the last one of its bucket.                                       *)
(*                                                                         *)
(* Membership: every rated node can be looked up, but for the ways in      *)
(* which the code loses contacts; what waits in the cache has no room in   *)
(* the table; and a node whose key was seen is known.  The threads drive   *)
(* the table by steps of KBuckets, so that what is proved of it in the     *)
(* first part holds in the second (UsesTable).                             *)
(***************************************************************************)
EXTENDS Membership, FiniteSetTheorems, TLAPS

\* A bucket only holds ids of its range.
InRange ==
  \A b \in begins : /\ b <= endOf[b]
                    /\ \A m \in contents[b] : b <= m.id /\ m.id <= endOf[b]

Bounded ==
  \A b \in begins : IsFiniteSet(contents[b]) /\ Cardinality(contents[b]) <= K

\* The inductive invariant.
IInv ==
  /\ TypeOK
  /\ Partition
  /\ InRange
  /\ OneContactPerId
  /\ Bounded

USE KBucketsAssumption

\* The contacts passed to insertNode are contacts.
LEMMA SeenAreContacts == Seen \subseteq Contact
OBVIOUS

-----------------------------------------------------------------------------
(* Looking up.                                                             *)

\* Bisecting a sorted list of disjoint ranges finds the range of the id.
LEMMA BisectUnique ==
  ASSUME NEW B \in SUBSET Nat, NEW E \in [B -> Nat],
         \A u, v \in B : u < v => E[u] < v,
         NEW i \in Nat, NEW b \in B, b <= i, i <= E[b]
  PROVE  (CHOOSE x \in B : E[x] >= i /\ \A c \in B : E[c] >= i => x <= c) = b
<1> DEFINE P(x) == E[x] >= i /\ \A c \in B : E[c] >= i => x <= c
<1>1. P(b)
  OBVIOUS
<1>2. ASSUME NEW x \in B, P(x) PROVE x = b
  BY <1>1, <1>2
<1>3. QED BY <1>1, <1>2

\* The bucket that contains an id is the one _findBucket returns.
LEMMA FindBucketUnique ==
  ASSUME TypeOK, Partition, NEW i \in 0..IdSpace, NEW b \in begins,
         b <= i, i <= endOf[b]
  PROVE  FindBucket(i) = b
<1>1. begins \in SUBSET Nat /\ endOf \in [begins -> Nat] /\ i \in Nat
  BY DEF TypeOK
<1>2. QED BY <1>1, BisectUnique DEF FindBucket, Partition, Disjoint

\* _findBucket finds a bucket, and its range contains the id.
LEMMA FindBucketContains ==
  ASSUME TypeOK, Partition, NEW i \in 0..IdSpace
  PROVE  /\ FindBucket(i) \in begins
         /\ FindBucket(i) <= i
         /\ i <= endOf[FindBucket(i)]
<1>1. PICK b \in begins : b <= i /\ i <= endOf[b]
  BY DEF Partition, Covered
<1>2. FindBucket(i) = b
  BY <1>1, FindBucketUnique
<1>3. QED BY <1>1, <1>2

-----------------------------------------------------------------------------
(* Splitting.                                                              *)

\* A full bucket is wide enough to be halved: it has at least K >= 3 distinct
\* ids, so neither half is empty and the recursion of insertNode makes progress.
LEMMA FullIsWide ==
  ASSUME IInv, NEW b \in begins, Full(b)
  PROVE  endOf[b] - b + 1 >= K
<1>1. SUFFICES ASSUME endOf[b] - b + 1 < K PROVE FALSE
  BY DEF IInv, TypeOK
<1>2. /\ b \in Nat /\ endOf[b] \in Nat /\ b <= endOf[b]
      /\ IsFiniteSet(contents[b])
      /\ Cardinality(contents[b]) \in Nat
      /\ Cardinality(contents[b]) >= K
  BY FS_CardinalityType DEF IInv, TypeOK, InRange, Bounded, Full
<1>3. /\ IsFiniteSet(b..endOf[b])
      /\ Cardinality(b..endOf[b]) = endOf[b] - b + 1
  <2>1. b \in Int /\ endOf[b] \in Int /\ ~(b > endOf[b])
    BY <1>2
  <2>2. QED BY ONLY <2>1, FS_Interval, Zenon
<1>4. Cardinality(b..endOf[b]) < Cardinality(contents[b])
  BY <1>1, <1>2, <1>3
<1> DEFINE f == [m \in contents[b] |-> m.id]
<1>5. f \in [contents[b] -> b..endOf[b]]
  <2>1. ASSUME NEW m \in contents[b] PROVE m.id \in b..endOf[b]
    <3>1. m \in Contact
      BY DEF IInv, TypeOK
    <3>2. m.id \in 0..IdSpace
      BY <3>1 DEF Contact
    <3>3. b <= m.id /\ m.id <= endOf[b]
      BY DEF IInv, InRange
    <3>4. QED BY <1>2, <3>2, <3>3
  <2>2. QED BY <2>1
<1>6. \E x, y \in contents[b] : x # y /\ f[x] = f[y]
  <2> HIDE DEF f
  <2>1. QED BY <1>2, <1>3, <1>4, <1>5, FS_PigeonHole
<1>7. QED BY <1>6 DEF IInv, OneContactPerId

\* The new bucket of a split begins strictly inside the old one, at no begin.
LEMMA SplitRange ==
  ASSUME IInv, NEW b \in begins, Full(b)
  PROVE  /\ b \in Nat /\ endOf[b] \in Nat /\ endOf[b] <= IdSpace
         /\ LowEnd(b) \in Nat /\ HighBegin(b) \in Nat
         /\ b <= LowEnd(b) /\ LowEnd(b) < HighBegin(b)
         /\ HighBegin(b) = LowEnd(b) + 1
         /\ HighBegin(b) <= endOf[b]
         /\ HighBegin(b) \notin begins
<1>1. b \in Nat /\ endOf[b] \in Nat /\ endOf[b] <= IdSpace
  BY DEF IInv, TypeOK
<1>2. endOf[b] - b + 1 >= 3
  BY <1>1, FullIsWide
<1>3. Halfpoint(b) \in Nat /\ Halfpoint(b) >= 1 /\ Halfpoint(b) <= endOf[b] - b
  BY <1>1, <1>2 DEF Halfpoint
<1>4. /\ LowEnd(b) \in Nat /\ HighBegin(b) \in Nat
      /\ b <= LowEnd(b) /\ LowEnd(b) < HighBegin(b)
      /\ HighBegin(b) = LowEnd(b) + 1
      /\ HighBegin(b) <= endOf[b]
  BY <1>1, <1>3 DEF LowEnd, HighBegin
<1>5. HighBegin(b) \notin begins
  BY <1>1, <1>4 DEF IInv, Partition, Disjoint, TypeOK
<1>6. QED BY <1>1, <1>4, <1>5

\* What a split makes of the table, range by range.
LEMMA SplitTable ==
  ASSUME IInv, NEW b \in begins, Full(b), SplitBucket(b)
  PROVE  /\ begins' = begins \cup {HighBegin(b)}
         /\ endOf' \in [begins' -> 0..IdSpace]
         /\ contents' \in [begins' -> SUBSET Contact]
         /\ endOf'[b] = LowEnd(b)
         /\ endOf'[HighBegin(b)] = endOf[b]
         /\ contents'[b] = {m \in contents[b] : m.id <= LowEnd(b)}
         /\ contents'[HighBegin(b)] = {m \in contents[b] : m.id > LowEnd(b)}
         /\ \A x \in begins \ {b} : endOf'[x] = endOf[x] /\ contents'[x] = contents[x]
<1>1. /\ b \in Nat /\ endOf[b] \in 0..IdSpace /\ LowEnd(b) \in 0..IdSpace
      /\ HighBegin(b) \notin begins /\ b # HighBegin(b)
  BY SplitRange
<1>2. contents[b] \subseteq Contact
  BY DEF IInv, TypeOK
<1> HIDE DEF IInv
<1>3. /\ begins' = begins \cup {HighBegin(b)}
      /\ endOf'[b] = LowEnd(b)
      /\ endOf'[HighBegin(b)] = endOf[b]
      /\ contents'[b] = {m \in contents[b] : ~MovesUp(b, m)}
      /\ contents'[HighBegin(b)] = {m \in contents[b] : MovesUp(b, m)}
  BY <1>1 DEF SplitBucket
<1>4. \A x \in begins \ {b} : endOf'[x] = endOf[x] /\ contents'[x] = contents[x]
  BY <1>1 DEF SplitBucket
<1>5. endOf' \in [begins' -> 0..IdSpace]
  BY <1>1, <1>3 DEF SplitBucket, IInv, TypeOK
<1>6. contents' \in [begins' -> SUBSET Contact]
  BY <1>1, <1>2, <1>3 DEF SplitBucket, IInv, TypeOK
<1>7. \A m \in contents[b] : /\ MovesUp(b, m) <=> m.id > LowEnd(b)
                             /\ ~MovesUp(b, m) <=> m.id <= LowEnd(b)
  <2>1. SUFFICES ASSUME NEW m \in contents[b]
                 PROVE  /\ MovesUp(b, m) <=> m.id > LowEnd(b)
                        /\ ~MovesUp(b, m) <=> m.id <= LowEnd(b)
    OBVIOUS
  <2>2. m \in Contact
    BY <1>2
  <2>3. m.id \in 0..IdSpace /\ LowEnd(b) \in 0..IdSpace
    BY <1>1, <2>2, KBucketsAssumption DEF Contact
  <2>4. m.id \in Int /\ LowEnd(b) \in Int
    BY <2>3
  <2>5. QED BY <2>4 DEF MovesUp
<1>8. QED BY <1>3, <1>4, <1>5, <1>6, <1>7

\* A split keeps every conjunct of the inductive invariant about the table.
LEMMA SplitKeepsTable ==
  ASSUME IInv, NEW b \in begins, Full(b), SplitBucket(b)
  PROVE  /\ begins' \subseteq 0..IdSpace
         /\ Partition' /\ InRange' /\ OneContactPerId' /\ Bounded'
<1> DEFINE h == HighBegin(b)
           l == LowEnd(b)
<1>1. /\ b \in Nat /\ endOf[b] \in Nat /\ endOf[b] <= IdSpace
      /\ l \in Nat /\ h \in Nat /\ b <= l /\ l < h /\ h = l + 1
      /\ h <= endOf[b] /\ h \notin begins
  BY SplitRange
<1>2. /\ begins' = begins \cup {h}
      /\ endOf'[b] = l
      /\ endOf'[h] = endOf[b]
      /\ contents'[b] = {m \in contents[b] : m.id <= l}
      /\ contents'[h] = {m \in contents[b] : m.id > l}
      /\ \A x \in begins \ {b} : endOf'[x] = endOf[x] /\ contents'[x] = contents[x]
  BY SplitTable
<1>3. begins \subseteq Nat /\ \A x \in begins : endOf[x] \in Nat /\ x <= endOf[x]
  BY DEF IInv, TypeOK, InRange
<1>4. \A x \in begins : contents[x] \subseteq Contact
  BY DEF IInv, TypeOK
<1>5. ASSUME NEW m \in Contact PROVE m.id \in Nat
  <2>1. m.id \in 0..IdSpace
    BY DEF Contact
  <2>2. QED BY <2>1
<1> HIDE DEF h, l
<1>6. begins' \subseteq 0..IdSpace
  BY <1>1, <1>2 DEF IInv, TypeOK
<1>7. Covered'
  <2>1. SUFFICES ASSUME NEW i \in 0..IdSpace
                 PROVE  \E x \in begins' : x <= i /\ i <= endOf'[x]
    BY DEF Covered
  <2>2. PICK x \in begins : x <= i /\ i <= endOf[x]
    BY DEF IInv, Partition, Covered
  <2>3. CASE x # b
    BY <1>2, <2>2, <2>3
  <2>4. CASE x = b /\ i <= l
    BY <1>2, <2>2, <2>4
  <2>5. CASE x = b /\ ~(i <= l)
    <3>1. h <= i /\ i <= endOf'[h]
      BY <1>1, <1>2, <2>2, <2>5
    <3>2. QED BY <1>2, <3>1
  <2>6. QED BY <2>3, <2>4, <2>5
<1>8. Disjoint'
  <2>1. SUFFICES ASSUME NEW x \in begins', NEW y \in begins', x < y
                 PROVE  endOf'[x] < y
    BY DEF Disjoint
  <2>2. \A u, v \in begins : u < v => endOf[u] < v
    BY DEF IInv, Partition, Disjoint
  <2>3. CASE x \in begins /\ y \in begins
    BY <1>1, <1>2, <1>3, <2>1, <2>2, <2>3
  <2>4. CASE x \in begins /\ y = h
    <3>1. CASE x = b
      BY <1>1, <1>2, <2>4, <3>1
    <3>2. CASE x # b
      <4>1. x < b
        BY <1>1, <1>3, <2>1, <2>2, <2>4, <3>2
      <4>2. endOf[x] < b
        BY <2>2, <2>4, <4>1
      <4>3. QED BY <1>1, <1>2, <1>3, <2>4, <3>2, <4>2
    <3>3. QED BY <3>1, <3>2
  <2>5. CASE x = h /\ y \in begins
    <3>1. b < y
      BY <1>1, <1>3, <2>1, <2>5
    <3>2. QED BY <1>2, <2>2, <2>5, <3>1
  <2>6. CASE x = h /\ y = h
    BY <1>1, <2>1, <2>6
  <2>7. QED BY <1>2, <2>3, <2>4, <2>5, <2>6
<1>9. InRange'
  <2>1. SUFFICES ASSUME NEW x \in begins'
                 PROVE  /\ x <= endOf'[x]
                        /\ \A m \in contents'[x] : x <= m.id /\ m.id <= endOf'[x]
    BY DEF InRange
  <2>2. \A u \in begins : \A m \in contents[u] : u <= m.id /\ m.id <= endOf[u]
    BY DEF IInv, InRange
  <2>3. CASE x = h
    <3>1. \A m \in contents'[h] : h <= m.id /\ m.id <= endOf[b]
      BY <1>1, <1>2, <1>4, <1>5, <2>2
    <3>2. QED BY <1>1, <1>2, <2>3, <3>1
  <2>4. CASE x = b
    BY <1>1, <1>2, <2>2, <2>4
  <2>5. CASE x \in begins \ {b}
    BY <1>2, <1>3, <2>2, <2>5
  <2>6. QED BY <1>2, <2>3, <2>4, <2>5
<1>10. OneContactPerId'
  BY <1>1, <1>2 DEF IInv, OneContactPerId
<1>11. Bounded'
  <2>1. \A x \in begins : IsFiniteSet(contents[x]) /\ Cardinality(contents[x]) <= K
    BY DEF IInv, Bounded
  <2>2. ASSUME NEW S \in SUBSET contents[b]
        PROVE  IsFiniteSet(S) /\ Cardinality(S) <= K
    BY <2>1, FS_Subset, FS_CardinalityType
  <2>3. contents'[b] \subseteq contents[b] /\ contents'[h] \subseteq contents[b]
    BY <1>2
  <2>4. SUFFICES ASSUME NEW x \in begins'
                 PROVE  IsFiniteSet(contents'[x]) /\ Cardinality(contents'[x]) <= K
    BY DEF Bounded
  <2>5. CASE x = h
    BY <2>2, <2>3, <2>5
  <2>6. CASE x = b
    BY <2>2, <2>3, <2>6
  <2>7. CASE x \in begins \ {b}
    BY <1>2, <2>1, <2>7
  <2>8. QED BY <1>2, <2>5, <2>6, <2>7
<1>12. QED BY <1>6, <1>7, <1>8, <1>9, <1>10, <1>11 DEF Partition

-----------------------------------------------------------------------------
(* Inserting.                                                              *)

\* addNode that does not raise leaves the bucket with one contact per id, no
\* more than K of them, and no id fewer than before.
LEMMA PutInBucket ==
  ASSUME IInv, NEW n \in Contact, NEW b \in begins, ~Overflows(b, n)
  PROVE  LET S == Put(contents[b], n)
         IN  /\ S \subseteq contents[b] \cup {n}
             /\ n \in S
             /\ \A m \in contents[b] : m \in S \/ m.id = n.id
             /\ \A u, v \in S : u.id = v.id => u = v
             /\ IsFiniteSet(S) /\ Cardinality(S) <= K
<1> DEFINE S == Put(contents[b], n)
<1>1. /\ IsFiniteSet(contents[b]) /\ Cardinality(contents[b]) <= K
      /\ \A u, v \in contents[b] : u.id = v.id => u = v
  BY DEF IInv, Bounded, OneContactPerId
<1>2. CASE n \in contents[b]
  BY <1>1, <1>2 DEF Put
<1>3. CASE n \notin contents[b]
  <2> DEFINE R == {m \in contents[b] : m.id # n.id}
  <2>1. S = R \cup {n}
    BY <1>3 DEF Put
  <2>2. Cardinality(contents[b]) \in Nat /\ Cardinality(contents[b]) < K
    BY <1>1, <1>3, FS_CardinalityType DEF Overflows, Full
  <2>3. IsFiniteSet(R) /\ Cardinality(R) <= Cardinality(contents[b])
    BY <1>1, FS_Subset
  <2>4. n \notin R
    OBVIOUS
  <2>5. IsFiniteSet(S) /\ Cardinality(S) = Cardinality(R) + 1
    <3> HIDE DEF R
    <3>1. QED BY <2>1, <2>3, <2>4, FS_AddElement
  <2>6. Cardinality(R) \in Nat
    <3> HIDE DEF R
    <3>1. QED BY <2>3, FS_CardinalityType
  <2>7. IsFiniteSet(S) /\ Cardinality(S) <= K
    <3> HIDE DEF R, S
    <3>1. QED BY <2>2, <2>3, <2>5, <2>6
  <2>8. \A u, v \in S : u.id = v.id => u = v
    BY <1>1, <2>1
  <2>9. QED BY <1>1, <2>1, <2>7, <2>8
<1>4. QED BY <1>2, <1>3

\* The contact a caller works on is a contact.
LEMMA TodoIsContact ==
  ASSUME TypeOK, NEW c \in Callers, todo[c] # NoContact
  PROVE  todo[c] \in Contact /\ todo[c].id \in 0..IdSpace
<1>1. todo[c] \in Contact
  BY DEF TypeOK
<1>2. QED BY <1>1 DEF Contact

\* Returning to the caller keeps the caller's variables well typed.
LEMMA ReturnTyped ==
  ASSUME TypeOK, NEW c \in Callers, NEW a \in Answer, Return(c, a)
  PROVE  /\ todo' \in [Callers -> Contact \cup {NoContact}]
         /\ nested' \in [Callers -> BOOLEAN]
         /\ answer' \in [Callers -> Answer]
BY DEF TypeOK, Return, Answer

\* Taking a contact into its bucket keeps the inductive invariant.
LEMMA InsertKeeps ==
  ASSUME IInv, NEW c \in Callers, Insert(c)
  PROVE  IInv'
<1> DEFINE n == todo[c]
           b == FindBucket(n.id)
           S == Put(contents[b], n)
<1>1. n \in Contact /\ n.id \in 0..IdSpace
  BY TodoIsContact DEF IInv, Insert
<1>2. b \in begins /\ b <= n.id /\ n.id <= endOf[b]
  BY <1>1, FindBucketContains DEF IInv
<1>3. /\ ~Overflows(b, n)
      /\ contents' = [contents EXCEPT ![b] = S]
      /\ begins' = begins /\ endOf' = endOf
      /\ Return(c, "none")
  BY DEF Insert
<1>4. /\ S \subseteq contents[b] \cup {n}
      /\ \A u, v \in S : u.id = v.id => u = v
      /\ IsFiniteSet(S) /\ Cardinality(S) <= K
  BY <1>1, <1>2, <1>3, PutInBucket
<1> HIDE DEF n, b, S
<1>5. /\ contents'[b] = S
      /\ \A x \in begins \ {b} : contents'[x] = contents[x]
  BY <1>2, <1>3 DEF IInv, TypeOK
<1>6. TypeOK'
  <2>1. contents' \in [begins' -> SUBSET Contact]
    BY <1>1, <1>2, <1>3, <1>4 DEF IInv, TypeOK
  <2>2. alone' = alone
    BY DEF Insert
  <2>3. QED BY <1>3, <2>1, <2>2, ReturnTyped DEF IInv, TypeOK, Answer
<1>7. Partition'
  BY <1>3 DEF IInv, Partition, Covered, Disjoint
<1>8. InRange'
  BY <1>2, <1>3, <1>4, <1>5 DEF IInv, InRange
<1>9. OneContactPerId'
  BY <1>2, <1>3, <1>4, <1>5 DEF IInv, OneContactPerId
<1>10. Bounded'
  BY <1>2, <1>3, <1>4, <1>5 DEF IInv, Bounded
<1>11. QED BY <1>6, <1>7, <1>8, <1>9, <1>10 DEF IInv

\* Splitting keeps the inductive invariant.
LEMMA SplitKeeps ==
  ASSUME IInv, NEW c \in Callers, Split(c)
  PROVE  IInv'
<1> DEFINE b == FindBucket(todo[c].id)
<1>1. b \in begins
  BY TodoIsContact, FindBucketContains DEF IInv, Split
<1>2. Full(b) /\ SplitBucket(b)
  BY DEF Split, Overflows
<1> HIDE DEF b
<1>3. /\ endOf' \in [begins' -> 0..IdSpace]
      /\ contents' \in [begins' -> SUBSET Contact]
  BY <1>1, <1>2, SplitTable
<1>4. /\ begins' \subseteq 0..IdSpace
      /\ Partition' /\ InRange' /\ OneContactPerId' /\ Bounded'
  BY <1>1, <1>2, SplitKeepsTable
<1>5. /\ todo' \in [Callers -> Contact \cup {NoContact}]
      /\ nested' \in [Callers -> BOOLEAN]
      /\ answer' \in [Callers -> Answer]
      /\ alone' \in [Callers -> BOOLEAN]
  BY DEF IInv, TypeOK, Split
<1>6. QED BY <1>3, <1>4, <1>5 DEF IInv, TypeOK

\* A step that leaves the table alone keeps what IInv says of the table.
LEMMA SameTable ==
  ASSUME IInv, UNCHANGED table
  PROVE  Partition' /\ InRange' /\ OneContactPerId' /\ Bounded'
BY DEF IInv, table, Partition, Covered, Disjoint, InRange, OneContactPerId, Bounded

\* Every step keeps the inductive invariant.
LEMMA NextKeeps == IInv /\ [Next]_vars => IInv'
<1> SUFFICES ASSUME IInv, [Next]_vars PROVE IInv'
  OBVIOUS
<1>1. ASSUME NEW c \in Callers, NEW n \in Contact, Call(c, n) PROVE IInv'
  <2>1. TypeOK'
    BY <1>1 DEF IInv, TypeOK, Call
  <2>2. UNCHANGED table
    BY <1>1 DEF Call, table
  <2>3. QED BY <2>1, <2>2, SameTable DEF IInv
<1>2. ASSUME NEW c \in Callers, Insert(c) PROVE IInv'
  BY <1>2, InsertKeeps
<1>3. ASSUME NEW c \in Callers, Split(c) PROVE IInv'
  BY <1>3, SplitKeeps
<1>4. ASSUME NEW c \in Callers, Refuse(c) PROVE IInv'
  <2>1. UNCHANGED <<table, alone>> /\ Return(c, "oldest")
    BY <1>4 DEF Refuse
  <2>2. TypeOK'
    BY <2>1, ReturnTyped DEF IInv, TypeOK, Answer, table
  <2>3. QED BY <2>1, <2>2, SameTable DEF IInv
<1>5. CASE UNCHANGED vars
  <2>1. TypeOK' /\ UNCHANGED table
    BY <1>5 DEF vars, table, IInv, TypeOK
  <2>2. QED BY <2>1, SameTable DEF IInv
<1>6. QED BY SeenAreContacts, <1>1, <1>2, <1>3, <1>4, <1>5 DEF Next

\* The fresh table, one bucket with our own contact, satisfies it.
LEMMA InitEstablishes == Init => IInv
<1> SUFFICES ASSUME Init PROVE IInv
  OBVIOUS
<1> DEFINE me == [id |-> Local, addr |-> LocalAddr]
<1>1. me \in Contact /\ me.id \in 0..IdSpace
  BY DEF Contact
<1>2. begins = {0} /\ endOf[0] = IdSpace /\ contents[0] = {me}
  BY DEF Init
<1>3. IsFiniteSet({me}) /\ Cardinality({me}) = 1
  BY FS_Singleton
<1> HIDE DEF me
<1>4. TypeOK
  BY <1>1, <1>2 DEF Init, TypeOK, Answer, me
<1>5. Partition
  BY <1>2 DEF Partition, Covered, Disjoint
<1>6. InRange
  BY <1>1, <1>2 DEF InRange
<1>7. OneContactPerId
  BY <1>2 DEF OneContactPerId
<1>8. Bounded
  BY <1>2, <1>3 DEF Bounded
<1>9. QED BY <1>4, <1>5, <1>6, <1>7, <1>8 DEF IInv

\* The inductive invariant holds for any id space, ids, K >= 3 and any number of
\* inserting threads.
THEOREM Invariance == Spec => []IInv
BY InitEstablishes, NextKeeps, PTL DEF Spec

\* The table keeps its shape: ids are ids, contacts are contacts.
THEOREM TypeCorrect == Spec => []TypeOK
<1>1. IInv => TypeOK
  BY DEF IInv
<1>2. QED BY <1>1, Invariance, PTL

\* The ranges of the buckets partition the id space however often they are split.
THEOREM RangesPartition == Spec => []Partition
<1>1. IInv => Partition
  BY DEF IInv
<1>2. QED BY <1>1, Invariance, PTL

\* Every contact is in the bucket in which a lookup of its id searches.
THEOREM ContactsPlaced == Spec => []Placed
<1>1. IInv => Placed
  <2> SUFFICES ASSUME IInv, NEW b \in begins, NEW m \in contents[b]
               PROVE  FindBucket(m.id) = b
    BY DEF Placed
  <2>2. m.id \in 0..IdSpace
    <3>1. m \in Contact
      BY DEF IInv, TypeOK
    <3>2. QED BY <3>1 DEF Contact
  <2>3. b <= m.id /\ m.id <= endOf[b]
    BY DEF IInv, InRange
  <2>4. QED BY <2>2, <2>3, FindBucketUnique DEF IInv
<1>2. QED BY <1>1, Invariance, PTL

\* A node id never has two contacts.
THEOREM ContactsUnique == Spec => []OneContactPerId
<1>1. IInv => OneContactPerId
  BY DEF IInv
<1>2. QED BY <1>1, Invariance, PTL

\* No bucket holds more than K contacts, also right after a split.
THEOREM BucketsBounded == Spec => []Capacity
<1>1. IInv => Capacity
  BY DEF IInv, Bounded, Capacity
<1>2. QED BY <1>1, Invariance, PTL

-----------------------------------------------------------------------------
(* What a step may not do.                                                 *)

\* Inserting and splitting lose no node id.
LEMMA StepForgetsNothing == IInv /\ [Next]_vars => KnownIds \subseteq KnownIds'
<1> SUFFICES ASSUME IInv, [Next]_vars, NEW b \in begins, NEW m \in contents[b]
             PROVE  \E x \in begins' : \E u \in contents'[x] : u.id = m.id
  BY DEF KnownIds
<1>1. ASSUME UNCHANGED table
      PROVE  \E x \in begins' : \E u \in contents'[x] : u.id = m.id
  BY <1>1 DEF table
<1>2. ASSUME NEW c \in Callers, Insert(c)
      PROVE  \E x \in begins' : \E u \in contents'[x] : u.id = m.id
  <2> DEFINE n == todo[c]
             d == FindBucket(n.id)
             S == Put(contents[d], n)
  <2>1. n \in Contact /\ d \in begins
    BY <1>2, TodoIsContact, FindBucketContains DEF IInv, Insert
  <2>2. /\ ~Overflows(d, n)
        /\ contents' = [contents EXCEPT ![d] = S]
        /\ begins' = begins
    BY <1>2 DEF Insert
  <2>3. n \in S /\ \A u \in contents[d] : u \in S \/ u.id = n.id
    BY <2>1, <2>2, PutInBucket
  <2> HIDE DEF n, d, S
  <2>4. contents'[d] = S /\ \A x \in begins \ {d} : contents'[x] = contents[x]
    BY <2>1, <2>2 DEF IInv, TypeOK
  <2>5. CASE b = d
    BY <2>1, <2>2, <2>3, <2>4, <2>5
  <2>6. CASE b # d
    BY <2>2, <2>4, <2>6
  <2>7. QED BY <2>5, <2>6
<1>3. ASSUME NEW c \in Callers, Split(c)
      PROVE  \E x \in begins' : \E u \in contents'[x] : u.id = m.id
  <2> DEFINE d == FindBucket(todo[c].id)
  <2>1. d \in begins
    BY <1>3, TodoIsContact, FindBucketContains DEF IInv, Split
  <2>2. Full(d) /\ SplitBucket(d)
    BY <1>3 DEF Split, Overflows
  <2> HIDE DEF d
  <2>3. /\ begins' = begins \cup {HighBegin(d)}
        /\ contents'[d] = {u \in contents[d] : u.id <= LowEnd(d)}
        /\ contents'[HighBegin(d)] = {u \in contents[d] : u.id > LowEnd(d)}
        /\ \A x \in begins \ {d} : contents'[x] = contents[x]
    BY <2>1, <2>2, SplitTable
  <2>4. m.id \in Nat /\ LowEnd(d) \in Nat
    <3>1. m \in Contact
      BY DEF IInv, TypeOK
    <3>2. m.id \in 0..IdSpace
      BY <3>1 DEF Contact
    <3>3. LowEnd(d) \in Nat
      BY <2>1, <2>2, SplitRange
    <3>4. QED BY <3>2, <3>3
  <2>5. CASE b = d
    <3>1. m \in contents'[d] \/ m \in contents'[HighBegin(d)]
      BY <2>3, <2>4, <2>5
    <3>2. QED BY <2>1, <2>3, <3>1
  <2>6. CASE b # d
    BY <2>3, <2>6
  <2>7. QED BY <2>5, <2>6
<1>4. ASSUME NEW c \in Callers, NEW n \in Contact, Call(c, n)
      PROVE  UNCHANGED table
  BY <1>4 DEF Call, table
<1>5. ASSUME NEW c \in Callers, Refuse(c)
      PROVE  UNCHANGED table
  BY <1>5 DEF Refuse
<1>6. CASE UNCHANGED vars
  BY <1>1, <1>6 DEF vars, table
<1>7. QED BY SeenAreContacts, <1>1, <1>2, <1>3, <1>4, <1>5, <1>6 DEF Next

\* No insertion, by any thread, makes the table forget a node.
THEOREM NeverForgets == Spec => NothingForgotten
<1>1. IInv /\ [Next]_vars => [KnownIds \subseteq KnownIds']_vars
  BY StepForgetsNothing
<1>2. QED BY <1>1, Invariance, PTL DEF Spec, NothingForgotten

-----------------------------------------------------------------------------
(* A thread that inserts alone: None means inserted.                       *)

\* Our own id is in its bucket.
LocalIn == \E m \in contents[FindBucket(Local)] : m.id = Local

\* While an undisturbed call runs, no other thread is inside insertNode.
Undisturbed ==
  \A c, d \in Callers :
    alone[c] /\ todo[c] # NoContact /\ c # d => todo[d] = NoContact

\* After a split by an undisturbed call the contact fits, or its bucket can be
\* split again.
NestedFits ==
  \A c \in Callers : \A n \in Contact :
    alone[c] /\ nested[c] /\ todo[c] = n
      => \/ LocalAtEnd
         \/ FindBucket(n.id) = FindBucket(Local)
         \/ ~Full(FindBucket(n.id))

NestedBusy == \A c \in Callers : nested[c] => todo[c] # NoContact

\* The strengthening for calls that run alone.
JInv == IInv /\ LocalIn /\ Undisturbed /\ NestedFits /\ NestedBusy

\* A split leaves our own id in the table, and room in the half it is not in:
\* that half had at most K - 1 contacts.
LEMMA SplitMakesRoom ==
  ASSUME JInv, NEW c \in Callers, Split(c)
  PROVE  /\ LocalIn'
         /\ \A n \in Contact :
              todo[c] = n => \/ FindBucket(n.id)' = FindBucket(Local)'
                             \/ ~Full(FindBucket(n.id))'
<1> DEFINE b == FindBucket(todo[c].id)
           l == LowEnd(b)
           h == HighBegin(b)
<1>1. /\ todo[c] \in Contact /\ todo[c].id \in Nat /\ Local \in Nat
      /\ b \in begins /\ b <= todo[c].id /\ todo[c].id <= endOf[b]
  BY TodoIsContact, FindBucketContains DEF JInv, IInv, Split
<1>2. Full(b) /\ SplitBucket(b) /\ b <= Local /\ Local < endOf[b]
  BY DEF Split, Overflows, HoldsLocal
<1>3. FindBucket(Local) = b
  <2>1. Local \in 0..IdSpace
    OBVIOUS
  <2> HIDE DEF b
  <2>2. Local <= endOf[b]
    <3>1. \A x \in begins : endOf[x] \in Nat
      BY DEF JInv, IInv, TypeOK
    <3>2. endOf[b] \in Nat
      BY <1>1, <3>1
    <3>3. QED BY <1>1, <1>2, <3>2
  <2>3. QED BY <1>1, <1>2, <2>1, <2>2, FindBucketUnique DEF JInv, IInv
<1> HIDE DEF b
<1>4. /\ l \in Nat /\ h \in Nat /\ b \in Nat /\ endOf[b] \in Nat
      /\ b <= l /\ h = l + 1
  BY <1>1, <1>2, SplitRange DEF JInv
<1>5. /\ begins' = begins \cup {h}
      /\ endOf'[b] = l
      /\ endOf'[h] = endOf[b]
      /\ contents'[b] = {m \in contents[b] : m.id <= l}
      /\ contents'[h] = {m \in contents[b] : m.id > l}
  BY <1>1, <1>2, SplitTable DEF JInv
<1> HIDE DEF l, h
<1>6. IInv'
  BY SplitKeeps DEF JInv
<1>7. ASSUME NEW i \in Nat, b <= i, i <= endOf[b]
      PROVE  FindBucket(i)' = IF i <= l THEN b ELSE h
  <2>1. /\ begins' \in SUBSET Nat /\ endOf' \in [begins' -> Nat]
        /\ \A u, v \in begins' : u < v => endOf'[u] < v
    BY <1>6 DEF IInv, TypeOK, Partition, Disjoint
  <2>2. CASE i <= l
    <3>1. b \in begins' /\ b <= i /\ i <= endOf'[b]
      BY <1>1, <1>5, <1>7, <2>2
    <3>2. FindBucket(i)' = b
      BY <1>7, <2>1, <3>1, BisectUnique DEF FindBucket
    <3>3. QED BY <2>2, <3>2
  <2>3. CASE ~(i <= l)
    <3>1. h \in begins' /\ h <= i /\ i <= endOf'[h]
      BY <1>4, <1>5, <1>7, <2>3
    <3>2. FindBucket(i)' = h
      BY <1>7, <2>1, <3>1, BisectUnique DEF FindBucket
    <3>3. QED BY <2>3, <3>2
  <2>4. QED BY <2>2, <2>3
<1>8. PICK m \in contents[b] : m.id = Local
  BY <1>3 DEF JInv, LocalIn
<1>9. LocalIn'
  <2>1. m \in contents'[FindBucket(Local)']
    BY <1>1, <1>2, <1>4, <1>5, <1>7, <1>8
  <2>2. QED BY <1>8, <2>1 DEF LocalIn
<1>10. ASSUME NEW n \in Contact, todo[c] = n,
              FindBucket(n.id)' # FindBucket(Local)'
       PROVE  ~Full(FindBucket(n.id))'
  <2> DEFINE x == FindBucket(n.id)'
  <2>1. contents'[x] \subseteq contents[b] \ {m}
    BY <1>1, <1>2, <1>4, <1>5, <1>7, <1>8, <1>10
  <2> HIDE DEF x
  <2>2. IsFiniteSet(contents[b]) /\ Cardinality(contents[b]) <= K
    BY <1>1 DEF JInv, IInv, Bounded
  <2>3. /\ IsFiniteSet(contents[b] \ {m})
        /\ Cardinality(contents[b] \ {m}) = Cardinality(contents[b]) - 1
    BY <1>8, <2>2, FS_RemoveElement
  <2>4. /\ IsFiniteSet(contents'[x])
        /\ Cardinality(contents'[x]) <= Cardinality(contents[b] \ {m})
    BY <2>1, <2>3, FS_Subset
  <2>5. Cardinality(contents[b]) \in Nat /\ Cardinality(contents'[x]) \in Nat
    BY <2>2, <2>4, FS_CardinalityType
  <2>6. ~(Cardinality(contents'[x]) >= K)
    BY <2>2, <2>3, <2>4, <2>5
  <2>7. QED BY <2>6 DEF Full, x
<1>11. QED BY <1>9, <1>10

\* A step that leaves the table alone leaves lookups alone.
LEMMA SameLookups ==
  ASSUME UNCHANGED table, NEW i
  PROVE  /\ FindBucket(i)' = FindBucket(i)
         /\ LocalAtEnd' = LocalAtEnd
         /\ LocalIn' = LocalIn
         /\ Full(FindBucket(i))' = Full(FindBucket(i))
BY DEF table, FindBucket, LocalAtEnd, LocalIn, Full

\* Inserting keeps our own id in the table, and puts the contact where lookups
\* find it.
LEMMA InsertHolds ==
  ASSUME JInv, NEW c \in Callers, Insert(c)
  PROVE  LocalIn' /\ \A n \in Contact : todo[c] = n => Held(n)'
<1> DEFINE n == todo[c]
           d == FindBucket(n.id)
           S == Put(contents[d], n)
<1>1. n \in Contact /\ d \in begins
  BY TodoIsContact, FindBucketContains DEF JInv, IInv, Insert
<1>2. /\ ~Overflows(d, n)
      /\ contents' = [contents EXCEPT ![d] = S]
      /\ begins' = begins /\ endOf' = endOf
  BY DEF Insert
<1>3. n \in S /\ \A u \in contents[d] : u \in S \/ u.id = n.id
  BY <1>1, <1>2, PutInBucket DEF JInv
<1>4. FindBucket(Local)' = FindBucket(Local)
  BY <1>2 DEF FindBucket
<1>5. ASSUME NEW x \in Contact, todo[c] = x PROVE Held(x)'
  <2>1. FindBucket(x.id)' = d
    BY <1>2, <1>5 DEF FindBucket
  <2>2. x \in contents'[d]
    BY <1>1, <1>2, <1>3, <1>5 DEF JInv, IInv, TypeOK
  <2> HIDE DEF d
  <2>3. QED BY <2>1, <2>2 DEF Held
<1> HIDE DEF S
<1>6. LocalIn'
  <2>1. FindBucket(Local) \in begins
    BY FindBucketContains DEF JInv, IInv
  <2>2. PICK m \in contents[FindBucket(Local)] : m.id = Local
    BY DEF JInv, LocalIn
  <2> HIDE DEF d, n
  <2>3. contents'[d] = S /\ \A x \in begins \ {d} : contents'[x] = contents[x]
    BY <1>1, <1>2 DEF JInv, IInv, TypeOK
  <2>4. CASE FindBucket(Local) = d
    BY <1>3, <1>4, <2>2, <2>3, <2>4 DEF LocalIn
  <2>5. CASE FindBucket(Local) # d
    BY <1>4, <2>1, <2>2, <2>3, <2>5 DEF LocalIn
  <2>6. QED BY <2>4, <2>5
<1>7. QED BY <1>5, <1>6

\* Beginning a call, running in it and returning from it keep what the
\* strengthening says of the threads.
LEMMA ThreadsKept == JInv /\ [Next]_vars => Undisturbed' /\ NestedBusy'
<1> SUFFICES ASSUME JInv, [Next]_vars PROVE Undisturbed' /\ NestedBusy'
  OBVIOUS
<1>1. ASSUME NEW c \in Callers, NEW n \in Contact, Call(c, n)
      PROVE  Undisturbed' /\ NestedBusy'
  <2>1. Undisturbed'
    BY <1>1 DEF Call, JInv, IInv, TypeOK, Undisturbed
  <2>2. NestedBusy'
    BY <1>1 DEF Call, JInv, IInv, TypeOK, NestedBusy
  <2>3. QED BY <2>1, <2>2
<1>2. ASSUME NEW c \in Callers, NEW a \in Answer, Return(c, a), alone' = alone
      PROVE  Undisturbed' /\ NestedBusy'
  <2>1. /\ todo'[c] = NoContact /\ ~nested'[c]
        /\ \A d \in Callers \ {c} : todo'[d] = todo[d] /\ nested'[d] = nested[d]
    BY <1>2 DEF Return, JInv, IInv, TypeOK
  <2>2. QED BY <1>2, <2>1 DEF JInv, Undisturbed, NestedBusy
<1>3. ASSUME NEW c \in Callers, Split(c) PROVE Undisturbed' /\ NestedBusy'
  BY <1>3 DEF Split, JInv, IInv, TypeOK, Undisturbed, NestedBusy
<1>4. CASE UNCHANGED vars
  BY <1>4 DEF vars, JInv, Undisturbed, NestedBusy
<1>5. ASSUME NEW c \in Callers, Insert(c) PROVE Undisturbed' /\ NestedBusy'
  BY <1>2, <1>5 DEF Insert, Answer
<1>6. ASSUME NEW c \in Callers, Refuse(c) PROVE Undisturbed' /\ NestedBusy'
  BY <1>2, <1>6 DEF Refuse, Answer
<1>7. QED BY SeenAreContacts, <1>1, <1>3, <1>4, <1>5, <1>6 DEF Next

\* No step makes an undisturbed call that has split lose its room: only its own
\* splits change the table meanwhile, and those make room.
LEMMA RoomKept == JInv /\ [Next]_vars => NestedFits'
<1> SUFFICES ASSUME JInv, [Next]_vars, NEW x \in Callers, NEW n \in Contact,
                    alone'[x], nested'[x], todo'[x] = n
             PROVE  \/ LocalAtEnd'
                    \/ FindBucket(n.id)' = FindBucket(Local)'
                    \/ ~Full(FindBucket(n.id))'
  BY DEF NestedFits
<1>1. n # NoContact
  OBVIOUS
<1>2. ASSUME NEW c \in Callers, NEW m \in Contact, Call(c, m) PROVE FALSE
  <2>1. x = c /\ nested[c] /\ todo[c] = NoContact
    BY <1>2 DEF Call
  <2>2. QED BY <2>1 DEF JInv, NestedBusy
<1>3. ASSUME NEW c \in Callers, NEW a \in Answer, Return(c, a), alone' = alone,
             todo[c] # NoContact
      PROVE  FALSE
  <2>1. x # c /\ todo[x] = n
    BY <1>3 DEF Return, JInv, IInv, TypeOK
  <2>2. QED BY <1>1, <1>3, <2>1 DEF JInv, Undisturbed
<1>4. ASSUME NEW c \in Callers, Split(c)
      PROVE  \/ FindBucket(n.id)' = FindBucket(Local)'
             \/ ~Full(FindBucket(n.id))'
  <2>1. todo[c] # NoContact /\ alone[x] /\ todo[x] = n
    BY <1>4 DEF Split
  <2>2. x = c
    BY <1>1, <2>1 DEF JInv, Undisturbed
  <2>3. QED BY <1>4, <2>1, <2>2, SplitMakesRoom
<1>5. CASE UNCHANGED vars
  <2>1. UNCHANGED table /\ alone[x] /\ nested[x] /\ todo[x] = n
    BY <1>5 DEF vars, table
  <2>2. \/ LocalAtEnd
        \/ FindBucket(n.id) = FindBucket(Local)
        \/ ~Full(FindBucket(n.id))
    BY <2>1 DEF JInv, NestedFits
  <2>3. /\ LocalAtEnd' = LocalAtEnd
        /\ FindBucket(n.id)' = FindBucket(n.id)
        /\ FindBucket(Local)' = FindBucket(Local)
        /\ Full(FindBucket(n.id))' = Full(FindBucket(n.id))
    BY <2>1, SameLookups
  <2>4. QED BY <2>2, <2>3
<1>6. ASSUME NEW c \in Callers, Insert(c) PROVE FALSE
  BY <1>3, <1>6 DEF Insert, Answer
<1>7. ASSUME NEW c \in Callers, Refuse(c) PROVE FALSE
  BY <1>3, <1>7 DEF Refuse, Answer
<1>8. QED BY SeenAreContacts, <1>2, <1>4, <1>5, <1>6, <1>7 DEF Next

\* No step loses our own id.
LEMMA LocalKept == JInv /\ [Next]_vars => LocalIn'
<1> SUFFICES ASSUME JInv, [Next]_vars PROVE LocalIn'
  OBVIOUS
<1>1. ASSUME UNCHANGED table PROVE LocalIn'
  BY <1>1, SameLookups DEF JInv
<1>2. ASSUME NEW c \in Callers, NEW n \in Seen, Call(c, n) PROVE LocalIn'
  BY <1>1, <1>2 DEF Call, table
<1>3. ASSUME NEW c \in Callers, Insert(c) PROVE LocalIn'
  BY <1>3, InsertHolds
<1>4. ASSUME NEW c \in Callers, Split(c) PROVE LocalIn'
  BY <1>4, SplitMakesRoom
<1>5. ASSUME NEW c \in Callers, Refuse(c) PROVE LocalIn'
  BY <1>1, <1>5 DEF Refuse
<1>6. CASE UNCHANGED vars
  BY <1>1, <1>6 DEF vars, table
<1>7. QED BY <1>2, <1>3, <1>4, <1>5, <1>6 DEF Next

\* Every step keeps the strengthening.
LEMMA NextKeepsJ == JInv /\ [Next]_vars => JInv'
BY NextKeeps, ThreadsKept, RoomKept, LocalKept DEF JInv

LEMMA InitEstablishesJ == Init => JInv
<1> SUFFICES ASSUME Init PROVE JInv
  OBVIOUS
<1>1. IInv
  BY InitEstablishes
<1>2. LocalIn
  <2>1. Local \in 0..IdSpace
    OBVIOUS
  <2>2. FindBucket(Local) = 0
    BY <1>1, <2>1, FindBucketContains DEF Init, IInv
  <2>3. [id |-> Local, addr |-> LocalAddr] \in contents[0]
    BY DEF Init
  <2>4. QED BY <2>2, <2>3 DEF LocalIn
<1>3. Undisturbed /\ NestedFits /\ NestedBusy
  BY DEF Init, Undisturbed, NestedFits, NestedBusy
<1>4. QED BY <1>1, <1>2, <1>3 DEF JInv

\* A step in which an undisturbed insertNode returns None leaves the contact
\* where lookups find it, or our own id at the end of its bucket.
LEMMA StepNoneMeansInserted ==
  ASSUME JInv, [Next]_vars, NEW c \in Callers, NEW n \in Contact, alone[c],
         todo[c] = n, todo'[c] = NoContact, answer'[c] = "none"
  PROVE  Held(n)' \/ LocalAtEnd'
<1>1. todo[c] # NoContact /\ todo'[c] # todo[c]
  OBVIOUS
<1>2. CASE Insert(c)
  BY <1>2, InsertHolds
<1>3. CASE Refuse(c)
  <2>1. nested[c]
    BY <1>3 DEF Refuse, Return, JInv, IInv, TypeOK
  <2>2. \/ LocalAtEnd
        \/ FindBucket(n.id) = FindBucket(Local)
        \/ ~Full(FindBucket(n.id))
    BY <2>1 DEF JInv, NestedFits
  <2>3. Full(FindBucket(n.id)) /\ ~HoldsLocal(FindBucket(n.id))
    BY <1>3 DEF Refuse, Overflows
  <2>4. LocalAtEnd
    <3>1. Local \in 0..IdSpace
      OBVIOUS
    <3>2. /\ FindBucket(Local) \in begins
          /\ FindBucket(Local) <= Local /\ Local <= endOf[FindBucket(Local)]
      BY <3>1, FindBucketContains DEF JInv, IInv
    <3>3. endOf[FindBucket(Local)] \in Nat
      <4>1. \A x \in begins : endOf[x] \in Nat
        BY DEF JInv, IInv, TypeOK
      <4>2. QED BY <3>2, <4>1
    <3>4. QED BY <2>2, <2>3, <3>1, <3>2, <3>3 DEF HoldsLocal, LocalAtEnd
  <2>5. UNCHANGED table
    BY <1>3 DEF Refuse
  <2>6. QED BY <2>4, <2>5, SameLookups
<1>4. ASSUME NEW d \in Callers, NEW m \in Contact, Call(d, m) PROVE FALSE
  BY <1>1, <1>4 DEF Call, JInv, IInv, TypeOK
<1>5. ASSUME NEW d \in Callers, Split(d) PROVE FALSE
  BY <1>1, <1>5 DEF Split
<1>6. CASE UNCHANGED vars
  BY <1>1, <1>6 DEF vars
<1>7. ASSUME NEW d \in Callers, NEW a \in Answer, Return(d, a) PROVE d = c
  BY <1>1, <1>7 DEF Return, JInv, IInv, TypeOK
<1>8. ASSUME NEW d \in Callers, Insert(d) PROVE d = c
  BY <1>7, <1>8 DEF Insert, Answer
<1>9. ASSUME NEW d \in Callers, Refuse(d) PROVE d = c
  BY <1>7, <1>9 DEF Refuse, Answer
<1>10. QED
  BY SeenAreContacts, <1>2, <1>3, <1>4, <1>5, <1>6, <1>8, <1>9 DEF Next

\* A caller that gets None from a call during which no other thread inserted can
\* look the contact up, except once our own id is the last one of its bucket.
\* (Otherwise the other thread may fill the half that the split has left.)
THEOREM NoneIsHonest == Spec => NoneMeansInsertedInside
<1>1. JInv /\ [Next]_vars
        => [\A c \in Callers : \A n \in Contact :
              alone[c] /\ todo[c] = n /\ todo'[c] = NoContact /\ answer'[c] = "none"
                => Held(n)' \/ LocalAtEnd']_vars
  BY StepNoneMeansInserted
<1>2. JInv /\ [Next]_vars => JInv'
  BY NextKeepsJ
<1>3. QED BY <1>1, <1>2, InitEstablishesJ, PTL DEF Spec, NoneMeansInsertedInside

-----------------------------------------------------------------------------
(* insertNode ends.                                                        *)

\* How many ids the bucket of our own id spans.
SpanOf(b) == endOf[b] - b + 1
Span == SpanOf(FindBucket(Local))

\* Our own bucket spans an id at least, and no more than all of them.
LEMMA SpanType ==
  ASSUME IInv
  PROVE  Span \in 1 .. IdSpace + 1
<1>1. FindBucket(Local) \in begins /\ FindBucket(Local) <= Local /\ Local <= endOf[FindBucket(Local)]
  BY FindBucketContains DEF IInv
<1>2. FindBucket(Local) \in 0..IdSpace /\ endOf[FindBucket(Local)] \in 0..IdSpace
  BY <1>1 DEF IInv, TypeOK
<1>3. Local \in Nat
  OBVIOUS
<1> QED
  BY <1>1, <1>2, <1>3 DEF Span, SpanOf

\* The same of the bucket after a step.
LEMMA SpanTypeNext ==
  ASSUME IInv'
  PROVE  Span' \in Nat
<1>1. PICK b \in begins' : b <= Local /\ Local <= endOf'[b]
  BY DEF IInv, Partition, Covered
<1>2. /\ begins' \in SUBSET Nat /\ endOf' \in [begins' -> Nat] /\ Local \in Nat
      /\ \A u, v \in begins' : u < v => endOf'[u] < v
  BY DEF IInv, TypeOK, Partition, Disjoint
<1>3. FindBucket(Local)' = b
  BY <1>1, <1>2, BisectUnique DEF FindBucket
<1>4. Span' = endOf'[b] - b + 1
  BY <1>3 DEF Span, SpanOf
<1> QED
  BY <1>1, <1>2, <1>4

\* A split leaves about half of it.
LEMMA SplitHalves ==
  ASSUME IInv, NEW c \in Callers, Split(c)
  PROVE  Span >= 3 /\ 2 * Span' <= Span + 2
<1> DEFINE b == FindBucket(todo[c].id)
           l == LowEnd(b)
           h == HighBegin(b)
<1>1. b \in begins
  BY TodoIsContact, FindBucketContains DEF IInv, Split
<1>2. Full(b) /\ SplitBucket(b) /\ b <= Local /\ Local < endOf[b]
  BY DEF Split, Overflows, HoldsLocal
<1> HIDE DEF b
<1>3. /\ b \in Nat /\ endOf[b] \in Nat /\ l \in Nat /\ h \in Nat /\ Local \in Nat
      /\ b <= l /\ h = l + 1 /\ h <= endOf[b]
  BY <1>1, <1>2, SplitRange
<1>4. FindBucket(Local) = b
  BY <1>1, <1>2, <1>3, FindBucketUnique DEF IInv
<1>5. Span = endOf[b] - b + 1 /\ endOf[b] - b + 1 >= 3
  <2>1. endOf[b] - b + 1 >= K
    BY <1>1, <1>2, FullIsWide
  <2> QED
    BY <1>3, <1>4, <2>1 DEF Span, SpanOf
<1>6. begins' = begins \cup {h} /\ endOf'[b] = l /\ endOf'[h] = endOf[b]
  BY <1>1, <1>2, SplitTable
<1>7. 2 * (l - b + 1) <= Span + 2 /\ 2 * (endOf[b] - h + 1) <= Span + 2
  BY <1>3, <1>5 DEF LowEnd, Halfpoint, HighBegin
<1> HIDE DEF l, h
<1>8. IInv'
  BY SplitKeeps
<1>9. /\ begins' \in SUBSET Nat /\ endOf' \in [begins' -> Nat]
      /\ \A u, v \in begins' : u < v => endOf'[u] < v
  BY <1>8 DEF IInv, TypeOK, Partition, Disjoint
<1>10. CASE Local <= l
  <2>1. b \in begins' /\ b <= Local /\ Local <= endOf'[b]
    BY <1>1, <1>2, <1>6, <1>10
  <2>2. FindBucket(Local)' = b
    BY <1>3, <1>9, <2>1, BisectUnique DEF FindBucket
  <2>3. Span' = l - b + 1
    BY <1>6, <2>2 DEF Span, SpanOf
  <2> QED
    BY <1>5, <1>7, <2>3
<1>11. CASE ~(Local <= l)
  <2>1. h \in begins' /\ h <= Local /\ Local <= endOf'[h]
    BY <1>2, <1>3, <1>6, <1>11
  <2>2. FindBucket(Local)' = h
    BY <1>3, <1>9, <2>1, BisectUnique DEF FindBucket
  <2>3. Span' = endOf[b] - h + 1
    BY <1>6, <2>2 DEF Span, SpanOf
  <2> QED
    BY <1>5, <1>7, <2>3
<1> QED
  BY <1>10, <1>11

\* What any step does to it, and to the calls that run.
LEMMA StepSpan ==
  ASSUME IInv, [Next]_vars
  PROVE  /\ Span' = Span \/ (Span >= 3 /\ 2 * Span' <= Span + 2)
         /\ \A c \in Callers : Frame(c) =>
              \/ todo'[c] = NoContact
              \/ Span >= 3 /\ 2 * Span' <= Span + 2
<1>1. ASSUME UNCHANGED <<begins, endOf>> PROVE Span' = Span
  BY <1>1 DEF Span, SpanOf, FindBucket
<1>2. ASSUME NEW c \in Callers, Insert(c) \/ Refuse(c) PROVE UNCHANGED <<begins, endOf>>
  BY <1>2 DEF Insert, Refuse, table
<1>3. ASSUME NEW c \in Callers, NEW n \in Seen, Call(c, n) PROVE UNCHANGED <<begins, endOf>>
  BY <1>3 DEF Call
<1>4. CASE UNCHANGED vars
  BY <1>1, <1>4, SplitHalves DEF vars, Frame, Insert, Refuse, Return, IInv, TypeOK
<1>5. ASSUME NEW c \in Callers, Insert(c) \/ Refuse(c) PROVE todo'[c] = NoContact
  BY <1>5 DEF Insert, Refuse, Return, IInv, TypeOK
<1>6. Span' = Span \/ (Span >= 3 /\ 2 * Span' <= Span + 2)
  BY <1>1, <1>2, <1>3, <1>4, SplitHalves DEF Next, vars
<1> QED
  BY <1>5, <1>6, SplitHalves DEF Frame

\* No step widens it.
LEMMA NeverWider ==
  ASSUME IInv, IInv', [Next]_vars
  PROVE  Span' <= Span
<1>1. \A s, t \in Nat : t = s \/ (s >= 3 /\ 2 * t <= s + 2) => t <= s
  OBVIOUS
<1>2. Span \in Nat
  BY SpanType
<1>3. Span' \in Nat
  BY SpanTypeNext
<1>4. Span' = Span \/ (Span >= 3 /\ 2 * Span' <= Span + 2)
  BY StepSpan
<1> QED
  BY <1>1, <1>2, <1>3, <1>4

\* insertNode's recursion is finite, whatever other threads insert meanwhile:
\* each frame returns, or splits the bucket of our own id, which is wide enough
\* then, and about half of it is left, for good.  The ids it spans beyond two are
\* halved, so that all calls together make no more splits than an id has bits
\* (insertNode, _splitBucket).
THEOREM InsertNodeEnds ==
  Spec => /\ [](Span \in 1 .. IdSpace + 1)
          /\ [][Span' <= Span]_vars
          /\ [][\A c \in Callers : Frame(c) =>
                  \/ todo'[c] = NoContact
                  \/ Span >= 3 /\ 2 * Span' <= Span + 2]_vars
<1>1. IInv => Span \in 1 .. IdSpace + 1
  BY SpanType
<1>2. IInv /\ IInv' /\ [Next]_vars => [Span' <= Span]_vars
  BY NeverWider
<1>3. IInv /\ [Next]_vars => [\A c \in Callers : Frame(c) =>
                               \/ todo'[c] = NoContact
                               \/ Span >= 3 /\ 2 * Span' <= Span + 2]_vars
  BY StepSpan
<1> QED
  BY <1>1, <1>2, <1>3, Invariance, PTL DEF Spec

-----------------------------------------------------------------------------
(* Membership: the threads that use the table.                             *)

USE MembershipAssumption

Labels == {"idle", "unpend", "expose", "check", "add", "insert", "refresh"}

\* Where threads are, and what they are there for.
Threads ==
  /\ at \in [Callers -> Labels]
  /\ who \in [Callers -> Seen \cup {NoContact}]
  /\ getids \subseteq Seen
  /\ \A e \in keys : e.of \in Seen
  /\ \A t \in Callers : at[t] # "idle" => who[t] \in Seen
  /\ \A t \in Callers :
       todo[t] # NoContact => at[t] \in {"insert", "refresh"} /\ todo[t] = who[t]

\* insertNode has returned to addNode.
Back(t) == at[t] = "insert" /\ todo[t] = NoContact

\* Rated ids are in the table or cached, or were lost in a way that is known.
\* Between the return of insertNode and the rating, this is true of the id that
\* will be rated, unless it will be cached.
Resolving ==
  /\ \A i \in rated : i \in KnownIds \cup IdsOf(cache) \cup strangers \cup evicted \cup untold
  /\ \A t \in Callers :
       Back(t) /\ answer[t] # "oldest" => who[t].id \in KnownIds \cup untold

NoRoom(i) == Full(FindBucket(i)) /\ ~HoldsLocal(FindBucket(i))

\* No room for what is cached, and for what will be.
Crowded ==
  /\ cache \subseteq Seen
  /\ \A m \in cache : NoRoom(m.id)
  /\ \A t \in Callers : Back(t) /\ answer[t] = "oldest" => NoRoom(who[t].id)

\* Who is too late to delete the note of a pending GETID is not the only one to
\* know the node.
Meeting ==
  /\ MetIsKnown
  /\ \A t \in Callers : at[t] = "expose" => who[t].id \in disputed
  /\ \A t \in Callers :
       at[t] = "unpend" => who[t].id \in pendingGETID \cup nodes \cup Coming \cup disputed

\* The inductive invariant.
MInv == JInv /\ Threads /\ Resolving /\ Crowded /\ Meeting

-----------------------------------------------------------------------------
(* Steps.                                                                  *)

\* Steps that leave the table, the cache and the ratings alone, and let no
\* thread into addNode's call of insertNode.
Quiet ==
  /\ UNCHANGED <<vars, rated, cache, strangers, evicted, untold>>
  /\ \A t \in Callers : at'[t] = "insert" => at[t] = "insert" /\ who'[t] = who[t]

\* Beginning updateNode.
LEMMA BeginEffect ==
  ASSUME Threads, NEW t \in Callers, NEW n \in Seen, NEW given \in BOOLEAN,
         Begin(t, n, given)
  PROVE  /\ at[t] = "idle" /\ at'[t] \in {"unpend", "check"} /\ who'[t] = n
         /\ at'[t] = "unpend" => n.id \in pendingGETID
         /\ \A u \in Callers \ {t} : at'[u] = at[u] /\ who'[u] = who[u]
         /\ at' \in [Callers -> Labels] /\ who' \in [Callers -> Seen \cup {NoContact}]
         /\ met' = met \cup {n.id}
BY DEF Threads, Begin, Goto, Labels

\* Every step is quiet, or one of those that change the table, the cache or the
\* ratings.
LEMMA StepKinds ==
  ASSUME Threads, [MembershipNext]_memberVars
  PROVE  \/ Quiet
         \/ \E t \in Callers : \/ Check(t) \/ Add(t) \/ Conclude(t)
                               \/ InsertFrame(t) \/ SplitFrame(t) \/ RefuseFrame(t)
         \/ \E i \in Located : ModifyReputation(i)
<1>1. ASSUME NEW t \in Callers, NEW n \in Seen, NEW given \in BOOLEAN, Begin(t, n, given),
             UNCHANGED <<vars, rated, cache, strangers, evicted, untold>>
      PROVE  Quiet
  BY <1>1, BeginEffect DEF Quiet
<1>2. ASSUME NEW t \in Callers, NEW n \in Visitors, Visit(t, n) PROVE Quiet
  BY <1>1, <1>2 DEF Visit
<1>3. ASSUME NEW n \in Peers, Meet(n) PROVE Quiet
  BY <1>1, <1>3 DEF Meet
<1>4. ASSUME NEW n \in Named, Hear(n) PROVE Quiet
  <2>1. CASE Begin(Runtime, n, TRUE)
    BY <1>1, <1>4, <2>1 DEF Hear
  <2>2. CASE UNCHANGED <<at, who>>
    BY <1>4, <2>2 DEF Hear, Quiet
  <2>3. QED BY <1>4, <2>1, <2>2 DEF Hear
<1>5. ASSUME NEW n \in getids, NEW m \in Seen, GetidAnswers(n, m) PROVE Quiet
  BY <1>1, <1>5 DEF GetidAnswers
<1>6. ASSUME NEW n \in getids, GetidFails(n) PROVE Quiet
  BY <1>6 DEF GetidFails, Quiet, history
<1>7. ASSUME NEW e \in keys, Callback(e) PROVE Quiet
  <2>1. CASE e.id = e.of.id
    BY <1>1, <1>7, <2>1 DEF Callback, Threads
  <2>2. CASE e.id # e.of.id
    BY <1>7, <2>2 DEF Callback, Threads, Goto, Quiet
  <2>3. QED BY <2>1, <2>2
<1>8. ASSUME NEW t \in Callers, Unpend(t) PROVE Quiet
  BY <1>8 DEF Unpend, Leave, Goto, Threads, Quiet, history
<1>9. ASSUME NEW t \in Callers, Expose(t) PROVE Quiet
  BY <1>9 DEF Expose, Leave, Goto, Threads, Quiet, history
<1>10. CASE UNCHANGED memberVars
  BY <1>10 DEF memberVars, history, Quiet
<1>11. QED
  BY <1>2, <1>3, <1>4, <1>5, <1>6, <1>7, <1>8, <1>9, <1>10 DEF MembershipNext

\* Every step is one of the routing table, or leaves it and its callers alone.
LEMMA UsesTable ==
  ASSUME Threads, [MembershipNext]_memberVars
  PROVE  [Next]_vars
<1>1. ASSUME NEW t \in Callers, NEW n \in Seen, Call(t, n) PROVE Next
  BY <1>1 DEF Next
<1>2. ASSUME NEW t \in Callers, Check(t) PROVE [Next]_vars
  BY <1>1, <1>2 DEF Check, Threads
<1>3. ASSUME NEW t \in Callers, Add(t) PROVE Next
  BY <1>1, <1>3 DEF Add, Threads
<1>4. ASSUME NEW t \in Callers, Conclude(t) PROVE Next
  BY <1>1, <1>4 DEF Conclude, Threads
<1>5. ASSUME NEW t \in Callers, InsertFrame(t) \/ SplitFrame(t) \/ RefuseFrame(t)
      PROVE  Next
  BY <1>5 DEF InsertFrame, SplitFrame, RefuseFrame, Next
<1>6. ASSUME NEW i \in Located, ModifyReputation(i) PROVE UNCHANGED vars
  BY <1>6 DEF ModifyReputation
<1>7. CASE Quiet
  BY <1>7 DEF Quiet
<1>8. QED BY StepKinds, <1>2, <1>3, <1>4, <1>5, <1>6, <1>7

-----------------------------------------------------------------------------
(* Where the threads are.                                                  *)

\* What a caller is inserting, after a frame of the table.
LEMMA FrameTodo ==
  ASSUME TypeOK, NEW t \in Callers, Insert(t) \/ Split(t) \/ Refuse(t)
  PROVE  /\ todo[t] # NoContact
         /\ \A u \in Callers : todo'[u] = todo[u] \/ todo'[u] = NoContact
         /\ \A u \in Callers \ {t} : todo'[u] = todo[u] /\ answer'[u] = answer[u]
BY DEF TypeOK, Insert, Split, Refuse, Return

\* And after a call of it.
LEMMA CallTodo ==
  ASSUME TypeOK, NEW t \in Callers, NEW n \in Contact, Call(t, n)
  PROVE  /\ UNCHANGED <<table, answer>>
         /\ todo[t] = NoContact /\ todo'[t] = n
         /\ \A u \in Callers \ {t} : todo'[u] = todo[u]
BY DEF TypeOK, Call, table

\* A step of a thread keeps the program counters where they belong.
LEMMA ThreadsStay ==
  ASSUME TypeOK, Threads, [MembershipNext]_memberVars
  PROVE  Threads'
<1> DEFINE Fits == \A t \in Callers :
             todo[t] # NoContact => at[t] \in {"insert", "refresh"} /\ todo[t] = who[t]
<1>1. ASSUME NEW t \in Callers, NEW n \in Seen, NEW given \in BOOLEAN, Begin(t, n, given),
             UNCHANGED vars, getids' \subseteq Seen, \A e \in keys' : e.of \in Seen
      PROVE  Threads'
  <2>1. /\ at[t] = "idle" /\ at'[t] \in {"unpend", "check"} /\ who'[t] = n
        /\ \A u \in Callers \ {t} : at'[u] = at[u] /\ who'[u] = who[u]
        /\ at' \in [Callers -> Labels] /\ who' \in [Callers -> Seen \cup {NoContact}]
    BY <1>1, BeginEffect
  <2>2. todo' = todo
    BY <1>1 DEF vars
  <2>3. QED BY <1>1, <2>1, <2>2 DEF Threads
<1>2. ASSUME NEW t \in Callers, Leave(t), UNCHANGED <<getids, keys>>,
             todo'[t] = NoContact, \A u \in Callers \ {t} : todo'[u] = todo[u]
      PROVE  Threads'
  BY <1>2 DEF Leave, Goto, Threads, Labels
<1>3. ASSUME NEW t \in Callers, NEW l \in {"check", "add"}, Goto(t, l), at[t] # "idle",
             UNCHANGED <<vars, who, getids, keys>>, todo[t] = NoContact
      PROVE  Threads'
  BY <1>3 DEF Goto, Threads, Labels, vars
<1>4. ASSUME NEW t \in Callers, NEW l \in {"insert", "refresh"}, Goto(t, l),
             Call(t, who[t]), at[t] # "idle", UNCHANGED <<who, getids, keys>>
      PROVE  Threads'
  <2>1. who[t] \in Seen /\ who[t] \in Contact
    BY <1>4, SeenAreContacts DEF Threads
  <2>2. todo'[t] = who[t] /\ \A u \in Callers \ {t} : todo'[u] = todo[u]
    BY <1>4, <2>1, CallTodo
  <2>3. QED BY <1>4, <2>1, <2>2 DEF Goto, Threads, Labels
<1>5. ASSUME UNCHANGED <<at, who>>, getids' \subseteq Seen, \A e \in keys' : e.of \in Seen,
             \A u \in Callers : todo'[u] = todo[u] \/ todo'[u] = NoContact
      PROVE  Threads'
  BY <1>5 DEF Threads
<1>6. ASSUME NEW t \in Callers, NEW n \in Visitors, Visit(t, n) PROVE Threads'
  BY <1>1, <1>6 DEF Visit, membership, Threads
<1>7. ASSUME NEW n \in Peers, Meet(n) PROVE Threads'
  BY <1>1, <1>7 DEF Meet, membership, Threads
<1>8. ASSUME NEW n \in Named, Hear(n) PROVE Threads'
  <2>1. getids' \subseteq Seen /\ keys' = keys /\ UNCHANGED vars
    BY <1>8 DEF Hear, Threads
  <2>2. CASE Begin(Runtime, n, TRUE)
    BY <1>1, <2>1, <2>2 DEF Threads
  <2>3. CASE UNCHANGED <<at, who>>
    BY <1>5, <2>1, <2>3 DEF Threads, vars
  <2>4. QED BY <1>8, <2>2, <2>3 DEF Hear
<1>9. ASSUME NEW n \in getids, NEW m \in Seen, GetidAnswers(n, m) PROVE Threads'
  <2>1. \A e \in keys' : e.of \in Seen
    BY <1>9 DEF GetidAnswers, Threads
  <2>2. QED BY <1>1, <1>9, <2>1 DEF GetidAnswers, Threads
<1>10. ASSUME NEW n \in getids, GetidFails(n) PROVE Threads'
  BY <1>5, <1>10 DEF GetidFails, Threads, vars
<1>11. ASSUME NEW e \in keys, Callback(e) PROVE Threads'
  <2>1. e.of \in Seen /\ getids' \subseteq Seen /\ UNCHANGED vars
        /\ \A f \in keys' : f.of \in Seen
    BY <1>11 DEF Callback, Threads
  <2>2. CASE e.id = e.of.id
    BY <1>1, <1>11, <2>1, <2>2 DEF Callback
  <2>3. CASE e.id # e.of.id
    BY <1>11, <2>1, <2>3 DEF Callback, Goto, Threads, Labels, vars
  <2>4. QED BY <2>2, <2>3
<1>12. ASSUME NEW t \in Callers, Unpend(t) PROVE Threads'
  <2>1. todo[t] = NoContact /\ todo' = todo
    BY <1>12 DEF Unpend, Threads, vars
  <2>2. CASE Leave(t)
    BY <1>2, <1>12, <2>1, <2>2 DEF Unpend
  <2>3. CASE Goto(t, "check") /\ UNCHANGED who
    BY <1>3, <1>12, <2>1, <2>3 DEF Unpend
  <2>4. QED BY <1>12, <2>2, <2>3 DEF Unpend
<1>13. ASSUME NEW t \in Callers, Expose(t) PROVE Threads'
  BY <1>2, <1>13 DEF Expose, Threads, vars
<1>14. ASSUME NEW t \in Callers, Check(t) PROVE Threads'
  <2>1. todo[t] = NoContact
    BY <1>14 DEF Check, Threads
  <2>2. QED BY <1>3, <1>4, <1>14, <2>1 DEF Check, membership
<1>15. ASSUME NEW t \in Callers, Add(t) \/ Conclude(t) PROVE Threads'
  BY <1>4, <1>15 DEF Add, Conclude, membership
<1>16. ASSUME NEW t \in Callers, InsertFrame(t) \/ SplitFrame(t) \/ RefuseFrame(t)
       PROVE  Threads'
  <2>1. /\ \A u \in Callers : todo'[u] = todo[u] \/ todo'[u] = NoContact
        /\ \A u \in Callers \ {t} : todo'[u] = todo[u]
    BY <1>16, FrameTodo DEF InsertFrame, SplitFrame, RefuseFrame
  <2>2. CASE UNCHANGED <<at, who>>
    BY <1>5, <1>16, <2>1, <2>2
       DEF InsertFrame, SplitFrame, RefuseFrame, membership, Threads
  <2>3. CASE Leave(t) /\ ~SplitFrame(t)
    <3>1. todo'[t] = NoContact
      BY <1>16, <2>3 DEF InsertFrame, RefuseFrame, Insert, Refuse, Return, TypeOK
    <3>2. QED BY <1>2, <1>16, <2>1, <2>3, <3>1 DEF InsertFrame, RefuseFrame, membership
  <2>4. QED
    BY <1>16, <2>2, <2>3 DEF InsertFrame, SplitFrame, RefuseFrame, Returned
<1>17. ASSUME NEW i \in Located, ModifyReputation(i) PROVE Threads'
  BY <1>5, <1>17 DEF ModifyReputation, Threads, membership, vars
<1>18. CASE UNCHANGED memberVars
  BY <1>5, <1>18 DEF memberVars, membership, Threads, vars
<1>19. QED
  BY <1>6, <1>7, <1>8, <1>9, <1>10, <1>11, <1>12, <1>13, <1>14, <1>15, <1>16, <1>17, <1>18
     DEF MembershipNext

-----------------------------------------------------------------------------
(* Ratings resolve.                                                        *)

\* What a bucket has taken is in the table.
LEMMA InsertedIsKnown ==
  ASSUME JInv, NEW t \in Callers, Insert(t)
  PROVE  todo[t].id \in KnownIds'
<1>1. PICK n \in Contact : n = todo[t]
  BY TodoIsContact DEF JInv, IInv, Insert
<1>2. FindBucket(n.id) \in begins
  BY <1>1, TodoIsContact, FindBucketContains DEF JInv, IInv, Insert
<1>3. n \in contents'[FindBucket(n.id)']
  BY <1>1, InsertHolds DEF Held
<1>4. begins' = begins /\ FindBucket(n.id)' = FindBucket(n.id)
  BY DEF Insert, FindBucket
<1>5. n \in UNION {contents'[c] : c \in begins'}
  BY <1>2, <1>3, <1>4
<1>6. QED BY <1>1, <1>5 DEF KnownIds

\* A call, and a step that leaves the table alone, change neither the known ids
\* nor the rooms.
LEMMA SameKnown ==
  ASSUME UNCHANGED table
  PROVE  KnownIds' = KnownIds /\ \A i : NoRoom(i)' = NoRoom(i)
BY DEF table, KnownIds, NoRoom, Full, FindBucket, HoldsLocal

\* The cache takes a contact, and forgets none but those that are noted.
LEMMA CacheKeeps ==
  ASSUME NEW n, CacheInsert(n)
  PROVE  /\ n.id \in IdsOf(cache)'
         /\ IdsOf(cache) \subseteq IdsOf(cache)' \cup evicted'
         /\ evicted \subseteq evicted'
         /\ cache' \subseteq cache \cup {n}
BY DEF CacheInsert, IdsOf

\* What the table refuses in addNode's call is cached next, or noted.
LEMMA RefusedIsNoted ==
  ASSUME JInv, Threads, NEW t \in Callers, RefuseFrame(t)
  PROVE  /\ UNCHANGED <<table, rated, cache, strangers, evicted>>
         /\ untold \subseteq untold'
         /\ at'[t] = "insert" /\ answer'[t] # "oldest" => who'[t].id \in untold'
         /\ \A u \in Callers \ {t} : at'[u] = at[u] /\ who'[u] = who[u]
<1>1. /\ UNCHANGED <<table, rated, cache, strangers, evicted>>
      /\ untold \subseteq untold'
  BY DEF RefuseFrame, Refuse
<1>2. at'[t] = "insert" => at[t] = "insert" /\ who'[t] = who[t]
  BY DEF RefuseFrame, Returned, Leave, Goto, Threads, Labels
<1>3. \A u \in Callers \ {t} : at'[u] = at[u] /\ who'[u] = who[u]
  BY DEF RefuseFrame, Returned, Leave, Goto, Threads, Labels
<1>4. answer'[t] # "oldest" => nested[t]
  BY DEF RefuseFrame, Refuse, Return, JInv, IInv, TypeOK
<1>5. todo[t] = who[t]
  BY DEF RefuseFrame, Refuse, Threads
<1>6. at'[t] = "insert" /\ answer'[t] # "oldest" => who'[t].id \in untold'
  BY <1>2, <1>4, <1>5 DEF RefuseFrame
<1>7. QED BY <1>1, <1>3, <1>6

\* Every step keeps rated ids within reach.
LEMMA ResolvingKept ==
  ASSUME JInv, Threads, Resolving, [MembershipNext]_memberVars
  PROVE  Resolving'
<1> DEFINE Reach == KnownIds \cup IdsOf(cache) \cup strangers \cup evicted \cup untold
<1>1. KnownIds \subseteq KnownIds'
  BY UsesTable, StepForgetsNothing DEF JInv
<1>2. TypeOK /\ Seen \subseteq Contact
  BY SeenAreContacts DEF JInv, IInv
<1>3. CASE Quiet
  <2>1. UNCHANGED <<todo, answer, rated, cache, strangers, evicted, untold>>
    BY <1>3 DEF Quiet, vars
  <2>2. \A t \in Callers : Back(t)' => Back(t) /\ who'[t] = who[t]
    BY <1>3, <2>1 DEF Quiet, Back
  <2>3. QED BY <1>1, <2>1, <2>2 DEF Resolving, IdsOf
<1>4. ASSUME NEW t \in Callers, Check(t) PROVE Resolving'
  <2>1. UNCHANGED <<answer, rated, cache, strangers, evicted, untold, who>>
    BY <1>4 DEF Check, Call, vars, history
  <2>2. \A u \in Callers : Back(u)' => Back(u)
    <3>1. at'[t] # "insert" /\ \A u \in Callers \ {t} : at'[u] = at[u]
      BY <1>4 DEF Check, Goto, Threads, Labels
    <3>2. \A u \in Callers \ {t} : todo'[u] = todo[u]
      BY <1>4 DEF Check, Call, vars, JInv, IInv, TypeOK
    <3>3. QED BY <3>1, <3>2 DEF Back
  <2>3. QED BY <1>1, <2>1, <2>2 DEF Resolving, IdsOf
<1>5. ASSUME NEW t \in Callers, Add(t) PROVE Resolving'
  <2>1. UNCHANGED <<answer, rated, cache, strangers, evicted, untold, who>>
    BY <1>5 DEF Add, Call, history
  <2>2. /\ \A u \in Callers \ {t} : todo'[u] = todo[u] /\ at'[u] = at[u]
        /\ todo'[t] = who[t] /\ who[t] \in Contact
    BY <1>2, <1>5 DEF Add, Call, Goto, Threads, TypeOK, Labels
  <2>3. todo'[t] # NoContact
    BY <2>2
  <2>4. \A u \in Callers : Back(u)' => Back(u)
    BY <2>2, <2>3 DEF Back
  <2>5. QED BY <1>1, <2>1, <2>4 DEF Resolving, IdsOf
<1>6. ASSUME NEW t \in Callers, Conclude(t) PROVE Resolving'
  <2>1. /\ UNCHANGED <<answer, untold, who>>
        /\ rated' = rated \cup {who[t].id} /\ strangers' = strangers \ {who[t].id}
        /\ Back(t)
    BY <1>6 DEF Conclude, Call, Back
  <2>2. \A u \in Callers : Back(u)' => Back(u)
    <3>1. at'[t] # "insert" /\ \A u \in Callers \ {t} : at'[u] = at[u]
      BY <1>6 DEF Conclude, Goto, Threads, Labels
    <3>2. \A u \in Callers \ {t} : todo'[u] = todo[u]
      BY <1>6 DEF Conclude, Call, JInv, IInv, TypeOK
    <3>3. QED BY <3>1, <3>2 DEF Back
  <2>3. CASE answer[t] = "oldest"
    <3>1. CacheInsert(who[t])
      BY <1>6, <2>3 DEF Conclude
    <3>2. /\ who[t].id \in IdsOf(cache)'
          /\ IdsOf(cache) \subseteq IdsOf(cache)' \cup evicted'
          /\ evicted \subseteq evicted'
      BY <3>1, CacheKeeps
    <3>3. QED BY <1>1, <2>1, <2>2, <3>2 DEF Resolving
  <2>4. CASE answer[t] # "oldest"
    <3>1. UNCHANGED <<cache, evicted>>
      BY <1>6, <2>4 DEF Conclude
    <3>2. who[t].id \in KnownIds \cup untold
      BY <2>1, <2>4 DEF Resolving
    <3>3. QED BY <1>1, <2>1, <2>2, <3>1, <3>2 DEF Resolving, IdsOf
  <2>5. QED BY <2>3, <2>4
<1>7. ASSUME NEW t \in Callers, InsertFrame(t) PROVE Resolving'
  <2>1. /\ UNCHANGED <<rated, strangers, evicted, untold>>
        /\ cache' = {m \in cache : m.id # todo[t].id}
        /\ todo[t].id \in KnownIds'
        /\ todo[t] = who[t]
    BY <1>7, InsertedIsKnown DEF InsertFrame, history, Insert, Threads
  <2>2. IdsOf(cache) \subseteq IdsOf(cache)' \cup {todo[t].id}
    BY <2>1 DEF IdsOf
  <2>3. /\ at'[t] = "insert" => who'[t] = who[t]
        /\ \A u \in Callers \ {t} : at'[u] = at[u] /\ who'[u] = who[u]
    BY <1>7 DEF InsertFrame, Returned, Leave, Goto, Threads, Labels
  <2>4. \A u \in Callers \ {t} : todo'[u] = todo[u] /\ answer'[u] = answer[u]
    BY <1>2, <1>7, FrameTodo DEF InsertFrame
  <2>5. \A i \in rated' : i \in Reach'
    BY <1>1, <2>1, <2>2 DEF Resolving
  <2>6. ASSUME NEW u \in Callers, Back(u)', answer'[u] # "oldest"
        PROVE  who'[u].id \in KnownIds' \cup untold'
    <3>1. CASE u = t
      BY <2>1, <2>3, <2>6, <3>1 DEF Back
    <3>2. CASE u # t
      BY <1>1, <2>1, <2>3, <2>4, <2>6, <3>2 DEF Back, Resolving
    <3>3. QED BY <3>1, <3>2
  <2>7. QED BY <2>5, <2>6 DEF Resolving
<1>8. ASSUME NEW t \in Callers, SplitFrame(t) PROVE Resolving'
  <2>1. UNCHANGED <<rated, cache, strangers, evicted, untold, at, who, todo, answer>>
    BY <1>8 DEF SplitFrame, history, Split
  <2>2. QED BY <1>1, <2>1 DEF Resolving, Back, IdsOf
<1>9. ASSUME NEW t \in Callers, RefuseFrame(t) PROVE Resolving'
  <2>1. /\ UNCHANGED <<table, rated, cache, strangers, evicted>>
        /\ untold \subseteq untold'
        /\ at'[t] = "insert" /\ answer'[t] # "oldest" => who'[t].id \in untold'
        /\ \A u \in Callers \ {t} : at'[u] = at[u] /\ who'[u] = who[u]
    BY <1>9, RefusedIsNoted
  <2>2. \A u \in Callers \ {t} : todo'[u] = todo[u] /\ answer'[u] = answer[u]
    BY <1>2, <1>9, FrameTodo DEF RefuseFrame
  <2>3. \A i \in rated' : i \in Reach'
    BY <1>1, <2>1 DEF Resolving, IdsOf
  <2>4. ASSUME NEW u \in Callers, Back(u)', answer'[u] # "oldest"
        PROVE  who'[u].id \in KnownIds' \cup untold'
    <3>1. CASE u = t
      BY <2>1, <2>4, <3>1 DEF Back
    <3>2. CASE u # t
      BY <1>1, <2>1, <2>2, <2>4, <3>2 DEF Back, Resolving
    <3>3. QED BY <3>1, <3>2
  <2>5. QED BY <2>3, <2>4 DEF Resolving
<1>10. ASSUME NEW i \in Located, ModifyReputation(i) PROVE Resolving'
  <2>1. /\ UNCHANGED <<todo, answer, cache, evicted, untold, at, who>>
        /\ rated' = rated \cup {i} /\ strangers' = strangers \cup ({i} \ rated)
    BY <1>10 DEF ModifyReputation, vars
  <2>2. QED BY <1>1, <2>1 DEF Resolving, Back, IdsOf
<1>11. QED
  BY StepKinds, <1>3, <1>4, <1>5, <1>6, <1>7, <1>8, <1>9, <1>10

-----------------------------------------------------------------------------
(* No room stays no room.                                                  *)

\* A full bucket that will not be split keeps its contents and its range.
LEMMA NoRoomStays ==
  ASSUME IInv, [Next]_vars, NEW i \in 0..IdSpace, NoRoom(i)
  PROVE  NoRoom(i)'
<1> DEFINE b == FindBucket(i)
<1>1. b \in begins /\ b <= i /\ i <= endOf[b] /\ i \in Nat
  BY FindBucketContains DEF IInv
<1>2. Full(b) /\ ~HoldsLocal(b)
  BY DEF NoRoom
<1>3. ASSUME UNCHANGED table PROVE NoRoom(i)'
  BY <1>3, SameKnown
<1>4. ASSUME NEW c \in Callers, Insert(c) PROVE NoRoom(i)'
  <2>1. PICK n \in Contact : n = todo[c]
    BY <1>4, TodoIsContact DEF IInv, Insert
  <2>2. FindBucket(n.id) \in begins
    BY <1>4, <2>1, TodoIsContact, FindBucketContains DEF IInv, Insert
  <2>3. /\ ~Overflows(FindBucket(n.id), n)
        /\ begins' = begins /\ endOf' = endOf
        /\ contents' = [contents EXCEPT ![FindBucket(n.id)] = Put(@, n)]
    BY <1>4, <2>1 DEF Insert
  <2>4. contents'[b] = contents[b]
    <3>1. CASE FindBucket(n.id) = b
      <4>1. Put(contents[b], n) = contents[b]
        BY <1>2, <2>3, <3>1 DEF Overflows, Put
      <4> HIDE DEF b
      <4>2. QED BY <1>1, <2>3, <3>1, <4>1 DEF IInv, TypeOK
    <3>2. CASE FindBucket(n.id) # b
      BY <1>1, <2>2, <2>3, <3>2 DEF IInv, TypeOK
    <3>3. QED BY <3>1, <3>2
  <2>5. FindBucket(i)' = b
    BY <2>3 DEF FindBucket
  <2> HIDE DEF b
  <2>6. QED BY <1>2, <2>3, <2>4, <2>5 DEF NoRoom, Full, HoldsLocal
<1>5. ASSUME NEW c \in Callers, Split(c) PROVE NoRoom(i)'
  <2>1. PICK d \in begins : d = FindBucket(todo[c].id)
    BY <1>5, TodoIsContact, FindBucketContains DEF IInv, Split
  <2>2. Full(d) /\ HoldsLocal(d) /\ SplitBucket(d)
    BY <1>5, <2>1 DEF Split, Overflows
  <2>3. d # b
    BY <1>2, <2>2
  <2> HIDE DEF b
  <2>4. b \in begins' /\ endOf'[b] = endOf[b] /\ contents'[b] = contents[b]
    BY <1>1, <2>1, <2>2, <2>3, SplitTable
  <2>5. IInv'
    BY <1>5, SplitKeeps
  <2>6. /\ begins' \in SUBSET Nat /\ endOf' \in [begins' -> Nat]
        /\ \A u, v \in begins' : u < v => endOf'[u] < v
    BY <2>5 DEF IInv, TypeOK, Partition, Disjoint
  <2>7. FindBucket(i)' = b
    BY <1>1, <2>4, <2>6, BisectUnique DEF FindBucket
  <2>8. QED BY <1>2, <2>4, <2>7 DEF NoRoom, Full, HoldsLocal
<1>6. ASSUME NEW c \in Callers, NEW n \in Seen, Call(c, n) PROVE NoRoom(i)'
  BY <1>3, <1>6 DEF Call, table
<1>7. ASSUME NEW c \in Callers, Refuse(c) PROVE NoRoom(i)'
  BY <1>3, <1>7 DEF Refuse
<1>8. CASE UNCHANGED vars
  BY <1>3, <1>8 DEF vars, table
<1>9. QED BY <1>4, <1>5, <1>6, <1>7, <1>8 DEF Next

\* Ids of seen contacts are ids.
LEMMA SeenIds == \A n \in Seen : n.id \in 0..IdSpace /\ n.id \in Ids
BY SeenAreContacts DEF Contact

\* Nothing is cached that there is room for.
LEMMA CrowdedKept ==
  ASSUME JInv, Threads, Crowded, [MembershipNext]_memberVars
  PROVE  Crowded'
<1>1. ASSUME NEW i \in 0..IdSpace, NoRoom(i) PROVE NoRoom(i)'
  BY <1>1, UsesTable, NoRoomStays DEF JInv
<1>2. TypeOK /\ Seen \subseteq Contact
  BY SeenAreContacts DEF JInv, IInv
\* Contacts stay crowded; so it is enough to look at what a step adds.
<1>3. ASSUME cache' \subseteq cache,
             \A u \in Callers : Back(u)' /\ answer'[u] = "oldest"
               => (Back(u) /\ answer[u] = "oldest" /\ who'[u] = who[u]) \/ NoRoom(who[u].id)'
      PROVE  Crowded'
  <2>1. \A m \in cache' : NoRoom(m.id)'
    BY <1>1, <1>3, SeenIds DEF Crowded
  <2>2. ASSUME NEW u \in Callers, Back(u)', answer'[u] = "oldest"
        PROVE  NoRoom(who[u].id)'
    <3>1. CASE Back(u) /\ answer[u] = "oldest" /\ who'[u] = who[u]
      <4>1. PICK n \in Seen : n = who[u]
        BY <3>1 DEF Back, Threads
      <4>2. NoRoom(n.id) /\ n = who'[u]
        BY <3>1, <4>1 DEF Crowded
      <4>3. NoRoom(n.id)'
        BY <1>1, <4>2, SeenIds
      <4>4. QED BY <4>2, <4>3
    <3>2. QED BY <1>3, <2>2, <3>1
  <2>3. QED BY <1>3, <2>1, <2>2 DEF Crowded
<1>4. CASE Quiet
  <2>1. UNCHANGED <<todo, answer, cache>>
    BY <1>4 DEF Quiet, vars
  <2>2. QED BY <1>3, <1>4, <2>1 DEF Quiet, Back
<1>5. ASSUME NEW t \in Callers, NEW l \in {"add", "refresh", "insert"}, Goto(t, l),
             l = "insert" => todo'[t] # NoContact,
             \A u \in Callers \ {t} : todo'[u] = todo[u] /\ answer'[u] = answer[u],
             who' = who, cache' \subseteq cache
      PROVE  Crowded'
  <2>1. ~Back(t)' /\ \A u \in Callers \ {t} : at'[u] = at[u]
    BY <1>5 DEF Goto, Threads, Labels, Back
  <2>2. QED BY <1>3, <1>5, <2>1 DEF Back
<1>6. ASSUME NEW t \in Callers, Check(t) PROVE Crowded'
  <2>1. \A u \in Callers \ {t} : todo'[u] = todo[u] /\ answer'[u] = answer[u]
    BY <1>2, <1>6 DEF Check, Call, vars, TypeOK
  <2>2. QED BY <1>5, <1>6, <2>1 DEF Check
<1>7. ASSUME NEW t \in Callers, Add(t) PROVE Crowded'
  <2>1. /\ who[t] \in Contact /\ todo'[t] = who[t]
        /\ \A u \in Callers \ {t} : todo'[u] = todo[u] /\ answer'[u] = answer[u]
    BY <1>2, <1>7 DEF Add, Call, Threads, TypeOK
  <2>2. todo'[t] # NoContact
    BY <2>1
  <2>3. QED BY <1>5, <1>7, <2>1, <2>2 DEF Add
<1>8. ASSUME NEW t \in Callers, Conclude(t) PROVE Crowded'
  <2>1. /\ \A u \in Callers \ {t} : todo'[u] = todo[u] /\ answer'[u] = answer[u]
        /\ Back(t) /\ who' = who /\ Goto(t, "refresh") /\ UNCHANGED answer
    BY <1>2, <1>8 DEF Conclude, Call, TypeOK, Back
  <2>2. CASE answer[t] # "oldest"
    BY <1>5, <1>8, <2>1, <2>2 DEF Conclude
  <2>3. CASE answer[t] = "oldest"
    <3>1. PICK n \in Seen : n = who[t]
      BY <2>1 DEF Back, Threads
    <3>2. cache' \subseteq cache \cup {n} /\ NoRoom(n.id)
      BY <1>8, <2>1, <2>3, <3>1, CacheKeeps DEF Conclude, Crowded
    <3>3. cache' \subseteq Seen /\ \A m \in cache' : NoRoom(m.id)'
      BY <1>1, <3>1, <3>2, SeenIds DEF Crowded
    <3>4. ~Back(t)' /\ \A u \in Callers \ {t} : at'[u] = at[u]
      BY <2>1 DEF Goto, Threads, Labels, Back
    <3>5. ASSUME NEW u \in Callers, Back(u)', answer'[u] = "oldest"
          PROVE  NoRoom(who[u].id)'
      <4>1. Back(u) /\ answer[u] = "oldest" /\ who'[u] = who[u]
        BY <2>1, <3>4, <3>5 DEF Back
      <4>2. PICK m \in Seen : m = who[u]
        BY <4>1 DEF Back, Threads
      <4>3. NoRoom(m.id) /\ m = who'[u]
        BY <4>1, <4>2 DEF Crowded
      <4>4. NoRoom(m.id)'
        BY <1>1, <4>3, SeenIds
      <4>5. QED BY <4>3, <4>4
    <3>6. QED BY <3>3, <3>5 DEF Crowded
  <2>4. QED BY <2>2, <2>3
<1>9. ASSUME NEW t \in Callers, InsertFrame(t) PROVE Crowded'
  <2>1. cache' \subseteq cache /\ answer'[t] # "oldest"
    BY <1>2, <1>9 DEF InsertFrame, Insert, Return, TypeOK
  <2>2. \A u \in Callers \ {t} : /\ at'[u] = at[u] /\ who'[u] = who[u]
                                 /\ todo'[u] = todo[u] /\ answer'[u] = answer[u]
    BY <1>2, <1>9, FrameTodo DEF InsertFrame, Returned, Leave, Goto, Threads, Labels
  <2>3. QED BY <1>3, <2>1, <2>2 DEF Back
<1>10. ASSUME NEW t \in Callers, SplitFrame(t) PROVE Crowded'
  <2>1. UNCHANGED <<cache, at, who, todo, answer>>
    BY <1>10 DEF SplitFrame, Split
  <2>2. QED BY <1>3, <2>1 DEF Back
<1>11. ASSUME NEW t \in Callers, RefuseFrame(t) PROVE Crowded'
  <2>1. \A u \in Callers \ {t} : /\ at'[u] = at[u] /\ who'[u] = who[u]
                                 /\ todo'[u] = todo[u] /\ answer'[u] = answer[u]
    BY <1>2, <1>11, FrameTodo, RefusedIsNoted DEF RefuseFrame
  <2>2. UNCHANGED table /\ cache' = cache
    BY <1>11, RefusedIsNoted
  <2>3. PICK n \in Seen : n = who[t] /\ n = todo[t]
    BY <1>11 DEF RefuseFrame, Refuse, Threads
  <2>4. NoRoom(n.id)'
    <3>1. NoRoom(n.id)
      BY <1>11, <2>3 DEF RefuseFrame, Refuse, Overflows, NoRoom
    <3>2. QED BY <2>2, <3>1, SameKnown
  <2>5. Back(t)' => who'[t] = n
    BY <1>11, <2>3 DEF RefuseFrame, Returned, Leave, Goto, Threads, Labels, Back
  <2>6. QED BY <1>3, <2>1, <2>2, <2>4, <2>5 DEF Back
<1>12. ASSUME NEW i \in Located, ModifyReputation(i) PROVE Crowded'
  <2>1. UNCHANGED <<cache, at, who, todo, answer>>
    BY <1>12 DEF ModifyReputation, vars
  <2>2. QED BY <1>3, <2>1 DEF Back
<1>13. QED
  BY StepKinds, <1>4, <1>6, <1>7, <1>8, <1>9, <1>10, <1>11, <1>12

-----------------------------------------------------------------------------
(* Who is met is known.                                                    *)

Sure == nodes \cup Coming \cup disputed

\* A thread that begins, leaves or goes on elsewhere makes sure of no fewer ids
\* than it has to.
LEMMA MeetingKept ==
  ASSUME TypeOK, Threads, Meeting, [MembershipNext]_memberVars
  PROVE  Meeting'
<1> DEFINE Seeing(i) == \E t \in Callers : at[t] = "unpend" /\ who[t].id = i
<1>1. ASSUME Sure \subseteq Sure',
             \A i \in met' : i \in met \/ i \in Sure' \/ Seeing(i)',
             \A t \in Callers : at'[t] = "expose" => who'[t].id \in disputed',
             \A t \in Callers : at'[t] = "unpend" => who'[t].id \in pendingGETID' \cup Sure',
             \A t \in Callers : at[t] = "unpend" =>
               (at'[t] = "unpend" /\ who'[t] = who[t]) \/ who[t].id \in Sure'
      PROVE  Meeting'
  <2>1. \A i \in met : i \in Sure' \/ Seeing(i)'
    BY <1>1 DEF Meeting, MetIsKnown, Sure
  <2>2. QED BY <1>1, <2>1 DEF Meeting, MetIsKnown, Sure
<1>2. ASSUME UNCHANGED <<nodes, pendingGETID, disputed, at, who, met>>
      PROVE  Meeting'
  BY <1>2 DEF Meeting, MetIsKnown, Coming
<1>3. ASSUME NEW t \in Callers, at[t] \in {"insert", "refresh"},
             at'[t] \in {"idle", "insert", "refresh"},
             \A u \in Callers \ {t} : at'[u] = at[u] /\ who'[u] = who[u],
             UNCHANGED <<nodes, pendingGETID, disputed, met>>
      PROVE  Meeting'
  <2>1. Sure' = Sure
    BY <1>3 DEF Sure, Coming
  <2>2. QED BY <1>1, <1>3, <2>1 DEF Meeting, Sure
<1>4. ASSUME NEW t \in Callers, NEW n \in Seen, NEW given \in BOOLEAN, Begin(t, n, given),
             UNCHANGED <<nodes, pendingGETID, disputed>>
      PROVE  Meeting'
  <2>1. /\ at[t] = "idle" /\ at'[t] \in {"unpend", "check"} /\ who'[t] = n
        /\ at'[t] = "unpend" => n.id \in pendingGETID
        /\ \A u \in Callers \ {t} : at'[u] = at[u] /\ who'[u] = who[u]
        /\ met' = met \cup {n.id}
    BY <1>4, BeginEffect
  <2>2. Sure \subseteq Sure'
    BY <1>4, <2>1 DEF Sure, Coming
  <2>3. n.id \in Sure' \/ Seeing(n.id)'
    BY <2>1 DEF Sure, Coming
  <2>4. QED BY <1>1, <1>4, <2>1, <2>2, <2>3 DEF Meeting, Sure
<1>5. ASSUME NEW t \in Callers, NEW n \in Visitors, Visit(t, n) PROVE Meeting'
  BY <1>4, <1>5 DEF Visit, membership
<1>6. ASSUME NEW n \in Peers, Meet(n) PROVE Meeting'
  BY <1>4, <1>6 DEF Meet, membership
<1>7. ASSUME NEW n \in Named, Hear(n) PROVE Meeting'
  <2>1. CASE n.id \in nodes /\ Begin(Runtime, n, TRUE) /\ UNCHANGED pendingGETID
    BY <1>4, <1>7, <2>1 DEF Hear
  <2>2. CASE UNCHANGED <<at, who, met>> /\ pendingGETID' = pendingGETID \cup {n.id}
    <3>1. UNCHANGED <<nodes, disputed>>
      BY <1>7 DEF Hear
    <3>2. Sure' = Sure
      BY <2>2, <3>1 DEF Sure, Coming
    <3>3. QED BY <1>1, <2>2, <3>1, <3>2 DEF Meeting, Sure
  <2>3. QED BY <1>7, <2>1, <2>2 DEF Hear
<1>8. ASSUME NEW n \in getids, NEW m \in Seen, GetidAnswers(n, m) PROVE Meeting'
  BY <1>4, <1>8 DEF GetidAnswers
<1>9. ASSUME NEW n \in getids, GetidFails(n) PROVE Meeting'
  BY <1>2, <1>9 DEF GetidFails, history
<1>10. ASSUME NEW e \in keys, Callback(e) PROVE Meeting'
  <2>1. e.of \in Seen /\ UNCHANGED <<nodes, pendingGETID>>
    BY <1>10 DEF Callback, Threads
  <2>2. CASE e.id = e.of.id
    BY <1>4, <1>10, <2>1, <2>2 DEF Callback
  <2>3. CASE e.id # e.of.id
    <3>1. /\ at[Runtime] = "idle" /\ at'[Runtime] = "expose" /\ who'[Runtime] = e.of
          /\ \A u \in Callers \ {Runtime} : at'[u] = at[u] /\ who'[u] = who[u]
          /\ disputed' = disputed \cup {e.of.id} /\ met' = met
      BY <1>10, <2>3 DEF Callback, Goto, Threads
    <3>2. Sure \subseteq Sure'
      BY <2>1, <3>1 DEF Sure, Coming
    <3>3. QED BY <1>1, <2>1, <3>1, <3>2 DEF Meeting, Sure
  <2>4. QED BY <2>2, <2>3
<1>11. ASSUME NEW t \in Callers, Unpend(t) PROVE Meeting'
  <2>1. /\ at[t] = "unpend" /\ UNCHANGED <<nodes, disputed, met>>
        /\ pendingGETID' = pendingGETID \ {who[t].id}
        /\ \A u \in Callers \ {t} : at'[u] = at[u] /\ who'[u] = who[u]
        /\ at'[t] \in {"idle", "check"}
    BY <1>11 DEF Unpend, history, Leave, Goto, Threads
  <2>2. Sure \subseteq Sure'
    BY <2>1 DEF Sure, Coming
  <2>3. who[t].id \in Sure'
    <3>1. CASE who[t].id \in pendingGETID
      <4>1. at'[t] = "check" /\ who'[t] = who[t]
        BY <1>11, <3>1 DEF Unpend, Goto, Threads
      <4>2. QED BY <4>1 DEF Sure, Coming
    <3>2. CASE who[t].id \notin pendingGETID
      BY <2>1, <2>2, <3>2 DEF Meeting, Sure
    <3>3. QED BY <3>1, <3>2
  <2>4. QED BY <1>1, <2>1, <2>2, <2>3 DEF Meeting, Sure
<1>12. ASSUME NEW t \in Callers, Expose(t) PROVE Meeting'
  <2>1. /\ at[t] = "expose" /\ at'[t] = "idle" /\ UNCHANGED <<nodes, disputed, met>>
        /\ pendingGETID' = pendingGETID \ {who[t].id}
        /\ \A u \in Callers \ {t} : at'[u] = at[u] /\ who'[u] = who[u]
    BY <1>12 DEF Expose, history, Leave, Goto, Threads
  <2>2. Sure' = Sure /\ who[t].id \in Sure
    BY <2>1 DEF Sure, Coming, Meeting
  <2>3. QED BY <1>1, <2>1, <2>2 DEF Meeting, Sure
<1>13. ASSUME NEW t \in Callers, Check(t) PROVE Meeting'
  <2>1. /\ at[t] = "check" /\ UNCHANGED <<nodes, pendingGETID, disputed, met, who>>
        /\ \A u \in Callers \ {t} : at'[u] = at[u]
        /\ at'[t] = IF who[t].id \in nodes THEN "refresh" ELSE "add"
    BY <1>13 DEF Check, membership, history, Goto, Threads
  <2>2. Sure \subseteq Sure'
    BY <2>1 DEF Sure, Coming
  <2>3. QED BY <1>1, <2>1, <2>2 DEF Meeting, Sure
<1>14. ASSUME NEW t \in Callers, Add(t) PROVE Meeting'
  <2>1. /\ at[t] = "add" /\ at'[t] = "insert"
        /\ UNCHANGED <<pendingGETID, disputed, met, who>>
        /\ nodes' = nodes \cup {who[t].id}
        /\ \A u \in Callers \ {t} : at'[u] = at[u]
    BY <1>14 DEF Add, history, Goto, Threads
  <2>2. Sure \subseteq Sure'
    BY <2>1 DEF Sure, Coming
  <2>3. QED BY <1>1, <2>1, <2>2 DEF Meeting, Sure
<1>15. ASSUME NEW t \in Callers, Conclude(t) PROVE Meeting'
  BY <1>3, <1>15 DEF Conclude, membership, Goto, Threads
<1>16. ASSUME NEW t \in Callers, InsertFrame(t) \/ RefuseFrame(t) PROVE Meeting'
  <2>1. todo[t] # NoContact /\ at[t] \in {"insert", "refresh"}
    BY <1>16 DEF InsertFrame, RefuseFrame, Insert, Refuse, Threads
  <2>2. /\ at'[t] \in {"idle", "insert", "refresh"}
        /\ \A u \in Callers \ {t} : at'[u] = at[u] /\ who'[u] = who[u]
    BY <1>16, <2>1 DEF InsertFrame, RefuseFrame, Returned, Leave, Goto, Threads
  <2>3. UNCHANGED <<nodes, pendingGETID, disputed, met>>
    BY <1>16 DEF InsertFrame, RefuseFrame, membership, history
  <2>4. QED BY <1>3, <2>1, <2>2, <2>3
<1>17. ASSUME NEW t \in Callers, SplitFrame(t) PROVE Meeting'
  BY <1>2, <1>17 DEF SplitFrame, membership, history
<1>18. ASSUME NEW i \in Located, ModifyReputation(i) PROVE Meeting'
  BY <1>2, <1>18 DEF ModifyReputation, membership
<1>19. CASE UNCHANGED memberVars
  BY <1>2, <1>19 DEF memberVars, membership, history
<1>20. QED
  BY <1>5, <1>6, <1>7, <1>8, <1>9, <1>10, <1>11, <1>12, <1>13, <1>14, <1>15, <1>16, <1>17,
     <1>18, <1>19 DEF MembershipNext

-----------------------------------------------------------------------------
(* Types.                                                                  *)

\* Every step keeps the types.
LEMMA TypesKept ==
  ASSUME Threads, Threads', MembershipTypeOK, [MembershipNext]_memberVars
  PROVE  MembershipTypeOK'
<1>1. at' \in [Callers -> Labels] /\ who' \in [Callers -> Contact \cup {NoContact}]
      /\ getids' \subseteq Contact
  BY SeenAreContacts DEF Threads
<1>2. \A n \in Seen : n \in Contact /\ n.id \in Ids
  BY SeenIds, SeenAreContacts
<1>3. \A t \in Callers : at[t] # "idle" => who[t].id \in Ids /\ who[t] \in Contact
  BY <1>2 DEF Threads
<1> DEFINE Rest == /\ nodes \subseteq Ids /\ pendingGETID \subseteq Ids /\ rated \subseteq Ids
                   /\ cache \subseteq Contact /\ keys \subseteq [of : Contact, id : Ids]
                   /\ met \subseteq Ids /\ disputed \subseteq Ids
                   /\ strangers \subseteq Ids /\ evicted \subseteq Ids /\ untold \subseteq Ids
<1>4. SUFFICES Rest'
  BY <1>1 DEF MembershipTypeOK, Labels
<1>5. Rest
  BY DEF MembershipTypeOK
<1>6. ASSUME NEW t \in Callers, NEW n \in Visitors, Visit(t, n) PROVE Rest'
  BY <1>2, <1>5, <1>6 DEF Visit, membership, Begin
<1>7. ASSUME NEW n \in Peers, Meet(n) PROVE Rest'
  BY <1>2, <1>5, <1>7 DEF Meet, membership, Begin
<1>8. ASSUME NEW n \in Named, Hear(n) PROVE Rest'
  BY <1>2, <1>5, <1>8 DEF Hear, Begin
<1>9. ASSUME NEW n \in getids, NEW m \in Seen, GetidAnswers(n, m) PROVE Rest'
  <2>1. m.id \in Ids /\ n \in Contact
    BY <1>2 DEF Threads
  <2>2. [of |-> n, id |-> m.id] \in [of : Contact, id : Ids]
    BY <2>1
  <2>3. keys' = keys \cup {[of |-> n, id |-> m.id]} /\ met' = met \cup {m.id}
    BY <1>9 DEF GetidAnswers, Begin
  <2>4. keys' \subseteq [of : Contact, id : Ids] /\ met' \subseteq Ids
    BY <1>5, <2>1, <2>2, <2>3
  <2>5. UNCHANGED <<nodes, pendingGETID, rated, cache, disputed, strangers, evicted, untold>>
    BY <1>9 DEF GetidAnswers
  <2>6. QED BY <1>5, <2>4, <2>5
<1>10. ASSUME NEW n \in getids, GetidFails(n) PROVE Rest'
  BY <1>5, <1>10 DEF GetidFails, history
<1>11. ASSUME NEW e \in keys, Callback(e) PROVE Rest'
  <2>1. e.of.id \in Ids
    <3>1. e \in [of : Contact, id : Ids]
      BY <1>5
    <3>2. e.of \in Contact
      BY <3>1
    <3>3. QED BY <3>2 DEF Contact
  <2>2. keys' \subseteq keys
    BY <1>11 DEF Callback
  <2>3. met' \subseteq met \cup {e.of.id} /\ disputed' \subseteq disputed \cup {e.of.id}
    BY <1>11 DEF Callback, Begin
  <2>4. UNCHANGED <<nodes, pendingGETID, rated, cache, strangers, evicted, untold>>
    BY <1>11 DEF Callback
  <2>5. QED BY <1>5, <2>1, <2>2, <2>3, <2>4
<1>12. ASSUME NEW t \in Callers, Unpend(t) \/ Expose(t) PROVE Rest'
  BY <1>5, <1>12 DEF Unpend, Expose, history
<1>13. ASSUME NEW t \in Callers, Check(t) PROVE Rest'
  BY <1>5, <1>13 DEF Check, membership, history
<1>14. ASSUME NEW t \in Callers, Add(t) PROVE Rest'
  BY <1>3, <1>5, <1>14 DEF Add, history
<1>15. ASSUME NEW t \in Callers, Conclude(t) PROVE Rest'
  <2>1. who[t].id \in Ids /\ who[t] \in Contact
    BY <1>3, <1>15 DEF Conclude
  <2>2. cache' \subseteq Contact /\ evicted' \subseteq Ids
    <3>1. CASE CacheInsert(who[t])
      <4>1. \A m \in cache : m.id \in Ids
        BY <1>5 DEF Contact
      <4>2. QED BY <1>5, <2>1, <3>1, <4>1 DEF CacheInsert
    <3>2. CASE UNCHANGED <<cache, evicted>>
      BY <1>5, <3>2
    <3>3. QED BY <1>15, <3>1, <3>2 DEF Conclude
  <2>3. QED BY <1>5, <1>15, <2>1, <2>2 DEF Conclude, membership
<1>16. ASSUME NEW t \in Callers, InsertFrame(t) PROVE Rest'
  BY <1>5, <1>16 DEF InsertFrame, membership, history
<1>17. ASSUME NEW t \in Callers, SplitFrame(t) PROVE Rest'
  BY <1>5, <1>17 DEF SplitFrame, membership, history
<1>18. ASSUME NEW t \in Callers, RefuseFrame(t) PROVE Rest'
  <2>1. todo[t] = who[t] /\ who[t].id \in Ids
    BY <1>3, <1>18 DEF RefuseFrame, Refuse, Threads
  <2>2. QED BY <1>5, <1>18, <2>1 DEF RefuseFrame, membership
<1>19. ASSUME NEW i \in Located, ModifyReputation(i) PROVE Rest'
  BY <1>5, <1>19 DEF ModifyReputation, membership
<1>20. CASE UNCHANGED memberVars
  BY <1>5, <1>20 DEF memberVars, membership, history
<1>21. QED
  BY <1>6, <1>7, <1>8, <1>9, <1>10, <1>11, <1>12, <1>13, <1>14, <1>15, <1>16, <1>17, <1>18,
     <1>19, <1>20 DEF MembershipNext

-----------------------------------------------------------------------------
(* The theorems.                                                           *)

\* A node that knows nobody has the inductive invariant.
LEMMA MembershipStart == MembershipInit => MInv
<1> SUFFICES ASSUME MembershipInit PROVE MInv
  OBVIOUS
<1>1. JInv
  BY InitEstablishesJ DEF MembershipInit
<1>2. Threads
  BY DEF MembershipInit, Threads, Labels, Init
<1>3. Resolving /\ Crowded
  BY DEF MembershipInit, Resolving, Crowded, Back
<1>4. Meeting
  BY DEF MembershipInit, Meeting, MetIsKnown
<1>5. QED BY <1>1, <1>2, <1>3, <1>4 DEF MInv

\* The inductive invariant holds for any contacts, threads and size of the cache.
THEOREM MembershipInvariance == MembershipSpec => []MInv
<1>1. MInv /\ [MembershipNext]_memberVars => MInv'
  <2> SUFFICES ASSUME MInv, [MembershipNext]_memberVars PROVE MInv'
    OBVIOUS
  <2>1. [Next]_vars /\ TypeOK
    BY UsesTable DEF MInv, JInv, IInv
  <2>2. JInv'
    BY <2>1, NextKeepsJ DEF MInv
  <2>3. QED BY <2>1, <2>2, ThreadsStay, ResolvingKept, CrowdedKept, MeetingKept DEF MInv
<1>2. QED BY <1>1, MembershipStart, PTL DEF MembershipSpec

\* Ids are ids, contacts are contacts.
THEOREM MembershipTyped == MembershipSpec => []MembershipTypeOK
<1>1. MembershipInit => MembershipTypeOK
  BY DEF MembershipInit, MembershipTypeOK
<1>2. MInv /\ MInv' /\ MembershipTypeOK /\ [MembershipNext]_memberVars => MembershipTypeOK'
  BY TypesKept DEF MInv
<1>3. QED BY <1>1, <1>2, MembershipInvariance, PTL DEF MembershipSpec

\* What getPreferredNodes ranks, getNode finds, but for strangers, for what the
\* cache has dropped, and for what was refused when addNode was told None.
THEOREM PreferredResolve == MembershipSpec => []RatedResolve
<1>1. MInv => RatedResolve
  <2> SUFFICES ASSUME MInv, NEW i \in rated, GetNode(i) = NoContact
               PROVE  i \in strangers \cup evicted \cup untold
    BY DEF RatedResolve
  <2>1. TypeOK /\ Partition /\ InRange /\ cache \subseteq Contact
    BY SeenAreContacts DEF MInv, JInv, IInv, Crowded
  <2>2. i \notin IdsOf(cache)
    <3>1. SUFFICES ASSUME NEW m \in cache, m.id = i PROVE FALSE
      BY DEF IdsOf
    <3> DEFINE found == {u \in contents[FindBucket(i)] : u.id = i}
               cached == {u \in cache : u.id = i}
    <3>2. cached # {} /\ \A u \in cached : u # NoContact
      BY <2>1, <3>1
    <3>3. GetNode(i) \in found \cup cached
      BY <3>2 DEF GetNode
    <3>4. found = {}
      <4>1. i \in 0..IdSpace
        BY <2>1, <3>1 DEF Contact
      <4>2. FindBucket(i) \in begins
        BY <2>1, <4>1, FindBucketContains
      <4>3. \A u \in found : u # NoContact
        BY <2>1, <4>2 DEF TypeOK
      <4>4. SUFFICES ASSUME found # {} PROVE FALSE
        OBVIOUS
      <4>5. GetNode(i) \in found
        BY <4>4 DEF GetNode
      <4>6. QED BY <4>3, <4>5
    <3>5. QED BY <3>2, <3>3, <3>4
  <2>3. i \notin KnownIds
    <3>1. SUFFICES ASSUME NEW b \in begins, NEW m \in contents[b], m.id = i PROVE FALSE
      BY DEF KnownIds
    <3>2. m \in Contact
      BY <2>1 DEF TypeOK
    <3>3. i \in 0..IdSpace
      BY <3>1, <3>2 DEF Contact
    <3>4. FindBucket(i) = b
      BY <2>1, <3>1, <3>3, FindBucketUnique DEF InRange
    <3> DEFINE found == {u \in contents[b] : u.id = i}
    <3>5. m \in found /\ \A u \in found : u # NoContact
      BY <2>1, <3>1 DEF TypeOK
    <3>6. GetNode(i) \in found
      BY <3>4, <3>5 DEF GetNode
    <3>7. QED BY <3>5, <3>6
  <2>4. QED BY <2>2, <2>3 DEF MInv, Resolving
<1>2. QED BY <1>1, MembershipInvariance, PTL

\* What waits in the cache has no room in the table, and never will have.
THEOREM CacheIsCrowdedOut == MembershipSpec => []CachedHasNoRoom
<1>1. MInv => CachedHasNoRoom
  BY DEF MInv, Crowded, NoRoom, CachedHasNoRoom
<1>2. QED BY <1>1, MembershipInvariance, PTL

\* However the threads race for the note of a pending GETID, a node whose key was
\* seen is known, unless the key of another came for its id.
THEOREM MetKnown == MembershipSpec => []MetIsKnown
<1>1. MInv => MetIsKnown
  BY DEF MInv, Meeting
<1>2. QED BY <1>1, MembershipInvariance, PTL

\* The table that updateNode drives keeps what was proved of it.
THEOREM TableKept == MembershipSpec => [](Placed /\ Capacity) /\ NothingForgotten
<1>1. MInv => Placed /\ Capacity
  <2>1. IInv => Placed
    <3> SUFFICES ASSUME IInv, NEW b \in begins, NEW m \in contents[b]
                 PROVE  FindBucket(m.id) = b
      BY DEF Placed
    <3>1. m \in Contact
      BY DEF IInv, TypeOK
    <3>2. m.id \in 0..IdSpace
      BY <3>1 DEF Contact
    <3>3. QED BY <3>2, FindBucketUnique DEF IInv, InRange
  <2>2. IInv => Capacity
    BY DEF IInv, Bounded, Capacity
  <2>3. QED BY <2>1, <2>2 DEF MInv, JInv
<1>2. MInv /\ [MembershipNext]_memberVars => [KnownIds \subseteq KnownIds']_vars
  BY UsesTable, StepForgetsNothing DEF MInv, JInv
<1>3. QED BY <1>1, <1>2, MembershipInvariance, PTL DEF MembershipSpec, NothingForgotten

\* Membership drives the table as KBuckets lets its callers: what is proved of
\* the one for any callers holds in the other (updateNode, addNode).
THEOREM MembershipImplementsTable == MembershipSpec => Spec
<1>1. MembershipInit => Init
  BY DEF MembershipInit
<1>2. MInv /\ [MembershipNext]_memberVars => [Next]_vars
  BY UsesTable DEF MInv
<1> QED
  BY <1>1, <1>2, MembershipInvariance, PTL DEF MembershipSpec, Spec
=============================================================================
