------------------------------ MODULE KBuckets ------------------------------
(***************************************************************************)
(* The routing table of a flud node: kRouting and kBucket of               *)
(* src/flud/FludkRouting.py.  A table is a list of buckets, each with an   *)
(* inclusive id range and at most K contacts; the bucket that holds the    *)
(* local node is split when it overflows, any other full bucket refuses    *)
(* the newcomer.                                                           *)
(*                                                                         *)
(* The list of buckets is a function keyed by the first id of each bucket  *)
(* (it never changes, and the list is sorted by it).  The recency order    *)
(* inside a bucket is abstracted: contents[b] is a set.  insertNode        *)
(* recurses after a split; one call frame is one step, so that callers on  *)
(* different threads interleave between frames, as they may (the table has *)
(* no lock).                                                               *)
(***************************************************************************)
EXTENDS Integers, FiniteSets

CONSTANTS
  IdSpace,    \* 2**bits: the largest id, inclusive
  K,          \* depth of a bucket
  Ids,        \* the node ids that turn up
  Addrs,      \* the (host, port) pairs they are seen at
  Seen,       \* the contacts passed to insertNode
  Local,      \* our own id
  LocalAddr,  \* our own address
  Callers,    \* the threads that call insertNode
  NoContact   \* the argument of a caller that is not inside insertNode

Contact == [id : Ids, addr : Addrs]

ASSUME KBucketsAssumption ==
  /\ IdSpace \in Nat
  /\ K \in Nat /\ K >= 3
  /\ Ids \subseteq 0..IdSpace
  /\ Local \in Ids
  /\ LocalAddr \in Addrs
  /\ Seen \subseteq Contact
  /\ NoContact \notin Contact

VARIABLES
  begins,    \* the first ids of the buckets
  endOf,     \* endOf[b]: the last id of the bucket that begins at b
  contents,  \* contents[b]: the contacts in that bucket
  todo,      \* todo[c]: the contact caller c is inserting, or NoContact
  nested,    \* nested[c]: c runs in a frame below its outermost insertNode
  answer,    \* answer[c]: what c's last outermost insertNode returned
  alone      \* history: no other thread was inside insertNode while c's call was

table == <<begins, endOf, contents>>
vars == <<begins, endOf, contents, todo, nested, answer, alone>>

\* The outcomes a caller of insertNode can see: None, or the oldest contact of
\* the full bucket (which one does not matter to any caller).
Answer == {"none", "oldest"}

-----------------------------------------------------------------------------
(* Looking up.                                                             *)

\* bisect_left over the list: the first bucket whose end is not below i.
FindBucket(i) ==
  CHOOSE b \in begins : /\ endOf[b] >= i
                        /\ \A c \in begins : endOf[c] >= i => b <= c

KnownIds == {m.id : m \in UNION {contents[b] : b \in begins}}

\* Mutant of Full: one contact too many.
FullLate(b) == Cardinality(contents[b]) > K

Full(b) == Cardinality(contents[b]) >= K

\* addNode raises BucketFullException: the very triple is not there, no room.
Overflows(b, n) == n \notin contents[b] /\ Full(b)

\* insertNode's test for "the local node is in this bucket".
HoldsLocal(b) == b <= Local /\ Local < endOf[b]

-----------------------------------------------------------------------------
(* Changing.                                                               *)

\* Mutants of Put: the old contact info stays; contacts are matched by address.
PutBeside(S, n) == S \cup {n}
PutByAddr(S, n) == {m \in S : m.addr # n.addr} \cup {n}

\* addNode when it does not raise: other contact info for the id goes away.
Put(S, n) == IF n \in S THEN S ELSE {m \in S : m.id # n.id} \cup {n}

\* Mutant of Halfpoint: the remainder instead of the quotient.
HalfpointRemainder(b) == (endOf[b] - b) % 2

\* _splitBucket halves [b, endOf[b]].
Halfpoint(b) == (endOf[b] - b) \div 2
LowEnd(b) == endOf[b] - Halfpoint(b)

\* Mutant of HighBegin: one too high.
HighBeginGap(b) == LowEnd(b) + 2

HighBegin(b) == LowEnd(b) + 1

\* Mutant of MovesUp: all but the smallest new id.
MovesPast(b, m) == m.id > HighBegin(b)

\* The contacts that go to the new bucket.
MovesUp(b, m) == m.id > LowEnd(b)

SplitBucket(b) ==
  /\ begins' = begins \cup {HighBegin(b)}
  /\ endOf' = [x \in begins \cup {HighBegin(b)} |->
                 IF x = b THEN LowEnd(b)
                 ELSE IF x = HighBegin(b) THEN endOf[b] ELSE endOf[x]]
  /\ contents' = [x \in begins \cup {HighBegin(b)} |->
                 IF x = b THEN {m \in contents[b] : ~MovesUp(b, m)}
                 ELSE IF x = HighBegin(b)
                      THEN {m \in contents[b] : MovesUp(b, m)}
                      ELSE contents[x]]

\* Mutant of Return: the oldest contact is dropped in the outermost frame too.
ReturnNothing(c, a) ==
  /\ answer' = [answer EXCEPT ![c] = "none"]
  /\ todo' = [todo EXCEPT ![c] = NoContact]
  /\ nested' = [nested EXCEPT ![c] = FALSE]

Return(c, a) ==
  /\ answer' = [answer EXCEPT ![c] = IF nested[c] THEN "none" ELSE a]
  /\ todo' = [todo EXCEPT ![c] = NoContact]
  /\ nested' = [nested EXCEPT ![c] = FALSE]

Init ==
  /\ begins = {0}
  /\ endOf = [b \in {0} |-> IdSpace]
  /\ contents = [b \in {0} |-> {[id |-> Local, addr |-> LocalAddr]}]
  /\ todo = [c \in Callers |-> NoContact]
  /\ nested = [c \in Callers |-> FALSE]
  /\ answer = [c \in Callers |-> "none"]
  /\ alone = [c \in Callers |-> FALSE]

\* Some peer's contact is seen and passed to insertNode.
Call(c, n) ==
  /\ todo[c] = NoContact
  /\ todo' = [todo EXCEPT ![c] = n]
  /\ alone' = [d \in Callers |->
                 d = c /\ \A e \in Callers \ {c} : todo[e] = NoContact]
  /\ UNCHANGED <<begins, endOf, contents, nested, answer>>

\* The bucket takes the contact.
Insert(c) ==
  /\ todo[c] # NoContact
  /\ LET n == todo[c]
         b == FindBucket(n.id)
     IN /\ ~Overflows(b, n)
        /\ contents' = [contents EXCEPT ![b] = Put(contents[b], n)]
  /\ UNCHANGED <<begins, endOf, alone>>
  /\ Return(c, "none")

\* The bucket is full and holds the local node: split it, then recurse.  The
\* value of the recursive call is dropped, which nested remembers.
Split(c) ==
  /\ todo[c] # NoContact
  /\ LET b == FindBucket(todo[c].id)
     IN /\ Overflows(b, todo[c])
        /\ HoldsLocal(b)
        /\ SplitBucket(b)
  /\ nested' = [nested EXCEPT ![c] = TRUE]
  /\ UNCHANGED <<todo, answer, alone>>

\* The bucket is full and is not split: the oldest contact is returned.
Refuse(c) ==
  /\ todo[c] # NoContact
  /\ LET b == FindBucket(todo[c].id)
     IN Overflows(b, todo[c]) /\ ~HoldsLocal(b)
  /\ UNCHANGED <<table, alone>>
  /\ Return(c, "oldest")

Frame(c) == Insert(c) \/ Split(c) \/ Refuse(c)

Next ==
  \E c \in Callers : \/ \E n \in Seen : Call(c, n)
                     \/ Insert(c)
                     \/ Split(c)
                     \/ Refuse(c)

Spec == Init /\ [][Next]_vars

\* A thread inside insertNode keeps running: nothing in it blocks.
FairSpec == Spec /\ \A c \in Callers : WF_vars(Frame(c))

-----------------------------------------------------------------------------
(* Properties.                                                             *)

\* Type invariant: begins and ends are ids, contents are contacts.
TypeOK ==
  /\ begins \subseteq 0..IdSpace
  /\ endOf \in [begins -> 0..IdSpace]
  /\ contents \in [begins -> SUBSET Contact]
  /\ todo \in [Callers -> Contact \cup {NoContact}]
  /\ nested \in [Callers -> BOOLEAN]
  /\ answer \in [Callers -> Answer]
  /\ alone \in [Callers -> BOOLEAN]

\* Every id belongs to some bucket, so that _findBucket never runs off the list.
Covered == \A i \in 0..IdSpace : \E b \in begins : b <= i /\ i <= endOf[b]

\* No two buckets overlap, and the list is sorted the same way by begin and end,
\* which is what bisect_left relies on.
Disjoint == \A b, c \in begins : b < c => endOf[b] < c

\* Splitting keeps the ranges a partition of the id space.
Partition == Covered /\ Disjoint

\* The bucket a lookup of an id searches is the only one that may hold it, so
\* every contact can be found where getNode and addNode look for it.
Placed == \A b \in begins : \A m \in contents[b] : FindBucket(m.id) = b

\* A node id has one contact (addNode drops the old contact info), and no bucket
\* outgrows K, also when a split moves contacts to the new bucket.
OneContactPerId ==
  \A b \in begins : \A m, n \in contents[b] : m.id = n.id => m = n
Capacity == \A b \in begins : Cardinality(contents[b]) <= K

\* Whatever is inserted, and however often the table splits, no node id that is
\* in the table ever drops out of it (the caller must ask for that by
\* replaceNode).
NothingForgotten == [][KnownIds \subseteq KnownIds']_vars

\* The contact is in the bucket where lookups of its id search for it.
Held(n) == n \in contents[FindBucket(n.id)]

\* Our own id is the last one of its bucket.
LocalAtEnd == endOf[FindBucket(Local)] = Local

\* insertNode's docstring: a full bucket makes it return the oldest node, so a
\* caller that gets None may take the node as inserted.  This is so for a call
\* during which no other thread inserts, except once our own id is the last one
\* of its bucket: the range in the test for the local node excludes it, so that
\* bucket is never split again.
NoneMeansInsertedInside ==
  [][\A c \in Callers : \A n \in Contact :
       alone[c] /\ todo[c] = n /\ todo'[c] = NoContact /\ answer'[c] = "none"
         => Held(n)' \/ LocalAtEnd']_vars

\* Splitting always makes room in the end: insertNode's recursion is finite.
InsertReturns == \A c \in Callers : todo[c] # NoContact ~> todo[c] = NoContact
=============================================================================
