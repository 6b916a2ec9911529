----------------------------- MODULE MCKBuckets -----------------------------
(* Small instances of the routing table for TLC: ids that make the bucket of *)
(* the local id 4 split until 4 is the last id of its bucket, and that fill  *)
(* the far halves.                                                           *)
EXTENDS KBuckets

At(i, a) == [id |-> i, addr |-> a]

CONSTANTS a1, a2

TableIds == {0, 2, 4, 7, 9, 12, 16}
TableSeen == {At(i, a1) : i \in TableIds \ {4}} \cup {At(2, a2), At(9, a2)}
=============================================================================
