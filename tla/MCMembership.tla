---------------------------- MODULE MCMembership ----------------------------
(* A small instance of Membership for TLC: five nodes in the half of the id  *)
(* space that ours is not in, three of which the table takes; the first two  *)
(* may be met at one address.                                                *)
EXTENDS Membership

CONSTANTS a1, a2

At(i) == [id |-> i, addr |-> IF i \in {9, 10} THEN a1 ELSE a2]

MemberIds == {0, 9, 10, 11, 12, 13}
SeenThere == {At(i) : i \in MemberIds \ {0}}
SomeVisit == {At(9), At(10), At(11)}
SomePeers == {At(12), At(13)}
SomeNamed == {At(9)}
=============================================================================
