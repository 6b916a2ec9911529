------------------------------ MODULE MCLookup ------------------------------
(* A small network for Lookup.  Node 1 is named with its address and with an *)
(* older one, where it still is, where nobody is, or where node 0 is now.    *)
EXTENDS Lookup

At(i, d) == [id |-> i, addr |-> d]

MCContacts == {At(0, "d0"), At(1, "d1"), At(1, "old"), At(2, "here")}
MCAddresses == {c.addr : c \in MCContacts}
MCOwners ==
  {[d \in MCAddresses |->
      CASE d = "d0" -> 0 [] d = "d1" -> 1 [] d = "old" -> i [] d = "here" -> 2]
    : i \in {None, 0, 1}}
=============================================================================
