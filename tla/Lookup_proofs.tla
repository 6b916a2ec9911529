---------------------------- MODULE Lookup_proofs ----------------------------
(***************************************************************************)
(* What TLAPS proves about Lookup, for any network, any k and any number   *)
(* of queries at once.                                                     *)
(***************************************************************************)
EXTENDS Lookup, FiniteSetTheorems, TLAPS

\* A lookup that has not begun knows nothing, and only k_store stores.
Phased ==
  /\ phase = "begin" => queried = {} /\ heard = {} /\ kclosest = {} /\ failed = {}
  /\ phase = "store" => mode = "store"
  /\ phase = "over" => result \in {"exact", "value"}
  /\ Self \in nodes

Alive(c) == c.id \in IdsOf(queried) \/ c.addr \in answered

\* Each of the closest is alive or will still be looked at.
AliveOrDue == phase = "ask" => \A c \in kclosest : Alive(c) \/ c \in pending \cup batch

Missed(c) == owner[c.addr] = c.id /\ c.id \in holders

\* Nobody who has answered has a value, and those that have one will be asked.
ValueDue ==
  mode = "value" /\ phase = "ask" =>
    /\ \A q \in queried : q.id \notin holders
    /\ \A c \in heard : Missed(c) => c \in failed \cup pending \cup batch

\* T are the k closest of S.
ClosestOf(T, S) ==
  /\ Cardinality(T) = Min({k, Cardinality(S)})
  /\ \A c \in T, e \in S \ T : c.id <= e.id

\* As long as nothing has failed, the closest are the closest of all heard of.
ClosestOfAll == kclosest \subseteq heard /\ ClosestOf(kclosest, heard)

ClosestSoFar == phase \in {"begin", "ask"} /\ failed = {} => ClosestOfAll

IInv ==
  /\ TypeOK /\ Phased /\ AliveOrDue /\ ValueDue /\ Introduced /\ ClosestSoFar
  /\ ResultAlive /\ FoundIfHeld /\ ResultClosest

-----------------------------------------------------------------------------
(* What an answer does.                                                    *)

LEMMA NotedIds ==
  ASSUME NEW i, NEW d
  PROVE  IdsOf(Noted(i, d)) = IdsOf(queried) \cup {i}
<1>1. \A x \in IdsOf(Noted(i, d)) : x \in IdsOf(queried) \cup {i}
  BY DEF IdsOf, Noted
<1>2. i \in IdsOf(Noted(i, d))
  <2>1. [id |-> i, addr |-> d] \in Noted(i, d) /\ [id |-> i, addr |-> d].id = i
    BY DEF Noted
  <2> QED
    BY <2>1 DEF IdsOf
<1>3. ASSUME NEW c \in queried, c.id # i PROVE c.id \in IdsOf(Noted(i, d))
  BY <1>3 DEF IdsOf, Noted
<1> QED
  BY <1>1, <1>2, <1>3 DEF IdsOf

LEMMA ContactTypes ==
  /\ Contacts \subseteq [id : Ids, addr : Addresses]
  /\ \A c \in Contacts : c.id \in Ids /\ c.addr \in Addresses /\ c.id # None
  /\ \A S \in SUBSET Contacts : IdsOf(S) \subseteq Ids
BY LookupAssumption DEF IdsOf

LEMMA ClosestSubset ==
  ASSUME NEW S, NEW T \in Closest(S)
  PROVE  T \subseteq S
BY DEF Closest, kSubset

LEMMA AbsorbEffect ==
  ASSUME TypeOK, NEW i \in Ids, NEW d \in Addresses, NEW ans \in SUBSET Contacts, Absorb(i, d, ans)
  PROVE  /\ queried' \subseteq [id : Ids, addr : Addresses]
         /\ pending' \subseteq Contacts /\ kclosest' \subseteq Contacts /\ heard' \subseteq Contacts
         /\ IdsOf(queried') = IdsOf(queried) \cup {i}
         /\ answered' = answered \cup {d}
         /\ heard' = heard \cup ans
         /\ kclosest' \subseteq kclosest \cup ans
         /\ \A c \in pending \cup ans : c \in pending' \/ c.id \in IdsOf(queried')
<1>1. queried' = Noted(i, d)
  BY DEF Absorb
<1>2. IdsOf(queried') = IdsOf(queried) \cup {i}
  BY <1>1, NotedIds
<1>3. queried' \subseteq [id : Ids, addr : Addresses]
  BY <1>1 DEF Noted, TypeOK
<1>4. kclosest' \subseteq kclosest \cup ans
  BY ClosestSubset DEF Absorb
<1>5. /\ answered' = answered \cup {d} /\ heard' = heard \cup ans
      /\ pending' = (pending \cup {c \in ans : c.id \notin IdsOf(Noted(i, d))}) \ Noted(i, d)
  BY DEF Absorb
<1>6. \A c \in Noted(i, d) : c.id \in IdsOf(Noted(i, d))
  BY DEF IdsOf
<1>7. \A c \in pending \cup ans : c \in pending' \/ c.id \in IdsOf(queried')
  BY <1>1, <1>5, <1>6
<1> QED
  BY <1>2, <1>3, <1>4, <1>5, <1>7 DEF TypeOK

LEMMA EndEffect ==
  ASSUME NEW found, NEW r \in {"nodes", "exact", "value", "none"}, EndWith(found, r)
  PROVE  /\ \/ phase' = "store" /\ mode = "store" /\ batch' = found /\ result' = result
            \/ phase' = "done" /\ mode = "store" /\ batch' = {} /\ result' = "error"
            \/ phase' = "done" /\ mode # "store" /\ batch' = {} /\ result' = r
BY DEF EndWith

\* The node that answers, and those it names, are known or asked for their keys.
LEMMA MetNamingEffect ==
  ASSUME TypeOK, NEW i \in Ids, NEW d \in Addresses, NEW named \in SUBSET Ids, MetNaming(i, d, named)
  PROVE  /\ nodes' = nodes \cup named /\ nodes' \subseteq Ids
         /\ pendingGETID' \subseteq Ids /\ getids' \subseteq [id : Ids, addr : Addresses]
         /\ nodes \cup pendingGETID \cup named \cup {i} \subseteq nodes' \cup pendingGETID'
         /\ pendingGETID \cap nodes = {} => pendingGETID' \cap nodes' = {}
BY DEF MetNaming, AddNodes, TypeOK

LEMMA MetEffect ==
  ASSUME TypeOK, NEW i \in Ids, NEW d \in Addresses, Met(i, d)
  PROVE  /\ pendingGETID' \subseteq Ids /\ getids' \subseteq [id : Ids, addr : Addresses]
         /\ nodes \cup pendingGETID \subseteq nodes \cup pendingGETID'
         /\ pendingGETID \cap nodes = {} => pendingGETID' \cap nodes = {}
BY DEF Met, TypeOK

\* The own table names ans.
Opens(ans) ==
  IF IsExact(ans)
  THEN /\ kclosest' = ans /\ heard' = ans
       /\ UNCHANGED <<queried, pending, answered>> /\ EndWith(ans, "exact")
  ELSE Absorb(Self, Here, ans) /\ phase' = "ask" /\ UNCHANGED <<batch, result>>

LEMMA BeginCases ==
  ASSUME BeginNode
  PROVE  \E ans \in SUBSET OwnTable : Opens(ans)
BY DEF BeginNode, Opens

\* Node i, who is at the address of c, names ans.
Gives(c, i, ans) ==
  /\ i = owner[c.addr] /\ ~HasValue(i) /\ phase = "ask"
  /\ MetNaming(i, c.addr, IdsOf(ans))
  /\ IF IsExact(ans)
     THEN /\ kclosest' = ans /\ heard' = heard \cup ans
          /\ answered' = answered \cup {c.addr}
          /\ UNCHANGED <<queried, pending>> /\ CutShort("exact")
     ELSE Absorb(i, c.addr, ans) /\ UNCHANGED <<phase, result>>
  /\ batch' = batch \ {c}

LEMMA AnswersCases ==
  ASSUME TypeOK, NEW c \in Contacts, Answers(c)
  PROVE  \E i \in Ids, ans \in SUBSET Contacts : Gives(c, i, ans)
<1>1. PICK i \in Ids : i = owner[c.addr]
  BY ContactTypes DEF Answers, TypeOK
<1>2. \E ans \in SUBSET Contacts : Gives(c, i, ans)
  BY <1>1 DEF Answers, Gives, Namings
<1> QED
  BY <1>2

\* An answer that is not looked at makes its node and others known all the same.
LEMMA UnreadEffect ==
  ASSUME TypeOK, NEW c \in Contacts, Unread(c)
  PROVE  /\ nodes' \subseteq Ids /\ pendingGETID' \subseteq Ids
         /\ getids' \subseteq [id : Ids, addr : Addresses] /\ answered' \subseteq Addresses
         /\ nodes \cup pendingGETID \subseteq nodes' \cup pendingGETID' /\ nodes \subseteq nodes'
         /\ pendingGETID \cap nodes = {} => pendingGETID' \cap nodes' = {}
         /\ \E ans \in SUBSET Contacts :
              heard' = heard \cup ans /\ IdsOf(ans) \subseteq nodes' \cup pendingGETID'
<1> DEFINE i == owner[c.addr]
<1>1. c.addr \in Addresses /\ (i # None => i \in Ids)
  BY ContactTypes DEF TypeOK
<1>2. CASE UNCHANGED <<membership, heard, answered>>
  <2>1. heard' = heard \cup {} /\ IdsOf({}) = {}
    BY <1>2 DEF IdsOf
  <2>2. \E ans \in SUBSET Contacts :
          heard' = heard \cup ans /\ IdsOf(ans) \subseteq nodes' \cup pendingGETID'
    BY <2>1
  <2> QED
    BY <1>2, <2>2 DEF membership, TypeOK
<1>3. CASE /\ i # None /\ Met(i, c.addr)
           /\ answered' = answered \cup {c.addr} /\ UNCHANGED <<nodes, heard>>
  <2>1. heard' = heard \cup {} /\ IdsOf({}) = {}
    BY <1>3 DEF IdsOf
  <2>2. \E ans \in SUBSET Contacts :
          heard' = heard \cup ans /\ IdsOf(ans) \subseteq nodes' \cup pendingGETID'
    BY <2>1
  <2>3. /\ pendingGETID' \subseteq Ids /\ getids' \subseteq [id : Ids, addr : Addresses]
        /\ nodes \cup pendingGETID \subseteq nodes \cup pendingGETID'
        /\ pendingGETID \cap nodes = {} => pendingGETID' \cap nodes = {}
    BY <1>1, <1>3, MetEffect
  <2> QED
    BY <1>1, <1>3, <2>2, <2>3 DEF TypeOK
<1>4. ASSUME i # None, NEW ans \in SUBSET Contacts, MetNaming(i, c.addr, IdsOf(ans)),
             heard' = heard \cup ans, answered' = answered \cup {c.addr}
      PROVE  /\ nodes' \subseteq Ids /\ pendingGETID' \subseteq Ids
             /\ getids' \subseteq [id : Ids, addr : Addresses] /\ answered' \subseteq Addresses
             /\ nodes \cup pendingGETID \subseteq nodes' \cup pendingGETID' /\ nodes \subseteq nodes'
             /\ pendingGETID \cap nodes = {} => pendingGETID' \cap nodes' = {}
             /\ \E named \in SUBSET Contacts :
                  heard' = heard \cup named /\ IdsOf(named) \subseteq nodes' \cup pendingGETID'
  <2>1. IdsOf(ans) \in SUBSET Ids
    BY ContactTypes
  <2>2. /\ nodes' = nodes \cup IdsOf(ans) /\ nodes' \subseteq Ids
        /\ pendingGETID' \subseteq Ids /\ getids' \subseteq [id : Ids, addr : Addresses]
        /\ nodes \cup pendingGETID \cup IdsOf(ans) \cup {i} \subseteq nodes' \cup pendingGETID'
        /\ pendingGETID \cap nodes = {} => pendingGETID' \cap nodes' = {}
    BY <1>1, <1>4, <2>1, MetNamingEffect
  <2> QED
    BY <1>1, <1>4, <2>2 DEF TypeOK
<1>5. \/ UNCHANGED <<membership, heard, answered>>
      \/ /\ i # None /\ Met(i, c.addr)
         /\ answered' = answered \cup {c.addr} /\ UNCHANGED <<nodes, heard>>
      \/ /\ i # None /\ answered' = answered \cup {c.addr}
         /\ \E ans \in SUBSET Contacts : MetNaming(i, c.addr, IdsOf(ans)) /\ heard' = heard \cup ans
  BY DEF Unread, Namings
<1> QED
  BY <1>2, <1>3, <1>4, <1>5

-----------------------------------------------------------------------------
(* Types.                                                                  *)

LEMMA InitHolds == Init => IInv
<1> SUFFICES ASSUME Init PROVE IInv
  OBVIOUS
<1>1. /\ Owners \subseteq [Addresses -> Ids \cup {None}] /\ Self \in Ids /\ k \in Nat \ {0}
  BY LookupAssumption
<1>2. TypeOK
  BY <1>1 DEF Init, TypeOK
<1>3. Phased /\ AliveOrDue /\ ValueDue /\ ResultAlive /\ FoundIfHeld /\ ResultClosest
  BY DEF Init, Phased, AliveOrDue, ValueDue, ResultAlive, FoundIfHeld, ResultClosest
<1>4. Introduced
  BY DEF Init, Introduced
<1>5. ClosestOfAll
  <2>1. Cardinality({}) = 0
    BY FS_EmptySet
  <2>2. Min({k, 0}) = 0
    <3>1. 0 \in {k, 0} /\ \A y \in {k, 0} : 0 <= y
      BY <1>1
    <3>2. Min({k, 0}) \in {k, 0} /\ \A y \in {k, 0} : Min({k, 0}) <= y
      BY <3>1 DEF Min
    <3> QED
      BY <1>1, <3>2
  <2> QED
    BY <2>1, <2>2 DEF Init, ClosestOfAll, ClosestOf
<1> QED
  BY <1>2, <1>3, <1>4, <1>5 DEF IInv, ClosestSoFar

LEMMA TypeStep ==
  ASSUME TypeOK, Next
  PROVE  TypeOK'
<1> USE ContactTypes DEF membership, search
<1>1. Self \in Ids /\ Here \in Addresses /\ None \notin Ids
  BY LookupAssumption
<1>2. OwnTable \in SUBSET Contacts
  BY DEF OwnTable
<1>3. CASE BeginNode
  <2>1. PICK ans \in SUBSET OwnTable : Opens(ans)
    BY <1>3, BeginCases
  <2>2. ans \in SUBSET Contacts
    BY <1>2, <2>1
  <2>3. CASE IsExact(ans)
    BY <1>3, <2>1, <2>2, <2>3, EndEffect DEF BeginNode, Opens, TypeOK
  <2>4. CASE ~IsExact(ans)
    <3>1. Absorb(Self, Here, ans)
      BY <2>1, <2>4 DEF Opens
    <3> QED
      BY <1>1, <1>3, <2>1, <2>2, <2>4, <3>1, AbsorbEffect DEF BeginNode, Opens, TypeOK
  <2> QED
    BY <2>3, <2>4
<1>4. CASE BeginValue
  <2>1. ASSUME NEW ans \in SUBSET OwnTable, Absorb(Self, Here, ans), phase' = "ask", UNCHANGED result
        PROVE  TypeOK'
    BY <1>1, <1>2, <1>4, <2>1, AbsorbEffect DEF BeginValue, TypeOK
  <2> QED
    BY <1>4, <2>1 DEF BeginValue, TypeOK
<1>5. CASE NextRound
  <2>1. batch' \subseteq pending
    BY <1>5 DEF NextRound, kSubset
  <2> QED
    BY <1>5, <2>1 DEF NextRound, TypeOK
<1>6. CASE Exhausted
  <2>1. PICK r \in {"nodes", "none"} : EndWith(kclosest, r)
    BY <1>6 DEF Exhausted
  <2> QED
    BY <1>6, <2>1, EndEffect DEF Exhausted, TypeOK
<1>7. ASSUME NEW c \in Contacts, QueryFails(c) PROVE TypeOK'
  BY <1>7 DEF QueryFails, TypeOK
<1>8. ASSUME NEW c \in Contacts, Answers(c) PROVE TypeOK'
  <2>1. PICK i \in Ids, ans \in SUBSET Contacts : Gives(c, i, ans)
    BY <1>8, AnswersCases
  <2>2. MetNaming(i, c.addr, IdsOf(ans))
    BY <2>1 DEF Gives
  <2>3. /\ nodes' \subseteq Ids /\ pendingGETID' \subseteq Ids /\ getids' \subseteq [id : Ids, addr : Addresses]
    BY <2>1, <2>2, MetNamingEffect
  <2>4. owner' = owner /\ holders' = holders /\ mode' = mode /\ failed' = failed
    BY <1>8 DEF Answers
  <2>5. CASE IsExact(ans)
    BY <2>1, <2>3, <2>4, <2>5 DEF Gives, CutShort, TypeOK
  <2>6. CASE ~IsExact(ans)
    <3>1. Absorb(i, c.addr, ans)
      BY <2>1, <2>6 DEF Gives
    <3> QED
      BY <2>1, <2>3, <2>4, <2>6, <3>1, AbsorbEffect DEF Gives, TypeOK
  <2> QED
    BY <2>5, <2>6
<1>9. ASSUME NEW c \in Contacts, AnswersValue(c) PROVE TypeOK'
  <2>1. PICK i \in Ids : i = owner[c.addr]
    BY <1>9 DEF AnswersValue, TypeOK
  <2>2. Met(i, c.addr)
    BY <1>9, <2>1 DEF AnswersValue
  <2> QED
    BY <1>9, <2>2, MetEffect DEF AnswersValue, CutShort, TypeOK
<1>10. ASSUME NEW c \in Contacts, StoreAt(c) PROVE TypeOK'
  BY <1>10 DEF StoreAt, Takes, TypeOK
<1>11. CASE Stored \/ Finished
  BY <1>11 DEF Stored, Finished, vars, TypeOK
<1>12. ASSUME NEW g \in getids, GetidDone(g) \/ GetidFails(g) PROVE TypeOK'
  BY <1>12 DEF GetidDone, GetidFails, AddNodes, TypeOK
<1>13. ASSUME NEW c \in Contacts, Unread(c) PROVE TypeOK'
  <2>1. UNCHANGED <<owner, holders, mode, phase, queried, pending, kclosest, result, failed>>
    BY <1>13 DEF Unread
  <2>2. batch' = batch \ {c}
    BY <1>13 DEF Unread
  <2> QED
    BY <1>13, <2>1, <2>2, UnreadEffect DEF TypeOK
<1>14. CASE Returned
  <2>1. EndWith(kclosest, result)
    BY <1>14 DEF Returned
  <2>2. /\ phase' \in {"store", "done"} /\ batch' \in {kclosest, {}}
        /\ result' \in {result, "error"}
    BY <2>1 DEF EndWith
  <2> QED
    BY <1>14, <2>2 DEF Returned, TypeOK
<1> QED
  BY <1>3, <1>4, <1>5, <1>6, <1>7, <1>8, <1>9, <1>10, <1>11, <1>12, <1>13, <1>14 DEF Next, Step

-----------------------------------------------------------------------------
(* Who is known.                                                           *)

LEMMA PhasedStep ==
  ASSUME TypeOK, Phased, Next
  PROVE  Phased'
<1> USE DEF membership, search
<1>1. CASE BeginNode
  <2>1. PICK ans \in SUBSET OwnTable : Opens(ans)
    BY <1>1, BeginCases
  <2>2. CASE IsExact(ans)
    BY <1>1, <2>1, <2>2, EndEffect DEF BeginNode, Opens, Phased
  <2>3. CASE ~IsExact(ans)
    BY <1>1, <2>1, <2>3 DEF BeginNode, Opens, Phased
  <2> QED
    BY <2>2, <2>3
<1>2. CASE BeginValue
  BY <1>2 DEF BeginValue, Phased
<1>3. CASE NextRound
  BY <1>3 DEF NextRound, Phased
<1>4. CASE Exhausted
  <2>1. PICK r \in {"nodes", "none"} : EndWith(kclosest, r)
    BY <1>4 DEF Exhausted
  <2> QED
    BY <1>4, <2>1, EndEffect DEF Exhausted, Phased
<1>5. ASSUME NEW c \in Contacts, QueryFails(c) PROVE Phased'
  BY <1>5 DEF QueryFails, Phased
<1>6. ASSUME NEW c \in Contacts, Answers(c) PROVE Phased'
  <2>1. PICK i \in Ids, ans \in SUBSET Contacts : Gives(c, i, ans)
    BY <1>6, AnswersCases
  <2>2. Self \in nodes' /\ mode' = mode
    BY <1>6, <2>1 DEF Answers, Gives, MetNaming, AddNodes, Phased
  <2>3. CASE IsExact(ans)
    BY <2>1, <2>2, <2>3 DEF Gives, CutShort, Phased
  <2>4. CASE ~IsExact(ans)
    BY <2>1, <2>2, <2>4 DEF Gives, Phased
  <2> QED
    BY <2>3, <2>4
<1>7. ASSUME NEW c \in Contacts, AnswersValue(c) PROVE Phased'
  BY <1>7 DEF AnswersValue, CutShort, Phased
<1>8. ASSUME NEW c \in Contacts, StoreAt(c) PROVE Phased'
  BY <1>8 DEF StoreAt, Phased
<1>9. CASE Stored \/ Finished
  BY <1>9 DEF Stored, Finished, vars, Phased
<1>10. ASSUME NEW g \in getids, GetidDone(g) \/ GetidFails(g) PROVE Phased'
  BY <1>10 DEF GetidDone, GetidFails, AddNodes, Phased
<1>11. ASSUME NEW c \in Contacts, Unread(c) PROVE Phased'
  <2>1. phase = "over" /\ phase' = "over" /\ result' = result
    BY <1>11 DEF Unread
  <2>2. Self \in nodes'
    BY <1>11, UnreadEffect DEF Phased
  <2> QED
    BY <2>1, <2>2 DEF Phased
<1>12. CASE Returned
  BY <1>12 DEF Returned, EndWith, Phased
<1> QED
  BY <1>1, <1>2, <1>3, <1>4, <1>5, <1>6, <1>7, <1>8, <1>9, <1>10, <1>11, <1>12 DEF Next, Step

LEMMA IntroducedStep ==
  ASSUME TypeOK, Phased, Introduced, Next
  PROVE  Introduced'
<1> USE DEF membership, search
<1>1. Self \in Ids /\ Here \in Addresses /\ OwnTable \in SUBSET Contacts
  BY LookupAssumption DEF OwnTable
<1>2. \A S, T : IdsOf(S \cup T) = IdsOf(S) \cup IdsOf(T)
  BY DEF IdsOf
<1>3. ASSUME NEW ans \in SUBSET OwnTable, Absorb(Self, Here, ans), phase = "begin",
             UNCHANGED <<nodes, pendingGETID>>
      PROVE  Introduced'
  <2>1. /\ IdsOf(queried') = IdsOf(queried) \cup {Self} /\ heard' = heard \cup ans
    BY <1>1, <1>3, AbsorbEffect
  <2>2. queried = {} /\ heard = {} /\ Self \in nodes
    BY <1>3 DEF Phased
  <2>3. IdsOf(ans) \subseteq nodes /\ IdsOf({}) = {}
    BY DEF OwnTable, IdsOf
  <2> QED
    BY <1>2, <1>3, <2>1, <2>2, <2>3 DEF Introduced
<1>4. CASE BeginNode
  <2>1. PICK ans \in SUBSET OwnTable : Opens(ans)
    BY <1>4, BeginCases
  <2>2. CASE IsExact(ans)
    <3>1. queried' = {} /\ heard' = ans
      BY <1>4, <2>1, <2>2 DEF Opens, Phased, BeginNode
    <3>2. IdsOf({} \cup ans) \subseteq nodes
      BY DEF IdsOf, OwnTable
    <3> QED
      BY <1>4, <3>1, <3>2 DEF BeginNode, Introduced
  <2>3. CASE ~IsExact(ans)
    BY <1>3, <1>4, <2>1, <2>3 DEF Opens, BeginNode
  <2> QED
    BY <2>2, <2>3
<1>5. CASE BeginValue
  <2>1. CASE UNCHANGED search
    <3>1. queried' = {} /\ heard' = {} /\ IdsOf({} \cup {}) = {}
      BY <1>5, <2>1 DEF BeginValue, Phased, IdsOf
    <3> QED
      BY <1>5, <3>1 DEF BeginValue, Introduced
  <2> QED
    BY <1>3, <1>5, <2>1 DEF BeginValue
<1>6. CASE NextRound \/ Exhausted \/ Returned \/ Stored \/ Finished
  BY <1>6 DEF NextRound, Exhausted, Returned, Stored, Finished, vars, Introduced
<1>7. ASSUME NEW c \in Contacts, QueryFails(c) \/ StoreAt(c) PROVE Introduced'
  BY <1>7 DEF QueryFails, StoreAt, Introduced
<1>8. ASSUME NEW c \in Contacts, Answers(c) PROVE Introduced'
  <2>1. PICK i \in Ids, ans \in SUBSET Contacts : Gives(c, i, ans)
    BY <1>8, AnswersCases
  <2>2. c.addr \in Addresses /\ IdsOf(ans) \subseteq Ids
    BY ContactTypes
  <2>3. MetNaming(i, c.addr, IdsOf(ans)) /\ phase = "ask"
    BY <2>1 DEF Gives
  <2>4. /\ nodes \cup pendingGETID \cup IdsOf(ans) \cup {i} \subseteq nodes' \cup pendingGETID'
        /\ pendingGETID' \cap nodes' = {}
    BY <2>2, <2>3, MetNamingEffect DEF Introduced
  <2>5. IdsOf(queried') \subseteq IdsOf(queried) \cup {i} /\ heard' = heard \cup ans
    <3>1. CASE IsExact(ans)
      BY <2>1, <3>1 DEF Gives
    <3>2. CASE ~IsExact(ans)
      BY <2>1, <2>2, <3>2, AbsorbEffect DEF Gives
    <3> QED
      BY <3>1, <3>2
  <2>6. IdsOf(queried \cup heard) \subseteq nodes \cup pendingGETID
    BY <2>3 DEF Introduced
  <2>7. IdsOf(queried' \cup heard') \subseteq nodes' \cup pendingGETID'
    <3>1. IdsOf(queried' \cup heard') = IdsOf(queried') \cup IdsOf(heard) \cup IdsOf(ans)
      BY <2>5 DEF IdsOf
    <3>2. IdsOf(queried \cup heard) = IdsOf(queried) \cup IdsOf(heard)
      BY DEF IdsOf
    <3> QED
      BY <2>4, <2>5, <2>6, <3>1, <3>2
  <2> QED
    BY <2>4, <2>7 DEF Introduced
<1>9. ASSUME NEW c \in Contacts, AnswersValue(c) PROVE Introduced'
  <2>1. PICK i \in Ids : i = owner[c.addr]
    BY <1>9, ContactTypes DEF AnswersValue, TypeOK
  <2>2. Met(i, c.addr) /\ c.addr \in Addresses
    BY <1>9, <2>1, ContactTypes DEF AnswersValue
  <2> QED
    BY <1>9, <2>2, MetEffect DEF AnswersValue, Introduced
<1>10. ASSUME NEW g \in getids, GetidDone(g) \/ GetidFails(g) PROVE Introduced'
  BY <1>10 DEF GetidDone, GetidFails, AddNodes, Introduced
<1>11. ASSUME NEW c \in Contacts, Unread(c) PROVE Introduced'
  <2>1. queried' = queried /\ IdsOf(queried \cup heard) \subseteq nodes \cup pendingGETID
    BY <1>11 DEF Unread, Introduced
  <2>2. PICK ans \in SUBSET Contacts :
          heard' = heard \cup ans /\ IdsOf(ans) \subseteq nodes' \cup pendingGETID'
    BY <1>11, UnreadEffect
  <2>3. /\ nodes \cup pendingGETID \subseteq nodes' \cup pendingGETID'
        /\ pendingGETID' \cap nodes' = {}
    BY <1>11, UnreadEffect DEF Introduced
  <2>4. queried' \cup heard' = (queried \cup heard) \cup ans
    BY <2>1, <2>2
  <2>5. IdsOf(queried' \cup heard') \subseteq nodes' \cup pendingGETID'
    BY <1>2, <2>1, <2>2, <2>3, <2>4
  <2> QED
    BY <2>3, <2>5 DEF Introduced
<1> QED
  BY <1>4, <1>5, <1>6, <1>7, <1>8, <1>9, <1>10, <1>11 DEF Next, Step

-----------------------------------------------------------------------------
(* Who is alive.                                                           *)

LEMMA AliveAbsorb ==
  ASSUME TypeOK, NEW i \in Ids, NEW d \in Addresses, NEW ans \in SUBSET Contacts, Absorb(i, d, ans),
         NEW c \in kclosest', c \notin ans => Alive(c) \/ c \in pending
  PROVE  Alive(c)' \/ c \in pending'
<1>1. /\ IdsOf(queried) \subseteq IdsOf(queried') /\ answered \subseteq answered'
      /\ kclosest' \subseteq kclosest \cup ans
      /\ \A e \in pending \cup ans : e \in pending' \/ e.id \in IdsOf(queried')
  BY AbsorbEffect
<1> QED
  BY <1>1 DEF Alive

LEMMA AliveStep ==
  ASSUME TypeOK, Phased, AliveOrDue, ResultAlive, Next
  PROVE  AliveOrDue' /\ ResultAlive'
<1> USE DEF membership, search
<1>1. Self \in Ids /\ Here \in Addresses /\ OwnTable \in SUBSET Contacts
  BY LookupAssumption DEF OwnTable
<1>2. ASSUME NEW ans \in SUBSET OwnTable, Absorb(Self, Here, ans), phase = "begin", phase' = "ask"
      PROVE  AliveOrDue' /\ ResultAlive'
  <2>1. kclosest' \subseteq ans
    BY <1>1, <1>2, AbsorbEffect DEF Phased
  <2>2. \A c \in kclosest' : Alive(c)' \/ c \in pending'
    BY <1>1, <1>2, <2>1, AliveAbsorb
  <2> QED
    BY <1>2, <2>2 DEF AliveOrDue, ResultAlive
<1>3. CASE BeginNode
  <2>1. PICK ans \in SUBSET OwnTable : Opens(ans)
    BY <1>3, BeginCases
  <2>2. CASE IsExact(ans)
    BY <2>1, <2>2, EndEffect DEF Opens, AliveOrDue, ResultAlive
  <2>3. CASE ~IsExact(ans)
    BY <1>2, <1>3, <2>1, <2>3 DEF Opens, BeginNode
  <2> QED
    BY <2>2, <2>3
<1>4. CASE BeginValue
  <2>1. CASE phase' = "done" /\ result' \in {"error", "value"}
    BY <2>1 DEF AliveOrDue, ResultAlive
  <2> QED
    BY <1>2, <1>4, <2>1 DEF BeginValue
<1>5. CASE NextRound
  <2>1. /\ phase = "ask" /\ phase' = "ask" /\ pending' = pending \ batch'
        /\ UNCHANGED <<queried, answered, kclosest>> /\ batch = {}
    BY <1>5 DEF NextRound
  <2> QED
    BY <2>1 DEF AliveOrDue, ResultAlive, Alive
<1>6. CASE Exhausted
  <2>1. PICK r \in {"nodes", "none"} : EndWith(kclosest, r)
    BY <1>6 DEF Exhausted
  <2>2. phase' \in {"store", "done"}
    BY <2>1, EndEffect
  <2>3. \A c \in kclosest : Alive(c)
    BY <1>6 DEF Exhausted, AliveOrDue
  <2> QED
    BY <1>6, <2>2, <2>3 DEF Exhausted, AliveOrDue, ResultAlive, Alive
<1>7. ASSUME NEW c \in Contacts, QueryFails(c) PROVE AliveOrDue' /\ ResultAlive'
  BY <1>7 DEF QueryFails, AliveOrDue, ResultAlive, Alive
<1>8. ASSUME NEW c \in Contacts, Answers(c) PROVE AliveOrDue' /\ ResultAlive'
  <2>1. PICK i \in Ids, ans \in SUBSET Contacts : Gives(c, i, ans)
    BY <1>8, AnswersCases
  <2>2. CASE IsExact(ans)
    BY <2>1, <2>2 DEF Gives, CutShort, AliveOrDue, ResultAlive
  <2>3. CASE ~IsExact(ans)
    <3>1. Absorb(i, c.addr, ans) /\ phase = "ask" /\ phase' = "ask" /\ batch' = batch \ {c}
      BY <2>1, <2>3 DEF Gives
    <3>2. c.addr \in Addresses
      BY ContactTypes
    <3>3. /\ kclosest' \subseteq kclosest \cup ans /\ c.addr \in answered'
          /\ IdsOf(queried) \subseteq IdsOf(queried') /\ answered \subseteq answered'
      BY <3>1, <3>2, AbsorbEffect
    <3>4. ASSUME NEW e \in kclosest' PROVE Alive(e)' \/ e \in pending' \cup batch'
      <4>1. CASE e \in ans \/ Alive(e) \/ e \in pending
        BY <3>1, <3>2, <4>1, AliveAbsorb
      <4>2. CASE e = c
        BY <3>3, <4>2 DEF Alive
      <4>3. e \in ans \/ Alive(e) \/ e \in pending \/ e = c \/ e \in batch'
        BY <3>1, <3>3 DEF AliveOrDue
      <4> QED
        BY <4>1, <4>2, <4>3
    <3> QED
      BY <3>1, <3>4 DEF AliveOrDue, ResultAlive
  <2> QED
    BY <2>2, <2>3
<1>9. ASSUME NEW c \in Contacts, AnswersValue(c) PROVE AliveOrDue' /\ ResultAlive'
  BY <1>9 DEF AnswersValue, CutShort, AliveOrDue, ResultAlive
<1>10. ASSUME NEW c \in Contacts, StoreAt(c) PROVE AliveOrDue' /\ ResultAlive'
  BY <1>10 DEF StoreAt, AliveOrDue, ResultAlive
<1>11. CASE Stored
  BY <1>11 DEF Stored, AliveOrDue, ResultAlive
<1>12. CASE UNCHANGED <<phase, batch, result, search>>
  BY <1>12 DEF AliveOrDue, ResultAlive, Alive
<1>13. ASSUME NEW g \in getids, GetidDone(g) \/ GetidFails(g) PROVE AliveOrDue' /\ ResultAlive'
  BY <1>12, <1>13 DEF GetidDone, GetidFails
<1>14. ASSUME NEW c \in Contacts, Unread(c) PROVE AliveOrDue' /\ ResultAlive'
  BY <1>14 DEF Unread, AliveOrDue, ResultAlive
<1>15. CASE Returned
  BY <1>15 DEF Returned, EndWith, Phased, AliveOrDue, ResultAlive
<1> QED
  BY <1>3, <1>4, <1>5, <1>6, <1>7, <1>8, <1>9, <1>10, <1>11, <1>12, <1>13, <1>14, <1>15
     DEF Next, Step, Finished, vars

-----------------------------------------------------------------------------
(* Who has a value.                                                        *)

LEMMA ValueAbsorb ==
  ASSUME TypeOK, NEW i \in Ids, NEW d \in Addresses, NEW ans \in SUBSET Contacts, Absorb(i, d, ans),
         i \notin holders, \A q \in queried : q.id \notin holders
  PROVE  /\ \A q \in queried' : q.id \notin holders
         /\ \A c \in pending \cup ans : Missed(c) => c \in pending'
<1>1. \A x \in IdsOf(queried') : x \notin holders
  BY AbsorbEffect DEF IdsOf
<1>2. \A c \in pending \cup ans : c \in pending' \/ c.id \in IdsOf(queried')
  BY AbsorbEffect
<1>3. \A q \in queried' : q.id \in IdsOf(queried')
  BY DEF IdsOf
<1> QED
  BY <1>1, <1>2, <1>3 DEF Missed

LEMMA ValueStep ==
  ASSUME TypeOK, Phased, ValueDue, FoundIfHeld, Next
  PROVE  ValueDue' /\ FoundIfHeld'
<1> USE DEF membership, search
<1>1. Self \in Ids /\ Here \in Addresses /\ OwnTable \in SUBSET Contacts
  BY LookupAssumption DEF OwnTable
<1>2. CASE BeginNode
  <2>1. PICK ans \in SUBSET OwnTable : Opens(ans)
    BY <1>2, BeginCases
  <2>2. mode' # "value"
    BY <1>2 DEF BeginNode
  <2>3. phase' \in {"ask", "store"} \/ result' # "none"
    BY <2>1, EndEffect DEF Opens
  <2> QED
    BY <2>2, <2>3 DEF ValueDue, FoundIfHeld
<1>3. CASE BeginValue
  <2>1. CASE phase' = "done" /\ result' \in {"error", "value"}
    BY <2>1 DEF ValueDue, FoundIfHeld
  <2>2. ASSUME NEW ans \in SUBSET OwnTable, Absorb(Self, Here, ans), phase' = "ask", Self \notin holders
        PROVE  ValueDue' /\ FoundIfHeld'
    <3>1. queried = {} /\ heard = {}
      BY <1>3 DEF BeginValue, Phased
    <3>2. /\ \A q \in queried' : q.id \notin holders
          /\ \A c \in ans : Missed(c) => c \in pending'
      BY <1>1, <2>2, <3>1, ValueAbsorb
    <3>3. heard' = ans
      BY <1>1, <2>2, <3>1, AbsorbEffect
    <3> QED
      BY <1>3, <2>2, <3>2, <3>3 DEF BeginValue, ValueDue, FoundIfHeld, Missed
  <2> QED
    BY <1>3, <2>1, <2>2 DEF BeginValue
<1>4. CASE NextRound
  <2>1. /\ phase = "ask" /\ phase' = "ask" /\ pending' = pending \ batch' /\ batch = {}
        /\ UNCHANGED <<owner, holders, mode, queried, heard, failed>>
    BY <1>4 DEF NextRound
  <2> QED
    BY <2>1 DEF ValueDue, FoundIfHeld, Missed
<1>5. CASE Exhausted
  <2>1. PICK r \in {"nodes", "none"} : EndWith(kclosest, r) /\ (r = "none" => mode = "value")
    BY <1>5 DEF Exhausted
  <2>2. phase' \in {"store", "done"} /\ (phase' = "done" /\ result' = "none" => mode = "value")
    BY <2>1, EndEffect
  <2> QED
    BY <1>5, <2>2 DEF Exhausted, ValueDue, FoundIfHeld, Missed
<1>6. ASSUME NEW c \in Contacts, QueryFails(c) PROVE ValueDue' /\ FoundIfHeld'
  BY <1>6 DEF QueryFails, ValueDue, FoundIfHeld, Missed
<1>7. ASSUME NEW c \in Contacts, Answers(c) PROVE ValueDue' /\ FoundIfHeld'
  <2>1. PICK i \in Ids, ans \in SUBSET Contacts : Gives(c, i, ans)
    BY <1>7, AnswersCases
  <2>2. UNCHANGED <<owner, holders, mode, failed>>
    BY <1>7 DEF Answers
  <2>3. CASE IsExact(ans)
    <3>1. phase' = "over"
      BY <2>1, <2>3 DEF Gives, CutShort
    <3> QED
      BY <3>1 DEF ValueDue, FoundIfHeld
  <2>4. CASE ~IsExact(ans)
    <3>1. Absorb(i, c.addr, ans) /\ phase = "ask" /\ phase' = "ask" /\ batch' = batch \ {c}
      BY <2>1, <2>4 DEF Gives
    <3>2. c.addr \in Addresses
      BY ContactTypes
    <3>3. CASE mode = "value"
      <4>1. i \notin holders /\ i = owner[c.addr]
        BY <2>1, <3>3 DEF Gives, HasValue
      <4>2. /\ \A q \in queried' : q.id \notin holders
            /\ \A e \in pending \cup ans : Missed(e) => e \in pending'
        BY <3>1, <3>2, <3>3, <4>1, ValueAbsorb DEF ValueDue
      <4>3. heard' = heard \cup ans
        BY <3>1, <3>2, AbsorbEffect
      <4>4. ~Missed(c)
        BY <4>1 DEF Missed
      <4>5. \A e \in heard' : Missed(e) => e \in failed \cup pending' \cup batch'
        BY <3>1, <3>3, <4>2, <4>3, <4>4 DEF ValueDue
      <4> QED
        BY <2>2, <3>1, <4>2, <4>5 DEF ValueDue, FoundIfHeld, Missed
    <3>4. CASE mode # "value"
      BY <2>2, <3>1, <3>4 DEF ValueDue, FoundIfHeld
    <3> QED
      BY <3>3, <3>4
  <2> QED
    BY <2>3, <2>4
<1>8. ASSUME NEW c \in Contacts, AnswersValue(c) PROVE ValueDue' /\ FoundIfHeld'
  BY <1>8 DEF AnswersValue, CutShort, ValueDue, FoundIfHeld
<1>9. ASSUME NEW c \in Contacts, StoreAt(c) PROVE ValueDue' /\ FoundIfHeld'
  BY <1>9 DEF StoreAt, ValueDue, FoundIfHeld
<1>10. CASE Stored
  BY <1>10 DEF Stored, ValueDue, FoundIfHeld
<1>11. CASE UNCHANGED <<owner, holders, mode, phase, batch, result, search, failed>>
  BY <1>11 DEF ValueDue, FoundIfHeld, Missed
<1>12. ASSUME NEW g \in getids, GetidDone(g) \/ GetidFails(g) PROVE ValueDue' /\ FoundIfHeld'
  BY <1>11, <1>12 DEF GetidDone, GetidFails
<1>13. ASSUME NEW c \in Contacts, Unread(c) PROVE ValueDue' /\ FoundIfHeld'
  BY <1>13 DEF Unread, ValueDue, FoundIfHeld
<1>14. CASE Returned
  BY <1>14 DEF Returned, EndWith, Phased, ValueDue, FoundIfHeld
<1> QED
  BY <1>2, <1>3, <1>4, <1>5, <1>6, <1>7, <1>8, <1>9, <1>10, <1>11, <1>12, <1>13, <1>14
     DEF Next, Step, Finished, vars

-----------------------------------------------------------------------------
(* Who is closest.                                                         *)

LEMMA MinOfTwo ==
  ASSUME NEW n \in Nat
  PROVE  Min({k, n}) = IF k <= n THEN k ELSE n
<1>1. k \in Nat
  BY LookupAssumption
<1>2. \E x \in {k, n} : \A y \in {k, n} : x <= y
  BY <1>1
<1>3. Min({k, n}) \in {k, n} /\ \A y \in {k, n} : Min({k, n}) <= y
  BY <1>2 DEF Min
<1> QED
  BY <1>1, <1>3

\* The closest of the closest and of new ones are the closest of all.
LEMMA ClosestGrow ==
  ASSUME NEW H \in SUBSET Contacts, NEW K \in SUBSET H, NEW A \in SUBSET Contacts,
         ClosestOf(K, H),
         NEW T \in Closest(K \cup A)
  PROVE  T \subseteq H \cup A /\ ClosestOf(T, H \cup A)
<1> USE DEF ClosestOf
<1>1. IsFiniteSet(Contacts) /\ k \in Nat
  BY LookupAssumption
<1>2. /\ IsFiniteSet(H) /\ IsFiniteSet(K) /\ IsFiniteSet(A)
      /\ IsFiniteSet(H \cup A) /\ IsFiniteSet(K \cup A)
  BY <1>1, FS_Subset, FS_Union
<1>3. /\ Cardinality(H) \in Nat /\ Cardinality(K) \in Nat /\ Cardinality(K \cup A) \in Nat
      /\ Cardinality(H \cup A) \in Nat
  BY <1>2, FS_CardinalityType
<1>4. /\ T \subseteq K \cup A /\ Cardinality(T) = Min({k, Cardinality(K \cup A)})
      /\ \A c \in T, e \in (K \cup A) \ T : c.id <= e.id
  BY DEF Closest, kSubset
<1>5. IsFiniteSet(T) /\ Cardinality(T) \in Nat
  BY <1>2, <1>4, FS_Subset, FS_CardinalityType
<1>6. \A c \in Contacts : c.id \in Nat
  BY ContactTypes, LookupAssumption
<1>7. CASE Cardinality(H) <= k
  <2>1. Cardinality(K) = Cardinality(H)
    BY <1>1, <1>3, <1>7, MinOfTwo
  <2>2. K = H
    BY <1>2, <2>1, FS_Subset
  <2> QED
    BY <1>4, <2>2
<1>8. CASE ~(Cardinality(H) <= k)
  <2>1. Cardinality(K) = k
    BY <1>1, <1>3, <1>8, MinOfTwo
  <2>2. Cardinality(K) <= Cardinality(K \cup A) /\ Cardinality(H) <= Cardinality(H \cup A)
    <3>1. K \in SUBSET (K \cup A) /\ H \in SUBSET (H \cup A)
      OBVIOUS
    <3> QED
      BY <1>2, <3>1, FS_Subset
  <2>3. Cardinality(T) = k /\ Cardinality(T) = Min({k, Cardinality(H \cup A)})
    <3>1. k <= Cardinality(K \cup A) /\ k <= Cardinality(H \cup A)
      BY <1>1, <1>3, <1>8, <2>1, <2>2
    <3>2. Min({k, Cardinality(K \cup A)}) = k /\ Min({k, Cardinality(H \cup A)}) = k
      BY <1>3, <3>1, MinOfTwo
    <3> QED
      BY <1>4, <3>2
  <2>4. ASSUME NEW c \in T, NEW e \in (H \cup A) \ T PROVE c.id <= e.id
    <3>1. CASE e \in K \cup A
      BY <1>4, <3>1
    <3>2. CASE e \notin K \cup A
      <4>1. e \in H \ K
        BY <3>2
      <4>2. CASE c \in K
        BY <4>1, <4>2
      <4>3. CASE c \notin K
        <5>1. ~(K \subseteq T)
          <6>1. SUFFICES ASSUME K \subseteq T PROVE FALSE
            OBVIOUS
          <6>2. K = T
            BY <1>5, <2>1, <2>3, <6>1, FS_Subset
          <6> QED
            BY <4>3, <6>2
        <5>2. PICK f \in K : f \notin T
          BY <5>1
        <5>3. c.id <= f.id /\ f.id <= e.id
          BY <1>4, <4>1, <5>2
        <5>4. c \in Contacts /\ f \in Contacts /\ e \in Contacts
          BY <1>4, <4>1, <5>2
        <5> QED
          BY <1>6, <5>3, <5>4
      <4> QED
        BY <4>2, <4>3
    <3> QED
      BY <3>1, <3>2
  <2> QED
    BY <1>4, <2>3, <2>4
<1> QED
  BY <1>7, <1>8

LEMMA AbsorbClosest ==
  ASSUME TypeOK, NEW i \in Ids, NEW d \in Addresses, NEW ans \in SUBSET Contacts, Absorb(i, d, ans),
         ClosestOfAll
  PROVE  ClosestOfAll'
<1>1. PICK H \in SUBSET Contacts : H = heard
  BY DEF TypeOK
<1>2. PICK K \in SUBSET H : K = kclosest
  BY <1>1 DEF ClosestOfAll
<1>3. PICK T \in Closest(K \cup ans) : T = kclosest'
  BY <1>2 DEF Absorb
<1>4. ClosestOf(K, H)
  BY <1>1, <1>2 DEF ClosestOfAll
<1>5. heard' = H \cup ans
  BY <1>1 DEF Absorb
<1>6. T \subseteq H \cup ans /\ ClosestOf(T, H \cup ans)
  BY <1>3, <1>4, ClosestGrow
<1> QED
  BY <1>3, <1>5, <1>6 DEF ClosestOfAll

LEMMA ClosestStep ==
  ASSUME TypeOK, Phased, ClosestSoFar, ResultClosest, Next
  PROVE  ClosestSoFar' /\ ResultClosest'
<1> USE DEF membership, search
<1>1. Self \in Ids /\ Here \in Addresses /\ OwnTable \in SUBSET Contacts
  BY LookupAssumption DEF OwnTable
<1>2. ASSUME NEW ans \in SUBSET OwnTable, Absorb(Self, Here, ans), phase = "begin", phase' = "ask",
             failed' = failed
      PROVE  ClosestSoFar' /\ ResultClosest'
  <2>1. ClosestOfAll'
    BY <1>1, <1>2, AbsorbClosest DEF ClosestSoFar, Phased
  <2> QED
    BY <1>2, <2>1 DEF ClosestSoFar, ResultClosest
<1>3. CASE BeginNode
  <2>1. PICK ans \in SUBSET OwnTable : Opens(ans)
    BY <1>3, BeginCases
  <2>2. CASE IsExact(ans)
    <3>1. phase' \in {"store", "done"} /\ (phase' = "done" => result' # "nodes")
      BY <2>1, <2>2, EndEffect DEF Opens
    <3> QED
      BY <3>1 DEF ClosestSoFar, ResultClosest
  <2>3. CASE ~IsExact(ans)
    BY <1>2, <1>3, <2>1, <2>3 DEF Opens, BeginNode
  <2> QED
    BY <2>2, <2>3
<1>4. CASE BeginValue
  <2>1. CASE phase' = "done" /\ result' \in {"error", "value"}
    BY <2>1 DEF ClosestSoFar, ResultClosest
  <2> QED
    BY <1>2, <1>4, <2>1 DEF BeginValue
<1>5. CASE NextRound
  BY <1>5 DEF NextRound, ClosestSoFar, ClosestOfAll, ResultClosest
<1>6. CASE Exhausted
  <2>1. PICK r \in {"nodes", "none"} : EndWith(kclosest, r)
    BY <1>6 DEF Exhausted
  <2>2. phase' \in {"store", "done"}
    BY <2>1, EndEffect
  <2> QED
    BY <1>6, <2>2 DEF Exhausted, ClosestSoFar, ClosestOfAll, ClosestOf, ResultClosest
<1>7. ASSUME NEW c \in Contacts, QueryFails(c) PROVE ClosestSoFar' /\ ResultClosest'
  <2>1. failed' # {}
    BY <1>7 DEF QueryFails
  <2> QED
    BY <2>1 DEF ClosestSoFar, ResultClosest
<1>8. ASSUME NEW c \in Contacts, Answers(c) PROVE ClosestSoFar' /\ ResultClosest'
  <2>1. PICK i \in Ids, ans \in SUBSET Contacts : Gives(c, i, ans)
    BY <1>8, AnswersCases
  <2>2. CASE IsExact(ans)
    <3>1. phase' = "over"
      BY <2>1, <2>2 DEF Gives, CutShort
    <3> QED
      BY <3>1 DEF ClosestSoFar, ResultClosest
  <2>3. CASE ~IsExact(ans)
    <3>1. Absorb(i, c.addr, ans) /\ phase = "ask" /\ phase' = "ask" /\ c.addr \in Addresses
      BY <2>1, <2>3, ContactTypes DEF Gives
    <3>2. failed' = failed
      BY <1>8 DEF Answers
    <3>3. ASSUME failed' = {} PROVE ClosestOfAll'
      BY <3>1, <3>2, <3>3, AbsorbClosest DEF ClosestSoFar
    <3> QED
      BY <3>1, <3>3 DEF ClosestSoFar, ResultClosest
  <2> QED
    BY <2>2, <2>3
<1>9. ASSUME NEW c \in Contacts, AnswersValue(c) PROVE ClosestSoFar' /\ ResultClosest'
  BY <1>9 DEF AnswersValue, CutShort, ClosestSoFar, ResultClosest
<1>10. ASSUME NEW c \in Contacts, StoreAt(c) PROVE ClosestSoFar' /\ ResultClosest'
  BY <1>10 DEF StoreAt, ClosestSoFar, ResultClosest
<1>11. CASE Stored
  BY <1>11 DEF Stored, ClosestSoFar, ResultClosest
<1>12. CASE UNCHANGED <<phase, result, search, failed>>
  BY <1>12 DEF ClosestSoFar, ClosestOfAll, ResultClosest
<1>13. ASSUME NEW g \in getids, GetidDone(g) \/ GetidFails(g) PROVE ClosestSoFar' /\ ResultClosest'
  BY <1>12, <1>13 DEF GetidDone, GetidFails
<1>14. ASSUME NEW c \in Contacts, Unread(c) PROVE ClosestSoFar' /\ ResultClosest'
  BY <1>14 DEF Unread, ClosestSoFar, ResultClosest
<1>15. CASE Returned
  BY <1>15 DEF Returned, EndWith, Phased, ClosestSoFar, ResultClosest
<1> QED
  BY <1>3, <1>4, <1>5, <1>6, <1>7, <1>8, <1>9, <1>10, <1>11, <1>12, <1>13, <1>14, <1>15
     DEF Next, Step, Finished, vars

-----------------------------------------------------------------------------
(* The theorems.                                                           *)

\* The inductive invariant: whom a lookup has heard of, who has answered and who
\* is still to be asked.
THEOREM Invariance == Spec => []IInv
<1>1. ASSUME IInv, [Next]_vars PROVE IInv'
  <2>1. CASE Next
    BY <1>1, <2>1, TypeStep, PhasedStep, IntroducedStep, AliveStep, ValueStep, ClosestStep DEF IInv
  <2>2. CASE UNCHANGED vars
    BY <1>1, <2>2 DEF vars, membership, search, IInv, TypeOK, Phased, AliveOrDue, Alive, ValueDue, Missed,
       Introduced, ClosestSoFar, ClosestOfAll, ResultAlive, FoundIfHeld, ResultClosest
  <2> QED
    BY <1>1, <2>1, <2>2
<1> QED
  BY InitHolds, <1>1, PTL DEF Spec

\* The state of a lookup has its type, whatever the nodes answer.
THEOREM TypeCorrect == Spec => []TypeOK
<1>1. IInv => TypeOK
  BY DEF IInv
<1> QED
  BY Invariance, <1>1, PTL

\* Whom k_find_node returns has answered in this lookup, or somebody at its
\* address has (_update_state).
THEOREM OnlyTheLiving == Spec => []ResultAlive
<1>1. IInv => ResultAlive
  BY DEF IInv
<1> QED
  BY Invariance, <1>1, PTL

\* If no query failed, k_find_node returns the closest of all the nodes the
\* lookup has heard of, and as many as there are up to k.
THEOREM TheClosest == Spec => []ResultClosest
<1>1. IInv => ResultClosest
  BY DEF IInv
<1> QED
  BY Invariance, <1>1, PTL

\* k_find_value misses a value only where the query of its holder failed.
THEOREM NoValueOverlooked == Spec => []FoundIfHeld
<1>1. IInv => FoundIfHeld
  BY DEF IInv
<1> QED
  BY Invariance, <1>1, PTL

\* Who answered or was named becomes known or is asked for its key (updateNode,
\* updateNodes).
THEOREM AllAreIntroduced == Spec => []Introduced
<1>1. IInv => Introduced
  BY DEF IInv
<1> QED
  BY Invariance, <1>1, PTL

-----------------------------------------------------------------------------
(* Every lookup ends, where each contact has its own node or nobody.       *)

\* Contacts whose answer may still come: the node has not answered yet, or is
\* asked once more at another address.
Open == {c \in Contacts : c.id \notin IdsOf(queried) \/ c \in pending \cup batch}

\* What a lookup has before it when no other answer comes, and with all of them.
Rest ==
  IF phase = "ask" THEN 2 * Cardinality(pending) + Cardinality(batch) + Cardinality(Contacts) + 2
  ELSE IF phase = "over" THEN Cardinality(batch) + Cardinality(Contacts) + 2
  ELSE IF phase = "store" THEN Cardinality(batch) + 1
  ELSE 0
Most == 4 * Cardinality(Contacts) + 3

Left ==
  IF phase = "begin" THEN (Cardinality(Contacts) + 1) * Most
  ELSE IF phase = "ask" THEN Cardinality(Open) * Most + Rest
  ELSE Rest

\* Contacts can be counted.
LEMMA Counted ==
  ASSUME NEW S \in SUBSET Contacts
  PROVE  /\ IsFiniteSet(S) /\ Cardinality(S) \in 0 .. Cardinality(Contacts)
         /\ Cardinality(Contacts) \in Nat /\ Most \in Nat
         /\ \A c \in S : Cardinality(S \ {c}) = Cardinality(S) - 1
         /\ \A T \in SUBSET S : /\ Cardinality(T) \in 0 .. Cardinality(S)
                                /\ Cardinality(S \ T) = Cardinality(S) - Cardinality(T)
                                /\ T # {} => Cardinality(T) > 0
<1>1. IsFiniteSet(Contacts)
  BY LookupAssumption
<1>2. IsFiniteSet(S) /\ Cardinality(S) <= Cardinality(Contacts)
  BY <1>1, FS_Subset
<1>3. Cardinality(S) \in Nat /\ Cardinality(Contacts) \in Nat
  BY <1>1, <1>2, FS_CardinalityType
<1>4. \A c \in S : Cardinality(S \ {c}) = Cardinality(S) - 1
  BY <1>2, FS_RemoveElement
<1>5. ASSUME NEW T \in SUBSET S
      PROVE  /\ Cardinality(T) \in 0 .. Cardinality(S)
             /\ Cardinality(S \ T) = Cardinality(S) - Cardinality(T)
             /\ T # {} => Cardinality(T) > 0
  <2>1. IsFiniteSet(T) /\ Cardinality(T) <= Cardinality(S)
    BY <1>2, FS_Subset
  <2>2. Cardinality(T) \in Nat /\ (T # {} => Cardinality(T) # 0)
    BY <2>1, FS_CardinalityType, FS_EmptySet
  <2>3. S \cap T = T
    OBVIOUS
  <2>4. Cardinality(S \ T) = Cardinality(S) - Cardinality(S \cap T)
    BY <1>2, FS_Difference
  <2> QED
    BY <1>3, <2>1, <2>2, <2>3, <2>4
<1> QED
  BY <1>2, <1>3, <1>4, <1>5 DEF Most

\* What is left of a round, and of a lookup, is bounded by the contacts there are.
LEMMA RestType ==
  ASSUME NEW P \in SUBSET Contacts, NEW B \in SUBSET Contacts
  PROVE  2 * Cardinality(P) + Cardinality(B) + Cardinality(Contacts) + 2 \in 0 .. Most - 1
<1>1. PICK n \in Nat : n = Cardinality(Contacts) /\ Most = 4 * n + 3
  BY Counted DEF Most
<1>2. PICK p \in 0 .. n : p = Cardinality(P)
  BY <1>1, Counted
<1>3. PICK b \in 0 .. n : b = Cardinality(B)
  BY <1>1, Counted
<1> QED
  BY <1>1, <1>2, <1>3

LEMMA LeftType ==
  ASSUME TypeOK
  PROVE  Left \in 0 .. (Cardinality(Contacts) + 1) * Most
<1>1. pending \in SUBSET Contacts /\ batch \in SUBSET Contacts /\ Open \in SUBSET Contacts
  BY DEF TypeOK, Open
<1>2. PICK n \in Nat, m \in Nat : n = Cardinality(Contacts) /\ m = Most /\ m = 4 * n + 3
  BY Counted DEF Most
<1>3. Rest \in 0 .. m - 1
  <2>1. Cardinality(batch) \in 0 .. n
    BY <1>1, <1>2, Counted
  <2>2. 2 * Cardinality(pending) + Cardinality(batch) + Cardinality(Contacts) + 2 \in 0 .. m - 1
    BY <1>1, <1>2, RestType
  <2> QED
    BY <1>2, <2>1, <2>2 DEF Rest
<1>4. PICK o \in 0 .. n : o = Cardinality(Open)
  BY <1>1, <1>2, Counted
<1>5. (n + 1) * m = n * m + m /\ n * m \in Nat /\ o * m \in Nat /\ o * m <= n * m
  BY <1>2
<1>6. Left \in {(n + 1) * m, o * m + Rest, Rest}
  BY <1>2, <1>4 DEF Left
<1> QED
  BY <1>2, <1>3, <1>5, <1>6

\* No contact becomes open again, and one that has answered is not.
LEMMA AnswerCloses ==
  ASSUME TypeOK, Honest, NEW c \in batch, owner[c.addr] # None,
         NEW ans \in SUBSET Contacts, Absorb(owner[c.addr], c.addr, ans), batch' = batch \ {c}
  PROVE  Open' \subseteq Open \ {c} /\ c \in Open
<1>1. c \in Contacts /\ owner[c.addr] = c.id /\ c = [id |-> c.id, addr |-> c.addr]
  BY ContactTypes DEF TypeOK, Honest
<1>2. queried' = Noted(c.id, c.addr)
  BY <1>1 DEF Absorb
<1>3. IdsOf(queried') = IdsOf(queried) \cup {c.id}
  BY <1>2, NotedIds
<1>4. c \in queried'
  BY <1>1, <1>2 DEF Noted
<1>5. pending' \subseteq (pending \cup {e \in ans : e.id \notin IdsOf(queried')}) \ queried'
  BY <1>1 DEF Absorb
<1>6. ASSUME NEW e \in Open' PROVE e \in Open \ {c}
  <2>1. e \in Contacts /\ (e.id \notin IdsOf(queried') \/ e \in pending' \cup batch')
    BY <1>6 DEF Open
  <2>2. e # c
    BY <1>3, <1>4, <1>5, <2>1
  <2>3. e.id \notin IdsOf(queried) \/ e \in pending \cup batch
    BY <1>3, <1>5, <2>1
  <2> QED
    BY <2>1, <2>2, <2>3 DEF Open
<1> QED
  BY <1>1, <1>6 DEF Open

\* An answer lowers what is before the lookup, whatever it names.
LEMMA FewerOpen ==
  ASSUME NEW o \in Nat, NEW p \in Nat, NEW m \in Nat, NEW r \in Nat, NEW s \in Nat,
         p < o, s < m
  PROVE  p * m + s < o * m + r
<1>1. (p + 1) * m <= o * m /\ (p + 1) * m = p * m + m /\ p * m \in Nat /\ o * m \in Nat
  OBVIOUS
<1> QED
  BY <1>1

\* The steps that end the search.
LEMMA EndLowers ==
  ASSUME TypeOK, NEW found \in SUBSET Contacts, NEW r, EndWith(found, r),
         phase \in {"begin", "ask", "over"}
  PROVE  Left' < Left
<1>1. pending \in SUBSET Contacts /\ batch \in SUBSET Contacts /\ Open \in SUBSET Contacts
  BY DEF TypeOK, Open
<1>2. PICK n \in Nat, m \in Nat : n = Cardinality(Contacts) /\ m = Most /\ m = 4 * n + 3
  BY Counted DEF Most
<1>3. \/ phase' = "store" /\ Left' = Cardinality(found) + 1
      \/ phase' = "done" /\ Left' = 0
  <2>1. (phase' = "store" /\ batch' = found) \/ phase' = "done"
    BY DEF EndWith
  <2> QED
    BY <2>1 DEF Left, Rest
<1>4. Cardinality(found) \in 0 .. n
  BY <1>2, Counted
<1>5. CASE phase = "begin"
  <2>1. Left = (n + 1) * m
    BY <1>2, <1>5 DEF Left
  <2>2. (n + 1) * m >= m
    <3>1. (n + 1) * m = n * m + m /\ n * m \in Nat
      BY <1>2
    <3> QED
      BY <3>1
  <2> QED
    BY <1>2, <1>3, <1>4, <2>1, <2>2
<1>6. CASE phase = "ask"
  <2>1. PICK o \in 0 .. n, p \in 0 .. n, b \in 0 .. n :
          o = Cardinality(Open) /\ p = Cardinality(pending) /\ b = Cardinality(batch)
    BY <1>1, <1>2, Counted
  <2>2. Left = o * m + (2 * p + b + n + 2)
    BY <1>2, <1>6, <2>1 DEF Left, Rest
  <2>3. o * m \in Nat
    BY <1>2, <2>1
  <2> QED
    BY <1>2, <1>3, <1>4, <2>1, <2>2, <2>3
<1>7. CASE phase = "over"
  <2>1. PICK b \in 0 .. n : b = Cardinality(batch)
    BY <1>1, <1>2, Counted
  <2>2. Left = b + n + 2
    BY <1>2, <1>7, <2>1 DEF Left, Rest
  <2> QED
    BY <1>2, <1>3, <1>4, <2>1, <2>2
<1> QED
  BY <1>5, <1>6, <1>7

\* A result cuts a search short, or one answer less is unread.
LEMMA CutLowers ==
  ASSUME TypeOK, NEW c \in batch, batch' = batch \ {c}, phase \in {"ask", "over"}, phase' = "over"
  PROVE  Left' < Left
<1>1. pending \in SUBSET Contacts /\ batch \in SUBSET Contacts /\ Open \in SUBSET Contacts
  BY DEF TypeOK, Open
<1>2. PICK n \in Nat, m \in Nat : n = Cardinality(Contacts) /\ m = Most /\ m = 4 * n + 3
  BY Counted DEF Most
<1>3. PICK o \in 0 .. n, p \in 0 .. n, b \in 0 .. n :
        o = Cardinality(Open) /\ p = Cardinality(pending) /\ b = Cardinality(batch)
  BY <1>1, <1>2, Counted
<1>4. Cardinality(batch') = b - 1
  BY <1>1, <1>3, Counted
<1>5. Left' = (b - 1) + n + 2
  BY <1>2, <1>4 DEF Left, Rest
<1>6. CASE phase = "over"
  <2>1. Left = b + n + 2
    BY <1>2, <1>3, <1>6 DEF Left, Rest
  <2> QED
    BY <1>3, <1>5, <2>1
<1>7. CASE phase = "ask"
  <2>1. Left = o * m + (2 * p + b + n + 2)
    BY <1>2, <1>3, <1>7 DEF Left, Rest
  <2>2. o * m \in Nat
    BY <1>2, <1>3
  <2> QED
    BY <1>2, <1>3, <1>5, <2>1, <2>2
<1> QED
  BY <1>6, <1>7

\* Reading the own table opens a search.
LEMMA BeginLowers ==
  ASSUME TypeOK, TypeOK', phase = "begin", phase' = "ask"
  PROVE  Left' < Left
<1>1. pending' \in SUBSET Contacts /\ batch' \in SUBSET Contacts /\ Open' \in SUBSET Contacts
  BY DEF TypeOK, Open
<1>2. PICK n \in Nat, m \in Nat : n = Cardinality(Contacts) /\ m = Most /\ m = 4 * n + 3
  BY Counted DEF Most
<1>3. PICK o \in 0 .. n, p \in 0 .. n, b \in 0 .. n :
        o = Cardinality(Open') /\ p = Cardinality(pending') /\ b = Cardinality(batch')
  BY <1>1, <1>2, Counted
<1>4. Left' = o * m + (2 * p + b + n + 2)
  BY <1>2, <1>3 DEF Left, Rest, Most
<1>5. Left = (n + 1) * m
  BY <1>2 DEF Left
<1>6. 2 * p + b + n + 2 < m /\ o < n + 1
  BY <1>2, <1>3
<1>7. o * m + (2 * p + b + n + 2) < (n + 1) * m + 0
  BY <1>2, <1>3, <1>6, FewerOpen
<1> QED
  BY <1>2, <1>4, <1>5, <1>7

\* Searching goes on with fewer contacts open, or with as many at most and less
\* of a round before it.
LEMMA SearchLowers ==
  ASSUME TypeOK, TypeOK', phase = "ask", phase' = "ask",
         \/ Open' \subseteq Open /\ Open' # Open
         \/ /\ Open' \subseteq Open
            /\ 2 * Cardinality(pending') + Cardinality(batch') < 2 * Cardinality(pending) + Cardinality(batch)
  PROVE  Left' < Left
<1>1. /\ pending \in SUBSET Contacts /\ batch \in SUBSET Contacts /\ Open \in SUBSET Contacts
      /\ pending' \in SUBSET Contacts /\ batch' \in SUBSET Contacts
  BY DEF TypeOK, Open
<1>2. PICK n \in Nat, m \in Nat : n = Cardinality(Contacts) /\ m = Most /\ m = 4 * n + 3
  BY Counted DEF Most
<1>3. PICK o \in 0 .. n, p \in 0 .. n, b \in 0 .. n :
        o = Cardinality(Open) /\ p = Cardinality(pending) /\ b = Cardinality(batch)
  BY <1>1, <1>2, Counted
<1>4. PICK q \in 0 .. n, d \in 0 .. n : q = Cardinality(pending') /\ d = Cardinality(batch')
  BY <1>1, <1>2, Counted
<1>5. PICK u \in 0 .. o : u = Cardinality(Open') /\ (Open' # Open => u < o)
  <2>1. IsFiniteSet(Open) /\ Open' \subseteq Open
    BY <1>1, Counted
  <2>2. IsFiniteSet(Open') /\ Cardinality(Open') <= o /\ (Cardinality(Open') = o => Open' = Open)
    BY <1>3, <2>1, FS_Subset
  <2>3. Cardinality(Open') \in Nat
    BY <2>2, FS_CardinalityType
  <2> QED
    BY <1>3, <2>2, <2>3
<1>6. Left = o * m + (2 * p + b + n + 2)
  BY <1>2, <1>3 DEF Left, Rest
<1>7. Left' = u * m + (2 * q + d + n + 2)
  BY <1>2, <1>4, <1>5 DEF Left, Rest, Most
<1>8. CASE u < o
  <2>1. 2 * q + d + n + 2 < m
    BY <1>2, <1>4
  <2>2. u * m + (2 * q + d + n + 2) < o * m + (2 * p + b + n + 2)
    BY <1>2, <1>3, <1>4, <1>5, <1>8, <2>1, FewerOpen
  <2> QED
    BY <1>6, <1>7, <2>2
<1>9. CASE ~(u < o)
  <2>1. u = o /\ Open' = Open
    BY <1>3, <1>5, <1>9
  <2>2. 2 * q + d < 2 * p + b
    BY <1>3, <1>4, <2>1
  <2>3. o * m \in Nat
    BY <1>2, <1>3
  <2> QED
    BY <1>2, <1>3, <1>4, <1>6, <1>7, <2>1, <2>2, <2>3
<1> QED
  BY <1>8, <1>9

\* A node that answers.
LEMMA AnswerLowers ==
  ASSUME TypeOK, TypeOK', Honest, NEW c \in Contacts, Answers(c)
  PROVE  Left' < Left
<1>1. c \in batch /\ phase = "ask" /\ owner[c.addr] # None
  BY DEF Answers, First
<1>2. PICK ans \in SUBSET Contacts :
        /\ batch' = batch \ {c}
        /\ phase' = "over" \/ (Absorb(owner[c.addr], c.addr, ans) /\ phase' = phase)
  BY DEF Answers, Namings, CutShort
<1>3. CASE phase' = "over"
  BY <1>1, <1>2, <1>3, CutLowers
<1>4. CASE Absorb(owner[c.addr], c.addr, ans) /\ batch' = batch \ {c} /\ phase' = phase
  <2>1. Open' \subseteq Open \ {c} /\ c \in Open
    BY <1>1, <1>4, AnswerCloses
  <2>2. Open' \subseteq Open /\ Open' # Open
    BY <2>1
  <2> QED
    BY <1>1, <1>4, <2>2, SearchLowers
<1> QED
  BY <1>2, <1>3, <1>4

\* The steps that take something out of a round, or fill it.
LEMMA RoundLowers ==
  ASSUME TypeOK, TypeOK', NextRound \/ \E c \in Contacts : QueryFails(c)
  PROVE  Left' < Left
<1>1. pending \in SUBSET Contacts /\ batch \in SUBSET Contacts
  BY DEF TypeOK
<1>2. Cardinality(pending) \in Nat /\ Cardinality(batch) \in Nat
  BY <1>1, Counted
<1>3. CASE NextRound
  <2>1. /\ phase = "ask" /\ phase' = "ask" /\ batch = {} /\ pending # {} /\ queried' = queried
        /\ batch' \in kSubset(Min({a, Cardinality(pending)}), pending)
        /\ pending' = pending \ batch'
    BY <1>3 DEF NextRound
  <2>2. batch' \in SUBSET pending /\ Cardinality(batch') = Min({a, Cardinality(pending)})
    BY <2>1 DEF kSubset
  <2>3. Cardinality(pending) > 0
    BY <1>1, <2>1, Counted
  <2>4. Cardinality(batch') > 0
    <3>1. Min({a, Cardinality(pending)}) \in {a, Cardinality(pending)}
      BY <1>2, LookupAssumption DEF Min
    <3> QED
      BY <2>2, <2>3, <3>1, LookupAssumption
  <2>5. /\ Cardinality(pending') = Cardinality(pending) - Cardinality(batch')
        /\ Cardinality(batch') \in Nat
    <3>1. \A T \in SUBSET pending :
            Cardinality(pending \ T) = Cardinality(pending) - Cardinality(T) /\ Cardinality(T) \in Nat
      BY <1>1, Counted
    <3> QED
      BY <2>1, <2>2, <3>1
  <2>6. Cardinality(batch) = 0
    BY <2>1, FS_EmptySet
  <2>7. Open' \subseteq Open
    BY <2>1, <2>2 DEF Open, IdsOf
  <2>8. 2 * Cardinality(pending') + Cardinality(batch') < 2 * Cardinality(pending) + Cardinality(batch)
    BY <1>2, <2>4, <2>5, <2>6
  <2> QED
    BY <2>1, <2>7, <2>8, SearchLowers
<1>4. ASSUME NEW c \in Contacts, QueryFails(c) PROVE Left' < Left
  <2>1. /\ phase = "ask" /\ phase' = "ask" /\ c \in batch /\ batch' = batch \ {c}
        /\ pending' = pending /\ queried' = queried
    BY <1>4 DEF QueryFails, First
  <2>2. Cardinality(batch') = Cardinality(batch) - 1
    BY <1>1, <2>1, Counted
  <2>3. Open' \subseteq Open
    BY <2>1 DEF Open, IdsOf
  <2>4. 2 * Cardinality(pending') + Cardinality(batch') < 2 * Cardinality(pending) + Cardinality(batch)
    BY <1>2, <2>1, <2>2
  <2> QED
    BY <2>1, <2>3, <2>4, SearchLowers
<1> QED
  BY <1>3, <1>4

\* Each step of a lookup is a step further.
LEMMA StepLowers ==
  ASSUME TypeOK, TypeOK', Honest, Step
  PROVE  Left' < Left
<1>1. CASE BeginNode
  <2>1. PICK ans \in SUBSET Contacts : EndWith(ans, "exact") \/ phase' = "ask"
    BY <1>1 DEF BeginNode, OwnTable
  <2>2. phase = "begin"
    BY <1>1 DEF BeginNode
  <2> QED
    BY <2>1, <2>2, EndLowers, BeginLowers
<1>2. CASE BeginValue
  <2>1. phase = "begin" /\ phase' \in {"ask", "done"}
    BY <1>2 DEF BeginValue
  <2>2. CASE phase' = "done"
    <3>1. Left' = 0
      BY <2>2 DEF Left, Rest
    <3>2. PICK n \in Nat : n = Cardinality(Contacts)
      BY Counted
    <3>3. Left = (n + 1) * (4 * n + 3)
      BY <2>1, <3>2 DEF Left, Most
    <3>4. (n + 1) * (4 * n + 3) = n * (4 * n + 3) + (4 * n + 3) /\ n * (4 * n + 3) \in Nat
      BY <3>2
    <3> QED
      BY <3>1, <3>2, <3>3, <3>4
  <2> QED
    BY <2>1, <2>2, BeginLowers
<1>3. CASE Exhausted
  <2>1. PICK r : EndWith(kclosest, r)
    BY <1>3 DEF Exhausted
  <2>2. phase = "ask" /\ kclosest \in SUBSET Contacts
    BY <1>3 DEF Exhausted, TypeOK
  <2> QED
    BY <2>1, <2>2, EndLowers
<1>4. ASSUME NEW c \in Contacts, AnswersValue(c) \/ Unread(c) PROVE Left' < Left
  <2>1. /\ phase \in {"ask", "over"} /\ phase' = "over"
        /\ c \in batch /\ batch' = batch \ {c}
    BY <1>4 DEF AnswersValue, Unread, First, CutShort
  <2> QED
    BY <2>1, CutLowers
<1>5. ASSUME NEW c \in Contacts, StoreAt(c) PROVE Left' < Left
  <2>1. phase = "store" /\ phase' = "store" /\ c \in batch /\ batch' = batch \ {c}
    BY <1>5 DEF StoreAt
  <2>2. batch \in SUBSET Contacts
    BY DEF TypeOK
  <2>3. Cardinality(batch') = Cardinality(batch) - 1 /\ Cardinality(batch) \in Nat
    BY <2>1, <2>2, Counted
  <2>4. Left = Cardinality(batch) + 1 /\ Left' = Cardinality(batch') + 1
    BY <2>1 DEF Left, Rest
  <2> QED
    BY <2>3, <2>4
<1>6. CASE Stored
  <2>1. phase = "store" /\ phase' = "done" /\ batch = {}
    BY <1>6 DEF Stored
  <2>2. Left = Cardinality(batch) + 1 /\ Left' = 0
    BY <2>1 DEF Left, Rest
  <2>3. Cardinality(batch) = 0
    BY <2>1, FS_EmptySet
  <2> QED
    BY <2>2, <2>3
<1>7. CASE Returned
  <2>1. phase = "over" /\ EndWith(kclosest, result) /\ kclosest \in SUBSET Contacts
    BY <1>7 DEF Returned, TypeOK
  <2> QED
    BY <2>1, EndLowers
<1> QED
  BY <1>1, <1>2, <1>3, <1>4, <1>5, <1>6, <1>7, AnswerLowers, RoundLowers DEF Step

\* Where every contact has its own node at its address, or nobody, a lookup makes
\* a bounded number of steps: a failed node that is named again is asked again
\* only after another node has answered, and no node answers twice at one address
\* (_update_state, _query_peers).  Answers to GETIDs do not prolong it.
THEOREM LookupEnds ==
  Spec /\ []Honest =>
    /\ [](Left \in 0 .. (Cardinality(Contacts) + 1) * Most)
    /\ [][IF Step THEN Left' < Left ELSE Left' = Left]_vars
<1>1. IInv => Left \in 0 .. (Cardinality(Contacts) + 1) * Most
  BY LeftType DEF IInv
<1>2. ASSUME IInv, IInv', Honest, [Next]_vars
      PROVE  [IF Step THEN Left' < Left ELSE Left' = Left]_vars
  <2>1. CASE Step
    BY <1>2, <2>1, StepLowers DEF IInv
  <2>2. ASSUME NEW g \in getids, GetidDone(g) \/ GetidFails(g) PROVE Left' = Left
    BY <2>2 DEF GetidDone, GetidFails, search, Left, Rest, Open, IdsOf, Most
  <2>3. CASE UNCHANGED vars
    BY <2>3
  <2> QED
    BY <1>2, <2>1, <2>2, <2>3 DEF Next, Finished
<1> QED
  BY <1>1, <1>2, Invariance, PTL DEF Spec
=============================================================================
