------------------------------- MODULE Lookup -------------------------------
(***************************************************************************)
(* One lookup in the DHT, k_find_node, k_find_value or k_store of          *)
(* src/flud/protocol/ClientDHTPrimitives.py, and what its answers teach    *)
(* the node about others: updateNode of src/flud/protocol/FludCommUtil.py. *)
(*                                                                         *)
(* Lookups have no state in common but what they learn, so one of them,    *)
(* begun with any knowledge, stands for all.                               *)
(*                                                                         *)
(* An id is written as its distance from the key that is looked up, the    *)
(* only thing the code uses it for: the key is 0.  A contact is an id and  *)
(* an address.  Contacts outlive the nodes they are of: who answers at the *)
(* address may have another id, or nobody answers.                         *)
(*                                                                         *)
(* The answers of a round are looked at one after the other when all of    *)
(* them are there.  In the model each comes in when it is looked at; that  *)
(* tells only the order in which updateNode is called.                     *)
(***************************************************************************)
EXTENDS Integers, FiniteSets, FiniteSetsExt

CONSTANTS
  Ids,        \* node ids, as distances from the key
  Addresses,  \* pairs of host and port
  Contacts,   \* those that are in tables somewhere
  Owners,     \* possible values of owner
  Self,       \* our own id
  Here,       \* and address
  k,          \* how many of the closest are kept, and stored at
  a,          \* how many are asked at once
  None        \* nobody, nothing

ASSUME LookupAssumption ==
  /\ IsFiniteSet(Contacts)
  /\ Ids \subseteq Nat /\ Self \in Ids /\ Here \in Addresses /\ None \notin Ids
  /\ Contacts \subseteq [id : Ids, addr : Addresses]
  /\ Owners \subseteq [Addresses -> Ids \cup {None}]
  /\ k \in Nat \ {0} /\ a \in Nat \ {0}

VARIABLES
  owner,         \* owner[d]: the id of the node that is at address d
  holders,       \* nodes that have a value for the key
  nodes,         \* config.nodes: ids of known nodes
  pendingGETID,  \* updateNodePendingGETID
  getids,        \* GETIDs on their way
  mode,          \* "node", "value" or "store"
  phase,         \* "begin", "ask", "over" once a result cuts it short, "store", "done"
  queried,       \* contacts: who answered, and where it did last
  pending,       \* contacts still to be asked
  batch,         \* contacts of this round whose result was not looked at
  kclosest,      \* the closest contacts
  result,        \* "nodes" (those of kclosest), "exact", "value", "none", "stored", "error"
  heard,         \* history: contacts named in the answers
  answered,      \* history: addresses that answered
  failed         \* history: contacts of which a query failed

search == <<queried, pending, kclosest, heard, answered>>
membership == <<nodes, pendingGETID, getids>>
vars == <<owner, holders, membership, mode, phase, search, batch, result, failed>>

IdsOf(S) == {c.id : c \in S}

Init ==
  /\ owner \in Owners
  /\ holders \in SUBSET Ids
  /\ nodes \in {S \cup {Self} : S \in SUBSET Ids}
  /\ pendingGETID \in SUBSET (Ids \ nodes)
  /\ getids = {}
  /\ mode \in {"node", "value", "store"}
  /\ phase = "begin"
  /\ queried = {} /\ pending = {} /\ batch = {} /\ kclosest = {}
  /\ result = "none"
  /\ heard = {} /\ answered = {} /\ failed = {}

-----------------------------------------------------------------------------
(* What an answer changes.                                                 *)

\* Mutant of Closest: those kept already are not given up for closer ones.
ClosestKept(S) == {T \in kSubset(Min({k, Cardinality(S)}), S) : kclosest \cap S \subseteq T}

\* Sorting by distance and cutting after k, where ties may go either way.
Closest(S) ==
  {T \in kSubset(Min({k, Cardinality(S)}), S) : \A c \in T, e \in S \ T : c.id <= e.id}

\* Mutant of Noted: it is not noted who answered.
NotedNot(i, d) == queried

Noted(i, d) == {c \in queried : c.id # i} \cup {[id |-> i, addr |-> d]}

\* Mutant of Absorb: only those among the closest stay pending.
AbsorbClose(i, d, ans) ==
  LET new == {c \in ans : c.id \notin IdsOf(Noted(i, d))}
  IN /\ queried' = Noted(i, d)
     /\ kclosest' \in Closest(kclosest \cup ans)
     /\ pending' = ((pending \cup new) \ Noted(i, d)) \cap kclosest'
     /\ heard' = heard \cup ans
     /\ answered' = answered \cup {d}

\* _update_state for an answer with contacts that node i gave at address d.
\* (outstanding is empty when it is called.)
Absorb(i, d, ans) ==
  LET new == {c \in ans : c.id \notin IdsOf(Noted(i, d))}
  IN /\ queried' = Noted(i, d)
     /\ pending' = (pending \cup new) \ Noted(i, d)
     /\ kclosest' \in Closest(kclosest \cup ans)
     /\ heard' = heard \cup ans
     /\ answered' = answered \cup {d}

\* An answer that names one node, with the very id, is the result.
IsExact(ans) == mode # "value" /\ \E c \in ans : ans = {c} /\ c.id = 0

\* k_store goes on with the nodes it found.
EndWith(found, r) ==
  IF mode = "store" /\ found # {}
  THEN phase' = "store" /\ batch' = found /\ UNCHANGED result
  ELSE /\ phase' = "done" /\ batch' = {}
       /\ result' = IF mode = "store" THEN "error" ELSE r

\* addNode, for nodes whose keys have come.  What is known already stays as it is.
AddNodes(S) == nodes' = nodes \cup S

\* The first part of updateNode for node i, met at d: one that is not known is
\* asked for its key, unless it has been before.
Met(i, d) ==
  IF i \in nodes \cup pendingGETID THEN UNCHANGED <<pendingGETID, getids>>
  ELSE /\ pendingGETID' = pendingGETID \cup {i}
       /\ getids' = getids \cup {[id |-> i, addr |-> d]}

\* Mutant of MetNaming: the note that a node was asked for its key stays.
MetNamingNoted(i, d, named) ==
  LET asks == i \notin nodes \cup pendingGETID
  IN /\ AddNodes(named)
     /\ pendingGETID' = pendingGETID \cup IF asks THEN {i} ELSE {}
     /\ getids' = getids \cup IF asks THEN {[id |-> i, addr |-> d]} ELSE {}

\* updateNode, then updateNodes: who is named with a key is known.
MetNaming(i, d, named) ==
  LET asks == i \notin nodes \cup pendingGETID
  IN /\ AddNodes(named)
     /\ pendingGETID' = (pendingGETID \cup IF asks THEN {i} ELSE {}) \ named
     /\ getids' = getids \cup IF asks THEN {[id |-> i, addr |-> d]} ELSE {}

-----------------------------------------------------------------------------
(* The lookup.                                                             *)

\* What our own table names: contacts of known nodes.
OwnTable == {c \in Contacts : c.id \in nodes}

\* The own table is read first; it may name one node with the very id.
BeginNode ==
  /\ phase = "begin" /\ mode # "value"
  /\ \E ans \in SUBSET OwnTable :
       /\ Cardinality(ans) <= k
       /\ IF IsExact(ans)
          THEN /\ kclosest' = ans
               /\ heard' = ans
               /\ UNCHANGED <<queried, pending, answered>>
               /\ EndWith(ans, "exact")
          ELSE /\ Absorb(Self, Here, ans)
               /\ phase' = "ask"
               /\ UNCHANGED <<batch, result>>
  /\ UNCHANGED <<owner, holders, membership, mode, failed>>

\* k_find_value asks its own server.  Should that fail, so does the lookup.
BeginValue ==
  /\ phase = "begin" /\ mode = "value"
  /\ \/ /\ phase' = "done"
        /\ result' = "error"
        /\ UNCHANGED search
     \/ /\ Self \in holders
        /\ phase' = "done"
        /\ result' = "value"
        /\ UNCHANGED search
     \/ /\ Self \notin holders
        /\ \E ans \in SUBSET OwnTable : Cardinality(ans) <= k /\ Absorb(Self, Here, ans)
        /\ phase' = "ask"
        /\ UNCHANGED result
  /\ UNCHANGED <<owner, holders, membership, mode, batch, failed>>

\* The next round: the a closest that are pending.
NextRound ==
  /\ phase = "ask" /\ batch = {} /\ pending # {}
  /\ batch' \in {T \in kSubset(Min({a, Cardinality(pending)}), pending) :
                   \A c \in T, e \in pending \ T : c.id <= e.id}
  /\ pending' = pending \ batch'
  /\ UNCHANGED <<owner, holders, membership, mode, phase, queried, kclosest, heard, answered,
                 result, failed>>

\* The results of a round are looked at in the order of the queries.
First(c) == c \in batch /\ \A e \in batch : c.id <= e.id

\* Mutant of QueryFails: who does not answer stays among the closest.
QueryFailsKept(c) ==
  /\ phase = "ask" /\ First(c)
  /\ batch' = batch \ {c}
  /\ failed' = failed \cup {c}
  /\ UNCHANGED <<owner, holders, membership, mode, phase, search, result>>

\* Nobody is there, or MAXTIMEOUTS tries were in vain, or the answer was no good.
QueryFails(c) ==
  /\ phase = "ask" /\ First(c)
  /\ batch' = batch \ {c}
  /\ kclosest' = kclosest \ {c}
  /\ failed' = failed \cup {c}
  /\ UNCHANGED <<owner, holders, membership, mode, phase, queried, pending, heard, answered, result>>

HasValue(i) == mode = "value" /\ i \in holders

\* What a node may name: up to k contacts that are close, and one that is not.
Namings == {ans \in SUBSET Contacts : Cardinality(ans) <= k + 1}

\* A result ends the search.  The rest of the round has been waited for.
CutShort(r) == phase' = "over" /\ result' = r

\* Whoever is there names some.
Answers(c) ==
  LET d == c.addr
      i == owner[d]
  IN /\ phase = "ask" /\ First(c) /\ i # None /\ ~HasValue(i)
     /\ \E ans \in Namings :
          /\ MetNaming(i, d, IdsOf(ans))
          /\ IF IsExact(ans)
             THEN /\ kclosest' = ans
                  /\ heard' = heard \cup ans
                  /\ answered' = answered \cup {d}
                  /\ UNCHANGED <<queried, pending>>
                  /\ CutShort("exact")
             ELSE /\ Absorb(i, d, ans)
                  /\ UNCHANGED <<phase, result>>
     /\ batch' = batch \ {c}
     /\ UNCHANGED <<owner, holders, mode, failed>>

\* The first value that comes in is the result.
AnswersValue(c) ==
  /\ phase = "ask" /\ First(c) /\ owner[c.addr] # None /\ HasValue(owner[c.addr])
  /\ Met(owner[c.addr], c.addr)
  /\ CutShort("value")
  /\ batch' = batch \ {c}
  /\ answered' = answered \cup {c.addr}
  /\ UNCHANGED <<owner, holders, nodes, mode, queried, pending, kclosest, heard, failed>>

\* What the rest of that round answers is not looked at, but it was received: who
\* answered and who is named is met.
Unread(c) ==
  LET d == c.addr
      i == owner[d]
  IN /\ phase = "over" /\ First(c)
     /\ batch' = batch \ {c}
     /\ \/ UNCHANGED <<membership, heard, answered>>
        \/ /\ i # None /\ HasValue(i)
           /\ Met(i, d)
           /\ answered' = answered \cup {d}
           /\ UNCHANGED <<nodes, heard>>
        \/ /\ i # None /\ ~HasValue(i)
           /\ \E ans \in Namings : MetNaming(i, d, IdsOf(ans)) /\ heard' = heard \cup ans
           /\ answered' = answered \cup {d}
     /\ UNCHANGED <<owner, holders, mode, phase, queried, pending, kclosest, result, failed>>

Returned ==
  /\ phase = "over" /\ batch = {}
  /\ EndWith(kclosest, result)
  /\ UNCHANGED <<owner, holders, membership, mode, search, failed>>

\* Nothing is pending any more.
Exhausted ==
  /\ phase = "ask" /\ batch = {} /\ pending = {}
  /\ EndWith(kclosest, IF mode = "value" THEN "none" ELSE "nodes")
  /\ UNCHANGED <<owner, holders, membership, mode, search, failed>>

\* A node that takes a value for the key holds it from then on.
Takes(i) == holders' = holders \cup {i}

\* k_store sends the value to all at once and waits for all.  A node whose
\* answer is lost may have taken it.
StoreAt(c) ==
  /\ phase = "store" /\ c \in batch
  /\ batch' = batch \ {c}
  /\ \/ /\ owner[c.addr] # None
        /\ Takes(owner[c.addr])
        /\ UNCHANGED result
     \/ /\ result' = "error"
        /\ UNCHANGED holders \/ (owner[c.addr] # None /\ Takes(owner[c.addr]))
  /\ UNCHANGED <<owner, membership, mode, phase, search, failed>>

Stored ==
  /\ phase = "store" /\ batch = {}
  /\ phase' = "done"
  /\ result' = IF result = "error" THEN "error" ELSE "stored"
  /\ UNCHANGED <<owner, holders, membership, mode, search, batch, failed>>

-----------------------------------------------------------------------------
(* Beside the lookup.                                                      *)

\* The key comes, and with it the node is known.
GetidDone(g) ==
  /\ g \in getids /\ owner[g.addr] = g.id
  /\ getids' = getids \ {g}
  /\ pendingGETID' = pendingGETID \ {g.id}
  /\ AddNodes({g.id})
  /\ UNCHANGED <<owner, holders, mode, phase, search, batch, result, failed>>

\* It does not.  The note that it was asked for stays.
GetidFails(g) ==
  /\ g \in getids
  /\ getids' = getids \ {g}
  /\ UNCHANGED <<owner, holders, nodes, pendingGETID, mode, phase, search, batch, result, failed>>

Finished == phase = "done" /\ getids = {} /\ UNCHANGED vars

Step ==
  \/ BeginNode \/ BeginValue
  \/ NextRound \/ Exhausted
  \/ \E c \in Contacts : QueryFails(c) \/ Answers(c) \/ AnswersValue(c) \/ Unread(c) \/ StoreAt(c)
  \/ Returned \/ Stored

Next == Step \/ (\E g \in getids : GetidDone(g) \/ GetidFails(g)) \/ Finished

Spec == Init /\ [][Next]_vars

\* A query ends, with an answer or after its last timeout, and the loop goes on.
FairSpec == Spec /\ WF_vars(Step)

-----------------------------------------------------------------------------
(* Properties.                                                             *)

TypeOK ==
  /\ owner \in [Addresses -> Ids \cup {None}]
  /\ holders \subseteq Ids
  /\ nodes \subseteq Ids /\ pendingGETID \subseteq Ids
  /\ getids \subseteq [id : Ids, addr : Addresses]
  /\ mode \in {"node", "value", "store"}
  /\ phase \in {"begin", "ask", "over", "store", "done"}
  /\ queried \subseteq [id : Ids, addr : Addresses]
  /\ pending \subseteq Contacts /\ batch \subseteq Contacts /\ kclosest \subseteq Contacts
  /\ result \in {"nodes", "exact", "value", "none", "stored", "error"}
  /\ heard \subseteq Contacts /\ failed \subseteq Contacts
  /\ answered \subseteq Addresses

\* Every contact has its own node at its address, or nobody.
Honest == \A c \in Contacts : owner[c.addr] \in {c.id, None}

\* Although failed nodes are asked again when somebody names them, and every
\* node that was heard of is asked, a lookup ends.  Where a node has taken the
\* address of another it may not: who answers there is never noted under the
\* old id, so a table that names the old contact brings it back each time.
Ends == []Honest => <>(phase = "done")

\* What k_find_node returns has shown that it is alive, in this lookup: the node
\* has answered, or whoever is at the address has.
ResultAlive ==
  phase = "done" /\ result = "nodes" =>
    \A c \in kclosest : c.id \in IdsOf(queried) \/ c.addr \in answered

\* If no query failed these are the closest of all that the lookup has heard of.
\* (A failed one may have displaced a contact that is farther away.)
ResultClosest ==
  phase = "done" /\ result = "nodes" /\ failed = {} =>
    /\ Cardinality(kclosest) = Min({k, Cardinality(heard)})
    /\ \A c \in kclosest, e \in heard \ kclosest : c.id <= e.id

\* k_find_value returns nothing only if none of the nodes it heard of has a
\* value, but for those that failed to answer.
FoundIfHeld ==
  phase = "done" /\ result = "none" =>
    \A c \in heard : owner[c.addr] = c.id /\ c.id \in holders => c \in failed

\* Whoever answered or was named is known afterwards, or has been asked for its
\* key; and the node asks nobody for the key it knows already.
Introduced ==
  /\ phase # "begin" => IdsOf(queried \cup heard) \subseteq nodes \cup pendingGETID
  /\ pendingGETID \cap nodes = {}

=============================================================================
