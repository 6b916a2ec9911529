------------------------------ MODULE Membership ------------------------------
(***************************************************************************)
(* What a node knows of the others: updateNode of                          *)
(* src/flud/protocol/FludCommUtil.py, with the known nodes and the         *)
(* reputations of src/flud/FludConfig.py and the replacement cache of      *)
(* src/flud/FludkRouting.py, over the routing table of KBuckets.           *)
(*                                                                         *)
(* The runtime thread sends requests and GETIDs, the server thread answers *)
(* requests; both call updateNode, without a lock.  A step of a thread     *)
(* ends where another one may see or undo what it has read: after the look *)
(* at the pending GETIDs, after the look at the known nodes, and after     *)
(* every frame of insertNode.                                              *)
(*                                                                         *)
(* Of a reputation only its existence is modelled, of the cache its        *)
(* contents: which of them is the oldest makes no difference to anything   *)
(* said here.                                                              *)
(***************************************************************************)
EXTENDS KBuckets

CONSTANTS
  Runtime,     \* the runtime thread, one of Callers
  Visitors,    \* contacts of nodes that send us requests
  Peers,       \* contacts that the runtime thread sees together with their keys
  Named,       \* contacts of which it learns the id only
  Located,     \* ids of nodes that a block is looked for at
  CacheSize    \* how many contacts the replacement cache holds (300)

ASSUME MembershipAssumption ==
  /\ Runtime \in Callers
  /\ Visitors \subseteq Seen /\ Peers \subseteq Seen /\ Named \subseteq Seen
  /\ Located \subseteq Ids
  /\ CacheSize \in Nat \ {0}

VARIABLES
  nodes,         \* config.nodes: ids of the known nodes
  pendingGETID,  \* updateNodePendingGETID: ids that were asked for their keys
  getids,        \* contacts with a GETID on its way
  keys,          \* answers to GETIDs: the contact asked, the id of the key that came
  rated,         \* config.reputations: ids that have one
  cache,         \* replacementCache
  at,            \* at[t]: where in updateNode thread t is
  who,           \* who[t]: for which contact, or NoContact
  met,           \* history: ids whose key came to updateNode
  disputed,      \* history: ids asked for their key where the key of another came
  strangers,     \* history: rated before addNode has rated them
  evicted,       \* history: dropped from the cache
  untold         \* history: refused by the table, where addNode was told None

membership == <<nodes, pendingGETID, getids, keys>>
history == <<met, disputed, strangers, evicted, untold>>
memberVars == <<vars, membership, rated, cache, at, who, history>>

IdsOf(S) == {m.id : m \in S}

MembershipInit ==
  /\ Init
  /\ nodes = {} /\ pendingGETID = {} /\ getids = {} /\ keys = {}
  /\ rated = {} /\ cache = {}
  /\ at = [t \in Callers |-> "idle"]
  /\ who = [t \in Callers |-> NoContact]
  /\ met = {} /\ disputed = {} /\ strangers = {} /\ evicted = {} /\ untold = {}

-----------------------------------------------------------------------------
(* What others ask of the table.                                           *)

\* kRouting.getNode: the bucket of the id, then the cache; NoContact is None.
GetNode(i) ==
  LET found == {m \in contents[FindBucket(i)] : m.id = i}
      cached == {m \in cache : m.id = i}
  IN IF found # {} THEN CHOOSE m \in found : TRUE
     ELSE IF cached # {} THEN CHOOSE m \in cached : TRUE
     ELSE NoContact

\* Mutant of CacheInsert: a full cache takes no other contact.
CacheInsertFull(n) ==
  /\ cache' = IF Cardinality(cache) < CacheSize THEN cache \cup {n} ELSE cache
  /\ UNCHANGED evicted

\* NodeCache.insertNode: a cached id stays as it is, a full cache drops one.
CacheInsert(n) ==
  IF n.id \in IdsOf(cache) THEN UNCHANGED <<cache, evicted>>
  ELSE IF Cardinality(cache) < CacheSize
       THEN cache' = cache \cup {n} /\ UNCHANGED evicted
       ELSE \E m \in cache : /\ cache' = (cache \ {m}) \cup {n}
                             /\ evicted' = evicted \cup {m.id}

-----------------------------------------------------------------------------
(* updateNode.                                                             *)

Goto(t, l) == at' = [at EXCEPT ![t] = l]

Leave(t) == Goto(t, "idle") /\ who' = [who EXCEPT ![t] = NoContact]

\* updateNode with the key of n, given the id too or not: a pending GETID is
\* looked for under the id that was given.
Begin(t, n, given) ==
  /\ at[t] = "idle"
  /\ who' = [who EXCEPT ![t] = n]
  /\ Goto(t, IF given /\ n.id \in pendingGETID THEN "unpend" ELSE "check")
  /\ met' = met \cup {n.id}

\* A request of a node comes to the server, with its id and key.
Visit(t, n) ==
  /\ t # Runtime /\ n \in Visitors
  /\ Begin(t, n, TRUE)
  /\ UNCHANGED <<vars, membership, rated, cache, disputed, strangers, evicted, untold>>

\* A node was sent a request, or was named with its key in an answer.
Meet(n) ==
  /\ n \in Peers
  /\ \E given \in BOOLEAN : Begin(Runtime, n, given)
  /\ UNCHANGED <<vars, membership, rated, cache, disputed, strangers, evicted, untold>>

\* An answer has shown an id, but no key: it is that of a known node, or was
\* asked for before, or is asked for now.
Hear(n) ==
  /\ n \in Named /\ at[Runtime] = "idle"
  /\ \/ /\ n.id \in nodes
        /\ Begin(Runtime, n, TRUE)
        /\ UNCHANGED <<pendingGETID, getids>>
     \/ /\ n.id \notin nodes \cup pendingGETID
        /\ pendingGETID' = pendingGETID \cup {n.id}
        /\ getids' = getids \cup {n}
        /\ UNCHANGED <<at, who, met>>
  /\ UNCHANGED <<vars, nodes, keys, rated, cache, disputed, strangers, evicted, untold>>

\* _send_get_id: the key of whoever is there, who is met before the callback runs.
GetidAnswers(n, m) ==
  /\ n \in getids /\ m \in Seen /\ m.addr = n.addr
  /\ getids' = getids \ {n}
  /\ keys' = keys \cup {[of |-> n, id |-> m.id]}
  /\ Begin(Runtime, m, FALSE)
  /\ UNCHANGED <<vars, nodes, pendingGETID, rated, cache, disputed, strangers, evicted, untold>>

\* The note that the node was asked stays.
GetidFails(n) ==
  /\ n \in getids /\ at[Runtime] = "idle"
  /\ getids' = getids \ {n}
  /\ UNCHANGED <<vars, nodes, pendingGETID, keys, rated, cache, at, who, history>>

\* _handle_get_id: updateNode with the key that came and the id that was asked.
Callback(e) ==
  /\ e \in keys /\ at[Runtime] = "idle"
  /\ keys' = keys \ {e}
  /\ IF e.id = e.of.id
     THEN Begin(Runtime, e.of, TRUE) /\ UNCHANGED disputed
     ELSE /\ disputed' = disputed \cup {e.of.id}
          /\ who' = [who EXCEPT ![Runtime] = e.of]
          /\ Goto(Runtime, "expose")
          /\ UNCHANGED met
  /\ UNCHANGED <<vars, nodes, pendingGETID, getids, rated, cache, strangers, evicted, untold>>

\* Mutant of Unpend: after the deletion there is nothing left to do.
UnpendReturns(t) ==
  /\ at[t] = "unpend"
  /\ pendingGETID' = pendingGETID \ {who[t].id}
  /\ Leave(t)
  /\ UNCHANGED <<vars, nodes, getids, keys, rated, cache, history>>

\* The deletion of the note raises KeyError if another thread was first.
Unpend(t) ==
  /\ at[t] = "unpend"
  /\ pendingGETID' = pendingGETID \ {who[t].id}
  /\ IF who[t].id \in pendingGETID THEN Goto(t, "check") /\ UNCHANGED who ELSE Leave(t)
  /\ UNCHANGED <<vars, nodes, getids, keys, rated, cache, history>>

\* With the key of another node the note is deleted, then ValueError is raised.
Expose(t) ==
  /\ at[t] = "expose"
  /\ pendingGETID' = pendingGETID \ {who[t].id}
  /\ Leave(t)
  /\ UNCHANGED <<vars, nodes, getids, keys, rated, cache, history>>

\* A known node is updated in the table, an unknown one is added (updateNode and
\* addNode both look).
Check(t) ==
  /\ at[t] = "check"
  /\ IF who[t].id \in nodes
     THEN Goto(t, "refresh") /\ Call(t, who[t])
     ELSE Goto(t, "add") /\ UNCHANGED vars
  /\ UNCHANGED <<membership, rated, cache, who, history>>

\* addNode, up to insertNode.
Add(t) ==
  /\ at[t] = "add"
  /\ nodes' = nodes \cup {who[t].id}
  /\ Call(t, who[t])
  /\ Goto(t, "insert")
  /\ UNCHANGED <<pendingGETID, getids, keys, rated, cache, who, history>>

\* Mutant of Conclude: every new contact is cached.
ConcludeAlways(t) ==
  /\ at[t] = "insert" /\ todo[t] = NoContact
  /\ CacheInsert(who[t])
  /\ rated' = rated \cup {who[t].id}
  /\ strangers' = strangers \ {who[t].id}
  /\ Call(t, who[t])
  /\ Goto(t, "refresh")
  /\ UNCHANGED <<membership, who, met, disputed, untold>>

\* addNode, from insertNode on, and the call of routing.updateNode that follows:
\* only a contact that the table returned another one for is cached.
Conclude(t) ==
  /\ at[t] = "insert" /\ todo[t] = NoContact
  /\ IF answer[t] = "oldest" THEN CacheInsert(who[t]) ELSE UNCHANGED <<cache, evicted>>
  /\ rated' = rated \cup {who[t].id}
  /\ strangers' = strangers \ {who[t].id}
  /\ Call(t, who[t])
  /\ Goto(t, "refresh")
  /\ UNCHANGED <<membership, who, met, disputed, untold>>

-----------------------------------------------------------------------------
(* Frames of insertNode, called by addNode or routing.updateNode; what the *)
(* latter returns is lost.                                                 *)

Returned(t) == IF at[t] = "refresh" THEN Leave(t) ELSE UNCHANGED <<at, who>>

\* A contact that is in its bucket leaves the cache.
InsertFrame(t) ==
  /\ Insert(t)
  /\ cache' = {m \in cache : m.id # todo[t].id}
  /\ Returned(t)
  /\ UNCHANGED <<membership, rated, history>>

SplitFrame(t) ==
  /\ Split(t)
  /\ UNCHANGED <<membership, rated, cache, at, who, history>>

RefuseFrame(t) ==
  /\ Refuse(t)
  /\ untold' = untold \cup IF nested[t] /\ at[t] = "insert" THEN {todo[t].id} ELSE {}
  /\ Returned(t)
  /\ UNCHANGED <<membership, rated, cache, met, disputed, strangers, evicted>>

\* A node that should have a block is not found, or fails to give it, or gives it:
\* modifyReputation, whether the node is known or not.
ModifyReputation(i) ==
  /\ i \in Located /\ at[Runtime] = "idle"
  /\ rated' = rated \cup {i}
  /\ strangers' = strangers \cup ({i} \ rated)
  /\ UNCHANGED <<vars, membership, cache, at, who, met, disputed, evicted, untold>>

MembershipNext ==
  \/ \E t \in Callers : \/ \E n \in Visitors : Visit(t, n)
                        \/ Unpend(t) \/ Expose(t) \/ Check(t) \/ Add(t) \/ Conclude(t)
                        \/ InsertFrame(t) \/ SplitFrame(t) \/ RefuseFrame(t)
  \/ \E n \in Peers : Meet(n)
  \/ \E n \in Named : Hear(n)
  \/ \E n \in getids : GetidFails(n) \/ \E m \in Seen : GetidAnswers(n, m)
  \/ \E e \in keys : Callback(e)
  \/ \E i \in Located : ModifyReputation(i)

MembershipSpec == MembershipInit /\ [][MembershipNext]_memberVars

-----------------------------------------------------------------------------
(* Properties.                                                             *)

\* Type invariant.
MembershipTypeOK ==
  /\ nodes \subseteq Ids /\ pendingGETID \subseteq Ids /\ rated \subseteq Ids
  /\ getids \subseteq Contact /\ cache \subseteq Contact
  /\ keys \subseteq [of : Contact, id : Ids]
  /\ at \in [Callers -> {"idle", "unpend", "expose", "check", "add", "insert", "refresh"}]
  /\ who \in [Callers -> Contact \cup {NoContact}]
  /\ met \subseteq Ids /\ disputed \subseteq Ids
  /\ strangers \subseteq Ids /\ evicted \subseteq Ids /\ untold \subseteq Ids

\* Every rated node can be looked up when getPreferredNodes ranks it, so that a
\* store does not draw None for a node.  The exceptions are the ways in which the
\* code loses contacts: a node that was only ever looked for and not met, one that
\* the cache has dropped, and one that insertNode refused after a split, in which
\* case addNode gets None and does not cache it.
RatedResolve ==
  \A i \in rated : GetNode(i) = NoContact => i \in strangers \cup evicted \cup untold

\* A contact waits in the replacement cache only while its own bucket is full and
\* will not be split: nothing is kept aside that the table had room for.
CachedHasNoRoom ==
  \A m \in cache : Full(FindBucket(m.id)) /\ ~HoldsLocal(FindBucket(m.id))

\* Ids whose updateNode has passed the note of the pending GETID.
Coming == {who[t].id : t \in {u \in Callers : at[u] \in {"check", "add"}}}

\* A node whose key we have seen is known, whatever two threads do to the note
\* of its pending GETID: who comes too late to delete it gives up, but then the
\* other goes on.  Only where the other deletes it because the key of somebody
\* else came for that id is the node lost.
MetIsKnown ==
  \A i \in met : \/ i \in nodes \cup Coming \cup disputed
                 \/ \E t \in Callers : at[t] = "unpend" /\ who[t].id = i
=============================================================================
