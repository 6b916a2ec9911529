----------------------------- MODULE FileStore -----------------------------
(***************************************************************************)
(* How flud stores a file: the class StoreFile of                          *)
(* src/flud/FludFileOperations.py.                                         *)
(*                                                                         *)
(* A store encrypts and codes its file into blocks and asks the DHT for    *)
(* metadata under the hash of the content.  If there is none it stores the *)
(* blocks, each at a node of its choice, and then the metadata, which says *)
(* where they are.  If there is, it only attaches its own file metadata to *)
(* the blocks that are stored already.  A store of a content that another  *)
(* store is busy with, by the map currentOps, shares the answer of the DHT *)
(* and attaches too.                                                       *)
(*                                                                         *)
(* All stores of a node run on one event loop: an action is what happens   *)
(* from one await to the next.  Each store encrypts with a random          *)
(* initialisation vector, so its blocks are its own, and the comparison of *)
(* local with stored block names always fails: block i of store r is       *)
(* <<r, i>>, and the branch for equal names, _verifyAndStoreBlocksAsync    *)
(* with noopVerify off, is left out.                                       *)
(***************************************************************************)
EXTENDS Integers, FiniteSets, FiniteSetsExt

CONSTANTS
  Stores,    \* the calls of store_file, each made at most once
  Paths,     \* names of files
  Contents,  \* contents, by their hash
  Blocks,    \* numbers of the coded blocks (code_m of them)
  Nodes,     \* the nodes this one knows
  Ask,       \* how many nodes are asked for when none are left (code_k)
  None       \* no entry, no node, no metadata

ASSUME FileStoreAssumption ==
  /\ IsFiniteSet(Nodes) /\ Ask \in Nat \ {0}
  /\ None \notin Contents /\ None \notin Nodes
  /\ None \notin [task : Stores, count : Nat]

Metadata == [content : Contents, by : Stores, at : [Blocks -> Nodes]]

VARIABLES
  want,         \* want[r]: path and content of the file r stores
  phase,        \* phase[r]: where r stands
  currentOps,   \* currentOps[c]: the store whose query is shared, and a count of users
  query,        \* query[r]: how r's DHT query ended
  meta,         \* meta[r]: what it found
  leader,       \* leader[r]: the store whose query r awaits
  nodeChoices,  \* nodeChoices[r]: nodes r has not tried
  usedNodes,    \* usedNodes[r]: nodes that stored a block of r, or failed for good
  block,        \* block[r][i]: how far block i is
  at,           \* at[r][i]: the node it is sent to
  cleared,      \* cleared[r]: r has forgotten the names it has no files for
  shares,       \* history: <<n, s, i, r>>: node n has block i of s with metadata of r
  published,    \* the metadata in the DHT
  manifest      \* manifest[p]: the content listed under p

entry == <<want, currentOps>>
network == <<shares, published>>
asked == <<query, meta, leader>>
sent == <<nodeChoices, usedNodes, block, at, cleared>>
vars == <<entry, phase, asked, sent, network, manifest>>

Settled == {"stored", "skipped", "failed"}
AllSettled(r) == \A i \in Blocks : block[r][i] \in Settled
Content(r) == want[r].content

Init ==
  /\ want \in [Stores -> [path : Paths, content : Contents]]
  /\ phase = [r \in Stores |-> "new"]
  /\ currentOps = [c \in Contents |-> None]
  /\ query = [r \in Stores |-> "none"]
  /\ meta = [r \in Stores |-> None]
  /\ leader = [r \in Stores |-> r]
  /\ nodeChoices = [r \in Stores |-> {}]
  /\ usedNodes = [r \in Stores |-> {}]
  /\ block = [r \in Stores |-> [i \in Blocks |-> "todo"]]
  /\ at = [r \in Stores |-> [i \in Blocks |-> None]]
  /\ cleared = [r \in Stores |-> FALSE]
  /\ shares = {}
  /\ published = {}
  /\ manifest = [p \in Paths |-> None]

-----------------------------------------------------------------------------
(* currentOps.                                                             *)

\* n users go; nothing happens to an entry that is gone.
Dropped(c, n) ==
  LET e == currentOps[c]
  IN [currentOps EXCEPT ![c] = IF e = None \/ e.count <= n THEN None
                               ELSE [task |-> e.task, count |-> e.count - n]]

\* Mutant of Joined: the user who joins is not counted.
JoinedUncounted(c) == currentOps

\* One more user.
Joined(c) ==
  LET e == currentOps[c] IN [currentOps EXCEPT ![c] = [task |-> e.task, count |-> e.count + 1]]

\* run, up to its first await.
Begin(r) ==
  LET c == Content(r)
      join == currentOps[c] # None
  IN /\ phase[r] = "new"
     /\ nodeChoices' = [nodeChoices EXCEPT ![r] = Nodes]
     /\ IF join
        THEN /\ currentOps' = Joined(c)
             /\ leader' = [leader EXCEPT ![r] = currentOps[c].task]
             /\ phase' = [phase EXCEPT ![r] = "joined"]
             /\ UNCHANGED query
        ELSE /\ currentOps' = [currentOps EXCEPT ![c] = [task |-> r, count |-> 1]]
             /\ query' = [query EXCEPT ![r] = "asked"]
             /\ phase' = [phase EXCEPT ![r] = "query"]
             /\ UNCHANGED leader
     /\ UNCHANGED <<want, meta, usedNodes, block, at, cleared, network, manifest>>

\* k_find_value ends.  It may miss metadata that exists.
Answer(r) ==
  /\ query[r] = "asked"
  /\ \/ \E m \in published : /\ m.content = Content(r)
                             /\ query' = [query EXCEPT ![r] = "found"]
                             /\ meta' = [meta EXCEPT ![r] = m]
     \/ \E q \in {"absent", "failed"} : query' = [query EXCEPT ![r] = q] /\ UNCHANGED meta
  /\ UNCHANGED <<entry, phase, leader, sent, network, manifest>>

\* The store that asked goes on.
Resume(r) ==
  /\ phase[r] = "query" /\ query[r] # "asked"
  /\ phase' = [phase EXCEPT ![r] = CASE query[r] = "failed" -> "failed"
                                     [] query[r] = "absent" -> "store"
                                     [] query[r] = "found" -> "attach"]
  /\ currentOps' = IF query[r] = "failed" THEN Dropped(Content(r), 1) ELSE currentOps
  /\ UNCHANGED <<want, asked, sent, network, manifest>>

\* So does one that shares the query.  It needs metadata: without, it raises,
\* and the entry keeps its count.
ResumeJoined(r) ==
  LET l == leader[r]
  IN /\ phase[r] = "joined" /\ query[l] # "asked"
     /\ phase' = [phase EXCEPT ![r] = IF query[l] = "found" THEN "verify" ELSE "failed"]
     /\ meta' = [meta EXCEPT ![r] = meta[l]]
     /\ UNCHANGED <<entry, query, leader, sent, network, manifest>>

\* The store has ended: what only it refers to is forgotten.
Gone(r) ==
  /\ nodeChoices' = [nodeChoices EXCEPT ![r] = {}]
  /\ usedNodes' = [usedNodes EXCEPT ![r] = {}]
  /\ at' = [at EXCEPT ![r] = [i \in Blocks |-> None]]
  /\ UNCHANGED <<block, cleared>>

\* Mutant of UpdateMaster: the user is not counted out.
UpdateMasterKeep(r) ==
  /\ manifest' = [manifest EXCEPT ![want[r].path] = Content(r)]
  /\ phase' = [phase EXCEPT ![r] = "done"]
  /\ Gone(r)
  /\ UNCHANGED currentOps

\* _updateMaster: the manifest lists the file, the user is counted out.
UpdateMaster(r) ==
  /\ manifest' = [manifest EXCEPT ![want[r].path] = Content(r)]
  /\ currentOps' = Dropped(Content(r), 1)
  /\ phase' = [phase EXCEPT ![r] = "done"]
  /\ Gone(r)

\* It raises over a file it cannot remove, or when the entry is made already: over a
\* directory that is gone, or a file it cannot write.  The user stays counted.
UpdateMasterFails(r) ==
  /\ manifest' \in {manifest, [manifest EXCEPT ![want[r].path] = Content(r)]}
  /\ phase' = [phase EXCEPT ![r] = "failed"]
  /\ Gone(r)
  /\ UNCHANGED currentOps

Ends(r) == UpdateMaster(r) \/ UpdateMasterFails(r)

-----------------------------------------------------------------------------
(* Storing blocks.                                                         *)

\* What getPreferredNodes(Ask, exclude) may return: it falls back on excluded
\* nodes only where at least Ask nodes are known.
PreferredNodes(exclude) ==
  LET rest == Nodes \ exclude
      missing == Ask - Cardinality(rest)
  IN IF missing <= 0 THEN kSubset(Ask, rest)
     ELSE IF Cardinality(Nodes) < Ask THEN {rest}
     ELSE {rest \cup more : more \in kSubset(missing, exclude)}

\* A node picked from choices, or from nodes asked for, and what is left.
\* There is none if no nodes are returned.
Picks(choices, used) ==
  UNION {{[node |-> n, left |-> pool \ {n}] : n \in pool} :
           pool \in IF choices = {} THEN PreferredNodes(used) ELSE {choices}}

BlockGoes(r, i, to) == block' = [block EXCEPT ![r][i] = to]

SendTo(r, i, pick, try) ==
  /\ nodeChoices' = [nodeChoices EXCEPT ![r] = pick.left]
  /\ at' = [at EXCEPT ![r][i] = pick.node]
  /\ BlockGoes(r, i, try)

\* _storeBlockAsync, up to its await.  Its caller does not catch "0 nodes".
StoreBlock(r, i) ==
  LET picks == Picks(nodeChoices[r], usedNodes[r])
  IN /\ phase[r] = "store" /\ block[r][i] = "todo"
     /\ \/ \E pick \in picks : SendTo(r, i, pick, "first")
        \/ picks = {} /\ BlockGoes(r, i, "failed") /\ UNCHANGED <<nodeChoices, at>>
     /\ UNCHANGED <<entry, phase, asked, usedNodes, cleared, network, manifest>>

BlockStored(r, i) ==
  /\ phase[r] = "store" /\ block[r][i] \in {"first", "second"}
  /\ BlockGoes(r, i, "stored")
  /\ usedNodes' = [usedNodes EXCEPT ![r] = @ \cup {at[r][i]}]
  /\ shares' = shares \cup {<<at[r][i], r, i, r>>}
  /\ UNCHANGED <<entry, phase, asked, nodeChoices, at, cleared, published, manifest>>

\* The first node fails, and another one is tried.
RetryStoreBlock(r, i) ==
  LET picks == Picks(nodeChoices[r], usedNodes[r])
  IN /\ phase[r] = "store" /\ block[r][i] = "first"
     /\ \/ \E pick \in picks : SendTo(r, i, pick, "second") /\ UNCHANGED currentOps
        \/ /\ picks = {}
           /\ BlockGoes(r, i, "failed")
           /\ currentOps' = Dropped(Content(r), 1)
           /\ UNCHANGED <<nodeChoices, at>>
     /\ UNCHANGED <<want, phase, asked, usedNodes, cleared, network, manifest>>

\* The second fails too: both levels of _retryStoreBlockAsync count the user out.
GiveUpBlock(r, i) ==
  /\ phase[r] = "store" /\ block[r][i] = "second"
  /\ BlockGoes(r, i, "failed")
  /\ usedNodes' = [usedNodes EXCEPT ![r] = @ \cup {at[r][i]}]
  /\ currentOps' = Dropped(Content(r), 2)
  /\ UNCHANGED <<want, phase, asked, nodeChoices, at, cleared, network, manifest>>

AllStored(r) == \A i \in Blocks : block[r][i] = "stored"

\* gather raises the first exception once all blocks have settled.
StoreFails(r) ==
  /\ phase[r] = "store" /\ AllSettled(r) /\ ~AllStored(r)
  /\ phase' = [phase EXCEPT ![r] = "failed"]
  /\ Gone(r)
  /\ UNCHANGED <<entry, asked, network, manifest>>

\* Mutant of MayPublish: exceptions of gather are not looked at.
MayPublishAnyway(r) == AllSettled(r) /\ \A i \in Blocks : at[r][i] # None

MayPublish(r) == AllStored(r)

\* k_store reaches the nodes of the key.
Publish(r) ==
  /\ phase[r] = "store" /\ MayPublish(r)
  /\ published' = published \cup {[content |-> Content(r), by |-> r, at |-> at[r]]}
  /\ phase' = [phase EXCEPT ![r] = "publish"]
  /\ UNCHANGED <<entry, asked, sent, shares, manifest>>

Published(r) ==
  /\ phase[r] = "publish"
  /\ Ends(r)
  /\ UNCHANGED <<want, asked, network>>

\* Mutant of PublishFails: its error is not raised.
PublishFailsUnseen(r) ==
  /\ phase[r] = "store" /\ AllStored(r)
  /\ phase' = [phase EXCEPT ![r] = "publish"]
  /\ UNCHANGED <<entry, asked, sent, network, manifest>>

\* It fails at all of them, or at some.  Nothing is counted out.
PublishFails(r) ==
  /\ \/ phase[r] = "store" /\ AllStored(r)
     \/ phase[r] = "publish"
  /\ phase' = [phase EXCEPT ![r] = "failed"]
  /\ Gone(r)
  /\ UNCHANGED <<entry, asked, network, manifest>>

-----------------------------------------------------------------------------
(* Attaching metadata to blocks that are stored already.                   *)

Place(m, i) == m.at[i]
Held(m, i) == <<Place(m, i), m.by, i, m.by>> \in shares

\* VERIFY succeeds, and the node takes the metadata.
Attached(r, i) ==
  /\ Held(meta[r], i)
  /\ BlockGoes(r, i, "stored")
  /\ shares' = shares \cup {<<Place(meta[r], i), meta[r].by, i, r>>}

\* _attachMetadataChain: an error is logged.
Attach(r, i) ==
  /\ phase[r] = "attach" /\ block[r][i] = "todo"
  /\ \/ Attached(r, i)
     \/ BlockGoes(r, i, "skipped") /\ UNCHANGED shares
  /\ UNCHANGED <<entry, phase, asked, nodeChoices, usedNodes, at, cleared, published, manifest>>

AttachEnds(r) ==
  /\ phase[r] = "attach" /\ AllSettled(r)
  /\ Ends(r)
  /\ UNCHANGED <<want, asked, network>>

\* _verifyBlockChain, for a store that joined another.
\* The node of the block is not found, by an error, or because another answers.
NotFound(r, i) ==
  /\ phase[r] = "verify" /\ block[r][i] = "todo"
  /\ BlockGoes(r, i, "failed")
  /\ \E n \in {0, 1} : currentOps' = Dropped(Content(r), n)
  /\ UNCHANGED <<want, phase, asked, nodeChoices, usedNodes, at, cleared, network, manifest>>

Verified(r, i) ==
  /\ phase[r] = "verify" /\ block[r][i] = "todo"
  /\ Attached(r, i)
  /\ cleared' = [cleared EXCEPT ![r] = TRUE]
  /\ UNCHANGED <<entry, phase, asked, nodeChoices, usedNodes, at, published, manifest>>

\* VERIFY fails, and the block is stored from a file that does not exist: the
\* two tries fail at once.
NotVerified(r, i) ==
  LET first == Picks(nodeChoices[r], usedNodes[r])
      second(p) == Picks(p.left, usedNodes[r])
  IN /\ phase[r] = "verify" /\ block[r][i] = "todo"
     /\ BlockGoes(r, i, "failed")
     /\ cleared' = [cleared EXCEPT ![r] = TRUE]
     /\ \/ first = {} /\ UNCHANGED <<currentOps, nodeChoices, usedNodes>>
        \/ \E p \in first : /\ second(p) = {}
                            /\ currentOps' = Dropped(Content(r), 1)
                            /\ nodeChoices' = [nodeChoices EXCEPT ![r] = {}]
                            /\ UNCHANGED usedNodes
        \/ \E p \in first : \E q \in second(p) :
             /\ currentOps' = Dropped(Content(r), 2)
             /\ nodeChoices' = [nodeChoices EXCEPT ![r] = q.left]
             /\ usedNodes' = [usedNodes EXCEPT ![r] = @ \cup {q.node}]
     /\ UNCHANGED <<want, phase, asked, at, network, manifest>>

\* If no chain got as far as a VERIFY, _updateMaster stumbles over the files
\* that do not exist.
VerifyEnds(r) ==
  /\ phase[r] = "verify" /\ AllSettled(r)
  /\ IF cleared[r] THEN Ends(r)
     ELSE /\ phase' = [phase EXCEPT ![r] = "failed"]
          /\ Gone(r)
          /\ UNCHANGED <<currentOps, manifest>>
  /\ UNCHANGED <<want, asked, network>>

-----------------------------------------------------------------------------
BlockWork(r, i) ==
  \/ StoreBlock(r, i) \/ BlockStored(r, i) \/ RetryStoreBlock(r, i) \/ GiveUpBlock(r, i)
  \/ Attach(r, i) \/ NotFound(r, i) \/ Verified(r, i) \/ NotVerified(r, i)

Work(r) ==
  \/ Answer(r) \/ Resume(r) \/ ResumeJoined(r)
  \/ \E i \in Blocks : BlockWork(r, i)
  \/ StoreFails(r) \/ Publish(r) \/ Published(r) \/ PublishFails(r)
  \/ AttachEnds(r) \/ VerifyEnds(r)

\* Nothing is left to do.  Each other step takes its store further, so that a
\* run without deadlock shows that every store ends.
Finished ==
  /\ \A r \in Stores : phase[r] \in {"done", "failed"}
  /\ UNCHANGED vars

Next == (\E r \in Stores : Begin(r) \/ Work(r)) \/ Finished

Spec == Init /\ [][Next]_vars

-----------------------------------------------------------------------------
(* Properties.                                                             *)

Phases == {"new", "query", "joined", "store", "publish", "attach", "verify", "done", "failed"}
Running(r) == phase[r] \notin {"new", "done", "failed"}

TypeOK ==
  /\ want \in [Stores -> [path : Paths, content : Contents]]
  /\ phase \in [Stores -> Phases]
  /\ currentOps \in [Contents -> [task : Stores, count : Nat \ {0}] \cup {None}]
  /\ query \in [Stores -> {"none", "asked", "found", "absent", "failed"}]
  /\ meta \in [Stores -> Metadata \cup {None}]
  /\ leader \in [Stores -> Stores]
  /\ nodeChoices \in [Stores -> SUBSET Nodes]
  /\ usedNodes \in [Stores -> SUBSET Nodes]
  /\ block \in [Stores -> [Blocks -> {"todo", "first", "second"} \cup Settled]]
  /\ at \in [Stores -> [Blocks -> Nodes \cup {None}]]
  /\ cleared \in [Stores -> BOOLEAN]
  /\ shares \subseteq Nodes \X Stores \X Blocks \X Stores
  /\ published \subseteq Metadata
  /\ manifest \in [Paths -> Contents \cup {None}]

\* Metadata in the DHT leads to blocks: each node it names has acknowledged the
\* block, with the storing file's own metadata, whatever failed on the way.
PublishedHeld == \A m \in published : \A i \in Blocks : Held(m, i)

\* A file in the manifest can be looked up: metadata for its content was
\* published, by this store or by the one whose query it shared.
ListedPublished ==
  \A p \in Paths : manifest[p] # None => \E m \in published : m.content = manifest[p]

UsersOf(c) == {r \in Stores : Content(r) = c /\ Running(r)}
FailedOf(c) == {r \in Stores : Content(r) = c /\ phase[r] = "failed"}
Count(c) == IF currentOps[c] = None THEN 0 ELSE currentOps[c].count

\* An entry of currentOps outlives the stores it counts only through those
\* that failed: no way to succeed leaves one behind.
EntryHasUsers == \A c \in Contents : Count(c) <= Cardinality(UsersOf(c) \cup FailedOf(c))

\* While no block and no store of a content has failed, its entry counts the
\* stores that are busy with it: it is there until the last one ends.
CountsUsers ==
  \A c \in Contents :
    (\A r \in Stores : Content(r) = c => /\ phase[r] # "failed"
                                         /\ \A i \in Blocks : block[r][i] # "failed")
      => Count(c) = Cardinality(UsersOf(c))

=============================================================================
