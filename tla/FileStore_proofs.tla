--------------------------- MODULE FileStore_proofs ---------------------------
(***************************************************************************)
(* What TLAPS proves about FileStore, for any stores, paths, contents and  *)
(* blocks, and any finite set of nodes.                                    *)
(***************************************************************************)
EXTENDS FileStore, FiniteSetTheorems, TLAPS

\* No block is sent before the query is answered.
Early ==
  \A r \in Stores :
    /\ phase[r] = "query" => query[r] # "none"
    /\ \A i \in Blocks : phase[r] \in {"new", "query", "joined"} => block[r][i] = "todo"

\* A block on its way has a node, and one that is stored has its acknowledgement.
Sent ==
  \A r \in Stores : \A i \in Blocks :
    /\ phase[r] = "store" /\ block[r][i] \in {"first", "second", "stored"} => at[r][i] \in Nodes
    /\ phase[r] = "store" /\ block[r][i] = "stored" => <<at[r][i], r, i, r>> \in shares

\* A store shares the query of one for the same content.
SameContent ==
  /\ \A c \in Contents : currentOps[c] # None => Content(currentOps[c].task) = c
  /\ \A r \in Stores : phase[r] = "joined" => Content(leader[r]) = Content(r)

Findable(r) == \E m \in published : m.content = Content(r)

\* Whoever is past the query or the publication has metadata in the DHT.
Found ==
  \A r \in Stores :
    query[r] = "found" \/ phase[r] \in {"publish", "attach", "verify"} => Findable(r)

IInv ==
  /\ TypeOK /\ Early /\ Sent /\ SameContent /\ Found
  /\ PublishedHeld /\ ListedPublished

-----------------------------------------------------------------------------
(* What the helpers return.                                                *)

LEMMA PicksType ==
  ASSUME NEW choices \in SUBSET Nodes, NEW used \in SUBSET Nodes, NEW p \in Picks(choices, used)
  PROVE  p.node \in Nodes /\ p.left \in SUBSET Nodes
<1>1. \A pool \in PreferredNodes(used) : pool \subseteq Nodes
  BY DEF PreferredNodes, kSubset
<1>2. PICK pool \in (IF choices = {} THEN PreferredNodes(used) ELSE {choices}) :
        \E n \in pool : p = [node |-> n, left |-> pool \ {n}]
  BY DEF Picks
<1>3. pool \subseteq Nodes
  BY <1>1, <1>2
<1> QED
  BY <1>2, <1>3

LEMMA DroppedType ==
  ASSUME TypeOK, NEW c \in Contents, NEW n \in Nat
  PROVE  Dropped(c, n) \in [Contents -> [task : Stores, count : Nat \ {0}] \cup {None}]
BY DEF Dropped, TypeOK

LEMMA JoinedType ==
  ASSUME TypeOK, NEW c \in Contents, currentOps[c] # None
  PROVE  Joined(c) \in [Contents -> [task : Stores, count : Nat \ {0}] \cup {None}]
BY DEF Joined, TypeOK

LEMMA ContentType == ASSUME TypeOK, NEW r \in Stores PROVE Content(r) \in Contents
BY DEF TypeOK, Content

LEMMA BlockGoesEffect ==
  ASSUME TypeOK, NEW r \in Stores, NEW i \in Blocks,
         NEW to \in {"todo", "first", "second"} \cup Settled, BlockGoes(r, i, to)
  PROVE  /\ block' \in [Stores -> [Blocks -> {"todo", "first", "second"} \cup Settled]]
         /\ block'[r][i] = to
         /\ \A j \in Blocks : j # i => block'[r][j] = block[r][j]
         /\ \A s \in Stores : s # r => block'[s] = block[s]
BY DEF BlockGoes, TypeOK

-----------------------------------------------------------------------------
(* Types.                                                                  *)

LEMMA TypeInit == Init => TypeOK
BY DEF Init, TypeOK, Phases

LEMMA TypeStep ==
  ASSUME TypeOK, Early, Sent, Next
  PROVE  TypeOK'
<1> USE DEF Phases, Settled, Gone, BlockGoes
<1>1. CASE Finished
  BY <1>1 DEF Finished, vars, entry, asked, sent, network, TypeOK
<1>2. ASSUME NEW r \in Stores, Begin(r) \/ Work(r) PROVE TypeOK'
  <2>1. Content(r) \in Contents
    BY ContentType
  <2>2. \A n \in Nat : Dropped(Content(r), n) \in [Contents -> [task : Stores, count : Nat \ {0}] \cup {None}]
    BY <2>1, DroppedType
  <2> USE DEF entry, asked, sent, network
  <2>3. CASE Begin(r)
    <3>1. nodeChoices' \in [Stores -> SUBSET Nodes] /\ phase' \in [Stores -> Phases]
      BY <2>3 DEF Begin, TypeOK
    <3>2. query' \in [Stores -> {"none", "asked", "found", "absent", "failed"}]
      BY <2>3 DEF Begin, TypeOK
    <3>3. CASE currentOps[Content(r)] # None
      <4>1. currentOps' \in [Contents -> [task : Stores, count : Nat \ {0}] \cup {None}]
        BY <2>1, <2>3, <3>3, JoinedType DEF Begin
      <4>2. currentOps[Content(r)].task \in Stores
        BY <2>1, <3>3 DEF TypeOK
      <4>3. leader' \in [Stores -> Stores]
        BY <2>3, <3>3, <4>2 DEF Begin, TypeOK
      <4> QED
        BY <2>3, <3>1, <3>2, <4>1, <4>3 DEF Begin, TypeOK
    <3>4. CASE currentOps[Content(r)] = None
      <4>1. currentOps' \in [Contents -> [task : Stores, count : Nat \ {0}] \cup {None}]
        <5>1. [task |-> r, count |-> 1] \in [task : Stores, count : Nat \ {0}]
          OBVIOUS
        <5>2. currentOps' = [currentOps EXCEPT ![Content(r)] = [task |-> r, count |-> 1]]
          BY <2>3, <3>4 DEF Begin
        <5> QED
          BY <5>1, <5>2 DEF TypeOK
      <4> QED
        BY <2>3, <3>1, <3>2, <3>4, <4>1 DEF Begin, TypeOK
    <3> QED
      BY <3>3, <3>4
  <2>4. CASE Answer(r)
    <3>1. meta' \in [Stores -> Metadata \cup {None}]
      BY <2>4 DEF Answer, TypeOK
    <3>2. query' \in [Stores -> {"none", "asked", "found", "absent", "failed"}]
      BY <2>4 DEF Answer, TypeOK
    <3> QED
      BY <2>4, <3>1, <3>2 DEF Answer, TypeOK
  <2>5. CASE Resume(r)
    <3>1. query[r] \in {"found", "absent", "failed"}
      BY <2>5 DEF Resume, Early, TypeOK
    <3>2. phase' \in [Stores -> Phases]
      BY <2>5, <3>1 DEF Resume, TypeOK
    <3>3. currentOps' \in [Contents -> [task : Stores, count : Nat \ {0}] \cup {None}]
      BY <2>2, <2>5 DEF Resume, TypeOK
    <3> QED
      BY <2>5, <3>2, <3>3 DEF Resume, TypeOK
  <2>6. CASE ResumeJoined(r)
    BY <2>6 DEF ResumeJoined, TypeOK
  <2>7. ASSUME NEW i \in Blocks, StoreBlock(r, i) PROVE TypeOK'
    <3>1. nodeChoices[r] \in SUBSET Nodes /\ usedNodes[r] \in SUBSET Nodes
      BY DEF TypeOK
    <3>2. ASSUME NEW pick \in Picks(nodeChoices[r], usedNodes[r]), SendTo(r, i, pick, "first") PROVE TypeOK'
      BY <2>7, <3>1, <3>2, PicksType DEF StoreBlock, SendTo, TypeOK
    <3>3. CASE BlockGoes(r, i, "failed") /\ UNCHANGED <<nodeChoices, at>>
      BY <2>7, <3>3 DEF StoreBlock, TypeOK
    <3> QED
      BY <2>7, <3>2, <3>3 DEF StoreBlock
  <2>8. ASSUME NEW i \in Blocks, BlockStored(r, i) PROVE TypeOK'
    <3>1. at[r][i] \in Nodes
      BY <2>8 DEF BlockStored, Sent
    <3> QED
      BY <2>8, <3>1 DEF BlockStored, TypeOK
  <2>9. ASSUME NEW i \in Blocks, RetryStoreBlock(r, i) PROVE TypeOK'
    <3>1. nodeChoices[r] \in SUBSET Nodes /\ usedNodes[r] \in SUBSET Nodes
      BY DEF TypeOK
    <3>2. ASSUME NEW pick \in Picks(nodeChoices[r], usedNodes[r]), SendTo(r, i, pick, "second"),
                 UNCHANGED currentOps
          PROVE  TypeOK'
      BY <2>9, <3>1, <3>2, PicksType DEF RetryStoreBlock, SendTo, TypeOK
    <3>3. CASE /\ BlockGoes(r, i, "failed") /\ UNCHANGED <<nodeChoices, at>>
               /\ currentOps' = Dropped(Content(r), 1)
      BY <2>2, <2>9, <3>3 DEF RetryStoreBlock, TypeOK
    <3> QED
      BY <2>9, <3>2, <3>3 DEF RetryStoreBlock
  <2>10. ASSUME NEW i \in Blocks, GiveUpBlock(r, i) PROVE TypeOK'
    <3>1. at[r][i] \in Nodes
      BY <2>10 DEF GiveUpBlock, Sent
    <3> QED
      BY <2>2, <2>10, <3>1 DEF GiveUpBlock, TypeOK
  <2>11. ASSUME NEW i \in Blocks, Attach(r, i) \/ Verified(r, i) PROVE TypeOK'
    <3>1. ASSUME Held(meta[r], i)
          PROVE  <<Place(meta[r], i), meta[r].by, i, r>> \in Nodes \X Stores \X Blocks \X Stores
      BY <3>1 DEF Held, TypeOK
    <3>2. shares' \subseteq Nodes \X Stores \X Blocks \X Stores
      BY <2>11, <3>1 DEF Attach, Verified, Attached, TypeOK
    <3>3. block' \in [Stores -> [Blocks -> {"todo", "first", "second"} \cup Settled]]
      <4>1. BlockGoes(r, i, "stored") \/ BlockGoes(r, i, "skipped")
        BY <2>11 DEF Attach, Verified, Attached
      <4> QED
        BY <4>1, BlockGoesEffect
    <3>4. cleared' \in [Stores -> BOOLEAN]
      BY <2>11 DEF Attach, Verified, TypeOK
    <3>5. UNCHANGED <<entry, phase, asked, nodeChoices, usedNodes, at, published, manifest>>
      BY <2>11 DEF Attach, Verified
    <3> QED
      BY <3>2, <3>3, <3>4, <3>5 DEF TypeOK
  <2>12. ASSUME NEW i \in Blocks, NotFound(r, i) PROVE TypeOK'
    BY <2>2, <2>12 DEF NotFound, TypeOK
  <2>13. ASSUME NEW i \in Blocks, NotVerified(r, i) PROVE TypeOK'
    <3>1. nodeChoices[r] \in SUBSET Nodes /\ usedNodes[r] \in SUBSET Nodes
      BY DEF TypeOK
    <3>2. nodeChoices' \in [Stores -> SUBSET Nodes] /\ usedNodes' \in [Stores -> SUBSET Nodes]
      <4>1. ASSUME NEW p \in Picks(nodeChoices[r], usedNodes[r]), NEW q \in Picks(p.left, usedNodes[r])
            PROVE  q.node \in Nodes /\ q.left \in SUBSET Nodes
        BY <3>1, PicksType
      <4>2. \/ UNCHANGED <<nodeChoices, usedNodes>>
            \/ nodeChoices' = [nodeChoices EXCEPT ![r] = {}] /\ UNCHANGED usedNodes
            \/ \E p \in Picks(nodeChoices[r], usedNodes[r]) : \E q \in Picks(p.left, usedNodes[r]) :
                 /\ nodeChoices' = [nodeChoices EXCEPT ![r] = q.left]
                 /\ usedNodes' = [usedNodes EXCEPT ![r] = @ \cup {q.node}]
        BY <2>13 DEF NotVerified
      <4>3. CASE \E p \in Picks(nodeChoices[r], usedNodes[r]) : \E q \in Picks(p.left, usedNodes[r]) :
                   /\ nodeChoices' = [nodeChoices EXCEPT ![r] = q.left]
                   /\ usedNodes' = [usedNodes EXCEPT ![r] = @ \cup {q.node}]
        <5>1. PICK n \in Nodes, left \in SUBSET Nodes :
                /\ nodeChoices' = [nodeChoices EXCEPT ![r] = left]
                /\ usedNodes' = [usedNodes EXCEPT ![r] = @ \cup {n}]
          BY <4>1, <4>3
        <5> QED
          BY <5>1 DEF TypeOK
      <4>4. CASE nodeChoices' = [nodeChoices EXCEPT ![r] = {}] /\ UNCHANGED usedNodes
        BY <4>4 DEF TypeOK
      <4>5. CASE UNCHANGED <<nodeChoices, usedNodes>>
        BY <4>5 DEF TypeOK
      <4> QED
        BY <4>2, <4>3, <4>4, <4>5
    <3>3. currentOps' \in [Contents -> [task : Stores, count : Nat \ {0}] \cup {None}]
      BY <2>2, <2>13 DEF NotVerified, TypeOK
    <3> QED
      BY <2>13, <3>2, <3>3 DEF NotVerified, TypeOK
  <2>14. CASE StoreFails(r) \/ PublishFails(r)
    <3>1. phase' = [phase EXCEPT ![r] = "failed"] /\ Gone(r) /\ UNCHANGED <<entry, asked, network, manifest>>
      BY <2>14 DEF StoreFails, PublishFails
    <3> QED
      BY <3>1 DEF TypeOK
  <2>15. CASE Publish(r)
    <3>1. at[r] \in [Blocks -> Nodes]
      <4>1. \A i \in Blocks : at[r][i] \in Nodes
        BY <2>15 DEF Publish, MayPublish, AllStored, Sent
      <4> QED
        BY <4>1 DEF TypeOK
    <3>2. [content |-> Content(r), by |-> r, at |-> at[r]] \in Metadata
      BY <2>1, <3>1 DEF Metadata
    <3> QED
      BY <2>15, <3>2 DEF Publish, TypeOK
  <2>16. CASE Published(r) \/ AttachEnds(r) \/ VerifyEnds(r)
    <3>1. Gone(r) /\ UNCHANGED <<want, asked, network>>
      BY <2>16 DEF Published, AttachEnds, VerifyEnds, Ends, UpdateMaster, UpdateMasterFails
    <3>2. phase' \in [Stores -> Phases]
      BY <2>16 DEF Published, AttachEnds, VerifyEnds, Ends, UpdateMaster, UpdateMasterFails, TypeOK
    <3>3. /\ currentOps' \in [Contents -> [task : Stores, count : Nat \ {0}] \cup {None}]
          /\ manifest' \in [Paths -> Contents \cup {None}]
      <4>1. CASE UpdateMaster(r)
        BY <2>1, <2>2, <4>1 DEF UpdateMaster, TypeOK
      <4>2. CASE UpdateMasterFails(r)
        BY <2>1, <4>2 DEF UpdateMasterFails, TypeOK
      <4>3. CASE UNCHANGED <<currentOps, manifest>>
        BY <4>3 DEF TypeOK
      <4> QED
        BY <2>16, <4>1, <4>2, <4>3 DEF Published, AttachEnds, VerifyEnds, Ends
    <3> QED
      BY <3>1, <3>2, <3>3 DEF TypeOK
  <2> QED
    BY <1>2, <2>3, <2>4, <2>5, <2>6, <2>7, <2>8, <2>9, <2>10, <2>11, <2>12, <2>13, <2>14, <2>15, <2>16
       DEF Work, BlockWork
<1> QED
  BY <1>1, <1>2 DEF Next

-----------------------------------------------------------------------------
(* What is stored and published.                                           *)

\* What every step leaves: the files to store, acknowledgements and metadata.
LEMMA Lasting ==
  ASSUME TypeOK, Next
  PROVE  want' = want /\ shares \subseteq shares' /\ published \subseteq published'
<1> USE DEF entry, network
<1>1. CASE Finished
  BY <1>1 DEF Finished, vars
<1>2. ASSUME NEW r \in Stores, Begin(r) \/ Work(r) PROVE want' = want
  BY <1>2 DEF Work, BlockWork, Begin, Answer, Resume, ResumeJoined, StoreBlock, BlockStored,
     RetryStoreBlock, GiveUpBlock, Attach, NotFound, Verified, NotVerified, StoreFails, Publish,
     Published, PublishFails, AttachEnds, VerifyEnds
<1>3. ASSUME NEW r \in Stores, Begin(r) \/ Work(r)
      PROVE  shares \subseteq shares' /\ published \subseteq published'
  BY <1>3 DEF Work, BlockWork, Begin, Answer, Resume, ResumeJoined, StoreBlock, BlockStored,
     RetryStoreBlock, GiveUpBlock, Attach, Attached, NotFound, Verified, NotVerified, StoreFails,
     Publish, Published, PublishFails, AttachEnds, VerifyEnds
<1> QED
  BY <1>1, <1>2, <1>3 DEF Next

LEMMA SentStep ==
  ASSUME TypeOK, Early, Sent, Next
  PROVE  Early' /\ Sent'
<1> USE DEF Phases, Settled, Gone, BlockGoes, entry, asked, sent, network
<1>1. CASE Finished
  BY <1>1 DEF Finished, vars, Early, Sent
<1>2. ASSUME NEW r \in Stores, Begin(r) \/ Work(r) PROVE Early' /\ Sent'
  <2>1. CASE Begin(r) \/ Answer(r) \/ ResumeJoined(r)
    BY <2>1 DEF Begin, Answer, ResumeJoined, TypeOK, Early, Sent
  <2>2. CASE Resume(r)
    <3>1. query[r] \in {"found", "absent", "failed"}
      BY <2>2 DEF Resume, Early, TypeOK
    <3> QED
      BY <2>2, <3>1 DEF Resume, TypeOK, Early, Sent
  <2>3. ASSUME NEW i \in Blocks, StoreBlock(r, i) \/ RetryStoreBlock(r, i) PROVE Early' /\ Sent'
    <3>1. nodeChoices[r] \in SUBSET Nodes /\ usedNodes[r] \in SUBSET Nodes
      BY DEF TypeOK
    <3>2. phase[r] = "store" /\ UNCHANGED <<phase, query, shares>>
      BY <2>3 DEF StoreBlock, RetryStoreBlock
    <3>3. ASSUME NEW pick \in Picks(nodeChoices[r], usedNodes[r]), NEW try \in {"first", "second"},
                 SendTo(r, i, pick, try)
          PROVE  Early' /\ Sent'
      <4>1. BlockGoes(r, i, try)
        BY <3>3 DEF SendTo
      <4>2. /\ at'[r][i] = pick.node
            /\ \A j \in Blocks : j # i => at'[r][j] = at[r][j]
            /\ \A s \in Stores : s # r => at'[s] = at[s]
        BY <3>3 DEF SendTo, TypeOK
      <4>3. pick.node \in Nodes
        BY <3>1, <3>3, PicksType
      <4>4. /\ block'[r][i] = try
            /\ \A j \in Blocks : j # i => block'[r][j] = block[r][j]
            /\ \A s \in Stores : s # r => block'[s] = block[s]
        BY <4>1, BlockGoesEffect
      <4>5. Early'
        BY <3>2, <4>4 DEF Early
      <4>6. Sent'
        BY <3>2, <4>2, <4>3, <4>4 DEF Sent
      <4> QED
        BY <4>5, <4>6
    <3>4. CASE BlockGoes(r, i, "failed") /\ UNCHANGED at
      <4> HIDE DEF BlockGoes
      <4> QED
        BY <3>2, <3>4, BlockGoesEffect DEF Early, Sent
    <3> QED
      BY <2>3, <3>3, <3>4 DEF StoreBlock, RetryStoreBlock
  <2>4. ASSUME NEW i \in Blocks, BlockStored(r, i) PROVE Early' /\ Sent'
    <3>1. phase[r] = "store" /\ BlockGoes(r, i, "stored") /\ UNCHANGED <<phase, query, at>>
      BY <2>4 DEF BlockStored
    <3>2. at[r][i] \in Nodes /\ shares' = shares \cup {<<at[r][i], r, i, r>>}
      BY <2>4 DEF BlockStored, Sent
    <3> HIDE DEF BlockGoes
    <3> QED
      BY <3>1, <3>2, BlockGoesEffect DEF Early, Sent
  <2>5. ASSUME NEW i \in Blocks,
               GiveUpBlock(r, i) \/ Attach(r, i) \/ NotFound(r, i) \/ Verified(r, i) \/ NotVerified(r, i)
        PROVE  Early' /\ Sent'
    <3>1. UNCHANGED <<phase, query, at>> /\ shares \subseteq shares'
      BY <2>5 DEF GiveUpBlock, Attach, Attached, NotFound, Verified, NotVerified
    <3>2. \/ phase[r] = "store" /\ BlockGoes(r, i, "failed")
          \/ /\ phase[r] \in {"attach", "verify"}
             /\ BlockGoes(r, i, "stored") \/ BlockGoes(r, i, "skipped") \/ BlockGoes(r, i, "failed")
      BY <2>5 DEF GiveUpBlock, Attach, Attached, NotFound, Verified, NotVerified
    <3>3. /\ phase[r] \in {"store", "attach", "verify"}
          /\ phase[r] = "store" => block'[r][i] = "failed"
          /\ \A j \in Blocks : j # i => block'[r][j] = block[r][j]
          /\ \A s \in Stores : s # r => block'[s] = block[s]
      BY <3>2 DEF TypeOK
    <3> QED
      BY <3>1, <3>3 DEF Early, Sent
  <2>6. ASSUME phase'[r] \notin {"new", "query", "joined", "store"},
               \A s \in Stores : s # r => phase'[s] = phase[s] /\ at'[s] = at[s],
               UNCHANGED <<query, block, shares>>
        PROVE  Early' /\ Sent'
    BY <2>6 DEF Early, Sent
  <2>7. CASE StoreFails(r) \/ PublishFails(r) \/ Publish(r)
    BY <2>6, <2>7 DEF StoreFails, PublishFails, Publish, TypeOK
  <2>8. CASE Published(r) \/ AttachEnds(r) \/ VerifyEnds(r)
    BY <2>6, <2>8 DEF Published, AttachEnds, VerifyEnds, Ends, UpdateMaster, UpdateMasterFails, TypeOK
  <2> QED
    BY <1>2, <2>1, <2>2, <2>3, <2>4, <2>5, <2>7, <2>8 DEF Work, BlockWork
<1> QED
  BY <1>1, <1>2 DEF Next

\* A store at work goes on to a later phase, or stays where it is.
LEMMA WorkPhase ==
  ASSUME TypeOK, Early, NEW r \in Stores, Work(r)
  PROVE  \/ phase' = phase
         \/ \E p \in Phases \ {"new", "query", "joined"} : phase' = [phase EXCEPT ![r] = p]
<1> USE DEF Phases, sent
<1>1. CASE Answer(r) \/ ResumeJoined(r)
  BY <1>1 DEF Answer, ResumeJoined
<1>2. CASE Resume(r)
  <2>1. query[r] \in {"found", "absent", "failed"}
    BY <1>2 DEF Resume, Early, TypeOK
  <2> QED
    BY <1>2, <2>1 DEF Resume
<1>3. ASSUME NEW i \in Blocks, BlockWork(r, i) PROVE phase' = phase
  BY <1>3 DEF BlockWork, StoreBlock, BlockStored, RetryStoreBlock, GiveUpBlock, Attach, NotFound,
     Verified, NotVerified
<1>4. CASE StoreFails(r) \/ Publish(r) \/ Published(r) \/ PublishFails(r) \/ AttachEnds(r) \/ VerifyEnds(r)
  BY <1>4 DEF StoreFails, Publish, Published, PublishFails, AttachEnds, VerifyEnds, Ends,
     UpdateMaster, UpdateMasterFails
<1> QED
  BY <1>1, <1>2, <1>3, <1>4 DEF Work

\* It is counted out of currentOps as often as its errors say.
LEMMA WorkEntries ==
  ASSUME NEW r \in Stores, Work(r)
  PROVE  currentOps' = currentOps \/ \E n \in {0, 1, 2} : currentOps' = Dropped(Content(r), n)
BY DEF Work, BlockWork, Answer, Resume, ResumeJoined, StoreBlock, BlockStored, RetryStoreBlock,
   GiveUpBlock, Attach, NotFound, Verified, NotVerified, StoreFails, Publish, Published,
   PublishFails, AttachEnds, VerifyEnds, Ends, UpdateMaster, UpdateMasterFails, entry

LEMMA SameContentStep ==
  ASSUME TypeOK, Early, SameContent, Next
  PROVE  SameContent'
<1> USE DEF Phases, entry, asked, sent, network
<1>1. CASE Finished
  BY <1>1 DEF Finished, vars, SameContent, Content
<1>2. ASSUME NEW r \in Stores, Begin(r) \/ Work(r) PROVE SameContent'
  <2>1. Content(r) \in Contents /\ \A s \in Stores : Content(s)' = Content(s)
    BY ContentType, Lasting, <1>2 DEF Content, Next
  <2>2. ASSUME \A c \in Contents : currentOps'[c] # None =>
                 currentOps[c] # None /\ currentOps'[c].task = currentOps[c].task,
               leader' = leader,
               \A s \in Stores : phase'[s] = "joined" => phase[s] = "joined"
        PROVE  SameContent'
    <3>1. \A c \in Contents : currentOps[c] # None => currentOps[c].task \in Stores
      BY DEF TypeOK
    <3>2. leader \in [Stores -> Stores]
      BY DEF TypeOK
    <3> QED
      BY <2>1, <2>2, <3>1, <3>2 DEF SameContent
  <2>3. CASE Begin(r)
    <3>1. CASE currentOps[Content(r)] # None
      <4> DEFINE e == currentOps[Content(r)]
      <4>1. e.task \in Stores /\ Content(e.task) = Content(r)
        BY <2>1, <3>1 DEF TypeOK, SameContent
      <4>2. /\ currentOps' = [currentOps EXCEPT ![Content(r)] = [task |-> e.task, count |-> e.count + 1]]
            /\ leader' = [leader EXCEPT ![r] = e.task]
            /\ phase' = [phase EXCEPT ![r] = "joined"]
        BY <2>3, <3>1 DEF Begin, Joined
      <4>3. \A c \in Contents : currentOps'[c] # None => Content(currentOps'[c].task) = c
        BY <4>1, <4>2 DEF SameContent, TypeOK
      <4>4. \A c \in Contents : currentOps'[c] # None => currentOps'[c].task \in Stores
        BY <4>1, <4>2 DEF TypeOK
      <4>5. \A s \in Stores : phase'[s] = "joined" => leader'[s] \in Stores /\ Content(leader'[s]) = Content(s)
        BY <4>1, <4>2 DEF SameContent, TypeOK
      <4> QED
        BY <2>1, <4>3, <4>4, <4>5 DEF SameContent
    <3>2. CASE currentOps[Content(r)] = None
      <4>1. /\ currentOps' = [currentOps EXCEPT ![Content(r)] = [task |-> r, count |-> 1]]
            /\ leader' = leader
            /\ phase' = [phase EXCEPT ![r] = "query"]
        BY <2>3, <3>2 DEF Begin
      <4>2. \A c \in Contents : currentOps'[c] # None =>
              currentOps'[c].task \in Stores /\ Content(currentOps'[c].task) = c
        BY <4>1 DEF SameContent, TypeOK
      <4>3. \A s \in Stores : phase'[s] = "joined" => leader'[s] \in Stores /\ Content(leader'[s]) = Content(s)
        BY <4>1 DEF SameContent, TypeOK
      <4> QED
        BY <2>1, <4>2, <4>3 DEF SameContent
    <3> QED
      BY <3>1, <3>2
  <2>4. CASE Work(r)
    <3>1. leader' = leader
      BY <2>4 DEF Work, BlockWork, Answer, Resume, ResumeJoined, StoreBlock, BlockStored,
         RetryStoreBlock, GiveUpBlock, Attach, NotFound, Verified, NotVerified, StoreFails, Publish,
         Published, PublishFails, AttachEnds, VerifyEnds
    <3>2. \A s \in Stores : phase'[s] = "joined" => phase[s] = "joined"
      BY <2>4, WorkPhase DEF TypeOK
    <3>3. ASSUME NEW n \in Nat, currentOps' = Dropped(Content(r), n)
          PROVE  \A c \in Contents : currentOps'[c] # None =>
                   currentOps[c] # None /\ currentOps'[c].task = currentOps[c].task
      BY <2>1, <3>3 DEF Dropped, TypeOK
    <3>4. \A c \in Contents : currentOps'[c] # None =>
            currentOps[c] # None /\ currentOps'[c].task = currentOps[c].task
      BY <2>4, <3>3, WorkEntries
    <3> QED
      BY <2>2, <3>1, <3>2, <3>4
  <2> QED
    BY <1>2, <2>3, <2>4
<1> QED
  BY <1>1, <1>2 DEF Next

LEMMA FoundStep ==
  ASSUME TypeOK, Early, SameContent, Found, Next
  PROVE  Found'
<1> USE DEF Phases, entry, asked, sent, network
<1>1. \A s \in Stores : Findable(s) => Findable(s)'
  BY Lasting DEF Findable, Content
<1>2. CASE Finished
  BY <1>1, <1>2 DEF Finished, vars, Found
<1>3. ASSUME NEW r \in Stores, Begin(r) \/ Work(r) PROVE Found'
  <2>1. SUFFICES ASSUME NEW s \in Stores,
                        query'[s] = "found" \/ phase'[s] \in {"publish", "attach", "verify"}
                 PROVE  Findable(s)'
    BY DEF Found
  <2>2. CASE query[s] = "found" \/ phase[s] \in {"publish", "attach", "verify"}
    BY <1>1, <2>2 DEF Found
  <2>3. CASE query[s] # "found" /\ phase[s] \notin {"publish", "attach", "verify"}
    <3>1. CASE query'[s] = "found"
      <4>1. Answer(r) /\ s = r
        BY <1>3, <2>3, <3>1 DEF Work, BlockWork, Begin, Answer, Resume, ResumeJoined, StoreBlock,
           BlockStored, RetryStoreBlock, GiveUpBlock, Attach, NotFound, Verified, NotVerified,
           StoreFails, Publish, Published, PublishFails, AttachEnds, VerifyEnds, TypeOK
      <4>2. \E m \in published : m.content = Content(r)
        BY <2>3, <3>1, <4>1 DEF Answer, TypeOK
      <4> QED
        BY <1>1, <4>1, <4>2 DEF Findable
    <3>2. CASE query'[s] # "found"
      <4>1. s = r /\ (Resume(r) \/ ResumeJoined(r) \/ Publish(r))
        BY <1>3, <2>1, <2>3, <3>2 DEF Work, BlockWork, Begin, Answer, Resume, ResumeJoined, StoreBlock,
           BlockStored, RetryStoreBlock, GiveUpBlock, Attach, NotFound, Verified, NotVerified,
           StoreFails, Publish, Published, PublishFails, AttachEnds, VerifyEnds, Ends, UpdateMaster,
           UpdateMasterFails, TypeOK
      <4>2. CASE Resume(r)
        <5>1. query[r] \in {"found", "absent", "failed"}
          BY <4>2 DEF Resume, Early, TypeOK
        <5> QED
          BY <2>1, <2>3, <4>1, <4>2, <5>1 DEF Resume, TypeOK
      <4>3. CASE ResumeJoined(r)
        <5>1. leader[r] \in Stores /\ Content(leader[r]) = Content(r)
          BY <4>3 DEF ResumeJoined, SameContent, TypeOK
        <5>2. query[leader[r]] = "found"
          BY <2>1, <2>3, <3>2, <4>1, <4>3 DEF ResumeJoined, TypeOK
        <5>3. Findable(r)
          BY <5>1, <5>2 DEF Found, Findable
        <5> QED
          BY <1>1, <4>1, <5>3
      <4>4. CASE Publish(r)
        <5>1. [content |-> Content(r), by |-> r, at |-> at[r]] \in published'
          BY <4>4 DEF Publish
        <5>2. Content(r)' = Content(r)
          BY Lasting DEF Content
        <5> QED
          BY <4>1, <5>1, <5>2 DEF Findable
      <4> QED
        BY <4>1, <4>2, <4>3, <4>4
    <3> QED
      BY <3>1, <3>2
  <2> QED
    BY <2>2, <2>3
<1> QED
  BY <1>2, <1>3 DEF Next

LEMMA HeldStep ==
  ASSUME TypeOK, Sent, PublishedHeld, Next
  PROVE  PublishedHeld'
<1>1. shares \subseteq shares'
  BY Lasting
<1>2. CASE published' = published
  BY <1>1, <1>2 DEF PublishedHeld, Held, Place
<1>3. ASSUME NEW r \in Stores, Publish(r) PROVE PublishedHeld'
  <2>1. \A i \in Blocks : <<at[r][i], r, i, r>> \in shares'
    BY <1>1, <1>3 DEF Publish, MayPublish, AllStored, Sent
  <2> DEFINE new == [content |-> Content(r), by |-> r, at |-> at[r]]
  <2>2. published' = published \cup {new}
    BY <1>3 DEF Publish
  <2>3. \A i \in Blocks : <<new.at[i], new.by, i, new.by>> \in shares'
    BY <2>1
  <2>4. \A m \in published : \A i \in Blocks : <<m.at[i], m.by, i, m.by>> \in shares'
    BY <1>1 DEF PublishedHeld, Held, Place
  <2> HIDE DEF new
  <2> QED
    BY <2>2, <2>3, <2>4 DEF PublishedHeld, Held, Place
<1>4. published' = published \/ \E r \in Stores : Publish(r)
  BY DEF Next, Finished, vars, network, Work, BlockWork, Begin, Answer, Resume, ResumeJoined,
     StoreBlock, BlockStored, RetryStoreBlock, GiveUpBlock, Attach, NotFound, Verified, NotVerified,
     StoreFails, Published, PublishFails, AttachEnds, VerifyEnds
<1> QED
  BY <1>2, <1>3, <1>4

LEMMA ListedStep ==
  ASSUME TypeOK, Found, ListedPublished, Next
  PROVE  ListedPublished'
<1>1. published \subseteq published'
  BY Lasting
<1>2. CASE manifest' = manifest
  BY <1>1, <1>2 DEF ListedPublished
<1>3. ASSUME NEW r \in Stores, phase[r] \in {"publish", "attach", "verify"},
             manifest' = [manifest EXCEPT ![want[r].path] = Content(r)]
      PROVE  ListedPublished'
  <2>1. \E m \in published : m.content = Content(r)
    BY <1>3 DEF Found, Findable
  <2> QED
    BY <1>1, <1>3, <2>1 DEF ListedPublished, TypeOK
<1>4. manifest' = manifest \/ \E r \in Stores :
        /\ phase[r] \in {"publish", "attach", "verify"}
        /\ manifest' = [manifest EXCEPT ![want[r].path] = Content(r)]
  BY DEF Next, Finished, vars, Work, BlockWork, Begin, Answer, Resume, ResumeJoined,
     StoreBlock, BlockStored, RetryStoreBlock, GiveUpBlock, Attach, NotFound, Verified, NotVerified,
     StoreFails, Publish, Published, PublishFails, AttachEnds, VerifyEnds, Ends, UpdateMaster,
     UpdateMasterFails
<1> QED
  BY <1>2, <1>3, <1>4

-----------------------------------------------------------------------------
LEMMA InitInv == Init => IInv
BY TypeInit DEF Init, IInv, Early, Sent, SameContent, Found, PublishedHeld, ListedPublished

LEMMA StutterInv ==
  ASSUME IInv, UNCHANGED vars
  PROVE  IInv'
BY DEF vars, entry, asked, sent, network, IInv, TypeOK, Early, Sent, SameContent, Found, Findable,
   Content, PublishedHeld, Held, Place, ListedPublished

\* The inductive invariant: blocks that are stored have their acknowledgement,
\* stores share queries for their own content, and whoever is past the query or
\* the publication can be found (StoreFile).
THEOREM Invariance == Spec => []IInv
<1>1. ASSUME IInv, [Next]_vars PROVE IInv'
  <2>1. CASE Next
    BY <1>1, <2>1, TypeStep, SentStep, SameContentStep, FoundStep, HeldStep, ListedStep DEF IInv
  <2>2. CASE UNCHANGED vars
    BY <1>1, <2>2, StutterInv
  <2> QED
    BY <1>1, <2>1, <2>2
<1> QED
  BY InitInv, <1>1, PTL DEF Spec

\* Every attribute of StoreFile and every map has its type.
THEOREM TypeCorrect == Spec => []TypeOK
BY Invariance, PTL DEF IInv

\* Metadata in the DHT leads to blocks (_storeMetadataAsync).
THEOREM MetadataLeadsToBlocks == Spec => []PublishedHeld
BY Invariance, PTL DEF IInv

\* The manifest lists only what can be looked up (_updateMaster).
THEOREM ManifestCanBeLookedUp == Spec => []ListedPublished
BY Invariance, PTL DEF IInv

-----------------------------------------------------------------------------
(* The count of users.                                                     *)

LEMMA CountType == ASSUME TypeOK, NEW c \in Contents PROVE Count(c) \in Nat
BY DEF TypeOK, Count

LEMMA DroppedCount ==
  ASSUME TypeOK, NEW c \in Contents, NEW n \in Nat, currentOps' = Dropped(c, n)
  PROVE  /\ Count(c)' = IF Count(c) <= n THEN 0 ELSE Count(c) - n
         /\ \A d \in Contents : d # c => Count(d)' = Count(d)
<1>1. \A d \in Contents : d # c => Count(d)' = Count(d)
  BY DEF Count, Dropped, TypeOK
<1>2. CASE currentOps[c] = None
  BY <1>2 DEF Count, Dropped, TypeOK
<1>3. CASE currentOps[c] # None
  <2>1. currentOps[c] \in [task : Stores, count : Nat \ {0}]
    BY <1>3 DEF TypeOK
  <2>2. CASE currentOps[c].count <= n
    BY <1>3, <2>2 DEF Count, Dropped, TypeOK
  <2>3. CASE ~(currentOps[c].count <= n)
    <3> DEFINE e == [task |-> currentOps[c].task, count |-> currentOps[c].count - n]
    <3>1. currentOps[c].count - n \in Nat
      BY <2>1, <2>3
    <3>2. e \in [task : Stores, count : Nat]
      BY <2>1, <3>1
    <3>3. e # None
      BY <3>2, FileStoreAssumption
    <3>4. currentOps'[c] = e
      BY <1>3, <2>3 DEF Dropped, TypeOK
    <3>5. e.count = currentOps[c].count - n
      OBVIOUS
    <3> HIDE DEF e
    <3>6. Count(c)' = currentOps[c].count - n
      BY <3>3, <3>4, <3>5 DEF Count
    <3>7. Count(c) = currentOps[c].count
      BY <1>3 DEF Count
    <3> QED
      BY <1>1, <2>3, <3>6, <3>7
  <2> QED
    BY <1>1, <2>2, <2>3
<1> QED
  BY <1>1, <1>2, <1>3

LEMMA BeginCount ==
  ASSUME TypeOK, NEW r \in Stores, NEW c \in Contents, c = Content(r), Begin(r)
  PROVE  /\ Count(c)' = Count(c) + 1
         /\ \A d \in Contents : d # c => Count(d)' = Count(d)
<1>1. CASE currentOps[c] # None
  <2>1. currentOps[c] \in [task : Stores, count : Nat \ {0}]
    BY <1>1 DEF TypeOK
  <2> DEFINE e == [task |-> currentOps[c].task, count |-> currentOps[c].count + 1]
  <2>2. e \in [task : Stores, count : Nat]
    BY <2>1
  <2>3. e # None
    BY <2>2, FileStoreAssumption
  <2>4. currentOps' = [currentOps EXCEPT ![c] = e]
    BY <1>1 DEF Begin, Joined
  <2>5. e.count = Count(c) + 1
    BY <1>1 DEF Count
  <2> HIDE DEF e
  <2>6. Count(c)' = e.count /\ \A d \in Contents : d # c => Count(d)' = Count(d)
    BY <2>3, <2>4 DEF Count, TypeOK
  <2> QED
    BY <2>5, <2>6
<1>2. CASE currentOps[c] = None
  <2> DEFINE e == [task |-> r, count |-> 1]
  <2>1. e # None
    BY FileStoreAssumption
  <2>2. currentOps' = [currentOps EXCEPT ![c] = e]
    BY <1>2 DEF Begin
  <2>3. e.count = Count(c) + 1
    BY <1>2 DEF Count
  <2> HIDE DEF e
  <2>4. Count(c)' = e.count /\ \A d \in Contents : d # c => Count(d)' = Count(d)
    BY <2>1, <2>2 DEF Count, TypeOK
  <2> QED
    BY <2>3, <2>4
<1> QED
  BY <1>1, <1>2

Succeeds(r) == phase[r] \in {"publish", "attach", "verify"} /\ UpdateMaster(r)
Past(r) == phase[r] \notin {"new", "done", "failed"}

\* What a store at work does to its phase and its entry.
LEMMA WorkCases ==
  ASSUME TypeOK, Early, NEW r \in Stores, Work(r)
  PROVE  \/ Succeeds(r)
         \/ phase' = phase /\ currentOps' = currentOps
         \/ /\ phase' = phase /\ phase[r] \in {"store", "verify"}
            /\ \E n \in Nat : currentOps' = Dropped(Content(r), n)
            /\ \E i \in Blocks : block'[r][i] = "failed"
         \/ /\ phase[r] \in {"query", "joined", "store"} /\ currentOps' = currentOps
            /\ \E p \in {"store", "attach", "verify", "publish"} : phase' = [phase EXCEPT ![r] = p]
         \/ /\ Past(r) /\ phase' = [phase EXCEPT ![r] = "failed"]
            /\ \E n \in Nat : currentOps' = Dropped(Content(r), n) \/ currentOps' = currentOps
<1> USE DEF entry, sent, Past
<1>1. CASE Answer(r)
  BY <1>1 DEF Answer
<1>2. CASE Resume(r)
  <2>1. query[r] \in {"found", "absent", "failed"}
    BY <1>2 DEF Resume, Early, TypeOK
  <2>2. CASE query[r] = "failed"
    BY <1>2, <2>2 DEF Resume
  <2>3. CASE query[r] # "failed"
    BY <1>2, <2>1, <2>3 DEF Resume
  <2> QED
    BY <2>2, <2>3
<1>3. CASE ResumeJoined(r)
  BY <1>3 DEF ResumeJoined
<1>4. ASSUME NEW i \in Blocks, StoreBlock(r, i) \/ BlockStored(r, i) \/ Attach(r, i) \/ Verified(r, i)
      PROVE  phase' = phase /\ currentOps' = currentOps
  BY <1>4 DEF StoreBlock, BlockStored, Attach, Verified
<1>5. ASSUME NEW i \in Blocks,
             RetryStoreBlock(r, i) \/ GiveUpBlock(r, i) \/ NotFound(r, i) \/ NotVerified(r, i)
      PROVE  /\ phase' = phase /\ phase[r] \in {"store", "verify"}
             /\ \/ currentOps' = currentOps
                \/ /\ \E n \in Nat : currentOps' = Dropped(Content(r), n)
                   /\ block'[r][i] = "failed"
  <2>1. phase' = phase /\ phase[r] \in {"store", "verify"}
    BY <1>5 DEF RetryStoreBlock, GiveUpBlock, NotFound, NotVerified
  <2>2. currentOps' = currentOps \/ BlockGoes(r, i, "failed")
    BY <1>5 DEF RetryStoreBlock, GiveUpBlock, NotFound, NotVerified
  <2>3. currentOps' = currentOps \/ \E n \in Nat : currentOps' = Dropped(Content(r), n)
    BY WorkEntries
  <2> QED
    BY <2>1, <2>2, <2>3 DEF BlockGoes, TypeOK
<1>6. CASE StoreFails(r) \/ PublishFails(r)
  BY <1>6 DEF StoreFails, PublishFails
<1>7. CASE Publish(r)
  BY <1>7 DEF Publish
<1>8. CASE Published(r) \/ AttachEnds(r) \/ VerifyEnds(r)
  <2>1. phase[r] \in {"publish", "attach", "verify"}
    BY <1>8 DEF Published, AttachEnds, VerifyEnds
  <2>2. \/ UpdateMaster(r)
        \/ phase' = [phase EXCEPT ![r] = "failed"] /\ currentOps' = currentOps
    BY <1>8 DEF Published, AttachEnds, VerifyEnds, Ends, UpdateMasterFails
  <2> QED
    BY <2>1, <2>2 DEF Succeeds
<1>9. CASE \E i \in Blocks : BlockWork(r, i)
  BY <1>4, <1>5, <1>9 DEF BlockWork
<1> QED
  BY <1>1, <1>2, <1>3, <1>6, <1>7, <1>8, <1>9 DEF Work

\* A failure stays.
LEMMA FailuresStay ==
  ASSUME TypeOK, Early, Next
  PROVE  /\ \A s \in Stores : phase[s] = "failed" => phase'[s] = "failed"
         /\ \A s \in Stores : \A i \in Blocks : block[s][i] = "failed" => block'[s][i] = "failed"
<1>1. CASE Finished
  BY <1>1 DEF Finished, vars, sent
<1>2. ASSUME NEW r \in Stores, Begin(r) \/ Work(r)
      PROVE  \A s \in Stores : phase[s] = "failed" => phase'[s] = "failed"
  <2>1. CASE Begin(r)
    BY <2>1 DEF Begin, TypeOK
  <2>2. CASE Work(r)
    BY <2>2, WorkCases DEF Succeeds, Past, UpdateMaster, TypeOK
  <2> QED
    BY <1>2, <2>1, <2>2
<1>3. ASSUME NEW r \in Stores, Begin(r) \/ Work(r)
      PROVE  \A s \in Stores : \A i \in Blocks : block[s][i] = "failed" => block'[s][i] = "failed"
  <2>1. CASE block' = block
    BY <2>1
  <2>2. ASSUME NEW i \in Blocks, block[r][i] \in {"todo", "first", "second"},
               NEW to \in {"todo", "first", "second"} \cup Settled,
               block' = [block EXCEPT ![r][i] = to]
        PROVE  \A s \in Stores : \A j \in Blocks : block[s][j] = "failed" => block'[s][j] = "failed"
    BY <2>2 DEF TypeOK
  <2>3. \/ block' = block
        \/ \E i \in Blocks : \E to \in {"todo", "first", "second"} \cup Settled :
             /\ block[r][i] \in {"todo", "first", "second"}
             /\ block' = [block EXCEPT ![r][i] = to]
    <3>1. CASE \E i \in Blocks : BlockWork(r, i)
      BY <3>1 DEF BlockWork, StoreBlock, BlockStored, RetryStoreBlock, GiveUpBlock, Attach, Attached,
         NotFound, Verified, NotVerified, SendTo, BlockGoes, Settled
    <3>2. CASE Begin(r) \/ (Work(r) /\ ~\E i \in Blocks : BlockWork(r, i))
      BY <3>2 DEF Work, Begin, Answer, Resume, ResumeJoined, StoreFails, Publish, Published,
         PublishFails, AttachEnds, VerifyEnds, Ends, UpdateMaster, UpdateMasterFails, Gone, sent
    <3> QED
      BY <1>3, <3>1, <3>2
  <2> QED
    BY <2>1, <2>2, <2>3
<1> QED
  BY <1>1, <1>2, <1>3 DEF Next

\* Beginning adds one to both sides, succeeding takes one away, failing leaves the
\* right one as it is.
LEMMA EntryStep ==
  ASSUME IsFiniteSet(Stores), TypeOK, Early, EntryHasUsers, Next
  PROVE  EntryHasUsers'
<1> SUFFICES ASSUME NEW c \in Contents
             PROVE  Count(c)' <= Cardinality(UsersOf(c) \cup FailedOf(c))'
  BY DEF EntryHasUsers
<1> DEFINE Unfinished == {s \in Stores : Content(s) = c /\ phase[s] \notin {"new", "done"}}
           Next1 == {s \in Stores : Content(s) = c /\ phase'[s] \notin {"new", "done"}}
<1>1. UsersOf(c) \cup FailedOf(c) = Unfinished
  BY DEF UsersOf, FailedOf, Running
<1>2. (UsersOf(c) \cup FailedOf(c))' = Next1
  BY Lasting DEF UsersOf, FailedOf, Running, Content
<1>3. /\ IsFiniteSet(Unfinished) /\ Cardinality(Unfinished) \in Nat
      /\ Count(c) \in Nat /\ Count(c) <= Cardinality(Unfinished)
  BY <1>1, FS_Subset, FS_CardinalityType, CountType DEF EntryHasUsers
<1>4. CASE Finished
  <2>1. Next1 = Unfinished /\ Count(c)' = Count(c)
    BY <1>4 DEF Finished, vars, entry, Count
  <2> QED
    BY <1>2, <1>3, <2>1
<1>5. ASSUME NEW r \in Stores, Begin(r) PROVE Count(c)' <= Cardinality(Next1)
  <2>1. CASE Content(r) = c
    <3>1. Next1 = Unfinished \cup {r} /\ r \notin Unfinished
      BY <1>5, <2>1 DEF Begin, TypeOK
    <3>2. Cardinality(Next1) = Cardinality(Unfinished) + 1
      BY <1>3, <3>1, FS_AddElement
    <3>3. Count(c)' = Count(c) + 1
      BY <1>5, <2>1, BeginCount
    <3> QED
      BY <1>3, <3>2, <3>3
  <2>2. CASE Content(r) # c
    <3>1. Next1 = Unfinished
      BY <1>5, <2>2 DEF Begin, TypeOK
    <3>2. Count(c)' = Count(c)
      BY <1>5, <2>2, BeginCount, ContentType
    <3> QED
      BY <1>3, <3>1, <3>2
  <2> QED
    BY <2>1, <2>2
<1>6. ASSUME NEW r \in Stores, Work(r) PROVE Count(c)' <= Cardinality(Next1)
  <2>1. Count(c)' <= Count(c) /\ Count(c)' \in Nat
    <3>1. CASE currentOps' = currentOps
      BY <1>3, <3>1 DEF Count
    <3>2. ASSUME NEW n \in Nat, currentOps' = Dropped(Content(r), n)
          PROVE  Count(c)' <= Count(c) /\ Count(c)' \in Nat
      BY <1>3, <3>2, DroppedCount, ContentType
    <3> QED
      BY <1>6, <3>1, <3>2, WorkEntries
  <2>2. CASE Succeeds(r) /\ Content(r) = c
    <3>1. Next1 = Unfinished \ {r} /\ r \in Unfinished
      BY <2>2 DEF Succeeds, UpdateMaster, TypeOK
    <3>2. Cardinality(Next1) = Cardinality(Unfinished) - 1
      BY <1>3, <3>1, FS_RemoveElement
    <3>3. Cardinality(Unfinished) > 0
      BY <1>3, <3>1, FS_EmptySet
    <3>4. Count(c)' = IF Count(c) <= 1 THEN 0 ELSE Count(c) - 1
      BY <2>2, DroppedCount DEF Succeeds, UpdateMaster
    <3> QED
      BY <1>3, <3>2, <3>3, <3>4
  <2>3. CASE ~(Succeeds(r) /\ Content(r) = c)
    <3>1. Next1 = Unfinished
      <4>1. CASE Succeeds(r)
        BY <2>3, <4>1 DEF Succeeds, UpdateMaster, TypeOK
      <4>2. CASE phase' = phase
        BY <4>2
      <4>3. ASSUME phase[r] \notin {"new", "done"}, NEW p \in Phases \ {"new", "done"},
                   phase' = [phase EXCEPT ![r] = p]
            PROVE  Next1 = Unfinished
        BY <4>3 DEF TypeOK
      <4>4. \/ Succeeds(r) \/ phase' = phase
            \/ /\ phase[r] \notin {"new", "done"}
               /\ \E p \in Phases \ {"new", "done"} : phase' = [phase EXCEPT ![r] = p]
        BY <1>6, WorkCases DEF Past, Phases
      <4> QED
        BY <4>1, <4>2, <4>3, <4>4
    <3> QED
      BY <1>3, <2>1, <3>1
  <2> QED
    BY <2>2, <2>3
<1> QED
  BY <1>2, <1>4, <1>5, <1>6 DEF Next

\* A step after which nothing of c has failed adds or takes one on both sides, or
\* leaves them.
LEMMA CountsStep ==
  ASSUME IsFiniteSet(Stores), TypeOK, Early, CountsUsers, Next
  PROVE  CountsUsers'
<1> DEFINE Unharmed(c) == \A s \in Stores : Content(s) = c =>
                            phase[s] # "failed" /\ \A i \in Blocks : block[s][i] # "failed"
           Unharmed1(c) == \A s \in Stores : Content(s) = c =>
                            phase'[s] # "failed" /\ \A i \in Blocks : block'[s][i] # "failed"
<1> SUFFICES ASSUME NEW c \in Contents, Unharmed1(c)
             PROVE  Count(c)' = Cardinality(UsersOf(c))'
  BY Lasting DEF CountsUsers, Content
<1> DEFINE Users == {s \in Stores : Content(s) = c /\ phase[s] \notin {"new", "done", "failed"}}
           Users1 == {s \in Stores : Content(s) = c /\ phase'[s] \notin {"new", "done", "failed"}}
<1>1. UsersOf(c) = Users
  BY DEF UsersOf, Running
<1>2. UsersOf(c)' = Users1
  BY Lasting DEF UsersOf, Running, Content
<1>3. Unharmed(c)
  BY FailuresStay
<1>4. /\ IsFiniteSet(Users) /\ Cardinality(Users) \in Nat
      /\ Count(c) = Cardinality(Users)
  BY <1>1, <1>3, FS_Subset, FS_CardinalityType DEF CountsUsers
<1>5. CASE Finished
  <2>1. Users1 = Users /\ Count(c)' = Count(c)
    BY <1>5 DEF Finished, vars, entry, Count
  <2> QED
    BY <1>2, <1>4, <2>1
<1>6. ASSUME NEW r \in Stores, Begin(r) PROVE Count(c)' = Cardinality(Users1)
  <2>1. CASE Content(r) = c
    <3>1. Users1 = Users \cup {r} /\ r \notin Users
      BY <1>6, <2>1 DEF Begin, TypeOK
    <3>2. Cardinality(Users1) = Cardinality(Users) + 1
      BY <1>4, <3>1, FS_AddElement
    <3>3. Count(c)' = Count(c) + 1
      BY <1>6, <2>1, BeginCount
    <3> QED
      BY <1>4, <3>2, <3>3
  <2>2. CASE Content(r) # c
    <3>1. Users1 = Users
      BY <1>6, <2>2 DEF Begin, TypeOK
    <3>2. Count(c)' = Count(c)
      BY <1>6, <2>2, BeginCount, ContentType
    <3> QED
      BY <1>4, <3>1, <3>2
  <2> QED
    BY <2>1, <2>2
<1>7. ASSUME NEW r \in Stores, Work(r), Content(r) # c PROVE Count(c)' = Cardinality(Users1)
  <2>1. Users1 = Users
    <3>1. \A s \in Stores : s # r => phase'[s] = phase[s]
      BY <1>7, WorkCases DEF Succeeds, UpdateMaster, TypeOK
    <3> QED
      BY <1>7, <3>1
  <2>2. ASSUME NEW n \in Nat, currentOps' = Dropped(Content(r), n) PROVE Count(c)' = Count(c)
    BY <1>7, <2>2, DroppedCount, ContentType
  <2>3. Count(c)' = Count(c)
    BY <1>7, <2>2, WorkEntries DEF Count
  <2> QED
    BY <1>4, <2>1, <2>3
<1>8. ASSUME NEW r \in Stores, Work(r), Content(r) = c PROVE Count(c)' = Cardinality(Users1)
  <2>1. CASE Succeeds(r)
    <3>1. Users1 = Users \ {r} /\ r \in Users
      BY <1>8, <2>1 DEF Succeeds, UpdateMaster, TypeOK
    <3>2. Cardinality(Users1) = Cardinality(Users) - 1
      BY <1>4, <3>1, FS_RemoveElement
    <3>3. Cardinality(Users) > 0
      BY <1>4, <3>1, FS_EmptySet
    <3>4. Count(c)' = IF Count(c) <= 1 THEN 0 ELSE Count(c) - 1
      BY <1>8, <2>1, DroppedCount DEF Succeeds, UpdateMaster
    <3> QED
      BY <1>4, <3>2, <3>3, <3>4
  <2>2. CASE ~Succeeds(r)
    <3>1. phase'[r] # "failed" /\ \A i \in Blocks : block'[r][i] # "failed"
      BY <1>8
    <3>2. /\ currentOps' = currentOps
          /\ \/ phase' = phase
             \/ /\ phase[r] \in {"query", "joined", "store"}
                /\ \E p \in {"store", "attach", "verify", "publish"} : phase' = [phase EXCEPT ![r] = p]
      BY <1>8, <2>2, <3>1, WorkCases DEF TypeOK
    <3>3. Users1 = Users /\ Count(c)' = Count(c)
      BY <3>2 DEF Count, TypeOK
    <3> QED
      BY <1>4, <3>3
  <2> QED
    BY <2>1, <2>2
<1> QED
  BY <1>2, <1>5, <1>6, <1>7, <1>8 DEF Next

LEMMA InitCounts == Init => EntryHasUsers /\ CountsUsers
<1> SUFFICES ASSUME Init, NEW c \in Contents
             PROVE  /\ Count(c) <= Cardinality(UsersOf(c) \cup FailedOf(c))
                    /\ Count(c) = Cardinality(UsersOf(c))
  BY DEF EntryHasUsers, CountsUsers
<1>1. UsersOf(c) = {} /\ FailedOf(c) = {} /\ Count(c) = 0
  BY DEF Init, UsersOf, FailedOf, Running, Count
<1> QED
  BY <1>1, FS_EmptySet

\* What stays in currentOps without a user is due to stores that failed
\* (_updateMaster counts everybody out who succeeds).
THEOREM EntriesHaveUsers ==
  ASSUME IsFiniteSet(Stores)
  PROVE  Spec => []EntryHasUsers
<1>1. ASSUME IInv, EntryHasUsers, [Next]_vars PROVE EntryHasUsers'
  <2>1. CASE Next
    BY <1>1, <2>1, EntryStep DEF IInv
  <2>2. CASE UNCHANGED vars
    BY <1>1, <2>2 DEF vars, entry, EntryHasUsers, Count, UsersOf, FailedOf, Running, Content
  <2> QED
    BY <1>1, <2>1, <2>2
<1> QED
  BY InitCounts, Invariance, <1>1, PTL DEF Spec

\* While nothing fails, currentOps counts the stores that are busy with a
\* content (run, _updateMaster).
THEOREM UsersCounted ==
  ASSUME IsFiniteSet(Stores)
  PROVE  Spec => []CountsUsers
<1>1. ASSUME IInv, CountsUsers, [Next]_vars PROVE CountsUsers'
  <2>1. CASE Next
    BY <1>1, <2>1, CountsStep DEF IInv
  <2>2. CASE UNCHANGED vars
    BY <1>1, <2>2 DEF vars, entry, sent, CountsUsers, Count, UsersOf, Running, Content
  <2> QED
    BY <1>1, <2>1, <2>2
<1> QED
  BY InitCounts, Invariance, <1>1, PTL DEF Spec

-----------------------------------------------------------------------------
(* Every store ends.                                                       *)

\* What a store has before it: the phases that follow, the answer to its query,
\* and the steps of its blocks, each of which is sent to two nodes at most.
StageOf(p) ==
  IF p = "new" THEN 5
  ELSE IF p \in {"query", "joined"} THEN 3
  ELSE IF p \in {"store", "attach", "verify"} THEN 2
  ELSE IF p = "publish" THEN 1 ELSE 0
Due(q) == IF q = "asked" THEN 1 ELSE 0
Before(r, stages) == {i \in Blocks : block[r][i] \in stages}

Left(r) ==
  StageOf(phase[r]) + Due(query[r]) + Cardinality(Before(r, {"todo"}))
    + Cardinality(Before(r, {"todo", "first"}))
    + Cardinality(Before(r, {"todo", "first", "second"}))

\* What a step of a store does: a phase or the query goes on, or a block does.
LEMMA StoreStep ==
  ASSUME TypeOK, Early, NEW r \in Stores, Begin(r) \/ Work(r)
  PROVE  \/ /\ block' = block
            /\ \E p \in Phases, q \in {"none", "asked", "found", "absent", "failed"} :
                 /\ phase' = [phase EXCEPT ![r] = p] /\ query' = [query EXCEPT ![r] = q]
                 /\ StageOf(p) + Due(q) < StageOf(phase[r]) + Due(query[r])
         \/ /\ phase' = phase /\ query' = query
            /\ \E i \in Blocks, to \in {"first", "second"} \cup Settled :
                 /\ block[r][i] \in {"todo", "first", "second"} /\ to # block[r][i]
                 /\ block[r][i] = "second" => to \in Settled
                 /\ block' = [block EXCEPT ![r][i] = to]
<1> USE DEF entry, asked, sent, Phases
<1>1. phase[r] \in Phases /\ query[r] \in {"none", "asked", "found", "absent", "failed"}
  BY DEF TypeOK
<1>2. phase = [phase EXCEPT ![r] = @] /\ query = [query EXCEPT ![r] = @]
  BY DEF TypeOK
<1>3. ASSUME block' = block, query' = query,
             NEW p \in Phases, phase' = [phase EXCEPT ![r] = p],
             StageOf(p) < StageOf(phase[r])
      PROVE  /\ block' = block
             /\ \E s \in Phases, q \in {"none", "asked", "found", "absent", "failed"} :
                  /\ phase' = [phase EXCEPT ![r] = s] /\ query' = [query EXCEPT ![r] = q]
                  /\ StageOf(s) + Due(q) < StageOf(phase[r]) + Due(query[r])
  <2>1. StageOf(p) + Due(query[r]) < StageOf(phase[r]) + Due(query[r])
    BY <1>3 DEF StageOf, Due
  <2>2. query' = [query EXCEPT ![r] = query[r]]
    BY <1>2, <1>3
  <2> QED
    BY <1>1, <1>3, <2>1, <2>2
<1>4. CASE Begin(r)
  <2>1. /\ block' = block /\ phase[r] = "new"
        /\ \/ phase' = [phase EXCEPT ![r] = "joined"] /\ query' = [query EXCEPT ![r] = query[r]]
           \/ phase' = [phase EXCEPT ![r] = "query"] /\ query' = [query EXCEPT ![r] = "asked"]
    BY <1>2, <1>4 DEF Begin
  <2>2. StageOf("new") = 5 /\ StageOf("joined") = 3 /\ StageOf("query") = 3 /\ Due("asked") = 1
    BY DEF StageOf, Due
  <2>3. Due(query[r]) \in {0, 1}
    BY DEF Due
  <2> QED
    BY <1>1, <2>1, <2>2, <2>3
<1>5. CASE Answer(r)
  <2>1. PICK q \in {"found", "absent", "failed"} : query' = [query EXCEPT ![r] = q]
    BY <1>5 DEF Answer
  <2>2. block' = block /\ phase' = [phase EXCEPT ![r] = phase[r]] /\ query[r] = "asked"
    BY <1>2, <1>5 DEF Answer
  <2>3. StageOf(phase[r]) + Due(q) < StageOf(phase[r]) + Due(query[r])
    BY <2>1, <2>2 DEF Due, StageOf
  <2> QED
    BY <1>1, <2>1, <2>2, <2>3
<1>6. CASE Resume(r) \/ ResumeJoined(r)
  <2>1. /\ block' = block /\ query' = query /\ phase[r] \in {"query", "joined"}
        /\ phase' \in {[phase EXCEPT ![r] = p] : p \in {"failed", "store", "attach", "verify"}}
    <3>1. CASE Resume(r)
      <4>1. query[r] \in {"found", "absent", "failed"}
        BY <3>1 DEF Resume, Early, TypeOK
      <4> QED
        BY <3>1, <4>1 DEF Resume
    <3>2. CASE ResumeJoined(r)
      BY <3>2 DEF ResumeJoined
    <3> QED
      BY <1>6, <3>1, <3>2
  <2> QED
    BY <1>3, <2>1 DEF StageOf
<1>7. CASE StoreFails(r) \/ Publish(r) \/ Published(r) \/ PublishFails(r) \/ AttachEnds(r) \/ VerifyEnds(r)
  <2>1. /\ block' = block /\ query' = query
        /\ \/ phase[r] \in {"store", "publish", "attach", "verify"}
              /\ \E p \in {"done", "failed"} : phase' = [phase EXCEPT ![r] = p]
           \/ phase[r] = "store" /\ phase' = [phase EXCEPT ![r] = "publish"]
    BY <1>7 DEF StoreFails, Publish, Published, PublishFails, AttachEnds, VerifyEnds, Ends,
       UpdateMaster, UpdateMasterFails, Gone
  <2> QED
    BY <1>3, <2>1 DEF StageOf
<1>8. ASSUME NEW i \in Blocks, BlockWork(r, i)
      PROVE  /\ phase' = phase /\ query' = query
             /\ \E to \in {"first", "second"} \cup Settled :
                 /\ block[r][i] \in {"todo", "first", "second"} /\ to # block[r][i]
                 /\ block[r][i] = "second" => to \in Settled
                 /\ block' = [block EXCEPT ![r][i] = to]
  BY <1>8 DEF BlockWork, StoreBlock, BlockStored, RetryStoreBlock, GiveUpBlock, Attach, Attached,
     NotFound, Verified, NotVerified, SendTo, BlockGoes, Settled
<1> QED
  BY <1>4, <1>5, <1>6, <1>7, <1>8 DEF Work

\* Parts of the set of blocks can be counted, and a part that lacks one counts less.
LEMMA BeforeFinite ==
  ASSUME IsFiniteSet(Blocks), NEW S \in SUBSET Blocks
  PROVE  /\ IsFiniteSet(S) /\ Cardinality(S) \in 0 .. Cardinality(Blocks)
         /\ \A T \in SUBSET S : /\ IsFiniteSet(T) /\ Cardinality(T) <= Cardinality(S)
                                /\ T # S => Cardinality(T) < Cardinality(S)
<1>1. IsFiniteSet(S) /\ Cardinality(S) <= Cardinality(Blocks)
  BY FS_Subset
<1>2. Cardinality(S) \in Nat /\ Cardinality(Blocks) \in Nat
  BY <1>1, FS_CardinalityType
<1>3. ASSUME NEW T \in SUBSET S
      PROVE  /\ IsFiniteSet(T) /\ Cardinality(T) <= Cardinality(S)
             /\ T # S => Cardinality(T) < Cardinality(S)
  <2>1. IsFiniteSet(T) /\ Cardinality(T) <= Cardinality(S) /\ (Cardinality(T) = Cardinality(S) => T = S)
    BY <1>1, FS_Subset
  <2>2. Cardinality(T) \in Nat
    BY <2>1, FS_CardinalityType
  <2> QED
    BY <1>2, <2>1, <2>2
<1> QED
  BY <1>1, <1>2, <1>3

\* What is left is a number, bounded for all stores alike.
LEMMA LeftType ==
  ASSUME IsFiniteSet(Blocks), NEW r \in Stores
  PROVE  Left(r) \in 0 .. 6 + 3 * Cardinality(Blocks)
<1>1. StageOf(phase[r]) \in 0 .. 5 /\ Due(query[r]) \in 0 .. 1
  BY DEF StageOf, Due
<1>2. \A S : Before(r, S) \in SUBSET Blocks
  BY DEF Before
<1>3. \A S : Cardinality(Before(r, S)) \in 0 .. Cardinality(Blocks)
  BY <1>2, BeforeFinite
<1>4. Cardinality(Blocks) \in Nat
  BY FS_CardinalityType
<1> HIDE DEF StageOf, Due
<1> QED
  BY <1>1, <1>3, <1>4 DEF Left

\* A step of a store lowers it for that store only.
LEMMA LeftStep ==
  ASSUME IsFiniteSet(Blocks), TypeOK, Early, NEW r \in Stores, Begin(r) \/ Work(r)
  PROVE  Left(r)' < Left(r) /\ \A s \in Stores \ {r} : Left(s)' = Left(s)
<1>1. ASSUME NEW s \in Stores \ {r} PROVE Left(s)' = Left(s)
  <2>1. phase'[s] = phase[s] /\ query'[s] = query[s] /\ block'[s] = block[s]
    <3>1. /\ phase \in [Stores -> Phases] /\ block \in [Stores -> [Blocks -> {"todo", "first", "second"} \cup Settled]]
          /\ query \in [Stores -> {"none", "asked", "found", "absent", "failed"}]
      BY DEF TypeOK
    <3>2. \/ \E p, q : block' = block /\ phase' = [phase EXCEPT ![r] = p] /\ query' = [query EXCEPT ![r] = q]
          \/ \E i, to : phase' = phase /\ query' = query /\ block' = [block EXCEPT ![r][i] = to]
      BY StoreStep
    <3> QED
      BY <3>1, <3>2
  <2> QED
    BY <2>1 DEF Left, Before
<1> DEFINE A == Before(r, {"todo"})
           B == Before(r, {"todo", "first"})
           C == Before(r, {"todo", "first", "second"})
<1>2. A \in SUBSET Blocks /\ B \in SUBSET Blocks /\ C \in SUBSET Blocks
  BY DEF Before
<1>3. Cardinality(A) \in Nat /\ Cardinality(B) \in Nat /\ Cardinality(C) \in Nat
  BY <1>2, BeforeFinite, FS_CardinalityType
<1>4. /\ StageOf(phase[r]) \in Nat /\ Due(query[r]) \in Nat
      /\ StageOf(phase'[r]) \in Nat /\ Due(query'[r]) \in Nat
  BY DEF StageOf, Due
<1>5. ASSUME /\ block' = block
             /\ \E p \in Phases, q \in {"none", "asked", "found", "absent", "failed"} :
                  /\ phase' = [phase EXCEPT ![r] = p] /\ query' = [query EXCEPT ![r] = q]
                  /\ StageOf(p) + Due(q) < StageOf(phase[r]) + Due(query[r])
      PROVE  Left(r)' < Left(r)
  <2>1. A' = A /\ B' = B /\ C' = C
    BY <1>5 DEF Before
  <2>2. StageOf(phase'[r]) + Due(query'[r]) < StageOf(phase[r]) + Due(query[r])
    <3>1. phase \in [Stores -> Phases] /\ query \in [Stores -> {"none", "asked", "found", "absent", "failed"}]
      BY DEF TypeOK
    <3> QED
      BY <1>5, <3>1
  <2>3. Left(r)' = StageOf(phase'[r]) + Due(query'[r]) + Cardinality(A) + Cardinality(B) + Cardinality(C)
    BY <2>1 DEF Left, StageOf, Due
  <2> HIDE DEF A, B, C
  <2>4. Left(r) = StageOf(phase[r]) + Due(query[r]) + Cardinality(A) + Cardinality(B) + Cardinality(C)
    BY DEF Left, A, B, C
  <2> QED
    BY <1>3, <1>4, <2>2, <2>3, <2>4
<1>6. ASSUME /\ phase' = phase /\ query' = query
             /\ \E i \in Blocks, to \in {"first", "second"} \cup Settled :
                  /\ block[r][i] \in {"todo", "first", "second"} /\ to # block[r][i]
                  /\ block[r][i] = "second" => to \in Settled
                  /\ block' = [block EXCEPT ![r][i] = to]
      PROVE  Left(r)' < Left(r)
  <2>1. PICK i \in Blocks, to \in {"first", "second"} \cup Settled :
          /\ block[r][i] \in {"todo", "first", "second"} /\ to # block[r][i]
          /\ block[r][i] = "second" => to \in Settled
          /\ block' = [block EXCEPT ![r][i] = to]
    BY <1>6
  <2>2. /\ block'[r][i] = to
        /\ \A j \in Blocks : j # i => block'[r][j] = block[r][j]
    BY <2>1 DEF TypeOK
  <2>3. A' \in SUBSET A /\ B' \in SUBSET B /\ C' \in SUBSET C /\ (A' # A \/ B' # B \/ C' # C)
    BY <2>1, <2>2 DEF Before, Settled
  <2>4. Left(r)' = StageOf(phase[r]) + Due(query[r]) + Cardinality(A') + Cardinality(B') + Cardinality(C')
    BY <1>6 DEF Left, StageOf, Due
  <2>5. /\ Cardinality(A') <= Cardinality(A) /\ Cardinality(B') <= Cardinality(B)
        /\ Cardinality(C') <= Cardinality(C)
        /\ \/ Cardinality(A') < Cardinality(A) \/ Cardinality(B') < Cardinality(B)
           \/ Cardinality(C') < Cardinality(C)
    BY <1>2, <2>3, BeforeFinite
  <2>6. Cardinality(A') \in Nat /\ Cardinality(B') \in Nat /\ Cardinality(C') \in Nat
    BY <1>2, <2>3, BeforeFinite, FS_CardinalityType
  <2> HIDE DEF A, B, C
  <2>7. Left(r) = StageOf(phase[r]) + Due(query[r]) + Cardinality(A) + Cardinality(B) + Cardinality(C)
    BY DEF Left, A, B, C
  <2> QED
    BY <1>3, <1>4, <2>4, <2>5, <2>6, <2>7
<1>7. Left(r)' < Left(r)
  BY <1>5, <1>6, StoreStep
<1> QED
  BY <1>1, <1>7

\* Each step takes one store further and leaves the others where they are: no
\* store makes more than 6 + 3 * code_m steps, so none goes round in circles of
\* retries (StoreFile.run).
THEOREM StoresEnd ==
  ASSUME IsFiniteSet(Blocks)
  PROVE  Spec => /\ [](\A r \in Stores : Left(r) \in 0 .. 6 + 3 * Cardinality(Blocks))
                 /\ [][\E r \in Stores : /\ Left(r)' < Left(r)
                                         /\ \A s \in Stores \ {r} : Left(s)' = Left(s)]_vars
<1>1. \A r \in Stores : Left(r) \in 0 .. 6 + 3 * Cardinality(Blocks)
  BY LeftType
<1>2. IInv /\ [Next]_vars =>
        [\E r \in Stores : /\ Left(r)' < Left(r)
                           /\ \A s \in Stores \ {r} : Left(s)' = Left(s)]_vars
  BY LeftStep DEF IInv, Next, Finished
<1> QED
  BY <1>1, <1>2, Invariance, PTL DEF Spec
=============================================================================
