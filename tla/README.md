# A TLA+ development of flud

flud is a peer-to-peer backup program: a node encrypts and erasure-codes a file,
stores the blocks with other nodes, and finds nodes and metadata through a
Kademlia-like DHT. This directory has TLA+ models of its parts, TLC
configurations that check them on small instances, and proofs that hold for
every instance. `PROJECT.json` is the index: runs, mutants, the source lines of
every definition, findings, hazards, theorems. Paths below are under `src/flud/`.

## 1. Inventory

A node runs two event loops, each in a thread of its own: the *runtime* loop
(client operations, local commands) and the *server* loop (requests of peers).
They share the configuration object, the routing table and the module-level maps
of the client primitives. Inside a loop, code between two awaits is atomic.

| Component | State | Operations | What is hard | What makes it correct |
|---|---|---|---|---|
| Routing table, `FludkRouting.py` | list of buckets (range, contacts by recency), replacement cache | insertNode, updateNode, findNode, getNode, split | both threads insert, no lock; recursion after a split; inclusive ranges | ranges partition the ids, a contact is where it is looked for, bounded, nobody forgotten, every call returns |
| Membership, `protocol/FludCommUtil.py`, `FludConfig.py` | known nodes, reputations, throttled, pending GETIDs | updateNode(s), addNode, modifyReputation, throttleNode, getPreferredNodes | callbacks of GETID, failures, table and cache disagree | a node seen becomes known; a failed GETID can be repeated; preferred nodes exist |
| Block storage, `protocol/AiohttpServer.py`, `protocol/BlockFile.py`, `TarfileUtils.py` | one tarball per peer for small blocks; one BlockFile per large block, with an accounting of owners and metadata keys | STORE, RETRIEVE, VERIFY, DELETE | repeated requests, blocks shared by peers, counting of tarball members, crashes between file operations | what is acknowledged is kept until its owner deletes it; what is deleted goes |
| Client primitives, `protocol/ClientPrimitives.py` | timeout and challenge counters of one request | store, retrieve, delete, verify, getid | lost answers: the request was or was not carried out | an operation ends, with the answer or an error |
| Aggregation, `AggregateStore` there | batch files, waiters per batch and member, timers | add to batch, send, complete, fail | a batch fills while another is sent under the same name; timers | every waiter is answered once, with the outcome of its own block |
| Store deduplication, `protocol/FludClient.py` | store tasks in flight | store | two stores of one block | both get the result |
| Challenges, `protocol/AiohttpServer.py` | outstanding challenges with expiry | challenge, answer | answered once, retries, expiry | a valid answer is accepted once, a retry gets a new challenge |
| DHT lookup, `protocol/ClientDHTPrimitives.py` | queried, pending, outstanding, k closest | k_find_node, k_find_value, k_store | rounds of parallel queries, failures, duplicates | ends; returns the closest live nodes it heard of |
| DHT storage, `protocol/AiohttpServer.py` | a file per key | put, get, find node | last writer wins | a get returns a value that was put |
| Storing files, `FludFileOperations.py` | operation per file with a user count, node choices, block locations | encode, query, store or verify blocks, store metadata, update manifest | concurrent stores of one file, retries, partial failure | the count is the number of users; metadata names the nodes that have the blocks |
| Retrieving files, same file | collected blocks, requested indices, retries | find metadata, fetch, decode, decrypt | retries, bad blocks, shared temporary files, names that are taken, moves that fail | enough good blocks give the file; what is restored stays; it ends |
| Manifest, `FludConfig.py`, `FludFileOperations.py` | in memory, on disk, in the network | update, sync, load, publish, retrieve | two updates interleave, crash in a rewrite | no completed store is lost from it |
| Scheduler, `FludScheduler.py` | selection, manifest copy, check time | poll, compare, store | changes during a poll | a changed selected file is stored again |
| Local protocol, `protocol/AsyncLocal*.py` | connection, authentication, counters of running operations | AUTH, PUTF, GETF, ... | limits, one request at a time | answers match requests; limits hold |
| Runtime, `async_runtime.py`, `FludNode.py` | loop thread | submit, start, stop, connect to gateway | none of its own | |
| `fencode.py`, `fludfilefec.py`, `FludCrypto.py` | none | codec, erasure code, keys and hashes | length limits | decode inverts encode |
| GUI, `FludClient.py` | tree of checkbox states | toggle | propagation up and down | parent and children agree |
| `Reputation.py`, `FludFileVersions.py` | not used by the program, or a comment | | | |

`PROJECT.json` lists every hazard at its line, with the property that covers it
or the reason why none does.

## 2. The modules

| Module | Role |
|---|---|
| `KBuckets` | the routing table |
| `MCKBuckets` | id sets for TLC |
| `Membership` | `updateNode`, known nodes, reputations and replacement cache, over `KBuckets` |
| `MCMembership` | a small neighbourhood for TLC |
| `Membership_proofs` | theorems about the routing table and membership |
| `BlockRefs` | the promise of block storage, abstractly |
| `BlockStore` | the server's block storage and its clients' retries |
| `MCBlockStore` | symmetry for TLC |
| `BlockStore_proofs` | theorems about the block storage, the refinement among them |
| `AggregateStore` | how the client sends small blocks: batches, timers, waiters |
| `MCAggregateStore` | symmetry for TLC |
| `AggregateStore_proofs` | theorems about the batches |
| `FileStore` | how a file is stored: shared queries, blocks, metadata, manifest |
| `MCFileStore` | symmetry for TLC |
| `FileStore_proofs` | theorems about storing files |
| `FileRetrieve` | how a file is retrieved: blocks, decoding threads, restoring |
| `MCFileRetrieve` | symmetry for TLC |
| `FileRetrieve_proofs` | theorems about retrieving files |
| `Lookup` | a lookup in the DHT, and what its answers teach the node |
| `MCLookup` | a small network for TLC |
| `Lookup_proofs` | theorems about lookups |
| `BlockStoreDisk` | the files behind `BlockStore`, and crashes |
| `MCBlockStoreDisk` | symmetry for TLC |
| `BlockStoreDisk_proofs` | theorems about the files: crashes, the refinement |
| `Manifest` | the manifest, local commands and the scheduler, with crashes |
| `MCManifest` | a directory tree for TLC |
| `Manifest_proofs` | theorems about the manifest |

How they fit together: `Membership` extends `KBuckets`, its steps are steps of the
table or leave it alone. `BlockStoreDisk` instantiates `BlockStore` and is shown to
implement it, which is shown to implement `BlockRefs`. The others are composed by
what each takes from the next: a store (`FileStore`) looks nodes and metadata up
(`Lookup`), sends blocks (`AggregateStore` for small ones) to servers
(`BlockStore`), and ends with a manifest entry (`Manifest`); a retrieval
(`FileRetrieve`) looks metadata up and reads blocks. In the module of the caller,
the callee is a step that ends with any outcome the callee's module allows.

### KBuckets

*State.* The list of buckets is a function keyed by first id (`begins`, `endOf`,
`contents`); `kRouting.kBuckets` is sorted by it and no bucket's first id ever
changes. Each calling thread has the contact it is inserting (`todo`), whether it
is in a recursive frame (`nested`), and what its last call returned (`answer`).
`Seen` are the contacts that are ever inserted. The history variable `alone` says
of a call that no other thread has been inside `insertNode` while it was.

*Actions.* `Call`: a peer is seen (`updateNode`, `FludConfig.addNode`).
`Insert`, `Split`, `Refuse`: the three ways through a frame of `insertNode`:
`addNode` succeeds; the bucket overflows and holds the local node; it overflows
and does not. A frame is one step, so threads interleave between frames.
`Split` models `_splitBucket` whole, with the move of contacts.

*Abstractions.* The recency order inside a bucket (contents are sets; *which* contact
is the oldest matters to no live caller); the replacement cache, which `Membership`
has; the public key, part of `addr`; the steps inside a frame (threads can interleave
there too, see the hazards). `removeNode` and `replaceNode` are left out: their only
call, in `FludCommUtil.updateNode`, depends on a result of `kRouting.updateNode`,
which returns nothing.

*Fairness.* `FairSpec` has weak fairness of `Frame(c)` for each thread: a thread
in `insertNode` holds no lock, waits for nothing, and is scheduled. Nobody is
obliged to call.

### Membership

*State.* `nodes`, `rated`, `cache` and `pendingGETID` are `config.nodes`, the keys of
`config.reputations`, `replacementCache` and `updateNodePendingGETID`. `getids` are
the GETIDs on their way, `keys` those answered whose callback has not run. `at[t]`
is where in `updateNode` thread t is, `who[t]` for whom. History: `met`, whose key
came; `disputed`, for whose id the key of another came; `strangers`, `evicted` and
`untold`, the three ways to have a reputation and no contact.

*Actions.* `Visit` is a request that reaches the server thread, `Meet` a node that
the runtime thread sees with its key, `Hear` one it only learns the id of, which
may send a GETID. `GetidAnswers` and `GetidFails` end it, `Callback` is
`_handle_get_id`. Then a thread goes through `updateNode`: `Unpend` or `Expose`
delete the note of the GETID, `Check` looks at the known nodes, `Add` and `Conclude`
are `addNode` before and after `insertNode`, and the frames of `insertNode`, called by
`addNode` or by `routing.updateNode`, are those of `KBuckets` with what they do to the
cache. `ModifyReputation` rates a node that a block was looked for at. `GetNode` is
what `getPreferredNodes` asks for each id with a reputation.

*Abstractions.* Of a reputation, only that there is one: scores decide the order
of the preferred nodes, and no caller asks for throttling. Which contact the cache
drops: any. A thread can be interrupted where it might see, or lose, what the other
has done: not between the two looks at the known nodes (`updateNode` and `addNode`
ask the same), nor inside `Conclude`. Reputations are read from the configuration
at the start but never written there, so a node begins with none.

*Odd code, modelled as it is.* `routing.updateNode` drops what `insertNode` returns, so
a full bucket keeps its contacts, dead or not, and the cache waits for nothing
(`RefuseFrame`). A contact leaves the cache only when it is inserted itself. The
deletion of the note raises KeyError in the thread that comes second, which ends
that `updateNode` (`Unpend`). With the wrong key, the note is deleted before the
keys are compared (`Expose`). A GETID that fails leaves its note for good.

*No fairness.* The properties are about safety; that `insertNode` returns is
checked in `KBuckets`.

### BlockStore and BlockRefs

*State.* `tar[n]`: member names of peer n's tarball, `<<b, Data>>` for a block
and `<<b, m>>` for its metadata under key m. `onDisk`, `acct[b]`: the BlockFiles
and the pairs of node and key in their accounting. `request`, `timeouts`: each
peer's request and its timeouts so far. Two history variables: `owed`, what a
peer had acknowledged and has not asked to delete; `doubt`, what it gave up on.

*Actions.* `Ask`: the client sends an aggregated STORE, a direct STORE, a VERIFY
with metadata or a DELETE. `Serve`: the handler runs and the answer arrives.
`LoseAnswer`: it runs and the answer is lost. `LoseRequest`: it does not run.
Both losses end in `TimeOut`: another try, or giving up after `MaxTimeouts`. The
handlers (`StoreTar`, `StoreDirect`, `Verify`, `Delete`) contain no await between
reading the form and answering, so each is one step.

*Odd code, modelled as it is.* STORE's `hasNode` gets a string where the
accounting has integers, so owners are always added (`Recorded`); with only the
types repaired, a second metadata key of one node would be lost (the mutant
`RecordedOnce` breaks `Kept`). `TarfileUtils.delete` removes names from the list
it iterates over and then compares counts (`Pruned`, `TarDelete`).

*Abstractions.* Contents of blocks and metadata (a key stands for both; metadata
is always sent, as the callers in the file operations do). `.tar` and `.tar.gz`
are one tarball: without crashes a peer has at most one of them. A tarball is a set of
names: that STORE adds a member twice if the tarball sent holds it twice, as when one
reference is stored twice in a batch, is left out. A peer has one request outstanding;
an answer that is late counts as lost, and a request is not carried out after
the client gave up. Direct STOREs below 8192 bytes and uncompressed `.tar`
uploads are not sent by this client. Challenges are answered inside a try.
Crashes are the subject of `BlockStoreDisk`.

*The promise.* `BlockRefs` has one set of references `<<peer, block, key>>`, and
each request adds or removes exactly those it names; an answered STORE or DELETE
has been carried out, and a VERIFY is not refused to a peer the block is kept
for. `BlockStore` implements it with `held <- Served`, the references RETRIEVE
would serve, block and metadata; `request`, `owed` and `doubt` are the same.

### AggregateStore

*State.* `answer[r]` is where the call `r` of `store` stands; `batch[r]` the
tarball its constructor appended to, number 0 for the first name of the
destination and n for generation n. `tar`, `work` and `gz` are the files
`.tar`, `.tar.sending` and `.tar.gz` of each name. `known` and `waiting` are
`aggregate_waiters`: the names in it and, per name, the calls with a waiter.
`timer[r]` is the phase of the timer of `r` and of the send it starts. The
history variable `stored` has what the destination acknowledged, `overlap` says
whether a timer was set for a tarball that another one was about to send.

*Actions.* `Construct` is the constructor under the lock, `ResetTimeout` what
follows, `Schedule` the callback `_schedule`, `Fire` a timer that goes off.
`Rename`, `ZipOpen`, `ZipClose` are the steps of `_prepareTarball` in the
worker thread, `Post`, `Accept`, `Refuse` the exchange with the destination,
`Complete` and `Fail` `completeTarfiles` and `failTarfiles`. `Rejoin` is
`FludClient.store` finding the store of the same path in `current_store_tasks`:
it awaits its coroutine a second time, which raises.

The loop runs one step at a time and the worker runs beside it: only in
`Construct`/`ResetTimeout`, where the loop is between two locked parts, can the
two interleave inside a step of the loop (`adding`). The steps of `Complete` and
`Fail` do not lock; while they run no other loop step does, and the worker has
only the files of its own send, which the model lets change before or after.

*Abstractions.* Delays: an armed timer may go off at any time, and callbacks that
are ready run in any order. One destination. Contents: a member is a file and
`Data` or a metadata key. The retries of a send are one phase in which `Post`
may repeat. Two paths that have the same base name are two calls for one file.

*Odd code, modelled as it is.* A send that finds its tarball gone answers like
one that was refused. `completeTarfiles` passes over members that end in
`.meta`, `failTarfiles` does not, and stops at the first one with a KeyError
(`KeyErrors`, `Popped`). A store of a file that the tarball holds already adds
its metadata again, not its data (`Added`).

*Fairness.* Weak fairness of `Work(r)` and `Post(r)`: the loop runs what is ready,
`call_later` comes true, the thread pool goes on, and a request ends in an answer
or its last timeout. `Store` is up to the caller. `Work` and `Post` are apart
because a repeated `Post` must not count as progress.

### FileStore

*State.* `want[r]` is the file that the store `r` is for, by its path and the hash
of its content; `phase[r]` the await it is at. `currentOps[c]` is the class's map:
the store whose DHT query is shared, and the count of users. `query`, `meta`,
`leader` describe that task and its result. `nodeChoices` and `usedNodes` are the
attributes of the same names; `block[r][i]` and `at[r][i]` say how far a block is
and where it goes. `cleared[r]` is the assignment `self.sfiles = []` of
`_verifyBlockAsync`. The history variable `shares` says who acknowledged which block
with whose metadata. `published` is the DHT, `manifest` the entries of files.

*Actions.* One event loop runs all stores, so an action is what happens between
two awaits. `Begin` is `run` up to its query, or up to its wait for another's;
`Answer` the end of the query, `Resume` and `ResumeJoined` what follows it.
`StoreBlock`, `BlockStored`, `RetryStoreBlock`, `GiveUpBlock` are the coroutine of a
block, `StoreFails`, `Publish`, `Published`, `PublishFails` what comes after all of
them have settled. `Attach` and `AttachEnds` are `_attachMetadataAsync`;
`NotFound`, `Verified`, `NotVerified`, `VerifyEnds` are
`_verifyAndStoreBlocksAsync` for a store that joined another. Each way of a store to
its end leads through `_updateMaster`, which can raise before it counts the store out
(`UpdateMasterFails`), with the entry made or not.

*Abstractions.* The DHT keeps what it was given and may fail to find it. A node
that takes a block keeps it (what block storage promises is `BlockStore`'s part).
Contents are their hashes; temporary files are left out except where a missing
one raises. No more than `code_m + 10` nodes are known, so a store starts with
all of them. Each store encrypts with a random vector, so block names of two
stores differ, `_compareMetadata` is always false, and the branch after it is left
out. Manifest entries of parent directories and reputations are left out.

*Odd code, modelled as it is.* A block that fails twice counts its store out
twice (`GiveUpBlock`). A joined store that gets no metadata, and any store whose
`k_store` or `_updateMaster` fails, is never counted out (`ResumeJoined`,
`PublishFails`, `UpdateMasterFails`). When VERIFY
fails for a joined store, the block is stored from a file that does not exist, and
the error is dropped (`NotVerified`). `_attachMetadataAsync` ignores every failure,
so a store can succeed though no node has taken its metadata (`Attach`).

*No fairness.* Each step of a store takes it further and none is repeated;
deadlock is checked, with `Finished` for the end, so every store ends.

### BlockStoreDisk

*State.* `gz[n]`, `tar[n]`: the members of `.tar.gz` and `.tar` of peer n; `file[b]`:
the accounting of a BlockFile. Each may also be `Absent` or `Torn`, opened for
writing and not closed; a large block can be `Raw`, received and not yet a
BlockFile. `job` is the request being carried out, `step` its next file operation,
`left` what that will write. History: `owed` and `doubt` as in `BlockStore`, and
`hurt`, who lost data in one of the ways the module names.

*Actions.* `Begin`, then a file operation per step: `StoreTar`, `VerifyTar`,
`DeleteTar`, `OpenBlock` decide (a DELETE can return, or remove the file, before it
rewrites anything, also a torn one), `Sweep` removes torn tarballs before a new large
block is received, `OpenTar` ... `RemoveGz` decompress, `Append`,
`Close` change, `OpenGz` ... `RemoveTar` compress, `DropTar`, `PlaceGz`, `PlaceTar`
put a rewritten tarball in its place, `Receive`, `Convert`, `WriteAccounting`,
`CloseBlock`, `RemoveBlock` are those of a BlockFile. `Crash` comes between any two.
The handlers do not await, so requests do not interleave.

*The refinement.* `Store == INSTANCE BlockStore`: what RETRIEVE could read between
requests is the tarball there, and a request in progress shows the files as they
were when it came. While nothing crashes and every rename works, each request is
one step of `BlockStore` (`ImplementsStore`).

*Odd code, modelled as it is.* A crash while `.tar` is compressed leaves a torn
`.tar.gz` beside the good `.tar`; the next STORE, VERIFY or DELETE opens `.tar` for
writing, to decompress the torn file into it (`OpenTar`), and loses both.
`TarfileUtils.delete` removes the tarball before it renames the new one from the
temporary directory, `BlockFile.convert` renames from there too: where that is
another file system, a DELETE loses the whole tarball, and a large block stays
`Raw`, refused for good. The accounting is rewritten in place.

*Abstractions.* Contents, as in `BlockStore`. The order of pages on a disk is not
modelled: what was closed is there after a crash. `oneDevice` is chosen once.

### Lookup

*State.* An id is its distance from the key, which is the only use the code makes
of it. `owner[d]` is who is at address d; a contact is an id and an address, and
outlives its node. `queried`, `pending`, `kclosest` are the attributes of the
same names, `batch` the queries of a round that were not looked at yet
(`outstanding`); `nodes` and `pendingGETID` belong to the configuration and to
`FludCommUtil`. History: `heard`, `answered`, `failed`.

*Actions.* `BeginNode` and `BeginValue` ask the own table and the own server,
`NextRound` takes the closest that are pending, `Answers`, `AnswersValue`,
`QueryFails` are the results of a round in order, `Exhausted` the end. A result that
is found cuts the round short (`CutShort`): `gather` has waited for all of it, so what
the rest answers is not looked at but its nodes are met (`Unread`), and then the
lookup returns (`Returned`). `StoreAt` and `Stored` are the second half of `k_store`.
`GetidDone` and `GetidFails` are the callbacks of the GETIDs that `updateNode` sends
for nodes it does not know.

*Abstractions.* Lookups share only what they teach the node, so one is modelled,
begun with any knowledge. A node may name any contacts, k of its table and one
more: nothing is assumed of the other nodes but that they run this code. The
steps of `updateNode` are one. A network does not change during a lookup.

*Odd code, modelled as it is.* All that is reachable is asked, not only what is
close. A failed contact comes back when it is named again; a dead one that
displaces another in `kclosest` makes the result short. An answer with one node
of the very id ends the lookup (`IsExact`). The first value, in the order of the
queries, wins. `k_find_value` asks the local server first, and fails if that does
(`BeginValue`). `k_store` raises after some nodes have stored the value. A GETID
that fails is never sent again (`GetidFails`). Who answers is noted under its own
id, so a contact whose address has a new owner is asked again each time it is
named: then a lookup need not end.

*Fairness.* Weak fairness of the lookup's own steps: a query ends, with an answer
or after `MAXTIMEOUTS` tries, and the loop runs what is ready.

### FileRetrieve

*State.* One storage key: retrievals of one content, whatever paths they are for,
use the same files in the client directory. `phase[r]` is the await a retrieval
is at; `meta`, `asked`, `got`, `bad`, `retries` are its block bookkeeping; `thread`,
`headers` the decoder in its worker thread; `shares`, `out`, `writers` the files
of blocks, `.rec1` and `.m`, and whose open handle is still the file of that
name; `files[n]` what is under each name where a file can go back: its path, that
with `.recovered` or a stamp, and the same in the client directory. `held[b]` says
whose metadata the node of block b has, `twice` which paths were stored again, so
that nodes may have metadata of either store. History: `alone[r]`, nobody else has
run beside r; `saved[x]`, where x has put what; `aims[x]`, the names x has moved to.

*Actions.* `Begin`, `Found`, `AskFails`, `Fetched`, `NotFetched`, `RetrievedAll` find
blocks; `OpenOutput`, `Decode`, `RemoveShares` are the steps of `decodeData` in the
thread, for the data and then for the metadata; `NoMetadata`, `NoData`, `Restore`
what the loop does with the result. `Restore` is the end of `_decryptFile`, which does
not await: `GoesBack` looks whether a file is there, compares it (`SameFile`), drops
the copy, renames it, or moves it `Aside`, to `.recovered`, to a name with a stamp, or
to the client directory; each may be refused by the file system, a move also when it
has written a part (`MoveFails`), and then the retrieval ends `refused`, whether the
file is there (`utime`, `chmod`) or not (`mkdir`, `rename`). `OtherVersion` is this
last step of a retrieval with another key, of what the path held at another time.

*Abstractions.* A node returns what was stored or nothing. Metadata names `code_m`
blocks, each once. Which blocks are best depends on reputations: any. A file beside
which flud put nothing may be absent, the same, another version or foreign, which is
settled when somebody looks (`unseen`); nobody else changes files meanwhile, and the
client directory has no recovered files at first. No path lies in the client
directory under the name that a fallback uses. `Seconds` is what the clock can say,
in no order. Shares of two stores of a path, decoded together, are refused or give a
mixture (`Decode`); a mixture cannot be decrypted.

*Odd code, modelled as it is.* The list of bad nodes is emptied before each retry,
so nothing is ever skipped because of it; shares that cannot be decoded fail the
retrieval though blocks remain, since the retry there is a call of a method that
does not exist. An error of the query is returned like a result. An entry of a
directory is retrieved by its manifest entry instead of its key, which fails
(`InDir`). Without a path, the metadata key is True and a file named after it is
expected, which no node sends (`ByKey`): GETI and GETM always fail, and PUTM, which
retrieves the manifest first, works only because it drops the result. Retrievals
of one content take each other's shares and outputs.

*No fairness.* Every step takes a retrieval further; deadlock is checked, with
`Finished` for the end, so every retrieval ends.

### Manifest

*State.* `memory`, `disk`, `net[r]`: the paths in the manifest in the node, in its
file, and in the one whose key replica r holds. `saving` is the runtime thread
inside `_updateMaster`. `request[c]` is the local command client c waits for.
The scheduler has `phase`, `known` (`mastermetadata`), `todo` and `connected`.
History: `acked`, the files whose PUTF was answered, and `hurt`, that a crash came
between `open(..., 'w')` and `close`.

*Actions.* `UpdateMaster`, `AddDir`, `DirGone`, `OpenDisk`, `WriteDisk` are the
statements of `_updateMaster` and `syncManifest`, apart because the server thread runs
beside them. `StartPutm`, `ReadManifest`, `Publish`, `Published` are `UpdateManifest`,
`StoreFails` a store that fails, which is answered with an error or, when a block
could not be stored, with False as if it had succeeded; `CacheFails` is the copy of
the metadata that cannot be written once the manifest is. `ListStarts` and `Listed`
encode the answer to LIST in the server thread. `AskList`, `GetList`, `Scan`, `Put`,
`PutEnds`, `AllSent` are the scheduler's loop. `Crash`, `Restart`, `StartScheduler`.

*Abstractions.* What happens inside a store is `FileStore`'s part. A user sends one
command, which is what the lock of the client allows at a time. A torn manifest
is empty, complete or undecodable. `fludfile.conf` does not change. A crash of the
node closes its connections. A PUT to a replica that lands after its client
has given it up is left out. A file that was created stays, and changes of it do not
matter: what is listed is never stored again. (A directory above it can be gone,
`DirGone`.)

*Odd code, modelled as it is.* LIST encodes the dictionary without its lock; if an
entry is added meanwhile this raises, outside of the try, and the client waits
forever with its lock held. An answer of more than 64 KiB ends the scheduler at
each start (`MaxListed`). An error that is returned, as by PUTM, cannot be encoded,
and there is no answer either. LIST is sent at the start and after storing only.
A file in a selected directory counts as stored once the directory is listed,
which the first file stored from it does (`Changed`). An entry that is listed
before the manifest is on disk is lost by a crash, and the scheduler never sends
that file again. With an undecodable manifest the node does not start.

*Fairness.* Weak fairness of the runtime thread's steps for each client, of the
saving, of LIST and of the scheduler: threads and processes are scheduled. None
for users, failures, crashes, restarts.

## 3. Runs

| Run | Instance | Checks | Result |
|---|---|---|---|
| `table_threads` | ids 0..16, depth 3, 7 ids, 2 of them at 2 addresses, 2 threads | `Partition`, `Placed`, `OneContactPerId`, `Capacity`, `NothingForgotten`, `NoneMeansInsertedInside`, `InsertReturns` | holds |
| `membership_threads` | 5 ids in a half that is not ours, depth 3, 2 threads, a cache for 1, 2 ids at one address | `RatedResolve`, `CachedHasNoRoom`, `MetIsKnown` | holds |
| `store_shared` | 2 peers, 1 large block, 2 keys, everything may be lost, 2 tries | `Kept`, `NothingExtra`, `NoOrphans`, `ImplementsBlockRefs` | holds |
| `store_tarball` | 1 peer, 2 small blocks, 2 keys, STORE and VERIFY may be lost | the same | holds |
| `store_redelete` | 1 peer, 1 small block, 2 keys, DELETE may be lost | `Kept` | violated |
| `agg_batches` | 3 calls, 2 files, 1 key | `Truthful`, `Carried`, `StrandedOnlyByFailure`, `AnsweredOnce` | holds |
| `agg_answered` | 2 calls, 2 files, 1 key | `Answered` | holds |
| `fs_stores` | 3 stores, 1 path, 2 contents, 2 blocks, 2 nodes, code_k 3 | `PublishedHeld`, `ListedPublished`, `EntryHasUsers`, `CountsUsers`, no deadlock | holds |
| `fr_twins` | 2 retrievals or one and one of another version, 1 path, 3 blocks of which 2 are enough, 1 retry, 2 seconds | `RestoresWhole`, `FailsForBlocks`, `SavedStays`, no deadlock | holds |
| `lookup_network` | 3 nodes, 4 contacts, one at an address that is free, kept or taken, k = a = 2 | `ResultAlive`, `ResultClosest`, `FoundIfHeld`, `Introduced`, `Ends` | holds |
| `disk_crashes` | 2 peers, 1 small and 1 large block, 2 keys, 1 crash, one or two devices | `LostOnlyWhereExposed`, `ImplementsStore` | holds |
| `manifest_scheduler` | a selected file and one in a selected directory, 2 users, 1 replica, 1 failed store, 1 crash | `AckedAreListed`, `NeverOlder`, `SelectedGetsStored` | holds |

*Bounds.* Depth 3 with 17 ids (an inclusive range, as `2**bits` in the code) lets
the local bucket split down to the single ids around us, lets a half that does
not hold us fill up, and lets a split leave everything on one side; the ids were
chosen on both sides of each halfpoint, with the last id of a half among them.
Two threads are enough for one to act between the frames of the other. Our own id
comes to be the last one of its bucket, and two ids are seen at a second address,
so that contact information is replaced, in a full bucket too. For membership, the
half that is not ours takes three of five contacts: the other two compete for a
cache of one. Of the two threads one only answers requests, as in the program; one
id is asked for its key, and by its address another may answer. Two keys
are enough to tell the last metadata of a block from another one; two small
blocks, to tell the members of one block from those of another when they are
counted; two peers, to share a BlockFile. Two tries give a request carried out
twice and one that is given up. Peers and keys are symmetric in definitions and
properties. Three calls are a tarball with two calls and a third that starts a
new generation, or reuses the first name, while the first is under way; two files
let calls share a file or not; with one key a call has metadata or none. Two
calls are what a lost answer takes, and liveness is checked without symmetry.
Three stores are one that asks, one that joins it and one that begins after
either has ended; a second content shows that entries are kept apart. Two blocks
settle in either order and with either result. Two nodes run out: the next choice
falls back on those used already, or finds none.

Two retrievals are one beside the other, or one after it in the files it left; they
ask for the metadata of one path or for none. With two blocks of three, one can be
missing, or its metadata, and the others still be enough, and a decoder has more than
one share, so that shares of two stores can come together. One retry is a first
attempt and a last. Two retrievals (`MaxCalls`) of which one may be of another version
find the path, `.recovered` and the client directory taken by the other; two seconds
are the same stamp or another. Three nodes, of which one is ours, with k = 2 make the
farthest contact fall out, and the fourth contact is the old address of node 1, at
which there is node 1, nobody, or node 0. One crash is what a step can be hit by; with
one small block a tarball can lose its last member, with two keys it has more. Three
paths in a manifest fit into a LIST answer, or with the manifest's own entry do not
(`MaxListed` = 3); two users make two PUTMs wait for each other, and a PUTF of a user,
the scheduler's own and LIST meet. One failure shows that a failed store is sent
again, and that the next one is not stopped by it.

`manifest_scheduler` does not check deadlock: with an undecodable manifest the
node cannot start, and the system stops there.

*What the violation shows.* `store_redelete`: the handler of DELETE decides by a
count whether the block goes with its metadata. A DELETE that is sent again
because its answer was lost finds one member less, and takes the block another
key still needs. BlockFiles do not have this problem (`store_shared` repeats
DELETEs).

*What the properties leave out, because the code does not give it.*

- Routing table. After a split, `insertNode` calls itself and drops the answer.
  When another thread has filled the half meanwhile, the contact is refused and
  the caller is told None; `FludConfig.addNode` then does not put it into the
  replacement cache either. Hence `NoneMeansInsertedInside` is for calls during which no
  other thread inserts (`alone`).
  Ranges include their end, the test for the local node does not: once our own
  id is the last one of its bucket, that bucket never splits again.
- Membership. `RatedResolve` says when `getPreferredNodes` returns a contact for
  every id it ranks. It returns None, and the store that draws it fails, for a node
  that was rated because a block was looked for there and that was never met
  (`strangers`), for one that the cache has dropped (`evicted`), and for one refused
  after a split, of which `addNode` was told None (`untold`). `MetIsKnown` has one
  exception: the key of another node comes for an id and its callback deletes the
  note, just when the server thread is about to; that thread's KeyError then
  loses the node until it is seen again (`disputed`).
- Aggregation. A tarball with metadata that cannot be sent answers the waiters of
  its first block only, although no two stores are for one file, the case the
  comment in `AggregateStore` warns of. The others wait forever, and
  `current_store_tasks` keeps their paths, which cannot be stored again.
- Storing files. An error of `k_store` takes nobody out of `currentOps`. A later
  store of the same content joins one that has ended; if its query had found
  nothing, the later store fails, and so does every other one while the node runs.
- Lookups. `Ends` is for networks in which no address has a new owner,
  `ResultClosest` for lookups in which no query failed.
- Retrieving files. `RestoresWhole` and `FailsForBlocks` are for retrievals that
  run without another of the same content. `FailsForBlocks` is about the search and
  the decoding (`failed`): the query can fail too, and when all was decoded the file
  system can still refuse (`refused`), which nothing retries. A path that was stored
  again while some nodes kept what they had may not be retrievable though enough
  nodes answer (`twice`). `SavedStays` has one exception, a stamp of seconds that two
  retrievals use: nobody looks for `.recovered.<stamp>`.
- Disk. `LostOnlyWhereExposed` names the moments at which a crash costs data.
- Manifest. `AckedAreListed` and `NeverOlder` end with a crash inside the rewrite;
  `SelectedGetsStored` lists the ways in which the scheduler stops for good.

`EntryHasUsers` and `CountsUsers` say how far the count can be trusted: what stays
in `currentOps` without a user is due to a store that failed, and while nothing
fails the count is exact.

`Truthful`, `Carried`, `StrandedOnlyByFailure` and `Answered` exempt behaviours
with `overlap`. There a store appends to a tarball whose timer has run already,
and arms a second timer. The code does not prevent it; the two sends then share
`.sending`, `.gz` and the waiters, and a call can be told of success by the answer
to the other send, or of a failure though its block was stored. `AnsweredOnce`
holds even then.

*Mutants.* Each property of a passing run has a mutant in `PROJECT.json`: a
definition of the model changed as a plausible bug would change the code, under
which TLC finds the property violated. They are next to the definitions.

## 4. Proofs

TLAPS proves these for all values of the constants that satisfy the modules'
assumptions (an id space of any size, depth at least 3, any finite or infinite
set of threads; finite sets of small blocks and keys, any number of peers; a
finite set of calls to store, any files and keys; any stores of files, contents
and blocks, a finite set of nodes; any retrievals, a finite set of blocks; a
finite set of contacts; a finite set of paths, any clients and replicas, any
number of crashes and failures).

**Routing table.** `IInv` = types, `Partition`, every contact in the range of its
bucket (`InRange`), `OneContactPerId`, bounded finite buckets. `Placed` alone is
not inductive: it speaks of `FindBucket`, a CHOOSE over ends, and a split changes
both. `InRange` is inductive, and with `Partition` the lemma `FindBucketUnique`
gives `Placed`. That a split keeps the partition is arithmetic about the
halfpoint (`SplitRange`), for which a full bucket must be wide: it has K distinct
ids, K >= 3 (`FullIsWide`). Theorems: `TypeCorrect`, `RangesPartition`,
`ContactsPlaced`, `ContactsUnique`, `BucketsBounded`, and `NeverForgets`, an
action property.
`NoneIsHonest` needs more (`JInv`): our own contact is in the table, a call that
runs alone is undisturbed, and its nested frame always finds room, because the
local half keeps our own contact, so the other one cannot have received all K
(`SplitMakesRoom`).
`InsertNodeEnds` measures the recursion: `Span`, the number of ids that our own
bucket spans, never grows, and a frame that does not return makes of it
`Span / 2 + 1` at most (`SplitHalves`; the halves differ by up to two ids). A bucket
that is split spans at least K, so a table splits no more often than an id has bits.

**Membership.** `UsesTable`: every step is a step of `KBuckets` or leaves the table
alone, so its invariants carry over (`TableKept`), and the lemmas about splits can
be used. `MInv` adds `Threads`, where a thread is in `updateNode` and what it has
given to `insertNode`; `Resolving`, which is `RatedResolve` and the same of a contact
that `insertNode` has taken and `addNode` has not rated yet; `Crowded`,
`CachedHasNoRoom` also for a contact on its way into the cache (a bucket that is full
and not ours stays so); and `Meeting`, `MetIsKnown` with what makes it inductive: who
is about to delete a note that is gone was overtaken by somebody who goes on, or the
id is disputed. Theorems:
`MembershipTyped`, `PreferredResolve`, `CacheIsCrowdedOut`, `MetKnown`, `TableKept`,
and `MembershipImplementsTable`, the refinement itself.

**Block store.** The assumption is `DeletesOnce`: answers to DELETE are not lost,
unless there are no small blocks (`store_redelete` shows why). `IInv` = types,
`NoOrphans`, `DeletePending` (what is being deleted is no longer owed, and is
still there unless DELETE may be repeated), `OwedHeld`. `Kept` is not inductive:
the member count deletes the right thing only because block and metadata are
present together (`NoOrphans`) and the named reference is there
(`DeletePending`). Lemmas give the exact effect of each handler
(`DeleteMemberExact`, `StoreTarAdds`, ..., `HandleExact`), from which follow
`TypeCorrect`, `BlocksKept`, `SpaceFreed`, `NothingForFree` (for which
`Accounted`, the same statement about the records, is carried along) and
`Refinement`: every step of `BlockStore` is a step of `BlockRefs` or changes
nothing there.

**Aggregation.** `IInv` = `Basic` and (`overlap` or `Apart`) and `Truthful`.
`Basic` holds whatever overlaps: types, a call without a timer before it has put
something into a tarball (`Fresh`), waiters are pending and under the name of
their tarball (`Waiters`), and generation names are enough and fresh (`Counted`,
`Unused`). `Apart` says how files, timers and maps agree while sends of one
tarball do not overlap: one send at a time and no timer beside it (`Sole`,
`NoTimer`), which phase has which file (`TarThere`, `SendFiles`),
`aggregate_waiters` has the names in use and no others (`InMap`), each tarball
has a timer (`Timed`), and the members of who waits are in it or under way
(`AllCarried`). `Truthful` alone is not inductive: completion answers by name,
so one needs that the waiters of that name are those of the tarball that was
sent (`Sole`, `InMap`, `AllCarried`) and that the `.gz` read afterwards is the one
that was acknowledged (`SendFiles`). `FinishEffect` shows that a finished send
always reaches its waiters and cancels no one's timer. Theorems: `TypeCorrect`,
`ToldTheTruth`, `AllAreCarried`, and `OneOutcome`, an action property for which
`Waiters` suffices.
`ForgottenByFailure` (`StrandedOnlyByFailure`) adds to `IInv` where the members of a
tarball come from (`AllFed`): each is the data of one who waits for it, or the
metadata of one who waits, behind that one's data. It follows the members through
`.tar`, `.sending` and the `.gz` that is sent. Then `completeTarfiles`, which passes over
metadata, finds everybody (`CompletePops`), and `failTarfiles`, if it stops, stops at
the metadata of somebody whom it has found before (`FailPops`): the one whom the
property names. `Registered`, who waits is in the map, shows that a new tarball takes
over no one's waiters.

**Files of the block store.** For any peers, blocks, keys and number of crashes.
`LostOnlyWhereExposed` is about what can be read; while a request is carried out
the files are on their way from what they were to what they will be, and so the
invariant compares them with those that were there when it came, which `job`
remembers: `Snapshot` (a request changes its own tarball or block and no other),
`SeenServes` (what is owed could be read then, or its owner is `hurt`), `TarShape` and
`TarContent` (which of `.tar.gz` and `.tar` is there at each step, whole or torn, and
whether it holds the old members or those after the request), `FileContent` (the same
of a BlockFile), `StepOps` (which requests come to which steps), `Twins` (two whole
files of one tarball agree, so that it does not matter which one a restart
finds), `Deleting` (a peer deletes what was there). `CalmFiles` says what is so while
nothing crashed, where a DELETE never meets a `.tar`.
There is a lemma for each file operation, over two for the ways a request ends or
goes on (`TarEndIInv`, `TarGoOnIInv`; `FileEndIInv`, `FileGoOnIInv`).
Theorems: `TypeCorrect`, `CrashesLoseOnlyExposed`, `DiskImplementsStore` (every file
operation stutters but the last of a request, which is the handler of `BlockStore`:
`TarServed`, `FileServed`), and `CalmDiskIsStore`: without crashes and with one device
`Spec` implements the specification of `BlockStore` itself. With the theorems of
`BlockStore_proofs`, instantiated with the same mapping, this gives
`CalmDiskKeepsPromise`: what `BlockRefs` promises holds of the files.

**Storing files.** `IInv` = types, `PublishedHeld`, `ListedPublished` and what they
need: no block is sent before the query is answered (`Early`), a block on its way
has a node, and one that is stored has its acknowledgement (`Sent`), a store that
joins shares the query of one for the same content (`SameContent`), and whoever is
past the query or the publication has metadata in the DHT (`Found`). The last two
give `ListedPublished` for stores that joined. `EntryHasUsers` and `CountsUsers`
are inductive beside `IInv`: `WorkCases` sorts the steps by what they do to phases
and entries, and sets of users grow and shrink by one (for a finite set of
stores). Theorems: `TypeCorrect`, `MetadataLeadsToBlocks`, `ManifestCanBeLookedUp`,
`EntriesHaveUsers`, `UsersCounted`.
`StoresEnd` measures what a store has before it (`Left`): the phases that follow, the
answer to its query, and for each block how many of the steps to a first node, a
second node and an outcome are left. Each step of a store lowers it (`StoreStep`) and
that of no other store changes.

**Retrieving files.** `IInv` = types, `AloneIsOne` (who is alone is the only active
retrieval), `Clean`, for who is alone `Undisturbed`, `SavesLast` (a retrieval puts
back one file, at its end) and `SavedStays`. `RestoresWhole` speaks of the end only;
`Undisturbed` says for each phase what must be on disk: the shares of all blocks
retrieved with both parts while it fetches (`Fetching`, which also says that no holder
of a block is overlooked), one part less after each decoding, the output under the
handle that is open (`Decoding`), both outputs before it decrypts. What earlier
retrievals left cannot harm because outputs are emptied when opened, and shares
overwritten when fetched. `Clean` gives that enough blocks are decoded and that a
metadata key that is not a path never gets so far. `SavedStays` is inductive with
`SavesLast`: a step of `GoesBack` writes only names that it has found free, or stamped
ones, which it has noted in `aims`. Theorems: `TypeCorrect`, `AloneRestores`,
`GivesUpForBlocks`, `SavedFilesStay`. `RetrievalsEnd` measures a retrieval
lexicographically, written as one number: the attempts that are left times `Most`, and
the `Stage` of the one it is in, which is below `Most`: two for each block that
metadata still names, one for each that is being fetched, three for each call of the
decoder (for which `Clean` is needed: a decoder is idle when a phase begins).

**Lookups.** `IInv` = types, phases, `Introduced`, and for each property about the
result what it says while the lookup goes on: each of the closest is alive or
will still be asked (`AliveOrDue`); each node that has a value will still be asked
or has failed (`ValueDue`); while nothing has failed, the closest are the closest
of all heard of (`ClosestSoFar`). An answer changes them all at once
(`AbsorbEffect`). That sorting and cutting at each answer gives the closest of all
is `ClosestGrow`: k of the union of those kept and the new ones, where those kept
were the closest k before. Theorems: `TypeCorrect`, `OnlyTheLiving`, `TheClosest`,
`NoValueOverlooked`, `AllAreIntroduced`. Honesty of addresses is not assumed.
It is for `LookupEnds`, as for `Ends`: then the contact that has answered is noted
under its own id and never comes back, so that each answer leaves fewer contacts
`Open`, whatever it brings back of those that have failed; between two answers a
lookup only empties its rounds. Where the address has another node there is no such
measure: the comment on `Ends` tells how a lookup can go on for ever.

**Manifest.** `IInv` = types, `Saver` (the manifest is written for a client that
waits for it, after its entry was made), `TornByCrash`, `AckedAreSafe`, `Asked`,
`OnePutm`, `InOrder`. `AckedAreListed` is not inductive, since between `open` and
`close` the disk has nothing: `Safe` is what the disk has or gets with the write
under way. For `NeverOlder` one needs that at most one PUTM is past the semaphore
(`OnePutm`) and that what it has read lies between what is published and what is
safe (`InOrder`). `RequestStep` sorts the steps by what they do to one client's
request, `SavingCases` by what they do to manifest and disk. Theorems:
`TypeCorrect`, `AcknowledgedStaysListed`, and `PublishedOnlyGrows`, an action
property.

Types are theorems and not checked by a run besides; the invariants that contain
them were checked with TLC before they were proved.

**Only model-checked:** `InsertReturns`, `Answered`, `Ends` and `SelectedGetsStored`
(liveness is out of TLAPS's reach, as are ENABLED and induction over data), that
`FileStore` and `FileRetrieve` do not deadlock, and the violation run. Every
invariant and every action property of the runs is a theorem. `InsertNodeEnds`,
`LookupEnds`, `StoresEnd` and `RetrievalsEnd` are the part of termination that can be
proved: there is a bound on the steps. That a step is possible until the end is what
TLC checks, as the liveness properties and as freedom from deadlock.

## 5. Plan

Done: `KBuckets`, `Membership`, `BlockStore`, `AggregateStore`, `FileStore`,
`FileRetrieve`, `Lookup`, `BlockStoreDisk`, `Manifest`, with their proofs. Left, in
this order:

1. The statements of a split, and those inside a frame of `insertNode`, as single
   steps beside another thread's.
2. Challenges with their expiry inside the retry loops of the client.
3. The store of large blocks in `FludClient.store`, past the tarballs.
4. The scores of reputations and the choice of nodes they lead to.
5. Authentication and limits of the local protocol; the limits of `fencode`; the
   checkbox tree of the graphical client.

To keep the whole project checkable in one go, runs stay few: one for a question.
Behaviours that break what one would expect are told in section 3, and named in
the properties that leave them out.

**Not modelled.** Encoding, erasure coding and cryptography are pure functions,
taken as external where they are used. The node runtime is asyncio plumbing:
a loop in a thread and submission of coroutines. The graphical client draws
what the local protocol answers. `Reputation.py` and `FludFileVersions.py` are not
used. Scripts, gauges and tests drive the program. The reasons for what is left
out of the parts that are modelled are with each of them in section 2 and in
`PROJECT.json`.
