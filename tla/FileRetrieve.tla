---------------------------- MODULE FileRetrieve ----------------------------
(***************************************************************************)
(* How flud gets a file back: the classes RetrieveFile and                 *)
(* RetrieveFilename of src/flud/FludFileOperations.py.                     *)
(*                                                                         *)
(* A retrieval asks the DHT for the metadata of a storage key, fetches     *)
(* blocks until it has enough of them, decodes the blocks into the file    *)
(* .rec1 and the metadata that came with them into .m, decrypts, and puts  *)
(* the result where the metadata says.                                     *)
(*                                                                         *)
(* The model has one storage key: files of one content share it.  The      *)
(* retrievals of one key work on the same files in the client directory,   *)
(* whichever path they are for.  Retrievals of other keys share with them  *)
(* only the place where files go back: of those the model has the last     *)
(* step, OtherVersion.  The event loop runs all of them, an await at a     *)
(* time; the decoder runs in threads beside it.                            *)
(*                                                                         *)
(* Nodes return what was stored with them or nothing.  A block and its     *)
(* number are one thing: metadata names each number once, and always       *)
(* code_m of them (FileStore publishes it only then), so the branches for  *)
(* duplicates, lists of nodes and short metadata are left out.  The        *)
(* metadata of a path is of two encodings when the path was stored again   *)
(* and some nodes kept what they had.                                      *)
(***************************************************************************)
EXTENDS Integers, FiniteSets, FiniteSetsExt

CONSTANTS
  Retrievals,  \* the calls, each made at most once
  Versions,    \* other contents, each retrieved with its own key
  Paths,       \* paths this content was stored from; the metadata key is a hash of the path
  BaseOf,      \* BaseOf[p]: what the file is called in the client directory
  Seconds,     \* what int(time.time()) may be, in no order: a clock may be set back
  Blocks,      \* numbers of the coded blocks
  code_k,      \* blocks that are enough
  More,        \* blocks asked for when those were not enough (3)
  MaxCalls,    \* bound: how many retrievals are made, with any key
  MaxRetries,  \* max_retries (5)
  ByKey,       \* wanted: retrieve_file(key), whose metadata key is True
  InDir,       \* wanted: as an entry of a directory, by RetrieveFilename
  Data,        \* the content, as opposed to metadata
  None         \* nothing reported

Savers == Retrievals \cup Versions
Contents == {"whole", "cut", "other"} \cup Versions

\* Names of files: where and what it is called, which is a path or a file in the
\* client directory, then .recovered, with a stamp or not, then another stamp.
Bases == {BaseOf[p] : p \in Paths}
Names == (Paths \cup Bases) \X ({"", "recovered"} \cup Seconds) \X ({""} \cup Seconds)

\* What is noted of a file that went back: the path it was stored from, the file
\* it is in, and what was in that file.
Notes == [path : Paths, file : Names, content : Contents]

ASSUME FileRetrieveAssumption ==
  /\ IsFiniteSet(Blocks)
  /\ code_k \in Nat \ {0} /\ More \in Nat \ {0} /\ MaxRetries \in Nat /\ MaxCalls \in Nat
  /\ ByKey # InDir /\ {ByKey, InDir, Data, "none", "torn"} \cap Paths = {}
  /\ Data \notin {ByKey, "none", "torn"}
  /\ Retrievals \cap Versions = {}
  /\ Versions \cap {"absent", "unseen", "whole", "cut", "other"} = {}
  /\ Paths \cap Bases = {} /\ Seconds \cap {"", "recovered"} = {}
  /\ None \notin Notes

VARIABLES
  held,     \* held[b]: the paths whose metadata the node of block b has
  twice,    \* paths stored twice: some nodes may have kept the first metadata
  wanted,   \* wanted[r]: a path, or ByKey or InDir
  phase,    \* phase[r]: where the retrieval stands
  meta,     \* meta[r]: blocks that the metadata still names
  asked,    \* asked[r]: blocks being fetched
  got,      \* got[r]: blocks retrieved, with the metadata that is wanted
  bad,      \* bad[r]: blocks whose node failed
  retries,  \* retry_count
  thread,   \* thread[r]: how far the decoder is
  headers,  \* headers[r]: blocks whose header the decoder has read
  shares,   \* files: <<b, Data>> is block b, <<b, p>> its metadata for path p
  out,      \* out["rec1"], out["m"]: what the decoders write
  writers,  \* writers[f]: retrievals whose open handle is the file called f
  files,    \* files[n]: what is in the file n, "unseen" before anybody looks
  saved,    \* history: saved[x]: what was noted when the file went back
  aims,     \* history: aims[x]: names that shutil.move was called with
  alone     \* history: no other retrieval has run while this one did

search == <<meta, asked, got, bad, retries>>
decoder == <<thread, headers>>
nodes == <<held, twice>>
disk == <<shares, out, writers>>
tree == <<files, saved, aims>>
vars == <<nodes, wanted, phase, search, decoder, disk, tree, alone>>

\* Retrievals that were made: of those with other keys, the ones that changed a file.
Made == {r \in Retrievals : phase[r] # "new"} \cup {v \in Versions : aims[v] # {} \/ saved[v] # None}

Active == {r \in Retrievals : phase[r] \in {"ask", "fetch", "data", "meta", "decrypt"}}

Init ==
  /\ held \in [Blocks -> SUBSET Paths]
  /\ twice \in SUBSET Paths
  /\ wanted \in [Retrievals -> Paths \cup {ByKey, InDir}]
  /\ phase = [r \in Retrievals |-> "new"]
  /\ meta = [r \in Retrievals |-> {}]
  /\ asked = [r \in Retrievals |-> {}]
  /\ got = [r \in Retrievals |-> {}]
  /\ bad = [r \in Retrievals |-> {}]
  /\ retries = [r \in Retrievals |-> 0]
  /\ thread = [r \in Retrievals |-> "idle"]
  /\ headers = [r \in Retrievals |-> {}]
  /\ shares = {}
  /\ out = [f \in {"rec1", "m"} |-> "none"]
  /\ writers = [f \in {"rec1", "m"} |-> {}]
  /\ files = [n \in Names |-> IF n[1] \in Paths /\ n[2] \notin Seconds THEN "unseen" ELSE "absent"]
  /\ saved = [x \in Savers |-> None]
  /\ aims = [x \in Savers |-> {}]
  /\ alone = [r \in Retrievals |-> TRUE]

Enter(r, p) == phase' = [phase EXCEPT ![r] = p]

-----------------------------------------------------------------------------
(* Finding blocks.                                                         *)

\* RetrieveFilename, retrieve_file.  An entry of a directory is retrieved by
\* its manifest entry, a pair, instead of its key: the query fails at once, and
\* the error is returned as if it were a result.
Begin(r) ==
  /\ phase[r] = "new" /\ Cardinality(Made) < MaxCalls
  /\ Enter(r, IF wanted[r] = InDir THEN "error" ELSE "ask")
  /\ alone' = IF wanted[r] = InDir \/ Active = {} THEN alone
              ELSE [q \in Retrievals |-> alone[q] /\ q # r /\ q \notin Active]
  /\ UNCHANGED <<nodes, wanted, search, decoder, disk, tree>>

\* The query fails, which is returned like a result, or finds nothing.
AskFails(r) ==
  /\ phase[r] = "ask"
  /\ \E p \in {"error", "notFound"} : Enter(r, p)
  /\ UNCHANGED <<nodes, wanted, search, decoder, disk, tree, alone>>

\* _getSomeBlocks: of those left, as many as it asks for.  Which are the best
\* depends on reputations: any.
Chosen(left, n) == kSubset(Min({n, Cardinality(left)}), left)

GetSome(r, left, n) ==
  \E chosen \in Chosen(left, n) :
    /\ asked' = [asked EXCEPT ![r] = chosen]
    /\ meta' = [meta EXCEPT ![r] = left \ chosen]

\* _retrieveFileBlocks.
Found(r) ==
  /\ phase[r] = "ask"
  /\ Enter(r, "fetch")
  /\ GetSome(r, Blocks, code_k)
  /\ UNCHANGED <<nodes, wanted, got, bad, retries, decoder, disk, tree, alone>>

\* The metadata a node sends along with block b.  Asked for "True" it sends all
\* that it has, and none of it is called that.
Sent(r, b) == IF wanted[r] = ByKey THEN held[b] ELSE held[b] \cap {wanted[r]}

\* _save_retrieve_response: each part becomes a file in the client directory.
Saved(b, metas) == shares \cup ({b} \X ({Data} \cup metas))

\* A node returns the block, which counts only if the metadata expected came
\* with it.
Fetched(r, b) ==
  /\ phase[r] = "fetch" /\ b \in asked[r]
  /\ shares' = Saved(b, Sent(r, b))
  /\ asked' = [asked EXCEPT ![r] = @ \ {b}]
  /\ got' = IF wanted[r] \in held[b] THEN [got EXCEPT ![r] = @ \cup {b}] ELSE got
  /\ UNCHANGED <<nodes, wanted, phase, meta, bad, retries, decoder, out, writers, tree, alone>>

\* The node is not found (and the closest one, asked instead, has not got the
\* block), or does not return the block.
NotFetched(r, b) ==
  /\ phase[r] = "fetch" /\ b \in asked[r]
  /\ asked' = [asked EXCEPT ![r] = @ \ {b}]
  /\ bad' = [bad EXCEPT ![r] = @ \cup {b}]
  /\ UNCHANGED <<nodes, wanted, phase, meta, got, retries, decoder, disk, tree, alone>>

\* _schedule_retry_async: everything is forgotten, the bad nodes too.
Retry(r) ==
  /\ retries[r] < MaxRetries
  /\ Enter(r, "ask")
  /\ retries' = [retries EXCEPT ![r] = @ + 1]
  /\ got' = [got EXCEPT ![r] = {}]
  /\ bad' = [bad EXCEPT ![r] = {}]
  /\ UNCHANGED <<meta, asked>>

\* Mutant of RetrievedAll: it gives up although metadata names more blocks.
RetrievedAllHasty(r) ==
  /\ phase[r] = "fetch" /\ asked[r] = {}
  /\ \/ /\ Cardinality(got[r]) >= code_k
        /\ Enter(r, "data")
        /\ UNCHANGED search
     \/ /\ Cardinality(got[r]) < code_k
        /\ \/ Retry(r)
           \/ retries[r] >= MaxRetries /\ Enter(r, "failed") /\ UNCHANGED search
  /\ UNCHANGED <<nodes, wanted, decoder, disk, tree, alone>>

\* _retrievedAll, when every block asked for was fetched or not.
RetrievedAll(r) ==
  /\ phase[r] = "fetch" /\ asked[r] = {}
  /\ \/ /\ Cardinality(got[r]) >= code_k
        /\ Enter(r, "data")
        /\ UNCHANGED search
     \/ /\ Cardinality(got[r]) < code_k /\ meta[r] # {}
        /\ GetSome(r, meta[r], More)
        /\ UNCHANGED <<phase, got, bad, retries>>
     \/ /\ Cardinality(got[r]) < code_k /\ meta[r] = {}
        /\ \/ Retry(r)
           \/ retries[r] >= MaxRetries /\ Enter(r, "failed") /\ UNCHANGED search
  /\ UNCHANGED <<nodes, wanted, decoder, disk, tree, alone>>

-----------------------------------------------------------------------------
(* decodeData, in a thread: first for the data, then for the metadata.     *)

Part(r) == IF phase[r] = "data" THEN Data ELSE wanted[r]
File(r) == IF phase[r] = "data" THEN "rec1" ELSE "m"
Inputs(r) == got[r] \X {Part(r)}

DecodeFails(r) ==
  /\ Enter(r, "failed")
  /\ thread' = [thread EXCEPT ![r] = "idle"]

\* The output is opened, which empties it, and the headers of the shares read;
\* files that are not there are passed over.
OpenOutput(r) ==
  LET found == {b \in got[r] : <<b, Part(r)>> \in shares}
  IN /\ phase[r] \in {"data", "meta"} /\ thread[r] = "idle"
     /\ out' = [out EXCEPT ![File(r)] = "torn"]
     /\ IF Cardinality(found) >= code_k
        THEN /\ thread' = [thread EXCEPT ![r] = "open"]
             /\ headers' = [headers EXCEPT ![r] = found]
             /\ writers' = [writers EXCEPT ![File(r)] = @ \cup {r}]
             /\ UNCHANGED phase
        ELSE DecodeFails(r) /\ UNCHANGED <<headers, writers>>
     /\ UNCHANGED <<nodes, wanted, search, shares, tree, alone>>

\* The shares are opened again and code_k of them decoded.  What is written is
\* seen if the file still has its name; over what another retrieval wrote it may
\* make a mixture.  Metadata of both stores of a path is refused, if the sizes of
\* the shares differ, or makes a mixture, which is good if only what is the same
\* in both was taken from one.
Decode(r) ==
  LET f == File(r)
      over == out[f] # "torn" /\ out[f] # Part(r)
      mixed == Part(r) \in twice /\ code_k > 1
  IN /\ thread[r] = "open"
     /\ writers' = [writers EXCEPT ![f] = @ \ {r}]
     /\ headers' = [headers EXCEPT ![r] = {}]
     /\ \/ /\ headers[r] \X {Part(r)} \subseteq shares
           /\ thread' = [thread EXCEPT ![r] = "written"]
           /\ IF r \in writers[f]
              THEN \E c \in {Part(r)} \cup (IF over \/ mixed THEN {"torn"} ELSE {}) :
                     out' = [out EXCEPT ![f] = c]
              ELSE UNCHANGED out
           /\ UNCHANGED phase
        \/ /\ mixed \/ ~(headers[r] \X {Part(r)} \subseteq shares)
           /\ DecodeFails(r) /\ UNCHANGED out
     /\ UNCHANGED <<nodes, wanted, search, shares, tree, alone>>

\* The shares are removed one by one; the first that is gone is an error.
RemoveShares(r) ==
  /\ thread[r] = "written"
  /\ IF Inputs(r) \subseteq shares
     THEN /\ shares' = shares \ Inputs(r)
          /\ Enter(r, IF phase[r] = "data" THEN "meta" ELSE "decrypt")
          /\ thread' = [thread EXCEPT ![r] = "idle"]
     ELSE /\ \E gone \in SUBSET (Inputs(r) \cap shares) : shares' = shares \ gone
          /\ DecodeFails(r)
  /\ UNCHANGED <<nodes, wanted, search, headers, out, writers, tree, alone>>

-----------------------------------------------------------------------------
(* _decodeDone, _decryptMeta, _decryptFile: one step of the loop, while    *)
(* decoders of other retrievals go on.                                     *)

\* .m is gone, cannot be decoded, or what it holds cannot be decrypted.  The retry
\* that is meant for it is a call of a method that does not exist.
NoMetadata(r) ==
  /\ phase[r] = "decrypt" /\ out["m"] \in {"none", "torn"}
  /\ Enter(r, "failed")
  /\ out' = [out EXCEPT !["m"] = "none"]
  /\ writers' = [writers EXCEPT !["m"] = {}]
  /\ UNCHANGED <<nodes, wanted, search, decoder, shares, tree, alone>>

\* .m is good and .rec1 is gone, empty, or ends in the middle of a cipher block.
NoData(r) ==
  /\ phase[r] = "decrypt" /\ out["m"] \in Paths /\ out["rec1"] # Data
  /\ Enter(r, "failed")
  /\ out' = [out EXCEPT !["m"] = "none"]
  /\ writers' = [writers EXCEPT !["m"] = {}]
  /\ UNCHANGED <<nodes, wanted, search, decoder, shares, tree, alone>>

-----------------------------------------------------------------------------
(* _decryptFile, the end: the file goes back, without an await.            *)

Own(p) == <<p, "", "">>
Recovered(p) == <<p, "recovered", "">>

\* A name with a stamp, which stands for .recovered.<stamp>, or for a second one.
Stamped(n, t) == IF n[2] = "recovered" THEN <<n[1], t, "">> ELSE <<n[1], n[2], t>>

\* What is in a file: of those beside which flud did not put it, anything that may
\* be there, which is settled when somebody looks.
At(n, there) == IF files[n] = "unseen" THEN {"absent"} \cup there ELSE {files[n]}

\* Mutant of SameFile: a file that is there is taken to be the same.
SameAny(content, here) == here # "absent"

\* The hash of the file that is there is the key it was encrypted with.
SameFile(content, here) == here = IF content = "cut" THEN "whole" ELSE content

\* Mutant of Free: nobody looks whether there is a .recovered.
FreeAnyway(n, here) == TRUE

\* Whether a name can be used without a stamp.
Free(n, here) == here = "absent"

\* The names of which one is used when n is looked at and here is found.
Unused(n, here) == IF Free(n, here) THEN {n} ELSE {Stamped(n, t) : t \in Seconds}

\* shutil.move, which if it fails may have copied a part.
Moves(fs, n, content) == [fs EXCEPT ![n] = content]
MoveFails(fs, n) == {fs, [fs EXCEPT ![n] = "cut"]}

Note(x, p, n, content) ==
  saved' = [saved EXCEPT ![x] = [path |-> p, file |-> n, content |-> content]]

Aim(x, names) == aims' = [aims EXCEPT ![x] = @ \cup names]

\* The file is moved beside the one that is there, and if that fails into the
\* client directory.
Aside(x, p, content, fs, end) ==
  \E here \in At(Recovered(p), {"other"}) : \E n \in Unused(Recovered(p), here) :
    LET base == <<BaseOf[p], n[2], "">>
        seen == [fs EXCEPT ![Recovered(p)] = here]
    IN \/ /\ files' = Moves(seen, n, content)
          /\ Note(x, p, n, content) /\ Aim(x, {n})
       \/ \E m \in Unused(base, files[base]), tried \in MoveFails(seen, n) :
            /\ Aim(x, {n, m})
            /\ \/ files' = Moves(tried, m, content) /\ Note(x, p, m, content)
               \/ files' \in MoveFails(tried, m) /\ end = "refused" /\ UNCHANGED saved

\* A file that is there stays: if it is the same, what was retrieved is dropped,
\* and otherwise saved as .recovered.  If none is there, directories that are
\* missing are made and the file renamed.  All that may be refused, and so may the
\* last step, chown, utime and chmod, when the file already has its name.
GoesBack(x, p, content, end) ==
  \/ end = "refused" /\ UNCHANGED tree
  \/ \E here \in At(Own(p), {"whole"} \cup Versions) :
       LET fs == [files EXCEPT ![Own(p)] = here]
       IN \/ /\ here = "absent"
             /\ files' = Moves(fs, Own(p), content)
             /\ Note(x, p, Own(p), content) /\ UNCHANGED aims
          \/ /\ here # "absent" /\ SameFile(content, here)
             /\ files' = fs
             /\ Note(x, p, Own(p), here) /\ UNCHANGED aims
          \/ /\ here # "absent" /\ ~SameFile(content, here)
             /\ Aside(x, p, content, fs, end)

\* Both files are read and removed, and the file goes where .m says.  What a
\* decoder is still writing can look like a shorter file.
Restore(r) ==
  LET p == out["m"]
      writing == out["rec1"] = "torn" /\ writers["rec1"] # {}
      content == IF out["rec1"] = Data THEN "whole" ELSE "cut"
  IN /\ phase[r] = "decrypt" /\ p \in Paths
     /\ out["rec1"] = Data \/ writing
     /\ out' = [f \in {"rec1", "m"} |-> "none"]
     /\ writers' = [f \in {"rec1", "m"} |-> {}]
     /\ \E end \in {"done", "refused"} : Enter(r, end) /\ GoesBack(r, p, content, end)
     /\ UNCHANGED <<nodes, wanted, search, decoder, shares, alone>>

\* A retrieval with another key, of what one of the paths held at another time.
OtherVersion(v) ==
  /\ v \notin Made /\ Cardinality(Made) < MaxCalls
  /\ \E p \in Paths, end \in {"done", "refused"} : GoesBack(v, p, v, end)
  /\ UNCHANGED <<nodes, wanted, phase, search, decoder, disk, alone>>

-----------------------------------------------------------------------------
Work(r) ==
  \/ Found(r) \/ AskFails(r)
  \/ \E b \in Blocks : Fetched(r, b) \/ NotFetched(r, b)
  \/ RetrievedAll(r)
  \/ OpenOutput(r) \/ Decode(r) \/ RemoveShares(r)
  \/ NoMetadata(r) \/ NoData(r) \/ Restore(r)

\* No retrieval is under way.  Each step of one takes it further, so that a run
\* without deadlock shows that every retrieval ends.
Finished ==
  /\ Active = {}
  /\ UNCHANGED vars

Next == (\E r \in Retrievals : Begin(r) \/ Work(r)) \/ (\E v \in Versions : OtherVersion(v)) \/ Finished

Spec == Init /\ [][Next]_vars

-----------------------------------------------------------------------------
(* Properties.                                                             *)

TypeOK ==
  /\ held \in [Blocks -> SUBSET Paths]
  /\ twice \subseteq Paths
  /\ wanted \in [Retrievals -> Paths \cup {ByKey, InDir}]
  /\ phase \in [Retrievals -> {"new", "ask", "fetch", "data", "meta", "decrypt",
                               "done", "refused", "notFound", "failed", "error"}]
  /\ meta \in [Retrievals -> SUBSET Blocks]
  /\ asked \in [Retrievals -> SUBSET Blocks]
  /\ got \in [Retrievals -> SUBSET Blocks]
  /\ bad \in [Retrievals -> SUBSET Blocks]
  /\ retries \in [Retrievals -> 0..MaxRetries]
  /\ thread \in [Retrievals -> {"idle", "open", "written"}]
  /\ headers \in [Retrievals -> SUBSET Blocks]
  /\ shares \subseteq Blocks \X ({Data} \cup Paths)
  /\ out \in [{"rec1", "m"} -> {"none", "torn", Data} \cup Paths]
  /\ writers \in [{"rec1", "m"} -> SUBSET Retrievals]
  /\ files \in [Names -> {"unseen", "absent"} \cup Contents]
  /\ saved \in [Savers -> Notes \cup {None}]
  /\ aims \in [Savers -> SUBSET Names]
  /\ alone \in [Retrievals -> BOOLEAN]

\* A retrieval that ran without another of the same key, and succeeds, has put the
\* whole file, and nothing else, where it was stored from or beside a file that is
\* there, whatever earlier retrievals have left in the client directory.
RestoresWhole ==
  \A r \in Retrievals :
    phase[r] = "done" /\ alone[r] =>
      saved[r] # None /\ saved[r].path = wanted[r] /\ saved[r].content = "whole"

Holders(r) == {b \in Blocks : wanted[r] \in held[b]}

\* Such a retrieval fails, unless the query does or the file system refuses what
\* it is told, only if too few nodes have, and return in its last attempt, a block
\* with its metadata, or if they keep that metadata from two stores.
FailsForBlocks ==
  \A r \in Retrievals :
    phase[r] = "failed" /\ alone[r] =>
      Cardinality(Holders(r) \ bad[r]) < code_k \/ wanted[r] \in twice

\* What has gone back stays where it was put, whatever goes back later and however
\* that fails, unless a second file gets the same stamp.
SavedStays ==
  \A x \in Savers :
    saved[x] # None =>
      LET n == saved[x].file
      IN \/ files[n] = saved[x].content
         \/ n[2] \in Seconds /\ \E y \in Savers \ {x} : n \in aims[y]

=============================================================================
