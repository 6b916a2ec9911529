------------------------- MODULE FileRetrieve_proofs -------------------------
(***************************************************************************)
(* What TLAPS proves about FileRetrieve, for any number of retrievals,     *)
(* paths, blocks and retries.                                              *)
(***************************************************************************)
EXTENDS FileRetrieve, FiniteSetTheorems, TLAPS

\* Who is alone is the only one.
AloneIsOne == \A r, q \in Retrievals : alone[r] /\ r \in Active /\ q \in Active => q = r

\* A retrieval starts with nothing, decodes only enough blocks that came with its
\* metadata, and has a decoder only while it decodes.
CleanOf(r) ==
  /\ phase[r] \in {"new", "ask"} => got[r] = {}
  /\ thread[r] # "idle" => phase[r] \in {"data", "meta"}
  /\ got[r] \subseteq Holders(r)
  /\ phase[r] \in {"data", "meta", "decrypt"} => Cardinality(got[r]) >= code_k /\ wanted[r] \in Paths

Clean == \A r \in Retrievals : CleanOf(r)

Kept(r, parts) == got[r] \X parts \subseteq shares

\* Every block with the metadata that is wanted is accounted for.
Fetching(r) ==
  /\ Kept(r, {Data, wanted[r]})
  /\ Holders(r) \subseteq meta[r] \cup asked[r] \cup got[r] \cup bad[r]

\* A file holds what was decoded, or a mixture when that was stored twice.
Written(f, part) == out[f] = part \/ (part \in twice /\ out[f] = "torn")

\* What the decoder of r writes is what it should be.
Decoding(r, f, part) ==
  /\ thread[r] = "open" => headers[r] \subseteq got[r] /\ out[f] = "torn" /\ r \in writers[f]
  /\ thread[r] = "written" => Written(f, part)

\* A retrieval that is alone has what it needs at each step.
Undisturbed(r) ==
  /\ phase[r] = "fetch" => Fetching(r)
  /\ phase[r] = "data" =>
       Kept(r, {Data, wanted[r]}) /\ Decoding(r, "rec1", Data)
  /\ phase[r] = "meta" =>
       Kept(r, {wanted[r]}) /\ out["rec1"] = Data /\ Decoding(r, "m", wanted[r])
  /\ phase[r] = "decrypt" => out["rec1"] = Data /\ Written("m", wanted[r])
  /\ phase[r] = "done" => saved[r] # None /\ saved[r].path = wanted[r] /\ saved[r].content = "whole"
  /\ phase[r] = "failed" => Cardinality(Holders(r) \ bad[r]) < code_k \/ wanted[r] \in twice

AloneSucceed == \A r \in Retrievals : alone[r] => Undisturbed(r)

\* A retrieval puts one file back, at its end.
SavesLast == \A r \in Retrievals : phase[r] = "new" \/ r \in Active => saved[r] = None

IInv == TypeOK /\ AloneIsOne /\ Clean /\ AloneSucceed /\ SavesLast /\ SavedStays

-----------------------------------------------------------------------------
(* Types.                                                                  *)

LEMMA Distinct ==
  /\ Data \notin {ByKey, "none", "torn"} /\ Data \notin Paths
  /\ ByKey \notin Paths /\ InDir \notin Paths /\ "none" \notin Paths /\ "torn" \notin Paths
  /\ ByKey # InDir
  /\ code_k \in Nat \ {0} /\ More \in Nat \ {0} /\ MaxRetries \in Nat /\ IsFiniteSet(Blocks)
BY FileRetrieveAssumption

LEMMA GetSomeType ==
  ASSUME TypeOK, NEW r \in Retrievals, NEW left \in SUBSET Blocks, NEW n, GetSome(r, left, n)
  PROVE  /\ asked' \in [Retrievals -> SUBSET Blocks] /\ meta' \in [Retrievals -> SUBSET Blocks]
         /\ left = meta'[r] \cup asked'[r]
         /\ \A q \in Retrievals : q # r => asked'[q] = asked[q] /\ meta'[q] = meta[q]
<1>1. PICK chosen \in SUBSET left :
        asked' = [asked EXCEPT ![r] = chosen] /\ meta' = [meta EXCEPT ![r] = left \ chosen]
  BY DEF GetSome, Chosen, kSubset
<1> QED
  BY <1>1 DEF TypeOK

LEMMA EnterType ==
  ASSUME TypeOK, NEW r \in Retrievals,
         NEW p \in {"new", "ask", "fetch", "data", "meta", "decrypt", "done", "refused", "notFound", "failed", "error"},
         Enter(r, p)
  PROVE  /\ phase' \in [Retrievals -> {"new", "ask", "fetch", "data", "meta", "decrypt",
                                       "done", "refused", "notFound", "failed", "error"}]
         /\ phase'[r] = p
         /\ \A q \in Retrievals : q # r => phase'[q] = phase[q]
BY DEF Enter, TypeOK

-----------------------------------------------------------------------------
(* Where files go back.                                                    *)

\* A name beside a path or in the client directory, as a file goes aside to.
Beside(n) ==
  \E b \in Paths \cup Bases, s \in {"recovered"} \cup Seconds, u \in {""} \cup Seconds : n = <<b, s, u>>

LEMMA BesideIs ==
  ASSUME NEW n, Beside(n)
  PROVE  n \in Names /\ n[2] \in {"recovered"} \cup Seconds
<1>1. PICK b \in Paths \cup Bases, s \in {"recovered"} \cup Seconds, u \in {""} \cup Seconds : n = <<b, s, u>>
  BY DEF Beside
<1>2. n[2] = s
  BY <1>1
<1>3. <<b, s, u>> \in Names
  BY DEF Names
<1> QED
  BY <1>1, <1>2, <1>3

LEMMA NamesOf ==
  ASSUME NEW p \in Paths
  PROVE  /\ Own(p) \in Names
         /\ Beside(Recovered(p))
         /\ \A n : Beside(n) => Beside(<<BaseOf[p], n[2], "">>)
<1>1. BaseOf[p] \in Bases
  BY DEF Bases
<1>2. ASSUME NEW n, Beside(n) PROVE Beside(<<BaseOf[p], n[2], "">>)
  <2>1. n[2] \in {"recovered"} \cup Seconds
    BY <1>2, BesideIs
  <2> QED
    BY <1>1, <2>1 DEF Beside
<1>3. Own(p) \in Names
  BY DEF Own, Names
<1>4. Beside(Recovered(p))
  BY DEF Recovered, Beside
<1> QED
  BY <1>2, <1>3, <1>4

\* A name is used as it is only if no file has it.
LEMMA UnusedIs ==
  ASSUME NEW n, Beside(n), NEW here, NEW k \in Unused(n, here)
  PROVE  Beside(k) /\ (k[2] \in Seconds \/ (k = n /\ here = "absent"))
<1>1. CASE here = "absent"
  BY <1>1 DEF Unused, Free
<1>2. CASE here # "absent"
  <2>1. PICK t \in Seconds : k = Stamped(n, t)
    BY <1>2 DEF Unused, Free
  <2>2. PICK b \in Paths \cup Bases, s \in {"recovered"} \cup Seconds, u \in {""} \cup Seconds : n = <<b, s, u>>
    BY DEF Beside
  <2>3. CASE s = "recovered"
    <3>1. k = <<b, t, "">>
      BY <2>1, <2>2, <2>3 DEF Stamped
    <3> QED
      BY <3>1 DEF Beside
  <2>4. CASE s # "recovered"
    <3>1. k = <<b, s, t>> /\ s \in Seconds
      BY <2>1, <2>2, <2>4 DEF Stamped
    <3> QED
      BY <3>1 DEF Beside
  <2> QED
    BY <2>3, <2>4
<1> QED
  BY <1>1, <1>2

\* What changes a file that is known to be there: a second use of a stamp.
Changed(fs, x) ==
  \A n \in Names :
    fs[n] # files[n] => files[n] \in {"unseen", "absent"} \/ (n[2] \in Seconds /\ n \in aims'[x])

Noted(x, p, contents) ==
  \E n \in Names, c \in contents :
    saved' = [saved EXCEPT ![x] = [path |-> p, file |-> n, content |-> c]] /\ files'[n] = c

FileMap == [Names -> {"unseen", "absent"} \cup Contents]

LEMMA AsideEffect ==
  ASSUME TypeOK, NEW x \in Savers, NEW p \in Paths, NEW content \in Contents, NEW end,
         NEW fs \in FileMap, Changed(fs, x), fs[Recovered(p)] = files[Recovered(p)],
         Aside(x, p, content, fs, end)
  PROVE  /\ files' \in FileMap /\ Changed(files', x)
         /\ \E names \in SUBSET Names : aims' = [aims EXCEPT ![x] = @ \cup names]
         /\ (end = "refused" /\ saved' = saved) \/ Noted(x, p, {content})
<1>0. PICK here \in At(Recovered(p), {"other"}) : \E n \in Unused(Recovered(p), here) :
        LET base == <<BaseOf[p], n[2], "">>
            seen == [fs EXCEPT ![Recovered(p)] = here]
        IN \/ /\ files' = Moves(seen, n, content)
              /\ Note(x, p, n, content) /\ Aim(x, {n})
           \/ \E m \in Unused(base, files[base]), tried \in MoveFails(seen, n) :
                /\ Aim(x, {n, m})
                /\ \/ files' = Moves(tried, m, content) /\ Note(x, p, m, content)
                   \/ files' \in MoveFails(tried, m) /\ end = "refused" /\ UNCHANGED saved
  BY DEF Aside
<1>1. PICK n \in Unused(Recovered(p), here) :
        LET base == <<BaseOf[p], n[2], "">>
            seen == [fs EXCEPT ![Recovered(p)] = here]
        IN \/ /\ files' = Moves(seen, n, content)
              /\ Note(x, p, n, content) /\ Aim(x, {n})
           \/ \E m \in Unused(base, files[base]), tried \in MoveFails(seen, n) :
                /\ Aim(x, {n, m})
                /\ \/ files' = Moves(tried, m, content) /\ Note(x, p, m, content)
                   \/ files' \in MoveFails(tried, m) /\ end = "refused" /\ UNCHANGED saved
  BY <1>0
<1>2. Beside(Recovered(p))
  BY NamesOf
<1>3. Beside(n) /\ (n[2] \in Seconds \/ (n = Recovered(p) /\ here = "absent"))
  BY <1>2, UnusedIs
<1>4. PICK base : base = <<BaseOf[p], n[2], "">> /\ Beside(base)
  BY <1>3, NamesOf
<1>5. PICK seen : seen = [fs EXCEPT ![Recovered(p)] = here]
  OBVIOUS
<1>6. /\ here \in {"absent"} \cup Contents
      /\ files[Recovered(p)] = here \/ files[Recovered(p)] = "unseen"
  BY <1>2, BesideIs DEF At, Contents, TypeOK
<1>7. seen \in FileMap /\ Changed(seen, x)
  BY <1>2, <1>5, <1>6, BesideIs DEF FileMap, Changed
<1>8. "cut" \in Contents
  BY DEF Contents
<1>9. ASSUME NEW gs \in FileMap, Changed(gs, x), NEW k, NEW c \in Contents, Beside(k), k \in aims'[x],
             k[2] \in Seconds \/ files[k] \in {"unseen", "absent"}
      PROVE  [gs EXCEPT ![k] = c] \in FileMap /\ Changed([gs EXCEPT ![k] = c], x)
  BY <1>9, BesideIs DEF FileMap, Changed
<1>10. n[2] \in Seconds \/ files[n] \in {"unseen", "absent"}
  BY <1>3, <1>6
<1>11. CASE files' = Moves(seen, n, content) /\ Note(x, p, n, content) /\ Aim(x, {n})
  <2>1. n \in aims'[x] /\ n \in Names
    BY <1>3, <1>11, BesideIs DEF Aim, TypeOK
  <2>2. files' \in FileMap /\ Changed(files', x)
    BY <1>3, <1>7, <1>9, <1>10, <1>11, <2>1 DEF Moves
  <2>3. Noted(x, p, {content})
    BY <1>7, <1>11, <2>1 DEF Noted, Note, Moves, FileMap
  <2> QED
    BY <1>11, <2>1, <2>2, <2>3 DEF Aim
<1>12. ASSUME NEW m \in Unused(base, files[base]), NEW tried \in MoveFails(seen, n), Aim(x, {n, m}),
              \/ files' = Moves(tried, m, content) /\ Note(x, p, m, content)
              \/ files' \in MoveFails(tried, m) /\ end = "refused" /\ UNCHANGED saved
       PROVE  /\ files' \in FileMap /\ Changed(files', x)
              /\ \E names \in SUBSET Names : aims' = [aims EXCEPT ![x] = @ \cup names]
              /\ (end = "refused" /\ saved' = saved) \/ Noted(x, p, {content})
  <2>1. Beside(m) /\ (m[2] \in Seconds \/ (m = base /\ files[base] = "absent"))
    BY <1>4, UnusedIs
  <2>2. n \in aims'[x] /\ m \in aims'[x] /\ n \in Names /\ m \in Names
    BY <1>3, <1>12, <2>1, BesideIs DEF Aim, TypeOK
  <2>3. tried \in FileMap /\ Changed(tried, x)
    BY <1>3, <1>7, <1>8, <1>9, <1>10, <2>2 DEF MoveFails
  <2>4. m[2] \in Seconds \/ files[m] \in {"unseen", "absent"}
    BY <2>1
  <2>5. CASE files' = Moves(tried, m, content) /\ Note(x, p, m, content)
    <3>1. files' \in FileMap /\ Changed(files', x)
      BY <1>9, <2>1, <2>2, <2>3, <2>4, <2>5 DEF Moves
    <3>2. Noted(x, p, {content})
      BY <2>2, <2>3, <2>5 DEF Noted, Note, Moves, FileMap
    <3> QED
      BY <1>12, <2>2, <3>1, <3>2 DEF Aim
  <2>6. CASE files' \in MoveFails(tried, m) /\ end = "refused" /\ UNCHANGED saved
    <3>1. files' \in FileMap /\ Changed(files', x)
      BY <1>8, <1>9, <2>1, <2>2, <2>3, <2>4, <2>6 DEF MoveFails
    <3> QED
      BY <1>12, <2>2, <2>6, <3>1 DEF Aim
  <2> QED
    BY <1>12, <2>5, <2>6
<1> QED
  BY <1>1, <1>4, <1>5, <1>11, <1>12

LEMMA GoesBackEffect ==
  ASSUME TypeOK, NEW x \in Savers, NEW p \in Paths, NEW content \in Contents, NEW end,
         GoesBack(x, p, content, end)
  PROVE  /\ files' \in FileMap /\ Changed(files', x)
         /\ \E names \in SUBSET Names : aims' = [aims EXCEPT ![x] = @ \cup names]
         /\ \/ end = "refused" /\ saved' = saved
            \/ Noted(x, p, {content} \cup {here \in Contents : SameFile(content, here)})
<1>1. Own(p) \in Names /\ Beside(Recovered(p)) /\ Own(p) # Recovered(p)
  BY NamesOf DEF Own, Recovered
<1>2. files \in FileMap
  BY DEF TypeOK, FileMap
<1>3. aims \in [Savers -> SUBSET Names]
  BY DEF TypeOK
<1>4. aims = [aims EXCEPT ![x] = @ \cup {}]
  BY <1>3
<1>5. CASE end = "refused" /\ UNCHANGED tree
  BY <1>2, <1>4, <1>5 DEF tree, Changed
<1>6. ASSUME NEW here \in At(Own(p), {"whole"} \cup Versions), NEW fs, fs = [files EXCEPT ![Own(p)] = here],
             \/ /\ here = "absent"
                /\ files' = Moves(fs, Own(p), content)
                /\ Note(x, p, Own(p), content) /\ UNCHANGED aims
             \/ /\ here # "absent" /\ SameFile(content, here)
                /\ files' = fs
                /\ Note(x, p, Own(p), here) /\ UNCHANGED aims
             \/ /\ here # "absent" /\ ~SameFile(content, here)
                /\ Aside(x, p, content, fs, end)
      PROVE  /\ files' \in FileMap /\ Changed(files', x)
             /\ \E names \in SUBSET Names : aims' = [aims EXCEPT ![x] = @ \cup names]
             /\ \/ end = "refused" /\ saved' = saved
                \/ Noted(x, p, {content} \cup {same \in Contents : SameFile(content, same)})
  <2>1. here \in {"absent"} \cup Contents /\ (files[Own(p)] = here \/ files[Own(p)] = "unseen")
    BY <1>1, <1>2 DEF At, Contents, FileMap
  <2>2. fs \in FileMap /\ Changed(fs, x)
    BY <1>1, <1>2, <1>6, <2>1 DEF FileMap, Changed
  <2>3. CASE here = "absent" /\ files' = Moves(fs, Own(p), content) /\ Note(x, p, Own(p), content) /\ UNCHANGED aims
    <3>1. files' = [fs EXCEPT ![Own(p)] = content]
      BY <2>3 DEF Moves
    <3>2. files' \in FileMap /\ Changed(files', x)
      BY <1>1, <2>1, <2>2, <2>3, <3>1 DEF FileMap, Changed
    <3>3. Noted(x, p, {content} \cup {same \in Contents : SameFile(content, same)})
      BY <1>1, <2>2, <2>3, <3>1 DEF Noted, Note, FileMap
    <3> QED
      BY <1>4, <2>3, <3>2, <3>3
  <2>4. CASE here # "absent" /\ SameFile(content, here) /\ files' = fs /\ Note(x, p, Own(p), here) /\ UNCHANGED aims
    <3>1. here \in {content} \cup {same \in Contents : SameFile(content, same)} /\ files'[Own(p)] = here
      BY <1>1, <1>2, <1>6, <2>1, <2>4 DEF FileMap
    <3>2. Noted(x, p, {content} \cup {same \in Contents : SameFile(content, same)})
      BY <1>1, <2>4, <3>1 DEF Noted, Note
    <3> QED
      BY <1>4, <2>2, <2>4, <3>2
  <2>5. CASE Aside(x, p, content, fs, end)
    <3>1. fs[Recovered(p)] = files[Recovered(p)]
      BY <1>1, <1>2, <1>6, BesideIs DEF FileMap
    <3>2. /\ files' \in FileMap /\ Changed(files', x)
          /\ \E names \in SUBSET Names : aims' = [aims EXCEPT ![x] = @ \cup names]
          /\ (end = "refused" /\ saved' = saved) \/ Noted(x, p, {content})
      BY <2>2, <2>5, <3>1, AsideEffect
    <3>3. Noted(x, p, {content}) => Noted(x, p, {content} \cup {same \in Contents : SameFile(content, same)})
      BY DEF Noted
    <3> QED
      BY <3>2, <3>3
  <2> QED
    BY <1>6, <2>3, <2>4, <2>5
<1> QED
  BY <1>5, <1>6 DEF GoesBack

LEMMA GoesBackType ==
  ASSUME TypeOK, NEW x \in Savers, NEW p \in Paths, NEW content \in Contents, NEW end,
         GoesBack(x, p, content, end)
  PROVE  /\ files' \in [Names -> {"unseen", "absent"} \cup Contents]
         /\ saved' \in [Savers -> Notes \cup {None}]
         /\ aims' \in [Savers -> SUBSET Names]
         /\ \A y \in Savers \ {x} : saved'[y] = saved[y]
<1>1. files' \in [Names -> {"unseen", "absent"} \cup Contents]
  BY GoesBackEffect DEF FileMap
<1>2. aims' \in [Savers -> SUBSET Names]
  <2>1. PICK names \in SUBSET Names : aims' = [aims EXCEPT ![x] = @ \cup names]
    BY GoesBackEffect
  <2> QED
    BY <2>1 DEF TypeOK
<1>3. saved' = saved \/ \E note \in Notes : saved' = [saved EXCEPT ![x] = note]
  <2>1. saved' = saved \/ Noted(x, p, Contents)
    <3>1. {content} \cup {here \in Contents : SameFile(content, here)} \subseteq Contents
      OBVIOUS
    <3>2. saved' = saved \/ Noted(x, p, {content} \cup {here \in Contents : SameFile(content, here)})
      BY GoesBackEffect
    <3> QED
      BY <3>1, <3>2 DEF Noted
  <2> QED
    BY <2>1 DEF Noted, Notes
<1> QED
  BY <1>1, <1>2, <1>3 DEF TypeOK

\* What has gone back stays when another file goes back.
LEMMA GoesBackKeeps ==
  ASSUME TypeOK, SavedStays, NEW x \in Savers, NEW p \in Paths, NEW content \in Contents, NEW end,
         saved[x] = None, GoesBack(x, p, content, end)
  PROVE  SavedStays'
<1> SUFFICES ASSUME NEW z \in Savers, saved'[z] # None
             PROVE  \/ files'[saved'[z].file] = saved'[z].content
                    \/ /\ saved'[z].file[2] \in Seconds
                       /\ \E y \in Savers \ {z} : saved'[z].file \in aims'[y]
  BY DEF SavedStays
<1>1. CASE z = x
  <2>1. \E contents : Noted(x, p, contents)
    BY <1>1, GoesBackEffect
  <2> QED
    BY <1>1, <2>1 DEF Noted, TypeOK
<1>2. CASE z # x
  <2>1. saved'[z] = saved[z]
    BY <1>2, GoesBackType
  <2>2. PICK note \in Notes : note = saved[z]
    BY <2>1 DEF TypeOK
  <2>3. PICK n \in Names : n = note.file
    BY <2>2 DEF Notes
  <2>4. note.content \in Contents /\ note.content \notin {"unseen", "absent"}
    BY <2>2, FileRetrieveAssumption DEF Notes, Contents
  <2>5. \A y \in Savers : aims[y] \subseteq aims'[y]
    <3>1. PICK names \in SUBSET Names : aims' = [aims EXCEPT ![x] = @ \cup names]
      BY GoesBackEffect
    <3> QED
      BY <3>1 DEF TypeOK
  <2>6. \/ files[n] = note.content
        \/ n[2] \in Seconds /\ \E y \in Savers \ {z} : n \in aims[y]
    BY <2>1, <2>2, <2>3 DEF SavedStays
  <2>7. Changed(files', x)
    BY GoesBackEffect
  <2>8. CASE files[n] = note.content
    <3>1. files'[n] = note.content \/ (n[2] \in Seconds /\ n \in aims'[x])
      BY <2>3, <2>4, <2>7, <2>8 DEF Changed
    <3> QED
      BY <1>2, <2>1, <2>2, <2>3, <3>1
  <2>9. CASE n[2] \in Seconds /\ \E y \in Savers \ {z} : n \in aims[y]
    BY <2>1, <2>2, <2>3, <2>5, <2>9
  <2> QED
    BY <2>6, <2>8, <2>9
<1> QED
  BY <1>1, <1>2

-----------------------------------------------------------------------------
(* The first state, and the types of the next.                             *)

LEMMA InitHolds == Init => IInv
<1> SUFFICES ASSUME Init PROVE IInv
  OBVIOUS
<1>1. MaxRetries \in Nat
  BY FileRetrieveAssumption
<1>2. TypeOK
  BY <1>1 DEF Init, TypeOK
<1>3. AloneIsOne /\ Clean /\ AloneSucceed
  BY DEF Init, AloneIsOne, Active, Clean, CleanOf, AloneSucceed, Undisturbed
<1>4. SavesLast /\ SavedStays
  BY DEF Init, SavesLast, SavedStays, Savers
<1> QED
  BY <1>2, <1>3, <1>4 DEF IInv

LEMMA TypeStep ==
  ASSUME TypeOK, Clean, Next
  PROVE  TypeOK'
<1> USE DEF nodes, search, decoder, disk, tree
<1>1. CASE Finished
  BY <1>1 DEF Finished, vars, TypeOK
<1>2. ASSUME NEW r \in Retrievals, Begin(r) PROVE TypeOK'
  <2>1. alone' \in [Retrievals -> BOOLEAN]
    BY <1>2 DEF Begin, TypeOK
  <2>2. PICK p \in {"error", "ask"} : Enter(r, p)
    BY <1>2 DEF Begin
  <2> QED
    BY <1>2, <2>1, <2>2, EnterType DEF Begin, TypeOK
<1>3. ASSUME NEW r \in Retrievals, Found(r) PROVE TypeOK'
  <2>1. Enter(r, "fetch") /\ GetSome(r, Blocks, code_k)
    BY <1>3 DEF Found
  <2> QED
    BY <1>3, <2>1, EnterType, GetSomeType DEF Found, TypeOK
<1>4. ASSUME NEW r \in Retrievals, AskFails(r) PROVE TypeOK'
  BY <1>4, EnterType DEF AskFails, TypeOK
<1>5. ASSUME NEW r \in Retrievals, NEW b \in Blocks, Fetched(r, b) PROVE TypeOK'
  <2>1. Sent(r, b) \subseteq Paths
    BY DEF Sent, TypeOK
  <2>2. shares' \subseteq Blocks \X ({Data} \cup Paths)
    BY <1>5, <2>1 DEF Fetched, Saved, TypeOK
  <2>3. got' \in [Retrievals -> SUBSET Blocks] /\ asked' \in [Retrievals -> SUBSET Blocks]
    BY <1>5 DEF Fetched, TypeOK
  <2> QED
    BY <1>5, <2>2, <2>3 DEF Fetched, TypeOK
<1>6. ASSUME NEW r \in Retrievals, NEW b \in Blocks, NotFetched(r, b) PROVE TypeOK'
  BY <1>6 DEF NotFetched, TypeOK
<1>7. ASSUME NEW r \in Retrievals, RetrievedAll(r) PROVE TypeOK'
  <2>1. CASE Enter(r, "data") /\ UNCHANGED search
    BY <1>7, <2>1, EnterType DEF RetrievedAll, TypeOK
  <2>2. CASE GetSome(r, meta[r], More) /\ UNCHANGED <<phase, got, bad, retries>>
    <3>1. PICK left \in SUBSET Blocks : left = meta[r]
      BY DEF TypeOK
    <3>2. asked' \in [Retrievals -> SUBSET Blocks] /\ meta' \in [Retrievals -> SUBSET Blocks]
      BY <2>2, <3>1, GetSomeType
    <3> QED
      BY <1>7, <2>2, <3>2 DEF RetrievedAll, TypeOK
  <2>3. CASE Retry(r)
    <3>1. Enter(r, "ask")
      BY <2>3 DEF Retry
    <3>2. retries' \in [Retrievals -> 0..MaxRetries]
      BY <2>3, Distinct DEF Retry, TypeOK
    <3> QED
      BY <1>7, <2>3, <3>1, <3>2, EnterType DEF RetrievedAll, Retry, TypeOK
  <2>4. CASE Enter(r, "failed") /\ UNCHANGED search
    BY <1>7, <2>4, EnterType DEF RetrievedAll, TypeOK
  <2> QED
    BY <1>7, <2>1, <2>2, <2>3, <2>4 DEF RetrievedAll
<1>8. ASSUME NEW r \in Retrievals, OpenOutput(r) PROVE TypeOK'
  <2>1. /\ out' \in [{"rec1", "m"} -> {"none", "torn", Data} \cup Paths]
        /\ writers' \in [{"rec1", "m"} -> SUBSET Retrievals]
        /\ headers' \in [Retrievals -> SUBSET Blocks]
    <3>1. out' \in [{"rec1", "m"} -> {"none", "torn", Data} \cup Paths]
      BY <1>8 DEF OpenOutput, TypeOK
    <3>2. writers' \in [{"rec1", "m"} -> SUBSET Retrievals]
      BY <1>8 DEF OpenOutput, TypeOK
    <3>3. headers' = headers \/ \E found \in SUBSET got[r] : headers' = [headers EXCEPT ![r] = found]
      BY <1>8 DEF OpenOutput
    <3>4. headers' \in [Retrievals -> SUBSET Blocks]
      BY <3>3 DEF TypeOK
    <3> QED
      BY <3>1, <3>2, <3>4
  <2>2. thread' \in [Retrievals -> {"idle", "open", "written"}]
    BY <1>8 DEF OpenOutput, DecodeFails, TypeOK
  <2>3. phase' = phase \/ Enter(r, "failed")
    BY <1>8 DEF OpenOutput, DecodeFails
  <2> QED
    BY <1>8, <2>1, <2>2, <2>3, EnterType DEF OpenOutput, TypeOK
<1>9. ASSUME NEW r \in Retrievals, Decode(r) PROVE TypeOK'
  <2>1. Part(r) \in {Data} \cup Paths
    BY <1>9 DEF Decode, Part, Clean, CleanOf, TypeOK
  <2>2. thread' \in [Retrievals -> {"idle", "open", "written"}]
    BY <1>9 DEF Decode, DecodeFails, TypeOK
  <2>3. phase' = phase \/ Enter(r, "failed")
    BY <1>9 DEF Decode, DecodeFails
  <2>4. out' \in [{"rec1", "m"} -> {"none", "torn", Data} \cup Paths]
    <3>1. out' = out \/ \E c \in {Part(r), "torn"} : out' = [out EXCEPT ![File(r)] = c]
      BY <1>9 DEF Decode
    <3> QED
      BY <2>1, <3>1 DEF TypeOK
  <2>5. writers' \in [{"rec1", "m"} -> SUBSET Retrievals] /\ headers' \in [Retrievals -> SUBSET Blocks]
    BY <1>9 DEF Decode, TypeOK
  <2> QED
    BY <1>9, <2>2, <2>3, <2>4, <2>5, EnterType DEF Decode, TypeOK
<1>10. ASSUME NEW r \in Retrievals, RemoveShares(r) PROVE TypeOK'
  <2>1. PICK p \in {"meta", "decrypt", "failed"} : Enter(r, p)
    BY <1>10 DEF RemoveShares, DecodeFails
  <2>2. thread' \in [Retrievals -> {"idle", "open", "written"}] /\ shares' \subseteq shares
    BY <1>10 DEF RemoveShares, DecodeFails, TypeOK
  <2> QED
    BY <1>10, <2>1, <2>2, EnterType DEF RemoveShares, TypeOK
<1>11. ASSUME NEW r \in Retrievals, NoMetadata(r) \/ NoData(r) PROVE TypeOK'
  BY <1>11, EnterType DEF NoMetadata, NoData, TypeOK
<1>12. ASSUME NEW r \in Retrievals, Restore(r) PROVE TypeOK'
  <2>1. PICK p \in Paths, content \in Contents, end \in {"done", "refused"} :
          Enter(r, end) /\ GoesBack(r, p, content, end)
    <3>1. {"whole", "cut"} \subseteq Contents
      BY DEF Contents
    <3> QED
      BY <1>12, <3>1 DEF Restore
  <2>2. r \in Savers
    BY DEF Savers
  <2>3. /\ files' \in [Names -> {"unseen", "absent"} \cup Contents]
        /\ saved' \in [Savers -> Notes \cup {None}] /\ aims' \in [Savers -> SUBSET Names]
    BY <2>1, <2>2, GoesBackType
  <2>4. /\ out' \in [{"rec1", "m"} -> {"none", "torn", Data} \cup Paths]
        /\ writers' \in [{"rec1", "m"} -> SUBSET Retrievals]
    BY <1>12 DEF Restore
  <2>5. UNCHANGED <<nodes, wanted, search, decoder, shares, alone>>
    BY <1>12 DEF Restore
  <2> QED
    BY <2>1, <2>3, <2>4, <2>5, EnterType DEF TypeOK
<1>13. ASSUME NEW v \in Versions, OtherVersion(v) PROVE TypeOK'
  <2>1. PICK p \in Paths, end \in {"done", "refused"} : GoesBack(v, p, v, end)
    BY <1>13 DEF OtherVersion
  <2>2. v \in Savers /\ v \in Contents
    BY DEF Savers, Contents
  <2>3. /\ files' \in [Names -> {"unseen", "absent"} \cup Contents]
        /\ saved' \in [Savers -> Notes \cup {None}] /\ aims' \in [Savers -> SUBSET Names]
    BY <2>1, <2>2, GoesBackType
  <2> QED
    BY <1>13, <2>3 DEF OtherVersion, TypeOK
<1> QED
  BY <1>1, <1>2, <1>3, <1>4, <1>5, <1>6, <1>7, <1>8, <1>9, <1>10, <1>11, <1>12, <1>13 DEF Next, Work

-----------------------------------------------------------------------------
(* What a step of one retrieval leaves alone.                              *)

LEMMA WorkKeeps ==
  ASSUME TypeOK, Clean, NEW r \in Retrievals, Work(r)
  PROVE  /\ r \in Active /\ alone' = alone /\ nodes' = nodes /\ wanted' = wanted
         /\ \A q \in Retrievals : q # r =>
              /\ phase'[q] = phase[q] /\ meta'[q] = meta[q] /\ asked'[q] = asked[q]
              /\ got'[q] = got[q] /\ bad'[q] = bad[q] /\ thread'[q] = thread[q]
              /\ headers'[q] = headers[q] /\ saved'[q] = saved[q]
<1> USE DEF nodes, search, decoder, disk, tree
<1>1. alone' = alone /\ nodes' = nodes /\ wanted' = wanted
  BY DEF Work, Found, AskFails, Fetched, NotFetched, RetrievedAll, OpenOutput, Decode, RemoveShares,
     NoMetadata, NoData, Restore
<1>2. CASE Found(r)
  <2>1. Enter(r, "fetch") /\ GetSome(r, Blocks, code_k) /\ phase[r] = "ask"
    BY <1>2 DEF Found
  <2>2. UNCHANGED <<got, bad, thread, headers, saved>>
    BY <1>2 DEF Found
  <2> QED
    BY <1>1, <2>1, <2>2, GetSomeType, EnterType DEF Active
<1>3. CASE AskFails(r) \/ NoMetadata(r) \/ NoData(r)
  BY <1>3, EnterType DEF AskFails, NoMetadata, NoData, Active
<1>4. ASSUME NEW b \in Blocks, Fetched(r, b) \/ NotFetched(r, b)
      PROVE  /\ r \in Active
             /\ \A q \in Retrievals : q # r =>
                  /\ phase'[q] = phase[q] /\ meta'[q] = meta[q] /\ asked'[q] = asked[q]
                  /\ got'[q] = got[q] /\ bad'[q] = bad[q] /\ thread'[q] = thread[q]
                  /\ headers'[q] = headers[q] /\ saved'[q] = saved[q]
  BY <1>4 DEF Fetched, NotFetched, Active, TypeOK
<1>5. CASE RetrievedAll(r)
  <2>1. CASE Enter(r, "data") \/ Enter(r, "failed")
    BY <1>5, <2>1, EnterType DEF RetrievedAll, Retry, GetSome, Enter, Active, TypeOK
  <2>2. CASE GetSome(r, meta[r], More) /\ UNCHANGED <<phase, got, bad, retries>>
    <3>1. PICK left \in SUBSET Blocks : left = meta[r]
      BY DEF TypeOK
    <3> QED
      BY <1>5, <2>2, <3>1, GetSomeType DEF RetrievedAll, Active
  <2>3. CASE Retry(r)
    <3>1. Enter(r, "ask")
      BY <2>3 DEF Retry
    <3> QED
      BY <1>5, <2>3, <3>1, EnterType DEF RetrievedAll, Retry, Active, TypeOK
  <2> QED
    BY <1>5, <2>1, <2>2, <2>3 DEF RetrievedAll
<1>6. CASE OpenOutput(r)
  <2>1. phase' = phase \/ Enter(r, "failed")
    BY <1>6 DEF OpenOutput, DecodeFails
  <2>2. \A q \in Retrievals : q # r => thread'[q] = thread[q] /\ headers'[q] = headers[q]
    BY <1>6 DEF OpenOutput, DecodeFails, TypeOK
  <2> QED
    BY <1>6, <2>1, <2>2, EnterType DEF OpenOutput, Active
<1>7. CASE Decode(r)
  <2>1. phase' = phase \/ Enter(r, "failed")
    BY <1>7 DEF Decode, DecodeFails
  <2>2. \A q \in Retrievals : q # r => thread'[q] = thread[q] /\ headers'[q] = headers[q]
    BY <1>7 DEF Decode, DecodeFails, TypeOK
  <2> QED
    BY <1>7, <2>1, <2>2, EnterType DEF Decode, Active, Clean, CleanOf
<1>8. CASE RemoveShares(r)
  <2>1. PICK p \in {"meta", "decrypt", "failed"} : Enter(r, p)
    BY <1>8 DEF RemoveShares, DecodeFails
  <2>2. \A q \in Retrievals : q # r => thread'[q] = thread[q]
    BY <1>8 DEF RemoveShares, DecodeFails, TypeOK
  <2> QED
    BY <1>8, <2>1, <2>2, EnterType DEF RemoveShares, Active, Clean, CleanOf
<1>9. CASE Restore(r)
  <2>1. PICK p \in Paths, content \in Contents, end \in {"done", "refused"} :
          Enter(r, end) /\ GoesBack(r, p, content, end)
    <3>1. {"whole", "cut"} \subseteq Contents
      BY DEF Contents
    <3> QED
      BY <1>9, <3>1 DEF Restore
  <2>2. \A q \in Savers \ {r} : saved'[q] = saved[q]
    BY <2>1, GoesBackType DEF Savers
  <2> QED
    BY <1>9, <2>1, <2>2, EnterType DEF Restore, Active, Savers
<1> QED
  BY <1>1, <1>2, <1>3, <1>4, <1>5, <1>6, <1>7, <1>8, <1>9 DEF Work

LEMMA BeginEffect ==
  ASSUME TypeOK, NEW r \in Retrievals, Begin(r)
  PROVE  /\ phase[r] = "new" /\ phase'[r] \in {"error", "ask"}
         /\ \A q \in Retrievals : q # r => phase'[q] = phase[q]
         /\ \A q \in Retrievals : alone'[q] => alone[q]
         /\ phase'[r] = "error" \/ Active = {} \/ \A q \in Retrievals : q = r \/ q \in Active => ~alone'[q]
         /\ UNCHANGED <<nodes, wanted, search, decoder, disk, tree>>
<1>1. PICK p \in {"error", "ask"} : Enter(r, p) /\ (p = "error" <=> wanted[r] = InDir)
  BY DEF Begin
<1>2. /\ phase'[r] = p /\ \A q \in Retrievals : q # r => phase'[q] = phase[q]
  BY <1>1, EnterType
<1> QED
  BY <1>1, <1>2 DEF Begin, TypeOK

\* A retrieval with another key changes nothing but where files go back.
LEMMA OtherEffect ==
  ASSUME TypeOK, NEW v \in Versions, OtherVersion(v)
  PROVE  /\ UNCHANGED <<nodes, wanted, phase, search, decoder, disk, alone>>
         /\ saved[v] = None
         /\ \A r \in Retrievals : saved'[r] = saved[r]
<1>1. PICK p \in Paths, end \in {"done", "refused"} : GoesBack(v, p, v, end)
  BY DEF OtherVersion
<1>2. v \in Savers /\ v \in Contents /\ Retrievals \subseteq Savers \ {v}
  BY FileRetrieveAssumption DEF Savers, Contents
<1>3. \A r \in Retrievals : saved'[r] = saved[r]
  BY <1>1, <1>2, GoesBackType
<1> QED
  BY <1>3 DEF OtherVersion, Made

LEMMA AloneStep ==
  ASSUME TypeOK, Clean, AloneIsOne, Next
  PROVE  AloneIsOne'
<1>1. CASE Finished
  BY <1>1 DEF Finished, vars, AloneIsOne, Active
<1>2. ASSUME NEW r \in Retrievals, Work(r) PROVE AloneIsOne'
  <2>1. Active' \subseteq Active /\ alone' = alone
    BY <1>2, WorkKeeps DEF Active
  <2> QED
    BY <2>1 DEF AloneIsOne
<1>3. ASSUME NEW r \in Retrievals, Begin(r) PROVE AloneIsOne'
  <2>1. Active' \subseteq Active \cup {r} /\ (phase'[r] = "error" => r \notin Active')
    BY <1>3, BeginEffect DEF Active
  <2> QED
    BY <1>3, <2>1, BeginEffect DEF AloneIsOne
<1>4. ASSUME NEW v \in Versions, OtherVersion(v) PROVE AloneIsOne'
  BY <1>4, OtherEffect DEF AloneIsOne, Active
<1> QED
  BY <1>1, <1>2, <1>3, <1>4 DEF Next

LEMMA EnoughPaths ==
  ASSUME TypeOK, NEW r \in Retrievals, got[r] \subseteq Holders(r), Cardinality(got[r]) >= code_k
  PROVE  wanted[r] \in Paths
<1>1. got[r] # {}
  BY Distinct, FS_EmptySet
<1>2. PICK b \in got[r] : TRUE
  BY <1>1
<1> QED
  BY <1>2 DEF Holders, TypeOK

LEMMA CleanStep ==
  ASSUME TypeOK, Clean, Next
  PROVE  Clean'
<1> USE DEF nodes, search, decoder, disk, tree
<1>1. CASE Finished
  BY <1>1 DEF Finished, vars, Clean, CleanOf, Holders
<1>2. ASSUME NEW r \in Retrievals, Begin(r) PROVE Clean'
  BY <1>2, BeginEffect DEF Clean, CleanOf, Holders
<1>4. ASSUME NEW v \in Versions, OtherVersion(v) PROVE Clean'
  BY <1>4, OtherEffect DEF Clean, CleanOf, Holders
<1>3. ASSUME NEW r \in Retrievals, Work(r) PROVE Clean'
  <2>1. \A q \in Retrievals : q # r => CleanOf(q)'
    BY <1>3, WorkKeeps DEF Clean, CleanOf, Holders
  <2>2. CleanOf(r) /\ held' = held /\ wanted' = wanted /\ Holders(r)' = Holders(r)
    BY <1>3, WorkKeeps DEF Clean, Holders
  <2> SUFFICES CleanOf(r)'
    BY <2>1 DEF Clean
  <2>3. CASE Found(r) \/ AskFails(r)
    <3>1. PICK p \in {"error", "notFound", "fetch"} : Enter(r, p)
      BY <2>3 DEF Found, AskFails
    <3>2. phase[r] = "ask" /\ UNCHANGED <<got, thread>>
      BY <2>3 DEF Found, AskFails
    <3> QED
      BY <2>2, <3>1, <3>2, EnterType DEF CleanOf, Holders
  <2>4. ASSUME NEW b \in Blocks, Fetched(r, b) \/ NotFetched(r, b) PROVE CleanOf(r)'
    <3>1. phase[r] = "fetch" /\ phase' = phase /\ thread' = thread
      BY <2>4 DEF Fetched, NotFetched
    <3>2. got'[r] = got[r] \/ (got'[r] = got[r] \cup {b} /\ b \in Holders(r))
      BY <2>4 DEF Fetched, NotFetched, Holders, TypeOK
    <3> QED
      BY <2>2, <3>1, <3>2 DEF CleanOf, Holders
  <2>5. CASE RetrievedAll(r)
    <3>1. thread' = thread /\ thread[r] = "idle"
      BY <2>2, <2>5 DEF RetrievedAll, CleanOf, TypeOK
    <3>2. CASE Cardinality(got[r]) >= code_k /\ Enter(r, "data") /\ UNCHANGED search
      BY <2>2, <3>1, <3>2, EnterType, EnoughPaths DEF CleanOf
    <3>3. CASE UNCHANGED <<phase, got>>
      BY <2>2, <3>1, <3>3 DEF CleanOf, Holders
    <3>4. CASE Retry(r)
      <4>1. got'[r] = {} /\ Enter(r, "ask")
        BY <3>4 DEF Retry, TypeOK
      <4> QED
        BY <3>1, <4>1, EnterType DEF CleanOf, Holders
    <3>5. CASE Enter(r, "failed") /\ UNCHANGED search
      BY <2>2, <3>1, <3>5, EnterType DEF CleanOf, Holders
    <3> QED
      BY <2>5, <3>2, <3>3, <3>4, <3>5 DEF RetrievedAll
  <2>6. CASE OpenOutput(r) \/ Decode(r)
    <3>1. \/ phase' = phase /\ phase[r] \in {"data", "meta"}
          \/ Enter(r, "failed") /\ thread'[r] = "idle"
      BY <2>2, <2>6 DEF OpenOutput, Decode, DecodeFails, CleanOf, TypeOK
    <3>2. got' = got
      BY <2>6 DEF OpenOutput, Decode
    <3> QED
      BY <2>2, <3>1, <3>2, EnterType DEF CleanOf, Holders
  <2>7. CASE RemoveShares(r)
    <3>1. PICK p \in {"meta", "decrypt", "failed"} : Enter(r, p)
      BY <2>7 DEF RemoveShares, DecodeFails
    <3>2. got' = got /\ thread'[r] = "idle" /\ phase[r] \in {"data", "meta"}
      BY <2>2, <2>7 DEF RemoveShares, DecodeFails, CleanOf, TypeOK
    <3> QED
      BY <2>2, <3>1, <3>2, EnterType DEF CleanOf, Holders
  <2>8. CASE NoMetadata(r) \/ NoData(r) \/ Restore(r)
    <3>1. PICK p \in {"done", "refused", "failed"} : Enter(r, p)
      BY <2>8 DEF NoMetadata, NoData, Restore
    <3>2. got' = got /\ thread' = thread /\ thread[r] = "idle"
      BY <2>2, <2>8 DEF NoMetadata, NoData, Restore, CleanOf, TypeOK
    <3> QED
      BY <2>2, <3>1, <3>2, EnterType DEF CleanOf, Holders
  <2> QED
    BY <1>3, <2>3, <2>4, <2>5, <2>6, <2>7, <2>8 DEF Work
<1> QED
  BY <1>1, <1>2, <1>3, <1>4 DEF Next

-----------------------------------------------------------------------------
(* A retrieval that is alone.                                              *)

LEMMA FetchingStep ==
  ASSUME TypeOK, Clean, NEW r \in Retrievals, Undisturbed(r),
         \/ Found(r) \/ AskFails(r) \/ RetrievedAll(r)
         \/ \E b \in Blocks : Fetched(r, b) \/ NotFetched(r, b)
  PROVE  Undisturbed(r)'
<1> USE DEF nodes, search, decoder, disk, tree
<1>1. /\ CleanOf(r) /\ phase[r] \in {"ask", "fetch"}
      /\ held' = held /\ twice' = twice /\ wanted' = wanted /\ Holders(r) \subseteq Blocks
  BY DEF Clean, Found, AskFails, RetrievedAll, Fetched, NotFetched, Holders
<1>2. thread' = thread /\ thread[r] = "idle"
  BY <1>1 DEF CleanOf, Found, AskFails, RetrievedAll, Fetched, NotFetched, TypeOK
<1>3. CASE Found(r)
  <2>1. Enter(r, "fetch") /\ GetSome(r, Blocks, code_k) /\ got' = got /\ phase[r] = "ask"
    BY <1>3 DEF Found
  <2>2. phase'[r] = "fetch" /\ Blocks = meta'[r] \cup asked'[r] /\ got'[r] = {}
    BY <1>1, <2>1, EnterType, GetSomeType DEF CleanOf
  <2> QED
    BY <1>1, <2>2 DEF Undisturbed, Fetching, Kept, Holders
<1>4. CASE AskFails(r)
  <2>1. PICK p \in {"error", "notFound"} : Enter(r, p)
    BY <1>4 DEF AskFails
  <2> QED
    BY <2>1, EnterType DEF Undisturbed
<1>5. ASSUME NEW b \in Blocks, Fetched(r, b) PROVE Undisturbed(r)'
  <2>1. /\ phase'[r] = "fetch" /\ Fetching(r)
        /\ meta' = meta /\ bad' = bad /\ asked'[r] = asked[r] \ {b}
        /\ shares' = shares \cup ({b} \X ({Data} \cup Sent(r, b)))
    BY <1>5 DEF Fetched, Saved, Undisturbed, TypeOK
  <2>2. CASE wanted[r] \in held[b]
    <3>1. got'[r] = got[r] \cup {b}
      BY <1>5, <2>2 DEF Fetched, TypeOK
    <3>2. wanted[r] # ByKey
      BY <2>2, Distinct DEF TypeOK
    <3>3. wanted[r] \in Sent(r, b)
      BY <2>2, <3>2 DEF Sent
    <3> QED
      BY <1>1, <2>1, <3>1, <3>3 DEF Undisturbed, Fetching, Kept, Holders
  <2>3. CASE wanted[r] \notin held[b]
    <3>1. got' = got /\ b \notin Holders(r)
      BY <1>5, <2>3 DEF Fetched, Holders
    <3> QED
      BY <1>1, <2>1, <3>1 DEF Undisturbed, Fetching, Kept, Holders
  <2> QED
    BY <2>2, <2>3
<1>6. ASSUME NEW b \in Blocks, NotFetched(r, b) PROVE Undisturbed(r)'
  <2>1. /\ phase'[r] = "fetch" /\ Fetching(r) /\ shares' = shares /\ got' = got /\ meta' = meta
        /\ bad'[r] = bad[r] \cup {b} /\ asked'[r] = asked[r] \ {b}
    BY <1>6 DEF NotFetched, Undisturbed, TypeOK
  <2> QED
    BY <1>1, <2>1 DEF Undisturbed, Fetching, Kept, Holders
<1>7. CASE RetrievedAll(r)
  <2>1. Fetching(r) /\ asked[r] = {} /\ shares' = shares
    BY <1>7 DEF RetrievedAll, Undisturbed
  <2>2. CASE Enter(r, "data") /\ UNCHANGED search
    BY <1>1, <1>2, <2>1, <2>2, EnterType DEF Undisturbed, Fetching, Kept, Decoding
  <2>3. CASE GetSome(r, meta[r], More) /\ UNCHANGED <<phase, got, bad, retries>>
    <3>1. PICK left \in SUBSET Blocks : left = meta[r]
      BY DEF TypeOK
    <3>2. meta[r] = meta'[r] \cup asked'[r]
      BY <2>3, <3>1, GetSomeType
    <3>3. phase'[r] = "fetch"
      BY <1>7, <2>3 DEF RetrievedAll
    <3> QED
      BY <1>1, <2>1, <2>3, <3>2, <3>3 DEF Undisturbed, Fetching, Kept, Holders
  <2>4. CASE Retry(r)
    <3>1. phase'[r] = "ask"
      BY <2>4, EnterType DEF Retry
    <3> QED
      BY <3>1 DEF Undisturbed
  <2>5. CASE /\ Cardinality(got[r]) < code_k /\ meta[r] = {}
             /\ Enter(r, "failed") /\ UNCHANGED search
    <3>1. phase'[r] = "failed" /\ bad' = bad
      BY <2>5, EnterType
    <3>2. Holders(r) \ bad[r] \subseteq got[r] /\ got[r] \in SUBSET Blocks
      BY <2>1, <2>5 DEF Fetching, TypeOK
    <3>3. IsFiniteSet(got[r])
      BY <3>2, Distinct, FS_Subset
    <3>4. /\ Cardinality(Holders(r) \ bad[r]) <= Cardinality(got[r])
          /\ Cardinality(Holders(r) \ bad[r]) \in Nat /\ Cardinality(got[r]) \in Nat
      BY <3>2, <3>3, FS_Subset, FS_CardinalityType
    <3>5. Cardinality(Holders(r) \ bad[r]) < code_k
      BY <2>5, <3>4, Distinct
    <3> QED
      BY <1>1, <3>1, <3>5 DEF Undisturbed, Holders
  <2> QED
    BY <1>7, <2>2, <2>3, <2>4, <2>5 DEF RetrievedAll
<1> QED
  BY <1>3, <1>4, <1>5, <1>6, <1>7

LEMMA DecodingStep ==
  ASSUME TypeOK, Clean, NEW r \in Retrievals, Undisturbed(r),
         OpenOutput(r) \/ Decode(r) \/ RemoveShares(r)
  PROVE  Undisturbed(r)'
<1> USE DEF nodes, search, decoder, disk, tree
<1>1. /\ CleanOf(r) /\ phase[r] \in {"data", "meta"}
      /\ held' = held /\ twice' = twice /\ wanted' = wanted /\ got' = got
  BY DEF Clean, CleanOf, OpenOutput, Decode, RemoveShares
<1>2. wanted[r] \in Paths /\ wanted[r] # Data /\ Cardinality(got[r]) >= code_k
  BY <1>1, Distinct DEF CleanOf
<1>3. got[r] \X {Part(r)} \subseteq shares /\ Part(r) \in {Data, wanted[r]}
  BY <1>1 DEF Undisturbed, Kept, Part
<1>4. CASE OpenOutput(r)
  <2>1. {b \in got[r] : <<b, Part(r)>> \in shares} = got[r]
    BY <1>3
  <2>2. /\ phase' = phase /\ thread'[r] = "open" /\ headers'[r] = got[r] /\ shares' = shares
        /\ out' = [out EXCEPT ![File(r)] = "torn"]
        /\ writers' = [writers EXCEPT ![File(r)] = @ \cup {r}]
    BY <1>2, <1>4, <2>1 DEF OpenOutput, TypeOK
  <2>3. CASE phase[r] = "data"
    <3>1. out'["rec1"] = "torn" /\ r \in writers'["rec1"]
      BY <2>2, <2>3 DEF File, TypeOK
    <3> QED
      BY <1>1, <2>2, <2>3, <3>1 DEF Undisturbed, Kept, Decoding
  <2>4. CASE phase[r] = "meta"
    <3>1. out'["m"] = "torn" /\ r \in writers'["m"] /\ out'["rec1"] = out["rec1"]
      BY <2>2, <2>4 DEF File, TypeOK
    <3> QED
      BY <1>1, <2>2, <2>4, <3>1 DEF Undisturbed, Kept, Decoding
  <2> QED
    BY <1>1, <2>3, <2>4
<1>5. CASE Decode(r)
  <2>1. thread[r] = "open" /\ headers[r] \subseteq got[r] /\ out[File(r)] = "torn" /\ r \in writers[File(r)]
    BY <1>1, <1>5 DEF Decode, Undisturbed, Decoding, File
  <2>2. headers[r] \X {Part(r)} \subseteq shares
    BY <1>3, <2>1
  <2>3. \/ /\ phase' = phase /\ thread'[r] = "written" /\ shares' = shares
           /\ \E c \in {Part(r), "torn"} : /\ out' = [out EXCEPT ![File(r)] = c]
                                        /\ (c = Part(r) \/ Part(r) \in twice)
        \/ Enter(r, "failed") /\ Part(r) \in twice
    BY <1>5, <2>1, <2>2 DEF Decode, DecodeFails, TypeOK
  <2>4. Data \notin twice
    BY Distinct DEF TypeOK
  <2>5. CASE phase[r] = "data"
    <3>1. /\ phase' = phase /\ thread'[r] = "written" /\ shares' = shares
          /\ out'["rec1"] = Data
      BY <2>3, <2>4, <2>5 DEF File, Part, TypeOK
    <3> QED
      BY <1>1, <2>5, <3>1 DEF Undisturbed, Kept, Decoding, Written
  <2>6. CASE phase[r] = "meta"
    <3>1. CASE Enter(r, "failed") /\ Part(r) \in twice
      <4>1. phase'[r] = "failed" /\ wanted[r] \in twice
        BY <2>6, <3>1, EnterType DEF Part
      <4> QED
        BY <1>1, <4>1 DEF Undisturbed
    <3>2. CASE /\ phase' = phase /\ thread'[r] = "written" /\ shares' = shares
               /\ \E c \in {Part(r), "torn"} : /\ out' = [out EXCEPT ![File(r)] = c]
                                             /\ (c = Part(r) \/ Part(r) \in twice)
      <4>1. PICK c \in {wanted[r], "torn"} : /\ out' = [out EXCEPT !["m"] = c]
                                             /\ (c = wanted[r] \/ wanted[r] \in twice)
        BY <2>6, <3>2 DEF File, Part
      <4>2. out'["rec1"] = out["rec1"] /\ out'["m"] = c
        BY <4>1 DEF TypeOK
      <4>3. out'["rec1"] = out["rec1"] /\ Written("m", wanted[r])'
        BY <1>1, <4>1, <4>2 DEF Written
      <4> QED
        BY <1>1, <2>6, <3>2, <4>3 DEF Undisturbed, Kept, Decoding
    <3> QED
      BY <2>3, <3>1, <3>2
  <2> QED
    BY <1>1, <2>5, <2>6
<1>6. CASE RemoveShares(r)
  <2>1. /\ shares' = shares \ Inputs(r) /\ out' = out /\ thread'[r] = "idle"
        /\ Enter(r, IF phase[r] = "data" THEN "meta" ELSE "decrypt") /\ thread[r] = "written"
    BY <1>3, <1>6 DEF RemoveShares, Inputs, TypeOK
  <2>2. CASE phase[r] = "data"
    <3>1. phase'[r] = "meta"
      BY <2>1, <2>2, EnterType
    <3>2. Kept(r, {Data, wanted[r]}) /\ out["rec1"] = Data
      BY <2>1, <2>2, Distinct DEF Undisturbed, Decoding, Written, TypeOK
    <3>3. got[r] \X {wanted[r]} \subseteq shares'
      BY <1>2, <2>1, <2>2, <3>2 DEF Kept, Inputs, Part
    <3> QED
      BY <1>1, <2>1, <3>1, <3>2, <3>3 DEF Undisturbed, Kept, Decoding
  <2>3. CASE phase[r] = "meta"
    <3>1. phase'[r] = "decrypt"
      BY <2>1, <2>3, EnterType
    <3> QED
      BY <1>1, <2>1, <2>3, <3>1 DEF Undisturbed, Decoding, Written
  <2> QED
    BY <1>1, <2>2, <2>3
<1> QED
  BY <1>4, <1>5, <1>6

LEMMA RestoringStep ==
  ASSUME TypeOK, Clean, NEW r \in Retrievals, Undisturbed(r),
         NoMetadata(r) \/ NoData(r) \/ Restore(r)
  PROVE  Undisturbed(r)'
<1>1. /\ phase[r] = "decrypt" /\ out["rec1"] = Data /\ wanted[r] \in Paths
      /\ Written("m", wanted[r]) /\ held' = held /\ twice' = twice /\ wanted' = wanted
  BY DEF NoMetadata, NoData, Restore, Undisturbed, Clean, CleanOf, nodes
<1>2. CASE NoMetadata(r)
  <2>1. wanted[r] \in twice /\ phase'[r] = "failed"
    BY <1>1, <1>2, Distinct, EnterType DEF NoMetadata, Written
  <2> QED
    BY <1>1, <2>1 DEF Undisturbed
<1>3. CASE NoData(r)
  BY <1>1, <1>3 DEF NoData
<1>4. CASE Restore(r)
  <2>1. out["m"] = wanted[r]
    BY <1>1, <1>4, Distinct DEF Restore, Written
  <2>2. PICK end \in {"done", "refused"} : Enter(r, end) /\ GoesBack(r, wanted[r], "whole", end)
    BY <1>1, <1>4, <2>1 DEF Restore
  <2>3. r \in Savers /\ "whole" \in Contents
    BY DEF Savers, Contents
  <2>4. end = "refused" \/ Noted(r, wanted[r], {"whole"} \cup {here \in Contents : SameFile("whole", here)})
    BY <1>1, <2>2, <2>3, GoesBackEffect
  <2>5. {"whole"} \cup {here \in Contents : SameFile("whole", here)} = {"whole"}
    BY DEF SameFile
  <2>6. phase'[r] = end
    BY <2>2, EnterType
  <2>7. CASE end = "refused"
    BY <2>6, <2>7 DEF Undisturbed
  <2>8. CASE end = "done"
    <3>1. PICK n \in Names : saved' = [saved EXCEPT ![r] = [path |-> wanted[r], file |-> n, content |-> "whole"]]
      BY <2>4, <2>5, <2>8 DEF Noted
    <3>2. saved'[r] = [path |-> wanted[r], file |-> n, content |-> "whole"] /\ saved'[r] \in Notes
      BY <1>1, <2>3, <3>1 DEF TypeOK, Notes
    <3>3. saved'[r] # None
      BY <3>2, FileRetrieveAssumption
    <3> QED
      BY <1>1, <2>6, <2>8, <3>2, <3>3 DEF Undisturbed
  <2> QED
    BY <2>7, <2>8
<1> QED
  BY <1>2, <1>3, <1>4

LEMMA AloneSucceedStep ==
  ASSUME IInv, Next
  PROVE  AloneSucceed'
<1> USE DEF IInv
<1> SUFFICES ASSUME NEW r \in Retrievals, alone'[r] PROVE Undisturbed(r)'
  BY DEF AloneSucceed
<1>1. CASE Finished
  BY <1>1 DEF Finished, vars, nodes, search, decoder, disk, tree, AloneSucceed, Undisturbed, Fetching, Kept, Decoding, Written, Holders
<1>2. CASE Work(r)
  <2>1. Undisturbed(r)
    BY <1>2, WorkKeeps DEF AloneSucceed
  <2> QED
    BY <1>2, <2>1, FetchingStep, DecodingStep, RestoringStep DEF Work
<1>3. ASSUME NEW q \in Retrievals, q # r, Work(q) PROVE Undisturbed(r)'
  <2>1. /\ alone[r] /\ q \in Active /\ held' = held /\ twice' = twice /\ wanted' = wanted
        /\ phase'[r] = phase[r] /\ bad'[r] = bad[r] /\ saved'[r] = saved[r]
    BY <1>3, WorkKeeps DEF nodes
  <2>2. r \notin Active
    BY <1>3, <2>1 DEF AloneIsOne
  <2> QED
    BY <2>1, <2>2 DEF AloneSucceed, Undisturbed, Active, Holders
<1>4. ASSUME NEW q \in Retrievals, Begin(q) PROVE Undisturbed(r)'
  <2>1. CASE q = r
    BY <1>4, <2>1, BeginEffect DEF Undisturbed
  <2>2. CASE q # r
    <3>1. /\ alone[r] /\ phase'[r] = phase[r]
          /\ UNCHANGED <<nodes, wanted, search, decoder, disk, tree>>
      BY <1>4, <2>2, BeginEffect
    <3> QED
      BY <3>1 DEF nodes, search, decoder, disk, tree, AloneSucceed, Undisturbed, Fetching, Kept, Decoding, Written, Holders
  <2> QED
    BY <2>1, <2>2
<1>5. ASSUME NEW v \in Versions, OtherVersion(v) PROVE Undisturbed(r)'
  <2>1. alone[r] /\ saved'[r] = saved[r] /\ UNCHANGED <<nodes, wanted, phase, search, decoder, disk>>
    BY <1>5, OtherEffect
  <2> QED
    BY <2>1 DEF nodes, search, decoder, disk, AloneSucceed, Undisturbed, Fetching, Kept, Decoding, Written, Holders
<1> QED
  BY <1>1, <1>2, <1>3, <1>4, <1>5 DEF Next

-----------------------------------------------------------------------------
(* What has gone back.                                                     *)

LEMMA SavesLastStep ==
  ASSUME TypeOK, Clean, SavesLast, Next
  PROVE  SavesLast'
<1> SUFFICES ASSUME NEW r \in Retrievals, phase'[r] = "new" \/ r \in Active' PROVE saved'[r] = None
  BY DEF SavesLast
<1>1. CASE Finished
  BY <1>1 DEF Finished, vars, tree, SavesLast, Active
<1>2. ASSUME NEW q \in Retrievals, Begin(q) PROVE saved'[r] = None
  BY <1>2, BeginEffect DEF tree, SavesLast, Active
<1>3. ASSUME NEW q \in Retrievals, Work(q) PROVE saved'[r] = None
  <2>1. CASE q # r
    BY <1>3, <2>1, WorkKeeps DEF SavesLast, Active
  <2>2. CASE q = r
    <3>1. saved[r] = None
      BY <1>3, <2>2, WorkKeeps DEF SavesLast
    <3>2. CASE Restore(r)
      <4>1. PICK end \in {"done", "refused"} : Enter(r, end)
        BY <3>2 DEF Restore
      <4> QED
        BY <4>1, EnterType DEF Active
    <3>3. CASE ~Restore(r)
      BY <1>3, <2>2, <3>1, <3>3 DEF tree, disk, Work, Found, AskFails, Fetched, NotFetched, RetrievedAll,
         OpenOutput, Decode, RemoveShares, NoMetadata, NoData
    <3> QED
      BY <3>2, <3>3
  <2> QED
    BY <2>1, <2>2
<1>4. ASSUME NEW v \in Versions, OtherVersion(v) PROVE saved'[r] = None
  BY <1>4, OtherEffect DEF SavesLast, Active
<1> QED
  BY <1>1, <1>2, <1>3, <1>4 DEF Next

LEMMA SavedStaysStep ==
  ASSUME TypeOK, Clean, SavesLast, SavedStays, Next
  PROVE  SavedStays'
<1>1. CASE UNCHANGED tree
  BY <1>1 DEF tree, SavedStays
<1>2. ASSUME NEW r \in Retrievals, Restore(r) PROVE SavedStays'
  <2>1. PICK p \in Paths, content \in {"whole", "cut"}, end \in {"done", "refused"} :
          GoesBack(r, p, content, end)
    BY <1>2 DEF Restore
  <2>2. r \in Savers /\ content \in Contents
    BY DEF Savers, Contents
  <2>3. saved[r] = None
    BY <1>2 DEF Restore, SavesLast, Active
  <2> QED
    BY <2>1, <2>2, <2>3, GoesBackKeeps
<1>3. ASSUME NEW v \in Versions, OtherVersion(v) PROVE SavedStays'
  <2>1. PICK p \in Paths, end \in {"done", "refused"} : GoesBack(v, p, v, end)
    BY <1>3 DEF OtherVersion
  <2>2. v \in Savers /\ v \in Contents
    BY DEF Savers, Contents
  <2>3. saved[v] = None
    BY <1>3, OtherEffect
  <2> QED
    BY <2>1, <2>2, <2>3, GoesBackKeeps
<1>4. ASSUME NEW r \in Retrievals, Begin(r) \/ Work(r), ~Restore(r) PROVE UNCHANGED tree
  <2>1. CASE \/ Begin(r) \/ Found(r) \/ AskFails(r) \/ RetrievedAll(r)
             \/ \E b \in Blocks : Fetched(r, b) \/ NotFetched(r, b)
    BY <2>1 DEF Begin, Found, AskFails, RetrievedAll, Fetched, NotFetched
  <2>2. CASE OpenOutput(r) \/ Decode(r) \/ RemoveShares(r) \/ NoMetadata(r) \/ NoData(r)
    BY <2>2 DEF OpenOutput, Decode, RemoveShares, NoMetadata, NoData
  <2> QED
    BY <1>4, <2>1, <2>2 DEF Work
<1>5. CASE Finished
  BY <1>1, <1>5 DEF Finished, vars
<1> QED
  BY <1>1, <1>2, <1>3, <1>4, <1>5 DEF Next

-----------------------------------------------------------------------------
(* The theorems.                                                           *)

LEMMA Stutter == ASSUME IInv, UNCHANGED vars PROVE IInv'
<1> USE DEF vars, nodes, search, decoder, disk, tree, IInv
<1>1. TypeOK'
  BY DEF TypeOK
<1>2. AloneIsOne'
  BY DEF AloneIsOne, Active
<1>3. Clean'
  BY DEF Clean, CleanOf, Holders
<1>4. ASSUME NEW r \in Retrievals, alone[r] PROVE Undisturbed(r)'
  BY <1>4 DEF AloneSucceed, Undisturbed, Fetching, Kept, Decoding, Written, Holders
<1>5. SavesLast' /\ SavedStays'
  BY DEF SavesLast, SavedStays, Active
<1> QED
  BY <1>1, <1>2, <1>3, <1>4, <1>5 DEF AloneSucceed

\* The inductive invariant: what a retrieval has gathered, that one that is alone
\* finds everything as it left it, and that each puts one file back at its end.
THEOREM Invariance == Spec => []IInv
<1>1. IInv /\ [Next]_vars => IInv'
  BY TypeStep, AloneStep, CleanStep, AloneSucceedStep, SavesLastStep, SavedStaysStep, Stutter DEF IInv
<1> QED
  BY InitHolds, <1>1, PTL DEF Spec

\* The retrievals and the files they work on have their types.
THEOREM TypeCorrect == Spec => []TypeOK
<1>1. IInv => TypeOK
  BY DEF IInv
<1> QED
  BY Invariance, <1>1, PTL

\* A retrieval without another of the same key beside it that succeeds has put the
\* whole file where it was stored from, or beside a file that is there, whatever is
\* left in the client directory (_decodeDone, _decryptMeta, _decryptFile).
THEOREM AloneRestores == Spec => []RestoresWhole
<1>1. IInv => RestoresWhole
  BY DEF IInv, AloneSucceed, Undisturbed, RestoresWhole
<1> QED
  BY Invariance, <1>1, PTL

\* Such a retrieval is given up only if the query fails, if the file system refuses
\* what _decryptFile tells it, if too few nodes return a block in the last attempt
\* (_retrievedAll), or if the nodes keep metadata of two stores of the path: the
\* last two are what ends in "failed".
THEOREM GivesUpForBlocks == Spec => []FailsForBlocks
<1>1. IInv => FailsForBlocks
  BY DEF IInv, AloneSucceed, Undisturbed, FailsForBlocks
<1> QED
  BY Invariance, <1>1, PTL

\* Whatever a retrieval has put in its place, or beside it, or in the client
\* directory stays there with what was in it, through all retrievals that follow
\* and all moves of theirs that fail half way, but for a name with a stamp that
\* another retrieval has used too (_decryptFile looks for .recovered and not for
\* .recovered.<stamp>).
THEOREM SavedFilesStay == Spec => []SavedStays
<1>1. IInv => SavedStays
  BY DEF IInv
<1> QED
  BY Invariance, <1>1, PTL

-----------------------------------------------------------------------------
(* Every retrieval ends.                                                   *)

\* How much of one attempt is before a retrieval: two steps for each block that
\* it may still ask for, one for each that it has asked for, and three for each
\* of the two calls of the decoder.
Decoder(t) == IF t = "idle" THEN 2 ELSE IF t = "open" THEN 1 ELSE 0
Most == 11 + 3 * Cardinality(Blocks)
Searching(r) == 2 * Cardinality(meta[r]) + Cardinality(asked[r])

Stage(r) ==
  IF phase[r] = "new" THEN Most - 1
  ELSE IF phase[r] = "ask" THEN Most - 2
  ELSE IF phase[r] = "fetch" THEN 8 + Searching(r)
  ELSE IF phase[r] = "data" THEN 5 + Decoder(thread[r])
  ELSE IF phase[r] = "meta" THEN 2 + Decoder(thread[r])
  ELSE IF phase[r] = "decrypt" THEN 1 ELSE 0

\* With the attempts that are left.
Left(r) == (MaxRetries - retries[r]) * Most + Stage(r)

\* What sets of blocks count.
LEMMA Counted ==
  ASSUME NEW S \in SUBSET Blocks
  PROVE  /\ IsFiniteSet(S) /\ Cardinality(S) \in 0 .. Cardinality(Blocks)
         /\ Cardinality(Blocks) \in Nat /\ Most \in Nat
         /\ \A b \in S : Cardinality(S \ {b}) = Cardinality(S) - 1
         /\ \A T \in SUBSET S : Cardinality(S \ T) = Cardinality(S) - Cardinality(T)
                             /\ Cardinality(T) \in Nat /\ (T # {} => Cardinality(T) > 0)
<1>1. IsFiniteSet(Blocks)
  BY Distinct
<1>2. IsFiniteSet(S) /\ Cardinality(S) <= Cardinality(Blocks)
  BY <1>1, FS_Subset
<1>3. Cardinality(S) \in Nat /\ Cardinality(Blocks) \in Nat
  BY <1>1, <1>2, FS_CardinalityType
<1>4. \A b \in S : Cardinality(S \ {b}) = Cardinality(S) - 1
  BY <1>2, FS_RemoveElement
<1>5. ASSUME NEW T \in SUBSET S
      PROVE  /\ Cardinality(S \ T) = Cardinality(S) - Cardinality(T)
             /\ Cardinality(T) \in Nat /\ (T # {} => Cardinality(T) > 0)
  <2>1. IsFiniteSet(T)
    BY <1>2, FS_Subset
  <2>2. Cardinality(T) \in Nat /\ (T # {} => Cardinality(T) # 0)
    BY <2>1, FS_CardinalityType, FS_EmptySet
  <2>3. S \cap T = T
    OBVIOUS
  <2>4. Cardinality(S \ T) = Cardinality(S) - Cardinality(S \cap T)
    BY <1>2, FS_Difference
  <2> QED
    BY <2>2, <2>3, <2>4
<1> QED
  BY <1>2, <1>3, <1>4, <1>5 DEF Most

\* The stages of an attempt are numbers below Most.
LEMMA StageType ==
  ASSUME TypeOK, NEW r \in Retrievals
  PROVE  Stage(r) \in 0 .. Most - 1 /\ Searching(r) \in Nat /\ Most \in Nat
<1>1. meta[r] \in SUBSET Blocks /\ asked[r] \in SUBSET Blocks
  BY DEF TypeOK
<1>2. /\ Cardinality(meta[r]) \in 0 .. Cardinality(Blocks)
      /\ Cardinality(asked[r]) \in 0 .. Cardinality(Blocks)
      /\ Cardinality(Blocks) \in Nat /\ Most \in Nat
  BY <1>1, Counted
<1>3. Searching(r) \in 0 .. 3 * Cardinality(Blocks)
  BY <1>2 DEF Searching
<1>4. Decoder(thread[r]) \in 0 .. 2
  BY DEF Decoder
<1> HIDE DEF Searching, Decoder
<1> QED
  BY <1>2, <1>3, <1>4 DEF Stage, Most

\* The same of the state after a step.
LEMMA StageTypeNext ==
  ASSUME TypeOK', NEW r \in Retrievals
  PROVE  Searching(r)' \in Nat /\ Stage(r)' \in Nat
<1>1. meta'[r] \in SUBSET Blocks /\ asked'[r] \in SUBSET Blocks
  BY DEF TypeOK
<1>2. Cardinality(meta'[r]) \in Nat /\ Cardinality(asked'[r]) \in Nat /\ Cardinality(Blocks) \in Nat
  BY <1>1, Counted
<1>3. Searching(r)' \in Nat
  BY <1>2 DEF Searching
<1>4. Decoder(thread'[r]) \in Nat
  BY DEF Decoder
<1>5. Stage(r)' = IF phase'[r] = "new" THEN Most - 1
                  ELSE IF phase'[r] = "ask" THEN Most - 2
                  ELSE IF phase'[r] = "fetch" THEN 8 + Searching(r)'
                  ELSE IF phase'[r] = "data" THEN 5 + Decoder(thread'[r])
                  ELSE IF phase'[r] = "meta" THEN 2 + Decoder(thread'[r])
                  ELSE IF phase'[r] = "decrypt" THEN 1 ELSE 0
  BY DEF Stage, Searching, Decoder, Most
<1> HIDE DEF Searching, Decoder, Stage
<1> QED
  BY <1>2, <1>3, <1>4, <1>5 DEF Most

\* A retrieval has at most MaxRetries attempts after the one it is in.
LEMMA LeftType ==
  ASSUME TypeOK, NEW r \in Retrievals
  PROVE  Left(r) \in 0 .. (MaxRetries + 1) * Most - 1
<1>1. MaxRetries \in Nat /\ retries[r] \in 0 .. MaxRetries
  BY Distinct DEF TypeOK
<1>2. PICK a \in 0 .. MaxRetries : a = MaxRetries - retries[r]
  BY <1>1
<1>3. PICK s \in Nat, m \in Nat : s = Stage(r) /\ m = Most /\ s <= m - 1
  BY StageType
<1>4. a * m \in Nat /\ a * m <= MaxRetries * m
  BY <1>1, <1>2, <1>3
<1>5. (MaxRetries + 1) * m = MaxRetries * m + m /\ MaxRetries * m \in Nat
  BY <1>1, <1>3
<1>6. Left(r) = a * m + s
  BY <1>2, <1>3 DEF Left
<1> QED
  BY <1>3, <1>4, <1>5, <1>6

\* An attempt that goes on, and one that is followed by another.
LEMMA Lower ==
  ASSUME TypeOK, TypeOK', NEW r \in Retrievals,
         \/ retries'[r] = retries[r] /\ Stage(r)' < Stage(r)
         \/ /\ retries[r] < MaxRetries /\ retries'[r] = retries[r] + 1
            /\ phase'[r] = "ask"
  PROVE  Left(r)' < Left(r)
<1>1. MaxRetries \in Nat /\ retries[r] \in 0 .. MaxRetries
  BY Distinct DEF TypeOK
<1>2. PICK a \in 0 .. MaxRetries : a = MaxRetries - retries[r]
  BY <1>1
<1>3. PICK s \in Nat, m \in Nat : s = Stage(r) /\ m = Most /\ s <= m - 1
  BY StageType
<1>4. Left(r) = a * m + s /\ a * m \in Int
  BY <1>2, <1>3 DEF Left
<1>5. CASE retries'[r] = retries[r] /\ Stage(r)' < Stage(r)
  <2>1. Left(r)' = a * m + Stage(r)'
    BY <1>2, <1>3, <1>5 DEF Left, Most
  <2>2. Stage(r)' \in Nat
    BY StageTypeNext
  <2> HIDE DEF Stage
  <2> QED
    BY <1>3, <1>4, <1>5, <2>1, <2>2
<1>6. CASE retries[r] < MaxRetries /\ retries'[r] = retries[r] + 1 /\ phase'[r] = "ask"
  <2>1. a \in Nat \ {0} /\ MaxRetries - retries'[r] = a - 1
    BY <1>1, <1>2, <1>6
  <2>2. Left(r)' = (a - 1) * m + (m - 2)
    BY <1>3, <1>6, <2>1 DEF Left, Stage, Most
  <2>3. (a - 1) * m = a * m - m
    BY <1>3, <2>1
  <2> QED
    BY <1>3, <1>4, <2>2, <2>3
<1> QED
  BY <1>5, <1>6

\* The blocks that are asked for next are no longer waiting.
LEMMA GetSomeCounts ==
  ASSUME TypeOK, NEW r \in Retrievals, NEW left \in SUBSET Blocks, NEW n \in Nat, GetSome(r, left, n)
  PROVE  /\ Searching(r)' <= 2 * Cardinality(left)
         /\ left # {} /\ n > 0 => Searching(r)' < 2 * Cardinality(left)
         /\ Cardinality(left) \in 0 .. Cardinality(Blocks)
<1>1. PICK chosen \in Chosen(left, n) :
        asked' = [asked EXCEPT ![r] = chosen] /\ meta' = [meta EXCEPT ![r] = left \ chosen]
  BY DEF GetSome
<1>2. Cardinality(left) \in 0 .. Cardinality(Blocks) /\ Cardinality(left) \in Nat /\ Cardinality(Blocks) \in Nat
  BY Counted
<1>3. chosen \in SUBSET left /\ Cardinality(chosen) = Min({n, Cardinality(left)})
  BY <1>1 DEF Chosen, kSubset
<1>4. left # {} => Cardinality(left) > 0
  BY Counted
<1>5. left # {} /\ n > 0 => Cardinality(chosen) > 0
  <2>1. Min({n, Cardinality(left)}) \in {n, Cardinality(left)}
    BY <1>2 DEF Min
  <2> QED
    BY <1>3, <1>4, <2>1
<1>6. Cardinality(left \ chosen) = Cardinality(left) - Cardinality(chosen) /\ Cardinality(chosen) \in Nat
  BY <1>3, Counted
<1>7. asked'[r] = chosen /\ meta'[r] = left \ chosen
  BY <1>1 DEF TypeOK
<1>8. Searching(r)' = 2 * Cardinality(left \ chosen) + Cardinality(chosen)
  BY <1>7 DEF Searching
<1> QED
  BY <1>2, <1>5, <1>6, <1>8

\* Each step of a retrieval is a step further.
LEMMA StepLowers ==
  ASSUME TypeOK, Clean, TypeOK', NEW r \in Retrievals, Begin(r) \/ Work(r)
  PROVE  /\ Left(r)' < Left(r)
         /\ \A q \in Retrievals \ {r} : Left(q)' = Left(q)
<1> USE DEF nodes, search, decoder, disk, tree
<1>1. ASSUME NEW q \in Retrievals \ {r} PROVE Left(q)' = Left(q)
  <2>1. /\ phase'[q] = phase[q] /\ meta'[q] = meta[q] /\ asked'[q] = asked[q]
        /\ thread'[q] = thread[q]
    <3>1. CASE Begin(r)
      BY <3>1, BeginEffect
    <3>2. CASE Work(r)
      BY <3>2, WorkKeeps
    <3> QED
      BY <3>1, <3>2
  <2>2. retries'[q] = retries[q]
    <3>1. retries' = retries \/ retries' = [retries EXCEPT ![r] = @ + 1]
      BY DEF Begin, Work, Found, AskFails, Fetched, NotFetched, RetrievedAll, Retry, OpenOutput, Decode,
         RemoveShares, NoMetadata, NoData, Restore
    <3> QED
      BY <3>1 DEF TypeOK
  <2> QED
    BY <2>1, <2>2 DEF Left, Stage, Searching, Decoder, Most
<1>2. /\ Stage(r) \in 0 .. Most - 1 /\ Searching(r) \in Nat /\ Most \in Nat
      /\ Cardinality(Blocks) \in Nat /\ Most = 11 + 3 * Cardinality(Blocks)
  BY StageType, Counted DEF Most
<1>3. phase[r] = "ask" \/ phase[r] = "new" => Stage(r) >= Most - 2
  BY <1>2 DEF Stage
<1>4. phase'[r] \in {"done", "refused", "notFound", "failed", "error"} => Stage(r)' = 0
  BY DEF Stage
<1>5. phase[r] \in {"ask", "fetch", "data", "meta", "decrypt"} => Stage(r) > 0
  BY <1>2 DEF Stage, Decoder
<1>6. CASE Begin(r)
  <2>1. /\ retries'[r] = retries[r] /\ phase[r] = "new" /\ phase'[r] \in {"error", "ask"}
    BY <1>6, BeginEffect
  <2>2. Stage(r) = Most - 1 /\ Stage(r)' \in {0, Most - 2}
    BY <2>1 DEF Stage, Most
  <2> QED
    BY <1>1, <1>2, <2>1, <2>2, Lower
<1>7. CASE AskFails(r) \/ NoMetadata(r) \/ NoData(r) \/ Restore(r)
  <2>1. /\ retries' = retries /\ phase[r] \in {"ask", "decrypt"}
        /\ \E p \in {"error", "notFound", "failed", "done", "refused"} : Enter(r, p)
    BY <1>7 DEF AskFails, NoMetadata, NoData, Restore
  <2>2. phase'[r] \in {"done", "refused", "notFound", "failed", "error"}
    BY <2>1, EnterType
  <2> QED
    BY <1>1, <1>4, <1>5, <2>1, <2>2, Lower
<1>8. CASE Found(r)
  <2>1. phase[r] = "ask" /\ Enter(r, "fetch") /\ GetSome(r, Blocks, code_k) /\ retries' = retries
    BY <1>8 DEF Found
  <2>2. phase'[r] = "fetch"
    BY <2>1, EnterType
  <2>3. Searching(r)' <= 2 * Cardinality(Blocks)
    BY <2>1, Distinct, GetSomeCounts
  <2>4. Searching(r)' \in Nat
    BY StageTypeNext
  <2>5. Stage(r)' = 8 + Searching(r)'
    BY <2>2 DEF Stage
  <2>6. Stage(r)' < Stage(r)
    BY <1>2, <1>3, <2>1, <2>3, <2>4, <2>5
  <2> QED
    BY <1>1, <2>1, <2>6, Lower
<1>9. ASSUME NEW b \in Blocks, Fetched(r, b) \/ NotFetched(r, b)
      PROVE  Left(r)' < Left(r)
  <2>1. /\ phase[r] = "fetch" /\ b \in asked[r] /\ asked' = [asked EXCEPT ![r] = @ \ {b}]
        /\ phase' = phase /\ meta' = meta /\ retries' = retries
    BY <1>9 DEF Fetched, NotFetched
  <2>2. asked[r] \in SUBSET Blocks /\ meta[r] \in SUBSET Blocks /\ asked'[r] = asked[r] \ {b}
    BY <2>1 DEF TypeOK
  <2>3. /\ Cardinality(asked'[r]) = Cardinality(asked[r]) - 1
        /\ Cardinality(asked[r]) \in Nat /\ Cardinality(meta[r]) \in Nat
    BY <2>1, <2>2, Counted
  <2>4. Stage(r)' = 8 + (2 * Cardinality(meta[r]) + Cardinality(asked'[r]))
    BY <2>1 DEF Stage, Searching
  <2>5. Stage(r) = 8 + (2 * Cardinality(meta[r]) + Cardinality(asked[r]))
    BY <2>1 DEF Stage, Searching
  <2>6. Stage(r)' < Stage(r)
    BY <2>3, <2>4, <2>5
  <2> QED
    BY <2>1, <2>6, Lower
<1>10. CASE RetrievedAll(r)
  <2>1. phase[r] = "fetch" /\ asked[r] = {} /\ thread' = thread
    BY <1>10 DEF RetrievedAll
  <2>2. thread[r] = "idle"
    BY <2>1 DEF Clean, CleanOf, TypeOK
  <2>3. Stage(r) = 8 + Searching(r)
    BY <2>1 DEF Stage
  <2>4. CASE UNCHANGED search /\ \E p \in {"data", "failed"} : Enter(r, p)
    <3>1. phase'[r] \in {"data", "failed"}
      BY <2>4, EnterType
    <3>2. Stage(r)' \in 0 .. 7
      BY <2>1, <3>1 DEF Stage, Decoder
    <3>3. retries' = retries /\ Stage(r)' < Stage(r)
      BY <1>2, <2>3, <2>4, <3>2
    <3> QED
      BY <1>1, <3>3, Lower
  <2>5. CASE meta[r] # {} /\ GetSome(r, meta[r], More) /\ UNCHANGED <<phase, retries>>
    <3>1. More \in Nat /\ More > 0 /\ meta[r] \in SUBSET Blocks
      BY Distinct DEF TypeOK
    <3>2. PICK left \in SUBSET Blocks : left = meta[r]
      BY <3>1
    <3>3. Searching(r)' < 2 * Cardinality(left) /\ Cardinality(left) \in Nat
      BY <2>5, <3>1, <3>2, GetSomeCounts, Counted
    <3>4. Searching(r) = 2 * Cardinality(left)
      BY <2>1, <3>2, <3>3, FS_EmptySet DEF Searching
    <3>5. Stage(r)' = 8 + Searching(r)'
      BY <2>1, <2>5 DEF Stage
    <3>6. Searching(r)' \in Nat
      BY StageTypeNext
    <3>7. Stage(r)' < Stage(r)
      BY <2>3, <3>3, <3>4, <3>5, <3>6
    <3> QED
      BY <1>1, <2>5, <3>7, Lower
  <2>6. CASE Retry(r)
    <3>1. phase'[r] = "ask"
      BY <2>6, EnterType DEF Retry
    <3>2. retries[r] < MaxRetries /\ retries'[r] = retries[r] + 1
      BY <2>6 DEF Retry, TypeOK
    <3> QED
      BY <1>1, <3>1, <3>2, Lower
  <2> QED
    BY <1>10, <2>4, <2>5, <2>6 DEF RetrievedAll
<1>11. CASE OpenOutput(r) \/ Decode(r) \/ RemoveShares(r)
  <2>1. retries' = retries /\ phase[r] \in {"data", "meta"}
    BY <1>11 DEF OpenOutput, Decode, RemoveShares, Clean, CleanOf
  <2>2. \/ Enter(r, "failed")
        \/ phase' = phase /\ thread[r] = "idle" /\ thread' = [thread EXCEPT ![r] = "open"]
        \/ phase' = phase /\ thread[r] = "open" /\ thread' = [thread EXCEPT ![r] = "written"]
        \/ /\ Enter(r, IF phase[r] = "data" THEN "meta" ELSE "decrypt")
           /\ thread[r] = "written" /\ thread' = [thread EXCEPT ![r] = "idle"]
    BY <1>11 DEF OpenOutput, Decode, RemoveShares, DecodeFails
  <2>3. Stage(r)' < Stage(r)
    <3>1. CASE Enter(r, "failed")
      BY <1>4, <1>5, <2>1, <3>1, EnterType
    <3>2. CASE /\ phase' = phase
               /\ \/ thread[r] = "idle" /\ thread' = [thread EXCEPT ![r] = "open"]
                  \/ thread[r] = "open" /\ thread' = [thread EXCEPT ![r] = "written"]
      <4>1. \/ thread[r] = "idle" /\ thread'[r] = "open"
            \/ thread[r] = "open" /\ thread'[r] = "written"
        BY <3>2 DEF TypeOK
      <4> QED
        BY <2>1, <3>2, <4>1 DEF Stage, Decoder
    <3>3. CASE /\ Enter(r, IF phase[r] = "data" THEN "meta" ELSE "decrypt")
               /\ thread[r] = "written" /\ thread' = [thread EXCEPT ![r] = "idle"]
      <4>1. /\ phase'[r] = IF phase[r] = "data" THEN "meta" ELSE "decrypt"
            /\ thread[r] = "written" /\ thread'[r] = "idle"
        BY <3>3 DEF Enter, TypeOK
      <4> QED
        BY <2>1, <4>1 DEF Stage, Decoder
    <3> QED
      BY <2>2, <3>1, <3>2, <3>3
  <2> QED
    BY <1>1, <2>1, <2>3, Lower
<1> QED
  BY <1>1, <1>6, <1>7, <1>8, <1>9, <1>10, <1>11 DEF Work

\* Another key's retrieval is one step and delays nobody.
LEMMA OtherDelaysNobody ==
  ASSUME TypeOK, NEW v \in Versions, OtherVersion(v)
  PROVE  \A r \in Retrievals : Left(r)' = Left(r)
BY OtherEffect DEF search, decoder, Left, Stage, Searching, Decoder, Most

\* Each step takes one retrieval further and leaves the others where they are,
\* retries included: none makes more than (MaxRetries + 1) * (11 + 3 * code_m)
\* steps, and none asks again for ever (_retrievedAll, _schedule_retry_async).  The
\* retrieval of another key leaves all of them where they are.
THEOREM RetrievalsEnd ==
  Spec => /\ [](\A r \in Retrievals : Left(r) \in 0 .. (MaxRetries + 1) * Most - 1)
          /\ [][\/ \E r \in Retrievals : /\ Left(r)' < Left(r)
                                         /\ \A q \in Retrievals \ {r} : Left(q)' = Left(q)
                \/ /\ \E v \in Versions : OtherVersion(v)
                   /\ \A r \in Retrievals : Left(r)' = Left(r)]_vars
<1>1. IInv => \A r \in Retrievals : Left(r) \in 0 .. (MaxRetries + 1) * Most - 1
  BY LeftType DEF IInv
<1>2. IInv /\ IInv' /\ [Next]_vars =>
        [\/ \E r \in Retrievals : /\ Left(r)' < Left(r)
                                  /\ \A q \in Retrievals \ {r} : Left(q)' = Left(q)
         \/ /\ \E v \in Versions : OtherVersion(v)
            /\ \A r \in Retrievals : Left(r)' = Left(r)]_vars
  BY StepLowers, OtherDelaysNobody DEF IInv, Next, Finished
<1> QED
  BY <1>1, <1>2, Invariance, PTL DEF Spec
=============================================================================
