------------------------ MODULE AggregateStore_proofs ------------------------
(***************************************************************************)
(* What TLAPS proves about AggregateStore, for any finite set of calls and *)
(* any files and keys.                                                     *)
(***************************************************************************)
EXTENDS AggregateStore, FiniteSetTheorems, SequenceTheorems, WellFoundedInduction, TLAPS

New == {r \in Requests : answer[r] = "new"}

\* A call that has not put anything into a tarball has no timer, and one whose
\* constructor is still running has none yet.
Fresh ==
  /\ \A r \in Requests : answer[r] \in {"new", "reused"} => timer[r] = "none" /\ adding # r
  /\ \A r \in Requests : adding = r => timer[r] = "none"

\* Who waits in g has not been answered, and was put into g.
Waiters == \A g \in Tarballs : \A r \in waiting[g] : Pending(r) /\ batch[r] = g

\* There are names for all the calls that are still to come.
Counted == made + Cardinality(New) <= Cardinality(Requests)

\* Names of later generations are not in use.
Unused ==
  \A g \in Tarballs : g > made =>
    /\ \A s \in Requests : batch[s] # g
    /\ tar[g] = Absent /\ ~known[g] /\ waiting[g] = {}

Sends(s, g) == batch[s] = g /\ timer[s] \in Sending

\* A tarball has one send at a time.
Sole ==
  \A r, s \in Requests : batch[r] = batch[s] /\ timer[r] \in Sending /\ timer[s] \in Sending => r = s

\* No other timer is set for a tarball while it is sent.
NoTimer ==
  \A r, s \in Requests :
    batch[r] = batch[s] /\ timer[r] \in Sending => timer[s] \notin {"queued", "armed"}

\* A tarball is there until the send renames it.
TarThere ==
  /\ \A s \in Requests : timer[s] \in {"queued", "armed", "begin"} => tar[batch[s]] # Absent
  /\ \A s \in Requests : timer[s] \in Sending \ {"begin"} => tar[batch[s]] = Absent

\* The files a send goes through.
SendFiles ==
  \A s \in Requests :
    /\ timer[s] \in {"zip", "close"} => work[batch[s]] # Absent
    /\ timer[s] = "close" => gz[batch[s]] = [whole |-> FALSE, members |-> content[s]]
    /\ timer[s] \in {"post", "wait", "accepted", "failed"} =>
         gz[batch[s]] = [whole |-> TRUE, members |-> content[s]]
    /\ timer[s] = "accepted" => Names(content[s]) \subseteq stored

\* aggregate_waiters has the tarballs that fill up or are being sent.
InMap ==
  \A g \in Tarballs : known[g] <=> (tar[g] # Absent \/ \E s \in Requests : Sends(s, g))

\* Each tarball has a timer, or a send that has not renamed it yet.
Timed ==
  \A g \in Tarballs : tar[g] # Absent =>
    \E s \in Requests : batch[s] = g /\ (adding = s \/ timer[s] \in {"queued", "armed", "begin"})

\* The members of those who wait are in the tarball or under way.
Carries(r) ==
  \/ tar[batch[r]] # Absent /\ MembersFor(want[r]) \subseteq Names(tar[batch[r]])
  \/ BeingSent(r)

AllCarried == \A g \in Tarballs : \A r \in waiting[g] : Carries(r)

\* What holds while sends of one tarball do not overlap.
Apart ==
  /\ Sole
  /\ NoTimer
  /\ TarThere
  /\ SendFiles
  /\ InMap
  /\ Timed
  /\ AllCarried

Basic ==
  /\ TypeOK
  /\ Fresh
  /\ Waiters
  /\ Counted
  /\ Unused

IInv ==
  /\ Basic
  /\ overlap \/ Apart
  /\ Truthful

-----------------------------------------------------------------------------
(* The part that holds whether sends overlap or not.                       *)

\* The tarballs are numbered from that of the first name.
LEMMA TarballsType == Cardinality(Requests) \in Nat /\ Base \in Tarballs
BY AggregateStoreAssumption, FS_CardinalityType, SMT DEF Tarballs, Base

\* Adding to a tarball gives a tarball.
LEMMA AddedType ==
  ASSUME NEW old \in Seq(Member), NEW w \in Want
  PROVE  Added(old, w) \in Seq(Member)
BY DEF Added, Want, Member

\* The basic part holds before the first call.
LEMMA InitBasic == Init => Basic
<1> SUFFICES ASSUME Init PROVE Basic
  OBVIOUS
<1> USE DEF Init
<1>1. TypeOK
  BY TarballsType, <<>> \in Seq(Member) DEF TypeOK, Phases
<1>2. Fresh
  BY AggregateStoreAssumption DEF Fresh
<1>3. Waiters
  BY DEF Waiters
<1>4. Counted
  <2>1. New = Requests
    BY DEF New
  <2> QED
    BY <2>1, TarballsType DEF Counted
<1>5. Unused
  BY DEF Unused, Tarballs, Base
<1> QED
  BY <1>1, <1>2, <1>3, <1>4, <1>5 DEF Basic

\* Types of what the steps of a send leave behind.
LEMMA StepTypes ==
  ASSUME Basic, NEW r \in Requests,
         Rejoin(r) \/ ResetTimeout(r) \/ Schedule(r) \/ Fire(r)
           \/ Rename(r) \/ ZipOpen(r) \/ ZipClose(r) \/ Post(r) \/ Accept(r) \/ Refuse(r)
  PROVE  TypeOK'
<1> USE DEF Basic, TypeOK, calls, files, waiters
<1>1. CASE Rejoin(r)
  BY <1>1, <<>> \in Seq(Member) DEF Rejoin, Fresh, Phases, Sending
<1>2. CASE ResetTimeout(r)
  BY <1>2, <<>> \in Seq(Member) DEF ResetTimeout, Fresh, Phases, Sending, InBatch
<1>3. CASE Schedule(r)
  BY <1>3, <<>> \in Seq(Member) DEF Schedule, Fresh, Phases, Sending, Cancelled
<1>4. CASE Fire(r)
  BY <1>4, <<>> \in Seq(Member) DEF Fire, Fresh, Phases, Sending, InBatch
<1>5. CASE Rename(r)
  <2> USE <1>5 DEF Rename
  <2>1. timer' \in [Requests -> Phases] /\ timer'[r] # "armed"
         /\ \A s \in Requests : s # r => timer'[s] = timer[s]
    BY DEF Phases, Sending
  <2>2. tar' \in [Tarballs -> Seq(Member) \cup {Absent}]
    OBVIOUS
  <2>3. work' \in [Tarballs -> Seq(Member) \cup {Absent}]
    OBVIOUS
  <2> QED
    BY <2>1, <2>2, <2>3
<1>6. CASE ZipOpen(r)
  BY <1>6, <<>> \in Seq(Member) DEF ZipOpen, Fresh, Phases, Sending
<1>7. CASE ZipClose(r)
  BY <1>7, <<>> \in Seq(Member) DEF ZipClose, Fresh, Phases, Sending
<1>8. CASE Post(r)
  BY <1>8, <<>> \in Seq(Member) DEF Post, Fresh, Phases, Sending
<1>9. CASE Accept(r)
  BY <1>9, <<>> \in Seq(Member) DEF Accept, Fresh, Phases, Sending, Names
<1>10. CASE Refuse(r)
  BY <1>10, <<>> \in Seq(Member) DEF Refuse, Fresh, Phases, Sending
<1> QED
  BY <1>1, <1>2, <1>3, <1>4, <1>5, <1>6, <1>7, <1>8, <1>9, <1>10

\* A store takes a name that is in range, and uses up one call.
LEMMA ConstructBasic ==
  ASSUME Basic, NEW r \in Requests, Construct(r)
  PROVE  Basic'
<1> DEFINE g == NextName
           create == tar[g] = Absent \/ ~known[g]
<1> USE DEF Basic
<1>1. made + 1 <= Cardinality(Requests)
  <2>1. New \subseteq Requests /\ IsFiniteSet(New) /\ r \in New
    BY AggregateStoreAssumption, FS_Subset DEF New, Construct
  <2>2. Cardinality(New) \in Nat /\ Cardinality(New) # 0
    BY <2>1, FS_CardinalityType, FS_EmptySet
  <2> QED
    BY <2>2, TarballsType DEF Counted, TypeOK
<1>2. g \in Tarballs /\ g \in Nat
  BY <1>1, TarballsType DEF NextName, TypeOK, Tarballs, Base
<1>3. tar' = [tar EXCEPT ![g] = Added(IF create THEN <<>> ELSE tar[g], want[r])]
  BY DEF Construct
<1>4. tar' \in [Tarballs -> Seq(Member) \cup {Absent}]
  <2>1. (IF create THEN <<>> ELSE tar[g]) \in Seq(Member)
    BY <1>2, <<>> \in Seq(Member) DEF TypeOK
  <2> HIDE DEF create, g
  <2>2. Added(IF create THEN <<>> ELSE tar[g], want[r]) \in Seq(Member)
    BY <2>1, AddedType DEF TypeOK
  <2> QED
    BY <1>2, <1>3, <2>2 DEF TypeOK
<1>5. waiting' = [waiting EXCEPT ![g] = (IF create THEN {} ELSE @) \cup {r}]
  BY DEF Construct
<1>6. timer[r] = "none" /\ answer[r] = "new" /\ adding = None
  BY DEF Construct, Fresh
<1> HIDE DEF create, g
<1>7. TypeOK'
  <2>1. waiting' \in [Tarballs -> SUBSET Requests]
    BY <1>2, <1>5 DEF TypeOK
  <2>2. made' \in Nat
    BY <1>2 DEF Construct, TypeOK, g
  <2>3. batch' = [batch EXCEPT ![r] = g] /\ known' = [known EXCEPT ![g] = TRUE]
    BY DEF Construct, g
  <2> QED
    BY <1>2, <1>4, <1>6, <2>1, <2>2, <2>3 DEF Construct, TypeOK
<1>8. Fresh'
  BY <1>6, AggregateStoreAssumption DEF Construct, Fresh, TypeOK
<1>9. Waiters'
  <2>1. \A h \in Tarballs : r \notin waiting[h]
    BY <1>6 DEF Waiters, Pending
  <2>2. batch' = [batch EXCEPT ![r] = g] /\ answer' = [answer EXCEPT ![r] = "pending"]
    BY DEF Construct, g
  <2> QED
    BY <1>2, <1>5, <2>1, <2>2 DEF Waiters, Pending, TypeOK
<1>10. Counted'
  <2>1. New' = New \ {r} /\ r \in New
    BY <1>6 DEF New, Construct, TypeOK
  <2>2. IsFiniteSet(New)
    BY AggregateStoreAssumption, FS_Subset DEF New
  <2>3. Cardinality(New') = Cardinality(New) - 1 /\ Cardinality(New) \in Nat
    BY <2>1, <2>2, FS_RemoveElement, FS_CardinalityType
  <2>4. made' = made \/ made' = made + 1
    BY DEF Construct, NextName
  <2> QED
    BY <2>3, <2>4, TarballsType DEF Counted, TypeOK
<1>11. Unused'
  <2>1. made' >= made /\ made' >= g
    BY <1>2 DEF Construct, NextName, g, TypeOK, Base
  <2>2. batch' = [batch EXCEPT ![r] = g] /\ known' = [known EXCEPT ![g] = TRUE]
    BY DEF Construct, g
  <2>3. ASSUME NEW h \in Tarballs, h > made'
        PROVE  h # g /\ h > made
    BY <1>2, <2>1, <2>3, <1>7 DEF TypeOK, Tarballs
  <2> QED
    BY <1>2, <1>3, <1>5, <2>2, <2>3 DEF Unused, TypeOK
<1> QED
  BY <1>7, <1>8, <1>9, <1>10, <1>11

\* What a step of one of the other kinds does to the basic part.
LEMMA OtherBasic ==
  ASSUME Basic, NEW r \in Requests,
         Rejoin(r) \/ ResetTimeout(r) \/ Schedule(r) \/ Fire(r)
           \/ Rename(r) \/ ZipOpen(r) \/ ZipClose(r) \/ Post(r) \/ Accept(r) \/ Refuse(r)
  PROVE  Basic'
<1>1. TypeOK'
  BY StepTypes
<1>2. Fresh'
  <2> USE DEF Basic, Fresh, TypeOK, calls
  <2>1. CASE Rejoin(r)
    BY <2>1 DEF Rejoin
  <2>2. CASE ResetTimeout(r)
    BY <2>2, AggregateStoreAssumption DEF ResetTimeout
  <2>3. CASE Schedule(r)
    BY <2>3, AggregateStoreAssumption DEF Schedule, Cancelled
  <2>4. CASE Fire(r) \/ Rename(r) \/ ZipOpen(r) \/ ZipClose(r) \/ Post(r) \/ Accept(r) \/ Refuse(r)
    BY <2>4 DEF Fire, Rename, ZipOpen, ZipClose, Post, Accept, Refuse
  <2> QED
    BY <2>1, <2>2, <2>3, <2>4
<1>3. /\ waiting' = waiting /\ batch' = batch /\ known' = known /\ made' = made
      /\ \A s \in Requests : answer'[s] = answer[s] \/ (answer[s] = "new" /\ answer'[s] = "reused")
      /\ \A g \in Tarballs : tar[g] = Absent => tar'[g] = Absent
  BY DEF Basic, TypeOK, calls, files, waiters, Rejoin, ResetTimeout, Schedule, Fire, Rename,
         ZipOpen, ZipClose, Post, Accept, Refuse
<1>4. Waiters'
  BY <1>3 DEF Basic, Waiters, Pending, TypeOK
<1>5. Counted'
  <2>1. New' \subseteq New /\ IsFiniteSet(New)
    BY <1>3, AggregateStoreAssumption, FS_Subset DEF New
  <2>2. Cardinality(New') \in Nat /\ Cardinality(New) \in Nat /\ Cardinality(New') <= Cardinality(New)
    BY <2>1, FS_Subset, FS_CardinalityType
  <2> QED
    BY <1>3, <2>2, TarballsType DEF Basic, Counted, TypeOK
<1>6. Unused'
  BY <1>3 DEF Basic, Unused, TypeOK
<1> QED
  BY <1>1, <1>2, <1>4, <1>5, <1>6 DEF Basic

\* What reading a .gz may give says whether it ended.
LEMMA ReadingEnds ==
  ASSUME NEW g, NEW rd \in Readings(g)
  PROVE  rd.ends \in BOOLEAN
<1>1. CASE gz[g] = Absent
  <2>1. rd = [members |-> <<>>, ends |-> FALSE]
    BY <1>1, Zenon DEF Readings
  <2> QED
    BY <2>1
<1>2. CASE gz[g] # Absent /\ gz[g].whole
  <2>1. rd = [members |-> gz[g].members, ends |-> TRUE]
    BY <1>2, Zenon DEF Readings
  <2> QED
    BY <2>1
<1>3. CASE gz[g] # Absent /\ ~gz[g].whole
  <2>1. PICK n \in 0 .. Len(gz[g].members) : rd = [members |-> SubSeq(gz[g].members, 1, n), ends |-> FALSE]
    BY <1>3, Zenon DEF Readings
  <2> QED
    BY <2>1
<1> QED
  BY <1>1, <1>2, <1>3

\* Finishing a send answers only those who wait.
LEMMA FinishBasic ==
  ASSUME Basic, NEW r \in Requests, NEW ms, NEW at, NEW ends \in BOOLEAN, NEW result \in {"ok", "failed"},
         adding = None, Finish(r, ms, at, ends, result)
  PROVE  Basic'
<1> USE DEF Basic
<1> DEFINE g == batch[r]
<1>1. g \in Tarballs /\ Popped(g, ms, at) \subseteq waiting[g]
  BY DEF TypeOK, Popped
<1>2. \A s \in Popped(g, ms, at) : Pending(s) /\ batch[s] = g
  BY <1>1 DEF Waiters
<1>3. /\ \A s \in Requests : answer'[s] = answer[s] \/ (answer[s] = "pending" /\ answer'[s] = result)
      /\ answer' \in [Requests -> {"new", "pending", "ok", "failed", "reused"}]
  <2>1. answer' = answer \/ answer' = [s \in Requests |-> IF s \in Popped(g, ms, at) THEN result ELSE answer[s]]
    BY DEF Finish
  <2> QED
    BY <1>2, <2>1 DEF TypeOK, Pending
<1>4. timer' \in [Requests -> Phases] /\ \A s \in Requests : timer'[s] = timer[s] \/ timer'[s] = "none"
  BY DEF Finish, Cancelled, TypeOK, Phases
<1>6. \/ /\ waiting' = [waiting EXCEPT ![g] = {}]
         /\ answer' = [s \in Requests |-> IF s \in Popped(g, ms, at) THEN result ELSE answer[s]]
      \/ waiting' = [waiting EXCEPT ![g] = @ \ Popped(g, ms, at)] /\ answer' = answer
  <2> DEFINE reached == \/ KeyErrors(g, ms, at) # {} /\ known[g]
                        \/ ends /\ KeyErrors(g, ms, at) = {}
  <2>1. CASE reached
    BY <2>1 DEF Finish
  <2>2. CASE ~reached
    BY <2>2 DEF Finish
  <2> QED
    BY <2>1, <2>2
<1>5. PICK W : W \subseteq waiting[g] /\ waiting' = [waiting EXCEPT ![g] = W]
  <2>1. CASE waiting' = [waiting EXCEPT ![g] = {}]
    BY <2>1
  <2>2. CASE waiting' = [waiting EXCEPT ![g] = @ \ Popped(g, ms, at)]
    <3> WITNESS waiting[g] \ Popped(g, ms, at)
    <3> QED
      BY <2>2
  <2> QED
    BY <1>6, <2>1, <2>2
<1>7. want' = want /\ batch' = batch /\ adding' = adding /\ tar' = tar /\ work' = work /\ made' = made
       /\ stored' = stored /\ overlap' = overlap /\ content' = [content EXCEPT ![r] = <<>>]
  BY DEF Finish
<1>8. known' = known \/ known' = [known EXCEPT ![g] = FALSE]
  BY DEF Finish
<1>9. gz' = gz \/ gz' = [gz EXCEPT ![g] = Absent]
  BY DEF Finish
<1> HIDE DEF g
<1>10. TypeOK'
  <2>1. waiting' \in [Tarballs -> SUBSET Requests]
    BY <1>1, <1>5 DEF TypeOK
  <2>2. known' \in [Tarballs -> BOOLEAN]
    BY <1>8 DEF TypeOK
  <2>3. gz' \in [Tarballs -> [whole : BOOLEAN, members : Seq(Member)] \cup {Absent}]
    BY <1>9 DEF TypeOK
  <2>4. content' \in [Requests -> Seq(Member)]
    BY <1>7, <<>> \in Seq(Member) DEF TypeOK
  <2>5. \A p, s \in Requests : (batch'[p] = batch'[s] /\ timer'[p] = "armed" /\ timer'[s] = "armed") => p = s
    BY <1>4, <1>7 DEF TypeOK
  <2> QED
    BY <1>3, <1>4, <1>7, <2>1, <2>2, <2>3, <2>4, <2>5 DEF TypeOK
<1>11. Fresh'
  BY <1>3, <1>4, <1>7, AggregateStoreAssumption DEF Fresh
<1>12. Waiters'
  <2> SUFFICES ASSUME NEW h \in Tarballs, NEW s \in waiting'[h]
               PROVE  answer'[s] = "pending" /\ batch'[s] = h
    BY DEF Waiters, Pending
  <2>1. s \in waiting[h] /\ s \in Requests
    <3>1. waiting'[h] \subseteq waiting[h]
      BY <1>5 DEF TypeOK
    <3> QED
      BY <3>1 DEF TypeOK
  <2>2. Pending(s) /\ batch[s] = h
    BY <2>1 DEF Waiters
  <2>3. s \notin Popped(g, ms, at) \/ answer' = answer
    BY <1>1, <1>2, <1>6, <2>2 DEF TypeOK
  <2> QED
    BY <1>6, <1>7, <2>1, <2>2, <2>3 DEF Pending
<1>13. Counted'
  <2>1. New' = New
    BY <1>3 DEF New
  <2> QED
    BY <1>7, <2>1 DEF Counted
<1>14. Unused'
  <2>1. \A h \in Tarballs : waiting'[h] \subseteq waiting[h] /\ (known'[h] => known[h])
    BY <1>1, <1>5, <1>8 DEF TypeOK
  <2> QED
    BY <1>7, <2>1 DEF Unused, TypeOK
<1> QED
  BY <1>10, <1>11, <1>12, <1>13, <1>14

\* Every step keeps the basic part.
LEMMA NextBasic == Basic /\ [Next]_vars => Basic'
<1> SUFFICES ASSUME Basic, [Next]_vars PROVE Basic'
  OBVIOUS
<1>1. CASE UNCHANGED vars
  BY <1>1 DEF vars, calls, files, waiters, Basic, TypeOK, Fresh, Waiters, Pending, Counted, New, Unused
<1>2. ASSUME NEW r \in Requests, Complete(r) \/ Fail(r)
      PROVE  Basic'
  <2>1. PICK rd \in Readings(batch[r]) :
           \/ Finish(r, rd.members, {i \in DOMAIN rd.members : IsData(rd.members[i])}, rd.ends, "ok")
           \/ Finish(r, rd.members, DOMAIN rd.members, rd.ends, "failed")
    BY <1>2 DEF Complete, Fail
  <2>2. adding = None
    BY <1>2 DEF Complete, Fail
  <2>3. rd.ends \in BOOLEAN
    BY ReadingEnds
  <2> QED
    BY <2>1, <2>2, <2>3, FinishBasic
<1>3. ASSUME NEW r \in Requests, Store(r) \/ Work(r) \/ Post(r)
      PROVE  Basic'
  BY <1>2, <1>3, ConstructBasic, OtherBasic DEF Store, Work
<1> QED
  BY <1>1, <1>3 DEF Next

-----------------------------------------------------------------------------
(* Sends of one tarball do not overlap unless the history variable says so.  *)

\* A call that is turned away changes nothing here.
LEMMA RejoinApart ==
  ASSUME Basic, Apart, NEW r \in Requests, Rejoin(r), ~overlap'
  PROVE  Apart'
<1> USE DEF Basic, TypeOK, Apart
<1>1. <<want, batch, adding, timer, tar, work, gz, content, known, waiting, stored>>' =
        <<want, batch, adding, timer, tar, work, gz, content, known, waiting, stored>>
  BY DEF Rejoin, files, waiters
<1>2. Sole'
  BY <1>1 DEF Sole, Sending
<1>3. NoTimer'
  BY <1>1 DEF NoTimer, Sending
<1>4. TarThere'
  BY <1>1 DEF TarThere, Sending
<1>5. SendFiles'
  BY <1>1 DEF SendFiles, Sending
<1>6. InMap'
  <2>1. known' = known /\ tar' = tar /\ batch' = batch /\ timer' = timer
    BY <1>1
  <2> QED
    BY <2>1 DEF InMap, Sends
<1>7. Timed'
  BY <1>1 DEF Timed, Sending
<1>8. AllCarried'
  <2> SUFFICES ASSUME NEW g \in Tarballs, NEW q \in waiting[g], Carries(q) PROVE Carries(q)'
    BY <1>1 DEF AllCarried
  <2> QED
    BY <1>1 DEF Carries, BeingSent, Sending
<1> QED
  BY <1>2, <1>3, <1>4, <1>5, <1>6, <1>7, <1>8

\* A timer is queued only while no send of the tarball has begun.
LEMMA ResetTimeoutApart ==
  ASSUME Basic, Apart, NEW r \in Requests, ResetTimeout(r), ~overlap'
  PROVE  Apart'
<1> USE DEF Basic, TypeOK, Apart
<1>1. /\ <<want, batch, tar, work, gz, content, known, waiting, stored>>' =
           <<want, batch, tar, work, gz, content, known, waiting, stored>>
      /\ adding = r /\ adding' = None /\ timer[r] = "none"
      /\ timer' = [timer EXCEPT ![r] = IF tar[batch[r]] = Absent THEN "none" ELSE "queued"]
      /\ tar[batch[r]] # Absent => \A s \in Requests : batch[s] = batch[r] => timer[s] # "begin"
  BY DEF ResetTimeout, files, waiters, Fresh, InBatch
<1>2. Sole'
  BY <1>1 DEF Sole, Sending
<1>3. NoTimer'
  BY <1>1 DEF NoTimer, TarThere, Sending
<1>4. TarThere'
  BY <1>1 DEF TarThere, Sending
<1>5. SendFiles'
  BY <1>1 DEF SendFiles, Sending
<1>6. InMap'
  <2>1. \A s \in Requests : timer'[s] \in Sending <=> timer[s] \in Sending
    BY <1>1 DEF Sending
  <2> QED
    BY <1>1, <2>1 DEF InMap, Sends
<1>7. Timed'
  <2> SUFFICES ASSUME NEW g \in Tarballs, tar[g] # Absent
               PROVE  \E s \in Requests : batch[s] = g /\ timer'[s] \in {"queued", "armed", "begin"}
    BY <1>1 DEF Timed
  <2>1. PICK s \in Requests : batch[s] = g /\ (s = r \/ timer[s] \in {"queued", "armed", "begin"})
    BY <1>1 DEF Timed
  <2> WITNESS s \in Requests
  <2> QED
    BY <1>1, <2>1
<1>8. AllCarried'
  <2> SUFFICES ASSUME NEW g \in Tarballs, NEW q \in waiting[g], Carries(q) PROVE Carries(q)'
    BY <1>1 DEF AllCarried
  <2> QED
    BY <1>1 DEF Carries, BeingSent, Sending
<1> QED
  BY <1>2, <1>3, <1>4, <1>5, <1>6, <1>7, <1>8

\* The timer armed replaces the one cancelled.
LEMMA ScheduleApart ==
  ASSUME Basic, Apart, NEW r \in Requests, Schedule(r), ~overlap'
  PROVE  Apart'
<1> USE DEF Basic, TypeOK, Apart
<1>1. /\ <<want, batch, adding, tar, work, gz, content, known, waiting, stored>>' =
           <<want, batch, adding, tar, work, gz, content, known, waiting, stored>>
      /\ timer[r] = "queued"
      /\ timer' = [Cancelled(batch[r]) EXCEPT ![r] = "armed"]
  BY DEF Schedule, calls, files, waiters, TarThere
<1>2. Sole'
  <2>1. \A s \in Requests : timer'[s] \in Sending <=> timer[s] \in Sending
    BY <1>1 DEF Cancelled, Sending
  <2> QED
    BY <1>1, <2>1 DEF Sole
<1>3. NoTimer'
  BY <1>1 DEF Cancelled, NoTimer, Sending
<1>4. TarThere'
  BY <1>1 DEF Cancelled, TarThere, Sending
<1>5. SendFiles'
  BY <1>1 DEF Cancelled, SendFiles, Sending
<1>6. InMap'
  <2>1. \A s \in Requests : timer'[s] \in Sending <=> timer[s] \in Sending
    BY <1>1 DEF Cancelled, Sending
  <2> QED
    BY <1>1, <2>1 DEF InMap, Sends
<1>7. Timed'
  BY <1>1 DEF Cancelled, Timed, Sending
<1>8. AllCarried'
  <2> SUFFICES ASSUME NEW g \in Tarballs, NEW q \in waiting[g], Carries(q) PROVE Carries(q)'
    BY <1>1 DEF Cancelled, AllCarried
  <2> QED
    BY <1>1 DEF Cancelled, Carries, BeingSent, Sending
<1> QED
  BY <1>2, <1>3, <1>4, <1>5, <1>6, <1>7, <1>8

\* A send begins when no other one and no other timer is there.
LEMMA FireApart ==
  ASSUME Basic, Apart, NEW r \in Requests, Fire(r), ~overlap'
  PROVE  Apart'
<1> USE DEF Basic, TypeOK, Apart
<1>1. /\ <<want, batch, adding, tar, work, gz, content, known, waiting, stored>>' =
           <<want, batch, adding, tar, work, gz, content, known, waiting, stored>>
      /\ timer[r] = "armed" /\ timer' = [timer EXCEPT ![r] = "begin"]
      /\ \A s \in Requests : batch[s] = batch[r] => timer[s] # "queued"
  BY DEF Fire, calls, files, waiters, InBatch
<1>2. Sole'
  BY <1>1 DEF Sole, NoTimer, Sending
<1>3. NoTimer'
  BY <1>1 DEF NoTimer, Sending
<1>4. TarThere'
  BY <1>1 DEF TarThere, Sending
<1>5. SendFiles'
  BY <1>1 DEF SendFiles, Sending
<1>6. InMap'
  BY <1>1 DEF InMap, Sends, Sending, TarThere
<1>7. Timed'
  BY <1>1 DEF Timed, Sending
<1>8. AllCarried'
  <2> SUFFICES ASSUME NEW g \in Tarballs, NEW q \in waiting[g], Carries(q) PROVE Carries(q)'
    BY <1>1 DEF AllCarried
  <2> QED
    BY <1>1 DEF Carries, BeingSent, Sending
<1> QED
  BY <1>2, <1>3, <1>4, <1>5, <1>6, <1>7, <1>8

\* The send takes the tarball, and all that wait for it.
LEMMA RenameApart ==
  ASSUME Basic, Apart, NEW r \in Requests, Rename(r), ~overlap'
  PROVE  Apart'
<1> USE DEF Basic, TypeOK, Apart
<1>1. /\ <<want, batch, adding, gz, content, known, waiting, stored>>' =
           <<want, batch, adding, gz, content, known, waiting, stored>>
      /\ timer[r] = "begin" /\ timer' = [timer EXCEPT ![r] = "zip"]
      /\ tar[batch[r]] # Absent
      /\ tar' = [tar EXCEPT ![batch[r]] = Absent]
      /\ work' = [work EXCEPT ![batch[r]] = tar[batch[r]]]
      /\ \A s \in Requests : batch[s] = batch[r] /\ s # r => timer[s] = "none"
  <2>1. timer[r] = "begin" /\ tar[batch[r]] # Absent
    BY DEF Rename, TarThere
  <2>2. \A s \in Requests : batch[s] = batch[r] /\ s # r => timer[s] = "none"
    BY <2>1 DEF Sole, NoTimer, Sending, Phases
  <2> QED
    BY <2>1, <2>2 DEF Rename, calls, waiters
<1>2. Sole'
  <2>1. \A s \in Requests : timer'[s] \in Sending <=> timer[s] \in Sending
    BY <1>1 DEF Sending
  <2> QED
    BY <1>1, <2>1 DEF Sole
<1>3. NoTimer'
  <2>1. \A s \in Requests : /\ timer'[s] \in Sending <=> timer[s] \in Sending
         /\ (timer'[s] \in {"queued", "armed"} => timer[s] \in {"queued", "armed"})
    BY <1>1 DEF Sending
  <2> QED
    BY <1>1, <2>1 DEF NoTimer
<1>4. TarThere'
  BY <1>1 DEF TarThere, Sending
<1>5. SendFiles'
  BY <1>1 DEF SendFiles, Sending
<1>6. InMap'
  <2>1. \A s \in Requests : timer'[s] \in Sending <=> timer[s] \in Sending
    BY <1>1 DEF Sending
  <2>2. Sends(r, batch[r])'
    BY <1>1 DEF Sends, Sending
  <2> QED
    BY <1>1, <2>1, <2>2 DEF InMap, Sends
<1>7. Timed'
  BY <1>1 DEF Timed, Sending
<1>8. AllCarried'
  <2> SUFFICES ASSUME NEW g \in Tarballs, NEW q \in waiting[g], Carries(q) PROVE Carries(q)'
    BY <1>1 DEF AllCarried
  <2>1. q \in Requests
    OBVIOUS
  <2>2. CASE batch[q] = batch[r]
    <3>1. ~BeingSent(q)
      BY <1>1, <2>2 DEF BeingSent, Sending
    <3>2. MembersFor(want[q]) \subseteq Names(tar[batch[r]])
      BY <2>2, <3>1 DEF Carries
    <3> QED
      BY <1>1, <2>1, <2>2, <3>2 DEF Carries, BeingSent, Sending
  <2>3. CASE batch[q] # batch[r]
    BY <1>1, <2>1, <2>3 DEF Carries, BeingSent, Sending
  <2> QED
    BY <2>2, <2>3
<1> QED
  BY <1>2, <1>3, <1>4, <1>5, <1>6, <1>7, <1>8

\* The .gz is made from the renamed tarball.
LEMMA ZipOpenApart ==
  ASSUME Basic, Apart, NEW r \in Requests, ZipOpen(r), ~overlap'
  PROVE  Apart'
<1> USE DEF Basic, TypeOK, Apart
<1>1. /\ <<want, batch, adding, tar, work, known, waiting, stored>>' =
           <<want, batch, adding, tar, work, known, waiting, stored>>
      /\ timer[r] = "zip" /\ timer' = [timer EXCEPT ![r] = "close"]
      /\ work[batch[r]] # Absent
      /\ content' = [content EXCEPT ![r] = work[batch[r]]]
      /\ gz' = [gz EXCEPT ![batch[r]] = [whole |-> FALSE, members |-> work[batch[r]]]]
      /\ \A s \in Requests : batch[s] = batch[r] /\ s # r => timer[s] = "none"
  <2>1. timer[r] = "zip" /\ work[batch[r]] # Absent
    BY DEF ZipOpen, SendFiles
  <2>2. \A s \in Requests : batch[s] = batch[r] /\ s # r => timer[s] = "none"
    BY <2>1 DEF Sole, NoTimer, Sending, Phases
  <2> QED
    BY <2>1, <2>2 DEF ZipOpen, calls, waiters
<1>2. Sole'
  <2>1. \A s \in Requests : timer'[s] \in Sending <=> timer[s] \in Sending
    BY <1>1 DEF Sending
  <2> QED
    BY <1>1, <2>1 DEF Sole
<1>3. NoTimer'
  <2>1. \A s \in Requests : /\ timer'[s] \in Sending <=> timer[s] \in Sending
         /\ (timer'[s] \in {"queued", "armed"} => timer[s] \in {"queued", "armed"})
    BY <1>1 DEF Sending
  <2> QED
    BY <1>1, <2>1 DEF NoTimer
<1>4. TarThere'
  BY <1>1 DEF TarThere, Sending
<1>5. SendFiles'
  BY <1>1 DEF SendFiles, Sending
<1>6. InMap'
  <2>1. \A s \in Requests : timer'[s] \in Sending <=> timer[s] \in Sending
    BY <1>1 DEF Sending
  <2> QED
    BY <1>1, <2>1 DEF InMap, Sends
<1>7. Timed'
  <2> SUFFICES ASSUME NEW g \in Tarballs, tar[g] # Absent
               PROVE  \E s \in Requests : batch[s] = g /\ (adding = s \/ timer'[s] \in {"queued", "armed", "begin"})
    BY <1>1 DEF Timed
  <2>1. PICK s \in Requests : batch[s] = g /\ (adding = s \/ timer[s] \in {"queued", "armed", "begin"})
    BY DEF Timed
  <2> WITNESS s \in Requests
  <2> QED
    BY <1>1, <2>1
<1>8. AllCarried'
  <2> SUFFICES ASSUME NEW g \in Tarballs, NEW q \in waiting[g], Carries(q) PROVE Carries(q)'
    BY <1>1 DEF AllCarried
  <2> QED
    BY <1>1 DEF Carries, BeingSent, Sending
<1> QED
  BY <1>2, <1>3, <1>4, <1>5, <1>6, <1>7, <1>8

\* The .gz is whole once the renamed tarball goes.
LEMMA ZipCloseApart ==
  ASSUME Basic, Apart, NEW r \in Requests, ZipClose(r), ~overlap'
  PROVE  Apart'
<1> USE DEF Basic, TypeOK, Apart
<1>1. /\ <<want, batch, adding, tar, content, known, waiting, stored>>' =
           <<want, batch, adding, tar, content, known, waiting, stored>>
      /\ timer[r] = "close" /\ timer' = [timer EXCEPT ![r] = "post"]
      /\ work' = [work EXCEPT ![batch[r]] = Absent]
      /\ gz' = [gz EXCEPT ![batch[r]] = [whole |-> TRUE, members |-> content[r]]]
      /\ \A s \in Requests : batch[s] = batch[r] /\ s # r => timer[s] = "none"
  <2>1. timer[r] = "close" /\ work[batch[r]] # Absent
    BY DEF ZipClose, SendFiles
  <2>2. \A s \in Requests : batch[s] = batch[r] /\ s # r => timer[s] = "none"
    BY <2>1 DEF Sole, NoTimer, Sending, Phases
  <2> QED
    BY <2>1, <2>2 DEF ZipClose, calls, waiters
<1>2. Sole'
  <2>1. \A s \in Requests : timer'[s] \in Sending <=> timer[s] \in Sending
    BY <1>1 DEF Sending
  <2> QED
    BY <1>1, <2>1 DEF Sole
<1>3. NoTimer'
  <2>1. \A s \in Requests : /\ timer'[s] \in Sending <=> timer[s] \in Sending
         /\ (timer'[s] \in {"queued", "armed"} => timer[s] \in {"queued", "armed"})
    BY <1>1 DEF Sending
  <2> QED
    BY <1>1, <2>1 DEF NoTimer
<1>4. TarThere'
  BY <1>1 DEF TarThere, Sending
<1>5. SendFiles'
  BY <1>1 DEF SendFiles, Sending
<1>6. InMap'
  <2>1. \A s \in Requests : timer'[s] \in Sending <=> timer[s] \in Sending
    BY <1>1 DEF Sending
  <2> QED
    BY <1>1, <2>1 DEF InMap, Sends
<1>7. Timed'
  <2> SUFFICES ASSUME NEW g \in Tarballs, tar[g] # Absent
               PROVE  \E s \in Requests : batch[s] = g /\ (adding = s \/ timer'[s] \in {"queued", "armed", "begin"})
    BY <1>1 DEF Timed
  <2>1. PICK s \in Requests : batch[s] = g /\ (adding = s \/ timer[s] \in {"queued", "armed", "begin"})
    BY DEF Timed
  <2> WITNESS s \in Requests
  <2> QED
    BY <1>1, <2>1
<1>8. AllCarried'
  <2> SUFFICES ASSUME NEW g \in Tarballs, NEW q \in waiting[g], Carries(q) PROVE Carries(q)'
    BY <1>1 DEF AllCarried
  <2> QED
    BY <1>1 DEF Carries, BeingSent, Sending
<1> QED
  BY <1>2, <1>3, <1>4, <1>5, <1>6, <1>7, <1>8

\* A .gz is not mistaken for one that does not exist.
LEMMA WholeThere ==
  ASSUME TypeOK, NEW g \in Tarballs, NEW ms \in Seq(Member), gz[g] = [whole |-> TRUE, members |-> ms]
  PROVE  gz[g] # Absent /\ gz[g].whole /\ gz[g].members = ms
<1>1. [whole |-> TRUE, members |-> ms] \in [whole : BOOLEAN, members : Seq(Member)]
  OBVIOUS
<1>2. gz[g] # Absent
  BY <1>1, AggregateStoreAssumption, Zenon DEF Member
<1> QED
  BY <1>2

\* What is posted is what was packed.
LEMMA PostApart ==
  ASSUME Basic, Apart, NEW r \in Requests, Post(r), ~overlap'
  PROVE  Apart'
<1> USE DEF Basic, TypeOK, Apart
<1>1. /\ <<want, batch, adding, tar, work, gz, content, known, waiting, stored>>' =
           <<want, batch, adding, tar, work, gz, content, known, waiting, stored>>
      /\ timer[r] \in {"post", "wait"} /\ timer' = [timer EXCEPT ![r] = "wait"]
  <2>1. timer[r] \in {"post", "wait"} /\ gz[batch[r]] = [whole |-> TRUE, members |-> content[r]]
    BY DEF Post, SendFiles
  <2>2. gz[batch[r]] # Absent /\ gz[batch[r]].whole /\ gz[batch[r]].members = content[r]
    BY <2>1, WholeThere
  <2>3. content' = content
    BY <2>2 DEF Post
  <2> QED
    BY <2>1, <2>2, <2>3 DEF Post, calls, waiters
<1>2. Sole'
  <2>1. \A s \in Requests : timer'[s] \in Sending <=> timer[s] \in Sending
    BY <1>1 DEF Sending
  <2> QED
    BY <1>1, <2>1 DEF Sole
<1>3. NoTimer'
  <2>1. \A s \in Requests : /\ timer'[s] \in Sending <=> timer[s] \in Sending
         /\ (timer'[s] \in {"queued", "armed"} => timer[s] \in {"queued", "armed"})
    BY <1>1 DEF Sending
  <2> QED
    BY <1>1, <2>1 DEF NoTimer
<1>4. TarThere'
  BY <1>1 DEF TarThere, Sending
<1>5. SendFiles'
  BY <1>1 DEF SendFiles, Sending
<1>6. InMap'
  <2>1. \A s \in Requests : timer'[s] \in Sending <=> timer[s] \in Sending
    BY <1>1 DEF Sending
  <2> QED
    BY <1>1, <2>1 DEF InMap, Sends
<1>7. Timed'
  <2> SUFFICES ASSUME NEW g \in Tarballs, tar[g] # Absent
               PROVE  \E s \in Requests : batch[s] = g /\ (adding = s \/ timer'[s] \in {"queued", "armed", "begin"})
    BY <1>1 DEF Timed
  <2>1. PICK s \in Requests : batch[s] = g /\ (adding = s \/ timer[s] \in {"queued", "armed", "begin"})
    BY DEF Timed
  <2> WITNESS s \in Requests
  <2> QED
    BY <1>1, <2>1
<1>8. AllCarried'
  <2> SUFFICES ASSUME NEW g \in Tarballs, NEW q \in waiting[g], Carries(q) PROVE Carries(q)'
    BY <1>1 DEF AllCarried
  <2> QED
    BY <1>1 DEF Carries, BeingSent, Sending
<1> QED
  BY <1>2, <1>3, <1>4, <1>5, <1>6, <1>7, <1>8

\* The destination has all that the send packed.
LEMMA AcceptApart ==
  ASSUME Basic, Apart, NEW r \in Requests, Accept(r), ~overlap'
  PROVE  Apart'
<1> USE DEF Basic, TypeOK, Apart
<1>1. /\ <<want, batch, adding, tar, work, gz, content, known, waiting>>' =
           <<want, batch, adding, tar, work, gz, content, known, waiting>>
      /\ timer[r] = "wait" /\ timer' = [timer EXCEPT ![r] = "accepted"]
      /\ stored' = stored \cup Names(content[r])
  BY DEF Accept, calls, files, waiters
<1>2. Sole'
  <2>1. \A s \in Requests : timer'[s] \in Sending <=> timer[s] \in Sending
    BY <1>1 DEF Sending
  <2> QED
    BY <1>1, <2>1 DEF Sole
<1>3. NoTimer'
  <2>1. \A s \in Requests : /\ timer'[s] \in Sending <=> timer[s] \in Sending
         /\ (timer'[s] \in {"queued", "armed"} => timer[s] \in {"queued", "armed"})
    BY <1>1 DEF Sending
  <2> QED
    BY <1>1, <2>1 DEF NoTimer
<1>4. TarThere'
  BY <1>1 DEF TarThere, Sending
<1>5. SendFiles'
  BY <1>1 DEF SendFiles, Sending
<1>6. InMap'
  <2>1. \A s \in Requests : timer'[s] \in Sending <=> timer[s] \in Sending
    BY <1>1 DEF Sending
  <2> QED
    BY <1>1, <2>1 DEF InMap, Sends
<1>7. Timed'
  <2> SUFFICES ASSUME NEW g \in Tarballs, tar[g] # Absent
               PROVE  \E s \in Requests : batch[s] = g /\ (adding = s \/ timer'[s] \in {"queued", "armed", "begin"})
    BY <1>1 DEF Timed
  <2>1. PICK s \in Requests : batch[s] = g /\ (adding = s \/ timer[s] \in {"queued", "armed", "begin"})
    BY DEF Timed
  <2> WITNESS s \in Requests
  <2> QED
    BY <1>1, <2>1
<1>8. AllCarried'
  <2> SUFFICES ASSUME NEW g \in Tarballs, NEW q \in waiting[g], Carries(q) PROVE Carries(q)'
    BY <1>1 DEF AllCarried
  <2> QED
    BY <1>1 DEF Carries, BeingSent, Sending
<1> QED
  BY <1>2, <1>3, <1>4, <1>5, <1>6, <1>7, <1>8

\* A refused send keeps its files until its waiters are told.
LEMMA RefuseApart ==
  ASSUME Basic, Apart, NEW r \in Requests, Refuse(r), ~overlap'
  PROVE  Apart'
<1> USE DEF Basic, TypeOK, Apart
<1>1. /\ <<want, batch, adding, tar, work, gz, content, known, waiting, stored>>' =
           <<want, batch, adding, tar, work, gz, content, known, waiting, stored>>
      /\ timer[r] = "wait" /\ timer' = [timer EXCEPT ![r] = "failed"]
  BY DEF Refuse, calls, files, waiters
<1>2. Sole'
  <2>1. \A s \in Requests : timer'[s] \in Sending <=> timer[s] \in Sending
    BY <1>1 DEF Sending
  <2> QED
    BY <1>1, <2>1 DEF Sole
<1>3. NoTimer'
  <2>1. \A s \in Requests : /\ timer'[s] \in Sending <=> timer[s] \in Sending
         /\ (timer'[s] \in {"queued", "armed"} => timer[s] \in {"queued", "armed"})
    BY <1>1 DEF Sending
  <2> QED
    BY <1>1, <2>1 DEF NoTimer
<1>4. TarThere'
  BY <1>1 DEF TarThere, Sending
<1>5. SendFiles'
  BY <1>1 DEF SendFiles, Sending
<1>6. InMap'
  <2>1. \A s \in Requests : timer'[s] \in Sending <=> timer[s] \in Sending
    BY <1>1 DEF Sending
  <2> QED
    BY <1>1, <2>1 DEF InMap, Sends
<1>7. Timed'
  <2> SUFFICES ASSUME NEW g \in Tarballs, tar[g] # Absent
               PROVE  \E s \in Requests : batch[s] = g /\ (adding = s \/ timer'[s] \in {"queued", "armed", "begin"})
    BY <1>1 DEF Timed
  <2>1. PICK s \in Requests : batch[s] = g /\ (adding = s \/ timer[s] \in {"queued", "armed", "begin"})
    BY DEF Timed
  <2> WITNESS s \in Requests
  <2> QED
    BY <1>1, <2>1
<1>8. AllCarried'
  <2> SUFFICES ASSUME NEW g \in Tarballs, NEW q \in waiting[g], Carries(q) PROVE Carries(q)'
    BY <1>1 DEF AllCarried
  <2> QED
    BY <1>1 DEF Carries, BeingSent, Sending
<1> QED
  BY <1>2, <1>3, <1>4, <1>5, <1>6, <1>7, <1>8

\* Adding to a tarball keeps its members and puts in those of the call.
LEMMA AddedNames ==
  ASSUME NEW old \in Seq(Member), NEW w \in Want
  PROVE  Names(old) \subseteq Names(Added(old, w)) /\ MembersFor(w) \subseteq Names(Added(old, w))
<1>1. ASSUME NEW q \in Seq(Member), NEW m \in Member
      PROVE  Names(Append(q, m)) = Names(q) \cup {m} /\ Append(q, m) \in Seq(Member)
  <2>1. Append(q, m) \in Seq(Member) /\ DOMAIN Append(q, m) = 1 .. Len(q) + 1 /\ DOMAIN q = 1 .. Len(q) /\ Len(q) \in Nat
    OBVIOUS
  <2>2. \A i \in DOMAIN q : i \in DOMAIN Append(q, m) /\ Append(q, m)[i] = q[i]
    BY <2>1
  <2>3. Append(q, m)[Len(q) + 1] = m
    OBVIOUS
  <2>4. \A i \in DOMAIN Append(q, m) : i \in DOMAIN q \/ i = Len(q) + 1
    BY <2>1
  <2>5. Len(q) + 1 \in DOMAIN Append(q, m)
    BY <2>1
  <2> QED
    BY <2>1, <2>2, <2>3, <2>4, <2>5, Zenon DEF Names
<1> DEFINE d == <<w.file, Data>>
           withData == IF d \in Names(old) THEN old ELSE Append(old, d)
<1>2. d \in Member /\ (w.key # NoMeta => <<w.file, w.key>> \in Member)
  BY DEF Want, Member
<1>3. withData \in Seq(Member) /\ Names(withData) = Names(old) \cup {d}
  BY <1>1, <1>2
<1>4. CASE w.key = NoMeta
  <2>1. Added(old, w) = withData /\ MembersFor(w) = {d}
    BY <1>4 DEF Added, MembersFor
  <2> QED
    BY <1>3, <2>1
<1>5. CASE w.key # NoMeta
  <2>1. Added(old, w) = Append(withData, <<w.file, w.key>>) /\ MembersFor(w) = {d, <<w.file, w.key>>}
    BY <1>5 DEF Added, MembersFor
  <2> HIDE DEF withData
  <2>2. Names(Added(old, w)) = Names(withData) \cup {<<w.file, w.key>>}
    BY <1>1, <1>2, <1>3, <1>5, <2>1
  <2> QED
    BY <1>3, <2>1, <2>2
<1> QED
  BY <1>4, <1>5

\* A store appends to a tarball that fills up, or begins one that no call has
\* anything to do with.
LEMMA ConstructApart ==
  ASSUME Basic, Apart, NEW r \in Requests, Construct(r), ~overlap'
  PROVE  Apart'
<1> USE DEF Basic, TypeOK, Apart
<1> DEFINE g == NextName
           create == tar[g] = Absent \/ ~known[g]
           old == IF create THEN <<>> ELSE tar[g]
<1>1. g \in Tarballs
  <2>1. batch'[r] = g /\ batch' \in [Requests -> Tarballs]
    BY ConstructBasic DEF Construct
  <2> QED
    BY <2>1
<1>2. /\ <<want, timer, work, gz, content, stored>>' = <<want, timer, work, gz, content, stored>>
      /\ adding = None /\ adding' = r /\ answer[r] = "new" /\ timer[r] = "none"
      /\ batch' = [batch EXCEPT ![r] = g]
      /\ tar' = [tar EXCEPT ![g] = Added(old, want[r])]
      /\ known' = [known EXCEPT ![g] = TRUE]
      /\ waiting' = [waiting EXCEPT ![g] = (IF create THEN {} ELSE @) \cup {r}]
  BY DEF Construct, Fresh
<1>3. \/ tar[g] # Absent /\ known[g]
      \/ tar[g] = Absent /\ ~known[g]
  <2>1. CASE g = Base
    BY <1>1, <2>1 DEF NextName, InMap, Base
  <2>2. CASE g # Base
    <3>1. g > made
      BY <2>2 DEF NextName
    <3> QED
      BY <1>1, <3>1 DEF Unused
  <2> QED
    BY <2>1, <2>2
<1>4. old \in Seq(Member)
  BY <1>1, <1>3, <<>> \in Seq(Member)
<1>5. /\ Added(old, want[r]) \in Seq(Member) /\ Added(old, want[r]) # Absent
      /\ MembersFor(want[r]) \subseteq Names(Added(old, want[r]))
      /\ Names(old) \subseteq Names(Added(old, want[r]))
  <2> HIDE DEF old
  <2>1. want[r] \in Want
    OBVIOUS
  <2>2. Added(old, want[r]) \in Seq(Member)
    BY <1>4, <2>1, AddedType
  <2>3. Absent \notin Seq(Member)
    BY AggregateStoreAssumption, Zenon DEF Member
  <2> QED
    BY <1>4, <2>1, <2>2, <2>3, AddedNames
<1>6. \A s \in Requests : timer[s] \in Sending /\ batch[s] = g => timer[s] = "begin" /\ tar[g] # Absent
  BY <1>1, <1>3 DEF TarThere, InMap, Sends, Sending
<1>7. \A s \in Requests : batch[s] = g /\ tar[g] = Absent => timer[s] = "none"
  BY <1>1, <1>6 DEF TarThere, Phases, Sending
<1>8. \A h \in Tarballs : r \notin waiting[h]
  BY <1>2 DEF Waiters, Pending
<1>9. \A s \in Requests : s # r => batch'[s] = batch[s]
  BY <1>2
<1>10. tar'[g] = Added(old, want[r]) /\ \A h \in Tarballs : h # g => tar'[h] = tar[h]
  BY <1>1, <1>2
<1>11. batch'[r] = g
  BY <1>2
<1> HIDE DEF g, create, old
<1>12. Sole'
  BY <1>2 DEF Sole, Sending
<1>13. NoTimer'
  BY <1>2 DEF NoTimer, Sending
<1>14. TarThere'
  BY <1>2, <1>5, <1>6, <1>9, <1>10 DEF TarThere, Sending
<1>15. SendFiles'
  BY <1>2 DEF SendFiles
<1>16. InMap'
  <2>1. \A s \in Requests, h \in Tarballs : Sends(s, h)' <=> Sends(s, h)
    BY <1>2, <1>9 DEF Sends, Sending
  <2> QED
    BY <1>1, <1>2, <1>5, <1>10, <2>1 DEF InMap
<1>17. Timed'
  <2> SUFFICES ASSUME NEW h \in Tarballs, tar'[h] # Absent
               PROVE  \E s \in Requests : batch'[s] = h /\ (adding' = s \/ timer'[s] \in {"queued", "armed", "begin"})
    BY DEF Timed
  <2>1. CASE h = g
    BY <1>2, <1>11, <2>1
  <2>2. CASE h # g
    <3>1. PICK s \in Requests : batch[s] = h /\ (adding = s \/ timer[s] \in {"queued", "armed", "begin"})
      BY <1>10, <2>2 DEF Timed
    <3>2. s # r
      BY <1>2, <3>1, AggregateStoreAssumption
    <3> QED
      BY <1>2, <1>9, <3>1, <3>2, AggregateStoreAssumption
  <2> QED
    BY <2>1, <2>2
<1>18. AllCarried'
  <2> SUFFICES ASSUME NEW h \in Tarballs, NEW q \in waiting'[h]
               PROVE  Carries(q)'
    BY DEF AllCarried
  <2>1. CASE q = r
    BY <1>2, <1>5, <1>10, <1>11, <2>1 DEF Carries
  <2>2. CASE q # r
    <3>1. q \in waiting[h] /\ q \in Requests /\ (h = g => ~create)
      BY <1>1, <1>2, <2>2
    <3>2. batch[q] = h /\ batch'[q] = h /\ Carries(q)
      BY <1>9, <2>2, <3>1 DEF Waiters, AllCarried
    <3>3. CASE h = g
      <4>1. tar[g] # Absent /\ old = tar[g]
        BY <3>1, <3>3 DEF create, old
      <4>2. ~BeingSent(q)
        BY <1>6, <3>2, <3>3 DEF BeingSent, Sending
      <4>3. MembersFor(want[q]) \subseteq Names(tar[g])
        BY <3>2, <3>3, <4>2 DEF Carries
      <4> QED
        BY <1>2, <1>5, <1>10, <3>2, <3>3, <4>1, <4>3 DEF Carries
    <3>4. CASE h # g
      <4>1. CASE BeingSent(q)
        <5>1. PICK s \in Requests : /\ batch[s] = h /\ timer[s] \in Sending \ {"begin"}
                /\ MembersFor(want[q]) \subseteq Names(IF timer[s] = "zip" THEN work[h] ELSE content[s])
          BY <3>2, <4>1 DEF BeingSent
        <5>2. s # r
          BY <1>2, <5>1 DEF Sending
        <5> QED
          BY <1>2, <1>9, <3>2, <5>1, <5>2 DEF Carries, BeingSent
      <4>2. CASE tar[h] # Absent /\ MembersFor(want[q]) \subseteq Names(tar[h])
        BY <1>2, <1>10, <3>2, <3>4, <4>2 DEF Carries
      <4> QED
        BY <3>2, <4>1, <4>2 DEF Carries
    <3> QED
      BY <3>3, <3>4
  <2> QED
    BY <2>1, <2>2
<1> QED
  BY <1>12, <1>13, <1>14, <1>15, <1>16, <1>17, <1>18

\* Finishing a send answers everyone or no one, and leaves the tarball to the
\* next store.  The part that answers is stated for both ways to end.
LEMMA FinishEffect ==
  ASSUME Basic, Apart, NEW r \in Requests, NEW result \in {"ok", "failed"},
         timer[r] \in {"accepted", "failed"},
         NEW rd \in Readings(batch[r]), NEW ms, NEW at,
         Finish(r, ms, at, rd.ends, result)
  PROVE  /\ <<want, batch, adding, tar, work, stored, overlap>>' =
              <<want, batch, adding, tar, work, stored, overlap>>
         /\ known' = [known EXCEPT ![batch[r]] = FALSE]
         /\ waiting' = [waiting EXCEPT ![batch[r]] = {}]
         /\ timer' = [timer EXCEPT ![r] = "none"]
         /\ content' = [content EXCEPT ![r] = <<>>]
         /\ gz' \in {gz, [gz EXCEPT ![batch[r]] = Absent]}
         /\ \A s \in Requests :
              answer'[s] = IF s \in Popped(batch[r], ms, at) THEN result ELSE answer[s]
<1> USE DEF Basic, TypeOK, Apart
<1> DEFINE g == batch[r]
<1>1. gz[g] = [whole |-> TRUE, members |-> content[r]]
  BY DEF SendFiles
<1>2. gz[g] # Absent /\ gz[g].whole
  BY <1>1, WholeThere
<1>3. rd = [members |-> gz[g].members, ends |-> TRUE]
  BY <1>2, Zenon DEF Readings
<1>4. rd.ends
  BY <1>3
<1>5. known[g]
  BY DEF InMap, Sends, Sending
<1>6. (KeyErrors(g, ms, at) # {} /\ known[g]) \/ (rd.ends /\ KeyErrors(g, ms, at) = {})
  BY <1>4, <1>5
<1>7. /\ answer' = [s \in Requests |-> IF s \in Popped(g, ms, at) THEN result ELSE answer[s]]
      /\ known' = [known EXCEPT ![g] = FALSE]
      /\ waiting' = [waiting EXCEPT ![g] = {}]
      /\ timer' = [Cancelled(g) EXCEPT ![r] = "none"]
      /\ gz' = IF result = "ok" THEN [gz EXCEPT ![g] = Absent] ELSE gz
  BY <1>6 DEF Finish
<1>8. Cancelled(g) = timer
  <2>1. \A s \in Requests : batch[s] = g => timer[s] # "armed"
    BY DEF NoTimer, Sending
  <2> QED
    BY <2>1 DEF Cancelled
<1> QED
  BY <1>7, <1>8 DEF Finish

\* After a send its tarball has no timer and no waiter, and is free again.
LEMMA FinishApart ==
  ASSUME Basic, Apart, NEW r \in Requests, NEW result \in {"ok", "failed"},
         timer[r] \in {"accepted", "failed"}, adding = None,
         NEW rd \in Readings(batch[r]), NEW ms, NEW at,
         Finish(r, ms, at, rd.ends, result)
  PROVE  Apart'
<1> DEFINE g == batch[r]
<1>1. /\ <<want, batch, adding, tar, work, stored, overlap>>' =
           <<want, batch, adding, tar, work, stored, overlap>>
      /\ known' = [known EXCEPT ![g] = FALSE]
      /\ waiting' = [waiting EXCEPT ![g] = {}]
      /\ timer' = [timer EXCEPT ![r] = "none"]
      /\ content' = [content EXCEPT ![r] = <<>>]
      /\ gz' \in {gz, [gz EXCEPT ![g] = Absent]}
  BY FinishEffect
<1> USE DEF Basic, TypeOK, Apart
<1>2. \A s \in Requests : s # r /\ batch[s] = g => timer[s] = "none"
  BY DEF Sole, NoTimer, Sending, Phases
<1>3. tar[g] = Absent /\ g \in Tarballs
  BY DEF TarThere, Sending
<1>4. \A s \in Requests : timer'[s] # "none" => timer'[s] = timer[s] /\ s # r /\ batch[s] # g
  BY <1>1, <1>2
<1>5. \A s \in Requests : s # r => timer'[s] = timer[s] /\ content'[s] = content[s]
  BY <1>1
<1> HIDE DEF g
<1>6. Sole'
  BY <1>1, <1>4 DEF Sole, Sending
<1>7. NoTimer'
  BY <1>1, <1>4 DEF NoTimer, Sending
<1>8. TarThere'
  BY <1>1, <1>4 DEF TarThere, Sending
<1>9. SendFiles'
  BY <1>1, <1>4, <1>5 DEF SendFiles
<1>10. InMap'
  <2>1. \A s \in Requests, h \in Tarballs : Sends(s, h)' <=> (Sends(s, h) /\ h # g)
    BY <1>1, <1>4, <1>5, <1>2 DEF Sends, Sending, g
  <2> QED
    BY <1>1, <1>3, <2>1 DEF InMap
<1>11. Timed'
  <2> SUFFICES ASSUME NEW h \in Tarballs, tar[h] # Absent
               PROVE  \E s \in Requests : batch[s] = h /\ timer'[s] \in {"queued", "armed", "begin"}
    BY <1>1 DEF Timed
  <2>1. PICK s \in Requests : batch[s] = h /\ timer[s] \in {"queued", "armed", "begin"}
    BY AggregateStoreAssumption DEF Timed
  <2>2. s # r
    BY <2>1
  <2> QED
    BY <1>5, <2>1, <2>2
<1>12. AllCarried'
  <2> SUFFICES ASSUME NEW h \in Tarballs, NEW q \in waiting'[h]
               PROVE  Carries(q)'
    BY DEF AllCarried
  <2>1. h # g /\ q \in waiting[h] /\ q \in Requests
    BY <1>1, <1>3
  <2>2. batch[q] = h /\ Carries(q)
    BY <2>1 DEF Waiters, AllCarried
  <2>3. CASE BeingSent(q)
    <3>1. PICK s \in Requests : /\ batch[s] = h /\ timer[s] \in Sending \ {"begin"}
            /\ MembersFor(want[q]) \subseteq Names(IF timer[s] = "zip" THEN work[h] ELSE content[s])
      BY <2>2, <2>3 DEF BeingSent
    <3>2. s # r
      BY <2>1, <3>1 DEF g
    <3>3. timer'[s] = timer[s] /\ content'[s] = content[s] /\ work' = work /\ want' = want /\ batch' = batch
      BY <1>1, <1>5, <3>2
    <3> QED
      BY <2>2, <3>1, <3>3 DEF Carries, BeingSent
  <2>4. CASE tar[h] # Absent /\ MembersFor(want[q]) \subseteq Names(tar[h])
    BY <1>1, <2>2, <2>4 DEF Carries
  <2> QED
    BY <2>2, <2>3, <2>4 DEF Carries
<1> QED
  BY <1>6, <1>7, <1>8, <1>9, <1>10, <1>11, <1>12

\* completeTarfiles tells only those whose members were sent.
LEMMA CompleteTruthful ==
  ASSUME Basic, Apart, NEW r \in Requests, Complete(r), ~overlap, Truthful
  PROVE  Truthful'
<1> DEFINE g == batch[r]
<1>1. PICK rd \in Readings(batch[r]) : Finish(r, rd.members, {i \in DOMAIN rd.members : IsData(rd.members[i])}, rd.ends, "ok")
  BY DEF Complete
<1> DEFINE ms == rd.members
           at == {i \in DOMAIN rd.members : IsData(rd.members[i])}
<1>2. timer[r] = "accepted"
  BY DEF Complete
<1>3. /\ want' = want /\ stored' = stored
      /\ \A s \in Requests : answer'[s] = "ok" => s \in Popped(g, ms, at) \/ answer[s] = "ok"
  <2> HIDE DEF ms, at
  <2>1. Finish(r, ms, at, rd.ends, "ok")
    BY <1>1 DEF ms, at
  <2> QED
    BY <2>1 DEF Finish
<1> USE DEF Basic, TypeOK, Apart
<1>4. ASSUME NEW q \in waiting[g]
      PROVE  MembersFor(want[q]) \subseteq stored
  <2>1. g \in Tarballs /\ q \in Requests /\ batch[q] = g /\ Carries(q)
    BY DEF Waiters, AllCarried
  <2>2. tar[g] = Absent
    BY <1>2 DEF TarThere, Sending
  <2>3. PICK s \in Requests : /\ batch[s] = g /\ timer[s] \in Sending
          /\ MembersFor(want[q]) \subseteq Names(IF timer[s] = "zip" THEN work[g] ELSE content[s])
    BY <2>1, <2>2 DEF Carries, BeingSent
  <2>4. s = r
    BY <1>2, <2>3 DEF Sole, Sending
  <2>5. Names(content[r]) \subseteq stored
    BY <1>2 DEF SendFiles
  <2> QED
    BY <1>2, <2>3, <2>4, <2>5
<1>5. Popped(g, ms, at) \subseteq waiting[g]
  BY DEF Popped
<1> HIDE DEF g, ms, at
<1> QED
  BY <1>3, <1>4, <1>5 DEF Truthful

\* Only Complete tells a caller "ok", and stored only grows.
LEMMA TruthfulStep == IInv /\ [Next]_vars => Truthful'
<1> SUFFICES ASSUME IInv, [Next]_vars PROVE Truthful'
  OBVIOUS
<1> USE DEF IInv, Truthful
<1>1. CASE UNCHANGED vars
  BY <1>1 DEF vars, calls
<1>2. ASSUME NEW r \in Requests, Complete(r)
      PROVE  Truthful'
  <2>1. CASE overlap
    BY <1>2, <2>1 DEF Complete, Finish
  <2>2. CASE ~overlap
    BY <1>2, <2>2, CompleteTruthful
  <2> QED
    BY <2>1, <2>2
<1>3. ASSUME NEW r \in Requests,
             \/ Rejoin(r) \/ Construct(r) \/ ResetTimeout(r) \/ Schedule(r) \/ Fire(r)
             \/ Rename(r) \/ ZipOpen(r) \/ ZipClose(r) \/ Post(r)
             \/ Accept(r) \/ Refuse(r) \/ Fail(r)
      PROVE  Truthful'
  <2>1. /\ want' = want /\ stored \subseteq stored' /\ (overlap => overlap')
        /\ \A s \in Requests : answer'[s] = "ok" => answer[s] = "ok"
    <3> USE DEF Basic, TypeOK, calls
    <3>1. CASE Rejoin(r) \/ Construct(r)
      BY <3>1 DEF Rejoin, Construct
    <3>2. CASE ResetTimeout(r) \/ Schedule(r) \/ Fire(r)
      BY <3>2 DEF ResetTimeout, Schedule, Fire
    <3>3. CASE Rename(r) \/ ZipOpen(r) \/ ZipClose(r)
      BY <3>3 DEF Rename, ZipOpen, ZipClose
    <3>4. CASE Post(r) \/ Accept(r) \/ Refuse(r)
      BY <3>4 DEF Post, Accept, Refuse
    <3>5. CASE Fail(r)
      <4>1. PICK rd \in Readings(batch[r]) : Finish(r, rd.members, DOMAIN rd.members, rd.ends, "failed")
        BY <3>5 DEF Fail
      <4> QED
        BY <4>1 DEF Finish
    <3> QED
      BY <1>3, <3>1, <3>2, <3>3, <3>4, <3>5
  <2> QED
    BY <2>1
<1> QED
  BY <1>1, <1>2, <1>3 DEF Next, Store, Work

\* The invariant holds before the first call.
LEMMA InitInv == Init => IInv
<1> SUFFICES ASSUME Init PROVE IInv
  OBVIOUS
<1>1. Basic
  BY InitBasic
<1>2. Apart
  <2>1. AllCarried
    BY DEF Init, AllCarried
  <2> QED
    BY <2>1, AggregateStoreAssumption
       DEF Init, Apart, Sole, NoTimer, TarThere, SendFiles, InMap, Sends, Timed, Sending
<1>3. Truthful
  BY DEF Init, Truthful
<1> QED
  BY <1>1, <1>2, <1>3 DEF IInv

\* Once sends overlap they count as overlapping for good, so each step is only
\* to be looked at where they do not overlap after it.
LEMMA NextInv == IInv /\ [Next]_vars => IInv'
<1> SUFFICES ASSUME IInv, [Next]_vars PROVE IInv'
  OBVIOUS
<1>1. Basic' /\ Truthful'
  BY NextBasic, TruthfulStep DEF IInv
<1>2. overlap' \/ Apart'
  <2> SUFFICES ASSUME ~overlap' PROVE Apart'
    BY <1>1 DEF Basic, TypeOK
  <2>1. CASE UNCHANGED vars
    <3>1. ~overlap /\ Apart
      BY <2>1 DEF vars, IInv
    <3> QED
      BY <2>1, <3>1 DEF vars, calls, files, waiters, Apart, Sole, NoTimer, TarThere, SendFiles,
                        InMap, Sends, Timed, AllCarried, Carries, BeingSent
  <2>2. ASSUME NEW r \in Requests, Store(r) \/ Work(r) \/ Post(r) PROVE Apart'
    <3>1. overlap => overlap'
      BY <2>2 DEF Store, Work, Rejoin, Construct, ResetTimeout, Schedule, Fire, Rename, ZipOpen,
                  ZipClose, Post, Accept, Refuse, Complete, Fail, Finish
    <3>2. ~overlap /\ Apart /\ Basic
      BY <3>1 DEF IInv
    <3>3. CASE Complete(r)
      <4>1. PICK rd \in Readings(batch[r]) : Finish(r, rd.members, {i \in DOMAIN rd.members : IsData(rd.members[i])}, rd.ends, "ok")
        BY <3>3 DEF Complete
      <4>2. timer[r] \in {"accepted", "failed"} /\ adding = None /\ "ok" \in {"ok", "failed"}
        BY <3>3 DEF Complete
      <4> QED
        BY <3>2, <4>1, <4>2, FinishApart
    <3>4. CASE Fail(r)
      <4>1. PICK rd \in Readings(batch[r]) : Finish(r, rd.members, DOMAIN rd.members, rd.ends, "failed")
        BY <3>4 DEF Fail
      <4>2. timer[r] \in {"accepted", "failed"} /\ adding = None /\ "failed" \in {"ok", "failed"}
        BY <3>4 DEF Fail
      <4> QED
        BY <3>2, <4>1, <4>2, FinishApart
    <3>5. CASE Rejoin(r)
      BY <3>2, <3>5, RejoinApart
    <3>6. CASE Construct(r)
      BY <3>2, <3>6, ConstructApart
    <3>7. CASE ResetTimeout(r)
      BY <3>2, <3>7, ResetTimeoutApart
    <3>8. CASE Schedule(r)
      BY <3>2, <3>8, ScheduleApart
    <3>9. CASE Fire(r)
      BY <3>2, <3>9, FireApart
    <3>10. CASE Rename(r)
      BY <3>2, <3>10, RenameApart
    <3>11. CASE ZipOpen(r)
      BY <3>2, <3>11, ZipOpenApart
    <3>12. CASE ZipClose(r)
      BY <3>2, <3>12, ZipCloseApart
    <3>13. CASE Post(r)
      BY <3>2, <3>13, PostApart
    <3>14. CASE Accept(r)
      BY <3>2, <3>14, AcceptApart
    <3>15. CASE Refuse(r)
      BY <3>2, <3>15, RefuseApart
    <3> QED
      BY <2>2, <3>3, <3>4, <3>5, <3>6, <3>7, <3>8, <3>9, <3>10, <3>11, <3>12, <3>13, <3>14, <3>15
         DEF Store, Work
  <2> QED
    BY <2>1, <2>2 DEF Next
<1> QED
  BY <1>1, <1>2 DEF IInv

\* The strengthened invariant holds in every reachable state.
THEOREM Invariance == Spec => []IInv
<1>1. Init => IInv
  BY InitInv
<1>2. IInv /\ [Next]_vars => IInv'
  BY NextInv
<1> QED
  BY <1>1, <1>2, PTL DEF Spec

\* Every value keeps its type; in particular the map of timers never loses an
\* armed one, so a tarball has at most one.
THEOREM TypeCorrect == Spec => []TypeOK
<1>1. IInv => TypeOK
  BY DEF IInv, Basic
<1> QED
  BY <1>1, Invariance, PTL

\* A caller of store is told "ok" only for a block and metadata that the
\* destination acknowledged, unless two sends of one tarball overlapped.
THEOREM ToldTheTruth == Spec => []Truthful
<1>1. IInv => Truthful
  BY DEF IInv
<1> QED
  BY <1>1, Invariance, PTL

\* Whoever waits in aggregate_waiters has its members in a tarball that a timer
\* is going to send, or in one on its way.
THEOREM AllAreCarried == Spec => []Carried
<1>1. IInv => Carried
  <2> SUFFICES ASSUME IInv, NEW g \in Tarballs, NEW r \in waiting[g]
               PROVE  Pending(r) /\ batch[r] = g /\ (overlap \/ InTarball(r) \/ BeingSent(r))
    BY DEF Carried
  <2>1. Pending(r) /\ batch[r] = g
    BY DEF IInv, Basic, Waiters
  <2>2. CASE ~overlap
    <3>1. Carries(r) /\ Timed
      BY <2>2 DEF IInv, Apart, AllCarried
    <3>2. CASE tar[g] # Absent /\ MembersFor(want[r]) \subseteq Names(tar[g])
      BY <2>1, <3>1, <3>2 DEF Timed, InTarball
    <3> QED
      BY <2>1, <3>1, <3>2 DEF Carries
  <2> QED
    BY <2>1, <2>2
<1> QED
  BY <1>1, Invariance, PTL

\* A call that was answered is not answered again, whatever sends overlap:
\* who waits is pending, and only those who wait are answered.
THEOREM OneOutcome == Spec => AnsweredOnce
<1> DEFINE Once == \A r \in Requests : answer[r] \in {"ok", "failed", "reused"} => answer'[r] = answer[r]
<1>1. IInv /\ [Next]_vars => [Once]_vars
  <2> SUFFICES ASSUME IInv, Next PROVE Once
    OBVIOUS
  <2> USE DEF IInv, Basic, TypeOK, calls
  <2>1. ASSUME NEW r \in Requests, NEW ms, NEW at, NEW ends, NEW result, Finish(r, ms, at, ends, result)
        PROVE  Once
    <3>1. \A s \in Popped(batch[r], ms, at) : answer[s] = "pending"
      BY DEF Popped, Waiters, Pending
    <3>2. answer' = answer \/ answer' = [s \in Requests |-> IF s \in Popped(batch[r], ms, at) THEN result ELSE answer[s]]
      BY <2>1 DEF Finish
    <3> QED
      BY <3>1, <3>2
  <2>2. ASSUME NEW r \in Requests, Complete(r) \/ Fail(r) PROVE Once
    BY <2>1, <2>2 DEF Complete, Fail
  <2>3. ASSUME NEW r \in Requests,
               \/ ResetTimeout(r) \/ Schedule(r) \/ Fire(r) \/ Rename(r) \/ ZipOpen(r)
               \/ ZipClose(r) \/ Post(r) \/ Accept(r) \/ Refuse(r)
        PROVE  Once
    BY <2>3 DEF ResetTimeout, Schedule, Fire, Rename, ZipOpen, ZipClose, Post, Accept, Refuse
  <2>4. ASSUME NEW r \in Requests, Rejoin(r) \/ Construct(r) PROVE Once
    BY <2>4 DEF Rejoin, Construct
  <2> QED
    BY <2>2, <2>3, <2>4 DEF Next, Store, Work
<1> QED
  BY <1>1, Invariance, PTL DEF Spec, AnsweredOnce


-----------------------------------------------------------------------------
(* Who is forgotten.                                                       *)

\* Every member of ms is that of one of W: its data, or its metadata behind its
\* data.
Fed(ms, W) ==
  \A i \in DOMAIN ms :
    \/ \E s \in W : ms[i] = <<want[s].file, Data>>
    \/ \E s \in W : /\ want[s].key # NoMeta /\ ms[i] = <<want[s].file, want[s].key>>
                    /\ \E j \in 1 .. i - 1 : ms[j] = <<want[s].file, Data>>

\* So it is with a tarball that fills up or is sent, and those who wait for it.
AllFed ==
  /\ \A g \in Tarballs : tar[g] # Absent => Fed(tar[g], waiting[g])
  /\ \A s \in Requests : timer[s] = "zip" => Fed(work[batch[s]], waiting[batch[s]])
  /\ \A s \in Requests :
       timer[s] \in {"close", "post", "wait", "accepted", "failed"} =>
         Fed(content[s], waiting[batch[s]])

\* Who waits is in the map.
Registered == \A g \in Tarballs : waiting[g] # {} => known[g]

\* The inductive invariant for StrandedOnlyByFailure.
KInv ==
  /\ IInv
  /\ Registered
  /\ overlap \/ AllFed
  /\ StrandedOnlyByFailure

\* The smallest of some numbers.
LEMMA Least ==
  ASSUME NEW S \in SUBSET Nat, S # {}
  PROVE  \E i \in S : \A j \in S : i <= j
<1>1. PICK i \in S : \A j \in S : ~ (<<j, i>> \in OpToRel(<, Nat))
  BY NatLessThanWellFounded, WFMin
<1>2. \A j \in S : ~(j < i)
  BY <1>1 DEF OpToRel
<1> QED
  BY <1>2

\* More waiters do no harm.
LEMMA FedMore ==
  ASSUME NEW ms, NEW W, NEW V, W \subseteq V, Fed(ms, W)
  PROVE  Fed(ms, V)
BY DEF Fed

\* A step that keeps what was asked for, and feeds what it changes.
LEMMA FedNext ==
  ASSUME want' = want,
         \A g \in Tarballs : tar'[g] # Absent => Fed(tar'[g], waiting'[g]),
         \A s \in Requests : timer'[s] = "zip" => Fed(work'[batch'[s]], waiting'[batch'[s]]),
         \A s \in Requests :
           timer'[s] \in {"close", "post", "wait", "accepted", "failed"} =>
             Fed(content'[s], waiting'[batch'[s]])
  PROVE  AllFed'
BY DEF AllFed, Fed

\* A member at the end.
LEMMA FedAppend ==
  ASSUME NEW q \in Seq(Member), NEW W, NEW s \in W, NEW m, Fed(q, W),
         \/ m = <<want[s].file, Data>>
         \/ /\ want[s].key # NoMeta /\ m = <<want[s].file, want[s].key>>
            /\ <<want[s].file, Data>> \in Names(q)
  PROVE  Fed(Append(q, m), W)
<1>1. /\ DOMAIN q = 1 .. Len(q) /\ Len(q) \in Nat
      /\ DOMAIN Append(q, m) = 1 .. Len(q) + 1
      /\ \A i \in 1 .. Len(q) : Append(q, m)[i] = q[i]
      /\ Append(q, m)[Len(q) + 1] = m
  OBVIOUS
<1> SUFFICES ASSUME NEW i \in 1 .. Len(q) + 1
             PROVE  \/ \E t \in W : Append(q, m)[i] = <<want[t].file, Data>>
                    \/ \E t \in W : /\ want[t].key # NoMeta
                                    /\ Append(q, m)[i] = <<want[t].file, want[t].key>>
                                    /\ \E j \in 1 .. i - 1 : Append(q, m)[j] = <<want[t].file, Data>>
  BY <1>1 DEF Fed
<1>2. CASE i \in 1 .. Len(q)
  <2>1. Append(q, m)[i] = q[i] /\ \A j \in 1 .. i - 1 : Append(q, m)[j] = q[j]
    BY <1>1, <1>2
  <2>2. CASE \E t \in W : q[i] = <<want[t].file, Data>>
    BY <2>1, <2>2
  <2>3. CASE \E t \in W : /\ want[t].key # NoMeta /\ q[i] = <<want[t].file, want[t].key>>
                          /\ \E j \in 1 .. i - 1 : q[j] = <<want[t].file, Data>>
    <3>1. PICK t \in W : /\ want[t].key # NoMeta /\ q[i] = <<want[t].file, want[t].key>>
                         /\ \E j \in 1 .. i - 1 : q[j] = <<want[t].file, Data>>
      BY <2>3
    <3>2. PICK j \in 1 .. i - 1 : q[j] = <<want[t].file, Data>>
      BY <3>1
    <3>3. Append(q, m)[j] = <<want[t].file, Data>>
      BY <2>1, <3>2
    <3> QED
      BY <2>1, <3>1, <3>3
  <2> QED
    BY <1>1, <1>2, <2>2, <2>3 DEF Fed
<1>3. CASE i = Len(q) + 1
  <2>1. Append(q, m)[i] = m
    BY <1>1, <1>3
  <2>2. CASE m = <<want[s].file, Data>>
    BY <2>1, <2>2
  <2>3. CASE /\ want[s].key # NoMeta /\ m = <<want[s].file, want[s].key>>
             /\ <<want[s].file, Data>> \in Names(q)
    <3>1. PICK j \in 1 .. Len(q) : q[j] = <<want[s].file, Data>>
      BY <1>1, <2>3 DEF Names
    <3>2. j \in 1 .. i - 1 /\ Append(q, m)[j] = <<want[s].file, Data>>
      BY <1>1, <1>3, <3>1
    <3> QED
      BY <2>1, <2>3, <3>2
  <2> QED
    BY <2>2, <2>3
<1>4. i \in 1 .. Len(q) \/ i = Len(q) + 1
  BY <1>1
<1> QED
  BY <1>2, <1>3, <1>4

\* A store adds members of its own.
LEMMA FedAdded ==
  ASSUME NEW old \in Seq(Member), NEW W, NEW s \in W, want[s] \in Want, Fed(old, W)
  PROVE  Fed(Added(old, want[s]), W)
<1> DEFINE d == <<want[s].file, Data>>
           withData == IF d \in Names(old) THEN old ELSE Append(old, d)
<1>1. d \in Member
  BY DEF Want, Member
<1>2. withData \in Seq(Member) /\ Fed(withData, W)
  BY <1>1, FedAppend
<1>3. d \in Names(withData)
  <2>1. CASE d \in Names(old)
    BY <2>1
  <2>2. CASE d \notin Names(old)
    <3>1. Append(old, d)[Len(old) + 1] = d /\ Len(old) + 1 \in DOMAIN Append(old, d)
      BY <1>1
    <3> QED
      BY <2>2, <3>1 DEF Names
  <2> QED
    BY <2>1, <2>2
<1>4. Added(old, want[s]) = IF want[s].key = NoMeta THEN withData
                            ELSE Append(withData, <<want[s].file, want[s].key>>)
  BY DEF Added
<1> HIDE DEF withData
<1>5. CASE want[s].key = NoMeta
  BY <1>2, <1>4, <1>5
<1>6. CASE want[s].key # NoMeta
  <2>1. Fed(Append(withData, <<want[s].file, want[s].key>>), W)
    BY <1>2, <1>3, <1>6, FedAppend
  <2> QED
    BY <1>4, <1>6, <2>1
<1> QED
  BY <1>5, <1>6

\* The tarball a store adds to, if it is not a new one.
LEMMA ConstructTarball ==
  ASSUME Basic, Apart, Registered, NEW r \in Requests, Construct(r)
  PROVE  /\ NextName \in Tarballs
         /\ \/ tar[NextName] # Absent /\ known[NextName]
            \/ tar[NextName] = Absent /\ ~known[NextName] /\ waiting[NextName] = {}
         /\ \A s \in Requests : timer[s] \in Sending \ {"begin"} => batch[s] # NextName
<1> USE DEF Basic, TypeOK, Apart
<1>1. NextName \in Tarballs
  <2>1. batch'[r] = NextName /\ batch' \in [Requests -> Tarballs]
    BY ConstructBasic DEF Construct
  <2> QED
    BY <2>1
<1>2. \/ tar[NextName] # Absent /\ known[NextName]
      \/ tar[NextName] = Absent /\ ~known[NextName]
  <2>1. CASE NextName = Base
    BY <1>1, <2>1 DEF NextName, InMap, Base
  <2>2. CASE NextName # Base
    <3>1. NextName > made
      BY <2>2 DEF NextName
    <3> QED
      BY <1>1, <3>1 DEF Unused
  <2> QED
    BY <2>1, <2>2
<1>3. ASSUME NEW s \in Requests, timer[s] \in Sending \ {"begin"}, batch[s] = NextName
      PROVE  FALSE
  <2>1. tar[NextName] = Absent
    BY <1>3 DEF TarThere
  <2>2. known[NextName]
    BY <1>1, <1>3 DEF InMap, Sends
  <2> QED
    BY <1>2, <2>1, <2>2
<1> QED
  BY <1>1, <1>2, <1>3 DEF Registered

\* A store feeds the tarball.
LEMMA ConstructFed ==
  ASSUME Basic, Apart, Registered, AllFed, NEW r \in Requests, Construct(r)
  PROVE  AllFed'
<1> DEFINE g == NextName
           create == tar[g] = Absent \/ ~known[g]
           old == IF create THEN <<>> ELSE tar[g]
<1> USE DEF Basic, TypeOK
<1>1. /\ g \in Tarballs
      /\ (tar[g] # Absent /\ known[g]) \/ (create /\ waiting[g] = {})
      /\ \A s \in Requests : timer[s] \in Sending \ {"begin"} => batch[s] # g
  BY ConstructTarball
<1>2. /\ want' = want /\ timer' = timer /\ work' = work /\ content' = content
      /\ timer[r] = "none"
      /\ batch' = [batch EXCEPT ![r] = g]
      /\ tar' = [tar EXCEPT ![g] = Added(old, want[r])]
      /\ waiting' = [waiting EXCEPT ![g] = (IF create THEN {} ELSE @) \cup {r}]
  BY DEF Construct, Fresh
<1>3. old \in Seq(Member) /\ Fed(old, waiting[g] \cup {r})
  <2>1. CASE create
    BY <2>1, <<>> \in Seq(Member) DEF Fed
  <2>2. CASE ~create
    <3>1. old = tar[g] /\ tar[g] # Absent /\ Fed(tar[g], waiting[g])
      BY <1>1, <2>2 DEF AllFed
    <3> QED
      BY <1>1, <3>1, FedMore
  <2> QED
    BY <2>1, <2>2
<1>4. waiting'[g] = waiting[g] \cup {r} /\ tar'[g] = Added(old, want[r])
  BY <1>1, <1>2
<1>5. \A h \in Tarballs : h # g => tar'[h] = tar[h] /\ waiting'[h] = waiting[h]
  BY <1>1, <1>2
<1> HIDE DEF g, create, old
<1>6. Fed(tar'[g], waiting'[g])
  <2>1. Fed(Added(old, want[r]), waiting[g] \cup {r})
    BY <1>3, FedAdded
  <2> QED
    BY <1>4, <2>1
<1>7. ASSUME NEW h \in Tarballs, tar'[h] # Absent PROVE Fed(tar'[h], waiting'[h])
  BY <1>5, <1>6, <1>7 DEF AllFed
<1>8. ASSUME NEW s \in Requests, timer[s] \in Sending \ {"begin"}
      PROVE  /\ batch'[s] = batch[s] /\ waiting'[batch[s]] = waiting[batch[s]]
             /\ timer[s] = "zip" => Fed(work[batch[s]], waiting[batch[s]])
             /\ timer[s] # "zip" => Fed(content[s], waiting[batch[s]])
  <2>1. s # r /\ batch[s] # g /\ batch[s] \in Tarballs
    BY <1>1, <1>2, <1>8 DEF Sending
  <2> QED
    BY <1>2, <1>5, <1>8, <2>1 DEF AllFed, Sending
<1> QED
  <2>1. ASSUME NEW s \in Requests, timer'[s] = "zip"
        PROVE  Fed(work'[batch'[s]], waiting'[batch'[s]])
    BY <1>2, <1>8, <2>1 DEF Sending
  <2>2. ASSUME NEW s \in Requests,
               timer'[s] \in {"close", "post", "wait", "accepted", "failed"}
        PROVE  Fed(content'[s], waiting'[batch'[s]])
    BY <1>2, <1>8, <2>2 DEF Sending
  <2> QED
    BY <1>2, <1>7, <2>1, <2>2, FedNext

\* A send goes on with the tarball that its waiters have fed.
LEMMA SendFed ==
  ASSUME Basic, Apart, AllFed, NEW r \in Requests,
         \/ Rejoin(r) \/ ResetTimeout(r) \/ Schedule(r) \/ Fire(r)
         \/ Rename(r) \/ ZipOpen(r) \/ ZipClose(r) \/ Post(r) \/ Accept(r) \/ Refuse(r)
  PROVE  AllFed'
<1> USE DEF Basic, TypeOK, Apart
<1>1. want' = want /\ batch' = batch /\ waiting' = waiting
  BY DEF calls, waiters, Rejoin, ResetTimeout, Schedule, Fire, Rename, ZipOpen, ZipClose, Post,
         Accept, Refuse
<1> DEFINE g == batch[r]
<1>2. CASE Rejoin(r) \/ ResetTimeout(r) \/ Schedule(r) \/ Fire(r) \/ Accept(r) \/ Refuse(r)
  <2>1. tar' = tar /\ work' = work /\ content' = content
    BY <1>2 DEF calls, files, Rejoin, ResetTimeout, Schedule, Fire, Accept, Refuse
  <2>2. \A s \in Requests : \/ timer'[s] = timer[s]
                            \/ timer'[s] \in {"none", "queued", "armed", "begin"}
                            \/ timer[s] = "wait" /\ timer'[s] \in {"accepted", "failed"}
    BY <1>2 DEF Rejoin, ResetTimeout, Schedule, Fire, Accept, Refuse, Cancelled
  <2> QED
    BY <1>1, <2>1, <2>2, FedNext DEF AllFed
<1>3. CASE Rename(r)
  <2>1. timer[r] = "begin" /\ tar[g] # Absent /\ g \in Tarballs
    BY <1>3 DEF Rename, TarThere
  <2>2. /\ timer' = [timer EXCEPT ![r] = "zip"] /\ work' = [work EXCEPT ![g] = tar[g]]
        /\ tar' = [tar EXCEPT ![g] = Absent] /\ content' = content
    BY <1>3, <2>1 DEF Rename
  <2>3. \A s \in Requests : timer[s] = "zip" => batch[s] # g
    BY <2>1 DEF Sole, Sending
  <2>4. Fed(work'[g], waiting[g])
    BY <2>1, <2>2 DEF AllFed
  <2>5. \A h \in Tarballs : tar'[h] # Absent => tar'[h] = tar[h]
    BY <2>1, <2>2
  <2>6. ASSUME NEW s \in Requests, timer'[s] = "zip"
        PROVE  Fed(work'[batch[s]], waiting[batch[s]])
    <3>1. CASE s = r
      BY <2>4, <3>1
    <3>2. CASE s # r
      <4>1. timer[s] = "zip" /\ batch[s] # g
        BY <2>2, <2>3, <2>6, <3>2
      <4>2. work'[batch[s]] = work[batch[s]]
        BY <2>2, <4>1
      <4> QED
        BY <4>1, <4>2 DEF AllFed
    <3> QED
      BY <3>1, <3>2
  <2>7. \A s \in Requests : timer'[s] \in {"close", "post", "wait", "accepted", "failed"} =>
                              timer'[s] = timer[s]
    BY <2>2
  <2> HIDE DEF g
  <2> QED
    BY <1>1, <2>2, <2>5, <2>6, <2>7, FedNext DEF AllFed
<1>4. CASE ZipOpen(r)
  <2>1. timer[r] = "zip" /\ work[g] # Absent
    BY <1>4 DEF ZipOpen, SendFiles
  <2>2. /\ timer' = [timer EXCEPT ![r] = "close"] /\ content' = [content EXCEPT ![r] = work[g]]
        /\ tar' = tar /\ work' = work
    BY <1>4, <2>1 DEF ZipOpen
  <2>3. Fed(content'[r], waiting[g])
    BY <2>1, <2>2 DEF AllFed
  <2>4. \A s \in Requests : s # r => timer'[s] = timer[s] /\ content'[s] = content[s]
    BY <2>2
  <2>5. timer'[r] = "close"
    BY <2>2
  <2>6. ASSUME NEW s \in Requests,
               timer'[s] \in {"close", "post", "wait", "accepted", "failed"}
        PROVE  Fed(content'[s], waiting[batch[s]])
    BY <2>3, <2>4, <2>6 DEF AllFed
  <2>7. ASSUME NEW s \in Requests, timer'[s] = "zip" PROVE timer[s] = "zip"
    BY <2>4, <2>5, <2>7
  <2> HIDE DEF g
  <2> QED
    BY <1>1, <2>2, <2>6, <2>7, FedNext DEF AllFed
<1>5. CASE ZipClose(r) \/ Post(r)
  <2>1. timer[r] \in {"close", "post", "wait"} /\ g \in Tarballs
    BY <1>5 DEF ZipClose, Post
  <2>2. content'[r] = content[r] /\ timer'[r] \in {"post", "wait", "failed"}
    <3>1. CASE ZipClose(r)
      BY <3>1 DEF ZipClose
    <3>2. CASE Post(r)
      <4>1. gz[g] = [whole |-> TRUE, members |-> content[r]]
        BY <3>2 DEF Post, SendFiles
      <4>2. gz[g] # Absent /\ gz[g].whole /\ gz[g].members = content[r]
        BY <4>1, WholeThere
      <4> QED
        BY <3>2, <4>2 DEF Post
    <3> QED
      BY <1>5, <3>1, <3>2
  <2>3. /\ \A s \in Requests : s # r => timer'[s] = timer[s] /\ content'[s] = content[s]
        /\ \A h \in Tarballs : h # g => work'[h] = work[h]
        /\ tar' = tar
    BY <1>5 DEF ZipClose, Post
  <2>4. \A s \in Requests : timer[s] = "zip" => batch[s] # g
    BY <2>1 DEF Sole, Sending
  <2>5. ASSUME NEW s \in Requests, timer'[s] = "zip"
        PROVE  Fed(work'[batch[s]], waiting[batch[s]])
    <3>1. timer[s] = "zip"
      BY <2>2, <2>3, <2>5
    <3>2. work'[batch[s]] = work[batch[s]]
      BY <2>3, <2>4, <3>1
    <3> QED
      BY <3>1, <3>2 DEF AllFed
  <2>6. ASSUME NEW s \in Requests,
               timer'[s] \in {"close", "post", "wait", "accepted", "failed"}
        PROVE  Fed(content'[s], waiting[batch[s]])
    BY <2>1, <2>2, <2>3, <2>6 DEF AllFed
  <2> HIDE DEF g
  <2> QED
    BY <1>1, <2>3, <2>5, <2>6, FedNext DEF AllFed
<1> QED
  BY <1>2, <1>3, <1>4, <1>5

\* After a send no one waits for its tarball, which is gone.
LEMMA FinishFed ==
  ASSUME Basic, Apart, AllFed, NEW r \in Requests, NEW result \in {"ok", "failed"},
         timer[r] \in {"accepted", "failed"},
         NEW rd \in Readings(batch[r]), NEW ms, NEW at,
         Finish(r, ms, at, rd.ends, result)
  PROVE  AllFed'
<1> DEFINE g == batch[r]
<1>1. /\ want' = want /\ batch' = batch /\ tar' = tar /\ work' = work
      /\ waiting' = [waiting EXCEPT ![g] = {}]
      /\ timer' = [timer EXCEPT ![r] = "none"]
      /\ content' = [content EXCEPT ![r] = <<>>]
  BY FinishEffect
<1> USE DEF Basic, TypeOK, Apart
<1>2. tar[g] = Absent /\ \A s \in Requests : s # r /\ timer[s] \in Sending => batch[s] # g
  BY DEF TarThere, Sole, Sending
<1> HIDE DEF g
<1>3. \A h \in Tarballs : h # g => waiting'[h] = waiting[h]
  BY <1>1
<1>4. ASSUME NEW h \in Tarballs, tar'[h] # Absent PROVE Fed(tar[h], waiting'[h])
  BY <1>1, <1>2, <1>3, <1>4 DEF AllFed
<1>5. ASSUME NEW s \in Requests, timer'[s] \in Sending \ {"begin"}
      PROVE  /\ timer'[s] = timer[s] /\ content'[s] = content[s]
             /\ timer[s] = "zip" => Fed(work[batch[s]], waiting'[batch[s]])
             /\ timer[s] # "zip" => Fed(content[s], waiting'[batch[s]])
  <2>1. s # r /\ timer'[s] = timer[s] /\ content'[s] = content[s]
    BY <1>1, <1>5 DEF Sending
  <2>2. waiting'[batch[s]] = waiting[batch[s]]
    BY <1>2, <1>3, <1>5, <2>1
  <2> QED
    BY <1>5, <2>1, <2>2 DEF AllFed, Sending
<1> QED
  <2>1. ASSUME NEW s \in Requests, timer'[s] = "zip"
        PROVE  Fed(work'[batch'[s]], waiting'[batch'[s]])
    BY <1>1, <1>5, <2>1 DEF Sending
  <2>2. ASSUME NEW s \in Requests,
               timer'[s] \in {"close", "post", "wait", "accepted", "failed"}
        PROVE  Fed(content'[s], waiting'[batch'[s]])
    BY <1>1, <1>5, <2>2 DEF Sending
  <2> QED
    BY <1>1, <1>4, <2>1, <2>2, FedNext

\* What is read at the end of a send is what was sent.
LEMMA SentIsRead ==
  ASSUME Basic, Apart, AllFed, NEW r \in Requests, timer[r] \in {"accepted", "failed"},
         NEW rd \in Readings(batch[r])
  PROVE  /\ rd.members \in Seq(Member) /\ Fed(rd.members, waiting[batch[r]])
         /\ \A q \in waiting[batch[r]] : <<want[q].file, Data>> \in Names(rd.members)
<1> USE DEF Basic, TypeOK, Apart
<1> DEFINE g == batch[r]
<1>1. gz[g] = [whole |-> TRUE, members |-> content[r]]
  BY DEF SendFiles
<1>2. gz[g] # Absent /\ gz[g].whole /\ gz[g].members = content[r]
  BY <1>1, WholeThere
<1>3. rd = [members |-> gz[g].members, ends |-> TRUE]
  BY <1>2, Zenon DEF Readings
<1>4. rd.members = content[r]
  BY <1>2, <1>3
<1>5. ASSUME NEW q \in waiting[g] PROVE <<want[q].file, Data>> \in Names(content[r])
  <2>1. q \in Requests /\ batch[q] = g /\ Carries(q)
    BY DEF Waiters, AllCarried
  <2>2. tar[g] = Absent
    BY DEF TarThere, Sending
  <2>3. PICK s \in Requests : /\ batch[s] = g /\ timer[s] \in Sending
          /\ MembersFor(want[q]) \subseteq Names(IF timer[s] = "zip" THEN work[g] ELSE content[s])
    BY <2>1, <2>2 DEF Carries, BeingSent
  <2>4. s = r
    BY <2>3 DEF Sole, Sending
  <2>5. <<want[q].file, Data>> \in MembersFor(want[q])
    BY DEF MembersFor
  <2> QED
    BY <2>3, <2>4, <2>5
<1> QED
  BY <1>4, <1>5 DEF AllFed

\* completeTarfiles finds all who wait.
LEMMA CompletePops ==
  ASSUME Basic, NEW g \in Tarballs, NEW ms \in Seq(Member), Fed(ms, waiting[g]),
         \A q \in waiting[g] : <<want[q].file, Data>> \in Names(ms)
  PROVE  Popped(g, ms, {i \in DOMAIN ms : IsData(ms[i])}) = waiting[g]
<1> DEFINE at == {i \in DOMAIN ms : IsData(ms[i])}
<1>1. ASSUME NEW i \in at PROVE ms[i] \in {<<want[s].file, Data>> : s \in waiting[g]}
  <2>1. i \in DOMAIN ms /\ ms[i][2] = Data
    BY DEF IsData
  <2>2. \A s \in waiting[g] : want[s].key # NoMeta => want[s].key # Data
    BY AggregateStoreAssumption DEF Basic, TypeOK, Want
  <2>3. ~\E s \in waiting[g] : want[s].key # NoMeta /\ ms[i] = <<want[s].file, want[s].key>>
    BY <2>1, <2>2
  <2> QED
    BY <2>1, <2>3 DEF Fed
<1>2. KeyErrors(g, ms, at) = {}
  BY <1>1 DEF KeyErrors
<1>3. ASSUME NEW q \in waiting[g] PROVE \E i \in at : ms[i] = <<want[q].file, Data>>
  BY DEF Names, IsData
<1> QED
  BY <1>2, <1>3 DEF Popped

\* failTarfiles finds all who wait, or stops at the metadata of one whom it has
\* found.
LEMMA FailPops ==
  ASSUME Basic, NEW g \in Tarballs, NEW ms \in Seq(Member), Fed(ms, waiting[g]),
         \A q \in waiting[g] : <<want[q].file, Data>> \in Names(ms)
  PROVE  \/ Popped(g, ms, DOMAIN ms) = waiting[g]
         \/ \E s \in Popped(g, ms, DOMAIN ms) : want[s].key # NoMeta
<1> DEFINE errors == KeyErrors(g, ms, DOMAIN ms)
<1>1. DOMAIN ms = 1 .. Len(ms) /\ Len(ms) \in Nat /\ errors \subseteq DOMAIN ms
  BY DEF KeyErrors
<1>2. CASE errors = {}
  <2>1. \A q \in waiting[g] : \E i \in DOMAIN ms : ms[i] = <<want[q].file, Data>>
    BY DEF Names
  <2> QED
    BY <1>2, <2>1 DEF Popped
<1>3. CASE errors # {}
  <2>1. PICK i \in errors : \A j \in errors : i <= j
    <3>1. errors \in SUBSET Nat
      BY <1>1
    <3> HIDE DEF errors
    <3> QED
      BY <1>3, <3>1, Least
  <2>2. i \in DOMAIN ms /\ \A s \in waiting[g] : ms[i] # <<want[s].file, Data>>
    BY <2>1 DEF KeyErrors
  <2>3. PICK s \in waiting[g] : /\ want[s].key # NoMeta
                                /\ \E j \in 1 .. i - 1 : ms[j] = <<want[s].file, Data>>
    BY <2>2 DEF Fed
  <2>4. PICK j \in 1 .. i - 1 : ms[j] = <<want[s].file, Data>>
    BY <2>3
  <2>5. j \in DOMAIN ms /\ \A k \in errors : j < k
    <3>1. i \in 1 .. Len(ms)
      BY <1>1, <2>2
    <3>2. \A k \in errors : k \in Nat
      BY <1>1
    <3> HIDE DEF errors
    <3> QED
      BY <1>1, <2>1, <2>4, <3>1, <3>2
  <2>6. s \in Popped(g, ms, DOMAIN ms)
    BY <2>3, <2>4, <2>5 DEF Popped
  <2> QED
    BY <2>3, <2>6
<1> QED
  BY <1>2, <1>3

\* Who was forgotten stays so, with the one whose metadata was the reason.
LEMMA StrandedStays ==
  ASSUME Basic, StrandedOnlyByFailure, ~overlap, want' = want,
         NEW q \in Requests, Stranded(q),
         \A s \in Requests : answer[s] = "failed" => answer'[s] = "failed" /\ batch'[s] = batch[s],
         batch'[q] = batch[q]
  PROVE  \E s \in Requests : batch'[s] = batch'[q] /\ want'[s].key # NoMeta /\ answer'[s] = "failed"
<1>1. PICK s \in Requests : batch[s] = batch[q] /\ want[s].key # NoMeta /\ answer[s] = "failed"
  BY DEF StrandedOnlyByFailure
<1> QED
  BY <1>1

\* The end of a send forgets no one without such a reason.
LEMMA FinishStranded ==
  ASSUME Basic, Apart, AllFed, StrandedOnlyByFailure, ~overlap,
         NEW r \in Requests, NEW result \in {"ok", "failed"},
         timer[r] \in {"accepted", "failed"},
         NEW rd \in Readings(batch[r]), NEW ms, NEW at,
         Finish(r, ms, at, rd.ends, result),
         \/ Popped(batch[r], ms, at) = waiting[batch[r]]
         \/ /\ result = "failed"
            /\ \E s \in Popped(batch[r], ms, at) : want[s].key # NoMeta
  PROVE  StrandedOnlyByFailure'
<1> DEFINE g == batch[r]
           P == Popped(g, ms, at)
<1>1. /\ want' = want /\ batch' = batch /\ waiting' = [waiting EXCEPT ![g] = {}]
      /\ \A s \in Requests : answer'[s] = IF s \in P THEN result ELSE answer[s]
  BY FinishEffect
<1> USE DEF Basic, TypeOK
<1>2. P \subseteq waiting[g] /\ \A s \in P : s \in Requests /\ Pending(s) /\ batch[s] = g
  BY DEF Popped, Waiters
<1>3. P = waiting[g] \/ (result = "failed" /\ \E s \in P : want[s].key # NoMeta)
  OBVIOUS
<1> HIDE DEF P, g
<1>4. \A s \in Requests : answer[s] = "failed" => answer'[s] = "failed" /\ batch'[s] = batch[s]
  BY <1>1, <1>2 DEF Pending
<1> SUFFICES ASSUME NEW q \in Requests, Stranded(q)'
             PROVE  \E s \in Requests :
                      batch'[s] = batch'[q] /\ want'[s].key # NoMeta /\ answer'[s] = "failed"
  BY DEF StrandedOnlyByFailure
<1>5. answer'[q] = "pending" /\ q \notin waiting'[batch[q]]
  BY <1>1 DEF Stranded, Pending
<1>6. q \notin P /\ Pending(q)
  BY <1>1, <1>5 DEF Pending
<1>7. CASE Stranded(q)
  BY <1>1, <1>4, <1>7, StrandedStays
<1>8. CASE q \in waiting[batch[q]]
  <2>1. batch[q] = g
    BY <1>1, <1>5, <1>8
  <2>2. PICK s \in P : want[s].key # NoMeta /\ result = "failed"
    BY <1>3, <1>6, <1>8, <2>1
  <2> QED
    BY <1>1, <1>2, <2>1, <2>2
<1> QED
  BY <1>6, <1>7, <1>8 DEF Stranded

\* No other step forgets anyone.
LEMMA OtherStranded ==
  ASSUME Basic, Apart, Registered, StrandedOnlyByFailure, ~overlap, NEW r \in Requests,
         \/ Rejoin(r) \/ Construct(r) \/ ResetTimeout(r) \/ Schedule(r) \/ Fire(r)
         \/ Rename(r) \/ ZipOpen(r) \/ ZipClose(r) \/ Post(r) \/ Accept(r) \/ Refuse(r)
  PROVE  StrandedOnlyByFailure'
<1> USE DEF Basic, TypeOK
<1>1. CASE Construct(r)
  <2> DEFINE g == NextName
  <2>1. g \in Tarballs /\ ((tar[g] # Absent /\ known[g]) \/ waiting[g] = {})
    BY <1>1, ConstructTarball
  <2>2. /\ want' = want /\ batch' = [batch EXCEPT ![r] = g]
        /\ answer' = [answer EXCEPT ![r] = "pending"] /\ answer[r] = "new"
        /\ waiting' = [waiting EXCEPT ![g] =
                         (IF tar[g] = Absent \/ ~known[g] THEN {} ELSE @) \cup {r}]
    BY <1>1 DEF Construct
  <2>3. waiting'[g] = waiting[g] \cup {r} /\ \A h \in Tarballs : waiting[h] \subseteq waiting'[h]
    BY <2>1, <2>2
  <2>4. batch'[r] = g
    BY <2>2
  <2> HIDE DEF g
  <2>5. \A s \in Requests : s # r => batch'[s] = batch[s] /\ answer'[s] = answer[s]
    BY <2>2
  <2> SUFFICES ASSUME NEW q \in Requests, Stranded(q)'
               PROVE  \E s \in Requests :
                        batch'[s] = batch'[q] /\ want'[s].key # NoMeta /\ answer'[s] = "failed"
    BY DEF StrandedOnlyByFailure
  <2>6. q # r
    BY <2>3, <2>4 DEF Stranded
  <2>7. Stranded(q)
    BY <2>3, <2>5, <2>6 DEF Stranded, Pending
  <2>8. \A s \in Requests : answer[s] = "failed" => answer'[s] = "failed" /\ batch'[s] = batch[s]
    <3>1. answer[r] = "new" /\ want' = want
      BY <2>2
    <3> QED
      BY <2>5, <3>1
  <2>9. batch'[q] = batch[q] /\ want' = want
    BY <2>2, <2>5, <2>6
  <2> QED
    BY <2>7, <2>8, <2>9, StrandedStays
<1>2. CASE ~Construct(r)
  <2>1. /\ want' = want /\ batch' = batch /\ waiting' = waiting
        /\ \A s \in Requests : answer'[s] = answer[s] \/ (answer[s] = "new" /\ answer'[s] = "reused")
    BY <1>2 DEF calls, waiters, Rejoin, ResetTimeout, Schedule, Fire, Rename, ZipOpen, ZipClose,
                Post, Accept, Refuse
  <2> SUFFICES ASSUME NEW q \in Requests, Stranded(q)'
               PROVE  \E s \in Requests :
                        batch'[s] = batch'[q] /\ want'[s].key # NoMeta /\ answer'[s] = "failed"
    BY DEF StrandedOnlyByFailure
  <2>2. Stranded(q)
    BY <2>1 DEF Stranded, Pending
  <2>3. \A s \in Requests : answer[s] = "failed" => answer'[s] = "failed"
    BY <2>1
  <2> QED
    BY <2>1, <2>2, <2>3, StrandedStays
<1> QED
  BY <1>1, <1>2

\* The names of the map are those of the waiters.
LEMMA RegisteredStep == Basic /\ Registered /\ [Next]_vars => Registered'
<1> SUFFICES ASSUME Basic, Registered, [Next]_vars PROVE Registered'
  OBVIOUS
<1> USE DEF Basic, TypeOK
<1>1. CASE UNCHANGED <<known, waiting>>
  BY <1>1 DEF Registered
<1>2. ASSUME NEW r \in Requests, Construct(r) PROVE Registered'
  <2>1. /\ known' = [known EXCEPT ![NextName] = TRUE]
        /\ \A h \in Tarballs : h # NextName => waiting'[h] = waiting[h]
    BY <1>2 DEF Construct
  <2> QED
    BY <2>1 DEF Registered
<1>3. ASSUME NEW r \in Requests, NEW ms, NEW at, NEW ends, NEW result,
             Finish(r, ms, at, ends, result)
      PROVE  Registered'
  <2>1. \/ /\ known' = [known EXCEPT ![batch[r]] = FALSE]
           /\ waiting' = [waiting EXCEPT ![batch[r]] = {}]
        \/ /\ known' = known
           /\ waiting' = [waiting EXCEPT ![batch[r]] = @ \ Popped(batch[r], ms, at)]
    BY <1>3 DEF Finish
  <2>2. batch[r] \in Tarballs
    OBVIOUS
  <2> DEFINE g == batch[r]
  <2>3. CASE /\ known' = [known EXCEPT ![g] = FALSE]
             /\ waiting' = [waiting EXCEPT ![g] = {}]
    <3>1. waiting'[g] = {}
      BY <2>2, <2>3
    <3>2. \A h \in Tarballs : h # g => waiting'[h] = waiting[h] /\ known'[h] = known[h]
      BY <2>3
    <3> HIDE DEF g
    <3> QED
      BY <3>1, <3>2 DEF Registered
  <2>4. CASE /\ known' = known
             /\ waiting' = [waiting EXCEPT ![g] = @ \ Popped(g, ms, at)]
    <3>1. \A h \in Tarballs : waiting'[h] \subseteq waiting[h]
      BY <2>4
    <3> QED
      BY <2>4, <3>1 DEF Registered
  <2> QED
    BY <2>1, <2>3, <2>4
<1>4. ASSUME NEW r \in Requests, Store(r) \/ Work(r) \/ Post(r)
      PROVE  \/ UNCHANGED <<known, waiting>>
             \/ Construct(r)
             \/ \E rd \in Readings(batch[r]) :
                  \/ Finish(r, rd.members, {i \in DOMAIN rd.members : IsData(rd.members[i])},
                            rd.ends, "ok")
                  \/ Finish(r, rd.members, DOMAIN rd.members, rd.ends, "failed")
  BY <1>4 DEF Store, Work, waiters, Rejoin, ResetTimeout, Schedule, Fire, Rename, ZipOpen,
              ZipClose, Post, Accept, Refuse, Complete, Fail
<1> QED
  BY <1>1, <1>2, <1>3, <1>4 DEF Next, vars, waiters

LEMMA InitKInv == Init => KInv
<1> SUFFICES ASSUME Init PROVE KInv
  OBVIOUS
<1>1. AllFed /\ Registered /\ StrandedOnlyByFailure
  BY DEF Init, AllFed, Registered, StrandedOnlyByFailure, Stranded, Pending
<1> QED
  BY <1>1, InitInv DEF KInv

LEMMA NextKInv == KInv /\ [Next]_vars => KInv'
<1> SUFFICES ASSUME KInv, [Next]_vars PROVE KInv'
  OBVIOUS
<1>1. IInv' /\ Registered'
  BY NextInv, RegisteredStep DEF KInv, IInv
<1>2. ASSUME ~overlap' PROVE AllFed' /\ StrandedOnlyByFailure'
  <2>1. CASE UNCHANGED vars
    <3>1. ~overlap /\ AllFed /\ StrandedOnlyByFailure
      BY <1>2, <2>1 DEF vars, KInv
    <3>2. AllFed'
      BY <2>1, <3>1, FedNext DEF vars, calls, files, waiters, AllFed
    <3>3. StrandedOnlyByFailure'
      BY <2>1, <3>1 DEF vars, calls, waiters, StrandedOnlyByFailure, Stranded, Pending
    <3> QED
      BY <3>2, <3>3
  <2>2. ASSUME NEW r \in Requests, Store(r) \/ Work(r) \/ Post(r)
        PROVE  AllFed' /\ StrandedOnlyByFailure'
    <3>1. overlap => overlap'
      BY <2>2 DEF Store, Work, Rejoin, Construct, ResetTimeout, Schedule, Fire, Rename, ZipOpen,
                  ZipClose, Post, Accept, Refuse, Complete, Fail, Finish
    <3>2. ~overlap /\ Basic /\ Apart /\ AllFed /\ Registered /\ StrandedOnlyByFailure
      BY <1>2, <3>1 DEF KInv, IInv
    <3>3. CASE Complete(r)
      <4>1. timer[r] = "accepted" /\ batch[r] \in Tarballs
        BY <3>2, <3>3 DEF Complete, Basic, TypeOK
      <4>2. PICK rd \in Readings(batch[r]) :
              Finish(r, rd.members, {i \in DOMAIN rd.members : IsData(rd.members[i])}, rd.ends, "ok")
        BY <3>3 DEF Complete
      <4>3. AllFed'
        BY <3>2, <4>1, <4>2, FinishFed
      <4>4. Popped(batch[r], rd.members, {i \in DOMAIN rd.members : IsData(rd.members[i])})
              = waiting[batch[r]]
        BY <3>2, <4>1, SentIsRead, CompletePops
      <4>5. StrandedOnlyByFailure'
        BY <3>2, <4>1, <4>2, <4>4, FinishStranded
      <4> QED
        BY <4>3, <4>5
    <3>4. CASE Fail(r)
      <4>1. timer[r] = "failed" /\ batch[r] \in Tarballs
        BY <3>2, <3>4 DEF Fail, Basic, TypeOK
      <4>2. PICK rd \in Readings(batch[r]) :
              Finish(r, rd.members, DOMAIN rd.members, rd.ends, "failed")
        BY <3>4 DEF Fail
      <4>3. AllFed'
        BY <3>2, <4>1, <4>2, FinishFed
      <4>4. \/ Popped(batch[r], rd.members, DOMAIN rd.members) = waiting[batch[r]]
            \/ \E s \in Popped(batch[r], rd.members, DOMAIN rd.members) : want[s].key # NoMeta
        BY <3>2, <4>1, SentIsRead, FailPops
      <4>5. StrandedOnlyByFailure'
        BY <3>2, <4>1, <4>2, <4>4, FinishStranded
      <4> QED
        BY <4>3, <4>5
    <3>5. CASE Construct(r)
      BY <3>2, <3>5, ConstructFed, OtherStranded
    <3>6. CASE \/ Rejoin(r) \/ ResetTimeout(r) \/ Schedule(r) \/ Fire(r)
               \/ Rename(r) \/ ZipOpen(r) \/ ZipClose(r) \/ Post(r) \/ Accept(r) \/ Refuse(r)
      BY <3>2, <3>6, SendFed, OtherStranded
    <3> QED
      BY <2>2, <3>3, <3>4, <3>5, <3>6 DEF Store, Work
  <2> QED
    BY <2>1, <2>2 DEF Next
<1>3. overlap' => StrandedOnlyByFailure'
  BY DEF StrandedOnlyByFailure
<1>4. overlap' \in BOOLEAN
  BY <1>1 DEF IInv, Basic, TypeOK
<1> QED
  BY <1>1, <1>2, <1>3, <1>4 DEF KInv

\* While sends of one tarball do not overlap, a call is forgotten only if the
\* send of its tarball failed and another call of that tarball, which was told
\* so, had metadata: at that metadata failTarfiles stopped.
THEOREM ForgottenByFailure == Spec => []StrandedOnlyByFailure
<1>1. KInv => StrandedOnlyByFailure
  BY DEF KInv
<1> QED
  BY <1>1, InitKInv, NextKInv, PTL DEF Spec
=============================================================================
