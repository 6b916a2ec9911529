--------------------------- MODULE AggregateStore ---------------------------
(***************************************************************************)
(* How flud sends small blocks: the class AggregateStore of                *)
(* src/flud/protocol/ClientPrimitives.py, entered through FludClient.store.*)
(*                                                                         *)
(* A store appends its block and metadata to a tarball that waits for the  *)
(* destination, and registers a waiter.  A timer, rearmed by each store,   *)
(* renames the tarball, compresses it to a .gz, sends that, and answers    *)
(* the waiters it finds under the names of the members.  While a tarball   *)
(* is under way the next store starts a new one.                           *)
(*                                                                         *)
(* Stores, timers and answers run on one event loop, a step from one await *)
(* to the next; compression runs in a worker thread, whose steps are those *)
(* between file operations.  Only while the loop is between the locked and *)
(* the unlocked part of the constructor can the worker get in between.     *)
(*                                                                         *)
(* One destination is modelled: others use other names.  Delays are        *)
(* abstracted: an armed timer may go off at any time, and callbacks that   *)
(* are ready run in any order.  A member is <<file, Data>>, or             *)
(* <<file, key>> for the metadata stored with it.                          *)
(***************************************************************************)
EXTENDS Integers, Sequences, FiniteSets

CONSTANTS
  Requests,  \* the calls of store, each made at most once
  Files,     \* base names of the blocks
  Keys,      \* keys of metadata
  Data,      \* stands for the block itself in a member
  NoMeta,    \* the key of a request without metadata
  Absent,    \* a file that does not exist
  None       \* no request

ASSUME AggregateStoreAssumption ==
  /\ IsFiniteSet(Requests)
  /\ Data \notin Keys /\ NoMeta \notin Keys
  /\ None \notin Requests
  /\ Absent \notin Seq(Files \X (Keys \cup {Data}))
  /\ Absent \notin [whole : BOOLEAN, members : Seq(Files \X (Keys \cup {Data}))]

Member == Files \X (Keys \cup {Data})
Want == [file : Files, key : Keys \cup {NoMeta}]

\* The first name of a tarball is 0, generation n is n.
Base == 0
Tarballs == 0 .. Cardinality(Requests)

\* Where the timer of a request, and then the send it starts, stands.
\* Queued: _schedule waits on the loop.  Armed: call_later was called.
Sending == {"begin", "zip", "close", "post", "wait", "accepted", "failed"}
Phases == {"none", "queued", "armed"} \cup Sending

VARIABLES
  want,      \* want[r]: what r stores; it does not change
  answer,    \* answer[r]: where the call stands, and how it ended
  batch,     \* batch[r]: the tarball r was put into
  adding,    \* the request whose constructor has left the lock, or None
  timer,     \* timer[r]: the phase of r's timer or send
  tar,       \* tar[g]: the members of tarball g, in order
  work,      \* work[g]: the same for g.sending
  gz,        \* gz[g]: the same for g.gz, and whether it is whole
  content,   \* content[r]: what r's send has read
  known,     \* known[g]: aggregate_waiters has g
  waiting,   \* waiting[g]: the requests with a waiter in aggregate_waiters[g]
  made,      \* how many generation names were used
  stored,    \* history: the members the destination acknowledged
  overlap    \* history: a timer was set for a tarball that another one sends

calls == <<want, answer, batch, adding>>
files == <<tar, work, gz, content>>
waiters == <<known, waiting>>
vars == <<calls, timer, files, waiters, made, stored, overlap>>

Names(s) == {s[i] : i \in DOMAIN s}
MembersFor(w) ==
  {<<w.file, Data>>} \cup (IF w.key = NoMeta THEN {} ELSE {<<w.file, w.key>>})
Pending(r) == answer[r] = "pending"

-----------------------------------------------------------------------------
(* Storing.                                                                *)

Init ==
  /\ want \in [Requests -> Want]
  /\ answer = [r \in Requests |-> "new"]
  /\ batch = [r \in Requests |-> Base]
  /\ adding = None
  /\ timer = [r \in Requests |-> "none"]
  /\ tar = [g \in Tarballs |-> Absent]
  /\ work = [g \in Tarballs |-> Absent]
  /\ gz = [g \in Tarballs |-> Absent]
  /\ content = [r \in Requests |-> <<>>]
  /\ known = [g \in Tarballs |-> FALSE]
  /\ waiting = [g \in Tarballs |-> {}]
  /\ made = 0
  /\ stored = {}
  /\ overlap = FALSE

\* store finds the coroutine of a store of the same path that has not ended,
\* and awaits it a second time, which raises RuntimeError.  Two paths may have
\* the same base name: whether these do is left open.
Rejoin(r) ==
  /\ adding = None /\ answer[r] = "new"
  /\ \E q \in Requests : Pending(q) /\ want[q].file = want[r].file
  /\ answer' = [answer EXCEPT ![r] = "reused"]
  /\ UNCHANGED <<want, batch, adding, timer, files, waiters, made, stored, overlap>>

\* Mutant of NextName: no new generation.
NextNameBase == Base

\* The name of the tarball to append to.
NextName == IF known[Base] /\ tar[Base] = Absent THEN made + 1 ELSE Base

\* Mutant of Added: metadata is passed over together with the data file.
AddedOnce(old, w) ==
  IF <<w.file, Data>> \in Names(old) THEN old
  ELSE LET withData == Append(old, <<w.file, Data>>)
       IN IF w.key = NoMeta THEN withData ELSE Append(withData, <<w.file, w.key>>)

\* A data file that is there already is not added again, metadata is.
Added(old, w) ==
  LET withData == IF <<w.file, Data>> \in Names(old)
                  THEN old ELSE Append(old, <<w.file, Data>>)
  IN IF w.key = NoMeta THEN withData ELSE Append(withData, <<w.file, w.key>>)

\* The constructor, as far as it holds the lock.
Construct(r) ==
  LET g == NextName
      create == tar[g] = Absent \/ ~known[g]
  IN /\ adding = None /\ answer[r] = "new"
     /\ answer' = [answer EXCEPT ![r] = "pending"]
     /\ batch' = [batch EXCEPT ![r] = g]
     /\ adding' = r
     /\ tar' = [tar EXCEPT ![g] = Added(IF create THEN <<>> ELSE @, want[r])]
     /\ known' = [known EXCEPT ![g] = TRUE]
     /\ waiting' = [waiting EXCEPT ![g] = (IF create THEN {} ELSE @) \cup {r}]
     /\ made' = IF g = Base THEN made ELSE g
     /\ UNCHANGED <<want, timer, work, gz, content, stored, overlap>>

InBatch(s, r, phases) == batch[s] = batch[r] /\ timer[s] \in phases

\* resetTimeout, without the lock: nothing to do if the tarball left meanwhile.
ResetTimeout(r) ==
  /\ adding = r
  /\ adding' = None
  /\ timer' = [timer EXCEPT ![r] = IF tar[batch[r]] = Absent THEN "none"
                                                             ELSE "queued"]
  /\ overlap' = (overlap \/ (/\ tar[batch[r]] # Absent
                             /\ \E s \in Requests : InBatch(s, r, {"begin"})))
  /\ UNCHANGED <<want, answer, batch, files, waiters, made, stored>>

\* Cancelling the timer that aggTimeoutMap holds for g.  A handle that has run
\* stays in the map, and cancelling it does nothing.
Cancelled(g) ==
  [s \in Requests |-> IF batch[s] = g /\ timer[s] = "armed" THEN "none" ELSE timer[s]]

\* Mutant of Schedule: the old timer is cancelled, no new one is armed.
ScheduleLost(r) ==
  /\ adding = None /\ timer[r] = "queued"
  /\ timer' = [Cancelled(batch[r]) EXCEPT ![r] =
                 IF \E s \in Requests : InBatch(s, r, {"armed"}) THEN "none" ELSE "armed"]
  /\ UNCHANGED <<calls, files, waiters, made, stored, overlap>>

\* _schedule.  A tarball that leaves between exists and stat raises, after the
\* old timer has been cancelled.
Schedule(r) ==
  /\ adding = None /\ timer[r] = "queued"
  /\ \E next \in {"armed"} \cup (IF tar[batch[r]] = Absent THEN {"none"} ELSE {}) :
       timer' = [Cancelled(batch[r]) EXCEPT ![r] = next]
  /\ UNCHANGED <<calls, files, waiters, made, stored, overlap>>

-----------------------------------------------------------------------------
(* Sending.                                                                *)

Fire(r) ==
  /\ adding = None /\ timer[r] = "armed"
  /\ timer' = [timer EXCEPT ![r] = "begin"]
  /\ overlap' = (overlap \/ \E s \in Requests : InBatch(s, r, {"queued"}))
  /\ UNCHANGED <<calls, files, waiters, made, stored>>

\* _prepareTarball under the lock.
Rename(r) ==
  LET g == batch[r]
  IN /\ timer[r] = "begin"
     /\ IF tar[g] = Absent
        THEN /\ timer' = [timer EXCEPT ![r] = "failed"]
             /\ UNCHANGED <<tar, work>>
        ELSE /\ timer' = [timer EXCEPT ![r] = "zip"]
             /\ work' = [work EXCEPT ![g] = tar[g]]
             /\ tar' = [tar EXCEPT ![g] = Absent]
     /\ UNCHANGED <<calls, gz, content, waiters, made, stored, overlap>>

\* The .gz is truncated, the renamed tarball read.  An empty .gz is left if
\* that is gone, which no one can read as a tarball.
ZipOpen(r) ==
  LET g == batch[r]
      gone == work[g] = Absent
      members == IF gone THEN <<>> ELSE work[g]
  IN /\ timer[r] = "zip"
     /\ timer' = [timer EXCEPT ![r] = IF gone THEN "failed" ELSE "close"]
     /\ gz' = [gz EXCEPT ![g] = [whole |-> FALSE, members |-> members]]
     /\ content' = [content EXCEPT ![r] = members]
     /\ UNCHANGED <<calls, tar, work, waiters, made, stored, overlap>>

ZipClose(r) ==
  LET g == batch[r]
  IN /\ timer[r] = "close"
     /\ timer' = [timer EXCEPT ![r] = IF work[g] = Absent THEN "failed" ELSE "post"]
     /\ gz' = [gz EXCEPT ![g] = [whole |-> TRUE, members |-> content[r]]]
     /\ work' = [work EXCEPT ![g] = Absent]
     /\ UNCHANGED <<calls, tar, content, waiters, made, stored, overlap>>

\* A request is posted with what the .gz holds now; it is read again when the
\* destination asks for authentication, and after a timeout.
Post(r) ==
  LET g == batch[r]
  IN /\ adding = None /\ timer[r] \in {"post", "wait"}
     /\ timer' = [timer EXCEPT ![r] = IF gz[g] = Absent THEN "failed" ELSE "wait"]
     /\ content' = [content EXCEPT ![r] =
                      IF gz[g] = Absent \/ ~gz[g].whole THEN <<>> ELSE gz[g].members]
     /\ UNCHANGED <<calls, tar, work, gz, waiters, made, stored, overlap>>

\* The destination cannot unpack a torn .gz.
Accept(r) ==
  /\ adding = None /\ timer[r] = "wait" /\ content[r] # <<>>
  /\ timer' = [timer EXCEPT ![r] = "accepted"]
  /\ stored' = stored \cup Names(content[r])
  /\ UNCHANGED <<calls, files, waiters, made, overlap>>

\* An error, a refusal, or the last timeout.
Refuse(r) ==
  /\ adding = None /\ timer[r] = "wait"
  /\ timer' = [timer EXCEPT ![r] = "failed"]
  /\ UNCHANGED <<calls, files, waiters, made, stored, overlap>>

-----------------------------------------------------------------------------
(* Answering the waiters.                                                  *)

\* Of the places of ms that are looked up, those that raise KeyError: no one
\* waits under that name.
KeyErrors(g, ms, places) ==
  {i \in places : ms[i] \notin {<<want[s].file, Data>> : s \in waiting[g]}}

\* Mutant of Popped: waiters are looked up, not removed.
Looked(g, ms, places) ==
  {s \in Requests : batch[s] = g /\ \E i \in places : ms[i] = <<want[s].file, Data>>}

\* The waiters found until the first of these.
Popped(g, ms, places) ==
  {s \in waiting[g] :
     \E i \in places : /\ ms[i] = <<want[s].file, Data>>
                       /\ \A j \in KeyErrors(g, ms, places) : i < j}

\* What iterating over g.gz may yield, and whether it ends without an error.
\* A .gz that is being written ends early.
Readings(g) ==
  IF gz[g] = Absent THEN {[members |-> <<>>, ends |-> FALSE]}
  ELSE IF gz[g].whole THEN {[members |-> gz[g].members, ends |-> TRUE]}
  ELSE {[members |-> SubSeq(gz[g].members, 1, n), ends |-> FALSE]
          : n \in 0 .. Len(gz[g].members)}

\* The common part of completeTarfiles and failTarfiles.  Looking up a member
\* may raise KeyError, which is caught if g is still in the map; any other
\* error ends the send, and the waiters popped by then are forgotten.
Finish(r, ms, places, ends, result) ==
  LET g == batch[r]
      errors == KeyErrors(g, ms, places)
      popped == Popped(g, ms, places)
      reached == (errors # {} /\ known[g]) \/ (ends /\ errors = {})
  IN /\ IF reached
        THEN /\ answer' = [s \in Requests |-> IF s \in popped THEN result ELSE answer[s]]
             /\ known' = [known EXCEPT ![g] = FALSE]
             /\ waiting' = [waiting EXCEPT ![g] = {}]
             /\ timer' = [Cancelled(g) EXCEPT ![r] = "none"]
             /\ gz' = IF result = "ok" THEN [gz EXCEPT ![g] = Absent] ELSE gz
        ELSE /\ waiting' = [waiting EXCEPT ![g] = @ \ popped]
             /\ timer' = [timer EXCEPT ![r] = "none"]
             /\ UNCHANGED <<answer, known, gz>>
     /\ content' = [content EXCEPT ![r] = <<>>]
     /\ UNCHANGED <<want, batch, adding, tar, work, made, stored, overlap>>

\* Mutant of IsData: metadata is looked up like data.
IsAny(m) == TRUE

IsData(m) == m[2] = Data

\* completeTarfiles passes over metadata.
Complete(r) ==
  /\ adding = None /\ timer[r] = "accepted"
  /\ \E rd \in Readings(batch[r]) :
       LET ms == rd.members
       IN Finish(r, ms, {i \in DOMAIN ms : IsData(ms[i])}, rd.ends, "ok")

\* failTarfiles does not.
Fail(r) ==
  /\ adding = None /\ timer[r] = "failed"
  /\ \E rd \in Readings(batch[r]) :
       Finish(r, rd.members, DOMAIN rd.members, rd.ends, "failed")

-----------------------------------------------------------------------------
Store(r) == Rejoin(r) \/ Construct(r)

\* What the loop and the worker do without being asked.
Work(r) ==
  \/ ResetTimeout(r) \/ Schedule(r) \/ Fire(r)
  \/ Rename(r) \/ ZipOpen(r) \/ ZipClose(r)
  \/ Accept(r) \/ Refuse(r)
  \/ Complete(r) \/ Fail(r)

Next == \E r \in Requests : Store(r) \/ Work(r) \/ Post(r)

\* A callback of the loop runs, an armed timer goes off, a thread gets on, and
\* a send is answered or runs out of retries.
Spec == Init /\ [][Next]_vars
             /\ \A r \in Requests : WF_vars(Work(r)) /\ WF_vars(Post(r))

-----------------------------------------------------------------------------
(* Properties.                                                             *)

\* Types.  Of the timers of a tarball at most one is armed, since each one is
\* cancelled before the next takes its place in aggTimeoutMap.
TypeOK ==
  /\ want \in [Requests -> Want]
  /\ answer \in [Requests -> {"new", "pending", "ok", "failed", "reused"}]
  /\ batch \in [Requests -> Tarballs]
  /\ adding \in Requests \cup {None}
  /\ timer \in [Requests -> Phases]
  /\ tar \in [Tarballs -> Seq(Member) \cup {Absent}]
  /\ work \in [Tarballs -> Seq(Member) \cup {Absent}]
  /\ gz \in [Tarballs -> [whole : BOOLEAN, members : Seq(Member)] \cup {Absent}]
  /\ content \in [Requests -> Seq(Member)]
  /\ known \in [Tarballs -> BOOLEAN]
  /\ waiting \in [Tarballs -> SUBSET Requests]
  /\ made \in Nat
  /\ stored \subseteq Member
  /\ overlap \in BOOLEAN
  /\ \A r, s \in Requests : (batch[r] = batch[s] /\ timer[r] = "armed" /\ timer[s] = "armed")
                               => r = s

\* A caller is told that its block is stored only when the destination has
\* acknowledged the block and the metadata given with it; completeTarfiles
\* decides by names in maps and files that other stores change meanwhile.
\* (Not so once two sends of one tarball overlap.)
Truthful ==
  \A r \in Requests : answer[r] = "ok" => MembersFor(want[r]) \subseteq stored \/ overlap

InTarball(r) ==
  LET g == batch[r]
  IN /\ tar[g] # Absent
     /\ MembersFor(want[r]) \subseteq Names(tar[g])
     /\ \E s \in Requests : batch[s] = g /\ (adding = s \/ timer[s] \in {"queued", "armed", "begin"})

BeingSent(r) ==
  \E s \in Requests :
    /\ batch[s] = batch[r]
    /\ timer[s] \in Sending \ {"begin"}
    /\ MembersFor(want[r]) \subseteq
         Names(IF timer[s] = "zip" THEN work[batch[r]] ELSE content[s])

\* What a waiter waits for comes about: its block is in a tarball that a timer
\* will send, or in one on its way.  A store never begins a tarball over one
\* that others wait for, and the timer it cancels is never the last one.
Carried ==
  \A g \in Tarballs : \A r \in waiting[g] :
    Pending(r) /\ batch[r] = g /\ (overlap \/ InTarball(r) \/ BeingSent(r))

\* The future of this call is in no map, and nothing will ever answer it.
Stranded(r) == Pending(r) /\ r \notin waiting[batch[r]]

\* Calls are forgotten only where a tarball with metadata could not be sent:
\* failTarfiles looks up the names of metadata among the waiters and stops at
\* the first.
StrandedOnlyByFailure ==
  \A r \in Requests : Stranded(r) =>
    \/ overlap
    \/ \E s \in Requests : batch[s] = batch[r] /\ want[s].key # NoMeta /\ answer[s] = "failed"

\* A call has one outcome: neither a second send of the tarball nor a later
\* tarball of the same name answers it again.
AnsweredOnce ==
  [][\A r \in Requests : answer[r] \in {"ok", "failed", "reused"} => answer'[r] = answer[r]]_vars

\* Every call is answered in the end, or forgotten in one of the two ways above.
Answered ==
  \A r \in Requests :
    Pending(r) ~> (answer[r] \in {"ok", "failed"} \/ Stranded(r) \/ overlap)

=============================================================================
