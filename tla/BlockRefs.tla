------------------------------ MODULE BlockRefs ------------------------------
(***************************************************************************)
(* What a flud node promises to the peers that store blocks with it: it    *)
(* keeps a set of references <<peer, block, metadata key>>, and every      *)
(* request adds or removes exactly the references it names, however the    *)
(* blocks are laid out on disk.  A request may get lost, and one whose     *)
(* answer is lost may be carried out again; but what is answered has been  *)
(* carried out.                                                            *)
(***************************************************************************)
CONSTANTS
  Nodes,     \* the peers
  Requests,  \* records with an operation and a set of <<block, key>>
  NoRequest

VARIABLES
  held,      \* the references kept: block and metadata can be retrieved
  request,   \* request[n]: what peer n waits for
  owed,      \* the references acknowledged and not yet asked to go
  doubt      \* the references of requests that were given up

vars == <<held, request, owed, doubt>>

Of(n, refs) == {<<n, r[1], r[2]>> : r \in refs}

Init ==
  /\ held = {}
  /\ request = [n \in Nodes |-> NoRequest]
  /\ owed = {}
  /\ doubt = {}

Ask(n, q) ==
  /\ request[n] = NoRequest
  /\ request' = [request EXCEPT ![n] = q]
  /\ owed' = IF q.op = "delete" THEN owed \ Of(n, q.refs) ELSE owed
  /\ UNCHANGED <<held, doubt>>

\* STORE: the references are kept from now on.
Store(n) ==
  /\ request[n].op \in {"tar", "direct"}
  /\ held' = held \cup Of(n, request[n].refs)

\* VERIFY attaches metadata to a block that is kept for somebody.  It may find
\* none, but not if it is kept for the peer that asks.
Attach(n) ==
  /\ request[n].op = "verify"
  /\ \A r \in request[n].refs : \E o \in held : o[2] = r[1]
  /\ held' = held \cup Of(n, request[n].refs)

Refuse(n) ==
  /\ request[n].op = "verify"
  /\ \A r \in request[n].refs : \A o \in held : o[1] = n => o[2] # r[1]
  /\ UNCHANGED held

\* DELETE: these references go, and no other one.
Remove(n) ==
  /\ request[n].op = "delete"
  /\ held' = held \ Of(n, request[n].refs)

Done(n) == request' = [request EXCEPT ![n] = NoRequest]

\* The request is carried out and answered.  An answered STORE or DELETE leaves
\* no doubt about its references.
Answer(n) ==
  /\ request[n] # NoRequest
  /\ \/ /\ Store(n) \/ Attach(n)
        /\ owed' = owed \cup Of(n, request[n].refs)
     \/ /\ Refuse(n) \/ Remove(n)
        /\ UNCHANGED owed
  /\ doubt' = IF request[n].op = "verify" THEN doubt
              ELSE doubt \ Of(n, request[n].refs)
  /\ Done(n)

\* No answer arrives, whether the request is carried out or not: the peer tries
\* again, or gives up and does not know.
Lose(n) ==
  /\ request[n] # NoRequest
  /\ Store(n) \/ Attach(n) \/ Refuse(n) \/ Remove(n) \/ UNCHANGED held
  /\ UNCHANGED owed
  /\ \/ UNCHANGED <<request, doubt>>
     \/ Done(n) /\ doubt' = doubt \cup (Of(n, request[n].refs) \ owed)

Next ==
  \E n \in Nodes : \/ \E q \in Requests : Ask(n, q)
                   \/ Answer(n)
                   \/ Lose(n)

Spec == Init /\ [][Next]_vars
=============================================================================
