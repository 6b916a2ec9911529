-------------------------- MODULE MCAggregateStore --------------------------
(* Small instances of AggregateStore for TLC.  Files are interchangeable in   *)
(* the definitions and the invariants; the runs that check liveness use no    *)
(* symmetry.                                                                  *)
EXTENDS AggregateStore, TLC

Symmetry == Permutations(Requests) \cup Permutations(Files)
=============================================================================
