--------------------------- MODULE MCFileRetrieve ---------------------------
(* Small instances of FileRetrieve for TLC.  Definitions and invariants       *)
(* treat retrievals, paths, blocks and seconds alike; all paths end in one    *)
(* name.                                                                      *)
EXTENDS FileRetrieve, TLC

CONSTANT basename

MCBaseOf == [p \in Paths |-> basename]

Symmetry == Permutations(Retrievals) \cup Permutations(Paths) \cup Permutations(Blocks)
            \cup Permutations(Seconds) \cup Permutations(Versions)
=============================================================================
