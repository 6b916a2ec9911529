---------------------------- MODULE MCFileStore ----------------------------
(* Small instances of FileStore for TLC.  Definitions and invariants treat   *)
(* stores, nodes, blocks and contents alike.                                  *)
EXTENDS FileStore, TLC

Symmetry == Permutations(Stores) \cup Permutations(Nodes) \cup Permutations(Blocks)
              \cup Permutations(Contents)
=============================================================================
