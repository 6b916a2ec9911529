---------------------------- MODULE MCBlockStore ----------------------------
(* Small instances of the block store for TLC.  Peers are interchangeable in  *)
(* the definitions and in the properties checked, and so are metadata keys.   *)
EXTENDS BlockStore, TLC

Symmetry == Permutations(Nodes) \cup Permutations(MetaKeys)
=============================================================================
