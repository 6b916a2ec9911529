-------------------------- MODULE MCBlockStoreDisk --------------------------
(* Small instances of BlockStoreDisk for TLC.  Definitions and properties     *)
(* treat peers, blocks and keys alike.                                        *)
EXTENDS BlockStoreDisk, TLC

Symmetry == Permutations(Nodes) \cup Permutations(Small) \cup Permutations(MetaKeys)
=============================================================================
