------------------------------ MODULE MCManifest ------------------------------
(* A small instance of Manifest for TLC: a file that is selected itself, and   *)
(* one in a selected directory.                                                *)
EXTENDS Manifest, TLC

CONSTANTS f, g, d

MCAbove == [p \in Paths |-> IF p = g THEN {d} ELSE {}]
=============================================================================
