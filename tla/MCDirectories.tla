------------------------- MODULE MCDirectories -------------------------
(* Instances of Directories: identifiers are interchangeable. *)
EXTENDS Directories, TLC

Identifiers == Permutations(Dirs) \union Permutations(Colls)
========================================================================
