---------------------------- MODULE VersionedTrees ----------------------------
(***************************************************************************)
(* What a collection promises ("Like a Git repository", docs): a tree of   *)
(* files with all its past versions.  A version, once made, never changes; *)
(* each operation adds one version to one collection, except that moving   *)
(* files adds one to each of two at once and conserves the files.          *)
(***************************************************************************)
EXTENDS Integers, Sequences, FiniteSets

CONSTANTS
  Colls,
  Paths,
  Contents,
  None

VARIABLE versions  \* versions[c]: the trees of c, oldest first, or None

Tree == [Paths -> Contents \cup {None}]
NoFiles == [p \in Paths |-> None]

Exists(c) == versions[c] # None

Current(c) ==
  IF versions[c] = <<>> THEN NoFiles ELSE versions[c][Len(versions[c])]

Init == versions = [c \in Colls |-> None]

Create(c) ==
  /\ ~Exists(c)
  /\ versions' = [versions EXCEPT ![c] = <<>>]

Delete(c) ==
  /\ Exists(c)
  /\ versions' = [versions EXCEPT ![c] = None]

Change(c) ==
  /\ Exists(c)
  /\ versions'[c] \in {Append(versions[c], tree) : tree \in Tree}
  /\ versions' = [versions EXCEPT ![c] = versions'[c]]

Move(src, dst, files) ==
  LET left == [p \in Paths |-> IF p \in files THEN None ELSE Current(src)[p]]
      joined == [p \in Paths |-> IF p \in files THEN Current(src)[p] ELSE Current(dst)[p]]
  IN  /\ Exists(src)
      /\ Exists(dst)
      /\ src # dst
      /\ \A p \in files : Current(src)[p] # None /\ Current(dst)[p] = None
      /\ versions' = [versions EXCEPT ![src] = Append(@, left), ![dst] = Append(@, joined)]

Next ==
  \E c \in Colls :
    \/ Create(c)
    \/ Delete(c)
    \/ Change(c)
    \/ \E dst \in Colls, files \in (SUBSET Paths) \ {{}} : Move(c, dst, files)

Spec == Init /\ [][Next]_versions
=============================================================================
