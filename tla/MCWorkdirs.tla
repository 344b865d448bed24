------------------------------ MODULE MCWorkdirs ------------------------------
(***************************************************************************)
(* Instances of Workdirs for TLC.                                          *)
(***************************************************************************)
EXTENDS Workdirs, TLC

EveryBlob == [x \in Contents |-> Blobs]
NoThumbs == [x \in Contents |-> None]
Symmetry ==
  UNION {Permutations(S) : S \in {ChangesetIDs, Paths, Contents}}
=============================================================================
