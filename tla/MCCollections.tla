---------------------------- MODULE MCCollections ----------------------------
(***************************************************************************)
(* Instances of Collections for TLC: one content of two blobs, which two   *)
(* collections may have uploaded, and a path that is where its thumbnail   *)
(* would be.                                                               *)
(***************************************************************************)
EXTENDS Collections, TLC

CONSTANTS a, p, t, shared, own

Sharing == a :> {shared, own}
Thumbs == a :> t
Symmetry == UNION {Permutations(S) : S \in {Colls, ChangesetIDs, Keks, Blobs}}
=============================================================================
