----------------------------- MODULE MCBlobStore -----------------------------
(***************************************************************************)
(* Instances of BlobStore for TLC.                                         *)
(***************************************************************************)
EXTENDS BlobStore, TLC

CONSTANTS v1, v2, v3, c1, c2, p1, p2

OnePolicy == [c \in {c1} |-> p1]
SharedPolicy == [c \in {c1, c2} |-> p1]

AnyZone == [p \in Policies |-> 1]

OneZone == [v \in Volumes |-> "Default"]

LocalDisks == [v \in Volumes |-> 10]

DesireAll == {[p \in Policies |-> Volumes]}
DesireAny == [Policies -> SUBSET Volumes]
DesireV1 == {[p \in Policies |-> {v1}]}
=============================================================================
