------------------------------ MODULE ReplicaSet ------------------------------
(***************************************************************************)
(* What Varasto's blob store promises its users, without uploads, locks,   *)
(* queues or restarts: a blob gets its content once and keeps it; from     *)
(* then on its intact copies come and go one volume at a time, and only a  *)
(* volume declared lost takes copies away, from all its blobs at once.     *)
(***************************************************************************)
CONSTANTS Blobs, Volumes, Contents, None

VARIABLES
  stored,  \* stored[b]: what blob b was stored as, None before that
  copies   \* copies[b]: volumes the catalogue lists that hold exactly that

Init ==
  /\ stored = [b \in Blobs |-> None]
  /\ copies = [b \in Blobs |-> {}]

Store(b, f, v) ==
  /\ stored[b] = None
  /\ stored' = [stored EXCEPT ![b] = f]
  /\ copies' = [copies EXCEPT ![b] = {v}]

Copy(b, v) ==
  /\ stored[b] # None
  /\ v \notin copies[b]
  /\ copies' = [copies EXCEPT ![b] = @ \cup {v}]
  /\ UNCHANGED stored

Lose(v) ==
  /\ copies' = [b \in Blobs |-> copies[b] \ {v}]
  /\ UNCHANGED stored

Next ==
  \/ \E b \in Blobs, f \in Contents, v \in Volumes : Store(b, f, v)
  \/ \E b \in Blobs, v \in Volumes : Copy(b, v)
  \/ \E v \in Volumes : Lose(v)

Spec == Init /\ [][Next]_<<stored, copies>>
=============================================================================
