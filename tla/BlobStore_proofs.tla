--------------------------- MODULE BlobStore_proofs ---------------------------
(***************************************************************************)
(* Proofs about BlobStore, for any number of blobs, volumes, collections,  *)
(* policies, concurrent requests and jobs in flight; and that BlobStore    *)
(* implements ReplicaSet.                                                  *)
(***************************************************************************)
EXTENDS BlobStore, FiniteSetTheorems, WellFoundedInduction, TLAPS

(***************************************************************************)
(* Type correctness.                                                       *)
(***************************************************************************)
LEMMA InitTypeOK == Init => TypeOK
<1> SUFFICES ASSUME Init PROVE TypeOK
  OBVIOUS
<1> USE DEF Init
<1>1. form \in [Blobs -> Forms \cup {None}] /\ vols \in [Blobs -> SUBSET Volumes]
  OBVIOUS
<1>2. pend \in [Blobs -> [Volumes -> 0 .. MaxQueued]]
  BY MaxQueuedAssumption DEF NoQueue
<1>3. desired \in [Policies -> SUBSET Volumes]
  BY InitDesiredAssumption
<1>4. disk \in [Volumes -> [Blobs -> Forms \cup {None}]]
  OBVIOUS
<1>5. upload \in [Uploaders -> {Idle} \cup Request \cup StoredRequest]
  OBVIOUS
<1>6. count \in [Volumes -> Int] /\ token \in [Volumes -> Nat]
  BY DEF NoQueue
<1>7. queued \in [Volumes -> SUBSET Job] /\ landed \in [Volumes -> SUBSET Blobs]
  OBVIOUS
<1>8. content \in [Colls -> SUBSET Blobs] /\ reload \in BOOLEAN
  OBVIOUS
<1>9. QED
  BY <1>1, <1>2, <1>3, <1>4, <1>5, <1>6, <1>7, <1>8 DEF TypeOK

\* What a request's program counter says of its other fields.
LEMMA UploadForms ==
  ASSUME TypeOK, NEW u \in Uploaders
  PROVE  /\ upload[u].pc \in {"chosen", "locked"} => upload[u] \in Request
         /\ upload[u].pc = "stored" => upload[u] \in StoredRequest
         /\ upload[u].pc \in {"idle", "chosen", "locked", "stored"}
         /\ upload[u].pc = "idle" => upload[u] = Idle
BY DEF TypeOK, Idle, Request, StoredRequest

LEMMA RecordReplicaTypeOK ==
  ASSUME TypeOK, NEW b \in Blobs, NEW v \in Volumes,
         NEW on \in SUBSET Volumes, NEW queue \in [Volumes -> 0 .. MaxQueued],
         RecordReplica(b, v, on, queue)
  PROVE  /\ vols' \in [Blobs -> SUBSET Volumes]
         /\ pend' \in [Blobs -> [Volumes -> 0 .. MaxQueued]]
         /\ count' \in [Volumes -> Int]
BY MaxQueuedAssumption DEF TypeOK, RecordReplica

LEMMA UnqueueTypeOK ==
  TypeOK => \A v \in Volumes : Unqueue(v) \in [Blobs -> [Volumes -> 0 .. MaxQueued]]
BY MaxQueuedAssumption DEF TypeOK, Unqueue

LEMMA UploadTypeOK ==
  ASSUME TypeOK, NEW u \in Uploaders, UploadStep(u)
  PROVE  TypeOK'
<1> USE DEF dbVars, bootVars, uploadVars, controllerVars
<1>1. ASSUME NEW b \in Blobs, NEW c \in Colls, ChooseVolume(u, b, c)
      PROVE  TypeOK'
  <2>1. PICK v \in Volumes :
          upload' = [upload EXCEPT
                       ![u] = [pc |-> "chosen", ref |-> b, coll |-> c, vol |-> v]]
    BY <1>1 DEF ChooseVolume, BestVolumes, TypeOK
  <2>2. upload' \in [Uploaders -> {Idle} \cup Request \cup StoredRequest]
    BY <2>1 DEF TypeOK, Request
  <2> QED
    BY <1>1, <2>2 DEF ChooseVolume, TypeOK
<1>2. ASSUME TryLock(u)
      PROVE  TypeOK'
  <2>1. upload[u] \in Request
    BY <1>2, UploadForms DEF TryLock
  <2>2. upload' \in [Uploaders -> {Idle} \cup Request \cup StoredRequest]
    BY <1>2, <2>1 DEF TypeOK, Request, TryLock
  <2>3. writing' \subseteq Blobs
    BY <1>2, <2>1 DEF TypeOK, Request, TryLock
  <2> QED
    BY <1>2, <2>2, <2>3 DEF TryLock, TypeOK
<1>3. ASSUME RefuseUpload(u)
      PROVE  TypeOK'
  BY <1>3 DEF RefuseUpload, TypeOK
<1>4. ASSUME NEW hint \in Hints, StoreUpload(u, hint)
      PROVE  TypeOK'
  <2>1. upload[u] \in Request
    BY <1>4, UploadForms DEF StoreUpload
  <2>2. <<upload[u].coll, hint>> \in Forms
    BY <2>1 DEF Request, Forms
  <2>3. upload' \in [Uploaders -> {Idle} \cup Request \cup StoredRequest]
    BY <1>4, <2>1, <2>2 DEF TypeOK, Request, StoredRequest, StoreUpload
  <2>4. disk' \in [Volumes -> [Blobs -> Forms \cup {None}]]
    BY <1>4, <2>1, <2>2 DEF TypeOK, Request, StoreUpload, RawStored
  <2> QED
    BY <1>4, <2>3, <2>4 DEF StoreUpload, TypeOK
<1>5. ASSUME FailUpload(u)
      PROVE  TypeOK'
  BY <1>5 DEF FailUpload, TypeOK
<1>6. ASSUME WriteBlobCreated(u)
      PROVE  TypeOK'
  <2>1. upload[u] \in StoredRequest
    BY <1>6, UploadForms DEF WriteBlobCreated
  <2>2. form' \in [Blobs -> Forms \cup {None}]
    BY <1>6, <2>1 DEF TypeOK, StoredRequest, WriteBlobCreated
  <2>3. NoQueue \in [Volumes -> 0 .. MaxQueued]
    BY MaxQueuedAssumption DEF NoQueue
  <2>4. /\ vols' \in [Blobs -> SUBSET Volumes]
        /\ pend' \in [Blobs -> [Volumes -> 0 .. MaxQueued]]
        /\ count' \in [Volumes -> Int]
    BY <1>6, <2>1, <2>3, RecordReplicaTypeOK DEF StoredRequest, WriteBlobCreated
  <2> QED
    BY <1>6, <2>2, <2>4 DEF WriteBlobCreated, TypeOK
<1> QED
  BY <1>1, <1>2, <1>3, <1>4, <1>5, <1>6 DEF UploadStep

LEMMA CommitTypeOK ==
  ASSUME TypeOK, NEW c \in Colls, NEW refs \in SUBSET Blobs, Commit(c, refs)
  PROVE  TypeOK'
<1> USE DEF bootVars, uploadVars, controllerVars
<1>1. pend' \in [Blobs -> [Volumes -> 0 .. MaxQueued]]
  BY MaxQueuedAssumption DEF Commit, TypeOK
<1>2. content' \in [Colls -> SUBSET Blobs] /\ referenced' \subseteq Blobs
  BY DEF Commit, TypeOK
<1> QED
  BY <1>1, <1>2 DEF Commit, TypeOK

\* Every nonempty set of naturals has a least element.
LEMMA MinExists ==
  ASSUME NEW S \in SUBSET Nat, S # {}
  PROVE  Min(S) \in S
<1>1. PICK m \in S : \A n \in S : <<n, m>> \notin OpToRel(<, Nat)
  BY NatLessThanWellFounded, WFMin, Zenon
<1>2. OpToRel(<, Nat) = {p \in Nat \X Nat : p[1] < p[2]}
  BY DEF OpToRel
<1>3. ASSUME NEW n \in S PROVE m <= n
  <2>1. n \in Nat /\ m \in Nat
    OBVIOUS
  <2>2. <<n, m>> \in Nat \X Nat /\ ~ (n < m)
    BY <1>1, <1>2, <2>1
  <2> QED
    BY <2>1, <2>2
<1>4. \E x \in S : \A y \in S : x <= y
  BY <1>3
<1> QED
  BY <1>4, Zenon DEF Min

\* A continue token is a blob ref or 0.
LEMMA NextTokenType ==
  ASSUME TypeOK, NEW v \in Volumes, NEW taken, NEW rest \in SUBSET Blobs
  PROVE  NextToken(v, taken, rest) \in Nat
<1>1. Blobs \subseteq Nat
  BY NumBlobsAssumption DEF Blobs
<1>2. rest # {} => Min(rest) \in Nat
  BY <1>1, MinExists
<1> QED
  BY <1>2, Zenon DEF NextToken

LEMMA ControllerTypeOK ==
  ASSUME TypeOK, NEW v \in Volumes, ControllerStep(v)
  PROVE  TypeOK'
<1> USE DEF dbVars, bootVars, uploadVars, controllerVars
<1>1. ASSUME DiscoverJobs(v)
      PROVE  TypeOK'
  <2> DEFINE index == {b \in Blobs : b >= token[v] /\ v \in Pending(b)}
             accessible == {b \in index : BestVolumes(vols[b]) # {}}
             taken == {b \in accessible :
                         Cardinality({a \in accessible : a < b}) < BatchLimit}
             rest == {b \in index : \A a \in taken : a < b}
  <2>1. PICK source \in [taken -> Volumes] :
          queued' = [queued EXCEPT
                       ![v] = {[ref |-> b, from |-> source[b]] : b \in taken}]
    BY <1>1 DEF DiscoverJobs
  <2>2. token' = [token EXCEPT ![v] = NextToken(v, taken, rest)]
    BY <1>1 DEF DiscoverJobs
  <2>3. taken \subseteq Blobs /\ rest \subseteq Blobs
    OBVIOUS
  <2> HIDE DEF taken, rest
  <2>4. queued' \in [Volumes -> SUBSET Job]
    BY <2>1, <2>3 DEF TypeOK, Job
  <2>5. token' \in [Volumes -> Nat]
    BY <2>2, <2>3, NextTokenType DEF TypeOK
  <2> QED
    BY <1>1, <2>4, <2>5 DEF DiscoverJobs, TypeOK
<1>2. ASSUME NEW j \in queued[v], LandJob(v, j)
      PROVE  TypeOK'
  <2>1. j \in Job /\ j.ref \in Blobs /\ j.from \in Volumes
    BY DEF TypeOK, Job
  <2>2. disk' \in [Volumes -> [Blobs -> Forms \cup {None}]]
    BY <1>2, <2>1 DEF LandJob, RawStored, TypeOK
  <2>3. queued' \in [Volumes -> SUBSET Job] /\ landed' \in [Volumes -> SUBSET Blobs]
    BY <1>2, <2>1 DEF LandJob, TypeOK
  <2> QED
    BY <1>2, <2>2, <2>3 DEF LandJob, TypeOK
<1>3. ASSUME NEW j \in queued[v], DropJob(v, j)
      PROVE  TypeOK'
  BY <1>3 DEF DropJob, TypeOK
<1>4. ASSUME NEW b \in landed[v], WriteBlobReplicated(v, b)
      PROVE  TypeOK'
  <2>1. b \in Blobs /\ vols[b] \subseteq Volumes /\ pend[b] \in [Volumes -> 0 .. MaxQueued]
    BY DEF TypeOK
  <2>2. landed' \in [Volumes -> SUBSET Blobs]
    BY <1>4 DEF WriteBlobReplicated, TypeOK
  <2>3. /\ vols' \in [Blobs -> SUBSET Volumes]
        /\ pend' \in [Blobs -> [Volumes -> 0 .. MaxQueued]]
        /\ count' \in [Volumes -> Int]
    <3>1. CASE v \in vols[b]
      BY <1>4, <3>1 DEF WriteBlobReplicated, TypeOK
    <3>2. CASE v \notin vols[b]
      BY <1>4, <2>1, <3>2, RecordReplicaTypeOK DEF WriteBlobReplicated
    <3> QED
      BY <3>1, <3>2
  <2> QED
    BY <1>4, <2>2, <2>3 DEF WriteBlobReplicated, TypeOK
<1> QED
  BY <1>1, <1>2, <1>3, <1>4 DEF ControllerStep

LEMMA CommandTypeOK ==
  ASSUME TypeOK, Command
  PROVE  TypeOK'
<1> USE DEF dbVars, bootVars, uploadVars, controllerVars
<1>1. ASSUME NEW from \in Volumes, NEW to \in Volumes, VolumeMigrateData(from, to)
      PROVE  TypeOK'
  <2>1. pend' \in [Blobs -> [Volumes -> 0 .. MaxQueued]]
    BY <1>1, MaxQueuedAssumption DEF VolumeMigrateData, TypeOK
  <2> QED
    BY <1>1, <2>1 DEF VolumeMigrateData, TypeOK
<1>2. ASSUME NEW cs \in SUBSET Colls, NEW v \in Volumes,
             DatabaseReconcileReplicationPolicy(cs, v)
      PROVE  TypeOK'
  <2>1. pend' \in [Blobs -> [Volumes -> 0 .. MaxQueued]]
    BY <1>2, MaxQueuedAssumption DEF DatabaseReconcileReplicationPolicy, TypeOK
  <2> QED
    BY <1>2, <2>1 DEF DatabaseReconcileReplicationPolicy, TypeOK
<1>3. ASSUME NEW v \in Volumes, VolumeRemoveQueuedReplications(v)
      PROVE  TypeOK'
  BY <1>3, UnqueueTypeOK DEF VolumeRemoveQueuedReplications, TypeOK
<1>4. ASSUME NEW v \in Volumes, NEW o \in BOOLEAN, VolumeMarkDataLost(v, o)
      PROVE  TypeOK'
  BY <1>4, UnqueueTypeOK DEF VolumeMarkDataLost, TypeOK
<1>5. ASSUME NEW v \in Volumes, VolumeDecommission(v)
      PROVE  TypeOK'
  BY <1>5 DEF VolumeDecommission, TypeOK
<1>6. ASSUME NEW p \in Policies, NEW vs \in SUBSET Volumes,
             ReplicationpolicyChangeDesiredVolumes(p, vs)
      PROVE  TypeOK'
  BY <1>6 DEF ReplicationpolicyChangeDesiredVolumes, TypeOK
<1>7. ASSUME NEW v \in Volumes, VolumeMount(v)
      PROVE  TypeOK'
  BY <1>7 DEF VolumeMount, TypeOK
<1>8. ASSUME NEW v \in Volumes, VolumeUnmount(v)
      PROVE  TypeOK'
  BY <1>8 DEF VolumeUnmount, TypeOK
<1> QED
  BY <1>1, <1>2, <1>3, <1>4, <1>5, <1>6, <1>7, <1>8 DEF Command

LEMMA BootTypeOK ==
  ASSUME TypeOK, Boot
  PROVE  TypeOK'
<1> USE DEF dbVars, Boot
<1>1. mounted' \subseteq Volumes /\ controllers' \subseteq Volumes
  BY DEF TypeOK
<1>2. token' \in [Volumes -> Nat]
  BY DEF NoQueue
<1>3. upload' \in [Uploaders -> {Idle} \cup Request \cup StoredRequest]
  OBVIOUS
<1> QED
  BY <1>1, <1>2, <1>3 DEF TypeOK

LEMMA NextTypeOK ==
  ASSUME TypeOK, [Next]_vars
  PROVE  TypeOK'
<1>1. CASE UNCHANGED vars
  BY <1>1 DEF TypeOK, vars, dbVars, bootVars, uploadVars, controllerVars
<1>2. CASE Next
  BY <1>2, UploadTypeOK, CommitTypeOK, ControllerTypeOK, CommandTypeOK, BootTypeOK
     DEF Next, ReloadConfig, Crash
<1> QED
  BY <1>1, <1>2

\* Every variable keeps its type: in particular no queue is ever decremented
\* below zero and a request's fields agree with its program counter.
THEOREM TypeCorrect == Spec => []TypeOK
  BY InitTypeOK, NextTypeOK, PTL DEF Spec

(***************************************************************************)
(* Safety of the accounting.  The invariants the runs check need each      *)
(* other: a created blob counts once because its uploader is alone with a  *)
(* ref that has no row (UploadsExclusive) and a ref without a row is       *)
(* listed nowhere (UnknownBlobsEmpty); a replicated blob counts once       *)
(* because no job is in flight for a volume that has the blob              *)
(* (NoDoubleReplication), which holds of jobs just read because a volume   *)
(* is never both written and pending (WrittenNotPending).                  *)
(***************************************************************************)
UnknownBlobsEmpty ==
  \A b \in Blobs : ~Exists(b) => /\ vols[b] = {}
                                 /\ Pending(b) = {}
                                 /\ \A c \in Colls : b \notin content[c]

StorageInv ==
  /\ TypeOK
  /\ UploadsExclusive
  /\ UnknownBlobsEmpty
  /\ WrittenNotPending
  /\ CountAccurate
  /\ NoWorkWithoutController
  /\ NoDoubleReplication

LEMMA BlobsFinite == IsFiniteSet(Blobs) /\ Blobs \subseteq Nat
<1>1. 1 \in Int /\ NumBlobs \in Int
  BY NumBlobsAssumption
<1> QED
  BY <1>1, FS_Interval DEF Blobs

\* Nothing is on, or waiting for, any volume at first.
LEMMA InitStorageInv == Init => StorageInv
<1> SUFFICES ASSUME Init PROVE StorageInv
  OBVIOUS
<1> USE DEF Init
<1>1. TypeOK
  BY InitTypeOK
<1>2. UploadsExclusive
  BY DEF UploadsExclusive, Holds, Idle
<1>3. UnknownBlobsEmpty /\ WrittenNotPending
  BY DEF UnknownBlobsEmpty, WrittenNotPending, Pending, NoQueue
<1>4. CountAccurate
  <2>1. \A v \in Volumes : {b \in Blobs : v \in vols[b]} = {}
    OBVIOUS
  <2> QED
    BY <2>1, FS_EmptySet DEF CountAccurate, NoQueue
<1>5. NoWorkWithoutController /\ NoDoubleReplication
  BY DEF NoWorkWithoutController, NoDoubleReplication, InFlight
<1> QED
  BY <1>1, <1>2, <1>3, <1>4, <1>5 DEF StorageInv

\* Recording one more replica of b counts it once.
LEMMA RecordReplicaCounts ==
  ASSUME TypeOK, CountAccurate, NEW b \in Blobs, NEW v \in Volumes, NEW queue,
         v \notin vols[b], RecordReplica(b, v, vols[b], queue)
  PROVE  CountAccurate'
<1> DEFINE on(w) == {a \in Blobs : w \in vols[a]}
<1>1. SUFFICES ASSUME NEW w \in Volumes
               PROVE  count'[w] = Cardinality({a \in Blobs : w \in vols'[a]})
  BY DEF CountAccurate
<1>2. vols' = [vols EXCEPT ![b] = vols[b] \cup {v}] /\ count' = [count EXCEPT ![v] = @ + 1]
  BY DEF RecordReplica
<1>3. count[w] = Cardinality(on(w)) /\ count[w] \in Int
  BY DEF CountAccurate, TypeOK
<1>4. CASE w # v
  <2>1. {a \in Blobs : w \in vols'[a]} = on(w)
    BY <1>2, <1>4 DEF TypeOK
  <2> QED
    BY <1>2, <1>3, <1>4, <2>1 DEF TypeOK
<1>5. CASE w = v
  <2>1. {a \in Blobs : w \in vols'[a]} = on(w) \cup {b}
    BY <1>2, <1>5 DEF TypeOK
  <2>2. IsFiniteSet(on(w)) /\ b \notin on(w)
    BY <1>5, BlobsFinite, FS_Subset
  <2>3. Cardinality(on(w) \cup {b}) = Cardinality(on(w)) + 1
    <3> HIDE DEF on
    <3> QED
      BY <2>2, FS_AddElement
  <2>4. count'[w] = count[w] + 1
    BY <1>2, <1>5 DEF TypeOK
  <2> QED
    BY <1>3, <2>1, <2>3, <2>4
<1> QED
  BY <1>4, <1>5

\* It leaves the other blobs alone, and takes its volume off b's queue.
LEMMA RecordReplicaSets ==
  ASSUME TypeOK, NEW b \in Blobs, NEW v \in Volumes,
         NEW on \in SUBSET Volumes, NEW queue \in [Volumes -> 0 .. MaxQueued],
         RecordReplica(b, v, on, queue)
  PROVE  /\ \A a \in Blobs \ {b} : vols'[a] = vols[a] /\ pend'[a] = pend[a]
         /\ vols'[b] = on \cup {v}
         /\ \A w \in Volumes : pend'[b][w] > 0 => w # v /\ queue[w] > 0
BY DEF TypeOK, RecordReplica

\* Steps that only change what uploads are doing disturb UploadsExclusive at
\* most.
LEMMA DatabaseUnchanged ==
  ASSUME StorageInv, TypeOK', UNCHANGED <<dbVars, controllers, controllerVars>>
  PROVE  UploadsExclusive' => StorageInv'
<1> USE DEF dbVars, controllerVars
<1>1. UnknownBlobsEmpty' /\ WrittenNotPending'
  BY DEF StorageInv, UnknownBlobsEmpty, WrittenNotPending, Pending, Exists
<1>2. CountAccurate'
  BY DEF StorageInv, CountAccurate
<1>3. NoWorkWithoutController' /\ NoDoubleReplication'
  BY DEF StorageInv, NoWorkWithoutController, NoDoubleReplication, InFlight, Exists
<1> QED
  BY <1>1, <1>2, <1>3 DEF StorageInv

\* What WriteBlobCreated finds: its ref has no row, so no volume lists it, no
\* queue waits for it and no job is in flight for it.
LEMMA CreatedIsNew ==
  ASSUME StorageInv, NEW u \in Uploaders, upload[u].pc = "stored"
  PROVE  /\ upload[u] \in StoredRequest
         /\ upload[u].ref \in Blobs /\ upload[u].vol \in Volumes
         /\ upload[u].form \in Forms
         /\ vols[upload[u].ref] = {}
         /\ ~Exists(upload[u].ref)
         /\ \A v \in Volumes : upload[u].ref \notin InFlight(v)
<1>1. upload[u] \in StoredRequest
  BY UploadForms DEF StorageInv
<1>2. ~Exists(upload[u].ref)
  BY DEF StorageInv, UploadsExclusive, Holds
<1> QED
  BY <1>1, <1>2 DEF StorageInv, StoredRequest, UnknownBlobsEmpty, NoDoubleReplication

LEMMA WriteBlobCreatedSafe ==
  ASSUME StorageInv, NEW u \in Uploaders, WriteBlobCreated(u), TypeOK'
  PROVE  StorageInv'
<1> USE DEF bootVars, controllerVars
<1>1. PICK b \in Blobs, v \in Volumes, f \in Forms :
        /\ upload[u].ref = b /\ upload[u].vol = v /\ upload[u].form = f
        /\ vols[b] = {} /\ ~Exists(b)
        /\ \A w \in Volumes : b \notin InFlight(w)
  BY CreatedIsNew DEF WriteBlobCreated
<1>2. TypeOK /\ NoQueue \in [Volumes -> 0 .. MaxQueued]
  BY MaxQueuedAssumption DEF StorageInv, NoQueue
<1>3. RecordReplica(b, v, vols[b], NoQueue)
  BY <1>1 DEF WriteBlobCreated
<1>4. /\ \A a \in Blobs \ {b} : vols'[a] = vols[a] /\ pend'[a] = pend[a]
      /\ vols'[b] = {v}
      /\ \A w \in Volumes : ~(pend'[b][w] > 0)
  <2>1. \A w \in Volumes : ~(NoQueue[w] > 0)
    BY DEF NoQueue
  <2>2. vols[b] \in SUBSET Volumes
    BY <1>1
  <2> QED
    BY <1>1, <1>2, <1>3, <2>1, <2>2, RecordReplicaSets
<1>5. form' = [form EXCEPT ![b] = f]
  BY <1>1 DEF WriteBlobCreated
<1>6. Exists(b)' /\ (\A a \in Blobs \ {b} : form'[a] = form[a])
  BY <1>1, <1>2, <1>5, NoneAssumption DEF Exists, TypeOK
<1>7. UploadsExclusive'
  <2> SUFFICES ASSUME NEW w \in Uploaders, Holds(w)'
               PROVE  /\ upload'[w].ref \in writing'
                      /\ ~Exists(upload[w].ref)'
                      /\ \A x \in Uploaders \ {w} :
                           Holds(x)' => upload'[x].ref # upload'[w].ref
    BY DEF UploadsExclusive
  <2>1. upload' = [upload EXCEPT ![u] = Idle] /\ writing' = writing \ {b}
    BY <1>1 DEF WriteBlobCreated
  <2>2. \A x \in Uploaders : Holds(x)' => x # u /\ Holds(x) /\ upload'[x] = upload[x]
    BY <1>2, <2>1 DEF Holds, Idle, TypeOK
  <2>3. Holds(u)
    BY DEF WriteBlobCreated, Holds
  <2>4. upload[w].ref # b /\ upload[w].ref \in writing
    BY <1>1, <2>2, <2>3 DEF StorageInv, UploadsExclusive
  <2>5. upload[w].ref \in Blobs
    BY <2>2, <1>2, UploadForms DEF Holds, Request, StoredRequest
  <2> QED
    BY <1>6, <2>1, <2>2, <2>4, <2>5 DEF StorageInv, UploadsExclusive, Exists
<1>8. UnknownBlobsEmpty'
  BY <1>4, <1>6 DEF WriteBlobCreated, StorageInv, UnknownBlobsEmpty, Pending, Exists
<1>9. WrittenNotPending'
  BY <1>4 DEF StorageInv, WrittenNotPending, Pending
<1>10. CountAccurate'
  BY <1>1, <1>2, <1>3, RecordReplicaCounts DEF StorageInv
<1>11. NoWorkWithoutController'
  BY DEF WriteBlobCreated, StorageInv, NoWorkWithoutController, InFlight
<1>12. NoDoubleReplication'
  <2>1. \A w \in Volumes : InFlight(w)' = InFlight(w) /\ InFlight(w) \subseteq Blobs
    BY <1>2 DEF WriteBlobCreated, InFlight, TypeOK, Job
  <2>2. \A w \in Volumes : \A a \in InFlight(w) : w \notin vols'[a] /\ Exists(a)'
    BY <1>1, <1>4, <1>6, <2>1 DEF StorageInv, NoDoubleReplication, Exists
  <2> QED
    BY <2>1, <2>2 DEF WriteBlobCreated, StorageInv, NoDoubleReplication
<1> QED
  BY <1>7, <1>8, <1>9, <1>10, <1>11, <1>12 DEF StorageInv

LEMMA UploadSafe ==
  ASSUME StorageInv, NEW u \in Uploaders, UploadStep(u), TypeOK'
  PROVE  StorageInv'
<1> USE DEF bootVars, controllerVars
<1>1. TypeOK /\ UploadsExclusive
  BY DEF StorageInv
<1>2. ASSUME NEW b \in Blobs, NEW c \in Colls, ChooseVolume(u, b, c)
      PROVE  StorageInv'
  <2>1. UploadsExclusive'
    BY <1>1, <1>2 DEF ChooseVolume, UploadsExclusive, Holds, TypeOK, Exists, dbVars
  <2> QED
    BY <1>2, <2>1, DatabaseUnchanged DEF ChooseVolume
<1>3. ASSUME TryLock(u)
      PROVE  StorageInv'
  <2>1. /\ upload' = [upload EXCEPT ![u].pc = "locked"]
        /\ writing' = writing \cup {upload[u].ref}
        /\ upload[u].ref \notin writing /\ ~Exists(upload[u].ref)
        /\ form' = form
    BY <1>3 DEF TryLock, MayWrite, dbVars
  <2>2. upload'[u].ref = upload[u].ref
    BY <1>1, <1>3, <2>1, UploadForms DEF TypeOK, Request, TryLock
  <2>3. \A w \in Uploaders \ {u} : upload'[w] = upload[w]
    BY <1>1, <2>1 DEF TypeOK
  <2>4. UploadsExclusive'
    BY <1>1, <2>1, <2>2, <2>3 DEF UploadsExclusive, Holds, Exists
  <2> QED
    BY <1>3, <2>4, DatabaseUnchanged DEF TryLock
<1>4. ASSUME RefuseUpload(u)
      PROVE  StorageInv'
  <2>1. UploadsExclusive'
    BY <1>1, <1>4 DEF RefuseUpload, UploadsExclusive, Holds, TypeOK, Exists, dbVars, Idle
  <2> QED
    BY <1>4, <2>1, DatabaseUnchanged DEF RefuseUpload
<1>5. ASSUME NEW hint \in Hints, StoreUpload(u, hint)
      PROVE  StorageInv'
  <2>1. /\ \A w \in Uploaders \ {u} : upload'[w] = upload[w]
        /\ upload'[u].ref = upload[u].ref
        /\ Holds(u)
        /\ form' = form /\ writing' = writing
    BY <1>1, <1>5 DEF StoreUpload, TypeOK, Holds, dbVars
  <2>2. UploadsExclusive'
    BY <1>1, <2>1 DEF UploadsExclusive, Holds, Exists
  <2> QED
    BY <1>5, <2>2, DatabaseUnchanged DEF StoreUpload
<1>6. ASSUME FailUpload(u)
      PROVE  StorageInv'
  <2>1. /\ \A w \in Uploaders \ {u} : upload'[w] = upload[w]
        /\ upload'[u] = Idle
        /\ Holds(u)
        /\ form' = form /\ writing' = writing \ {upload[u].ref}
    BY <1>1, <1>6 DEF FailUpload, TypeOK, Holds, dbVars
  <2>2. UploadsExclusive'
    BY <1>1, <2>1 DEF UploadsExclusive, Holds, Exists, Idle
  <2> QED
    BY <1>6, <2>2, DatabaseUnchanged DEF FailUpload
<1>7. ASSUME WriteBlobCreated(u)
      PROVE  StorageInv'
  BY <1>7, WriteBlobCreatedSafe
<1> QED
  BY <1>2, <1>3, <1>4, <1>5, <1>6, <1>7 DEF UploadStep

LEMMA CommitSafe ==
  ASSUME StorageInv, NEW c \in Colls, NEW refs \in SUBSET Blobs, Commit(c, refs),
         TypeOK'
  PROVE  StorageInv'
<1> USE DEF bootVars, uploadVars, controllerVars
<1>1. TypeOK /\ form' = form /\ vols' = vols /\ count' = count
  BY DEF StorageInv, Commit
<1>2. UploadsExclusive'
  BY <1>1 DEF Commit, StorageInv, UploadsExclusive, Holds, Exists
<1>3. \A b \in Blobs \ refs : pend'[b] = pend[b]
  BY DEF Commit
<1>4. \A b \in refs : Exists(b) /\ \A v \in Volumes : pend'[b][v] > 0 => v \notin vols[b]
  BY DEF Commit
<1>5. \A d \in Colls : content'[d] \subseteq content[d] \cup refs
  BY <1>1 DEF Commit, TypeOK
<1>6. UnknownBlobsEmpty'
  BY <1>1, <1>3, <1>4, <1>5 DEF StorageInv, UnknownBlobsEmpty, Pending, Exists
<1>7. WrittenNotPending'
  BY <1>1, <1>3, <1>4 DEF StorageInv, WrittenNotPending, Pending
<1>8. CountAccurate'
  BY <1>1 DEF StorageInv, CountAccurate
<1>9. NoWorkWithoutController' /\ NoDoubleReplication'
  BY <1>1 DEF Commit, StorageInv, NoWorkWithoutController, NoDoubleReplication,
              InFlight, Exists
<1> QED
  BY <1>2, <1>6, <1>7, <1>8, <1>9 DEF StorageInv

\* Steps of a controller that leave the database alone need only keep the
\* jobs in flight distinct and new.
LEMMA OnlyJobsChange ==
  ASSUME StorageInv, TypeOK', UNCHANGED <<dbVars, bootVars, uploadVars>>
  PROVE  NoWorkWithoutController' /\ NoDoubleReplication' => StorageInv'
<1> USE DEF dbVars, bootVars, uploadVars
<1>1. UploadsExclusive'
  BY DEF StorageInv, UploadsExclusive, Holds, Exists
<1>2. UnknownBlobsEmpty' /\ WrittenNotPending'
  BY DEF StorageInv, UnknownBlobsEmpty, WrittenNotPending, Pending, Exists
<1>3. CountAccurate'
  BY DEF StorageInv, CountAccurate
<1> QED
  BY <1>1, <1>2, <1>3 DEF StorageInv

LEMMA DiscoverJobsSafe ==
  ASSUME StorageInv, NEW v \in Volumes, DiscoverJobs(v), TypeOK'
  PROVE  StorageInv'
<1> DEFINE index == {b \in Blobs : b >= token[v] /\ v \in Pending(b)}
           accessible == {b \in index : BestVolumes(vols[b]) # {}}
           taken == {b \in accessible :
                       Cardinality({a \in accessible : a < b}) < BatchLimit}
<1>1. PICK source \in [taken -> Volumes] :
        queued' = [queued EXCEPT
                     ![v] = {[ref |-> b, from |-> source[b]] : b \in taken}]
  BY DEF DiscoverJobs
<1>2. /\ v \in controllers /\ InFlight(v) = {} /\ landed' = landed
      /\ UNCHANGED <<dbVars, bootVars, uploadVars>>
  BY DEF DiscoverJobs
<1>3. \A b \in taken : b \in Blobs /\ v \in Pending(b)
  OBVIOUS
<1> HIDE DEF taken
<1>4. \A b \in taken : v \notin vols[b] /\ Exists(b)
  BY <1>3 DEF StorageInv, WrittenNotPending, UnknownBlobsEmpty
<1>5. /\ queued'[v] = {[ref |-> b, from |-> source[b]] : b \in taken}
      /\ landed'[v] = {}
      /\ \A w \in Volumes \ {v} : queued'[w] = queued[w] /\ landed'[w] = landed[w]
  BY <1>1, <1>2 DEF StorageInv, TypeOK, InFlight
<1>6. NoWorkWithoutController'
  BY <1>2, <1>5 DEF StorageInv, NoWorkWithoutController, InFlight, bootVars
<1>7. /\ \A b \in InFlight(v)' : b \in taken
      /\ \A w \in Volumes \ {v} : InFlight(w)' = InFlight(w)
  BY <1>5 DEF InFlight
<1>8. form' = form /\ vols' = vols
  BY <1>2 DEF dbVars
<1>9. NoDoubleReplication'
  <2> SUFFICES ASSUME NEW w \in Volumes
               PROVE  /\ \A b \in InFlight(w)' : w \notin vols[b] /\ Exists(b)
                      /\ \A j, k \in queued'[w] : j.ref = k.ref => j = k
                      /\ {j.ref : j \in queued'[w]} \cap landed'[w] = {}
    BY <1>8 DEF NoDoubleReplication, Exists
  <2>1. CASE w = v
    <3>1. \A b \in InFlight(w)' : w \notin vols[b] /\ Exists(b)
      BY <1>4, <1>7, <2>1
    <3> QED
      BY <1>5, <2>1, <3>1
  <2>2. CASE w # v
    BY <1>5, <1>7, <2>2 DEF StorageInv, NoDoubleReplication
  <2> QED
    BY <2>1, <2>2
<1> QED
  BY <1>2, <1>6, <1>9, OnlyJobsChange

LEMMA LandJobSafe ==
  ASSUME StorageInv, NEW v \in Volumes, NEW j \in queued[v], LandJob(v, j), TypeOK'
  PROVE  StorageInv'
<1>1. /\ queued'[v] = queued[v] \ {j}
      /\ landed'[v] = landed[v] \cup {j.ref}
      /\ \A w \in Volumes \ {v} : queued'[w] = queued[w] /\ landed'[w] = landed[w]
      /\ UNCHANGED <<dbVars, bootVars, uploadVars>>
  BY DEF LandJob, StorageInv, TypeOK
<1>2. /\ InFlight(v)' = InFlight(v)
      /\ \A w \in Volumes \ {v} : InFlight(w)' = InFlight(w)
  BY <1>1 DEF InFlight
<1>3. NoWorkWithoutController'
  BY <1>1, <1>2 DEF StorageInv, NoWorkWithoutController, bootVars
<1>4. form' = form /\ vols' = vols
  BY <1>1 DEF dbVars
<1>5. \A w \in Volumes : \A b \in InFlight(w) : w \notin vols[b] /\ Exists(b)
  BY DEF StorageInv, NoDoubleReplication
<1>6. \A w \in Volumes : \A b \in InFlight(w)' : w \notin vols[b] /\ Exists(b)
  BY <1>2, <1>5
<1>7. \A w \in Volumes : \A k, l \in queued'[w] : k.ref = l.ref => k = l
  BY <1>1 DEF StorageInv, NoDoubleReplication
<1>8. \A w \in Volumes : {k.ref : k \in queued'[w]} \cap landed'[w] = {}
  BY <1>1 DEF StorageInv, NoDoubleReplication
<1>9. NoDoubleReplication'
  BY <1>4, <1>6, <1>7, <1>8 DEF NoDoubleReplication, Exists
<1> QED
  BY <1>1, <1>3, <1>9, OnlyJobsChange

LEMMA DropJobSafe ==
  ASSUME StorageInv, NEW v \in Volumes, NEW j \in queued[v], DropJob(v, j), TypeOK'
  PROVE  StorageInv'
<1>1. /\ \A w \in Volumes : queued'[w] \subseteq queued[w] /\ landed'[w] = landed[w]
      /\ UNCHANGED <<dbVars, bootVars, uploadVars>>
  BY DEF DropJob, StorageInv, TypeOK
<1>2. \A w \in Volumes : InFlight(w)' \subseteq InFlight(w)
  BY <1>1 DEF InFlight
<1>3. NoWorkWithoutController'
  BY <1>1, <1>2 DEF StorageInv, NoWorkWithoutController, bootVars
<1>4. form' = form /\ vols' = vols
  BY <1>1 DEF dbVars
<1>5. \A w \in Volumes : \A b \in InFlight(w)' : w \notin vols[b] /\ Exists(b)
  BY <1>2 DEF StorageInv, NoDoubleReplication
<1>6. NoDoubleReplication'
  BY <1>1, <1>4, <1>5 DEF StorageInv, NoDoubleReplication, Exists
<1> QED
  BY <1>1, <1>3, <1>6, OnlyJobsChange

LEMMA WriteBlobReplicatedSafe ==
  ASSUME StorageInv, NEW v \in Volumes, NEW b \in landed[v],
         WriteBlobReplicated(v, b), TypeOK'
  PROVE  StorageInv'
<1> USE DEF bootVars, uploadVars
<1>1. TypeOK /\ b \in Blobs /\ vols[b] \in SUBSET Volumes
             /\ pend[b] \in [Volumes -> 0 .. MaxQueued]
  BY DEF StorageInv, TypeOK
<1>2. v \notin vols[b] /\ Exists(b) /\ \A j \in queued[v] : j.ref # b
  BY DEF StorageInv, NoDoubleReplication, InFlight
<1>3. RecordReplica(b, v, vols[b], pend[b])
  BY <1>2 DEF WriteBlobReplicated
<1>4. /\ \A a \in Blobs \ {b} : vols'[a] = vols[a] /\ pend'[a] = pend[a]
      /\ vols'[b] = vols[b] \cup {v}
      /\ \A w \in Volumes : pend'[b][w] > 0 => w # v /\ pend[b][w] > 0
  BY <1>1, <1>3, RecordReplicaSets
<1>5. /\ landed'[v] = landed[v] \ {b} /\ queued' = queued
      /\ \A w \in Volumes \ {v} : landed'[w] = landed[w]
      /\ form' = form /\ content' = content /\ controllers' = controllers
  BY <1>1 DEF WriteBlobReplicated, TypeOK
<1>6. UploadsExclusive'
  BY <1>5 DEF WriteBlobReplicated, StorageInv, UploadsExclusive, Holds, Exists
<1>7. UnknownBlobsEmpty'
  BY <1>2, <1>4, <1>5 DEF StorageInv, UnknownBlobsEmpty, Pending, Exists
<1>8. WrittenNotPending'
  BY <1>4 DEF StorageInv, WrittenNotPending, Pending
<1>9. CountAccurate'
  BY <1>1, <1>2, <1>3, RecordReplicaCounts DEF StorageInv
<1>10. /\ b \notin InFlight(v)'
       /\ \A w \in Volumes : InFlight(w)' \subseteq InFlight(w) /\ InFlight(w) \subseteq Blobs
  <2>1. b \notin InFlight(v)'
    BY <1>2, <1>5 DEF InFlight
  <2>2. \A w \in Volumes : landed'[w] \subseteq landed[w]
    BY <1>5
  <2>3. \A w \in Volumes : InFlight(w)' \subseteq InFlight(w)
    BY <1>5, <2>2 DEF InFlight
  <2>4. \A w \in Volumes : InFlight(w) \subseteq Blobs
    BY <1>1 DEF InFlight, TypeOK, Job
  <2> QED
    BY <2>1, <2>3, <2>4
<1>11. NoWorkWithoutController'
  BY <1>5, <1>10 DEF StorageInv, NoWorkWithoutController
<1>12. \A w \in Volumes : \A a \in InFlight(w)' : w \notin vols'[a] /\ Exists(a)'
  BY <1>4, <1>5, <1>10 DEF StorageInv, NoDoubleReplication, Exists
<1>13. \A w \in Volumes : /\ \A j, k \in queued'[w] : j.ref = k.ref => j = k
                          /\ {j.ref : j \in queued'[w]} \cap landed'[w] = {}
  BY <1>5 DEF StorageInv, NoDoubleReplication
<1>14. NoDoubleReplication'
  BY <1>12, <1>13 DEF NoDoubleReplication
<1> QED
  BY <1>6, <1>7, <1>8, <1>9, <1>11, <1>14 DEF StorageInv

LEMMA ControllerSafe ==
  ASSUME StorageInv, NEW v \in Volumes, ControllerStep(v), TypeOK'
  PROVE  StorageInv'
BY DiscoverJobsSafe, LandJobSafe, DropJobSafe, WriteBlobReplicatedSafe
   DEF ControllerStep

\* Commands that queue or cancel replications: what is queued afterwards is
\* for a known blob the volume does not have.
LEMMA OnlyQueueChanges ==
  ASSUME StorageInv, TypeOK',
         UNCHANGED <<form, vols, content, count, controllers, uploadVars, controllerVars>>,
         \A b \in Blobs, v \in Volumes :
           pend'[b][v] > 0 => pend[b][v] > 0 \/ (v \notin vols[b] /\ Exists(b))
  PROVE  StorageInv'
<1> USE DEF uploadVars, controllerVars
<1>1. UploadsExclusive'
  BY DEF StorageInv, UploadsExclusive, Holds, Exists
<1>2. UnknownBlobsEmpty'
  BY DEF StorageInv, UnknownBlobsEmpty, Pending, Exists
<1>3. WrittenNotPending'
  BY DEF StorageInv, WrittenNotPending, Pending
<1>4. CountAccurate'
  BY DEF StorageInv, CountAccurate
<1>5. NoWorkWithoutController' /\ NoDoubleReplication'
  BY DEF StorageInv, NoWorkWithoutController, NoDoubleReplication, InFlight, Exists
<1> QED
  BY <1>1, <1>2, <1>3, <1>4, <1>5 DEF StorageInv

LEMMA VolumeMarkDataLostSafe ==
  ASSUME StorageInv, NEW v \in Volumes, NEW o \in BOOLEAN,
         VolumeMarkDataLost(v, o), TypeOK'
  PROVE  StorageInv'
<1> USE DEF bootVars, uploadVars, controllerVars
<1>1. /\ \A b \in Blobs : vols'[b] = vols[b] \ {v}
      /\ \A b \in Blobs, w \in Volumes : pend'[b][w] > 0 => pend[b][w] > 0
      /\ form' = form /\ content' = content
  <2>1. TypeOK
    BY DEF StorageInv
  <2> QED
    BY <2>1 DEF VolumeMarkDataLost, Unqueue, TypeOK
<1>2. UploadsExclusive'
  BY <1>1 DEF VolumeMarkDataLost, StorageInv, UploadsExclusive, Holds, Exists
<1>3. UnknownBlobsEmpty'
  BY <1>1 DEF StorageInv, UnknownBlobsEmpty, Pending, Exists
<1>4. WrittenNotPending'
  BY <1>1 DEF StorageInv, WrittenNotPending, Pending
<1>5. CountAccurate'
  <2>1. count' = [count EXCEPT ![v] = 0] /\ count \in [Volumes -> Int]
    BY DEF VolumeMarkDataLost, StorageInv, TypeOK
  <2>2. {b \in Blobs : v \in vols'[b]} = {}
    BY <1>1
  <2>3. \A w \in Volumes \ {v} :
          {b \in Blobs : w \in vols'[b]} = {b \in Blobs : w \in vols[b]}
    BY <1>1
  <2>4. count'[v] = Cardinality({b \in Blobs : v \in vols'[b]})
    BY <2>1, <2>2, FS_EmptySet
  <2>5. \A w \in Volumes \ {v} : count'[w] = Cardinality({b \in Blobs : w \in vols'[b]})
    BY <2>1, <2>3 DEF StorageInv, CountAccurate
  <2> QED
    BY <2>4, <2>5 DEF CountAccurate
<1>6. NoWorkWithoutController' /\ NoDoubleReplication'
  <2>1. \A w \in Volumes : InFlight(w)' = InFlight(w) /\ InFlight(w) \subseteq Blobs
    BY DEF VolumeMarkDataLost, StorageInv, InFlight, TypeOK, Job
  <2> QED
    BY <1>1, <2>1 DEF VolumeMarkDataLost, StorageInv, NoWorkWithoutController,
                      NoDoubleReplication, Exists
<1> QED
  BY <1>2, <1>3, <1>4, <1>5, <1>6 DEF StorageInv

LEMMA CommandSafe ==
  ASSUME StorageInv, Command, TypeOK'
  PROVE  StorageInv'
<1> USE DEF bootVars
<1>1. ASSUME NEW from \in Volumes, NEW to \in Volumes, VolumeMigrateData(from, to)
      PROVE  StorageInv'
  <2>1. \A b \in Blobs, v \in Volumes :
          pend'[b][v] > 0 => pend[b][v] > 0 \/ (v \notin vols[b] /\ Exists(b))
    BY <1>1 DEF VolumeMigrateData, Moves, StorageInv, TypeOK, UnknownBlobsEmpty
  <2> QED
    BY <1>1, <2>1, OnlyQueueChanges DEF VolumeMigrateData
<1>2. ASSUME NEW cs \in SUBSET Colls, NEW target \in Volumes,
             DatabaseReconcileReplicationPolicy(cs, target)
      PROVE  StorageInv'
  <2>1. \A b \in Blobs, v \in Volumes :
          pend'[b][v] > 0 => pend[b][v] > 0 \/ (v \notin vols[b] /\ Exists(b))
    BY <1>2 DEF DatabaseReconcileReplicationPolicy, StorageInv, TypeOK, UnknownBlobsEmpty
  <2> QED
    BY <1>2, <2>1, OnlyQueueChanges DEF DatabaseReconcileReplicationPolicy
<1>3. ASSUME NEW v \in Volumes, VolumeRemoveQueuedReplications(v)
      PROVE  StorageInv'
  <2>1. \A b \in Blobs, w \in Volumes :
          pend'[b][w] > 0 => pend[b][w] > 0 \/ (w \notin vols[b] /\ Exists(b))
    BY <1>3 DEF VolumeRemoveQueuedReplications, Unqueue, StorageInv, TypeOK
  <2> QED
    BY <1>3, <2>1, OnlyQueueChanges DEF VolumeRemoveQueuedReplications
<1>4. ASSUME NEW v \in Volumes, NEW o \in BOOLEAN, VolumeMarkDataLost(v, o)
      PROVE  StorageInv'
  BY <1>4, VolumeMarkDataLostSafe
<1>5. ASSUME NEW v \in Volumes, VolumeDecommission(v)
      PROVE  StorageInv'
  BY <1>5, OnlyQueueChanges DEF VolumeDecommission
<1>6. ASSUME NEW p \in Policies, NEW vs \in SUBSET Volumes,
             ReplicationpolicyChangeDesiredVolumes(p, vs)
      PROVE  StorageInv'
  BY <1>6, OnlyQueueChanges DEF ReplicationpolicyChangeDesiredVolumes
<1>7. ASSUME NEW v \in Volumes, VolumeMount(v) \/ VolumeUnmount(v)
      PROVE  StorageInv'
  BY <1>7, OnlyQueueChanges DEF VolumeMount, VolumeUnmount
<1> QED
  BY <1>1, <1>2, <1>3, <1>4, <1>5, <1>6, <1>7 DEF Command

LEMMA BootSafe ==
  ASSUME StorageInv, Boot, TypeOK'
  PROVE  StorageInv'
<1> USE DEF Boot, dbVars
<1>1. UploadsExclusive'
  BY DEF UploadsExclusive, Holds, Idle
<1>2. UnknownBlobsEmpty' /\ WrittenNotPending'
  BY DEF StorageInv, UnknownBlobsEmpty, WrittenNotPending, Pending, Exists
<1>3. CountAccurate'
  BY DEF StorageInv, CountAccurate
<1>4. NoWorkWithoutController' /\ NoDoubleReplication'
  BY DEF NoWorkWithoutController, NoDoubleReplication, InFlight
<1> QED
  BY <1>1, <1>2, <1>3, <1>4 DEF StorageInv

LEMMA NextSafe ==
  ASSUME StorageInv, [Next]_vars
  PROVE  StorageInv'
<1>1. TypeOK'
  BY NextTypeOK DEF StorageInv
<1>2. CASE UNCHANGED vars
  BY <1>1, <1>2, OnlyQueueChanges DEF vars, dbVars, bootVars
<1>3. CASE Next
  BY <1>1, <1>3, UploadSafe, CommitSafe, ControllerSafe, CommandSafe, BootSafe
     DEF Next, ReloadConfig, Crash
<1> QED
  BY <1>2, <1>3

THEOREM StorageInvariant == Spec => []StorageInv
  BY InitStorageInv, NextSafe, PTL DEF Spec

\* Volume.BlobCount is exact, however uploads, replications, purges, commits,
\* restarts and crashes interleave.
THEOREM AccountingExact == Spec => []CountAccurate
  BY StorageInvariant, PTL DEF StorageInv

\* No volume is both in a blob's Volumes and in its VolumesPendingReplication.
THEOREM WrittenLeavesQueue == Spec => []WrittenNotPending
  BY StorageInvariant, PTL DEF StorageInv

\* Two requests never create the same blob, so WriteBlobCreated never
\* overwrites a row.
THEOREM UploadsNeverCollide == Spec => []UploadsExclusive
  BY StorageInvariant, PTL DEF StorageInv

\* The race writeBlobReplicatedInternal guards against is never met.
THEOREM ReplicatesOnce == Spec => []NoDoubleReplication
  BY StorageInvariant, PTL DEF StorageInv

\* Only volumes with a replication controller have jobs in flight.
THEOREM IdleWithoutController == Spec => []NoWorkWithoutController
  BY StorageInvariant, PTL DEF StorageInv

(***************************************************************************)
(* What commands and commits do to copies and queues.                      *)
(***************************************************************************)
LEMMA LastCopyGuardedStep ==
  ASSUME StorageInv, LastCopyGuarded, [Next]_vars, "mark_lost" \notin Commands
  PROVE  LastCopyGuarded'
<1> USE DEF dbVars, LastCopyGuarded, Exists
<1>1. TypeOK
  BY DEF StorageInv
<1>2. ASSUME form' = form, \A b \in Blobs : vols[b] \subseteq vols'[b]
      PROVE  LastCopyGuarded'
  BY <1>2
<1>3. ASSUME NEW u \in Uploaders, UploadStep(u)
      PROVE  LastCopyGuarded'
  <2>1. CASE WriteBlobCreated(u)
    <3> DEFINE r == upload[u]
    <3>1. r.ref \in Blobs /\ r.vol \in Volumes
      BY <2>1, CreatedIsNew DEF WriteBlobCreated
    <3>2. form' = [form EXCEPT ![r.ref] = r.form] /\ vols' = [vols EXCEPT ![r.ref] = {r.vol}]
      BY <2>1 DEF WriteBlobCreated, RecordReplica
    <3>3. \A b \in Blobs \ {r.ref} : form'[b] = form[b] /\ vols'[b] = vols[b]
      BY <1>1, <3>1, <3>2 DEF TypeOK
    <3>4. vols'[r.ref] # {}
      BY <1>1, <3>1, <3>2 DEF TypeOK
    <3> QED
      BY <3>3, <3>4
  <2>2. CASE form' = form /\ vols' = vols
    BY <1>2, <2>2
  <2> QED
    BY <1>3, <2>1, <2>2
       DEF UploadStep, ChooseVolume, TryLock, RefuseUpload, StoreUpload, FailUpload
<1>4. ASSUME NEW c \in Colls, NEW refs \in SUBSET Blobs, Commit(c, refs)
      PROVE  LastCopyGuarded'
  BY <1>2, <1>4 DEF Commit
<1>5. ASSUME NEW v \in Volumes, ControllerStep(v)
      PROVE  LastCopyGuarded'
  <2>1. ASSUME NEW b \in landed[v], WriteBlobReplicated(v, b)
        PROVE  LastCopyGuarded'
    <3>1. vols' = vols \/ vols' = [vols EXCEPT ![b] = vols[b] \cup {v}]
      BY <2>1 DEF WriteBlobReplicated, RecordReplica
    <3>2. \A a \in Blobs : vols[a] \subseteq vols'[a]
      BY <1>1, <3>1 DEF TypeOK
    <3> QED
      BY <1>2, <2>1, <3>2 DEF WriteBlobReplicated
  <2>2. CASE form' = form /\ vols' = vols
    BY <1>2, <2>2
  <2> QED
    BY <1>5, <2>1, <2>2 DEF ControllerStep, DiscoverJobs, LandJob, DropJob
<1>6. ASSUME Command
      PROVE  LastCopyGuarded'
  <2>1. ASSUME NEW v \in Volumes, NEW o \in BOOLEAN, VolumeMarkDataLost(v, o)
        PROVE  LastCopyGuarded'
    <3>1. o = TRUE
      BY <2>1 DEF VolumeMarkDataLost
    <3>2. ~LosesLastCopy(v) /\ form' = form /\ vols' = [b \in Blobs |-> vols[b] \ {v}]
      BY <2>1, <3>1 DEF VolumeMarkDataLost
    <3>3. ASSUME NEW b \in Blobs, Exists(b)
          PROVE  vols[b] \ {v} # {}
      BY <3>2, <3>3 DEF LosesLastCopy
    <3> QED
      BY <3>2, <3>3
  <2>2. CASE form' = form /\ vols' = vols
    BY <1>2, <2>2
  <2> QED
    BY <1>6, <2>1, <2>2
       DEF Command, VolumeMigrateData, DatabaseReconcileReplicationPolicy,
           VolumeRemoveQueuedReplications, VolumeDecommission,
           ReplicationpolicyChangeDesiredVolumes, VolumeMount, VolumeUnmount
<1>7. ASSUME Boot
      PROVE  LastCopyGuarded'
  BY <1>2, <1>7 DEF Boot
<1>8. CASE UNCHANGED vars
  BY <1>2, <1>8 DEF vars
<1> QED
  BY <1>3, <1>4, <1>5, <1>6, <1>7, <1>8 DEF Next, ReloadConfig, Crash

\* Where operators mark data lost only with OnlyIfRedundancy, every blob the
\* server knows keeps a recorded copy.
THEOREM LastCopyIsGuarded ==
  ASSUME "mark_lost" \notin Commands
  PROVE  Spec => []LastCopyGuarded
<1>1. Init => LastCopyGuarded
  BY DEF Init, LastCopyGuarded, Exists
<1>2. StorageInv /\ LastCopyGuarded /\ [Next]_vars => LastCopyGuarded'
  BY LastCopyGuardedStep
<1> QED
  BY <1>1, <1>2, StorageInvariant, PTL DEF Spec

\* A queued replication that is gone has become a replica, or was cancelled,
\* or its blob was committed.
Explained(b, v) ==
  \/ v \in vols'[b]
  \/ Cancels(v)
  \/ \E c \in Colls, refs \in SUBSET Blobs : b \in refs /\ Commit(c, refs)

LEMMA QueueStep ==
  ASSUME StorageInv, [Next]_vars, NEW b \in Blobs, NEW v \in Volumes,
         pend[b][v] > 0, ~(pend'[b][v] > 0)
  PROVE  Explained(b, v)
<1> USE DEF dbVars
<1>1. TypeOK
  BY DEF StorageInv
<1>2. pend' # pend
  OBVIOUS
<1>3. Next
  BY <1>2 DEF vars
<1>4. ASSUME NEW u \in Uploaders, UploadStep(u)
      PROVE  FALSE
  <2>1. WriteBlobCreated(u)
    BY <1>2, <1>4
       DEF UploadStep, ChooseVolume, TryLock, RefuseUpload, StoreUpload, FailUpload
  <2>2. upload[u].ref \in Blobs /\ ~Exists(upload[u].ref)
    BY <2>1, CreatedIsNew DEF WriteBlobCreated
  <2>3. ~(pend[upload[u].ref][v] > 0)
    BY <2>2 DEF StorageInv, UnknownBlobsEmpty, Pending
  <2>4. b # upload[u].ref
    BY <2>3
  <2> QED
    BY <1>1, <2>1, <2>4 DEF WriteBlobCreated, RecordReplica, TypeOK
<1>5. ASSUME NEW c \in Colls, NEW refs \in SUBSET Blobs, Commit(c, refs)
      PROVE  Explained(b, v)
  <2>1. b \in refs
    BY <1>5 DEF Commit
  <2> QED
    BY <1>5, <2>1 DEF Explained
<1>6. ASSUME NEW w \in Volumes, ControllerStep(w)
      PROVE  Explained(b, v)
  <2>1. PICK a \in landed[w] : WriteBlobReplicated(w, a)
    BY <1>2, <1>6 DEF ControllerStep, DiscoverJobs, LandJob, DropJob
  <2>2. /\ a \in Blobs /\ w \notin vols[a]
        /\ vols[a] \in SUBSET Volumes /\ pend[a] \in [Volumes -> 0 .. MaxQueued]
    BY <1>1 DEF TypeOK, StorageInv, NoDoubleReplication, InFlight
  <2>3. RecordReplica(a, w, vols[a], pend[a])
    BY <2>1, <2>2 DEF WriteBlobReplicated
  <2>4. a = b /\ w = v
    BY <1>1, <2>2, <2>3 DEF RecordReplica, TypeOK
  <2>5. v \in vols'[b]
    BY <1>1, <2>2, <2>3, <2>4, RecordReplicaSets
  <2> QED
    BY <2>5 DEF Explained
<1>7. ASSUME Command
      PROVE  Explained(b, v)
  <2>1. ASSUME NEW from \in Volumes, NEW to \in Volumes, VolumeMigrateData(from, to)
        PROVE  FALSE
    BY <1>1, <2>1 DEF VolumeMigrateData, TypeOK
  <2>2. ASSUME NEW cs \in SUBSET Colls, NEW w \in Volumes,
               DatabaseReconcileReplicationPolicy(cs, w)
        PROVE  FALSE
    BY <1>1, <2>2 DEF DatabaseReconcileReplicationPolicy, TypeOK
  <2>3. ASSUME NEW w \in Volumes, VolumeRemoveQueuedReplications(w)
        PROVE  w = v
    BY <1>1, <2>3 DEF VolumeRemoveQueuedReplications, Unqueue, TypeOK
  <2>4. ASSUME NEW w \in Volumes, NEW o \in BOOLEAN, VolumeMarkDataLost(w, o)
        PROVE  w = v
    BY <1>1, <2>4 DEF VolumeMarkDataLost, Unqueue, TypeOK
  <2> QED
    BY <1>2, <1>7, <2>1, <2>2, <2>3, <2>4
       DEF Command, VolumeDecommission, ReplicationpolicyChangeDesiredVolumes,
           VolumeMount, VolumeUnmount, Explained, Cancels
<1>8. ASSUME Boot
      PROVE  FALSE
  BY <1>2, <1>8 DEF Boot
<1> QED
  BY <1>3, <1>4, <1>5, <1>6, <1>7, <1>8 DEF Next, ReloadConfig, Crash

LEMMA QueueStepAction ==
  ASSUME StorageInv, [Next]_vars
  PROVE  [\A b \in Blobs : \A v \in Pending(b) \ Pending(b)' : Explained(b, v)]_vars
<1> SUFFICES ASSUME NEW b \in Blobs, NEW v \in Volumes,
                    v \in Pending(b), v \notin Pending(b)'
             PROVE  Explained(b, v)
  BY DEF Pending
<1>1. pend[b][v] > 0 /\ ~(pend'[b][v] > 0)
  BY DEF Pending
<1> QED
  BY <1>1, QueueStep

\* A queued replication survives crashes, errors, restarts and every command
\* but the two that cancel it; only a commit may drop it.
THEOREM QueueIsResilient == Spec => QueueLostOnlyByCommit
  BY StorageInvariant, QueueStepAction, PTL DEF Spec, QueueLostOnlyByCommit, Explained

(***************************************************************************)
(* Placement.  A commit recomputes the queue from the policy of the        *)
(* collection committed to, so two collections that share a blob must      *)
(* share the policy; and a queue emptied by command is not refilled.       *)
(***************************************************************************)
SteadyPolicy ==
  /\ \A c, d \in Colls : PolicyOf[c] = PolicyOf[d]
  /\ Commands \cap {"change_policy", "remove_queued"} = {}

PlacedAs(b, c) ==
  b \in content[c] => \A v \in desired[PolicyOf[c]] : v \in vols[b] \/ pend[b][v] > 0

LEMMA PlacedForm ==
  TypeOK => (CommittedPlaced <=> \A b \in Blobs, c \in Colls : PlacedAs(b, c))
BY CollsAssumption DEF TypeOK, CommittedPlaced, PlacedAs, Pending

LEMMA PlacedStep ==
  ASSUME StorageInv, StorageInv', SteadyPolicy, [Next]_vars,
         NEW b \in Blobs, NEW c \in Colls,
         \A d \in Colls : PlacedAs(b, d)
  PROVE  PlacedAs(b, c)'
<1> USE DEF dbVars, bootVars, uploadVars, controllerVars
<1>1. TypeOK /\ TypeOK'
  BY DEF StorageInv
<1>2. PolicyOf[c] \in Policies
  BY CollsAssumption
<1>3. SUFFICES ASSUME b \in content'[c], NEW v \in desired'[PolicyOf[c]]
               PROVE  v \in vols'[b] \/ pend'[b][v] > 0
  BY DEF PlacedAs
<1>4. v \in Volumes
  BY <1>1, <1>2 DEF TypeOK
<1>5. CASE UNCHANGED <<vols, pend, content, desired>>
  BY <1>3, <1>5 DEF PlacedAs
<1>6. ASSUME NEW u \in Uploaders, WriteBlobCreated(u)
      PROVE  v \in vols'[b] \/ pend'[b][v] > 0
  <2>1. upload[u].ref \in Blobs /\ ~Exists(upload[u].ref)
    BY <1>6, CreatedIsNew DEF WriteBlobCreated
  <2>2. b # upload[u].ref
    BY <1>3, <1>6, <2>1 DEF WriteBlobCreated, StorageInv, UnknownBlobsEmpty
  <2>3. vols'[b] = vols[b] /\ pend'[b] = pend[b] /\ content' = content /\ desired' = desired
    BY <1>1, <1>6, <2>2 DEF WriteBlobCreated, RecordReplica, TypeOK
  <2> QED
    BY <1>3, <2>3 DEF PlacedAs
<1>7. ASSUME NEW d \in Colls, NEW refs \in SUBSET Blobs, Commit(d, refs)
      PROVE  v \in vols'[b] \/ pend'[b][v] > 0
  <2>1. CASE b \in refs
    <3>1. PolicyOf[d] = PolicyOf[c]
      BY DEF SteadyPolicy
    <3>2. v \in desired[PolicyOf[d]] /\ vols' = vols
      BY <1>3, <1>7, <3>1 DEF Commit
    <3>3. v \notin vols[b] => pend'[b][v] = 1
      BY <1>4, <1>7, <2>1, <3>2 DEF Commit
    <3> QED
      BY <3>2, <3>3
  <2>2. CASE b \notin refs
    <3>1. b \in content[c]
      BY <1>1, <1>3, <1>7, <2>2 DEF Commit, TypeOK
    <3>2. pend'[b] = pend[b] /\ vols' = vols /\ desired' = desired
      BY <1>7, <2>2 DEF Commit
    <3> QED
      BY <1>3, <3>1, <3>2 DEF PlacedAs
  <2> QED
    BY <2>1, <2>2
<1>8. ASSUME NEW w \in Volumes, NEW a \in landed[w], WriteBlobReplicated(w, a)
      PROVE  v \in vols'[b] \/ pend'[b][v] > 0
  <2>1. /\ a \in Blobs /\ w \notin vols[a]
    BY <1>1 DEF TypeOK, StorageInv, NoDoubleReplication, InFlight
  <2>2. RecordReplica(a, w, vols[a], pend[a]) /\ content' = content /\ desired' = desired
    BY <1>8, <2>1 DEF WriteBlobReplicated
  <2>3. vols[b] \subseteq vols'[b] /\ (pend'[b][v] = pend[b][v] \/ v \in vols'[b])
    BY <1>1, <1>4, <2>1, <2>2 DEF RecordReplica, TypeOK
  <2> QED
    BY <1>3, <2>2, <2>3 DEF PlacedAs
<1>9. ASSUME NEW w \in Volumes, NEW o \in BOOLEAN, VolumeMarkDataLost(w, o)
      PROVE  v \in vols'[b] \/ pend'[b][v] > 0
  <2>1. content' = content /\ desired' = desired /\ w # v
    BY <1>2, <1>3, <1>9 DEF VolumeMarkDataLost, Wanted
  <2>2. vols'[b] = vols[b] \ {w} /\ pend'[b] = [pend[b] EXCEPT ![w] = 0]
    BY <1>9 DEF VolumeMarkDataLost, Unqueue
  <2>3. pend'[b][v] = pend[b][v]
    BY <1>1, <1>4, <2>1, <2>2 DEF TypeOK
  <2> QED
    BY <1>3, <2>1, <2>2, <2>3 DEF PlacedAs
<1>10. ASSUME NEW from \in Volumes, NEW to \in Volumes, VolumeMigrateData(from, to)
       PROVE  v \in vols'[b] \/ pend'[b][v] > 0
  <2>1. vols' = vols /\ content' = content /\ desired' = desired
    BY <1>10 DEF VolumeMigrateData
  <2>2. pend[b][v] > 0 => pend'[b][v] > 0
    BY <1>1, <1>4, <1>10 DEF VolumeMigrateData, TypeOK
  <2> QED
    BY <1>3, <2>1, <2>2 DEF PlacedAs
<1>11. ASSUME NEW cs \in SUBSET Colls, NEW w \in Volumes,
              DatabaseReconcileReplicationPolicy(cs, w)
       PROVE  v \in vols'[b] \/ pend'[b][v] > 0
  <2>1. vols' = vols /\ content' = content /\ desired' = desired
    BY <1>11 DEF DatabaseReconcileReplicationPolicy
  <2>2. pend[b][v] > 0 => pend'[b][v] > 0
    BY <1>1, <1>4, <1>11 DEF DatabaseReconcileReplicationPolicy, TypeOK
  <2> QED
    BY <1>3, <2>1, <2>2 DEF PlacedAs
<1>12. ASSUME Command
       PROVE  v \in vols'[b] \/ pend'[b][v] > 0
  BY <1>5, <1>9, <1>10, <1>11, <1>12
     DEF Command, SteadyPolicy, VolumeRemoveQueuedReplications, VolumeDecommission,
         ReplicationpolicyChangeDesiredVolumes, VolumeMount, VolumeUnmount
<1>13. ASSUME NEW u \in Uploaders, UploadStep(u)
       PROVE  v \in vols'[b] \/ pend'[b][v] > 0
  BY <1>5, <1>6, <1>13
     DEF UploadStep, ChooseVolume, TryLock, RefuseUpload, StoreUpload, FailUpload
<1>14. ASSUME NEW w \in Volumes, ControllerStep(w)
       PROVE  v \in vols'[b] \/ pend'[b][v] > 0
  BY <1>5, <1>8, <1>14 DEF ControllerStep, DiscoverJobs, LandJob, DropJob
<1>15. CASE ReloadConfig \/ Crash \/ UNCHANGED vars
  BY <1>5, <1>15 DEF ReloadConfig, Crash, Boot, vars
<1> QED
  BY <1>7, <1>12, <1>13, <1>14, <1>15 DEF Next

\* With one steady policy, a blob of a collection is on or queued for every
\* volume the policy desires, forever.
THEOREM CommittedStaysPlaced ==
  ASSUME SteadyPolicy
  PROVE  Spec => []CommittedPlaced
<1>1. Init => StorageInv /\ CommittedPlaced
  BY InitStorageInv DEF Init, CommittedPlaced
<1>2. StorageInv /\ [Next]_vars => StorageInv'
  BY NextSafe
<1>3. StorageInv /\ StorageInv' /\ CommittedPlaced /\ [Next]_vars => CommittedPlaced'
  <2> SUFFICES ASSUME StorageInv, StorageInv', CommittedPlaced, [Next]_vars
               PROVE  CommittedPlaced'
    OBVIOUS
  <2>1. \A b \in Blobs, c \in Colls : PlacedAs(b, c)
    BY PlacedForm DEF StorageInv
  <2>2. \A b \in Blobs, c \in Colls : PlacedAs(b, c)'
    BY <2>1, PlacedStep
  <2>3. content' \in [Colls -> SUBSET Blobs] /\ desired' \in [Policies -> SUBSET Volumes]
    BY DEF StorageInv, TypeOK
  <2> QED
    BY <2>2, <2>3, CollsAssumption DEF CommittedPlaced, PlacedAs, Pending
<1> QED
  BY <1>1, <1>2, <1>3, PTL DEF Spec

(***************************************************************************)
(* Every listed replica is intact, and the blob store implements           *)
(* ReplicaSet: for drivers that overwrite an existing file (S3), and for   *)
(* all drivers where every file that is stored is recorded: no process     *)
(* dies halfway and no transaction fails.  Without either assumption TLC   *)
(* finds the counterexample of run orphan_kept.                            *)
(***************************************************************************)
OverwritesOrNeverCrashes == SkipsExisting = {} \/ ~CrashAllowed

StoredIntact ==
  \A u \in Uploaders :
    upload[u].pc = "stored" => disk[upload[u].vol][upload[u].ref] = upload[u].form

LandedIntact == \A v \in Volumes : \A b \in landed[v] : disk[v][b] = form[b]

StoredBy(u, v, b) ==
  upload[u].pc = "stored" /\ upload[u].vol = v /\ upload[u].ref = b

\* No orphan is left on a disk: a file belongs to a row or to the request
\* that is about to create the row.
NoOrphans ==
  \A v \in Volumes, b \in Blobs :
    \/ disk[v][b] \in {None, form[b]}
    \/ \E u \in Uploaders : StoredBy(u, v, b)

ContentInv ==
  /\ StorageInv
  /\ StoredIntact
  /\ LandedIntact
  /\ ReplicasIntact
  /\ SkipsExisting = {} \/ NoOrphans

LEMMA InitContentInv == Init => ContentInv
<1> SUFFICES ASSUME Init PROVE ContentInv
  OBVIOUS
<1>1. StorageInv
  BY InitStorageInv
<1>2. StoredIntact /\ LandedIntact /\ ReplicasIntact /\ NoOrphans
  BY DEF Init, StoredIntact, LandedIntact, ReplicasIntact, NoOrphans, Idle
<1> QED
  BY <1>1, <1>2 DEF ContentInv

\* Steps that touch no file, no row's form and no stored request can at most
\* list fewer replicas.
LEMMA FilesUntouched ==
  ASSUME ContentInv, StorageInv',
         UNCHANGED <<disk, form, landed>>,
         \A b \in Blobs : vols'[b] \subseteq vols[b],
         \A u \in Uploaders :
           \/ upload'[u] = upload[u]
           \/ /\ upload'[u].pc # "stored"
              /\ upload[u].pc # "stored" \/ SkipsExisting = {}
  PROVE  ContentInv'
<1>1. StoredIntact'
  BY DEF ContentInv, StoredIntact
<1>2. LandedIntact' /\ ReplicasIntact'
  BY DEF ContentInv, LandedIntact, ReplicasIntact
<1>3. CASE SkipsExisting # {}
  <2>1. NoOrphans => NoOrphans'
    BY <1>3 DEF NoOrphans, StoredBy
  <2> QED
    BY <1>1, <1>2, <1>3, <2>1 DEF ContentInv
<1> QED
  BY <1>1, <1>2, <1>3 DEF ContentInv

LEMMA StoreUploadIntact ==
  ASSUME ContentInv, NEW u \in Uploaders, NEW hint \in Hints, StoreUpload(u, hint),
         StorageInv'
  PROVE  ContentInv'
<1> USE DEF dbVars, controllerVars
<1>1. TypeOK /\ upload[u].pc = "locked" /\ upload[u] \in Request
  BY UploadForms DEF ContentInv, StorageInv, StoreUpload
<1>2. PICK b \in Blobs, v \in Volumes, c \in Colls :
        upload[u].ref = b /\ upload[u].vol = v /\ upload[u].coll = c
  BY <1>1 DEF Request
<1> DEFINE f == <<c, hint>>
<1>3. f \in Forms
  BY DEF Forms
<1>4. /\ ~Exists(b) /\ vols[b] = {}
      /\ \A w \in Volumes : b \notin landed[w]
      /\ \A w \in Uploaders \ {u} : upload[w].pc = "stored" => upload[w].ref # b
  BY <1>1, <1>2 DEF ContentInv, StorageInv, UploadsExclusive, UnknownBlobsEmpty, Holds,
                    NoDoubleReplication, InFlight
<1>5. /\ disk' = [disk EXCEPT ![v][b] = RawStored(v, b, f)]
      /\ upload'[u] = [pc |-> "stored", ref |-> b, coll |-> c, vol |-> v, form |-> f]
      /\ \A w \in Uploaders \ {u} : upload'[w] = upload[w]
      /\ form' = form /\ vols' = vols /\ landed' = landed
  BY <1>1, <1>2 DEF StoreUpload, TypeOK
<1>6. v \in SkipsExisting => disk[v][b] = None
  BY <1>1, <1>4 DEF ContentInv, NoOrphans, StoredBy, Exists
<1>7. RawStored(v, b, f) = f
  BY <1>6 DEF RawStored
<1>8. /\ disk'[v][b] = f
      /\ \A w \in Volumes, a \in Blobs : w # v \/ a # b => disk'[w][a] = disk[w][a]
  BY <1>1, <1>5, <1>7 DEF TypeOK
<1> HIDE DEF f
<1>9. StoredIntact'
  <2> SUFFICES ASSUME NEW w \in Uploaders, upload'[w].pc = "stored"
               PROVE  disk'[upload'[w].vol][upload'[w].ref] = upload'[w].form
    BY DEF StoredIntact
  <2>1. CASE w = u
    BY <1>5, <1>8, <2>1
  <2>2. CASE w # u
    <3>1. upload'[w] = upload[w] /\ upload[w] \in StoredRequest
      BY <1>1, <1>5, <2>2, UploadForms
    <3>2. /\ upload[w].ref \in Blobs /\ upload[w].vol \in Volumes /\ upload[w].ref # b
          /\ disk[upload[w].vol][upload[w].ref] = upload[w].form
      BY <1>4, <2>2, <3>1 DEF StoredRequest, ContentInv, StoredIntact
    <3> QED
      BY <1>8, <3>1, <3>2
  <2> QED
    BY <2>1, <2>2
<1>10. LandedIntact'
  BY <1>1, <1>4, <1>5, <1>8 DEF ContentInv, LandedIntact, TypeOK
<1>11. ReplicasIntact'
  BY <1>1, <1>4, <1>5, <1>8 DEF ContentInv, ReplicasIntact, TypeOK
<1>12. ASSUME NoOrphans PROVE NoOrphans'
  <2> SUFFICES ASSUME NEW w \in Volumes, NEW a \in Blobs
               PROVE  \/ disk'[w][a] \in {None, form'[a]}
                      \/ \E x \in Uploaders : StoredBy(x, w, a)'
    BY DEF NoOrphans
  <2>1. CASE w = v /\ a = b
    BY <1>5, <2>1 DEF StoredBy
  <2>2. CASE w # v \/ a # b
    <3>1. disk'[w][a] = disk[w][a]
      BY <1>8, <2>2
    <3>2. \A x \in Uploaders : StoredBy(x, w, a) => StoredBy(x, w, a)'
      BY <1>1, <1>5 DEF StoredBy
    <3> QED
      BY <1>5, <1>12, <3>1, <3>2 DEF NoOrphans
  <2> QED
    BY <2>1, <2>2
<1> QED
  BY <1>9, <1>10, <1>11, <1>12 DEF ContentInv

LEMMA WriteBlobCreatedIntact ==
  ASSUME ContentInv, NEW u \in Uploaders, WriteBlobCreated(u), StorageInv'
  PROVE  ContentInv'
<1> USE DEF controllerVars
<1>1. StorageInv /\ TypeOK
  BY DEF ContentInv, StorageInv
<1>2. PICK b \in Blobs, v \in Volumes, f \in Forms :
        /\ upload[u].ref = b /\ upload[u].vol = v /\ upload[u].form = f
        /\ vols[b] = {} /\ ~Exists(b)
        /\ \A w \in Volumes : b \notin InFlight(w)
  BY <1>1, CreatedIsNew DEF WriteBlobCreated
<1>3. /\ form' = [form EXCEPT ![b] = f]
      /\ vols' = [vols EXCEPT ![b] = {v}]
      /\ disk' = disk /\ landed' = landed
      /\ upload' = [upload EXCEPT ![u] = Idle]
      /\ upload[u].pc = "stored"
  BY <1>2 DEF WriteBlobCreated, RecordReplica
<1>4. disk[v][b] = f
  BY <1>2, <1>3 DEF ContentInv, StoredIntact
<1>5. StoredIntact'
  BY <1>1, <1>3 DEF ContentInv, StoredIntact, TypeOK, Idle
<1>6. LandedIntact'
  <2>1. \A w \in Volumes : landed[w] \subseteq Blobs /\ b \notin landed[w]
    BY <1>1, <1>2 DEF TypeOK, InFlight
  <2> QED
    BY <1>1, <1>3, <2>1 DEF ContentInv, LandedIntact, TypeOK
<1>7. ReplicasIntact'
  BY <1>1, <1>3, <1>4 DEF ContentInv, ReplicasIntact, TypeOK
<1>8. ASSUME NoOrphans PROVE NoOrphans'
  <2> SUFFICES ASSUME NEW w \in Volumes, NEW a \in Blobs
               PROVE  \/ disk[w][a] \in {None, form'[a]}
                      \/ \E x \in Uploaders : StoredBy(x, w, a)'
    BY <1>3 DEF NoOrphans
  <2>1. CASE disk[w][a] = None
    BY <2>1
  <2>2. CASE disk[w][a] # None /\ a # b
    <3>1. form'[a] = form[a]
      BY <1>1, <1>3, <2>2 DEF TypeOK
    <3>2. \A x \in Uploaders : StoredBy(x, w, a) => StoredBy(x, w, a)'
      BY <1>1, <1>2, <1>3, <2>2 DEF StoredBy, TypeOK
    <3> QED
      BY <1>8, <3>1, <3>2 DEF NoOrphans
  <2>3. CASE disk[w][a] # None /\ a = b
    <3>1. PICK x \in Uploaders : StoredBy(x, w, b)
      BY <1>2, <1>8, <2>3 DEF NoOrphans, Exists
    <3>2. x = u
      BY <1>1, <1>2, <1>3, <3>1 DEF StorageInv, UploadsExclusive, Holds, StoredBy
    <3>3. w = v
      BY <1>2, <3>1, <3>2 DEF StoredBy
    <3>4. form'[b] = f
      BY <1>1, <1>3 DEF TypeOK
    <3> QED
      BY <1>4, <2>3, <3>3, <3>4
  <2> QED
    BY <2>1, <2>2, <2>3
<1> QED
  BY <1>5, <1>6, <1>7, <1>8 DEF ContentInv

LEMMA UploadIntact ==
  ASSUME ContentInv, NEW u \in Uploaders, UploadStep(u), StorageInv',
         OverwritesOrNeverCrashes
  PROVE  ContentInv'
<1> USE DEF dbVars, bootVars, controllerVars
<1>1. TypeOK
  BY DEF ContentInv, StorageInv
<1>2. ASSUME NEW b \in Blobs, NEW c \in Colls, ChooseVolume(u, b, c)
      PROVE  ContentInv'
  <2>1. /\ \A w \in Uploaders \ {u} : upload'[w] = upload[w]
        /\ upload'[u].pc # "stored" /\ upload[u].pc # "stored"
    BY <1>1, <1>2 DEF ChooseVolume, TypeOK, Idle
  <2> QED
    BY <1>2, <2>1, FilesUntouched DEF ChooseVolume
<1>3. ASSUME TryLock(u)
      PROVE  ContentInv'
  <2>1. upload[u] \in Request
    BY <1>1, <1>3, UploadForms DEF TryLock
  <2>2. /\ \A w \in Uploaders \ {u} : upload'[w] = upload[w]
        /\ upload'[u].pc # "stored" /\ upload[u].pc # "stored"
    BY <1>1, <1>3, <2>1 DEF TryLock, TypeOK, Request
  <2> QED
    BY <1>3, <2>2, FilesUntouched DEF TryLock
<1>4. ASSUME RefuseUpload(u) \/ FailUpload(u)
      PROVE  ContentInv'
  <2>1. /\ \A w \in Uploaders \ {u} : upload'[w] = upload[w]
        /\ upload'[u].pc # "stored"
        /\ upload[u].pc # "stored" \/ SkipsExisting = {}
    BY <1>1, <1>4 DEF RefuseUpload, FailUpload, TypeOK, Idle, OverwritesOrNeverCrashes
  <2> QED
    BY <1>4, <2>1, FilesUntouched DEF RefuseUpload, FailUpload
<1> QED
  BY <1>2, <1>3, <1>4, StoreUploadIntact, WriteBlobCreatedIntact DEF UploadStep

LEMMA LandJobIntact ==
  ASSUME ContentInv, NEW v \in Volumes, NEW j \in queued[v], LandJob(v, j), StorageInv'
  PROVE  ContentInv'
<1> USE DEF dbVars, bootVars, uploadVars
<1>1. TypeOK /\ StorageInv
  BY DEF ContentInv, StorageInv
<1>2. PICK b \in Blobs, from \in Volumes : j.ref = b /\ j.from = from
  BY <1>1 DEF TypeOK, Job
<1>3. b \in InFlight(v) /\ v \notin vols[b] /\ Exists(b)
  BY <1>1, <1>2 DEF StorageInv, NoDoubleReplication, InFlight
<1>4. \A w \in Uploaders : upload[w].pc = "stored" => upload[w].ref # b
  BY <1>1, <1>3 DEF StorageInv, UploadsExclusive, Holds
<1>5. /\ disk' = [disk EXCEPT ![v][b] = RawStored(v, b, disk[from][b])]
      /\ \/ disk[from][b] = form[b]
         \/ v \in SkipsExisting /\ disk[v][b] # None
      /\ landed' = [landed EXCEPT ![v] = @ \cup {b}]
      /\ form' = form /\ vols' = vols /\ upload' = upload
  BY <1>2 DEF LandJob
<1>6. v \in SkipsExisting /\ disk[v][b] # None => disk[v][b] = form[b]
  BY <1>4 DEF ContentInv, NoOrphans, StoredBy
<1>7. RawStored(v, b, disk[from][b]) = form[b]
  BY <1>5, <1>6 DEF RawStored
<1>8. /\ disk'[v][b] = form[b]
      /\ \A w \in Volumes, a \in Blobs : w # v \/ a # b => disk'[w][a] = disk[w][a]
  BY <1>1, <1>5, <1>7 DEF TypeOK
<1>9. StoredIntact'
  <2> SUFFICES ASSUME NEW w \in Uploaders, upload[w].pc = "stored"
               PROVE  disk'[upload[w].vol][upload[w].ref] = upload[w].form
    BY <1>5 DEF StoredIntact
  <2>1. upload[w].ref \in Blobs /\ upload[w].vol \in Volumes
    BY <1>1, UploadForms DEF StoredRequest
  <2> QED
    BY <1>4, <1>8, <2>1 DEF ContentInv, StoredIntact
<1>10. LandedIntact'
  BY <1>1, <1>5, <1>8 DEF ContentInv, LandedIntact, TypeOK
<1>11. ReplicasIntact'
  BY <1>1, <1>5, <1>8 DEF ContentInv, ReplicasIntact, TypeOK
<1>12. NoOrphans => NoOrphans'
  BY <1>5, <1>8 DEF NoOrphans, StoredBy
<1> QED
  BY <1>9, <1>10, <1>11, <1>12 DEF ContentInv

LEMMA ControllerIntact ==
  ASSUME ContentInv, NEW v \in Volumes, ControllerStep(v), StorageInv'
  PROVE  ContentInv'
<1> USE DEF dbVars, bootVars, uploadVars
<1>1. TypeOK
  BY DEF ContentInv, StorageInv
<1>2. ASSUME DiscoverJobs(v) \/ \E j \in queued[v] : DropJob(v, j)
      PROVE  ContentInv'
  BY <1>2, FilesUntouched DEF DiscoverJobs, DropJob
<1>3. ASSUME NEW b \in landed[v], WriteBlobReplicated(v, b)
      PROVE  ContentInv'
  <2>1. /\ b \in Blobs /\ disk[v][b] = form[b]
        /\ disk' = disk /\ form' = form /\ upload' = upload
        /\ landed' = [landed EXCEPT ![v] = @ \ {b}]
    BY <1>1, <1>3 DEF WriteBlobReplicated, TypeOK, ContentInv, LandedIntact
  <2>2. vols' = vols \/ vols' = [vols EXCEPT ![b] = vols[b] \cup {v}]
    BY <1>3 DEF WriteBlobReplicated, RecordReplica
  <2>3. StoredIntact' /\ (NoOrphans => NoOrphans')
    BY <2>1 DEF ContentInv, StoredIntact, NoOrphans, StoredBy
  <2>4. LandedIntact'
    BY <1>1, <2>1 DEF ContentInv, LandedIntact, TypeOK
  <2>5. ReplicasIntact'
    <3>1. \A a \in Blobs : \A w \in vols'[a] : w \in vols[a] \/ (a = b /\ w = v)
      BY <1>1, <2>1, <2>2 DEF TypeOK
    <3> QED
      BY <2>1, <3>1 DEF ContentInv, ReplicasIntact
  <2> QED
    BY <2>3, <2>4, <2>5 DEF ContentInv
<1> QED
  BY <1>2, <1>3, LandJobIntact DEF ControllerStep

LEMMA CommandIntact ==
  ASSUME ContentInv, Command, StorageInv'
  PROVE  ContentInv'
<1> USE DEF bootVars, uploadVars, controllerVars
<1>1. /\ UNCHANGED <<disk, form, landed, upload>>
      /\ \A b \in Blobs : vols'[b] \subseteq vols[b]
  BY DEF Command, VolumeMigrateData, DatabaseReconcileReplicationPolicy,
         VolumeRemoveQueuedReplications, VolumeMarkDataLost, VolumeDecommission,
         ReplicationpolicyChangeDesiredVolumes, VolumeMount, VolumeUnmount
<1> QED
  BY <1>1, FilesUntouched

\* The only way to forget a stored file is a crash.
LEMMA BootIntact ==
  ASSUME ContentInv, OverwritesOrNeverCrashes, ReloadConfig \/ Crash, StorageInv'
  PROVE  ContentInv'
<1> USE DEF Boot, dbVars
<1>1. Boot
  BY DEF ReloadConfig, Crash
<1>2. StoredIntact' /\ LandedIntact' /\ ReplicasIntact'
  BY <1>1 DEF ContentInv, StoredIntact, LandedIntact, ReplicasIntact, Idle
<1>3. CASE SkipsExisting = {}
  BY <1>2, <1>3 DEF ContentInv
<1>4. CASE ~(SkipsExisting = {})
  <2>1. \A u \in Uploaders : upload[u].pc # "stored"
    BY <1>4 DEF OverwritesOrNeverCrashes, ReloadConfig, Crash, Quiet, Holds
  <2>2. NoOrphans'
    BY <1>1, <1>4, <2>1 DEF ContentInv, NoOrphans, StoredBy
  <2> QED
    BY <1>2, <2>2 DEF ContentInv
<1> QED
  BY <1>3, <1>4

LEMMA NextIntact ==
  ASSUME ContentInv, OverwritesOrNeverCrashes, [Next]_vars
  PROVE  ContentInv'
<1>1. StorageInv'
  BY NextSafe DEF ContentInv
<1>2. CASE UNCHANGED vars
  BY <1>1, <1>2, FilesUntouched
     DEF vars, dbVars, bootVars, uploadVars, controllerVars
<1>3. ASSUME NEW c \in Colls, NEW refs \in SUBSET Blobs, Commit(c, refs)
      PROVE  ContentInv'
  BY <1>1, <1>3, FilesUntouched DEF Commit, bootVars, uploadVars, controllerVars
<1>4. CASE Next
  BY <1>1, <1>3, <1>4, UploadIntact, ControllerIntact, CommandIntact, BootIntact DEF Next
<1> QED
  BY <1>2, <1>4

\* Any listed replica can serve a read: its file has the row's checksum and
\* decrypts with the row's key.
THEOREM EveryReplicaIntact ==
  ASSUME OverwritesOrNeverCrashes
  PROVE  Spec => []ReplicasIntact
<1>1. Init => ContentInv
  BY InitContentInv
<1>2. ContentInv /\ [Next]_vars => ContentInv'
  BY NextIntact
<1>3. ContentInv => ReplicasIntact
  BY DEF ContentInv
<1> QED
  BY <1>1, <1>2, <1>3, PTL DEF Spec

(***************************************************************************)
(* Refinement.  While every listed replica is intact the mapping is plain: *)
(* the copies of ReplicaSet are the volumes a row lists.                   *)
(***************************************************************************)
LEMMA CopiesAreVolumes ==
  /\ ContentInv => IntactCopies = vols
  /\ ContentInv' => IntactCopies' = vols'
BY DEF ContentInv, ReplicasIntact, StorageInv, TypeOK, IntactCopies

LEMMA InitRefines == Init => Promise!Init
BY DEF Init, Promise!Init, IntactCopies

LEMMA StepRefines ==
  ASSUME ContentInv, ContentInv', [Next]_vars
  PROVE  [Promise!Next]_<<form, IntactCopies>>
<1> USE DEF dbVars, bootVars, uploadVars, controllerVars
<1>1. IntactCopies = vols /\ IntactCopies' = vols'
  BY CopiesAreVolumes
<1>2. TypeOK /\ StorageInv
  BY DEF ContentInv, StorageInv
<1>3. CASE UNCHANGED <<form, vols>>
  BY <1>1, <1>3
<1>4. ASSUME NEW u \in Uploaders, WriteBlobCreated(u)
      PROVE  Promise!Next
  <2>1. PICK b \in Blobs, v \in Volumes, f \in Forms :
          /\ upload[u].ref = b /\ upload[u].vol = v /\ upload[u].form = f
          /\ ~Exists(b)
    BY <1>2, <1>4, CreatedIsNew DEF WriteBlobCreated
  <2>2. form' = [form EXCEPT ![b] = f] /\ vols' = [vols EXCEPT ![b] = {v}]
    BY <1>4, <2>1 DEF WriteBlobCreated, RecordReplica
  <2>3. Promise!Store(b, f, v)
    BY <1>1, <2>1, <2>2 DEF Promise!Store, Exists
  <2> QED
    BY <2>3 DEF Promise!Next
<1>5. ASSUME NEW v \in Volumes, NEW b \in landed[v], WriteBlobReplicated(v, b)
      PROVE  Promise!Next
  <2>1. b \in Blobs /\ v \notin vols[b] /\ Exists(b)
    BY <1>2 DEF TypeOK, StorageInv, NoDoubleReplication, InFlight
  <2>2. vols' = [vols EXCEPT ![b] = @ \cup {v}] /\ form' = form
    BY <1>5, <2>1 DEF WriteBlobReplicated, RecordReplica
  <2>3. Promise!Copy(b, v)
    BY <1>1, <2>1, <2>2 DEF Promise!Copy, Exists
  <2> QED
    BY <2>1, <2>3 DEF Promise!Next
<1>6. ASSUME NEW v \in Volumes, NEW o \in BOOLEAN, VolumeMarkDataLost(v, o)
      PROVE  Promise!Next
  <2>1. Promise!Lose(v)
    BY <1>1, <1>6 DEF VolumeMarkDataLost, Promise!Lose
  <2> QED
    BY <2>1 DEF Promise!Next
<1>7. ASSUME Command
      PROVE  [Promise!Next]_<<form, IntactCopies>>
  BY <1>3, <1>6, <1>7
     DEF Command, VolumeMigrateData, DatabaseReconcileReplicationPolicy,
         VolumeRemoveQueuedReplications, VolumeDecommission,
         ReplicationpolicyChangeDesiredVolumes, VolumeMount, VolumeUnmount
<1>8. ASSUME NEW u \in Uploaders, UploadStep(u)
      PROVE  [Promise!Next]_<<form, IntactCopies>>
  BY <1>3, <1>4, <1>8
     DEF UploadStep, ChooseVolume, TryLock, RefuseUpload, StoreUpload, FailUpload
<1>9. ASSUME NEW v \in Volumes, ControllerStep(v)
      PROVE  [Promise!Next]_<<form, IntactCopies>>
  BY <1>3, <1>5, <1>9 DEF ControllerStep, DiscoverJobs, LandJob, DropJob
<1>10. ASSUME \/ \E c \in Colls, refs \in SUBSET Blobs : Commit(c, refs)
              \/ ReloadConfig
              \/ Crash
              \/ UNCHANGED vars
       PROVE  UNCHANGED <<form, vols>>
  BY <1>10 DEF Commit, ReloadConfig, Crash, Boot, vars
<1> QED
  BY <1>3, <1>7, <1>8, <1>9, <1>10 DEF Next

\* The blob store keeps ReplicaSet's promise: content is written once, copies
\* come one at a time, and only a lost volume takes copies away.
THEOREM BlobStoreKeepsPromise ==
  ASSUME OverwritesOrNeverCrashes
  PROVE  Spec => KeepsPromise
<1>1. Init => ContentInv /\ Promise!Init
  BY InitContentInv, InitRefines
<1>2. ContentInv /\ [Next]_vars => ContentInv'
  BY NextIntact
<1>3. ContentInv /\ ContentInv' /\ [Next]_vars => [Promise!Next]_<<form, IntactCopies>>
  BY StepRefines
<1> QED
  BY <1>1, <1>2, <1>3, PTL DEF Spec, KeepsPromise, Promise!Spec
=============================================================================
