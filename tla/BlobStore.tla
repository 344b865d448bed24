------------------------------ MODULE BlobStore ------------------------------
(***************************************************************************)
(* Varasto's blob store: the metadata database's account of which volume   *)
(* holds which blob, the uploads that create blobs                         *)
(* (stodiskaccess.Controller), the per-volume replication controllers that *)
(* copy them (storeplication.Controller), the operator's data-management   *)
(* commands, and a server that restarts, gracefully or by crashing.        *)
(*                                                                         *)
(* A database transaction is one step (bbolt has a single writer and       *)
(* readers see a snapshot).  Everything between two transactions -         *)
(* choosing a volume, taking the per-blob lock, writing to a driver - is a *)
(* step of its own, and steps of uploads, controllers and operators        *)
(* interleave.                                                             *)
(*                                                                         *)
(* Data is abstracted to what the properties tell apart.  A blob's bytes   *)
(* on disk are its Form: the collection whose data encryption key          *)
(* encrypted it and whether it was compressed.  The Form stands for the    *)
(* row's EncryptionKeyID, IsCompressed and Crc32.  Collections are never   *)
(* deleted here, so a commit always finds the envelope it has to copy.     *)
(***************************************************************************)
EXTENDS Integers, FiniteSets, FiniteSetsExt

CONSTANTS
  NumBlobs,       \* blob refs are 1..NumBlobs, in the order of the index
  Volumes,
  Colls,
  Policies,
  PolicyOf,       \* the replication policy of each collection
  MinZones,       \* of each policy
  Zone,           \* of each volume
  RoutingCost,    \* of each volume's driver
  SkipsExisting,  \* volumes whose driver keeps a file that already exists
  Hints,          \* values of an upload's maybe_compressible
  Uploaders,      \* concurrent upload requests
  BatchLimit,     \* jobs a replication controller reads in one round
  MaxQueued,      \* bound: times one volume can be queued for one blob
  InitDesired,    \* the policies' DesiredVolumes to start from
  Commands,       \* the commands operators give
  CrashAllowed,   \* may the process die between two steps, or a transaction fail?
  MountsMayFail,  \* may mounting a volume fail at boot?
  None            \* no row, no file

Blobs == 1 .. NumBlobs
Forms == Colls \X Hints

ASSUME NumBlobsAssumption == NumBlobs \in Nat
ASSUME VolumesAssumption == SkipsExisting \subseteq Volumes
ASSUME CollsAssumption == PolicyOf \in [Colls -> Policies]
ASSUME BatchLimitAssumption == BatchLimit \in Nat \ {0}
ASSUME MaxQueuedAssumption == MaxQueued \in Nat \ {0}
ASSUME InitDesiredAssumption == InitDesired \subseteq [Policies -> SUBSET Volumes]
ASSUME CrashAssumption == {CrashAllowed, MountsMayFail} \subseteq BOOLEAN
ASSUME NoneAssumption == None \notin Forms

VARIABLES
  \* the metadata database
  form,            \* form[b]: the row's Form, None while blob b has no row
  vols,            \* vols[b]: Blob.Volumes
  pend,            \* pend[b][v]: how often v is in VolumesPendingReplication
  referenced,      \* blobs with Referenced set
  content,         \* content[c]: blobs the changesets of c mention
  count,           \* count[v]: Volume.BlobCount
  decommissioned,  \* volumes with Decommissioned set
  mounts,          \* volumes with a VolumeMount record
  desired,         \* desired[p]: ReplicationPolicy.DesiredVolumes
  \* the disks
  disk,            \* disk[v][b]: the Form of the file stored, or None
  \* the server process
  mounted,         \* volumes with a driver
  controllers,     \* volumes with a replication controller
  reload,          \* a configuration reload has been asked for
  writing,         \* the locks held in Controller.writingBlobs
  upload,          \* upload[u]: what request u is doing
  token,           \* token[v]: continueToken, 0 is StartFromFirst
  queued,          \* queued[v]: jobs read and not yet carried out
  landed           \* landed[v]: blobs stored to v and not yet recorded

dbVars == <<form, vols, pend, referenced, content, count, decommissioned,
            mounts, desired>>
bootVars == <<mounted, controllers, reload>>
uploadVars == <<writing, upload>>
controllerVars == <<token, queued, landed>>
vars == <<dbVars, disk, bootVars, uploadVars, controllerVars>>

Idle == [pc |-> "idle"]
Job == [ref : Blobs, from : Volumes]
Request ==
  [pc : {"chosen", "locked"}, ref : Blobs, coll : Colls, vol : Volumes]
StoredRequest ==
  [pc : {"stored"}, ref : Blobs, coll : Colls, vol : Volumes, form : Forms]

TypeOK ==
  /\ form \in [Blobs -> Forms \cup {None}]
  /\ vols \in [Blobs -> SUBSET Volumes]
  /\ pend \in [Blobs -> [Volumes -> 0 .. MaxQueued]]
  /\ referenced \subseteq Blobs
  /\ content \in [Colls -> SUBSET Blobs]
  /\ count \in [Volumes -> Int]
  /\ decommissioned \subseteq Volumes
  /\ mounts \subseteq Volumes
  /\ desired \in [Policies -> SUBSET Volumes]
  /\ disk \in [Volumes -> [Blobs -> Forms \cup {None}]]
  /\ mounted \subseteq Volumes
  /\ controllers \subseteq Volumes
  /\ reload \in BOOLEAN
  /\ writing \subseteq Blobs
  /\ upload \in [Uploaders -> {Idle} \cup Request \cup StoredRequest]
  /\ token \in [Volumes -> Nat]
  /\ queued \in [Volumes -> SUBSET Job]
  /\ landed \in [Volumes -> SUBSET Blobs]

(***************************************************************************)
(* A server that has just booted with every volume mounted and no blobs.   *)
(***************************************************************************)
NoQueue == [v \in Volumes |-> 0]

Init ==
  /\ form = [b \in Blobs |-> None]
  /\ vols = [b \in Blobs |-> {}]
  /\ pend = [b \in Blobs |-> NoQueue]
  /\ referenced = {}
  /\ content = [c \in Colls |-> {}]
  /\ count = NoQueue
  /\ decommissioned = {}
  /\ mounts = Volumes
  /\ desired \in InitDesired
  /\ disk = [v \in Volumes |-> [b \in Blobs |-> None]]
  /\ mounted = Volumes
  /\ controllers = Volumes
  /\ reload = FALSE
  /\ writing = {}
  /\ upload = [u \in Uploaders |-> Idle]
  /\ token = NoQueue
  /\ queued = [v \in Volumes |-> {}]
  /\ landed = [v \in Volumes |-> {}]

(***************************************************************************)
(* Helpers.                                                                *)
(***************************************************************************)
Exists(b) == form[b] # None

Pending(b) == {v \in Volumes : pend[b][v] > 0}

\* Controller.BestVolumeID: the mounted volumes of least cost.  The code
\* takes the first of these; their order in the slice is not modelled.
BestVolumes(among) ==
  {v \in among \cap mounted :
     \A w \in among \cap mounted : RoutingCost[v] <= RoutingCost[w]}

\* What a driver holds for b after RawStore(f) to volume v succeeded.
RawStored_AlwaysSkips(v, b, f) ==
  IF disk[v][b] # None THEN disk[v][b] ELSE f

RawStored(v, b, f) ==
  IF v \in SkipsExisting /\ disk[v][b] # None THEN disk[v][b] ELSE f

\* Volumes a policy still directs data to (noReplicationPolicyPlacesNewData-
\* ToVolume, and the same loop in VolumeDecommission).
Wanted(v) == \E p \in Policies : v \in desired[p]

\* lo.Filter(VolumesPendingReplication, not v), for every blob.
Unqueue_FirstOnly(v) == [b \in Blobs |-> [pend[b] EXCEPT ![v] = @ - 1]]

Unqueue(v) == [b \in Blobs |-> [pend[b] EXCEPT ![v] = 0]]

\* The transaction shared by creating and replicating a blob:
\* writeBlobReplicatedInternal for a row whose Volumes are "on" and whose
\* pending queue is "queue".
RecordReplica_ClearsQueue(b, v, on, queue) ==
  /\ vols' = [vols EXCEPT ![b] = on \cup {v}]
  /\ pend' = [pend EXCEPT ![b] = NoQueue]
  /\ count' = [count EXCEPT ![v] = @ + 1]

RecordReplica_ForgetsOthers(b, v, on, queue) ==
  /\ vols' = [vols EXCEPT ![b] = {v}]
  /\ pend' = [pend EXCEPT ![b] = [queue EXCEPT ![v] = 0]]
  /\ count' = [count EXCEPT ![v] = @ + 1]

RecordReplica_KeepsQueue(b, v, on, queue) ==
  /\ vols' = [vols EXCEPT ![b] = on \cup {v}]
  /\ pend' = [pend EXCEPT ![b] = queue]
  /\ count' = [count EXCEPT ![v] = @ + 1]

RecordReplica(b, v, on, queue) ==
  /\ vols' = [vols EXCEPT ![b] = on \cup {v}]
  /\ pend' = [pend EXCEPT ![b] = [queue EXCEPT ![v] = 0]]
  /\ count' = [count EXCEPT ![v] = @ + 1]

(***************************************************************************)
(* Uploading a blob (UploadBlob, Controller.WriteBlobNoVerify).            *)
(***************************************************************************)
Holds(u) == upload[u].pc \in {"locked", "stored"}

\* whichInitialVolumeToWriteCollectionBlobsTo, in a transaction of its own.
ChooseVolume(u, b, c) ==
  /\ upload[u] = Idle
  /\ \E v \in BestVolumes(desired[PolicyOf[c]]) :
       upload' = [upload EXCEPT
                    ![u] = [pc |-> "chosen", ref |-> b, coll |-> c, vol |-> v]]
  /\ UNCHANGED <<dbVars, disk, bootVars, writing, controllerVars>>

\* TryLock and, under the lock, QueryBlobExists.
MayWrite_NoLock(b) == ~Exists(b)

MayWrite_NoExistsCheck(b) == b \notin writing

MayWrite(b) == b \notin writing /\ ~Exists(b)

TryLock(u) ==
  /\ upload[u].pc = "chosen"
  /\ MayWrite(upload[u].ref)
  /\ writing' = writing \cup {upload[u].ref}
  /\ upload' = [upload EXCEPT ![u].pc = "locked"]
  /\ UNCHANGED <<dbVars, disk, bootVars, controllerVars>>

\* Another request is writing the blob, or it is already known.
RefuseUpload(u) ==
  /\ upload[u].pc = "chosen"
  /\ ~MayWrite(upload[u].ref)
  /\ upload' = [upload EXCEPT ![u] = Idle]
  /\ UNCHANGED <<dbVars, disk, bootVars, writing, controllerVars>>

\* encryptAndCompressBlob with the collection's own key, then RawStore.
StoreUpload(u, hint) ==
  /\ upload[u].pc = "locked"
  /\ LET r == upload[u]
         f == <<r.coll, hint>>
     IN  /\ r.vol \in mounted
         /\ disk' = [disk EXCEPT ![r.vol][r.ref] = RawStored(r.vol, r.ref, f)]
         /\ upload' = [upload EXCEPT
                         ![u] = [pc |-> "stored", ref |-> r.ref,
                                 coll |-> r.coll, vol |-> r.vol, form |-> f]]
  /\ UNCHANGED <<dbVars, bootVars, writing, controllerVars>>

\* The content failed verification, the driver reported an error, or the
\* transaction that records the blob failed, which leaves the file behind.
FailUpload(u) ==
  /\ upload[u].pc = "locked" \/ (CrashAllowed /\ upload[u].pc = "stored")
  /\ writing' = writing \ {upload[u].ref}
  /\ upload' = [upload EXCEPT ![u] = Idle]
  /\ UNCHANGED <<dbVars, disk, bootVars, controllerVars>>

\* WriteBlobCreated, then the deferred unlock.
WriteBlobCreated(u) ==
  /\ upload[u].pc = "stored"
  /\ LET r == upload[u]
     IN  /\ form' = [form EXCEPT ![r.ref] = r.form]
         /\ RecordReplica(r.ref, r.vol, {}, NoQueue)
         /\ referenced' = referenced \ {r.ref}
         /\ writing' = writing \ {r.ref}
  /\ upload' = [upload EXCEPT ![u] = Idle]
  /\ UNCHANGED <<content, decommissioned, mounts, desired, disk, bootVars,
                 controllerVars>>

\* The part of commitChangesetInternal that concerns blobs: a client commits
\* files made of the blobs "refs" to collection c.
Commit(c, refs) ==
  /\ refs # {}
  /\ \A b \in refs : Exists(b)
  /\ LET missing(b) == desired[PolicyOf[c]] \ vols[b]
     IN  pend' = [b \in Blobs |->
                    IF b \in refs
                    THEN [v \in Volumes |-> IF v \in missing(b) THEN 1 ELSE 0]
                    ELSE pend[b]]
  /\ referenced' = referenced \cup refs
  /\ content' = [content EXCEPT ![c] = @ \cup refs]
  /\ UNCHANGED <<form, vols, count, decommissioned, mounts, desired, disk,
                 bootVars, uploadVars, controllerVars>>

(***************************************************************************)
(* The replication controller of volume v.                                 *)
(***************************************************************************)
InFlight(v) == {j.ref : j \in queued[v]} \cup landed[v]

\* The continue token after a batch of "taken" jobs, when "rest" is what the
\* index still lists beyond them.
NextToken_NeverReset(v, taken, rest) ==
  IF Cardinality(taken) = BatchLimit /\ rest # {} THEN Min(rest) ELSE token[v]

NextToken(v, taken, rest) ==
  IF Cardinality(taken) = BatchLimit /\ rest # {} THEN Min(rest) ELSE 0

\* discoverReplicationJobs: read, from the continue token on, the first
\* BatchLimit pending blobs that some mounted volume can provide.  The token
\* is left at the first pending blob after a full batch, else reset.
DiscoverJobs(v) ==
  /\ v \in controllers
  /\ InFlight(v) = {}
  /\ LET index == {b \in Blobs : b >= token[v] /\ v \in Pending(b)}
         accessible == {b \in index : BestVolumes(vols[b]) # {}}
         taken == {b \in accessible :
                     Cardinality({a \in accessible : a < b}) < BatchLimit}
         rest == {b \in index : \A a \in taken : a < b}
     IN  /\ \E source \in [taken -> Volumes] :
              /\ \A b \in taken : source[b] \in BestVolumes(vols[b])
              /\ queued' = [queued EXCEPT
                              ![v] = {[ref |-> b, from |-> source[b]] : b \in taken}]
         /\ token' = [token EXCEPT ![v] = NextToken(v, taken, rest)]
  /\ UNCHANGED <<dbVars, disk, bootVars, uploadVars, landed>>

\* Controller.Replicate up to RawStore.  The reader given to the driver fails
\* at its end unless the source file has the row's checksum; a driver that
\* finds the file already there never reads it.
LandJob(v, j) ==
  /\ j \in queued[v]
  /\ {v, j.from} \subseteq mounted
  /\ disk[j.from][j.ref] # None
  /\ \/ disk[j.from][j.ref] = form[j.ref]
     \/ v \in SkipsExisting /\ disk[v][j.ref] # None
  /\ disk' = [disk EXCEPT
                ![v][j.ref] = RawStored(v, j.ref, disk[j.from][j.ref])]
  /\ queued' = [queued EXCEPT ![v] = @ \ {j}]
  /\ landed' = [landed EXCEPT ![v] = @ \cup {j.ref}]
  /\ UNCHANGED <<dbVars, bootVars, uploadVars, token>>

DropJob_Forgets(v, j) ==
  /\ j \in queued[v]
  /\ queued' = [queued EXCEPT ![v] = @ \ {j}]
  /\ pend' = [pend EXCEPT ![j.ref][v] = 0]
  /\ UNCHANGED <<form, vols, referenced, content, count, decommissioned, mounts,
                 desired, disk, bootVars, uploadVars, token, landed>>

\* An error of either driver, or the stop signal before the job was fed.
DropJob(v, j) ==
  /\ j \in queued[v]
  /\ queued' = [queued EXCEPT ![v] = @ \ {j}]
  /\ UNCHANGED <<dbVars, disk, bootVars, uploadVars, token, landed>>

\* A row that lists v already is refused: "race condition: someone already
\* replicated".
WriteBlobReplicated(v, b) ==
  /\ b \in landed[v]
  /\ landed' = [landed EXCEPT ![v] = @ \ {b}]
  /\ IF v \in vols[b] THEN UNCHANGED <<vols, pend, count>>
                      ELSE RecordReplica(b, v, vols[b], pend[b])
  /\ UNCHANGED <<form, referenced, content, decommissioned, mounts, desired,
                 disk, bootVars, uploadVars, token, queued>>

(***************************************************************************)
(* The operator's commands.                                                *)
(***************************************************************************)
\* The blobs a migration queues.
Moves_EvenIfPresent(from, to) == {b \in Blobs : from \in vols[b]}

Moves(from, to) == {b \in Blobs : from \in vols[b] /\ to \notin vols[b]}

VolumeMigrateData(from, to) ==
  /\ "migrate" \in Commands
  /\ from # to
  /\ \A b \in Moves(from, to) : pend[b][to] < MaxQueued
  /\ pend' = [b \in Blobs |->
                IF b \in Moves(from, to) THEN [pend[b] EXCEPT ![to] = @ + 1]
                                         ELSE pend[b]]
  /\ UNCHANGED <<form, vols, referenced, content, count, decommissioned, mounts,
                 desired, disk, bootVars, uploadVars, controllerVars>>

\* blobProblems: lengths are of the slices, so duplicates count.
Copies(b) ==
  Cardinality(vols[b]) + MapThenSumSet(LAMBDA v : pend[b][v], Volumes)

BlobProblem(b, p) ==
  \/ Copies(b) < Cardinality(desired[p])
  \/ Cardinality({Zone[v] : v \in vols[b] \cup Pending(b)}) < MinZones[p]

DatabaseReconcileReplicationPolicy(cs, target) ==
  /\ "reconcile" \in Commands
  /\ LET fixed == {b \in Blobs :
                     /\ \E c \in cs : b \in content[c] /\ BlobProblem(b, PolicyOf[c])
                     /\ target \notin vols[b] \cup Pending(b)}
     IN  pend' = [b \in Blobs |->
                    IF b \in fixed THEN [pend[b] EXCEPT ![target] = 1]
                                   ELSE pend[b]]
  /\ UNCHANGED <<form, vols, referenced, content, count, decommissioned, mounts,
                 desired, disk, bootVars, uploadVars, controllerVars>>

VolumeRemoveQueuedReplications(v) ==
  /\ "remove_queued" \in Commands
  /\ v \notin controllers
  /\ \E b \in Blobs : v \in Pending(b)
  /\ pend' = Unqueue(v)
  /\ UNCHANGED <<form, vols, referenced, content, count, decommissioned, mounts,
                 desired, disk, bootVars, uploadVars, controllerVars>>

\* Some blob the purge touches would be left without a copy.
LosesLastCopy_CountsPending(v) ==
  \E b \in Blobs : /\ v \in vols[b] \cup Pending(b)
                   /\ (vols[b] \cup Pending(b)) \ {v} = {}

LosesLastCopy(v) ==
  \E b \in Blobs : v \in vols[b] \cup Pending(b) /\ vols[b] \ {v} = {}

VolumeMarkDataLost(v, onlyIfRedundancy) ==
  /\ (IF onlyIfRedundancy THEN "mark_lost_if_redundant" ELSE "mark_lost") \in Commands
  /\ ~Wanted(v)
  /\ onlyIfRedundancy => ~LosesLastCopy(v)
  /\ count' = [count EXCEPT ![v] = 0]
  /\ vols' = [b \in Blobs |-> vols[b] \ {v}]
  /\ pend' = Unqueue(v)
  /\ UNCHANGED <<form, referenced, content, decommissioned, mounts, desired,
                 disk, bootVars, uploadVars, controllerVars>>

VolumeDecommission(v) ==
  /\ "decommission" \in Commands
  /\ count[v] = 0
  /\ v \notin mounts
  /\ ~Wanted(v)
  /\ \A b \in Blobs : v \notin Pending(b)
  /\ decommissioned' = decommissioned \cup {v}
  /\ UNCHANGED <<form, vols, pend, referenced, content, count, mounts, desired,
                 disk, bootVars, uploadVars, controllerVars>>

ReplicationpolicyChangeDesiredVolumes(p, vs) ==
  /\ "change_policy" \in Commands
  /\ desired' = [desired EXCEPT ![p] = vs]
  /\ UNCHANGED <<form, vols, pend, referenced, content, count, decommissioned,
                 mounts, disk, bootVars, uploadVars, controllerVars>>

\* mountVolume.  The device given is the right one; a volume that was never
\* mounted has no blobs, so it is initialized.
VolumeMount(v) ==
  /\ "mount" \in Commands
  /\ v \notin mounts
  /\ v \notin mounted
  /\ mounts' = mounts \cup {v}
  /\ reload' = TRUE
  /\ UNCHANGED <<form, vols, pend, referenced, content, count, decommissioned,
                 desired, disk, mounted, controllers, uploadVars, controllerVars>>

VolumeUnmount_ForgetsController(v) ==
  /\ v \in mounts
  /\ mounts' = mounts \ {v}
  /\ controllers' = controllers \ {v}
  /\ reload' = TRUE
  /\ UNCHANGED <<form, vols, pend, referenced, content, count, decommissioned,
                 desired, disk, mounted, uploadVars, controllerVars>>

VolumeUnmount(v) ==
  /\ "mount" \in Commands
  /\ v \in mounts
  /\ mounts' = mounts \ {v}
  /\ reload' = TRUE
  /\ UNCHANGED <<form, vols, pend, referenced, content, count, decommissioned,
                 desired, disk, mounted, controllers, uploadVars, controllerVars>>

(***************************************************************************)
(* Restarts.  The new process mounts what the database lists; a volume     *)
(* whose mounting fails is only logged, and gets a controller all the same.*)
(***************************************************************************)
Boot ==
  /\ mounted' \in IF MountsMayFail THEN SUBSET mounts ELSE {mounts}
  /\ controllers' = mounts
  /\ reload' = FALSE
  /\ writing' = {}
  /\ upload' = [u \in Uploaders |-> Idle]
  /\ token' = NoQueue
  /\ queued' = [v \in Volumes |-> {}]
  /\ landed' = [v \in Volumes |-> {}]
  /\ UNCHANGED <<dbVars, disk>>

\* A reload waits for the jobs being carried out and the requests being
\* served; jobs not yet fed to a runner are abandoned.
Quiet == (\A v \in Volumes : landed[v] = {}) /\ (\A u \in Uploaders : ~Holds(u))

ReloadConfig == reload /\ Quiet /\ Boot

Crash == CrashAllowed /\ Boot

(***************************************************************************)
(* The specification.                                                      *)
(***************************************************************************)
UploadStep(u) ==
  \/ \E b \in Blobs, c \in Colls : ChooseVolume(u, b, c)
  \/ TryLock(u)
  \/ RefuseUpload(u)
  \/ \E hint \in Hints : StoreUpload(u, hint)
  \/ FailUpload(u)
  \/ WriteBlobCreated(u)

ControllerStep(v) ==
  \/ DiscoverJobs(v)
  \/ \E j \in queued[v] : LandJob(v, j) \/ DropJob(v, j)
  \/ \E b \in landed[v] : WriteBlobReplicated(v, b)

Command ==
  \/ \E from, to \in Volumes : VolumeMigrateData(from, to)
  \/ \E cs \in SUBSET Colls, v \in Volumes :
       DatabaseReconcileReplicationPolicy(cs, v)
  \/ \E v \in Volumes : VolumeRemoveQueuedReplications(v)
  \/ \E v \in Volumes, o \in BOOLEAN : VolumeMarkDataLost(v, o)
  \/ \E v \in Volumes : VolumeDecommission(v)
  \/ \E p \in Policies, vs \in SUBSET Volumes :
       ReplicationpolicyChangeDesiredVolumes(p, vs)
  \/ \E v \in Volumes : VolumeMount(v) \/ VolumeUnmount(v)

Next ==
  \/ \E u \in Uploaders : UploadStep(u)
  \/ \E c \in Colls, refs \in SUBSET Blobs : Commit(c, refs)
  \/ \E v \in Volumes : ControllerStep(v)
  \/ Command
  \/ ReloadConfig
  \/ Crash

Spec == Init /\ [][Next]_vars

\* The scheduling the liveness property needs.  Uploads, commands, reloads and
\* crashes are under no obligation.  A controller's loop and its runners keep
\* running (weak fairness would do in a process that never restarts); strong
\* fairness says restarts and temporary driver errors do not hit every single
\* attempt at the same step.
LandsJob(v, b) == \E j \in queued[v] : j.ref = b /\ LandJob(v, j)

Fairness ==
  \A v \in Volumes :
    /\ WF_vars(DiscoverJobs(v))
    /\ \A b \in Blobs :
         /\ SF_vars(LandsJob(v, b))
         /\ SF_vars(WriteBlobReplicated(v, b))

FairSpec == Spec /\ Fairness

(***************************************************************************)
(* Safety.                                                                 *)
(***************************************************************************)
\* The accounting is exact: Volume.BlobCount, which decides whether a volume
\* may be decommissioned or initialized, is the number of blobs whose row
\* lists the volume, whatever uploads, replications and commands interleave.
CountAccurate ==
  \A v \in Volumes : count[v] = Cardinality({b \in Blobs : v \in vols[b]})

\* A volume is never both in a blob's Volumes and in its replication queue,
\* so writtenAndPendingVolumes and blobProblems count no replica twice on
\* that account, and a finished replication is not begun again.
WrittenNotPending == \A b \in Blobs : vols[b] \cap Pending(b) = {}

\* "race condition: someone already replicated" is never reported: a job is
\* never in flight for a blob its volume already has, and no blob is in
\* flight to a volume twice.
NoDoubleReplication ==
  \A v \in Volumes :
    /\ \A b \in InFlight(v) : v \notin vols[b] /\ Exists(b)
    /\ \A j, k \in queued[v] : j.ref = k.ref => j = k
    /\ {j.ref : j \in queued[v]} \cap landed[v] = {}

\* Two requests never write the same blob at once, and the one that does
\* finds it still unknown when it records it: WriteBlobCreated never
\* overwrites a row (and with it the key that decrypts the blob).
UploadsExclusive ==
  \A u \in Uploaders :
    Holds(u) => /\ upload[u].ref \in writing
                /\ ~Exists(upload[u].ref)
                /\ \A w \in Uploaders \ {u} :
                     Holds(w) => upload[w].ref # upload[u].ref

\* Every replica the database lists is intact: the file on that volume is the
\* one whose checksum and key the row records, so any of them can serve a
\* read.  True of drivers that overwrite, and of all drivers while every file
\* that was stored for an upload is recorded.
ReplicasIntact ==
  \A b \in Blobs : \A v \in vols[b] : disk[v][b] = form[b]

\* A volume without a replication controller has no work in flight, so
\* removing its queued replications cannot race a batch that was already
\* read: the guard of VolumeRemoveQueuedReplications is enough.
NoWorkWithoutController ==
  \A v \in Volumes \ controllers : InFlight(v) = {}

\* A decommissioned volume holds no blobs ("refusing to decommission
\* non-empty volume for your safety").
DecommissionedEmpty == \A v \in decommissioned : count[v] = 0

\* While one policy rules every collection and is not changed, each blob of a
\* collection is on every volume the policy desires, or queued for it: no
\* crash, migration, purge of another volume, reload or second commit takes
\* a replica or a queued replication away.
CommittedPlaced ==
  \A c \in Colls : \A b \in content[c] :
    desired[PolicyOf[c]] \subseteq vols[b] \cup Pending(b)

\* If operators mark data lost only with OnlyIfRedundancy, each blob the
\* server knows keeps a recorded copy: the purge sees every blob it would
\* leave with nothing but a queue, whatever migrations and replications are
\* under way.
LastCopyGuarded == \A b \in Blobs : Exists(b) => vols[b] # {}

(***************************************************************************)
(* Action properties.                                                      *)
(***************************************************************************)
Cancels(v) ==
  \/ VolumeRemoveQueuedReplications(v)
  \/ \E o \in BOOLEAN : VolumeMarkDataLost(v, o)

\* A queued replication leaves the queue by being done or cancelled by an
\* operator, in spite of crashes, errors and whatever else happens.
QueueResilient ==
  [][ \A b \in Blobs : \A v \in Pending(b) \ Pending(b)' :
        v \in vols'[b] \/ Cancels(v) ]_vars

\* The same, except that committing a blob recomputes its queue from the
\* policy of the collection committed to: the only other way out.
QueueLostOnlyByCommit ==
  [][ \A b \in Blobs : \A v \in Pending(b) \ Pending(b)' :
        \/ v \in vols'[b]
        \/ Cancels(v)
        \/ \E c \in Colls, refs \in SUBSET Blobs : b \in refs /\ Commit(c, refs)
    ]_vars

(***************************************************************************)
(* Liveness: with one policy that is not changed, a queued replication     *)
(* eventually becomes a replica, through crashes, reloads, temporary       *)
(* errors and a batch limit smaller than the queue.                        *)
(***************************************************************************)
QueueDrains ==
  \A b \in Blobs, v \in Volumes : v \in Pending(b) ~> v \in vols[b]

(***************************************************************************)
(* The abstract specification.  A copy is a listed volume whose file is    *)
(* intact, so a listed volume with another file is a lost copy.            *)
(***************************************************************************)
IntactCopies ==
  [b \in Blobs |-> {v \in vols[b] : disk[v][b] = form[b]}]

Promise == INSTANCE ReplicaSet
             WITH Contents <- Forms, stored <- form, copies <- IntactCopies

KeepsPromise == Promise!Spec
=============================================================================
