# Varasto, specified

TLA+ specifications of Varasto: what its components keep, what their operations
do to it when they interleave, fail and restart, which properties make them
correct, TLC runs that check the properties on small instances and TLAPS proofs
of the most important ones for every instance.

Every definition is translated from the Go source under `src/`; `PROJECT.json`
maps each to its lines.

    tlc -workers 2 -config accounting.cfg MCBlobStore.tla
    tlapm BlobStore_proofs.tla

## The system

Varasto stores files. A *collection* is a versioned directory of files; a file
is a list of *blobs* (4 MB chunks named by the hash of their plaintext); a blob
is stored, compressed and encrypted, on one or more *volumes* (disks, cloud
buckets). One server process owns a bbolt database with all metadata; clients
upload blobs and commit *changesets* over HTTP; background controllers inside
the process copy blobs, verify them, run jobs and keep helper processes alive.

| Component | State it keeps | Operations | What makes it correct |
|---|---|---|---|
| Disk access (`stodiskaccess`, `dbbma` in `server.go`) | mounted drivers, per-blob locks; rows of blobs and volumes | upload, replicate, fetch, scrub | one writer per blob, a row is never overwritten, exact blob counts, every listed replica readable |
| Replication controllers (`storeplication`), one per mounted volume | continue token, a batch of jobs | discover, copy, record | nothing queued is lost or done twice; the queue drains |
| Data-management commands | rows of blobs, volumes | migrate, reconcile, purge, decommission, cancel | last copies are guarded; a decommissioned volume is empty |
| Volumes, mounts, policies | rows | mount, unmount, change desired volumes | counts and queues stay consistent with them |
| Drivers (`localfs`, `googledrive`, `s3`) | files | store, fetch | a stored blob is what the row says |
| Collections, changesets (`restapi.go`) | history of changesets, head | upload, commit, move, delete files | history is a chain from the root to the head, moves conserve files, committed blobs exist |
| State resolver | none (pure) | resolve a path of changesets to files | later changes win, deleted files stay away |
| Encryption keys (`stokeystore`) | per-collection envelopes | encrypt, open, copy envelopes on deduplication | whoever may read a file can open each of its blobs |
| Directory tree (`commandhandlers.go`) | rows of directories and collections, two indices | create, move, rename, delete; effective policy | exact indices, unambiguous names, nothing orphaned; a collection is ruled by its nearest policy |
| Integrity verifier | running jobs and their progress | resume, stop, list | every damaged blob is reported; progress is never lost; a shutdown ends |
| Scheduler, snapshotter | next and last runs | run, trigger, snapshot, save | a scheduler's runs of a job do not overlap, results are saved, shutdown ends |
| Child processes, subsystems | the process, wanted or not | start, stop, restart after a crash | at most one child, none between runs; stops end |
| Configuration reload (`restartcontroller`) | one running server | restart | no change is overlooked, no restart is refused |
| blorm | buckets, secondary indices | update, delete, query | an index is a function of the records |
| Change feed, media scanner (`stomediascanner`) | global version per collection, cursor, scans | list changes since, make thumbnails, commit them | no change is missed; the scanner gets to the end of its own commits |
| Client (`stoclient`) | manifest of each working directory | clone, push, remove | an accepted push is exactly what was read; nothing that was read and has no other copy is removed |
| Background uploader (`stoclient`) | uploaders, channels of jobs and results | discover, upload, retry, wait | committed blobs are uploaded; a push ends however uploads fail |
| FUSE server (`stofuse`) | blob cache; nodes of collections and their working directories | read, write, push from within | readers see right bytes, blobs are not fetched twice; what was not committed is kept |
| Bootstrap, export, import, migrations | the database file | bootstrap, migrate, export, import | an import that succeeds restores a content there was |

They meet in the database (transactions, one writer at a time), in the
controllers' channels, and at the restart: the configuration reload tears down
everything in memory and builds it again from the database. Programs outside the
server (clients, the media scanner, the FUSE server, the last two its child
processes) meet it, and each other, in the changesets of collections.

Hard about it: what happens between two transactions of one operation (a volume
chosen, then written to, then recorded); batches of work read from the database
and done later; crashes between a file and its row; shutdown orders between
goroutines that wait on each other's channels. `PROJECT.json` lists each hazard
at its line.

## Modules

| Module | Models |
|---|---|
| `BlobStore` | disk access, replication controllers, data-management commands, mounts, restarts |
| `ReplicaSet` | abstract specification: content and copies of each blob |
| `MCBlobStore` | instances for TLC |
| `BlobStore_proofs` | inductive invariant, type correctness, safety; replicas are intact; `BlobStore` implements `ReplicaSet` |
| `Scheduler` | job scheduler, job runs, snapshotter, requests, stopping, reloading within the process and restarting |
| `MCScheduler` | instances for TLC |
| `Scheduler_proofs` | types, no overlap within a scheduler, the timer, monotone results |
| `Collections` | changesets, commits, moves, deletions, the resolver, encryption keys, restarts |
| `VersionedTrees` | abstract specification: collections as trees with versions |
| `MCCollections` | instances for TLC |
| `Collections_proofs` | what `ComputeStateAt` computes; chains, keys; `Collections` implements `VersionedTrees` |
| `Workdirs` | extends `Collections` by the client: clone, push, one-off pushes, remove |
| `MCWorkdirs` | instances for TLC |
| `Workdirs_proofs` | types; what a client has seen stays true; exact pushes; what `rm` removes |
| `Server` | the restart controller, one run of the server, configuration changes, subsystems and the controller of their child process |
| `Verifier` | the integrity verifier: controller, workers, saved progress |
| `Database` | the database file: bootstrap, migrations, exports, imports, kills |
| `MCBackground` | an instance with the three above side by side |
| `Background_proofs` | of each of the three, and of them together: types; one child, noticed changes; complete reports, kept progress; restored contents |
| `Directories` | the directory tree, its collections, names, indices and policies |
| `MCDirectories` | its instance for TLC |
| `Directories_proofs` | types, indices, names, orphans, policies |
| `MediaScanner` | the change feed, the scanner's cursor, scans and commits |
| `Uploads` | one push's scan, background uploaders and commit |
| `BlobCache` | reads of a file through the FUSE server's cache and blocking locks |
| `FuseMount` | a mounted collection with uncommitted files and pushes from within |
| `MCClients` | an instance with the four above side by side |
| `MediaScanner_proofs` | types; no change is missed |
| `Clients_proofs` | of the other three, and of the four together: types; commits name what is uploaded; exact reads, no double downloads; scanned work is committed |

### BlobStore

A bbolt transaction is one action, because there is one writer and readers see
a snapshot. What lies between two transactions of an operation is an action of
its own, so uploads, controllers, operators and restarts interleave there.

| Code | Action |
|---|---|
| `UploadBlob`: `whichInitialVolumeToWriteCollectionBlobsTo` | `ChooseVolume` |
| `WriteBlobNoVerify`: lock, existence check | `TryLock`, `RefuseUpload` |
| ... encrypt, `RawStore` | `StoreUpload`, `FailUpload` |
| ... `dbbma.WriteBlobCreated`, deferred unlock | `WriteBlobCreated` |
| `commitChangesetInternal`, what it does to blobs | `Commit` |
| `discoverReplicationJobs` | `DiscoverJobs` |
| `Controller.Replicate` until stored, its failure | `LandJob`, `DropJob` |
| `dbbma.WriteBlobReplicated` | `WriteBlobReplicated` |
| commands of the same name | `VolumeMigrateData`, `DatabaseReconcileReplicationPolicy`, `VolumeRemoveQueuedReplications`, `VolumeMarkDataLost`, `VolumeDecommission`, `ReplicationpolicyChangeDesiredVolumes`, `VolumeMount`, `VolumeUnmount` |
| `configReloader.ReloadConfig` and the boot it causes | `ReloadConfig` |
| death of the process, and the next boot | `Crash` |

`FailUpload` is also a transaction that fails after `RawStore` has stored the file,
which leaves the file as a crash would. Constant `CrashAllowed` allows both.

Abstractions. A blob's bytes are a `Form`, the collection whose key encrypted it
and whether it was compressed: two uploads of one content differ on disk exactly
when their forms differ, and the form stands for the row's key id, compression
flag and checksum. `VolumesPendingReplication` is a list that may hold a volume
twice, hence a bag (`pend[b][v]`). The pending-replication index is the set it
denotes. Which of several equally cheap volumes `BestVolumeID` takes depends on
slice order and is left open. Fetching changes nothing. Collections are not
deleted. A reload waits for requests being served and jobs being carried out
because the HTTP server's shutdown waits for its requests; that wait is in the
library the server is started with, not in this repository.

### ReplicaSet

What the store promises in two variables: the content of each blob, set once,
and the volumes that hold a copy of exactly that. A volume gets a copy of what the
blob was stored as, one volume at a time, and copies go only when their volume is
declared lost. (That there is a copy left to make one from is not asked here: a
volume may be declared lost while a copy is on its way. `LastCopyGuarded` is the
property about the last copy.) `KeepsPromise` says
`BlobStore` implements it when a copy is a listed volume *whose file is the one
the row describes*.

### Scheduler

One action per case of the loop's `select`, per channel operation of the other
goroutines and per request. A handler that ends by sending on a channel is two
actions, because other goroutines run while it blocks: `outbox` holds the
snapshot that `recordJobFinished` is sending.

| Code | Action |
|---|---|
| `Controller.run`: timer, trigger, snapshot request, result | `Fire`, `ServeTrigger`, `ServeSnapshot`, `ReceiveResult` |
| ... the send at the end of `recordJobFinished` | `Emit` |
| ... cancelled context: for each running job wait for a result | `BeginStop`, `StopOne`, `StopEnd` |
| `startJob` and its goroutine | `StartJobs`, `FinishRun` |
| snapshotter task, `handleSnapshot` | `TakeSnapshot`, `SaveSnapshot`, `StopSnapshotter` |
| `Controller.Trigger`, `Controller.Snapshot` | `Ask` |
| `ScheduledjobEnable`, `ScheduledjobDisable` | `ScheduledjobToggle` |
| `setupScheduledJobs` | `Boot`, in `Reload` and `Restart` |
| `tasks.Wait` returns, the restart controller runs the server again | `Reload`; `EndLeftBehind` ends a run from before |
| the process ends after a stop, or dies; it is started | `ProcessEnds`, `Restart` |

A reload happens in the same process. Of the jobs it finds running a stopping
scheduler waits for one result each, but takes whichever comes first, so it may
stop while a run goes on; after `Reload` that run is in `leftBehind`, the new
scheduler knows nothing of it, and only the end of the process is sure to end it.
`NoOverlap` is therefore about one scheduler, and says what a stopped one may leave
behind: at most half of its jobs, so nothing if it has one. That no two runs of a
job overlap, of whichever scheduler, is `NeverTwice`, which does not hold.
`RunsRecorded`, `DueIsSeen` and `RequestsServed` name what a stop and a death
take with them: the snapshotter leaves when the context is cancelled, so results that
come later are lost, and a run that dies with the process has no result.

Abstractions. Time is a counter, a schedule a period. A run is known by when it
started. Rows are read again when a snapshot is saved, so that only the fields
the snapshot has are overwritten.

### Collections

A transaction is one action here as well.

| Code | Definition |
|---|---|
| `commitChangesetInternal` | `CommitChangeset`, whose guards are its early returns in their order |
| `copyAndReEncryptDekFromAnotherCollection`, `extractKekPubKeyFingerprints` | `CanCopy`, `WithEnvelopes` |
| `appendAndValidateChangeset` | `FitsTree`, `Appended`, and `head'` |
| `ComputeStateAt` | `StateAt`, `Applied` |
| `CollectionDeleteFiles`, `CollectionMoveFilesIntoAnotherCollection`, `discoverRelatedFilePaths` | actions of the same names, `Related` |
| `createCollection`, `CollectionDelete` | `CollectionCreate`, `CollectionDelete` |
| `WriteBlobNoVerify`, until the ciphertext is stored; `WriteBlobCreated` | `BeginUpload`, `RecordUpload`, `FailUpload` |
| `KekGenerateOrImport`; `loadAndFillKeyStore` at the boot that follows | `KekGenerateOrImport`, `Restart` |

Abstractions. A file is its content; of a content only its blobs and the path
its thumbnail has matter (thumbnails are files named by the hash of another).
Sizes and times are left out. A path is created, updated or deleted at most once
by a changeset. The first envelope of a collection is the one with its own DEK.
`copyAndReEncrypt...` tries the collection whose id comes first; ids are random,
so any collection with an envelope may be the one. Opened keys are cached by the
code; what is cached was opened by a KEK of the running process, so the cache
never opens what the KEKs would not. Collection and changeset ids are drawn at
random and taken to be new; a *repeated request* does reuse its id, and a client
may send any parent it has seen. The media scanner adds thumbnails and the
metadata commands add banners by the same commits, so `ClientCommit` is they as
well. That a commit needs its blobs to have rows is modelled; the rows' volumes
are `BlobStore`'s.

`StateAt` walks along parents the way the code does, so it ends only because the
history is a chain: `HistoryIsChain` is what makes the resolver total.

### VersionedTrees

"Like a Git repository": a list of trees per collection. A version never changes,
one operation adds one version, except that a move adds one to each of two and
conserves the files. `IsVersioned` says `Collections` implements it when a
version is what `ComputeStateAt` resolves a changeset to.

### Workdirs

The client side, composed with every action of `Collections`.

| Code | Action |
|---|---|
| `clone`, `adopt` | `clone` |
| `push` up to the commit: `computeChangeset` | `push` |
| `pushOne` up to the commit | `pushOne` |
| `Client.Commit`, `commitChangesetInternal`, and what `push` saves afterwards | `Commit`; the answer may get lost |
| refusal, failed uploads, interruption | `Abandon` |
| `rm` | `rm` |

A scan reads a file the collection has only if its size or its modification time
differs from the record; otherwise the file is taken to be unchanged. Sizes and
times are up to the user, so any set of the known files may be left unread
(`unread`, a subset of `KnownFiles`), whatever is in them: `Taken` is what a scan
makes of them. `PushIsExact` says that an accepted push makes the collection what
was read, and that what was not read stays what the collection had;
`RemovesOnlyCopies` that what `rm` removes is by name the files of one version, and
the same there wherever it was read. That whatever `rm` removes has a copy
(`RemoteHasFullState`) does not hold.

`clone` saves the manifest before it looks the revision up: a manifest may name a
revision the collection does not have (`UnknownRevision`) and stays. Every push from
such a directory is refused.

`computeChangeset` compares with the head of the *copy of the
collection* in the manifest, and names the manifest's revision as the parent:
after a clone of an older revision the two differ, and the server refuses the
push. After a lost answer every later push from the directory is refused, for the
same reason; nothing is lost by that, which is what the properties say. Uploads
are `Collections`' (a commit is enabled once the rows are there). What a scan
finds is open, so users who edit during a push and interrupted downloads are
covered.

### Server

The outermost loop (`restartcontroller`), what one `runServer` goes through, the
requests that change what a boot reads, and `childprocesscontroller`'s handler.

| Code | Action |
|---|---|
| `Controller.Run` of `restartcontroller` | `TimedRestart` (its case for a restart), `RunnerStartsAgain`, `RunnerExits` |
| `runServer`: configuration and subsystems, tasks, the wait for them | `Boot`, `BootFails`, `Serve`, `SetupFails`, `OthersReturn`, `TasksEnd` |
| tasks that fail, the HTTP server's shutdown | `TaskFails`, `StopListening` |
| commands that end in `confreload`, `configReloader.ReloadConfig` | `ChangeConfig`, `ReloadConfig`, `TimedRestart` after the sleep |
| `SubsystemStart`, `SubsystemStop` | `CheckStart`, `CheckStop`, then `FlipEnabled`, then a wait for the handler |
| `handler`: start, stop, done, exited, after the pause | `TakeStart`, `TakeStop`, `HandlerDone`, `TakeExited`, `BackoffEnds` |
| `stopSubprocess`'s wait | `ChildStopped` |

`enabled` is read and written without a lock by the two commands, so reading it
for the flip may give the value before or after another's flip: `FlipEnabled`
takes either. A start that fails leaves `cmd` without a process and its error in
the channel; a stop that comes first looks at the process there is not, which is
a panic (`runner = "crashed"`). `once` is a run's own (`sync.Once` per
`configReloader`), and `RunnerStartsAgain` makes a new one. `tasks.Wait` waits for
every task: besides the HTTP server and the child process's handler these are the
verifier, the scheduler, the snapshotter, the replication controllers and the metrics
collector, whose return is `OthersReturn`. All but one return by themselves once
the context is cancelled (`VerifierReturns` is the verifier's); the scheduler may hang
(`SchedulerStops` in `Scheduler` does not hold), and then `tasks = "stuck"` and the
run does not end. A boot may fail, a
task may, a signal may come: each at any time.

### Verifier

| Code | Action |
|---|---|
| `VolumeVerifyIntegrity`; `Controller.Resume`, `Controller.Stop` | actions of the same names |
| `run`: cases of its `select` | `TakeResume`, `TakeStopRequest`, `HandleStopped`, `ContextDone`, `Return` |
| `resumeJobWorker`: a batch, or none because the read fails; a blob noted (and saved every few seconds, which may fail); a blob verified | `FetchBatch`, `BatchFails`, `NextBlob`, `Scrub`, `BatchDone` |
| its deferred save; the report on `stopped` | `SaveAtEnd`, `ReportStopped` |
| a crash, a boot | `Crash`, `StartAgain` |

Blobs are numbered in the order of their names. The rows of a batch, and with
them the volumes blobs are on, are read when it is fetched; blobs may arrive
between. A report's length is counted in lines, one or two per damaged blob. A
job that ends because its report is too long is not completed, and never passes
the next damaged blob however often it is resumed; nothing promises otherwise.
The channels hold one element: a sender that waits is a request not yet made.

### Database

| Code | Action |
|---|---|
| `stodb.Open`, `readConfigFromDatabase` with the migrations | `ServerStart`, `ReadConfigFromDatabase` |
| `Bootstrap`, `configureClientConfig` | `ConfigureClientConfig`, then `Bootstrap`, which commits |
| `DatabaseBackup`, `Export` | `DatabaseBackup` (the read transaction begins), `ExportRepo`, `StoreBackup` |
| `Import`, `BootstrapRepos`, `importDBInternal`, `withTx` | `ImportOpens`, `BootstrapRepos`, `ImportRecord`, `ImportEnds` |
| a process ends or is killed; an operator moves the file away | `ProcessEnds`, `MoveAway` |

The file is locked by the process that has it open, hence one process. `past` is
history. An import into a file an interrupted import left is refused; a server
started on it serves it when the node's record is in, which the model does and
`ImportRestoresThePast` is silent about, since such an import never said it was
done.

### Directories

Every command is a transaction, hence an action of the same name. `SaveDir`,
`SaveColl`, `DeleteDir`, `DeleteColl` are `blorm`'s saving and deleting: each takes
entries out of the two indices (`subdirs`, `contents`) and puts entries in, from
the stored record and the new one, and everything that looks for children or
siblings does so through `SubDirectories` and `CollectionsByDirectory`.
Identifiers are random and never come back. `DirectoryMove` refuses only a
directory that becomes its own parent, so cycles occur; `CreateSpins` is the
walk to the nearest policy that then never ends, inside a write transaction, after
which nothing else happens. What lies above a directory, what lies below it, and what
`createCollection` walks through up to the first directory with a policy, is each
the smallest set closed under the step the code walks by, so that cycles need no
bound. `DirectoryCreate` does not look whether its parent
exists. `DiscoverPolicies` is `DatabaseDiscoverReconcilableReplicationPolicies`:
it hands policies down from the root and saves them in collections.

### MediaScanner

| Code | Action |
|---|---|
| `CollectionChangefeed` | `CollectionChangefeed`, the oldest changes after a cursor |
| `runTask`: start, poll, item done, its ticker | `Start`, `Poll`, `ItemDone`, `SaveWhilePolling` |
| `collectionThumbnailsOneBatch` | `FetchColl` (the snapshot), `CollectionThumbnailsOneBatch`: `NothingMade`, `CommitBatch`, `CommitConflicts` |
| `TriggerScan` | `TriggerScan`, a second scan beside the task's |
| commands and commits of others | `CreateColl`, `PushFiles`, `DeleteFiles`, `MoveFiles`, `PullMetadata`, `DeleteColl`, `ConfigSetMediascannerState` |

A collection is its files and the contents there are thumbnails of; which image
can be made small is open, and remembered in `skipped` until the collection
changes, since a failed image is not tried again before. `Outcomes` lists what a
batch can come to. Any error ends the process, which is started again from the
saved cursor. The clock that versions come from goes forward.

### Uploads

| Code | Action |
|---|---|
| `ScanAndDiscoverBlobs`, `BlobDiscovered` | `Discover`, `DiscoveryFails`, `DiscoveryEnds` |
| `runOneUploader`, `upload`, `uploadInternal` | `Discard`, `StartUpload`, `Deduplicate`, `NotThere`, `Uploaded`, `Retry`, `GiveUp` |
| closing `cancelCh` at the first error | `LookAtCancelCh`, `CloseCancelCh` |
| end of the jobs, `WaitFinished`, `Commit` | `UploaderReturns`, `HearResult`, `AllFinished`, `CommitEnds` |

The channel of jobs is unbuffered, so handing over is one step of two goroutines
(`Receives`). Reporting to the progress display is a send too: uploaders wait for
it, and it is closed only at the end (`progress`).

### BlobCache and FuseMount

`BlobCache` has the reads of one committed file: `alignReads` cuts a read at
blobs' borders; `Get` takes the blob's lock (`Lock`, the form of `MutexMap` that
waits), looks in the cache (`GetCached`) or downloads (`DownloadChunk`,
`Downloaded`, `DownloadFails`) and evicts. Bytes are pairs of blob and position.

`FuseMount` has one collection: the node cached by `byIDDir` and its making by
concurrent lookups, the user's operations on uncommitted files
(`CreateFile`, `WriteFile`, `RemoveFile`, `RenameFile`; the kernel may go on using a
node that was forgotten, so that they take any of `nodes`, of a version that may be
old), a push whose working
directory is the mount (`PushScan`, `PushAccepted`, `PushRefused`), what saving its
manifest triggers (`CreatePart` empties the working directory,
`forgetCollection` drops the node), other clients' commits and remounts.

## Runs

| Run | Instance | Shows |
|---|---|---|
| `accounting` | 2 blobs, 2 volumes, 2 uploads, batch limit 1, every command that touches a blob's volumes, crashes | counts are exact; no replication is done twice |
| `intact` | 1 blob, 2 volumes whose drivers overwrite, 2 forms, changing policies, failing mounts, crashes | listed replicas are intact, `BlobStore` implements `ReplicaSet`, a purge given `OnlyIfRedundancy` takes no last copy, queued work goes away only by being done, cancelled, or recomputed by a commit |
| `drains` | 2 blobs, batch limit 1, crashes, fairness | each queued replication is eventually done; committed blobs stay on, or queued for, all desired volumes |
| `orphan_kept` | 2 forms, keeping driver, crashes and failed transactions | violation: a leftover file is taken for the new content |
| `jobs_run` | 2 jobs, triggers, operators, stops, reloads, crashes | a scheduler's runs of a job do not overlap, and a stopped one has waited for at least half of its jobs; the saved last run of a job never goes back |
| `jobs_recorded` | 2 jobs, channel of 1, stops, reloads, crashes, fairness | due jobs start, results are saved, requests are served, each unless the server stops or dies first |
| `histories` | 2 collections, 2 paths of which one is a thumbnail's, 1 content of 2 blobs, 2 KEKs, 4 changesets | histories are chains, keys follow files, collections are versioned trees |
| `pushes` | 1 collection, 2 paths, 2 contents, 3 changesets, 1 working directory, unread files, a revision there is not | accepted pushes are exact, `rm` removes only copies, but for what was not read |
| `background` | server: 2 requests, 1 setting; verifier: 1 job, 2 workers, 3 blobs, batches of 2; database: 2 records, batches of 2 | one child at most, and none is left behind; no change of configuration goes unnoticed; a stop ends unless a request is left behind or the scheduler hangs; reports are complete, progress is kept, verifiers return; imports restore a content there was |
| `directories` | root and 2 directories, 2 collections, 2 names, 2 policies, 3 records ever made | indices are exact, names unique, nothing is orphaned by a deletion, the walk that reconciles policies agrees with the one that creates collections |
| `clients` | scanner: 2 collections; push: 2 uploaders, 2 refs, 3 chunks; readers: 2, a file of 3 blobs, a cache of 2; mount: 2 names, 2 contents | commits name only what is uploaded, pushes end; no change is missed, the scanner catches up; readers get right bytes, nothing is downloaded twice at once; what a push from within the mount has scanned is committed or still there |
| `uncommitted_lost` | the mount of `clients` | violation: a push from within the mount removes what it has not scanned |

Two runs hold several components that do not share state in the model
(`background`, `clients`). Their next-state relation has a `subject`, chosen at the
start, and only the subject moves: the state space is the sum of the components'
and not the product. The others wait in a state where no fair action is enabled.

Bounds of the blob store. Two blobs and a batch limit of one are what the
continue token needs: a batch that leaves something behind. Two uploads are what a
race needs. `MaxQueued` bounds duplicate entries of one volume in one queue (2 in
`accounting`, so that duplicates happen; with 1 `VolumeMigrateData` is disabled
where the code would append one). Nothing else is bounded: there are no counters
besides.

Bounds of the scheduler. `MaxTime` stops the clock and bounds triggers, each of
which moves the next run; two or three ticks let each job be due, overdue and
triggered. The snapshot channel has capacity 1 instead of 2, where it is full
soonest.

Bounds of collections. Only `ChangesetIDs` is a bound of the model's own: no
changeset is made after the last id is used. Four are needed for a move (two at
once) onto what another changeset made, three for a race with a stale revision. In
`histories` the two blobs of the one content may be uploaded for different
collections, so that a file needs keys of both; a changeset that updates a file
needs a second content, which `pushes` has, and the theorems cover any number. The
collection that cannot be created before a KEK is in the key store needs one KEK,
a KEK that comes later the second. In `pushes` all contents share one blob and
there are no thumbnails, since keys and moves are what `histories` is for.

Bounds of `background`. Two requests race on one subsystem's flag and controller, or
on one setting. Of the verifier's three blobs two are there when it starts, one
arrives later, and one is damaged and the last of a batch of two, where the next
batch begins: it may be reported twice, with one or two lines each time, which is
more than the two lines of `ReportLimit`. An export takes one batch per record and the node record by
itself; `MaxMoves` bounds how often an operator moves the file away, `MaxTokens` the
tokens a bootstrap draws.

Bounds of `directories`. `MaxRecords` bounds the directories and collections ever
made, deleted ones included: three are a chain of directories below the root with
a collection in the last, or a cycle of two with a collection. Identifiers are
interchangeable, hence the symmetry; the properties are invariants and properties
of single steps.

Bounds of `clients`. `MaxEvents` bounds what others do to collections, `FeedLimit` 1
and `ImageLimit` 0 are the limits of a page of the feed and of a batch at their
smallest, so that two changes need two polls and every image is a batch of its
own. Two refs in three chunks make one chunk a repetition. A file with one blob
more than the cache has room for makes every reader evict. `MaxVersions` bounds
the versions of the mounted collection.

### Fairness

Blob store (`FairSpec`). Controllers' loops and job runners are goroutines that are
always running while the process is: weak fairness would be right for one
process. Restarts and driver errors reset a controller in the middle of a batch,
so strong fairness on copying and on recording says that neither hits every
attempt; the documentation calls the errors temporary. Uploads, commits,
commands and restarts have no fairness. In `drains` the policy and the mounts do
not change, since a queue for a volume that is never mounted does not drain.

Scheduler. The loop is a `select`: Go picks any ready case, so each case that is
ready again and again is taken, which is strong fairness per case. Job functions
return sooner or later, though not all heed the cancelled context. Nobody need stop
the server, start it again or ask it anything.

Server, verifier (`ServerFairness`, `VerifierFairness`). Each goroutine's next step is
taken once it stays possible: weak fairness. A child process that was sent a signal
exits. Nobody need send a signal, change a configuration, start or stop anything,
and nothing need fail; a task that fails again and again restarts the server for
ever, which `StopsUnlessStuck` excludes by its premise.

Uploads (`UploadsFairness`). Weak fairness for goroutines. An upload that fails is
tried again for three minutes: strong fairness of `GiveUp` says that one that keeps
failing is given up, not that any succeeds.

Media scanner (`ScannerFairness`). Its process is started again when it has ended, it
polls for ever, and its scans' steps are taken: weak fairness. Kills, like what
others do to collections, are events, of which there are `MaxEvents`. Reads, the
mount, directories and the database file have no fairness, and no liveness
property.

### Findings

Where code and its own words disagree. Two are runs that TLC refutes:

* After a crash between storing and recording, or a transaction that fails there, a driver that keeps existing
  files and a second upload with another key or compression leave a row that
  does not describe the file (`orphan_kept`).
* A push from within a FUSE mount ends in removing the working directory, with what
  was written after it was scanned (`uncommitted_lost`).

The others are stated in the modules, as definitions that do not hold or as states
the model reaches, and are described in `PROJECT.json`:

* A volume can be decommissioned while an upload that chose it is on its way
  (`DecommissionedEmpty` in `BlobStore`).
* Committing a file that shares a blob overwrites the blob's replication queue
  (`QueueResilient` in `BlobStore`; what does hold is `QueueLostOnlyByCommit`).
* With one job more running at shutdown than the snapshot channel has places,
  the scheduler never stops (`SchedulerStops`): the snapshotter leaves first.
* For the same reason results that arrive during a shutdown, or wait in the channel
  when it begins, are not saved (`RunsRecorded` holds only with that exception).
* A stopping scheduler may leave a run behind, and the server that runs next in the
  same process starts the job beside it (`NeverTwice`).
* A change that keeps a file's size and modification time is invisible to a push, and
  to `rm`, which removes it (`RemoteHasFullState` in `Workdirs`; what does hold is
  `RemovesOnlyCopies`).
* A request that starts or stops a subsystem while the server stops may send to a
  handler that has returned, and is never answered; neither does the server then
  stop (`StopsWhenAsked` in `Server`; what does hold is `StopsUnlessStuck`).
* A child process that fails to start has no process to signal: a stop that is
  handled before the failure panics (`runner = "crashed"` in `Server`).
* Two uploaders that fail together may close `cancelCh` twice, which panics
  (`pusher = "panicked"` in `Uploads`).
* The thumbnailer deletes the wrong entry of its map after a move, so that the
  image it has just moved is thumbnailed as well (`Outcomes` in `MediaScanner`).

## Proofs

`StorageInv` (in `BlobStore_proofs`) is the inductive invariant. `CountAccurate`
alone is not inductive: recording a replica adds one to a count, which is right
only if the volume was not listed, which holds for uploads because the holder of
a lock knows the blob has no row (`UploadsExclusive`), and for replications
because `WriteBlobReplicated` looks. That a blob in flight has a row, is not
listed on the volume it is in flight to and is in flight there once
(`NoDoubleReplication`) needs that nothing but the controller itself lists the
volume, and that queues and lists are disjoint (`WrittenNotPending`), which each
command that queues has to keep. `StorageInv` is the conjunction of these and of
the type invariant.

| Theorem | Of every instance |
|---|---|
| `TypeCorrect`, `StorageInvariant` | the types; the inductive invariant |
| `AccountingExact`, `WrittenLeavesQueue`, `UploadsNeverCollide`, `ReplicatesOnce` | its parts |
| `IdleWithoutController` | a volume without controller has no work in flight |
| `LastCopyIsGuarded` | known blobs keep a copy, assuming purges are given `OnlyIfRedundancy` |
| `QueueIsResilient` | queued work goes only by being done, cancelled, recomputed |
| `CommittedStaysPlaced` | committed blobs stay placed, assuming one policy that does not change |
| `EveryReplicaIntact`, `BlobStoreKeepsPromise` | replicas are intact and `ReplicaSet` is implemented, assuming drivers overwrite, or every stored file is recorded (no crash and no failed transaction in between) |

The last two rest on `ContentInv`: what an upload has stored is what it will
record, and what a controller has landed is what the row describes.

`NoOverlap` within a scheduler needs beside itself only that a run whose result waits
in the channel is not under way any more. What a stopped one may leave behind is a count
(`WaitInv`): of the jobs the stopping loop has passed, those that still run are no
more than the jobs that do not, since each of the former was paid for by a result of
one of the latter. `SavedNeverBack` needs that everything on the way to
the database (saved, being saved, in the channel, being sent, known to the loop)
is ordered by age for each job, and that a run not yet recorded is newer than the
last one that is.

| Theorem | Of every number of jobs, schedule and channel capacity |
|---|---|
| `TypeCorrect` | the types, channels within capacity |
| `NeverOverlaps`, `TimerInTime` | a scheduler's runs and what it leaves behind; the timer |
| `SavedIsMonotonic`, `OperatorsHaveTheLastWord` | what is saved |

`CollInv` is the inductive invariant of `Collections`. `HistoryIsChain` is its own
strengthening, given that what is appended names the head as its parent and has
an id not in the history. `KeysFollowBlobs` is not: that an envelope can be opened
follows from every envelope being sealed only for KEKs in the key store (`Sealed`,
kept because sealing looks keys up there and the store only grows), and that a
collection has it for each blob needs that a row's key never changes, which is so
because only blobs without a row are written (`UploadsNew`).

The refinement needs to know what the recursive `ComputeStateAt` computes. Along
a chain there is a sequence of trees, each the changeset applied to the tree
before (`TreesExist`); it gives a function that solves the recursion
(`ResolutionExists`), and any function that does agrees with it (`StateAtIsTree`).
These are inductions on the position in the chain, by the least counterexample.
`AppendResolves` follows, and each action is then an action of `VersionedTrees`.

| Theorem | Of every number of collections, files, blobs, keys and changesets |
|---|---|
| `TypeCorrect`, `ChainOfChangesets` | the types, histories |
| `KeysAlwaysFollow` | every file of every revision can be opened |
| `AppendResolves` | a changeset changes no past revision |
| `ImplementsVersionedTrees` | `VersionedTrees` is implemented |

The proofs about `Collections` assume beside the types of its constants that
`None` is none of the things it stands for the absence of.

`Workdirs_proofs` (`WorkdirsInv`) builds on `CollInv`. `PushIsExact` is about one step, but
whether the changeset that arrives fits was decided when it was computed, and the
collection, its copy and the directory may have moved since. The invariant therefore
says of a copy that the collection, while it exists, continues it, that the head of the
copy still resolves to the same tree, and that the directory's revision is the
collection's head only if it is the copy's head too (`Seen`); and of a changeset on
its way that, should its parent be the head, applying it gives what was read, and
what the head has of the files that were not (`Exact`). A revision that a directory
has is one its copy has, or `UnknownRevision` (`NamedIn`), which never is a head. Both survive because of what every operation of the server does to a
collection (`Progress`): it is left alone, deleted for good, or gets a head with an id
no revision had before (`GrowsByOne`), so a parent that was overtaken never is the
head again. `PushIsExact` and `RemovesOnlyCopies` follow with two lemmas about
differences of trees (`DiffExact`, `NoChangesMeansSame`).

| Theorem | Of every number of directories, clients, changesets |
|---|---|
| `WorkdirsTypeCorrect`, `CopiesStayTrue` | the types; a copy is a beginning of the history |
| `NothingUnsavedIsRemoved`, `PushesAreExact` | `rm`; accepted pushes, each but for files that were not read |

`Directories_proofs` (`DirectoriesInv`). That the indices are exact is inductive with the
types; names and orphans are not without it, since a command asks the indices, not
the records, whether a name is free and a directory empty. So the invariant has four
parts over the records and the indices: each index is what the records say, names in a
directory differ, and what lives is in a directory that does. The parts are operators
of their four variables, so that a lemma about saving or deleting one record
(`TreeAfterSaveDir`, ...) serves every command. `PoliciesReconciled` compares two
walks. The model says that the directories above one are the smallest set that is
closed under taking the parent, and those below the root the smallest that is closed
under children; these define the same as the loop and the recursion in the code, in
trees with cycles too, and a proof uses them by naming a closed set, which replaces
induction. A walk up from a directory without policy is the walk from its parent, with the
directory itself (`WalkedOfParent`), so what is handed down a step at a time is the
policy the walk finds first (`HandedIsFound`), and the two walks agree.

| Theorem | Of every number of directories, collections, names, policies |
|---|---|
| `DirectoriesTypeCorrect`, `IndicesStayExact`, `NamesStayUnique` | types, indices, names |
| `NothingIsOrphaned` | no command leaves a child in a directory that is gone |
| `PoliciesAgree` | the walk down and the walk up find the same policy |

`Background_proofs`. Of `Server`, `OneChild` is not inductive: that a start makes the only
process needs that the handler believes there is none (`cmd = "nil"`) only when there
is no process and no error of one on its way (`ChildInv`), and that no run begins
before the handler of the one before has returned. `ChangeNoticed` needs `ConfigInv`:
what a run has loaded is what is stored until it listens, since nobody can change the
configuration before, and a restart that was asked for is forgotten only by being
carried out.

Of `Database` (`DatabaseInv`). An export reads one snapshot: what it has still to read
and what it has written are together a content the database had. An import is between
the backup and the file: what is committed, what is in the open transaction and what is
still to be read are together the backup.

Of `Verifier` (`VerifierInv`). `ReportComplete` is about saved records, which are copies of
what a worker holds, at times it chooses. A record covers what it passed: every blob
that is damaged, and was there from the beginning, below its position is among its
errors (`RecordCovers`), and between the position and the end of a batch such a blob is
still in the batch (`BatchCovers`), which needs that the batch was everything up to
its last blob. `ProgressKept` needs further that a running job has one worker
(`OneWorker`), and that what the worker holds is never behind what is saved: a second
one would save a record of an older resume over it.

`MediaScanner_proofs` (`ScannerInv`). `NoChangeMissed` needs that between a poll and the end
of its items everything that still lacks a thumbnail is in the feed, or has a version
beyond it, or is in the hands of the scan under way, with a snapshot that the commit
will be refused for if it is not current any more. The server's collections are one
record there, and a step of a client is only that the record was renewed: whatever
changed has a version beyond all there were.

`Clients_proofs`. Of `Uploads` (`UploadsInv`): a blob the scan has found is on the server,
with an uploader, or somebody has met an error: an uploader that has failed discards
what it takes, but its error is heard before a commit, because only uploaders that have
returned are heard and all are waited for.

Of `BlobCache` (`CacheInv`): who downloads a blob holds its lock and found it missing
under it, and nobody else puts it in meanwhile. For `ReadsAreExact` the answer so far
is the beginning of what was asked for and the pieces still to be read join up with its
end (`OnItsWay`). The file's bytes are its blobs' bytes one after the other
(`FileLayout`), proved of the library's concatenation by least counterexample, and the
cuts of `alignReads` are at multiples of the blob size (`Quotient`, `Multiples`).

Of `FuseMount` (`MountInv`): a push that was accepted is one of the versions there are,
until the working directory is emptied.

The two modules also prove that the instances in which TLC checks these components
side by side keep the types of all of them, from the invariants of each: a step of one
is a stutter of the others (`StepsOfEach`).

| Theorem | Of every instance |
|---|---|
| `BackgroundTypeCorrect`, `ServerTypeCorrect`, `DatabaseTypeCorrect`, `VerifierTypeCorrect` | the types |
| `NeverTwoChildren`, `ChangesAreNoticed` | of `Server` |
| `ImportsRestoreThePast` | an import that ends restores a content there was |
| `ReportsAreComplete`, `ProgressIsKept` | of `Verifier` |
| `ClientsTypeCorrect`, `UploadsTypeCorrect`, `CacheTypeCorrect`, `MountTypeCorrect`, `ScannerTypeCorrect` | the types |
| `ScannerMissesNothing` | of `MediaScanner` |
| `CommitsOnlyWhatIsUploaded` | a changeset that is committed names blobs the server has |
| `NoDoubleDownloads`, `ReadsAreExact` | of `BlobCache` |
| `ScannedWorkCommitted` | of `FuseMount` |

What they assume of constants is what the ASSUMEs of the modules say and TLC evaluates:
sets that are finite where the code counts (uploaders, collections of the feed), limits
that are not zero (batches of two blobs at least, since each begins with the blob the
one before it ended with), values that stand for nothing differ from those that stand for
something, and of a cached file that its last blob, if it is shorter than the others,
is none of them.

Only model-checked: liveness (`QueueDrains`, `DueIsSeen`, `RunsRecorded`,
`RequestsServed`, `StopsUnlessStuck`, `VerifierReturns`, `PushEnds`,
`CatchesUp`), which is out of the prover's reach, and the two violations. Every safety
property of a passing run is stated by a theorem. Induction over data is out of reach as
well; where a definition is recursive (`ComputeStateAt`, `FlattenSeq`) the proofs go by
the least position at which it would be wrong, and where the code recurses over the
tree of directories the model uses smallest closed sets.

## Plan

All parts with state of their own that others depend on have a module, and every safety
property a theorem. What is left, in this order:

1. The invariants the liveness properties of `Scheduler`, `Uploads` and `Verifier` rest
   on: that a step is possible until the end is reached, stated without ENABLED.
2. `Uploads` composed with `Workdirs`, by what `Commit` assumes of uploads.

## Not modelled, and why

Metadata lookups ask other services and end in the commits and record updates that
`Collections` and `Directories` have (`PullMetadata` stands for one that adds files
in `MediaScanner`); which record a service finds is its own matter. Health, metrics,
SMART and the update check only read. The command-line utilities are the clients
of `Workdirs` and the file's commands of `Database` under other names, or print.
The web interface is a client. How a thumbnail's image is made, how migrations rewrite
records, and directories within a collection as the mount shows them, have no
state that outlives a call.
