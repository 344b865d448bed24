-------------------------------- MODULE Uploads --------------------------------
(***************************************************************************)
(* One push: a scan discovers blobs and hands them to background uploaders *)
(* (stoclient/backgrounduploader.go); when all is scanned and uploaded,    *)
(* the changeset is committed.  The thumbnailer pushes the same way.       *)
(*                                                                         *)
(* The channel of jobs is unbuffered: a discovery waits for an uploader to *)
(* take its blob.  The one of results holds a result per uploader.         *)
(***************************************************************************)
EXTENDS Naturals, Sequences, FiniteSets, Functions

CONSTANTS
  Uploaders,  \* BackgroundUploaderConcurrency of them
  Refs,       \* the blobs a scan may meet
  MaxChunks,  \* bound: how many it discovers
  NoRef       \* the uploader is not busy with a blob

ASSUME UploadsAssumption == 
  IsFiniteSet(Uploaders) /\ Uploaders # {} /\ MaxChunks \in Nat /\ NoRef \notin Refs

VARIABLES
  discovered,   \* the blobs of the changeset, in the order they were read
  pusher,       \* where the scanning, later committing, goroutine is
  uploader,     \* uploader[u]: where it is, with which blob, and its `err` variable
  heard,        \* whose results WaitFinished has received
  canceled,     \* cancelCh is closed
  interrupted,  \* the context is done
  progress,     \* the progress UI takes events until it is closed
  onServer      \* the blobs the server has

uploadsVars ==
  <<discovered, pusher, uploader, heard, canceled, interrupted, progress, onServer>>

Scanning == {"scanning", "offering"}
Over == {"unchanged", "failed", "refused", "pushed", "panicked"}
JobsClosed == pusher \in {"waiting", "committing", "refused", "pushed"}

UploadsInit ==
  /\ discovered = <<>>
  /\ pusher = "scanning"
  /\ uploader = [u \in Uploaders |-> [at |-> "idle", ref |-> NoRef, err |-> FALSE]]
  /\ heard = {}
  /\ canceled = FALSE
  /\ interrupted = FALSE
  /\ progress = "running"
  /\ onServer \in SUBSET Refs

(***************************************************************************)
(* The scan (computeChangeset, ScanAndDiscoverBlobs, BlobDiscovered).      *)
(***************************************************************************)
\* Cancellation is looked at before each chunk.
Discover(r) ==
  /\ pusher = "scanning" /\ ~canceled /\ ~interrupted
  /\ progress = "running"
  /\ Len(discovered) < MaxChunks
  /\ discovered' = Append(discovered, r)
  /\ pusher' = "offering"
  /\ UNCHANGED <<uploader, heard, canceled, interrupted, progress, onServer>>

\* "discovery canceled", the context's error, or a file that cannot be read:
\* push returns without waiting for its uploaders, or closing their channel.
DiscoveryFails ==
  /\ pusher = "scanning"
  /\ pusher' = "failed"
  /\ UNCHANGED <<discovered, uploader, heard, canceled, interrupted, progress, onServer>>

\* The files may turn out to be only touched: then too nobody waits.
DiscoveryEnds ==
  /\ pusher = "scanning"
  /\ pusher' \in {"unchanged", "waiting"}
  /\ UNCHANGED <<discovered, uploader, heard, canceled, interrupted, progress, onServer>>

Interrupt ==
  /\ pusher \notin Over
  /\ interrupted' = TRUE
  /\ UNCHANGED <<discovered, pusher, uploader, heard, canceled, progress, onServer>>

(***************************************************************************)
(* An uploader (runOneUploader, upload, uploadInternal).                   *)
(***************************************************************************)
Alive == pusher # "panicked"
Offered == discovered[Len(discovered)]
Uploading(r) == \E u \in Uploaders : uploader[u].ref = r
Goes(u, where, r) ==
  uploader' = [uploader EXCEPT ![u] = [at |-> where, ref |-> r, err |-> uploader[u].err]]

Receives(u) ==
  /\ pusher = "offering"
  /\ uploader[u].at = "idle"
  /\ pusher' = "scanning"
  /\ UNCHANGED <<discovered, heard, canceled, interrupted, progress, onServer>>

Drop_Never(u) == FALSE

\* "on first error just start dropping jobs on the floor"
Drop(u) == uploader[u].err

\* TryLock fails: "another thread is already uploading".
SkipDuplicate(u) == ~uploader[u].err /\ Uploading(Offered)

Discard(u) ==
  /\ Receives(u)
  /\ Drop(u) \/ SkipDuplicate(u)
  /\ UNCHANGED uploader

StartUpload(u) ==
  /\ Receives(u)
  /\ ~uploader[u].err /\ ~Uploading(Offered)
  /\ Goes(u, "checking", Offered)

Checks(u, r) == Alive /\ uploader[u].at = "checking" /\ uploader[u].ref = r
Posts(u, r) == Alive /\ uploader[u].at = "posting" /\ uploader[u].ref = r

\* blobExists: "Deduplicated chunk".
Deduplicate(u, r) ==
  /\ Checks(u, r) /\ r \in onServer /\ progress = "running"
  /\ Goes(u, "idle", NoRef)
  /\ UNCHANGED <<discovered, pusher, heard, canceled, interrupted, progress, onServer>>

NotThere(u, r) ==
  /\ Checks(u, r) /\ r \notin onServer
  /\ Goes(u, "posting", r)
  /\ UNCHANGED <<discovered, pusher, heard, canceled, interrupted, progress, onServer>>

Uploaded(u, r) ==
  /\ Posts(u, r) /\ progress = "running"
  /\ onServer' = onServer \cup {r}
  /\ Goes(u, "idle", NoRef)
  /\ UNCHANGED <<discovered, pusher, heard, canceled, interrupted, progress>>

\* An attempt fails, or only its answer is lost; it is made again from the start.
Retry(u, r) ==
  /\ Posts(u, r) /\ ~interrupted
  /\ onServer' \in {onServer, onServer \cup {r}}
  /\ Goes(u, "checking", r)
  /\ UNCHANGED <<discovered, pusher, heard, canceled, interrupted, progress>>

GiveUp_Forgets(u, r) ==
  /\ Checks(u, r) \/ Posts(u, r)
  /\ uploader' = [uploader EXCEPT ![u] = [at |-> "erred", ref |-> NoRef, err |-> FALSE]]
  /\ onServer' \in {onServer, onServer \cup {r}}
  /\ UNCHANGED <<discovered, pusher, heard, canceled, interrupted, progress>>

\* After three minutes, or when the context is done.
GiveUp(u, r) ==
  /\ Checks(u, r) \/ Posts(u, r)
  /\ uploader' = [uploader EXCEPT ![u] = [at |-> "erred", ref |-> NoRef, err |-> TRUE]]
  /\ onServer' \in {onServer, onServer \cup {r}}
  /\ UNCHANGED <<discovered, pusher, heard, canceled, interrupted, progress>>

\* The first error cancels the discovery.  Looking whether cancelCh is closed
\* and closing it are two steps.
LookAtCancelCh(u) ==
  /\ Alive /\ uploader[u].at = "erred"
  /\ Goes(u, IF canceled THEN "idle" ELSE "closing", NoRef)
  /\ UNCHANGED <<discovered, pusher, heard, canceled, interrupted, progress, onServer>>

\* Closing a closed channel panics.
CloseCancelCh(u) ==
  /\ Alive /\ uploader[u].at = "closing"
  /\ canceled' = TRUE
  /\ pusher' = IF canceled THEN "panicked" ELSE pusher
  /\ Goes(u, "idle", NoRef)
  /\ UNCHANGED <<discovered, heard, interrupted, progress, onServer>>

UploaderReturns(u) ==
  /\ JobsClosed
  /\ uploader[u].at = "idle"
  /\ Goes(u, "returned", NoRef)
  /\ UNCHANGED <<discovered, pusher, heard, canceled, interrupted, progress, onServer>>

(***************************************************************************)
(* WaitFinished, and the commit.                                           *)
(***************************************************************************)
\* It returns at the first error.
HearResult(u) ==
  /\ pusher = "waiting"
  /\ uploader[u].at = "returned" /\ u \notin heard
  /\ heard' = heard \cup {u}
  /\ pusher' = IF uploader[u].err THEN "refused" ELSE "waiting"
  /\ UNCHANGED <<discovered, uploader, canceled, interrupted, progress, onServer>>

AllFinished ==
  /\ pusher = "waiting" /\ heard = Uploaders
  /\ progress' = "closed"
  /\ pusher' = "committing"
  /\ UNCHANGED <<discovered, uploader, heard, canceled, interrupted, onServer>>

CommitEnds ==
  /\ pusher = "committing"
  /\ pusher' \in {"pushed", "refused"}
  /\ UNCHANGED <<discovered, uploader, heard, canceled, interrupted, progress, onServer>>

DiscoveryStep == DiscoveryFails \/ DiscoveryEnds \/ \E r \in Refs : Discover(r)

Transfer(u) ==
  \E r \in Refs : Deduplicate(u, r) \/ NotThere(u, r) \/ Uploaded(u, r) \/ GiveUp(u, r)

UploaderStep(u) ==
  \/ Discard(u) \/ StartUpload(u) \/ Transfer(u) \/ (\E r \in Refs : Retry(u, r))
  \/ LookAtCancelCh(u) \/ CloseCancelCh(u) \/ UploaderReturns(u)

UploadsNext ==
  \/ Interrupt \/ DiscoveryStep \/ AllFinished \/ CommitEnds
  \/ \E u \in Uploaders : UploaderStep(u) \/ HearResult(u)

\* Files are finite, requests have timeouts, and no goroutine is starved.  An
\* upload is retried for three minutes at most.
UploadsFairness ==
  /\ WF_uploadsVars(DiscoveryStep) /\ WF_uploadsVars(AllFinished) /\ WF_uploadsVars(CommitEnds)
  /\ \A u \in Uploaders :
       /\ WF_uploadsVars(Discard(u)) /\ WF_uploadsVars(StartUpload(u))
       /\ SF_uploadsVars(\E r \in Refs : GiveUp(u, r))
       /\ WF_uploadsVars(Transfer(u))
       /\ WF_uploadsVars(LookAtCancelCh(u)) /\ WF_uploadsVars(CloseCancelCh(u))
       /\ WF_uploadsVars(UploaderReturns(u)) /\ WF_uploadsVars(HearResult(u))

UploadsSpec == UploadsInit /\ [][UploadsNext]_uploadsVars
UploadsFairSpec == UploadsSpec /\ UploadsFairness

(***************************************************************************)
(* Properties.                                                             *)
(***************************************************************************)
Resting == [at : {"idle", "erred", "closing", "returned"}, ref : {NoRef}, err : BOOLEAN]
Busy == [at : {"checking", "posting"}, ref : Refs, err : {FALSE}]

UploadsTypeOK ==
  /\ discovered \in Seq(Refs)
  /\ pusher \in Scanning \cup {"waiting", "committing"} \cup Over
  /\ uploader \in [Uploaders -> Resting \cup Busy]
  /\ heard \subseteq Uploaders
  /\ {canceled, interrupted} \subseteq BOOLEAN
  /\ progress \in {"running", "closed"}
  /\ onServer \subseteq Refs

\* A changeset is committed only when the server has every blob of it: a blob
\* another uploader was busy with is there, or that one's error was reported.
CommitsOnlyUploaded ==
  pusher \in {"committing", "pushed"} => Range(discovered) \subseteq onServer

\* However uploads fail, no push hangs: uploaders that have failed keep taking
\* what the scan offers, and nobody reports to a progress UI that is closed.
PushEnds == <>(pusher \in Over)
=============================================================================
