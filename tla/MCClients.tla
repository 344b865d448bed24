------------------------------ MODULE MCClients ------------------------------
(***************************************************************************)
(* An instance, for TLC, of the programs that use the server through its   *)
(* API: the media scanner, the uploaders of a push, and the FUSE server,   *)
(* that is its mount and its blob cache.  They do not depend on each       *)
(* other, so each behaviour is one of one of them, the subject, while the  *)
(* others stay as they were; the state space is the sum of theirs.         *)
(***************************************************************************)
EXTENDS MediaScanner, Uploads, BlobCache, FuseMount, TLC

CONSTANTS
  anImage, aVideo,
  pictured, filmed  \* their contents
VARIABLE subject

\* The video has a counterpart, whose content is not its own.
OneCounterpart == aVideo :> anImage
TwoContents == anImage :> pictured @@ aVideo :> filmed

\* A file of one blob more than the cache holds.
ThreeBlobs == <<"b1", "b2", "b3">>

Others(s) ==
  /\ subject' = subject
  /\ s # "scanner" => UNCHANGED scannerVars
  /\ s # "uploads" => UNCHANGED uploadsVars
  /\ s # "cache" => UNCHANGED cacheVars
  /\ s # "mount" => UNCHANGED mountVars

\* A scanner without collections, and a push that is over: nothing of them can
\* move.
ScannerAtRest ==
  /\ clock = 0 /\ saved = 0 /\ events = 0
  /\ version = [c \in ScanColls |-> 0] /\ head = version
  /\ files = [c \in ScanColls |-> {}] /\ thumbs = files /\ skipped = files
  /\ scanner = [Dead EXCEPT !.pc = "polling"]
  /\ scans = [w \in Scanners |-> NoScan]

UploadsOver ==
  /\ discovered = <<>> /\ pusher = "unchanged" /\ heard = {} /\ onServer = {}
  /\ uploader = [u \in Uploaders |-> [at |-> "idle", ref |-> NoRef, err |-> FALSE]]
  /\ canceled = FALSE /\ interrupted = FALSE /\ progress = "running"

ClientsInit ==
  /\ subject \in {"scanner", "uploads", "cache", "mount"}
  /\ IF subject = "scanner" THEN ScannerInit ELSE ScannerAtRest
  /\ IF subject = "uploads" THEN UploadsInit ELSE UploadsOver
  /\ CacheInit /\ MountInit

ClientsNext ==
  \/ subject = "scanner" /\ ScannerNext /\ Others("scanner")
  \/ subject = "uploads" /\ UploadsNext /\ Others("uploads")
  \/ subject = "cache" /\ CacheNext /\ Others("cache")
  \/ subject = "mount" /\ MountNext /\ Others("mount")

allClients == <<subject, scannerVars, uploadsVars, cacheVars, mountVars>>

ClientsSpec ==
  /\ ClientsInit /\ [][ClientsNext]_allClients
  /\ ScannerFairness /\ UploadsFairness

\* Types, of every component.
ClientsTypeOK == ScannerTypeOK /\ UploadsTypeOK /\ CacheTypeOK /\ MountTypeOK
=============================================================================
