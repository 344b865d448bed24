---------------------------- MODULE Clients_proofs ----------------------------
(***************************************************************************)
(* Proofs about the programs that use the server through its API -         *)
(* Uploads, BlobCache, FuseMount - and that MCClients, which puts them     *)
(* together with the media scanner, keeps the types of all of them.        *)
(***************************************************************************)
EXTENDS MCClients, MediaScanner_proofs, SequenceTheorems

-----------------------------------------------------------------------------
\* Uploads: any number of uploaders and blobs.

(***************************************************************************)
(* The inductive invariant.  A blob that an uploader took from the scan is *)
(* on the server, or on its way, or somebody has an error to report; who   *)
(* was heard of without one has returned, and is not uploading any more.   *)
(***************************************************************************)
Covered(r) == r \in onServer \/ Uploading(r) \/ \E u \in Uploaders : uploader[u].err

\* The positions of the blobs that somebody has taken.
Taken == {i \in 1 .. Len(discovered) : pusher = "offering" => i # Len(discovered)}

TakenIsCovered == Alive => \A i \in Taken : Covered(discovered[i])

HeardHaveReturned ==
  pusher \notin {"refused", "panicked"} =>
    \A u \in heard : uploader[u].at = "returned" /\ ~uploader[u].err

CommitsWhenAllHeard == pusher \in {"committing", "pushed"} => heard = Uploaders

SomethingOffered == pusher = "offering" => Len(discovered) > 0

UploadsInv ==
  /\ UploadsTypeOK
  /\ SomethingOffered
  /\ TakenIsCovered
  /\ HeardHaveReturned
  /\ CommitsWhenAllHeard

(***************************************************************************)
(* What a step does to one uploader.                                       *)
(***************************************************************************)
LEMMA UploaderRecord ==
  ASSUME UploadsTypeOK, NEW u \in Uploaders
  PROVE  /\ uploader[u] \in Resting \cup Busy
         /\ uploader[u] = [at |-> uploader[u].at, ref |-> uploader[u].ref, err |-> uploader[u].err]
         /\ uploader[u].err \in BOOLEAN
         /\ uploader[u].at \in {"idle", "erred", "closing", "returned"} => uploader[u].ref = NoRef
         /\ uploader[u].at \in {"checking", "posting"} => uploader[u].ref \in Refs /\ ~uploader[u].err
         /\ uploader[u].at \in {"idle", "erred", "closing", "returned", "checking", "posting"}
BY DEF UploadsTypeOK, Resting, Busy

LEMMA GoesType ==
  ASSUME UploadsTypeOK, NEW u \in Uploaders, NEW where, NEW r, Goes(u, where, r),
         \/ where \in {"idle", "erred", "closing", "returned"} /\ r = NoRef
         \/ where \in {"checking", "posting"} /\ r \in Refs /\ ~uploader[u].err
  PROVE  /\ uploader' \in [Uploaders -> Resting \cup Busy]
         /\ uploader'[u].at = where /\ uploader'[u].ref = r /\ uploader'[u].err = uploader[u].err
         /\ \A o \in Uploaders \ {u} : uploader'[o] = uploader[o]
<1> DEFINE new == [at |-> where, ref |-> r, err |-> uploader[u].err]
<1>1. uploader' = [uploader EXCEPT ![u] = new]
  BY DEF Goes
<1>2. new \in Resting \cup Busy
  BY UploaderRecord DEF Resting, Busy
<1> HIDE DEF new
<1>3. uploader' \in [Uploaders -> Resting \cup Busy] /\ uploader'[u] = new
      /\ \A o \in Uploaders \ {u} : uploader'[o] = uploader[o]
  BY <1>1, <1>2 DEF UploadsTypeOK
<1>4. QED
  BY <1>3 DEF new

(***************************************************************************)
(* A step of an uploader that loses neither a blob nor an error.           *)
(***************************************************************************)
LEMMA UploaderMoves ==
  ASSUME UploadsInv, NEW u \in Uploaders,
         uploader' \in [Uploaders -> Resting \cup Busy],
         \A o \in Uploaders \ {u} : uploader'[o] = uploader[o],
         uploader[u].at # "returned",
         uploader[u].err => uploader'[u].err,
         \/ uploader[u].ref = NoRef
         \/ uploader[u].ref \in onServer'
         \/ uploader'[u].ref = uploader[u].ref
         \/ uploader'[u].err,
         onServer \subseteq onServer', onServer' \subseteq Refs,
         discovered' = discovered, heard' = heard, progress' = progress,
         interrupted' = interrupted, canceled' \in BOOLEAN,
         \/ pusher' = pusher
         \/ pusher' = "panicked"
         \/ pusher = "offering" /\ pusher' = "scanning" /\ Covered(Offered)'
  PROVE  UploadsInv'
<1>1. UploadsTypeOK'
  BY DEF UploadsInv, UploadsTypeOK, Scanning, Over
<1>2. ASSUME NEW r \in Refs, Covered(r)
      PROVE  Covered(r)'
  <2>1. CASE r \in onServer
    BY <2>1 DEF Covered
  <2>2. CASE \E o \in Uploaders : uploader[o].err
    BY <2>2 DEF Covered
  <2>3. CASE \E o \in Uploaders : uploader[o].ref = r
    BY <2>3, UploadsAssumption DEF Covered, Uploading
  <2>4. QED
    BY <1>2, <2>1, <2>2, <2>3 DEF Covered, Uploading
<1>3. TakenIsCovered'
  <2>1. SUFFICES ASSUME Alive', NEW i \in Taken'
                 PROVE  Covered(discovered[i])'
    BY DEF TakenIsCovered
  <2>2. Len(discovered) \in Nat /\ \A k \in 1 .. Len(discovered) : discovered[k] \in Refs
    BY ElementOfSeq, LenProperties DEF UploadsInv, UploadsTypeOK
  <2>3. CASE i \in Taken
    BY <2>1, <2>2, <2>3, <1>2 DEF UploadsInv, TakenIsCovered, Taken, Alive
  <2>4. CASE i \notin Taken
    <3>1. i = Len(discovered) /\ pusher = "offering" /\ pusher' # "offering"
      BY <2>1, <2>2, <2>4 DEF Taken
    <3>2. Covered(Offered)'
      BY <2>1, <3>1 DEF Alive
    <3>3. QED
      BY <3>1, <3>2 DEF Offered
  <2>5. QED
    BY <2>3, <2>4
<1>4. HeardHaveReturned'
  <2>1. SUFFICES ASSUME pusher' \notin {"refused", "panicked"}, NEW o \in heard
                 PROVE  uploader'[o].at = "returned" /\ ~uploader'[o].err
    BY DEF HeardHaveReturned
  <2>2. uploader[o].at = "returned" /\ ~uploader[o].err /\ o \in Uploaders
    BY <2>1 DEF UploadsInv, HeardHaveReturned, UploadsTypeOK
  <2>3. QED
    BY <2>2
<1>5. CommitsWhenAllHeard' /\ SomethingOffered'
  BY DEF UploadsInv, CommitsWhenAllHeard, SomethingOffered
<1>6. QED
  BY <1>1, <1>3, <1>4, <1>5 DEF UploadsInv

LEMMA UploaderStepKeepsInv ==
  ASSUME UploadsInv, NEW u \in Uploaders, UploaderStep(u)
  PROVE  UploadsInv'
<1> USE UploaderRecord, UploadsAssumption
<1>0. UploadsTypeOK
  BY DEF UploadsInv
<1>1. ASSUME pusher = "offering" PROVE Offered \in Refs
  <2>1. Len(discovered) \in Nat /\ discovered \in Seq(Refs) /\ Len(discovered) > 0
    BY <1>0, <1>1, LenProperties DEF UploadsTypeOK, UploadsInv, SomethingOffered
  <2> QED
    BY <2>1, ElementOfSeq DEF Offered
<1>2. CASE Discard(u)
  <2>1. Receives(u) /\ uploader' = uploader /\ (uploader[u].err \/ Uploading(Offered))
    BY <1>2 DEF Discard, Drop, SkipDuplicate
  <2>2. Covered(Offered)'
    BY <2>1 DEF Receives, Covered, Uploading, Offered
  <2>3. QED
    BY <1>0, <2>1, <2>2, UploaderMoves DEF Receives, UploadsTypeOK
<1>3. CASE StartUpload(u)
  <2>1. Receives(u) /\ ~uploader[u].err /\ Goes(u, "checking", Offered) /\ Offered \in Refs
    BY <1>1, <1>3 DEF StartUpload, Receives
  <2>2. /\ uploader' \in [Uploaders -> Resting \cup Busy]
        /\ uploader'[u].ref = Offered /\ uploader'[u].err = uploader[u].err
        /\ \A o \in Uploaders \ {u} : uploader'[o] = uploader[o]
    BY <1>0, <2>1, GoesType
  <2>3. Covered(Offered)'
    BY <2>1, <2>2 DEF Receives, Covered, Uploading, Offered
  <2>4. QED
    BY <1>0, <2>1, <2>2, <2>3, UploaderMoves DEF Receives, UploadsTypeOK
<1>4. ASSUME NEW r \in Refs, Deduplicate(u, r)
      PROVE  UploadsInv'
  <2>1. /\ uploader' \in [Uploaders -> Resting \cup Busy] /\ uploader'[u].err = uploader[u].err
        /\ \A o \in Uploaders \ {u} : uploader'[o] = uploader[o]
    BY <1>0, <1>4, GoesType DEF Deduplicate
  <2>2. QED
    BY <1>0, <1>4, <2>1, UploaderMoves DEF Deduplicate, Checks, UploadsTypeOK
<1>5. ASSUME NEW r \in Refs, NotThere(u, r)
      PROVE  UploadsInv'
  <2>0. Goes(u, "posting", r) /\ ~uploader[u].err
    BY <1>0, <1>5 DEF NotThere, Checks
  <2>1. /\ uploader' \in [Uploaders -> Resting \cup Busy] /\ uploader'[u].err = uploader[u].err
        /\ uploader'[u].ref = r
        /\ \A o \in Uploaders \ {u} : uploader'[o] = uploader[o]
    BY <1>0, <2>0, GoesType
  <2>2. QED
    BY <1>0, <1>5, <2>1, UploaderMoves DEF NotThere, Checks, UploadsTypeOK
<1>6. ASSUME NEW r \in Refs, Uploaded(u, r)
      PROVE  UploadsInv'
  <2>1. /\ uploader' \in [Uploaders -> Resting \cup Busy] /\ uploader'[u].err = uploader[u].err
        /\ \A o \in Uploaders \ {u} : uploader'[o] = uploader[o]
    BY <1>0, <1>6, GoesType DEF Uploaded
  <2>2. QED
    BY <1>0, <1>6, <2>1, UploaderMoves DEF Uploaded, Posts, UploadsTypeOK
<1>7. ASSUME NEW r \in Refs, Retry(u, r)
      PROVE  UploadsInv'
  <2>0. Goes(u, "checking", r) /\ ~uploader[u].err
    BY <1>0, <1>7 DEF Retry, Posts
  <2>1. /\ uploader' \in [Uploaders -> Resting \cup Busy] /\ uploader'[u].err = uploader[u].err
        /\ uploader'[u].ref = r
        /\ \A o \in Uploaders \ {u} : uploader'[o] = uploader[o]
    BY <1>0, <2>0, GoesType
  <2>2. QED
    BY <1>0, <1>7, <2>1, UploaderMoves DEF Retry, Posts, UploadsTypeOK
<1>8. ASSUME NEW r \in Refs, GiveUp(u, r)
      PROVE  UploadsInv'
  <2> DEFINE new == [at |-> "erred", ref |-> NoRef, err |-> TRUE]
  <2>1. new \in Resting /\ new.err
    BY DEF Resting
  <2>2. uploader' = [uploader EXCEPT ![u] = new]
    BY <1>8 DEF GiveUp
  <2> HIDE DEF new
  <2>3. /\ uploader' \in [Uploaders -> Resting \cup Busy] /\ uploader'[u].err
        /\ \A o \in Uploaders \ {u} : uploader'[o] = uploader[o]
    BY <1>0, <2>1, <2>2 DEF UploadsTypeOK
  <2>4. QED
    BY <1>0, <1>8, <2>3, UploaderMoves DEF GiveUp, Checks, Posts, UploadsTypeOK
<1>9. CASE LookAtCancelCh(u)
  <2>1. /\ uploader' \in [Uploaders -> Resting \cup Busy] /\ uploader'[u].err = uploader[u].err
        /\ \A o \in Uploaders \ {u} : uploader'[o] = uploader[o]
    BY <1>0, <1>9, GoesType DEF LookAtCancelCh
  <2>2. QED
    BY <1>0, <1>9, <2>1, UploaderMoves DEF LookAtCancelCh, UploadsTypeOK
<1>10. CASE CloseCancelCh(u)
  <2>1. /\ uploader' \in [Uploaders -> Resting \cup Busy] /\ uploader'[u].err = uploader[u].err
        /\ \A o \in Uploaders \ {u} : uploader'[o] = uploader[o]
    BY <1>0, <1>10, GoesType DEF CloseCancelCh
  <2>2. QED
    BY <1>0, <1>10, <2>1, UploaderMoves DEF CloseCancelCh, UploadsTypeOK
<1>11. CASE UploaderReturns(u)
  <2>1. /\ uploader' \in [Uploaders -> Resting \cup Busy] /\ uploader'[u].err = uploader[u].err
        /\ \A o \in Uploaders \ {u} : uploader'[o] = uploader[o]
    BY <1>0, <1>11, GoesType DEF UploaderReturns
  <2>2. QED
    BY <1>0, <1>11, <2>1, UploaderMoves DEF UploaderReturns, UploadsTypeOK
<1>12. QED
  BY <1>2, <1>3, <1>4, <1>5, <1>6, <1>7, <1>8, <1>9, <1>10, <1>11 DEF UploaderStep, Transfer

(***************************************************************************)
(* The scan, the wait for results and the commit.                          *)
(***************************************************************************)
LEMMA DiscoverKeepsInv ==
  ASSUME UploadsInv, NEW r \in Refs, Discover(r)
  PROVE  UploadsInv'
<1>1. /\ discovered \in Seq(Refs) /\ discovered' = Append(discovered, r)
      /\ pusher = "scanning" /\ pusher' = "offering"
      /\ UNCHANGED <<uploader, heard, canceled, interrupted, progress, onServer>>
  BY DEF UploadsInv, UploadsTypeOK, Discover
<1>2. /\ Len(discovered) \in Nat /\ Len(discovered') = Len(discovered) + 1
      /\ \A i \in 1 .. Len(discovered) : discovered'[i] = discovered[i]
      /\ discovered' \in Seq(Refs)
  BY <1>1, AppendProperties, LenProperties
<1>3. UploadsTypeOK' /\ SomethingOffered'
  BY <1>1, <1>2 DEF UploadsInv, UploadsTypeOK, Scanning, SomethingOffered
<1>4. \A i \in Taken' : i \in Taken /\ discovered'[i] = discovered[i]
  BY <1>1, <1>2 DEF Taken
<1>5. TakenIsCovered'
  BY <1>1, <1>4 DEF UploadsInv, TakenIsCovered, Covered, Uploading, Alive
<1>6. QED
  BY <1>1, <1>3, <1>5 DEF UploadsInv, HeardHaveReturned, CommitsWhenAllHeard

\* What the remaining steps have in common.
LEMMA PusherMoves ==
  ASSUME UploadsInv, Alive, pusher # "offering",
         pusher' \in {"scanning", "waiting", "committing"} \cup Over,
         UNCHANGED <<discovered, uploader, canceled, onServer>>,
         interrupted' \in BOOLEAN, progress' \in {"running", "closed"}, heard' \subseteq Uploaders,
         HeardHaveReturned', CommitsWhenAllHeard'
  PROVE  UploadsInv'
<1>1. UploadsTypeOK' /\ SomethingOffered'
  BY DEF UploadsInv, UploadsTypeOK, SomethingOffered, Scanning, Over
<1>2. Taken' \subseteq Taken
  BY DEF Taken
<1>3. TakenIsCovered'
  BY <1>2 DEF UploadsInv, TakenIsCovered, Covered, Uploading
<1>4. QED
  BY <1>1, <1>3 DEF UploadsInv

LEMMA UploadsStep ==
  ASSUME UploadsInv, [UploadsNext]_uploadsVars
  PROVE  UploadsInv'
<1> USE DEF Alive
<1>0. UploadsTypeOK
  BY DEF UploadsInv
<1>1. CASE Interrupt
  <2>1. /\ pusher' = pusher /\ interrupted' = TRUE
        /\ UNCHANGED <<discovered, uploader, heard, canceled, progress, onServer>>
    BY <1>1 DEF Interrupt
  <2>2. UploadsTypeOK'
    BY <1>0, <2>1 DEF UploadsTypeOK
  <2>3. QED
    BY <2>1, <2>2 DEF UploadsInv, TakenIsCovered, Taken, Covered, Uploading, HeardHaveReturned,
                      CommitsWhenAllHeard, SomethingOffered
<1>2. ASSUME NEW r \in Refs, Discover(r)
      PROVE  UploadsInv'
  BY <1>2, DiscoverKeepsInv
<1>3. CASE DiscoveryFails \/ DiscoveryEnds
  <2>1. HeardHaveReturned' /\ CommitsWhenAllHeard'
    BY <1>3 DEF DiscoveryFails, DiscoveryEnds, UploadsInv, HeardHaveReturned, CommitsWhenAllHeard
  <2>2. QED
    BY <1>0, <1>3, <2>1, PusherMoves DEF DiscoveryFails, DiscoveryEnds, UploadsTypeOK, Over
<1>4. CASE AllFinished \/ CommitEnds
  <2>1. HeardHaveReturned' /\ CommitsWhenAllHeard'
    BY <1>4 DEF AllFinished, CommitEnds, UploadsInv, HeardHaveReturned, CommitsWhenAllHeard
  <2>2. QED
    BY <1>0, <1>4, <2>1, PusherMoves DEF AllFinished, CommitEnds, UploadsTypeOK, Over
<1>5. ASSUME NEW u \in Uploaders, HearResult(u)
      PROVE  UploadsInv'
  <2>1. HeardHaveReturned' /\ CommitsWhenAllHeard'
    BY <1>5 DEF HearResult, UploadsInv, HeardHaveReturned, CommitsWhenAllHeard
  <2>2. QED
    BY <1>0, <1>5, <2>1, PusherMoves DEF HearResult, UploadsTypeOK, Over
<1>6. ASSUME NEW u \in Uploaders, UploaderStep(u)
      PROVE  UploadsInv'
  BY <1>6, UploaderStepKeepsInv
<1>7. CASE UNCHANGED uploadsVars
  BY <1>7 DEF uploadsVars, UploadsInv, UploadsTypeOK, TakenIsCovered, Taken, Covered, Uploading,
              HeardHaveReturned, CommitsWhenAllHeard, SomethingOffered
<1>8. QED
  BY <1>1, <1>2, <1>3, <1>4, <1>5, <1>6, <1>7 DEF UploadsNext, DiscoveryStep

LEMMA UploadsStart ==
  ASSUME UploadsInit
  PROVE  UploadsInv
<1>1. UploadsTypeOK
  <2>1. discovered \in Seq(Refs) /\ Len(discovered) = 0
    BY EmptySeq DEF UploadsInit
  <2>2. [at |-> "idle", ref |-> NoRef, err |-> FALSE] \in Resting
    BY DEF Resting
  <2>3. uploader \in [Uploaders -> Resting \cup Busy]
    BY <2>2 DEF UploadsInit
  <2>4. QED
    BY <2>1, <2>3 DEF UploadsInit, UploadsTypeOK, Scanning
<1>2. Taken = {}
  BY EmptySeq DEF UploadsInit, Taken
<1>3. QED
  BY <1>1, <1>2 DEF UploadsInit, UploadsInv, TakenIsCovered, HeardHaveReturned, CommitsWhenAllHeard,
                    SomethingOffered

LEMMA UploadsInvSuffices ==
  ASSUME UploadsInv
  PROVE  CommitsOnlyUploaded
<1>1. SUFFICES ASSUME pusher \in {"committing", "pushed"}, NEW i \in DOMAIN discovered
               PROVE  discovered[i] \in onServer
  BY DEF CommitsOnlyUploaded, Range
<1>2. i \in 1 .. Len(discovered) /\ discovered[i] \in Refs
  BY LenProperties, ElementOfSeq DEF UploadsInv, UploadsTypeOK
<1>3. Covered(discovered[i])
  BY <1>1, <1>2 DEF UploadsInv, TakenIsCovered, Taken, Alive
<1>4. \A u \in Uploaders : uploader[u].at = "returned" /\ ~uploader[u].err
  BY <1>1 DEF UploadsInv, HeardHaveReturned, CommitsWhenAllHeard
<1>5. \A u \in Uploaders : uploader[u].ref = NoRef
  BY <1>4, UploaderRecord DEF UploadsInv
<1>6. QED
  BY <1>2, <1>3, <1>4, <1>5, UploadsAssumption DEF Covered, Uploading

\* The types of the variables of a push (newBackgroundUploader and its caller).
THEOREM UploadsTypeCorrect == UploadsSpec => []UploadsTypeOK
<1>1. UploadsInit => UploadsInv
  BY UploadsStart
<1>2. UploadsInv /\ [UploadsNext]_uploadsVars => UploadsInv'
  BY UploadsStep
<1>3. UploadsInv => UploadsTypeOK
  BY DEF UploadsInv
<1>4. QED
  BY <1>1, <1>2, <1>3, PTL DEF UploadsSpec

\* With any number of uploaders that fail, retry or find a blob in another's
\* hands, Client.Commit is called only when every blob that
\* ScanAndDiscoverBlobs found is on the server.
THEOREM CommitsOnlyWhatIsUploaded == UploadsSpec => []CommitsOnlyUploaded
<1>1. UploadsInit => UploadsInv
  BY UploadsStart
<1>2. UploadsInv /\ [UploadsNext]_uploadsVars => UploadsInv'
  BY UploadsStep
<1>3. UploadsInv => CommitsOnlyUploaded
  BY UploadsInvSuffices
<1>4. QED
  BY <1>1, <1>2, <1>3, PTL DEF UploadsSpec

-----------------------------------------------------------------------------
\* BlobCache: any file, any sizes of blobs and of the cache, any readers.

LEMMA Quotient ==
  ASSUME NEW x \in Nat, NEW b \in Nat \ {0}
  PROVE  /\ x \div b \in Nat
         /\ (x \div b) * b <= x /\ x < (x \div b + 1) * b
  OBVIOUS

LEMMA Multiples ==
  ASSUME NEW i \in Int, NEW j \in Int, NEW b \in Nat, i < j
  PROVE  (i + 1) * b <= j * b
  <1>1. PICK d \in Nat : j = i + 1 + d
    <2> j - i - 1 \in Nat
      OBVIOUS
    <2> QED BY j = i + 1 + (j - i - 1)
  <1>2. j * b = (i + 1) * b + d * b /\ d * b \in Nat
    BY <1>1
  <1> QED BY <1>2

LEMMA FlattenExists ==
  ASSUME NEW seqs, NEW n \in Nat \ {0}
  PROVE  \E f : f = [i \in 1 .. n |-> IF i = 1 THEN seqs[i] ELSE f[i - 1] \o seqs[i]]
  <1> DEFINE Good(m) == \E f : f = [i \in 1 .. m |-> IF i = 1 THEN seqs[i] ELSE f[i - 1] \o seqs[i]]
             Bad == {m \in Nat : m # 0 /\ ~Good(m)}
  <1>1. SUFFICES ASSUME ~Good(n) PROVE FALSE
    OBVIOUS
  <1>2. n \in Bad
    BY <1>1
  <1> HIDE DEF Good
  <1>3. PICK m \in Bad : \A k \in Bad : ~(k < m)
    <2>1. Bad # {} /\ Bad \in SUBSET Nat
      BY <1>2
    <2>2. PICK m \in Bad : \A k \in Bad : ~(<<k, m>> \in OpToRel(<, Nat))
      BY <2>1, NatLessThanWellFounded, WFMin
    <2> QED BY <2>1, <2>2 DEF OpToRel
  <1>4. CASE m = 1
    <2> DEFINE f == [i \in 1 .. 1 |-> seqs[i]]
    <2>1. f = [i \in 1 .. 1 |-> IF i = 1 THEN seqs[i] ELSE f[i - 1] \o seqs[i]]
      OBVIOUS
    <2>2. Good(1)
      BY <2>1 DEF Good
    <2> QED BY <2>2, <1>4
  <1>5. CASE m # 1
    <2>1. m - 1 \in Nat /\ m - 1 # 0 /\ m - 1 < m
      BY <1>5
    <2>2. Good(m - 1)
      BY <2>1, <1>3
    <2>3. PICK g : g = [i \in 1 .. m - 1 |-> IF i = 1 THEN seqs[i] ELSE g[i - 1] \o seqs[i]]
      BY <2>2 DEF Good
    <2> DEFINE f == [i \in 1 .. m |-> IF i = m THEN g[m - 1] \o seqs[m] ELSE g[i]]
    <2>4. ASSUME NEW i \in 1 .. m
          PROVE  f[i] = IF i = 1 THEN seqs[i] ELSE f[i - 1] \o seqs[i]
      <3>1. CASE i = m
        <4>1. i # 1 /\ i - 1 \in 1 .. m /\ i - 1 # m
          BY <3>1, <1>5
        <4>2. f[i] = g[i - 1] \o seqs[i] /\ f[i - 1] = g[i - 1]
          BY <4>1, <3>1
        <4> QED BY <4>1, <4>2
      <3>2. CASE i # m
        <4>1. i \in 1 .. m - 1
          BY <3>2
        <4>2. g[i] = IF i = 1 THEN seqs[i] ELSE g[i - 1] \o seqs[i]
          BY <2>3, <4>1
        <4>3. i # 1 => i - 1 \in 1 .. m /\ i - 1 # m
          BY <4>1
        <4> QED BY <4>2, <3>2, <4>3
      <3> QED BY <3>1, <3>2
    <2>5. f = [i \in 1 .. m |-> f[i]]
      OBVIOUS
    <2> HIDE DEF f
    <2>6. f = [i \in 1 .. m |-> IF i = 1 THEN seqs[i] ELSE f[i - 1] \o seqs[i]]
      BY <2>4, <2>5
    <2>7. Good(m)
      BY <2>6 DEF Good
    <2> QED BY <2>7
  <1> QED BY <1>4, <1>5

LEMMA FlattenStep ==
  ASSUME NEW seqs, Len(seqs) \in Nat \ {0}
  PROVE  \E f : /\ FlattenSeq(seqs) = f[Len(seqs)]
                /\ \A i \in 1 .. Len(seqs) : f[i] = IF i = 1 THEN seqs[i] ELSE f[i - 1] \o seqs[i]
  <1> DEFINE f == CHOOSE f : f = [i \in 1 .. Len(seqs) |-> IF i = 1 THEN seqs[i] ELSE f[i - 1] \o seqs[i]]
  <1>1. f = [i \in 1 .. Len(seqs) |-> IF i = 1 THEN seqs[i] ELSE f[i - 1] \o seqs[i]]
    BY FlattenExists
  <1>2. FlattenSeq(seqs) = f[Len(seqs)]
    BY DEF FlattenSeq
  <1> HIDE DEF f
  <1>3. ASSUME NEW i \in 1 .. Len(seqs)
        PROVE  f[i] = IF i = 1 THEN seqs[i] ELSE f[i - 1] \o seqs[i]
    BY <1>1
  <1> QED BY <1>2, <1>3
LEMMA ByteCounts ==
  /\ Len(BlobRefs) \in Nat \ {0}
  /\ FileSize \in Nat \ {0}
  /\ \A k \in 1 .. Len(BlobRefs) :
       /\ Bytes(BlobRefs[k]) \in Seq(ToSet(BlobRefs) \X Nat)
       /\ Len(Bytes(BlobRefs[k])) = IF k = Len(BlobRefs) THEN LastSize ELSE BlobSize
       /\ \A i \in 1 .. Len(Bytes(BlobRefs[k])) : Bytes(BlobRefs[k])[i] = <<BlobRefs[k], i>>
<1>1. Len(BlobRefs) \in Nat \ {0} /\ BlobSize \in Nat \ {0} /\ LastSize \in 1 .. BlobSize
  BY BlobCacheAssumption, LenProperties
<1>2. FileSize \in Nat \ {0}
  BY <1>1 DEF FileSize
<1>3. ASSUME NEW k \in 1 .. Len(BlobRefs)
      PROVE  /\ Bytes(BlobRefs[k]) \in Seq(ToSet(BlobRefs) \X Nat)
             /\ Len(Bytes(BlobRefs[k])) = IF k = Len(BlobRefs) THEN LastSize ELSE BlobSize
             /\ \A i \in 1 .. Len(Bytes(BlobRefs[k])) : Bytes(BlobRefs[k])[i] = <<BlobRefs[k], i>>
  <2> DEFINE n == IF k = Len(BlobRefs) THEN LastSize ELSE BlobSize
  <2>1. n \in Nat
    BY <1>1
  <2>2. Bytes(BlobRefs[k]) = [i \in 1 .. n |-> <<BlobRefs[k], i>>]
    BY BlobCacheAssumption, <1>1 DEF Bytes
  <2>3. BlobRefs[k] \in ToSet(BlobRefs)
    BY DEF ToSet
  <2> HIDE DEF n
  <2>4. /\ Bytes(BlobRefs[k]) \in Seq(ToSet(BlobRefs) \X Nat)
        /\ Len(Bytes(BlobRefs[k])) = n
        /\ \A i \in 1 .. n : Bytes(BlobRefs[k])[i] = <<BlobRefs[k], i>>
    BY <2>1, <2>2, <2>3
  <2> QED BY <2>4 DEF n
<1> QED BY <1>1, <1>2, <1>3

LEMMA InductionOnSets ==
  ASSUME NEW S, 0 \in S, \A n \in Nat : n \in S => n + 1 \in S
  PROVE  Nat \subseteq S
<1> DEFINE Bad == Nat \ S
<1>1. SUFFICES ASSUME Bad # {} PROVE FALSE
  OBVIOUS
<1>2. PICK m \in Bad : \A k \in Bad : ~(<<k, m>> \in OpToRel(<, Nat))
  BY <1>1, NatLessThanWellFounded, WFMin
<1>3. \A k \in Bad : ~(k < m)
  BY <1>2 DEF OpToRel
<1> m \in Nat /\ m \notin S
  BY <1>2
<1>4. m # 0 /\ m - 1 \in Nat /\ m - 1 < m
  <2>1. m # 0
    OBVIOUS
  <2> QED BY <2>1
<1>5. m - 1 \in S
  BY <1>3, <1>4
<1>6. (m - 1) + 1 \in S
  BY <1>4, <1>5
<1> QED BY <1>6, <1>4

LEMMA ConcatPrefix ==
  ASSUME NEW S, NEW s \in Seq(S), NEW t \in Seq(S), NEW i \in 1 .. Len(s)
  PROVE  (s \o t)[i] = s[i]
BY ConcatProperties, LenProperties

LEMMA ConcatSuffix ==
  ASSUME NEW S, NEW s \in Seq(S), NEW t \in Seq(S), NEW i \in 1 .. Len(s) + Len(t), i > Len(s)
  PROVE  (s \o t)[i] = t[i - Len(s)]
BY ConcatProperties, LenProperties

(***************************************************************************)
(* The file, byte by byte.                                                 *)
(***************************************************************************)
LEMMA FileLayout ==
  /\ FileBytes \in Seq(ToSet(BlobRefs) \X Nat)
  /\ Len(FileBytes) = FileSize
  /\ \A k \in 1 .. Len(BlobRefs) : \A i \in 1 .. Len(Bytes(BlobRefs[k])) :
       FileBytes[(k - 1) * BlobSize + i] = <<BlobRefs[k], i>>
<1> DEFINE n == Len(BlobRefs)
           A == ToSet(BlobRefs) \X Nat
           seqs == [k \in 1 .. n |-> Bytes(BlobRefs[k])]
           B == BlobSize
<1>1. n \in Nat \ {0} /\ B \in Nat \ {0}
  BY ByteCounts, BlobCacheAssumption
<1>2. Len(seqs) = n /\ FileBytes = FlattenSeq(seqs)
  BY <1>1 DEF FileBytes
<1>3. \A k \in 1 .. n : seqs[k] = Bytes(BlobRefs[k])
  OBVIOUS
<1> HIDE DEF seqs, A
<1>4. PICK f : /\ FlattenSeq(seqs) = f[n]
               /\ \A i \in 1 .. n : f[i] = IF i = 1 THEN seqs[i] ELSE f[i - 1] \o seqs[i]
  BY <1>1, <1>2, FlattenStep
<1>5. \A k \in 1 .. n :
        /\ seqs[k] \in Seq(A)
        /\ Len(seqs[k]) = IF k = n THEN LastSize ELSE B
        /\ \A i \in 1 .. Len(seqs[k]) : seqs[k][i] = <<BlobRefs[k], i>>
  BY <1>3, ByteCounts DEF A
<1> DEFINE Laid(m) ==
             /\ f[m] \in Seq(A)
             /\ Len(f[m]) = (m - 1) * B + Len(seqs[m])
             /\ \A k \in 1 .. m : \A i \in 1 .. Len(seqs[k]) : f[m][(k - 1) * B + i] = <<BlobRefs[k], i>>
           S == {m \in Nat : m \in 1 .. n => Laid(m)}
<1> HIDE DEF n, Laid, B
<1>6. 0 \in S
  BY <1>1
<1>7. ASSUME NEW m \in Nat, m \in S
      PROVE  m + 1 \in S
  <2>1. SUFFICES ASSUME m + 1 \in 1 .. n PROVE Laid(m + 1)
    BY <1>1
  <2>2. f[m + 1] = IF m + 1 = 1 THEN seqs[m + 1] ELSE f[m] \o seqs[m + 1]
    BY <1>4, <2>1
  <2>3. CASE m = 0
    <3>1. f[1] = seqs[1] /\ (1 - 1) * B = 0
      BY <2>2, <2>3, <1>1
    <3>2. /\ f[1] \in Seq(A)
          /\ Len(f[1]) = (1 - 1) * B + Len(seqs[1])
      BY <3>1, <1>5, <2>1, <2>3, LenProperties
    <3>3. ASSUME NEW k \in 1 .. 1, NEW i \in 1 .. Len(seqs[k])
          PROVE  f[1][(k - 1) * B + i] = <<BlobRefs[k], i>>
      BY <3>1, <1>5, <2>1, <2>3
    <3> QED BY <3>2, <3>3, <2>3 DEF Laid
  <2>4. CASE m # 0
    <3>1. m \in 1 .. n /\ m # n /\ m >= 1
      BY <2>1, <2>4, <1>1
    <3>2. Laid(m) /\ f[m + 1] = f[m] \o seqs[m + 1]
      <4>1. m + 1 # 1 /\ (m + 1) - 1 = m
        BY <2>4
      <4>2. Laid(m)
        BY <1>7, <3>1
      <4> QED BY <4>1, <4>2, <2>2
    <3> f[m] \in Seq(A) /\ Len(f[m]) \in Nat
      BY <3>2, LenProperties DEF Laid
    <3>3. Len(f[m]) = m * B
      <4>1. Len(seqs[m]) = B
        BY <1>5, <3>1
      <4>2. (m - 1) * B + B = m * B
        BY <1>1
      <4> QED BY <4>1, <4>2, <3>2 DEF Laid
    <3>4. seqs[m + 1] \in Seq(A)
      BY <1>5, <2>1
    <3>5. f[m + 1] \in Seq(A) /\ Len(f[m + 1]) = m * B + Len(seqs[m + 1])
      <4>1. /\ f[m] \o seqs[m + 1] \in Seq(A)
            /\ Len(f[m] \o seqs[m + 1]) = Len(f[m]) + Len(seqs[m + 1])
        BY <3>4, ConcatProperties
      <4> QED BY <4>1, <3>2, <3>3
    <3>6. ASSUME NEW k \in 1 .. m + 1, NEW i \in 1 .. Len(seqs[k])
          PROVE  f[m + 1][(k - 1) * B + i] = <<BlobRefs[k], i>>
      <4>1. k \in 1 .. n /\ seqs[k] \in Seq(A) /\ Len(seqs[k]) \in Nat /\ i \in Nat
        BY <1>1, <1>5, <2>1, LenProperties
      <4>2. CASE k = m + 1
        <5>1. m * B \in Nat /\ (k - 1) * B = m * B
          BY <4>2, <1>1
        <5> DEFINE j == m * B + i
        <5>2. j \in 1 .. Len(f[m]) + Len(seqs[m + 1]) /\ j > Len(f[m]) /\ j - Len(f[m]) = i
          BY <5>1, <4>1, <4>2, <3>3
        <5> HIDE DEF j
        <5>3. (f[m] \o seqs[m + 1])[j] = seqs[m + 1][j - Len(f[m])]
          BY <5>2, <3>4, ConcatSuffix
        <5>4. f[m + 1][j] = seqs[m + 1][i]
          BY <5>2, <5>3, <3>2
        <5>5. f[m + 1][j] = <<BlobRefs[k], i>>
          BY <5>4, <4>1, <4>2, <1>5
        <5> QED BY <5>1, <5>5 DEF j
      <4>3. CASE k # m + 1
        <5>1. k \in 1 .. m /\ k < m + 1
          BY <4>3
        <5>2. Len(seqs[k]) = B
          BY <1>5, <5>1, <3>1, <4>1
        <5>3. (k - 1) * B \in Nat /\ (k - 1) * B + B = k * B
          BY <1>1, <5>1
        <5>4. k * B <= m * B
          BY <1>1, <5>1, Multiples, k - 1 < m, (k - 1) + 1 = k
        <5>5. (k - 1) * B + i \in 1 .. Len(f[m])
          BY <5>2, <5>3, <5>4, <4>1, <3>3, <1>1
        <5>6. f[m + 1][(k - 1) * B + i] = f[m][(k - 1) * B + i]
          BY <5>5, <3>2, <3>4, <4>1, ConcatPrefix
        <5> QED BY <5>6, <3>2, <5>1 DEF Laid
      <4> QED BY <4>2, <4>3
    <3>7. (m + 1) - 1 = m
      OBVIOUS
    <3> QED BY <3>5, <3>6, <3>7 DEF Laid
  <2> QED BY <2>3, <2>4
<1>8. n \in S
  BY <1>1, <1>6, <1>7, InductionOnSets
<1>9. Laid(n) /\ FileBytes = f[n]
  BY <1>1, <1>2, <1>4, <1>8
<1>10. Len(seqs[n]) = LastSize
  BY <1>1, <1>5
<1> QED BY <1>9, <1>10, <1>3 DEF FileSize, Laid, A, B, n

(***************************************************************************)
(* The pieces of a read.                                                   *)
(***************************************************************************)
Pieces == [blobIdx : Nat, offsetInBlob : Nat, lenInBlob : Nat]

PieceRef(p) == BlobRefs[p.blobIdx + 1]
From(p) == p.blobIdx * BlobSize + p.offsetInBlob
Upto(p) == From(p) + p.lenInBlob

Within(p) ==
  /\ p.blobIdx < Len(BlobRefs)
  /\ p.offsetInBlob + p.lenInBlob <= Len(Bytes(PieceRef(p)))

\* Each piece begins where the one before ends.
JoinUp(pieces, from, upto) ==
  /\ pieces \in Seq(Pieces)
  /\ \A k \in 1 .. Len(pieces) : Within(pieces[k])
  /\ \A k \in 1 .. Len(pieces) - 1 : From(pieces[k + 1]) = Upto(pieces[k])
  /\ IF pieces = <<>> THEN from = upto
     ELSE From(pieces[1]) = from /\ Upto(pieces[Len(pieces)]) = upto

LEMMA FirstPiece ==
  ASSUME NEW pieces, NEW from, NEW upto, JoinUp(pieces, from, upto), pieces # <<>>
  PROVE  /\ Head(pieces) \in Pieces /\ Within(Head(pieces))
         /\ From(Head(pieces)) = from
         /\ JoinUp(Tail(pieces), Upto(Head(pieces)), upto)
<1>1. /\ pieces \in Seq(Pieces) /\ Len(pieces) \in Nat \ {0}
      /\ Head(pieces) = pieces[1] /\ pieces[1] \in Pieces
  <2>1. pieces \in Seq(Pieces)
    BY DEF JoinUp
  <2>2. Len(pieces) \in Nat /\ Len(pieces) # 0
    BY <2>1, LenProperties, EmptySeq
  <2> QED BY <2>1, <2>2, HeadTailProperties, ElementOfSeq
<1>2. /\ Tail(pieces) \in Seq(Pieces) /\ Len(Tail(pieces)) = Len(pieces) - 1
      /\ \A k \in 1 .. Len(Tail(pieces)) : Tail(pieces)[k] = pieces[k + 1]
  BY <1>1, HeadTailProperties
<1>3. Within(Head(pieces)) /\ From(Head(pieces)) = from /\ Upto(pieces[Len(pieces)]) = upto
  BY <1>1 DEF JoinUp
<1>4. \A k \in 1 .. Len(Tail(pieces)) : Within(Tail(pieces)[k])
  BY <1>1, <1>2 DEF JoinUp
<1>5. \A k \in 1 .. Len(pieces) - 1 : From(pieces[k + 1]) = Upto(pieces[k])
  BY DEF JoinUp
<1>6. ASSUME NEW k \in 1 .. Len(Tail(pieces)) - 1
      PROVE  From(Tail(pieces)[k + 1]) = Upto(Tail(pieces)[k])
  <2>1. k \in 1 .. Len(Tail(pieces)) /\ k + 1 \in 1 .. Len(Tail(pieces)) /\ k + 1 \in 1 .. Len(pieces) - 1
    BY <1>1, <1>2
  <2> QED BY <2>1, <1>2, <1>5
<1>7. IF Tail(pieces) = <<>> THEN Upto(Head(pieces)) = upto
      ELSE /\ From(Tail(pieces)[1]) = Upto(Head(pieces))
           /\ Upto(Tail(pieces)[Len(Tail(pieces))]) = upto
  <2>1. CASE Tail(pieces) = <<>>
    <3>1. Len(pieces) = 1
      <4>1. Len(Tail(pieces)) = 0
        BY <2>1, <1>2, EmptySeq
      <4> QED BY <4>1, <1>1, <1>2
    <3> QED BY <3>1, <1>1, <1>3, <2>1
  <2>2. CASE Tail(pieces) # <<>>
    <3>1. Len(Tail(pieces)) \in Nat \ {0}
      BY <2>2, <1>2, LenProperties, EmptySeq
    <3>2. 1 \in 1 .. Len(Tail(pieces)) /\ 1 \in 1 .. Len(pieces) - 1
      BY <3>1, <1>1, <1>2
    <3>3. /\ Tail(pieces)[1] = pieces[1 + 1]
          /\ Tail(pieces)[Len(Tail(pieces))] = pieces[Len(pieces)]
      BY <3>1, <3>2, <1>1, <1>2
    <3>4. From(pieces[1 + 1]) = Upto(pieces[1])
      BY <3>2, <1>5
    <3> QED BY <3>3, <3>4, <1>1, <1>3, <2>2
  <2> QED BY <2>1, <2>2
<1> QED BY <1>1, <1>2, <1>3, <1>4, <1>6, <1>7 DEF JoinUp

LEMMA PieceBytes ==
  ASSUME NEW p \in Pieces, Within(p)
  PROVE  LET part == SubSeq(Bytes(PieceRef(p)), p.offsetInBlob + 1, p.offsetInBlob + p.lenInBlob)
         IN  /\ part \in Seq(ToSet(BlobRefs) \X Nat)
             /\ Len(part) = p.lenInBlob
             /\ \A i \in 1 .. p.lenInBlob : part[i] = FileBytes[From(p) + i]
<1> DEFINE k == p.blobIdx + 1
           bytes == Bytes(BlobRefs[k])
           o == p.offsetInBlob
           n == p.lenInBlob
           part == SubSeq(bytes, o + 1, o + n)
<1>1. p.blobIdx \in Nat /\ o \in Nat /\ n \in Nat
  BY DEF Pieces
<1>2. k \in 1 .. Len(BlobRefs) /\ o + n <= Len(bytes)
  BY <1>1, ByteCounts DEF Within, PieceRef
<1>3. /\ bytes \in Seq(ToSet(BlobRefs) \X Nat) /\ Len(bytes) \in Nat
      /\ \A i \in 1 .. Len(bytes) : bytes[i] = <<BlobRefs[k], i>>
  BY <1>2, ByteCounts, LenProperties
<1> HIDE DEF bytes, o, n
<1>4. /\ part \in Seq(ToSet(BlobRefs) \X Nat) /\ Len(part) = n
      /\ \A i \in 1 .. n : part[i] = bytes[o + i]
  <2>1. \A i \in o + 1 .. o + n : bytes[i] \in ToSet(BlobRefs) \X Nat
    BY <1>1, <1>2, <1>3, ElementOfSeq
  <2>2. /\ part \in Seq(ToSet(BlobRefs) \X Nat)
        /\ Len(part) = IF o + 1 <= o + n THEN (o + n) - (o + 1) + 1 ELSE 0
        /\ \A i \in 1 .. (o + n) - (o + 1) + 1 : part[i] = bytes[(o + 1) + i - 1]
    <3>1. o + 1 \in Int /\ o + n \in Int
      BY <1>1
    <3> QED BY <3>1, <2>1, SubSeqProperties
  <2>3. Len(part) = n
    BY <2>2, <1>1
  <2>4. ASSUME NEW i \in 1 .. n
        PROVE  part[i] = bytes[o + i]
    <3>1. i \in 1 .. (o + n) - (o + 1) + 1 /\ (o + 1) + i - 1 = o + i
      BY <1>1
    <3> QED BY <3>1, <2>2
  <2> QED BY <2>2, <2>3, <2>4
<1>5. ASSUME NEW i \in 1 .. n
      PROVE  part[i] = FileBytes[From(p) + i]
  <2>1. o + i \in 1 .. Len(bytes)
    BY <1>1, <1>2, <1>3
  <2>2. FileBytes[(k - 1) * BlobSize + (o + i)] = <<BlobRefs[k], o + i>>
    BY <2>1, <1>2, FileLayout DEF bytes
  <2>3. (k - 1) * BlobSize + (o + i) = From(p) + i
    <3>1. k - 1 = p.blobIdx /\ p.blobIdx * BlobSize \in Nat
      BY <1>1, BlobCacheAssumption
    <3> QED BY <3>1, <1>1 DEF From, o
  <2>4. part[i] = <<BlobRefs[k], o + i>>
    BY <1>3, <1>4, <2>1
  <2> QED BY <2>2, <2>3, <2>4
<1> QED BY <1>4, <1>5 DEF bytes, o, n, PieceRef

LEMMA AlignedJoinUp ==
  ASSUME NEW offset \in Nat, NEW size \in Nat \ {0}, offset + size <= FileSize
  PROVE  /\ JoinUp(alignReads(offset, size), offset, offset + size)
         /\ alignReads(offset, size) # <<>>
<1> DEFINE B == BlobSize
           end == offset + size
           first == BlobIdxFromOffset(offset)
           final == BlobIdxFromOffset(end - 1)
           startOf(i) == IF i = first THEN offset ELSE i * B
           endOf(i) == IF i = final THEN end ELSE (i + 1) * B
           piece(i) == [blobIdx |-> i, offsetInBlob |-> startOf(i) - i * B,
                        lenInBlob |-> endOf(i) - startOf(i)]
           n == Len(BlobRefs)
           pieces == alignReads(offset, size)
<1>1. B \in Nat \ {0} /\ n \in Nat \ {0} /\ LastSize \in Nat /\ end \in Nat \ {0} /\ end - 1 \in Nat
  BY BlobCacheAssumption, ByteCounts
<1>2. /\ first \in Nat /\ first * B \in Nat /\ first * B <= offset /\ offset < (first + 1) * B
      /\ final \in Nat /\ final * B \in Nat /\ final * B <= end - 1 /\ end - 1 < (final + 1) * B
  BY <1>1, Quotient DEF BlobIdxFromOffset
<1>3. (n - 1) * B \in Int /\ end <= (n - 1) * B + LastSize /\ LastSize <= B
  BY <1>1, BlobCacheAssumption DEF FileSize
<1>4. pieces = [k \in 1 .. final - first + 1 |-> piece(first + k - 1)]
  BY DEF alignReads
<1> HIDE DEF B, first, final, end, n, pieces
<1>5. first <= final
  <2>1. SUFFICES ASSUME final < first PROVE FALSE
    BY <1>2
  <2>2. (final + 1) * B <= first * B
    BY <2>1, <1>1, <1>2, Multiples
  <2>3. (final + 1) * B \in Nat
    BY <1>1, <1>2
  <2> QED BY <2>2, <2>3, <1>1, <1>2 DEF end
<1>6. final < n
  <2>1. SUFFICES ASSUME n - 1 < final PROVE FALSE
    BY <1>1, <1>2
  <2>2. ((n - 1) + 1) * B <= final * B
    BY <2>1, <1>1, <1>2, Multiples
  <2>3. ((n - 1) + 1) * B = (n - 1) * B + B
    BY <1>1
  <2> QED BY <2>2, <2>3, <1>1, <1>2, <1>3
<1>7. ASSUME NEW i \in first .. final
      PROVE  /\ i \in Nat /\ i < n /\ startOf(i) - i * B \in Nat /\ endOf(i) - startOf(i) \in Nat
             /\ endOf(i) \in Int /\ startOf(i) \in Int /\ i * B \in Int
             /\ endOf(i) - i * B <= Len(Bytes(BlobRefs[i + 1]))
             /\ i # final => endOf(i) = startOf(i + 1) /\ i + 1 \in first .. final
  <2>1. i \in Nat /\ i < n /\ i * B \in Nat /\ (i + 1) * B = i * B + B /\ offset \in Nat
    BY <1>1, <1>2, <1>5, <1>6
  <2>2. i # final => (i + 1) * B <= final * B
    BY <2>1, <1>1, <1>2, Multiples
  <2>3. i # first => (first + 1) * B <= i * B /\ (first + 1) * B \in Nat
    BY <2>1, <1>1, <1>2, Multiples
  <2>4. startOf(i) \in Nat /\ i * B <= startOf(i) /\ startOf(i) < (i + 1) * B
    BY <2>1, <1>1, <1>2
  <2>5. endOf(i) \in Nat /\ startOf(i) <= endOf(i)
    <3>1. CASE i = final
      <4>1. offset <= end
        BY <1>1 DEF end
      <4> QED BY <3>1, <4>1, <2>1, <1>1, <1>2
    <3>2. CASE i # final
      BY <3>2, <2>1, <2>4, <1>1
    <3> QED BY <3>1, <3>2
  <2>6. endOf(i) <= (i + 1) * B
    BY <2>1, <1>1, <1>2
  <2>7. endOf(i) - i * B <= Len(Bytes(BlobRefs[i + 1]))
    <3>1. i + 1 \in 1 .. n
      BY <2>1, <1>1
    <3>2. Len(Bytes(BlobRefs[i + 1])) = IF i + 1 = n THEN LastSize ELSE B
      BY <3>1, ByteCounts DEF n, B
    <3>3. CASE i + 1 = n
      <4>1. i = final /\ i = n - 1
        BY <3>3, <1>6, <2>1, <1>1, <1>2
      <4>2. endOf(i) = end /\ i * B = (n - 1) * B
        BY <4>1
      <4> QED BY <4>2, <3>2, <3>3, <1>1, <1>3
    <3>4. CASE i + 1 # n
      BY <3>2, <3>4, <2>1, <2>5, <2>6, <1>1
    <3> QED BY <3>3, <3>4
  <2>8. i # final => endOf(i) = startOf(i + 1) /\ i + 1 \in first .. final
    <3>1. i # final => i + 1 \in first .. final /\ i + 1 # first
      BY <1>2, <2>1
    <3> QED BY <3>1
  <2> QED BY <2>1, <2>4, <2>5, <2>7, <2>8
<1> HIDE DEF startOf, endOf
<1>8. ASSUME NEW i \in first .. final
      PROVE  /\ piece(i) \in Pieces /\ Within(piece(i))
             /\ From(piece(i)) = startOf(i) /\ Upto(piece(i)) = endOf(i)
  <2>1. piece(i) \in Pieces
    BY <1>7 DEF Pieces
  <2>2. /\ piece(i).blobIdx = i /\ piece(i).offsetInBlob = startOf(i) - i * B
        /\ piece(i).lenInBlob = endOf(i) - startOf(i)
    OBVIOUS
  <2> HIDE DEF piece
  <2>3. From(piece(i)) = startOf(i)
    BY <2>2, <1>7 DEF From, B
  <2>4. Upto(piece(i)) = endOf(i)
    BY <2>2, <2>3, <1>7 DEF Upto
  <2>5. Len(Bytes(BlobRefs[i + 1])) \in Nat
    <3>1. i + 1 \in 1 .. n
      BY <1>7, <1>1
    <3> QED BY <3>1, ByteCounts, LenProperties DEF n
  <2>6. piece(i).offsetInBlob + piece(i).lenInBlob = endOf(i) - i * B
    BY <2>2, <1>7
  <2>7. Within(piece(i))
    BY <2>2, <2>6, <1>7 DEF Within, PieceRef, n
  <2> QED BY <2>1, <2>3, <2>4, <2>7
<1> HIDE DEF piece
<1> DEFINE m == final - first + 1
<1>9. /\ m \in Nat \ {0} /\ pieces \in Seq(Pieces) /\ Len(pieces) = m /\ pieces # <<>>
      /\ \A k \in 1 .. m : first + k - 1 \in first .. final /\ pieces[k] = piece(first + k - 1)
  <2>1. m \in Nat \ {0} /\ \A k \in 1 .. m : first + k - 1 \in first .. final
    BY <1>2, <1>5
  <2>2. pieces \in [1 .. m -> Pieces] /\ \A k \in 1 .. m : pieces[k] = piece(first + k - 1)
    BY <2>1, <1>4, <1>8
  <2>3. pieces \in Seq(Pieces) /\ Len(pieces) = m
    BY <2>1, <2>2
  <2>4. pieces # <<>>
    BY <2>1, <2>3
  <2> QED BY <2>1, <2>2, <2>3, <2>4
<1>10. ASSUME NEW k \in 1 .. m PROVE Within(pieces[k])
  BY <1>8, <1>9
<1>11. ASSUME NEW k \in 1 .. m - 1 PROVE From(pieces[k + 1]) = Upto(pieces[k])
  <2> DEFINE i == first + k - 1
  <2>1. k \in 1 .. m /\ k + 1 \in 1 .. m /\ first + (k + 1) - 1 = i + 1 /\ i # final
    BY <1>2, <1>9
  <2>2. /\ i \in first .. final /\ i + 1 \in first .. final
        /\ pieces[k] = piece(i) /\ pieces[k + 1] = piece(i + 1)
    BY <2>1, <1>9, <1>7
  <2> HIDE DEF i
  <2> QED BY <2>1, <2>2, <1>7, <1>8
<1>12. From(pieces[1]) = offset /\ Upto(pieces[Len(pieces)]) = end
  <2>1. 1 \in 1 .. m /\ m \in 1 .. m /\ first + 1 - 1 = first /\ first + m - 1 = final
    BY <1>2, <1>9
  <2>2. pieces[1] = piece(first) /\ pieces[m] = piece(final) /\ first \in first .. final /\ final \in first .. final
    BY <2>1, <1>9
  <2> QED BY <2>2, <1>8, <1>9 DEF startOf, endOf
<1> HIDE DEF m
<1>13. JoinUp(pieces, offset, end)
  BY <1>9, <1>10, <1>11, <1>12 DEF JoinUp
<1> QED BY <1>9, <1>13 DEF pieces, end

(***************************************************************************)
(* The inductive invariant.  What a request has of the file is followed by *)
(* the pieces it still has to read; a blob has one reader between its lock *)
(* and its answer, so nobody brings into the cache what another is         *)
(* downloading.                                                            *)
(***************************************************************************)
Requests ==
  [at : {"none", "locking", "locked", "downloading", "answered"},
   offset : Nat, size : Nat, todo : Seq(Pieces), data : Seq(ToSet(BlobRefs) \X Nat)]

OnItsWay(q) ==
  /\ q.offset + q.size <= FileSize
  /\ q.at = "answered" <=> q.todo = <<>>
  /\ JoinUp(q.todo, q.offset + Len(q.data), q.offset + q.size)
  /\ \A i \in 1 .. Len(q.data) : q.data[i] = FileBytes[q.offset + i]

RequestInv(q) == q \in Requests /\ (q.at # "none" => OnItsWay(q))

OneHolder ==
  \A r, s \in Readers :
    r # s /\ {read[r].at, read[s].at} \subseteq {"locked", "downloading"} => Ref(r) # Ref(s)

CacheInv ==
  /\ cache \in Seq(ToSet(BlobRefs)) /\ Len(cache) <= CacheSize
  /\ DOMAIN read = Readers /\ \A r \in Readers : RequestInv(read[r])
  /\ OneHolder
  /\ NoDoubleDownload

\* Who reads on has a piece to read.
LEMMA NextPiece ==
  ASSUME CacheInv, NEW r \in Readers, read[r].at \in {"locking", "locked", "downloading"}
  PROVE  LET q == read[r]
             p == Head(q.todo)
         IN  /\ p \in Pieces /\ Within(p) /\ From(p) = q.offset + Len(q.data)
             /\ JoinUp(Tail(q.todo), Upto(p), q.offset + q.size)
             /\ Ref(r) = PieceRef(p) /\ Ref(r) \in ToSet(BlobRefs)
<1> DEFINE q == read[r]
           p == Head(q.todo)
<1>1. JoinUp(q.todo, q.offset + Len(q.data), q.offset + q.size) /\ q.todo # <<>>
  BY DEF CacheInv, RequestInv, OnItsWay
<1>2. /\ p \in Pieces /\ Within(p) /\ From(p) = q.offset + Len(q.data)
      /\ JoinUp(Tail(q.todo), Upto(p), q.offset + q.size)
  BY <1>1, FirstPiece
<1>3. Ref(r) = PieceRef(p)
  BY DEF Ref, PieceRef
<1>4. PieceRef(p) \in ToSet(BlobRefs)
  <2> HIDE DEF p
  <2>0. p.blobIdx \in Nat /\ p.blobIdx < Len(BlobRefs) /\ Len(BlobRefs) \in Nat
    BY <1>2, ByteCounts DEF Pieces, Within
  <2>1. p.blobIdx + 1 \in 1 .. Len(BlobRefs)
    BY <2>0
  <2> QED BY <2>1, BlobCacheAssumption, LenProperties DEF PieceRef, ToSet
<1> QED BY <1>2, <1>3, <1>4

\* What Get's answer does to a request.
LEMMA ServedRequest ==
  ASSUME CacheInv, NEW r \in Readers, read[r].at \in {"locked", "downloading"}, read' = Served(r)
  PROVE  /\ DOMAIN read' = Readers
         /\ \A s \in Readers \ {r} : read'[s] = read[s]
         /\ RequestInv(read'[r]) /\ read'[r].at \in {"locking", "answered"}
<1> DEFINE q == read[r]
           p == Head(q.todo)
           rest == Tail(q.todo)
           new == [at |-> IF rest = <<>> THEN "answered" ELSE "locking",
                   offset |-> q.offset, size |-> q.size,
                   todo |-> rest, data |-> q.data \o Piece(r)]
           A == ToSet(BlobRefs) \X Nat
<1>1. /\ p \in Pieces /\ Within(p) /\ From(p) = q.offset + Len(q.data)
      /\ JoinUp(rest, Upto(p), q.offset + q.size) /\ Ref(r) = PieceRef(p)
  BY NextPiece
<1>2. DOMAIN read = Readers /\ q \in Requests /\ OnItsWay(q)
  BY DEF CacheInv, RequestInv
<1>3. read' = [read EXCEPT ![r] = new]
  BY DEF Served
<1>4. /\ Piece(r) \in Seq(A) /\ Len(Piece(r)) = p.lenInBlob
      /\ \A i \in 1 .. p.lenInBlob : Piece(r)[i] = FileBytes[From(p) + i]
  BY <1>1, PieceBytes DEF Piece
<1>5. /\ q.offset \in Nat /\ q.size \in Nat /\ q.data \in Seq(A) /\ Len(q.data) \in Nat
      /\ p.lenInBlob \in Nat /\ rest \in Seq(Pieces)
  BY <1>1, <1>2, LenProperties DEF Requests, Pieces, JoinUp
<1> HIDE DEF A, rest, p, q
<1>6. /\ q.data \o Piece(r) \in Seq(A)
      /\ Len(q.data \o Piece(r)) = Len(q.data) + p.lenInBlob
  <2>1. q.data \in Seq(A) /\ Piece(r) \in Seq(A)
    BY <1>4, <1>5
  <2>2. q.data \o Piece(r) \in Seq(A) /\ Len(q.data \o Piece(r)) = Len(q.data) + Len(Piece(r))
    BY <2>1, ConcatProperties
  <2> QED BY <2>2, <1>4
<1>7. new \in Requests
  BY <1>5, <1>6 DEF Requests, A
<1>8. q.offset + Len(q.data \o Piece(r)) = Upto(p)
  BY <1>1, <1>5, <1>6 DEF Upto
<1>9. ASSUME NEW i \in 1 .. Len(q.data \o Piece(r))
      PROVE  (q.data \o Piece(r))[i] = FileBytes[q.offset + i]
  <2>1. CASE i <= Len(q.data)
    <3>1. i \in 1 .. Len(q.data)
      BY <2>1, <1>5, <1>6
    <3>2. (q.data \o Piece(r))[i] = q.data[i]
      BY <3>1, <1>4, <1>5, ConcatPrefix
    <3> QED BY <3>1, <3>2, <1>2 DEF OnItsWay
  <2>2. CASE i > Len(q.data)
    <3>0. i \in 1 .. Len(q.data) + p.lenInBlob
      BY <1>6
    <3> DEFINE j == i - Len(q.data)
    <3>1. j \in 1 .. p.lenInBlob /\ i \in 1 .. Len(q.data) + Len(Piece(r)) /\ q.offset + Len(q.data) + j = q.offset + i
      BY <2>2, <3>0, <1>4, <1>5
    <3>2. (q.data \o Piece(r))[i] = Piece(r)[j]
      BY <2>2, <3>1, <1>4, <1>5, ConcatSuffix
    <3> HIDE DEF j
    <3>3. Piece(r)[j] = FileBytes[From(p) + j]
      BY <3>1, <1>4
    <3> QED BY <3>1, <3>2, <3>3, <1>1
  <2>3. i \in Nat
    OBVIOUS
  <2> QED BY <2>1, <2>2, <2>3, <1>5
<1>10. OnItsWay(new)
  <2>1. new.at = "answered" <=> rest = <<>>
    OBVIOUS
  <2>2. q.offset + q.size <= FileSize
    BY <1>2 DEF OnItsWay
  <2> QED BY <2>1, <2>2, <1>1, <1>8, <1>9 DEF OnItsWay
<1>11. new.at \in {"locking", "answered"}
  OBVIOUS
<1> HIDE DEF new
<1> QED BY <1>2, <1>3, <1>7, <1>10, <1>11 DEF RequestInv, q

\* The cache forgets, but never has a blob twice.
LEMMA SetCached ==
  ASSUME CacheInv, NEW ref \in ToSet(BlobRefs), ~Contains(cache, ref)
  PROVE  /\ setCached(ref) \in Seq(ToSet(BlobRefs)) /\ Len(setCached(ref)) <= CacheSize
         /\ IsInjective(setCached(ref))
         /\ \A other : ~Contains(cache, other) /\ other # ref => ~Contains(setCached(ref), other)
<1> DEFINE A == ToSet(BlobRefs)
           kept == IF Len(cache) = CacheSize THEN Tail(cache) ELSE cache
<1> HIDE DEF A
<1>1. cache \in Seq(A) /\ Len(cache) \in Nat /\ Len(cache) <= CacheSize /\ CacheSize \in Nat \ {0}
  BY BlobCacheAssumption, LenProperties DEF CacheInv, A
<1>2. \A i, j \in 1 .. Len(cache) : cache[i] = cache[j] => i = j
  BY <1>1, LenProperties DEF CacheInv, NoDoubleDownload, IsInjective
<1>3. /\ kept \in Seq(A) /\ Len(kept) \in Nat /\ Len(kept) < CacheSize
      /\ \E d \in {0, 1} : \A i \in 1 .. Len(kept) : i + d \in 1 .. Len(cache) /\ kept[i] = cache[i + d]
  <2>1. CASE Len(cache) = CacheSize
    <3>1. cache # <<>>
      BY <2>1, <1>1
    <3>2. /\ Tail(cache) \in Seq(A) /\ Len(Tail(cache)) = Len(cache) - 1
          /\ \A i \in 1 .. Len(Tail(cache)) : Tail(cache)[i] = cache[i + 1]
      BY <3>1, <1>1, HeadTailProperties
    <3>3. kept = Tail(cache)
      BY <2>1
    <3> HIDE DEF kept
    <3>4. \A i \in 1 .. Len(kept) : i + 1 \in 1 .. Len(cache) /\ kept[i] = cache[i + 1]
      BY <3>2, <3>3, <1>1
    <3> QED BY <3>2, <3>3, <3>4, <2>1, <1>1
  <2>2. CASE Len(cache) # CacheSize
    <3>1. kept = cache
      BY <2>2
    <3>2. \A i \in 1 .. Len(cache) : i + 0 = i
      BY <1>1
    <3> HIDE DEF kept
    <3> QED BY <3>1, <3>2, <2>2, <1>1
  <2> QED BY <2>1, <2>2
<1> HIDE DEF kept
<1>4. PICK d \in {0, 1} : \A i \in 1 .. Len(kept) : i + d \in 1 .. Len(cache) /\ kept[i] = cache[i + d]
  BY <1>3
<1> DEFINE new == Append(kept, ref)
<1>5. /\ new \in Seq(A) /\ Len(new) = Len(kept) + 1
      /\ \A i \in 1 .. Len(kept) : new[i] = kept[i]
      /\ new[Len(kept) + 1] = ref
  <2>1. ref \in A
    BY DEF A
  <2> QED BY <2>1, <1>3, AppendProperties
<1>6. setCached(ref) = new
  BY DEF setCached, kept
<1> HIDE DEF new
<1>7. \A i \in 1 .. Len(kept) : new[i] # ref
  BY <1>4, <1>5 DEF Contains
<1>8. ASSUME NEW i \in 1 .. Len(new), NEW j \in 1 .. Len(new), new[i] = new[j]
      PROVE  i = j
  <2>1. i \in 1 .. Len(kept) \/ i = Len(kept) + 1
    BY <1>3, <1>5
  <2>2. j \in 1 .. Len(kept) \/ j = Len(kept) + 1
    BY <1>3, <1>5
  <2>3. CASE i \in 1 .. Len(kept) /\ j \in 1 .. Len(kept)
    <3>1. cache[i + d] = cache[j + d] /\ i + d \in 1 .. Len(cache) /\ j + d \in 1 .. Len(cache)
      BY <2>3, <1>4, <1>5, <1>8
    <3>2. i + d = j + d
      BY <3>1, <1>2
    <3> QED BY <3>2
  <2> QED BY <2>1, <2>2, <2>3, <1>5, <1>7, <1>8
<1>9. IsInjective(new)
  BY <1>5, <1>8, LenProperties DEF IsInjective
<1>10. ASSUME NEW other, ~Contains(cache, other), other # ref
       PROVE  ~Contains(new, other)
  <2>1. SUFFICES ASSUME NEW i \in 1 .. Len(new), new[i] = other PROVE FALSE
    BY DEF Contains
  <2>2. i \in 1 .. Len(kept) \/ i = Len(kept) + 1
    BY <1>3, <1>5
  <2>3. i \in 1 .. Len(kept)
    BY <2>1, <2>2, <1>5, <1>10
  <2>4. other = cache[i + d] /\ i + d \in 1 .. Len(cache)
    BY <2>1, <2>3, <1>4, <1>5
  <2> QED BY <2>4, <1>10 DEF Contains
<1>11. Len(new) <= CacheSize
  BY <1>1, <1>3, <1>5
<1> QED BY <1>5, <1>6, <1>9, <1>10, <1>11 DEF A

LEMMA CacheInitInv == CacheInit => CacheInv
<1> SUFFICES ASSUME CacheInit PROVE CacheInv
  OBVIOUS
<1>1. cache \in Seq(ToSet(BlobRefs)) /\ Len(cache) = 0
  BY EmptySeq DEF CacheInit
<1>2. Len(cache) <= CacheSize
  BY <1>1, BlobCacheAssumption
<1>3. IsInjective(cache)
  BY DEF CacheInit, IsInjective
<1>4. ASSUME NEW r \in Readers PROVE read[r] \in Requests /\ read[r].at = "none"
  <2>1. <<>> \in Seq(Pieces) /\ <<>> \in Seq(ToSet(BlobRefs) \X Nat)
    BY EmptySeq
  <2> QED BY <2>1 DEF CacheInit, NoRequest, Requests
<1>5. DOMAIN read = Readers
  BY DEF CacheInit
<1> QED BY <1>1, <1>2, <1>3, <1>4, <1>5 DEF CacheInv, RequestInv, OneHolder, NoDoubleDownload

\* A step of one reader keeps the invariant, when what it does to the cache and
\* to its own request does.
LEMMA OneReaderMoves ==
  ASSUME CacheInv, NEW r \in Readers,
         DOMAIN read' = Readers, \A s \in Readers \ {r} : read'[s] = read[s],
         RequestInv(read'[r]),
         read'[r].at \in {"locked", "downloading"} =>
           \A s \in Readers \ {r} :
             read[s].at \in {"locked", "downloading"} => Ref(s) # Ref(r)',
         cache' \in Seq(ToSet(BlobRefs)), Len(cache') <= CacheSize, IsInjective(cache'),
         \A s \in Readers \ {r} : read[s].at = "downloading" => ~Contains(cache', Ref(s)),
         read'[r].at = "downloading" => ~Contains(cache', Ref(r)')
  PROVE  CacheInv'
<1>1. \A s \in Readers \ {r} : Ref(s)' = Ref(s)
  BY DEF Ref
<1>2. \A s \in Readers : RequestInv(read'[s])
  BY DEF CacheInv
<1>3. OneHolder'
  <2> SUFFICES ASSUME NEW s \in Readers, NEW t \in Readers, s # t,
                      {read'[s].at, read'[t].at} \subseteq {"locked", "downloading"}
               PROVE  Ref(s)' # Ref(t)'
    BY DEF OneHolder
  <2>1. CASE s # r /\ t # r
    BY <2>1, <1>1 DEF CacheInv, OneHolder
  <2>2. CASE s = r
    BY <2>2, <1>1
  <2>3. CASE t = r
    BY <2>3, <1>1
  <2> QED BY <2>1, <2>2, <2>3
<1>4. NoDoubleDownload'
  <2>1. ASSUME NEW s \in Readers, read'[s].at = "downloading"
        PROVE  ~Contains(cache', Ref(s)')
    BY <2>1, <1>1
  <2> QED BY <2>1 DEF NoDoubleDownload
<1>5. (\A s \in Readers : RequestInv(read[s]))'
  BY <1>2 DEF RequestInv, OnItsWay, JoinUp
<1> QED BY <1>2, <1>3, <1>4, <1>5 DEF CacheInv

LEMMA CacheReadStep ==
  ASSUME CacheInv, NEW r \in Readers, NEW offset \in 0 .. FileSize, NEW size \in 1 .. FileSize,
         Read(r, offset, size)
  PROVE  CacheInv'
<1> DEFINE wanted == IF size < FileSize - offset THEN size ELSE FileSize - offset
           pieces == alignReads(offset, wanted)
           new == [at |-> "locking", offset |-> offset, size |-> wanted, todo |-> pieces, data |-> <<>>]
<1>1. /\ offset \in Nat /\ wanted \in Nat \ {0} /\ offset + wanted <= FileSize
  BY ByteCounts DEF Read
<1>2. read' = [read EXCEPT ![r] = new] /\ cache' = cache
  BY DEF Read
<1> HIDE DEF wanted
<1>3. JoinUp(pieces, offset, offset + wanted) /\ pieces # <<>>
  BY <1>1, AlignedJoinUp
<1> HIDE DEF pieces
<1>4. <<>> \in Seq(ToSet(BlobRefs) \X Nat) /\ Len(<<>>) = 0
  BY EmptySeq
<1>5. new \in Requests
  BY <1>1, <1>3, <1>4 DEF Requests, JoinUp
<1>6. OnItsWay(new)
  <2>1. new.at = "locking" /\ new.todo = pieces /\ new.offset = offset /\ new.size = wanted /\ Len(new.data) = 0
    BY <1>4
  <2> HIDE DEF new
  <2>2. offset + 0 = offset
    BY <1>1
  <2> QED BY <2>1, <2>2, <1>1, <1>3 DEF OnItsWay
<1>7. new.at = "locking"
  OBVIOUS
<1> HIDE DEF new
<1>8. DOMAIN read' = Readers /\ read'[r] = new /\ \A s \in Readers \ {r} : read'[s] = read[s]
  BY <1>2 DEF CacheInv
<1> QED BY <1>2, <1>5, <1>6, <1>7, <1>8, OneReaderMoves DEF CacheInv, RequestInv, NoDoubleDownload

\* Steps that change nothing of a request but where it is.
LEMMA MovedOn ==
  ASSUME CacheInv, NEW r \in Readers, NEW at \in {"locked", "downloading"},
         read[r].at \in {"locking", "locked"}, read' = [read EXCEPT ![r].at = at]
  PROVE  /\ DOMAIN read' = Readers /\ \A s \in Readers \ {r} : read'[s] = read[s]
         /\ RequestInv(read'[r]) /\ read'[r].at = at /\ Ref(r)' = Ref(r)
<1> DEFINE q == read[r]
           new == [q EXCEPT !.at = at]
<1>1. DOMAIN read = Readers /\ q \in Requests /\ OnItsWay(q) /\ q.at \notin {"none", "answered"}
  BY DEF CacheInv, RequestInv
<1> HIDE DEF q
<1>2. /\ new \in Requests /\ new.at = at /\ new.offset = q.offset /\ new.size = q.size
      /\ new.todo = q.todo /\ new.data = q.data
  BY <1>1 DEF Requests
<1> HIDE DEF new
<1>3. OnItsWay(new)
  BY <1>1, <1>2 DEF OnItsWay
<1>4. DOMAIN read' = Readers /\ read'[r] = new /\ \A s \in Readers \ {r} : read'[s] = read[s]
  BY <1>1 DEF q, new
<1>5. Ref(r)' = Ref(r)
  BY <1>2, <1>4 DEF Ref, q
<1> QED BY <1>2, <1>3, <1>4, <1>5 DEF RequestInv

LEMMA CacheLockStep ==
  ASSUME CacheInv, NEW r \in Readers, Lock(r)
  PROVE  CacheInv'
<1>1. /\ DOMAIN read' = Readers /\ \A s \in Readers \ {r} : read'[s] = read[s]
      /\ RequestInv(read'[r]) /\ read'[r].at = "locked" /\ Ref(r)' = Ref(r)
  BY MovedOn DEF Lock
<1>2. \A s \in Readers \ {r} : read[s].at \in {"locked", "downloading"} => Ref(s) # Ref(r)
  BY DEF Lock, Free, Holds
<1>3. cache' = cache
  BY DEF Lock
<1> QED BY <1>1, <1>2, <1>3, OneReaderMoves DEF CacheInv, NoDoubleDownload

LEMMA CacheGetCachedStep ==
  ASSUME CacheInv, NEW r \in Readers, GetCached(r)
  PROVE  CacheInv'
<1>1. read[r].at = "locked" /\ read' = Served(r) /\ cache' = cache
  BY DEF GetCached
<1> QED BY <1>1, ServedRequest, OneReaderMoves DEF CacheInv, NoDoubleDownload

LEMMA CacheDownloadStep ==
  ASSUME CacheInv, NEW r \in Readers, DownloadChunk(r)
  PROVE  CacheInv'
<1>1. /\ DOMAIN read' = Readers /\ \A s \in Readers \ {r} : read'[s] = read[s]
      /\ RequestInv(read'[r]) /\ read'[r].at = "downloading" /\ Ref(r)' = Ref(r)
  BY MovedOn DEF DownloadChunk
<1>2. \A s \in Readers \ {r} : read[s].at \in {"locked", "downloading"} => Ref(s) # Ref(r)
  BY DEF DownloadChunk, CacheInv, OneHolder
<1>3. cache' = cache /\ ~Contains(cache, Ref(r))
  BY DEF DownloadChunk
<1> QED BY <1>1, <1>2, <1>3, OneReaderMoves DEF CacheInv, NoDoubleDownload

LEMMA CacheDownloadedStep ==
  ASSUME CacheInv, NEW r \in Readers, Downloaded(r)
  PROVE  CacheInv'
<1>1. read[r].at = "downloading" /\ read' = Served(r) /\ cache' = setCached(Ref(r))
  BY DEF Downloaded
<1>2. Ref(r) \in ToSet(BlobRefs) /\ ~Contains(cache, Ref(r))
  BY <1>1, NextPiece DEF CacheInv, NoDoubleDownload
<1>3. /\ cache' \in Seq(ToSet(BlobRefs)) /\ Len(cache') <= CacheSize /\ IsInjective(cache')
      /\ \A other : ~Contains(cache, other) /\ other # Ref(r) => ~Contains(cache', other)
  BY <1>1, <1>2, SetCached
<1>4. ASSUME NEW s \in Readers \ {r}, read[s].at = "downloading"
      PROVE  ~Contains(cache', Ref(s))
  <2>1. Ref(s) # Ref(r) /\ ~Contains(cache, Ref(s))
    BY <1>1, <1>4 DEF CacheInv, OneHolder, NoDoubleDownload
  <2> QED BY <2>1, <1>3
<1> QED BY <1>1, <1>3, <1>4, ServedRequest, OneReaderMoves

LEMMA CacheDownloadFailsStep ==
  ASSUME CacheInv, NEW r \in Readers, DownloadFails(r)
  PROVE  CacheInv'
<1>1. read' = [read EXCEPT ![r] = NoRequest] /\ cache' = cache
  BY DEF DownloadFails
<1>2. NoRequest \in Requests /\ NoRequest.at = "none"
  <2>1. <<>> \in Seq(Pieces) /\ <<>> \in Seq(ToSet(BlobRefs) \X Nat)
    BY EmptySeq
  <2> QED BY <2>1 DEF NoRequest, Requests
<1>3. DOMAIN read' = Readers /\ read'[r] = NoRequest /\ \A s \in Readers \ {r} : read'[s] = read[s]
  BY <1>1 DEF CacheInv
<1> QED BY <1>1, <1>2, <1>3, OneReaderMoves DEF CacheInv, RequestInv, NoDoubleDownload

LEMMA CacheStep == CacheInv /\ [CacheNext]_cacheVars => CacheInv'
<1> SUFFICES ASSUME CacheInv, [CacheNext]_cacheVars PROVE CacheInv'
  OBVIOUS
<1>1. CASE UNCHANGED cacheVars
  <2>1. cache' = cache /\ read' = read
    BY <1>1 DEF cacheVars
  <2> QED BY <2>1 DEF CacheInv, RequestInv, OnItsWay, JoinUp, OneHolder, NoDoubleDownload, Ref
<1>2. CASE CacheNext
  BY <1>2, CacheReadStep, CacheLockStep, CacheGetCachedStep, CacheDownloadStep,
     CacheDownloadedStep, CacheDownloadFailsStep DEF CacheNext
<1> QED BY <1>1, <1>2

THEOREM CacheInvariant == CacheSpec => []CacheInv
BY CacheInitInv, CacheStep, PTL DEF CacheSpec

\* The state of the blob cache and of the requests of its readers has its type.
THEOREM CacheTypeCorrect == CacheSpec => []CacheTypeOK
<1>1. CacheInv => CacheTypeOK
  BY DEF CacheInv, CacheTypeOK, RequestInv, Requests
<1> QED BY <1>1, CacheInvariant, PTL

\* For every file, cut into blobs of any size, any number of readers and any
\* size of the cache: no blob is downloaded while it is cached, nor cached twice.
THEOREM NoDoubleDownloads == CacheSpec => []NoDoubleDownload
<1>1. CacheInv => NoDoubleDownload
  BY DEF CacheInv
<1> QED BY <1>1, CacheInvariant, PTL

\* The answer to a read is the part of the file that was asked for, wherever it
\* begins and however many blobs it spans, whatever others read meanwhile.
THEOREM ReadsAreExact == CacheSpec => []AnswersExact
<1>1. ASSUME CacheInv, NEW r \in Readers, read[r].at = "answered"
      PROVE  read[r].data = SubSeq(FileBytes, read[r].offset + 1, read[r].offset + read[r].size)
  <2> DEFINE q == read[r]
             o == q.offset
             n == q.size
             A == ToSet(BlobRefs) \X Nat
             part == SubSeq(FileBytes, o + 1, o + n)
  <2>1. q \in Requests /\ OnItsWay(q) /\ q.at = "answered"
    BY <1>1 DEF CacheInv, RequestInv
  <2> HIDE DEF q, A
  <2>2. o \in Nat /\ n \in Nat /\ q.data \in Seq(A) /\ Len(q.data) \in Nat
    BY <2>1, LenProperties DEF Requests, A
  <2>3. o + n <= FileSize /\ o + Len(q.data) = o + n
    BY <2>1 DEF OnItsWay, JoinUp
  <2>4. Len(q.data) = n
    BY <2>2, <2>3
  <2>5. \A i \in 1 .. n : q.data[i] = FileBytes[o + i]
    BY <2>1, <2>4 DEF OnItsWay
  <2>6. FileBytes \in Seq(A) /\ Len(FileBytes) = FileSize /\ FileSize \in Nat
    BY FileLayout, ByteCounts DEF A
  <2> HIDE DEF o, n
  <2>7. \A i \in o + 1 .. o + n : FileBytes[i] \in A
    <3> SUFFICES ASSUME NEW i \in o + 1 .. o + n PROVE FileBytes[i] \in A
      OBVIOUS
    <3>1. i \in 1 .. Len(FileBytes)
      BY <2>2, <2>3, <2>6
    <3> QED BY <3>1, <2>6, ElementOfSeq
  <2>8. /\ part \in Seq(A)
        /\ Len(part) = IF o + 1 <= o + n THEN (o + n) - (o + 1) + 1 ELSE 0
        /\ \A i \in 1 .. (o + n) - (o + 1) + 1 : part[i] = FileBytes[(o + 1) + i - 1]
    <3>1. o + 1 \in Int /\ o + n \in Int
      BY <2>2
    <3> QED BY <3>1, <2>7, SubSeqProperties
  <2> HIDE DEF part
  <2>9. Len(part) = n
    BY <2>2, <2>8
  <2>10. ASSUME NEW i \in 1 .. n PROVE part[i] = q.data[i]
    <3>1. i \in 1 .. (o + n) - (o + 1) + 1 /\ (o + 1) + i - 1 = o + i
      BY <2>2
    <3> QED BY <3>1, <2>5, <2>8
  <2>11. q.data = part
    <3>1. Len(q.data) = Len(part)
      BY <2>4, <2>9
    <3>2. \A i \in 1 .. Len(q.data) : q.data[i] = part[i]
      BY <2>4, <2>10
    <3> QED BY <3>1, <3>2, <2>2, <2>8, SeqEqual
  <2> QED BY <2>11 DEF q, part, o, n
<1>2. CacheInv => AnswersExact
  BY <1>1 DEF AnswersExact
<1> QED BY <1>2, CacheInvariant, PTL

-----------------------------------------------------------------------------
\* FuseMount: any names, contents, lookers and number of versions.

(***************************************************************************)
(* The inductive invariant.  A push that was accepted is in the history of *)
(* the collection, which only grows.                                       *)
(***************************************************************************)
AcceptedIsInHistory ==
  pushing.at = "accepted" => \E v \in 1 .. Latest : versions[v] = pushing.files

Looking == [Lookers -> [at : {"idle", "fetching", "fetched"}, got : Versions]]

FetchedFromHistory == \A l \in Lookers : looker[l].got <= Latest

MountInv == MountTypeOK /\ FetchedFromHistory /\ AcceptedIsInHistory

Pushes == [at : {"none", "scanned", "accepted", "removed"}, base : Versions, files : Files]

LEMMA MountLengths ==
  ASSUME MountTypeOK
  PROVE  Latest \in Nat /\ Latest \in Versions
BY MountAssumption, LenProperties DEF MountTypeOK, Latest, Versions, Empty

LEMMA EmptyFiles == NoFiles \in Files /\ NoPush \in Pushes
<1>1. NoFiles \in Files
  BY DEF NoFiles, Files
<1> QED BY <1>1, MountAssumption DEF NoPush, Pushes, Versions, Empty

LEMMA HistoryOfFiles ==
  ASSUME MountTypeOK, NEW v \in Versions, v <= Latest
  PROVE  FilesAt(v) \in Files
<1>1. CASE v = Empty
  BY <1>1, EmptyFiles DEF FilesAt
<1>2. CASE v # Empty
  <2>1. v \in 1 .. Len(versions)
    BY <1>2, MountAssumption, MountLengths DEF Versions, Latest, Empty
  <2>2. versions[v] \in Files
    BY <2>1, ElementOfSeq DEF MountTypeOK
  <2> QED BY <2>2, <1>2 DEF FilesAt
<1> QED BY <1>1, <1>2

LEMMA VisibleFiles ==
  ASSUME MountTypeOK, NEW v \in nodes
  PROVE  Visible(v) \in Files /\ v \in Versions
<1>1. v \in Versions /\ v <= Latest
  BY DEF MountTypeOK
<1>2. FilesAt(v) \in Files
  BY <1>1, HistoryOfFiles
<1> QED BY <1>1, <1>2 DEF MountTypeOK, Visible, Committed, Files

\* A changeset is added on top of those there are.
LEMMA CommitAppends ==
  ASSUME MountInv, NEW new \in Files, Latest < MaxVersions, versions' = Append(versions, new)
  PROVE  /\ versions' \in Seq(Files) /\ Latest' = Latest + 1 /\ Latest' <= MaxVersions
         /\ \A v \in 1 .. Latest : versions'[v] = versions[v]
         /\ versions'[Latest'] = new
<1>1. versions \in Seq(Files)
  BY DEF MountInv, MountTypeOK
<1>2. Latest \in Nat
  BY MountLengths DEF MountInv
<1> QED BY <1>1, <1>2, MountAssumption, AppendProperties DEF Latest

LEMMA MountInitInv == MountInit => MountInv
<1> SUFFICES ASSUME MountInit PROVE MountInv
  OBVIOUS
<1>1. versions \in Seq(Files) /\ Latest = 0
  BY EmptySeq DEF MountInit, Latest
<1>2. Latest <= MaxVersions /\ 0 \in Versions
  BY <1>1, MountAssumption DEF Versions, Empty
<1>3. looker \in [Lookers -> [at : {"idle", "fetching", "fetched"}, got : Versions]]
  BY <1>2 DEF MountInit, Empty
<1>4. pushing.at = "none"
  BY DEF MountInit, NoPush
<1>5. \A l \in Lookers : looker[l].got <= Latest
  BY <1>1 DEF MountInit, Empty
<1> QED BY <1>1, <1>2, <1>3, <1>4, <1>5, EmptyFiles
    DEF MountInit, MountInv, MountTypeOK, FetchedFromHistory, AcceptedIsInHistory, Pushes

\* Steps that leave the history and the push as they were.
LEMMA MountKept ==
  ASSUME MountInv, UNCHANGED <<versions, pushing>>,
         nodes' \in SUBSET Versions, \A v \in nodes' : v <= Latest, node' \in nodes' \cup {Nothing},
         looker' \in Looking, \A l \in Lookers : looker'[l].got <= Latest,
         workdir' \in Files
  PROVE  MountInv'
<1>1. Latest' = Latest
  BY DEF Latest
<1> QED BY <1>1 DEF MountInv, MountTypeOK, FetchedFromHistory, AcceptedIsInHistory, Looking

LEMMA LookupStep ==
  ASSUME MountInv, NEW l \in Lookers,
         LookupMissing(l) \/ FetchCollectionMetadata(l) \/ LookupFails(l)
  PROVE  MountInv'
<1>1. Latest \in Versions /\ Latest <= Latest
  BY MountLengths DEF MountInv
<1>2. looker \in Looking /\ \A k \in Lookers : looker[k].got <= Latest
  BY DEF MountInv, MountTypeOK, FetchedFromHistory, Looking
<1>3. looker' \in Looking /\ \A k \in Lookers : looker'[k].got <= Latest
  BY <1>1, <1>2 DEF LookupMissing, FetchCollectionMetadata, LookupFails, Looking
<1>4. UNCHANGED <<versions, node, nodes, workdir, pushing>>
  BY DEF LookupMissing, FetchCollectionMetadata, LookupFails
<1> QED BY <1>3, <1>4, MountKept DEF MountInv, MountTypeOK

LEMMA NodeStep ==
  ASSUME MountInv,
         \/ \E l \in Lookers : CacheNode(l)
         \/ ForgetDirs
  PROVE  MountInv'
<1>1. looker \in Looking /\ \A k \in Lookers : looker[k].got <= Latest
  BY DEF MountInv, MountTypeOK, FetchedFromHistory, Looking
<1>2. Empty \in Versions /\ Empty <= Latest
  BY MountLengths, MountAssumption DEF MountInv, Versions, Empty
<1>3. CASE \E l \in Lookers : CacheNode(l)
  <2>1. PICK l \in Lookers : CacheNode(l)
    BY <1>3
  <2>2. /\ node' = looker[l].got /\ nodes' = nodes \cup {looker[l].got} /\ UNCHANGED <<versions, workdir, pushing>>
        /\ looker' = [looker EXCEPT ![l] = [at |-> "idle", got |-> Empty]]
    BY <2>1 DEF CacheNode
  <2>3. looker' \in Looking /\ \A k \in Lookers : looker'[k].got <= Latest
    BY <1>1, <1>2, <2>2 DEF Looking
  <2>4. node' \in nodes' /\ nodes' \in SUBSET Versions /\ \A v \in nodes' : v <= Latest
    BY <1>1, <2>2 DEF Looking, MountInv, MountTypeOK
  <2> QED BY <2>2, <2>3, <2>4, MountKept DEF MountInv, MountTypeOK
<1>4. CASE ForgetDirs
  <2>1. node' = Nothing /\ UNCHANGED <<versions, nodes, looker, workdir, pushing>>
    BY <1>4 DEF ForgetDirs
  <2> QED BY <2>1, <1>1, MountKept DEF MountInv, MountTypeOK
<1> QED BY <1>3, <1>4

LEMMA FileStep ==
  ASSUME MountInv, NEW n \in Names,
         \/ WriteFile(n)
         \/ \E v \in nodes : \/ CreateFile(v, n) \/ RemoveFile(v, n)
                            \/ \E new \in Names : RenameFile(v, n, new)
  PROVE  MountInv'
<1>1. looker \in Looking /\ (\A k \in Lookers : looker[k].got <= Latest) /\ workdir \in Files
  BY DEF MountInv, MountTypeOK, FetchedFromHistory, Looking
<1>2. workdir' \in Files
  BY <1>1 DEF Files, CreateFile, WriteFile, RemoveFile, RenameFile
<1>3. UNCHANGED <<versions, node, nodes, looker, pushing>>
  BY DEF CreateFile, WriteFile, RemoveFile, RenameFile
<1> QED BY <1>1, <1>2, <1>3, MountKept DEF MountInv, MountTypeOK

LEMMA PushStep ==
  ASSUME MountInv, (\E v \in nodes : PushScan(v)) \/ PushRefused \/ CreatePart \/ forgetCollection \/ Remount
  PROVE  MountInv'
<1>1. /\ versions \in Seq(Files) /\ Latest <= MaxVersions /\ Latest \in Nat
      /\ nodes \in SUBSET Versions /\ (\A v \in nodes : v <= Latest) /\ node \in nodes \cup {Nothing}
      /\ looker \in Looking /\ (\A k \in Lookers : looker[k].got <= Latest)
      /\ workdir \in Files /\ pushing \in Pushes
  BY MountLengths DEF MountInv, MountTypeOK, FetchedFromHistory, Looking, Pushes
<1>2. NoFiles \in Files /\ NoPush \in Pushes /\ NoPush.at = "none"
  BY EmptyFiles DEF NoPush
<1>3. Empty \in Versions /\ Empty <= Latest
  BY <1>1, MountAssumption DEF Versions, Empty
<1>4. versions' = versions /\ Latest' = Latest
  BY DEF PushScan, PushRefused, CreatePart, forgetCollection, Remount, Latest
<1>5. workdir' \in Files
  BY <1>1, <1>2 DEF PushScan, PushRefused, CreatePart, forgetCollection, Remount
<1>6. /\ nodes' \in SUBSET Versions /\ \A v \in nodes' : v <= Latest
      /\ node' \in nodes' \cup {Nothing}
  BY <1>1 DEF PushScan, PushRefused, CreatePart, forgetCollection, Remount
<1>7. looker' \in Looking /\ \A k \in Lookers : looker'[k].got <= Latest
  <2>1. CASE Remount
    BY <2>1, <1>3 DEF Remount, Looking
  <2>2. CASE looker' = looker
    BY <2>2, <1>1
  <2> QED BY <2>1, <2>2 DEF PushScan, PushRefused, CreatePart, forgetCollection
<1>8. pushing' \in Pushes /\ pushing'.at # "accepted"
  <2>1. ASSUME NEW v \in nodes, PushScan(v) PROVE pushing' \in Pushes /\ pushing'.at # "accepted"
    <3>1. Visible(v) \in Files /\ v \in Versions
      BY VisibleFiles DEF MountInv
    <3>2. pushing' = [at |-> "scanned", base |-> v, files |-> Visible(v)]
      BY <2>1 DEF PushScan
    <3> QED BY <3>1, <3>2 DEF Pushes
  <2>2. CASE CreatePart
    <3>1. pushing' = [pushing EXCEPT !.at = "removed"]
      BY <2>2 DEF CreatePart
    <3> QED BY <3>1, <1>1 DEF Pushes
  <2>3. CASE pushing' = NoPush
    BY <2>3, <1>2
  <2> QED BY <2>1, <2>2, <2>3 DEF PushRefused, AfterRefusal, forgetCollection, Remount
<1> QED BY <1>1, <1>4, <1>5, <1>6, <1>7, <1>8
    DEF MountInv, MountTypeOK, FetchedFromHistory, AcceptedIsInHistory, Looking, Pushes

LEMMA MountCommitStep ==
  ASSUME MountInv, PushAccepted \/ OtherCommits
  PROVE  MountInv'
<1>1. /\ nodes \in SUBSET Versions /\ (\A v \in nodes : v <= Latest) /\ node \in nodes \cup {Nothing}
      /\ Latest \in Versions /\ Latest \in Nat
      /\ looker \in Looking /\ (\A k \in Lookers : looker[k].got <= Latest)
      /\ workdir \in Files /\ pushing \in Pushes
  BY MountLengths DEF MountInv, MountTypeOK, FetchedFromHistory, Looking, Pushes
<1>2. PICK new \in Files :
        /\ Latest < MaxVersions /\ versions' = Append(versions, new)
        /\ \/ pushing' = pushing
           \/ pushing' = [pushing EXCEPT !.at = "accepted"] /\ new = pushing.files
  <2>1. CASE PushAccepted
    BY <2>1, <1>1 DEF PushAccepted, Pushes
  <2>2. CASE OtherCommits
    <3>1. FilesAt(Latest) \in Files
      BY <1>1, HistoryOfFiles DEF MountInv
    <3>2. \A n \in Names, x \in Contents \cup {Nothing} : [FilesAt(Latest) EXCEPT ![n] = x] \in Files
      BY <3>1 DEF Files
    <3> QED BY <2>2, <3>2 DEF OtherCommits
  <2> QED BY <2>1, <2>2
<1>3. /\ versions' \in Seq(Files) /\ Latest' = Latest + 1 /\ Latest' <= MaxVersions
      /\ \A v \in 1 .. Latest : versions'[v] = versions[v]
      /\ versions'[Latest'] = new
  BY <1>2, CommitAppends
<1>4. UNCHANGED <<node, nodes, looker, workdir>>
  BY DEF PushAccepted, OtherCommits
<1>5. /\ \A v \in nodes' : v <= Latest'
      /\ \A k \in Lookers : looker'[k].got <= Latest'
  <2>1. ASSUME NEW v \in Versions, v <= Latest PROVE v <= Latest'
    BY <2>1, <1>1, <1>3, MountAssumption DEF Versions, Empty
  <2>2. \A k \in Lookers : looker[k].got \in Versions
    BY <1>1 DEF Looking
  <2> QED BY <2>1, <2>2, <1>1, <1>4
<1>6. pushing' \in Pushes
  BY <1>1, <1>2 DEF Pushes
<1>7. AcceptedIsInHistory'
  <2>1. CASE pushing' = pushing
    <3> SUFFICES ASSUME pushing.at = "accepted"
                 PROVE  \E v \in 1 .. Latest' : versions'[v] = pushing.files
      BY <2>1 DEF AcceptedIsInHistory
    <3>1. PICK v \in 1 .. Latest : versions[v] = pushing.files
      BY DEF MountInv, AcceptedIsInHistory
    <3>2. v \in 1 .. Latest'
      BY <1>1, <1>3
    <3> QED BY <3>1, <3>2, <1>3
  <2>2. CASE pushing' = [pushing EXCEPT !.at = "accepted"] /\ new = pushing.files
    <3>1. pushing'.files = new
      BY <2>2, <1>1 DEF Pushes
    <3>2. Latest' \in 1 .. Latest'
      BY <1>1, <1>3
    <3> QED BY <3>1, <3>2, <1>3 DEF AcceptedIsInHistory
  <2> QED BY <2>1, <2>2, <1>2
<1> QED BY <1>1, <1>3, <1>4, <1>5, <1>6, <1>7
    DEF MountInv, MountTypeOK, FetchedFromHistory, Looking, Pushes

LEMMA MountStep == MountInv /\ [MountNext]_mountVars => MountInv'
<1> SUFFICES ASSUME MountInv, [MountNext]_mountVars PROVE MountInv'
  OBVIOUS
<1>1. CASE UNCHANGED mountVars
  <2>1. UNCHANGED <<versions, node, nodes, looker, workdir, pushing>>
    BY <1>1 DEF mountVars
  <2> QED BY <2>1 DEF MountInv, MountTypeOK, FetchedFromHistory, AcceptedIsInHistory, Latest
<1>2. CASE MountNext
  BY <1>2, LookupStep, NodeStep, FileStep, PushStep, MountCommitStep DEF MountNext
<1> QED BY <1>1, <1>2

THEOREM MountInvariant == MountSpec => []MountInv
BY MountInitInv, MountStep, PTL DEF MountSpec

\* The mount's state has its type, and it shows a version the server has.
THEOREM MountTypeCorrect == MountSpec => []MountTypeOK
<1>1. MountInv => MountTypeOK
  BY DEF MountInv
<1> QED BY <1>1, MountInvariant, PTL

\* Whoever else commits and whenever the mount is forgotten or dies: what is
\* removed from the working directory, as the push had scanned it, is in the
\* collection's history.
THEOREM ScannedWorkCommitted == MountSpec => ScannedWorkIsCommitted
<1>1. ASSUME MountInv, CreatePart, NEW n \in Names,
             pushing.files[n] = workdir[n], workdir[n] # Nothing
      PROVE  InSomeVersion(n)
  <2>1. PICK v \in 1 .. Latest : versions[v] = pushing.files
    BY <1>1 DEF CreatePart, MountInv, AcceptedIsInHistory
  <2> QED BY <2>1, <1>1 DEF InSomeVersion
<1>2. MountInv /\ [MountNext]_mountVars =>
        [CreatePart => \A n \in Names :
           pushing.files[n] = workdir[n] /\ workdir[n] # Nothing => InSomeVersion(n)]_mountVars
  BY <1>1
<1> QED BY <1>2, MountInvariant, PTL DEF MountSpec, ScannedWorkIsCommitted

-----------------------------------------------------------------------------
\* MCClients: side by side, each program keeps its own invariant.

ClientsInv == ScannerInv /\ UploadsInv /\ CacheInv /\ MountInv

\* A step of one of them is a step or a stutter of each.
LEMMA StepsOfEach ==
  ASSUME [ClientsNext]_allClients
  PROVE  /\ [ScannerNext]_scannerVars
         /\ [UploadsNext]_uploadsVars
         /\ [CacheNext]_cacheVars
         /\ [MountNext]_mountVars
<1>1. CASE UNCHANGED allClients
  BY <1>1 DEF allClients
<1>2. CASE ScannerNext /\ Others("scanner")
  BY <1>2 DEF Others
<1>3. CASE UploadsNext /\ Others("uploads")
  BY <1>3 DEF Others
<1>4. CASE CacheNext /\ Others("cache")
  BY <1>4 DEF Others
<1>5. CASE MountNext /\ Others("mount")
  BY <1>5 DEF Others
<1> QED BY <1>1, <1>2, <1>3, <1>4, <1>5 DEF ClientsNext

LEMMA AtRestStarts ==
  ASSUME ScannerAtRest
  PROVE  ScannerInv
<1>1. /\ clock = 0 /\ saved = 0 /\ events = 0
      /\ version = [c \in ScanColls |-> 0] /\ head = [c \in ScanColls |-> 0]
      /\ files = [c \in ScanColls |-> {}] /\ thumbs = [c \in ScanColls |-> {}]
      /\ skipped = [c \in ScanColls |-> {}]
      /\ scanner = [Dead EXCEPT !.pc = "polling"]
      /\ scans = [w \in Scanners |-> NoScan]
  BY DEF ScannerAtRest
<1>2. CollsInv
  BY <1>1 DEF CollsInv, UniqueVersions
<1>3. NothingMissed(Colls, 0)
  BY <1>1 DEF NothingMissed, Owed, Lacking, Colls
<1>4. /\ scanner \in ScannerStates(Colls) /\ scanner.pc = "polling" /\ scanner.cursor = 0
      /\ saved \in 0..Colls.clock
  BY <1>1 DEF Colls, Dead, ScannerStates
<1>5. ScansInv(Colls, scans) /\ scans["task"] = NoScan
  BY <1>1, ScanKinds DEF ScansInv, Scanners
<1>6. TaskInv(Colls, saved, scanner, scans)
  BY <1>1, <1>3, <1>4, <1>5 DEF TaskInv
<1> QED BY <1>1, <1>2, <1>6, MediaScannerAssumption DEF ScannerInv

LEMMA OverStarts ==
  ASSUME UploadsOver
  PROVE  UploadsInv
<1>1. UploadsTypeOK
  <2>1. discovered \in Seq(Refs) /\ Len(discovered) = 0
    BY EmptySeq DEF UploadsOver
  <2>2. [at |-> "idle", ref |-> NoRef, err |-> FALSE] \in Resting
    BY DEF Resting
  <2>3. uploader \in [Uploaders -> Resting \cup Busy]
    BY <2>2 DEF UploadsOver
  <2>4. pusher \in Over
    BY DEF UploadsOver, Over
  <2> QED BY <2>1, <2>3, <2>4 DEF UploadsOver, UploadsTypeOK
<1>2. Taken = {}
  BY EmptySeq DEF UploadsOver, Taken
<1> QED BY <1>1, <1>2 DEF UploadsOver, UploadsInv, TakenIsCovered, HeardHaveReturned,
                         CommitsWhenAllHeard, SomethingOffered

LEMMA ClientsStart ==
  ASSUME ClientsInit
  PROVE  ClientsInv
BY ScannerStarts, AtRestStarts, UploadsStart, OverStarts, CacheInitInv, MountInitInv
   DEF ClientsInit, ClientsInv

LEMMA ClientsStep ==
  ASSUME ClientsInv, [ClientsNext]_allClients
  PROVE  ClientsInv'
BY StepsOfEach, ScannerStep, UploadsStep, CacheStep, MountStep DEF ClientsInv

\* All the programs keep their types side by side: none of them has a variable
\* of another's.
THEOREM ClientsTypeCorrect == ClientsSpec => []ClientsTypeOK
<1>1. ClientsInit => ClientsInv
  BY ClientsStart
<1>2. ClientsInv /\ [ClientsNext]_allClients => ClientsInv'
  BY ClientsStep
<1>3. ScannerInv => ScannerTypeOK
  BY ScannerInvTypes
<1>4. CacheInv => CacheTypeOK
  BY DEF CacheInv, CacheTypeOK, RequestInv, Requests
<1>5. ClientsInv => ClientsTypeOK
  BY <1>3, <1>4 DEF ClientsInv, UploadsInv, MountInv, ClientsTypeOK
<1> QED BY <1>1, <1>2, <1>5, PTL DEF ClientsSpec
=============================================================================
