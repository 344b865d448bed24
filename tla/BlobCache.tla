------------------------------- MODULE BlobCache -------------------------------
(***************************************************************************)
(* Reads of a committed file through the FUSE mount: each is cut at the    *)
(* borders of the file's blobs, and the blobs come through a small cache   *)
(* shared by all readers (stofuse/blobcache.go, utils.go).                 *)
(*                                                                         *)
(* A blob's bytes are pairs of its reference and a position, so that a     *)
(* byte of the wrong blob, or of the wrong place, shows.                   *)
(***************************************************************************)
EXTENDS Integers, Sequences, SequencesExt, FiniteSets

CONSTANTS
  Readers,    \* the kernel's concurrent read requests
  BlobRefs,   \* the blobs of the file, in order
  BlobSize,   \* bytes in every blob but the last
  LastSize,   \* bytes in the last
  CacheSize   \* lruCacheSize

ASSUME BlobCacheAssumption ==
  /\ BlobSize \in Nat \ {0} /\ LastSize \in 1 .. BlobSize
  /\ CacheSize \in Nat \ {0}
  /\ BlobRefs \in Seq(ToSet(BlobRefs)) /\ Len(BlobRefs) > 0
  \* Equal blobs have one reference, so a shorter last blob is another blob.
  /\ LastSize < BlobSize => \A k \in 1 .. Len(BlobRefs) - 1 : BlobRefs[k] # BlobRefs[Len(BlobRefs)]

VARIABLES
  cache,  \* lruCache: references, oldest first
  read    \* read[r]: the request being served

cacheVars == <<cache, read>>

FileSize == (Len(BlobRefs) - 1) * BlobSize + LastSize
Bytes(ref) ==
  [i \in 1 .. (IF ref = BlobRefs[Len(BlobRefs)] THEN LastSize ELSE BlobSize) |-> <<ref, i>>]

(***************************************************************************)
(* Cutting a read.                                                         *)
(***************************************************************************)
BlobIdxFromOffset(offset) == offset \div BlobSize

\* The first piece starts inside a blob, the others at its border; each but the
\* last goes to the end of its blob.
alignReads(offset, size) ==
  LET first == BlobIdxFromOffset(offset)
      final == BlobIdxFromOffset(offset + size - 1)
      start(i) == IF i = first THEN offset ELSE i * BlobSize
      end(i) == IF i = final THEN offset + size ELSE (i + 1) * BlobSize
  IN  [k \in 1 .. final - first + 1 |->
         LET i == first + k - 1
         IN  [blobIdx |-> i, offsetInBlob |-> start(i) - i * BlobSize,
              lenInBlob |-> end(i) - start(i)]]

(***************************************************************************)
(* Requests.                                                               *)
(***************************************************************************)
NoRequest == [at |-> "none", offset |-> 0, size |-> 0, todo |-> <<>>, data |-> <<>>]

CacheInit ==
  /\ cache = <<>>
  /\ read = [r \in Readers |-> NoRequest]

\* A request past the end is refused, one across it is cut.
Read(r, offset, size) ==
  /\ read[r].at \in {"none", "answered"}
  /\ offset < FileSize
  /\ LET wanted == IF size < FileSize - offset THEN size ELSE FileSize - offset
     IN  read' = [read EXCEPT ![r] =
           [at |-> "locking", offset |-> offset, size |-> wanted,
            todo |-> alignReads(offset, wanted), data |-> <<>>]]
  /\ UNCHANGED cache

Ref(r) == BlobRefs[Head(read[r].todo).blobIdx + 1]
Holds(r, ref) == read[r].at \in {"locked", "downloading"} /\ Ref(r) = ref

Free_Always(ref) == TRUE
Free(ref) == \A other \in Readers : ~Holds(other, ref)

Lock(r) ==
  /\ read[r].at = "locking" /\ Free(Ref(r))
  /\ read' = [read EXCEPT ![r].at = "locked"]
  /\ UNCHANGED cache

Piece_FromTheBorder(r) == SubSeq(Bytes(Ref(r)), 1, Head(read[r].todo).lenInBlob)

\* Read adds its piece of the blob, whose lock Get has released.
Piece(r) ==
  LET p == Head(read[r].todo)
  IN  SubSeq(Bytes(Ref(r)), p.offsetInBlob + 1, p.offsetInBlob + p.lenInBlob)

Served(r) ==
  LET rest == Tail(read[r].todo)
  IN  [read EXCEPT ![r] =
        [at |-> IF rest = <<>> THEN "answered" ELSE "locking",
         offset |-> read[r].offset, size |-> read[r].size,
         todo |-> rest, data |-> read[r].data \o Piece(r)]]

GetCached(r) ==
  /\ read[r].at = "locked" /\ Contains(cache, Ref(r))
  /\ read' = Served(r)
  /\ UNCHANGED cache

DownloadChunk(r) ==
  /\ read[r].at = "locked" /\ ~Contains(cache, Ref(r))
  /\ read' = [read EXCEPT ![r].at = "downloading"]
  /\ UNCHANGED cache

setCached_NoEviction(ref) == Append(cache, ref)

\* Despite its name the cache drops what came first, not what was used least.
setCached(ref) == Append(IF Len(cache) = CacheSize THEN Tail(cache) ELSE cache, ref)

Downloaded(r) ==
  /\ read[r].at = "downloading"
  /\ cache' = setCached(Ref(r))
  /\ read' = Served(r)

\* The request fails as a whole, whatever it had read.
DownloadFails(r) ==
  /\ read[r].at = "downloading"
  /\ read' = [read EXCEPT ![r] = NoRequest]
  /\ UNCHANGED cache

CacheNext ==
  \E r \in Readers :
    \/ \E offset \in 0 .. FileSize, size \in 1 .. FileSize : Read(r, offset, size)
    \/ Lock(r) \/ GetCached(r) \/ DownloadChunk(r) \/ Downloaded(r) \/ DownloadFails(r)

CacheSpec == CacheInit /\ [][CacheNext]_cacheVars

(***************************************************************************)
(* Properties.                                                             *)
(***************************************************************************)
CacheTypeOK ==
  /\ cache \in Seq(ToSet(BlobRefs)) /\ Len(cache) <= CacheSize
  /\ \A r \in Readers : read[r].at \in {"none", "locking", "locked", "downloading", "answered"}

\* The file, byte by byte.
FileBytes == FlattenSeq([k \in 1 .. Len(BlobRefs) |-> Bytes(BlobRefs[k])])

\* However requests interleave and blobs are evicted, an answer is the part of
\* the file that was asked for.
AnswersExact ==
  \A r \in Readers : read[r].at = "answered" =>
    read[r].data = SubSeq(FileBytes, read[r].offset + 1, read[r].offset + read[r].size)

\* "protect from races ending up in multiple downloads for same blob": no blob
\* takes two places of the cache, or is downloaded while it is in it.
NoDoubleDownload ==
  /\ IsInjective(cache)
  /\ \A r \in Readers : read[r].at = "downloading" => ~Contains(cache, Ref(r))
=============================================================================
