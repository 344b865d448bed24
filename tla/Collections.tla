----------------------------- MODULE Collections -----------------------------
(***************************************************************************)
(* Collections on the server: their changesets, the state of files each    *)
(* revision resolves to, and the encryption keys that have to follow files *)
(* from collection to collection.                                          *)
(*                                                                         *)
(* Each collection has a data encryption key (DEK) of its own, with which  *)
(* blobs first uploaded to it are encrypted; the DEK of c is named c.  A   *)
(* DEK is kept in envelopes, one per collection that has blobs encrypted   *)
(* with it, each sealed for some key encryption keys (KEKs).               *)
(*                                                                         *)
(* A transaction is one action.  Volumes, and what a commit does to        *)
(* replication queues, are in BlobStore.                                   *)
(***************************************************************************)
EXTENDS Integers, Sequences, FiniteSets

CONSTANTS
  Colls,
  Paths,
  Contents,      \* of files
  Blobs,
  BlobRefs,      \* BlobRefs[x]: the blobs content x consists of
  ThumbOf,       \* ThumbOf[x]: path of the thumbnail of content x, or None if
                 \* it is not in Paths
  Keks,
  ChangesetIDs,  \* bound: no further changesets than these
  NoParentID,
  None

ASSUME BlobRefsAssumption == BlobRefs \in [Contents -> SUBSET Blobs]
ASSUME ThumbOfAssumption == ThumbOf \in [Contents -> Paths \cup {None}]
ASSUME NoneAssumption == None \notin Colls \cup Contents
ASSUME NoParentAssumption == NoParentID \notin ChangesetIDs

VARIABLES
  live,       \* collections there are
  gone,       \* collections deleted; ids are not used again
  history,    \* Changesets
  head,
  envelopes,  \* envelopes[c][dek]: KEKs that open c's envelope of dek; {} if none
  keks,       \* KEKs in the database
  keyStore,   \* KEKs in the key store, which is filled at boot
  dekOf,      \* dekOf[b]: EncryptionKeyID of b's row, None if there is none
  uploading   \* uploading[b]: collection for which b is being written, or None

histVars == <<history, head>>
keyVars == <<keks, keyStore>>
blobVars == <<dekOf, uploading>>
vars == <<live, gone, histVars, envelopes, keyVars, blobVars>>

(***************************************************************************)
(* Changesets, and the files they add up to.                               *)
(***************************************************************************)
Tree == [Paths -> Contents \cup {None}]
NoFiles == [p \in Paths |-> None]

Changeset == [id : ChangesetIDs, parent : ChangesetIDs \cup {NoParentID},
              created : Tree, updated : Tree, deleted : SUBSET Paths]

\* None is not mistaken for the past of a collection.
ASSUME NoVersionsAssumption == None \notin Seq(Tree)

Files(tree) == {p \in Paths : tree[p] # None}

\* The contents a changeset brings.
Written(ch) ==
  {ch.created[p] : p \in Files(ch.created)} \cup {ch.updated[p] : p \in Files(ch.updated)}

AnyChanges_NotUpdates(ch) == Files(ch.created) # {} \/ ch.deleted # {}

AnyChanges(ch) == Files(ch.created) # {} \/ Files(ch.updated) # {} \/ ch.deleted # {}

\* One round of the loop of ComputeStateAt: creates, deletes, updates.
Applied(ch, files) ==
  [p \in Paths |-> IF ch.updated[p] # None THEN ch.updated[p]
                   ELSE IF p \in ch.deleted THEN None
                   ELSE IF ch.created[p] # None THEN ch.created[p]
                   ELSE files[p]]

IDs(h) == {h[i].id : i \in DOMAIN h}

findChangesetByID(h, id) ==
  h[CHOOSE i \in DOMAIN h : h[i].id = id /\ \A j \in 1 .. i - 1 : h[j].id # id]

\* ComputeStateAt: along the parents back to the root.
StateAt(h, id) ==
  LET files[i \in IDs(h) \cup {NoParentID}] ==
        IF i = NoParentID THEN NoFiles
        ELSE LET ch == findChangesetByID(h, i) IN Applied(ch, files[ch.parent])
  IN  files[id]

StateAtHead(c) == StateAt(history[c], head[c])

\* What a client sends to turn one tree into another.
Diff(before, after) ==
  [created |-> [p \in Paths |-> IF before[p] = None THEN after[p] ELSE None],
   updated |-> [p \in Paths |-> IF before[p] # None /\ before[p] # after[p]
                                THEN after[p] ELSE None],
   deleted |-> Files(before) \ Files(after)]

NewChangeset(id, parent, diff) ==
  [id |-> id, parent |-> parent, created |-> diff.created, updated |-> diff.updated,
   deleted |-> diff.deleted]

\* Ids are random: a new one is in no collection.
Fresh(id) == \A c \in Colls : id \notin IDs(history[c])

(***************************************************************************)
(* The parts of appendAndValidateChangeset.                                *)
(***************************************************************************)
FitsTree_Overwrites(ch, files) ==
  /\ Files(ch.updated) \subseteq Files(files)
  /\ ch.deleted \subseteq Files(files)

FitsTree(ch, files) ==
  /\ Files(ch.created) \cap Files(files) = {}
  /\ Files(ch.updated) \subseteq Files(files)
  /\ ch.deleted \subseteq Files(files)

Appended_First(h, ch) == <<ch>> \o h

Appended(h, ch) == Append(h, ch)

(***************************************************************************)
(* Envelopes.                                                              *)
(***************************************************************************)
\* DEKs with which these contents' blobs are encrypted.
DeksOf(contents) == {dekOf[b] : b \in UNION {BlobRefs[x] : x \in contents}}

MissingDeks_Never(c, contents) == {}

\* FindDekEnvelope finds no envelope of theirs in c.
MissingDeks(c, contents) == {d \in DeksOf(contents) : envelopes[c][d] = {}}

\* Store.DecryptDek.  (A DEK in its cache has been opened once, by a KEK that
\* is still in the store.)
Opens(slots) == slots \cap keyStore # {}

\* Store.EncryptDek
Seals(recipients) == recipients # {} /\ recipients \subseteq keyStore

\* copyAndReEncryptDekFromAnotherCollection for each of the DEKs: the first
\* collection by id that has an envelope must be able to open it.  Ids are
\* random, so it may be any.
CanCopy(deks, recipients) ==
  deks # {} => /\ Seals(recipients)
               /\ \A d \in deks : \E s \in live : Opens(envelopes[s][d])

WithEnvelopes(c, deks, recipients) ==
  [envelopes EXCEPT ![c] = [d \in Colls |-> IF d \in deks THEN recipients ELSE @[d]]]

(***************************************************************************)
(* Collections and KEKs come and go.                                       *)
(***************************************************************************)
Init ==
  /\ live = {}
  /\ gone = {}
  /\ history = [c \in Colls |-> <<>>]
  /\ head = [c \in Colls |-> NoParentID]
  /\ envelopes = [c \in Colls |-> [d \in Colls |-> {}]]
  /\ keks = {}
  /\ keyStore = {}
  /\ dekOf = [b \in Blobs |-> None]
  /\ uploading = [b \in Blobs |-> None]

\* Its own DEK is sealed for all KEKs there are.
CollectionCreate(c) ==
  /\ c \notin live \cup gone
  /\ Seals(keks)
  /\ live' = live \cup {c}
  /\ envelopes' = [envelopes EXCEPT ![c][c] = keks]
  /\ UNCHANGED <<gone, histVars, keyVars, blobVars>>

EnvelopesWithout_Kept(c) == envelopes

EnvelopesWithout(c) == [envelopes EXCEPT ![c] = [d \in Colls |-> {}]]

\* The record goes, with its changesets and envelopes.  Blobs stay.
CollectionDelete(c) ==
  /\ c \in live
  /\ live' = live \ {c}
  /\ gone' = gone \cup {c}
  /\ history' = [history EXCEPT ![c] = <<>>]
  /\ head' = [head EXCEPT ![c] = NoParentID]
  /\ envelopes' = EnvelopesWithout(c)
  /\ UNCHANGED <<keyVars, blobVars>>

KekGenerateOrImport(k) ==
  /\ keks' = keks \cup {k}
  /\ UNCHANGED <<live, gone, histVars, envelopes, keyStore, blobVars>>

\* A reload of the configuration, or a crash, and the boot after it.
\* (A reload waits for uploads; a crash does not.)
Restart ==
  /\ keyStore' = keks
  /\ uploading' = [b \in Blobs |-> None]
  /\ UNCHANGED <<live, gone, histVars, envelopes, keks, dekOf>>

(***************************************************************************)
(* Uploads.                                                                *)
(***************************************************************************)
NotSeen(b) == dekOf[b] = None

\* UploadBlob until the ciphertext is being stored: the blob is locked, has no
\* row, and the collection's own key is taken.
BeginUpload(b, c) ==
  /\ c \in live
  /\ uploading[b] = None
  /\ NotSeen(b)
  /\ Opens(envelopes[c][c])
  /\ uploading' = [uploading EXCEPT ![b] = c]
  /\ UNCHANGED <<live, gone, histVars, envelopes, keyVars, dekOf>>

\* WriteBlobCreated, and the unlocking.
RecordUpload(b) ==
  /\ uploading[b] # None
  /\ dekOf' = [dekOf EXCEPT ![b] = uploading[b]]
  /\ uploading' = [uploading EXCEPT ![b] = None]
  /\ UNCHANGED <<live, gone, histVars, envelopes, keyVars>>

FailUpload(b) ==
  /\ uploading[b] # None
  /\ uploading' = [uploading EXCEPT ![b] = None]
  /\ UNCHANGED <<live, gone, histVars, envelopes, keyVars, dekOf>>

(***************************************************************************)
(* Changes to files.                                                       *)
(***************************************************************************)
TargetsHead_AnyParent(ch, c) == TRUE

TargetsHead(ch, c) == ch.parent = head[c]

BlobsExist(contents) == None \notin DeksOf(contents)

\* commitChangesetInternal
CommitChangeset(c, ch) ==
  LET missing == MissingDeks(c, Written(ch))
      recipients == envelopes[c][c]
  IN  /\ AnyChanges(ch)
      /\ c \in live
      /\ ch.id \notin IDs(history[c])
      /\ ch.parent # NoParentID => ch.parent \in IDs(history[c])
      /\ TargetsHead(ch, c)
      /\ BlobsExist(Written(ch))
      /\ CanCopy(missing, recipients)
      /\ FitsTree(ch, StateAtHead(c))
      /\ history' = [history EXCEPT ![c] = Appended(@, ch)]
      /\ head' = [head EXCEPT ![c] = ch.id]
      /\ envelopes' = WithEnvelopes(c, missing, recipients)
      /\ UNCHANGED <<live, gone, keyVars, blobVars>>

\* discoverRelatedFilePaths: thumbnails of the files given.
Related(files, tree) == {ThumbOf[tree[p]] : p \in files} \cap Files(tree)

WithRelated(files, tree) == files \cup Related(files, tree)

Only(files, tree) == [p \in Paths |-> IF p \in files THEN tree[p] ELSE None]

CollectionDeleteFiles(c, files, id) ==
  LET tree == StateAtHead(c)
      ch == [id |-> id, parent |-> head[c], created |-> NoFiles, updated |-> NoFiles,
             deleted |-> WithRelated(files, tree)]
  IN  /\ files # {}
      /\ c \in live
      /\ files \subseteq Files(tree)
      /\ Fresh(id)
      /\ history' = [history EXCEPT ![c] = Appended(@, ch)]
      /\ head' = [head EXCEPT ![c] = id]
      /\ UNCHANGED <<live, gone, envelopes, keyVars, blobVars>>

\* Both collections change in one transaction.  New envelopes are sealed for
\* the KEKs of the source.
CollectionMoveFilesIntoAnotherCollection(src, dst, files, srcID, dstID) ==
  LET tree == StateAtHead(src)
      moved == WithRelated(files, tree)
      srcCh == [id |-> srcID, parent |-> head[src], created |-> NoFiles,
                updated |-> NoFiles, deleted |-> moved]
      dstCh == [id |-> dstID, parent |-> head[dst], created |-> Only(moved, tree),
                updated |-> NoFiles, deleted |-> {}]
      missing == MissingDeks(dst, Written(dstCh))
      recipients == envelopes[src][src]
  IN  /\ files # {}
      /\ src # dst
      /\ {src, dst} \subseteq live
      /\ files \subseteq Files(tree)
      /\ BlobsExist(Written(dstCh))
      /\ CanCopy(missing, recipients)
      /\ FitsTree(dstCh, StateAtHead(dst))
      /\ Fresh(srcID) /\ Fresh(dstID) /\ srcID # dstID
      /\ history' = [history EXCEPT ![src] = Appended(@, srcCh), ![dst] = Appended(@, dstCh)]
      /\ head' = [head EXCEPT ![src] = srcID, ![dst] = dstID]
      /\ envelopes' = WithEnvelopes(dst, missing, recipients)
      /\ UNCHANGED <<live, gone, keyVars, blobVars>>

(***************************************************************************)
(* The specification.  A client sends a changeset computed from a revision *)
(* it has seen, or, as pushOne does, one that creates files without        *)
(* looking at what there is; and it may send it twice.                     *)
(***************************************************************************)
Revisions(c) == {NoParentID} \cup IDs(history[c])

ClientCommit ==
  \E c \in live : \E parent \in Revisions(c) : \E base \in {parent, NoParentID} :
    LET before == StateAt(history[c], base)
    IN  \E after \in Tree, id \in ChangesetIDs :
          /\ \A other \in Colls \ {c} : id \notin IDs(history[other])
          /\ CommitChangeset(c, NewChangeset(id, parent, Diff(before, after)))

Upload ==
  \E b \in Blobs :
    \/ \E c \in Colls : BeginUpload(b, c)
    \/ RecordUpload(b)
    \/ FailUpload(b)

Command ==
  \/ \E c \in Colls : CollectionCreate(c) \/ CollectionDelete(c)
  \/ \E k \in Keks : KekGenerateOrImport(k)
  \/ \E c \in live, files \in SUBSET Paths, id \in ChangesetIDs :
       CollectionDeleteFiles(c, files, id)
  \/ \E src, dst \in live, files \in SUBSET Paths, srcID, dstID \in ChangesetIDs :
       CollectionMoveFilesIntoAnotherCollection(src, dst, files, srcID, dstID)

ServerStep == Upload \/ Command \/ Restart

Next == ClientCommit \/ ServerStep

Spec == Init /\ [][Next]_vars

(***************************************************************************)
(* Properties.                                                             *)
(***************************************************************************)
\* Types; and of a collection that is not there, nothing is left that others
\* could find: no changesets, and no envelopes in the index by DEK.
TypeOK ==
  /\ live \subseteq Colls
  /\ gone \subseteq Colls
  /\ live \cap gone = {}
  /\ history \in [Colls -> Seq(Changeset)]
  /\ head \in [Colls -> ChangesetIDs \cup {NoParentID}]
  /\ envelopes \in [Colls -> [Colls -> SUBSET Keks]]
  /\ keks \subseteq Keks
  /\ keyStore \subseteq keks
  /\ dekOf \in [Blobs -> Colls \cup {None}]
  /\ uploading \in [Blobs -> Colls \cup {None}]
  /\ \A c \in Colls \ live :
       history[c] = <<>> /\ head[c] = NoParentID /\ envelopes[c] = [d \in Colls |-> {}]

\* The changesets of a collection form a chain from the root to the head: no
\* dangling heads, no branches, no id twice, although clients race each other
\* and the commands, and repeat requests.
HistoryIsChain ==
  \A c \in Colls :
    LET h == history[c]
    IN  /\ \A i, j \in DOMAIN h : h[i].id = h[j].id => i = j
        /\ \A i \in DOMAIN h : h[i].parent = IF i = 1 THEN NoParentID ELSE h[i - 1].id
        /\ head[c] = IF h = <<>> THEN NoParentID ELSE h[Len(h)].id

\* Every file of every revision of a collection can be read: its blobs have
\* rows, and the collection has an envelope for each of their keys that the
\* server can open - whichever collections the blobs were first uploaded to,
\* deduplicated from or moved through, and whichever of those were deleted.
KeysFollowBlobs ==
  \A c \in live : \A i \in DOMAIN history[c] : \A x \in Written(history[c][i]) :
    \A b \in BlobRefs[x] : dekOf[b] # None /\ Opens(envelopes[c][dekOf[b]])

\* A collection is a tree with all its versions: each operation adds a version,
\* none changes a past one, a move takes files, with their thumbnails, from one
\* tree to another and loses or doubles none.
Versions ==
  [c \in Colls |->
     IF c \in live THEN [i \in DOMAIN history[c] |-> StateAt(history[c], history[c][i].id)]
     ELSE None]

Abstract == INSTANCE VersionedTrees WITH versions <- Versions

IsVersioned == Abstract!Spec
=============================================================================
