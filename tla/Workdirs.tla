------------------------------- MODULE Workdirs -------------------------------
(***************************************************************************)
(* Clients of Collections: working directories that are cloned, pushed and *)
(* removed, and one-off pushes of a single file.                           *)
(*                                                                         *)
(* A push is the scan of the directory, the uploads of the blobs found, a  *)
(* commit whose answer may get lost, and the saving of the manifest; other *)
(* clients and commands act in between.  What files a directory holds is   *)
(* up to its user, who may change them even during a push: a scan may find *)
(* any tree.  And which of the files that are also in the collection have  *)
(* the size and the time recorded there, so that a scan does not read      *)
(* them, is up to the user too: any may, whatever is in them.              *)
(***************************************************************************)
EXTENDS Collections, SequencesExt

CONSTANTS
  Workdir,         \* places for working directories
  UnknownRevision  \* ids that a collection does not have; as ids are random,
                   \* it never will

ASSUME UnknownAssumption == UnknownRevision \notin ChangesetIDs \cup {NoParentID}

VARIABLES
  manifest,  \* manifest[w]: what .varasto holds, None if w is no working directory
  request    \* request[w]: the changeset being pushed from there, None if none is

clientVars == <<manifest, request>>
allVars == <<vars, clientVars>>

ClientRevisions == ChangesetIDs \cup {NoParentID, UnknownRevision}

\* ChangesetID is rev; Collection, a copy of the server's record, is coll, seen
\* and seenHead.
BupManifest == [coll : Colls, rev : ClientRevisions,
                seen : Seq(Changeset), seenHead : ChangesetIDs \cup {NoParentID}]

\* A changeset as a client may send it.
SentChangeset == [id : ChangesetIDs, parent : ClientRevisions,
                  created : Tree, updated : Tree, deleted : SUBSET Paths]

\* With the changeset, for the properties: the files its sender read, and those
\* it left unread.
Request == [coll : Colls, ch : SentChangeset, read : Tree, unread : SUBSET Paths]

WorkdirsInit ==
  /\ Init
  /\ manifest = [w \in Workdir |-> None]
  /\ request = [w \in Workdir |-> None]

(***************************************************************************)
(* Directories.                                                            *)
(***************************************************************************)
\* clone, of the head if no revision is asked for.  The manifest is saved before
\* the revision is looked up, and stays if that or a download fails.  (adopt
\* clones an empty collection.)
clone(w, c, requested) ==
  LET rev == IF requested = NoParentID THEN head[c] ELSE requested
  IN  /\ manifest[w] = None
      /\ request[w] = None
      /\ c \in live
      /\ manifest' = [manifest EXCEPT ![w] =
           [coll |-> c, rev |-> rev, seen |-> history[c], seenHead |-> head[c]]]
      /\ UNCHANGED <<vars, request>>

\* The head of the collection as it was seen, with which files are compared:
\* not the revision that was cloned.
Before(w) == StateAt(manifest[w].seen, manifest[w].seenHead)

\* Files found of which there is a record of size and time.
KnownFiles(w, found) == Files(Before(w)) \cap Files(found)

\* Files that are not read are taken to be as they were.
Taken(before, found, unread) == [p \in Paths |-> IF p \in unread THEN before[p] ELSE found[p]]

computeChangeset(w, found, unread) == Diff(Before(w), Taken(Before(w), found, unread))

MayRemove(w, found, unread) ==
  /\ unread \subseteq KnownFiles(w, found)
  /\ ~AnyChanges(computeChangeset(w, found, unread))

rm(w) ==
  /\ manifest[w] # None
  /\ request[w] = None
  /\ \E found \in Tree, unread \in SUBSET Paths : MayRemove(w, found, unread)
  /\ manifest' = [manifest EXCEPT ![w] = None]
  /\ UNCHANGED <<vars, request>>

(***************************************************************************)
(* Pushes.                                                                 *)
(***************************************************************************)
Unused(id) == Fresh(id) /\ \A w \in Workdir : request[w] # None => request[w].ch.id # id

Send(w, c, ch, read, unread) ==
  /\ request[w] = None
  /\ Unused(ch.id)
  /\ request' = [request EXCEPT ![w] = [coll |-> c, ch |-> ch, read |-> read, unread |-> unread]]
  /\ UNCHANGED <<vars, manifest>>

\* push, until the changeset is computed.
push(w, found, unread, id) ==
  LET ch == NewChangeset(id, manifest[w].rev, computeChangeset(w, found, unread))
  IN  /\ manifest[w] # None
      /\ unread \subseteq KnownFiles(w, found)
      /\ AnyChanges(ch)
      /\ Send(w, manifest[w].coll, ch, Only(Paths \ unread, found), unread)

\* pushOne fetches the collection, then scans one file, which it will create.
pushOne(w, c, p, x, id) ==
  LET file == [NoFiles EXCEPT ![p] = x]
      ch == [id |-> id, parent |-> head[c], created |-> file, updated |-> NoFiles,
             deleted |-> {}]
  IN  /\ manifest[w] = None
      /\ c \in live
      /\ Send(w, c, ch, file, Paths \ {p})

AfterPush_RevisionOnly(w) ==
  IF manifest[w] = None THEN None
  ELSE [manifest[w] EXCEPT !.rev = head'[manifest[w].coll]]

\* What a push saves once the server has answered with the collection.
AfterPush(w) ==
  IF manifest[w] = None THEN None
  ELSE LET c == manifest[w].coll
       IN  [coll |-> c, rev |-> head'[c], seen |-> history'[c], seenHead |-> head'[c]]

\* The uploads are finished and the server accepts the commit.  The manifest is
\* saved, unless the answer is lost or the client dies before that.
Commit(w) ==
  /\ request[w] # None
  /\ CommitChangeset(request[w].coll, request[w].ch)
  /\ request' = [request EXCEPT ![w] = None]
  /\ manifest' \in {manifest, [manifest EXCEPT ![w] = AfterPush(w)]}

\* The server refuses, an upload fails, or the client is interrupted.
Abandon(w) ==
  /\ request[w] # None
  /\ request' = [request EXCEPT ![w] = None]
  /\ UNCHANGED <<vars, manifest>>

Client(w) ==
  \/ \E c \in live : \E requested \in Revisions(c) \cup {UnknownRevision} :
       clone(w, c, requested)
  \/ rm(w)
  \/ \E found \in Tree, unread \in SUBSET Paths, id \in ChangesetIDs :
       push(w, found, unread, id)
  \/ \E c \in live, p \in Paths, x \in Contents, id \in ChangesetIDs : pushOne(w, c, p, x, id)
  \/ Commit(w)
  \/ Abandon(w)

\* Clients elsewhere, who draw other ids, and the server's own steps.
Elsewhere ==
  /\ ClientCommit \/ ServerStep
  /\ UNCHANGED clientVars
  /\ \A w \in Workdir : request[w] # None => Fresh(request[w].ch.id)'

WorkdirsNext == Elsewhere \/ \E w \in Workdir : Client(w)

WorkdirsSpec == WorkdirsInit /\ [][WorkdirsNext]_allVars

(***************************************************************************)
(* Properties.                                                             *)
(***************************************************************************)
WorkdirsTypeOK ==
  /\ TypeOK
  /\ manifest \in [Workdir -> BupManifest \cup {None}]
  /\ request \in [Workdir -> Request \cup {None}]
  /\ \A w \in Workdir : manifest[w] # None =>
       LET known == {NoParentID} \cup IDs(manifest[w].seen)
       IN  manifest[w].seenHead \in known /\ manifest[w].rev \in known \cup {UnknownRevision}

\* What a client has seen of a collection stays true while the collection
\* exists: the server only ever adds to it.
SeenStaysTrue ==
  \A w \in Workdir : manifest[w] # None /\ manifest[w].coll \in live
    => IsPrefix(manifest[w].seen, history[manifest[w].coll])

\* If a commit is accepted, the collection has what its sender read, file by
\* file and no others, and the files the sender did not read are what they
\* were in the collection just before: what others did in between is neither
\* undone nor passed off as read.
PushIsExact ==
  [][\A w \in Workdir :
       LET c == request[w].coll
       IN  request[w] # None /\ request'[w] = None /\ history' # history
             => StateAt(history'[c], head'[c])
                  = Taken(StateAtHead(c), request[w].read, request[w].unread)]_allVars

\* Unless the collection was deleted, the files that rm removes are, by name,
\* the files of one of its versions, and each that rm read is the same there:
\* what has another size or time than recorded is not lost, however old the
\* directory's copy of the record.
RemovesOnlyCopies ==
  \A w \in Workdir, found \in Tree, unread \in SUBSET Paths :
    manifest[w] # None /\ manifest[w].coll \in live /\ MayRemove(w, found, unread)
      => \E rev \in Revisions(manifest[w].coll) :
           LET tree == StateAt(history[manifest[w].coll], rev)
           IN  /\ Files(tree) = Files(found)
               /\ \A p \in Files(found) \ unread : tree[p] = found[p]

\* "only if remote has full state" (rm.go:41), whatever rm reads.
RemoteHasFullState ==
  \A w \in Workdir, found \in Tree, unread \in SUBSET Paths :
    manifest[w] # None /\ manifest[w].coll \in live /\ MayRemove(w, found, unread)
      => \E rev \in Revisions(manifest[w].coll) :
           StateAt(history[manifest[w].coll], rev) = found
=============================================================================
