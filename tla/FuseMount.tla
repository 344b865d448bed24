------------------------------- MODULE FuseMount -------------------------------
(***************************************************************************)
(* A collection seen through the FUSE mount (stofuse/collectionadapter.go, *)
(* collectionbyidquery.go): its committed files, as of when the server was *)
(* last asked, read-only, and beside them uncommitted ones kept in a       *)
(* directory of their own, which a push made from within the mount commits.*)
(* Other clients push to the same collection meanwhile.                    *)
(*                                                                         *)
(* Directories within a collection are left out: each has its own part of  *)
(* the working directory and works like the root.  The root's listing of   *)
(* collections (cacheDents) is left out.                                   *)
(***************************************************************************)
EXTENDS Naturals, Sequences

CONSTANTS
  Names,        \* file names
  Contents,     \* what a file may hold
  Nothing,      \* no such file; no such node
  Lookers,      \* concurrent Lookup calls
  MaxVersions   \* bound: changesets of the collection

ASSUME MountAssumption == Nothing \notin Contents /\ MaxVersions \in Nat

VARIABLES
  versions,  \* versions[k]: the server's files after k changesets
  node,      \* cache[collID]: the version its node was made from, or Nothing
  nodes,     \* the nodes the kernel may still use, forgotten ones too
  looker,    \* looker[l]: where a Lookup is, and what it has fetched
  workdir,   \* uncommitted files: varasto-work/<collection>
  pushing    \* a push made in the mount: of which files, scanned at which version

mountVars == <<versions, node, nodes, looker, workdir, pushing>>

Files == [Names -> Contents \cup {Nothing}]
NoFiles == [n \in Names |-> Nothing]
Empty == 0  \* the version of a new collection
Latest == Len(versions)
FilesAt(v) == IF v = Empty THEN NoFiles ELSE versions[v]
NoPush == [at |-> "none", base |-> Empty, files |-> NoFiles]

MountInit ==
  /\ versions = <<>>
  /\ node = Nothing /\ nodes = {}
  /\ looker = [l \in Lookers |-> [at |-> "idle", got |-> Empty]]
  /\ workdir = NoFiles
  /\ pushing = NoPush

(***************************************************************************)
(* byIDDir: finding the collection.                                        *)
(***************************************************************************)
\* Lookup takes the collection's lock; what it finds in the cache it returns,
\* for what is missing it asks the server.
LookupMissing(l) ==
  /\ node = Nothing
  /\ \A other \in Lookers : looker[other].at = "idle"
  /\ looker' = [looker EXCEPT ![l].at = "fetching"]
  /\ UNCHANGED <<versions, node, nodes, workdir, pushing>>

FetchCollectionMetadata(l) ==
  /\ looker[l].at = "fetching"
  /\ looker' = [looker EXCEPT ![l] = [at |-> "fetched", got |-> Latest]]
  /\ UNCHANGED <<versions, node, nodes, workdir, pushing>>

LookupFails(l) ==
  /\ looker[l].at = "fetching"
  /\ looker' = [looker EXCEPT ![l].at = "idle"]
  /\ UNCHANGED <<versions, node, nodes, workdir, pushing>>

CacheNode(l) ==
  /\ looker[l].at = "fetched"
  /\ node' = looker[l].got /\ nodes' = nodes \cup {looker[l].got}
  /\ looker' = [looker EXCEPT ![l] = [at |-> "idle", got |-> Empty]]
  /\ UNCHANGED <<versions, workdir, pushing>>

\* The user asks for it, by a request to the FUSE server. A directory that
\* some process has open stays the node it was.
ForgetDirs ==
  /\ node' = Nothing
  /\ UNCHANGED <<versions, nodes, looker, workdir, pushing>>

(***************************************************************************)
(* CollectionDirNode: the user's files.                                    *)
(***************************************************************************)
Committed(v, n) == FilesAt(v)[n] # Nothing

\* Lookup, in the node of version v, prefers committed files.
Visible(v) == [n \in Names |-> IF Committed(v, n) THEN FilesAt(v)[n] ELSE workdir[n]]

\* Only when nothing is visible by a name does the kernel create it.
CreateFile(v, n) ==
  /\ Visible(v)[n] = Nothing
  /\ \E x \in Contents : workdir' = [workdir EXCEPT ![n] = x]
  /\ UNCHANGED <<versions, node, nodes, looker, pushing>>

\* changedFileInWorkdir and its handle, which outlive the node they came from.
WriteFile(n) ==
  /\ workdir[n] # Nothing
  /\ \E x \in Contents : workdir' = [workdir EXCEPT ![n] = x]
  /\ UNCHANGED <<versions, node, nodes, looker, pushing>>

\* "not supported yet" for committed files.
RemoveFile(v, n) ==
  /\ ~Committed(v, n) /\ workdir[n] # Nothing
  /\ workdir' = [workdir EXCEPT ![n] = Nothing]
  /\ UNCHANGED <<versions, node, nodes, looker, pushing>>

\* The old name may not be a committed file; the new one is not looked at.
RenameFile(v, old, new) ==
  /\ ~Committed(v, old) /\ workdir[old] # Nothing /\ old # new
  /\ workdir' = [workdir EXCEPT ![new] = workdir[old], ![old] = Nothing]
  /\ UNCHANGED <<versions, node, nodes, looker, pushing>>

(***************************************************************************)
(* A push from within the mount.                                           *)
(***************************************************************************)
\* It reads the node's .varasto file, and the files as they are visible.
PushScan(v) ==
  /\ pushing.at = "none"
  /\ Visible(v) # FilesAt(v)
  /\ pushing' = [at |-> "scanned", base |-> v, files |-> Visible(v)]
  /\ UNCHANGED <<versions, node, nodes, looker, workdir>>

TargetsHead == pushing.base = Latest

\* The server takes it only on top of what it was made from.
PushAccepted ==
  /\ pushing.at = "scanned" /\ TargetsHead /\ Latest < MaxVersions
  /\ versions' = Append(versions, pushing.files)
  /\ pushing' = [pushing EXCEPT !.at = "accepted"]
  /\ UNCHANGED <<node, nodes, looker, workdir>>

AfterRefusal_Saves == [pushing EXCEPT !.at = "accepted"]
AfterRefusal == NoPush

\* The server refuses, or the client dies or never learns of the commit.
PushRefused ==
  /\ pushing.at = "scanned" \/ pushing.at = "accepted"
  /\ pushing' = AfterRefusal
  /\ UNCHANGED <<versions, node, nodes, looker, workdir>>

\* The client saves its manifest: creating .varasto.part empties the workdir ...
CreatePart ==
  /\ pushing.at = "accepted"
  /\ workdir' = NoFiles
  /\ pushing' = [pushing EXCEPT !.at = "removed"]
  /\ UNCHANGED <<versions, node, nodes, looker>>

\* ... and then makes the mount forget the collection; the push ends with EIO.
forgetCollection ==
  /\ pushing.at = "removed"
  /\ node' = Nothing
  /\ pushing' = NoPush
  /\ UNCHANGED <<versions, nodes, looker, workdir>>

\* Another client's push.
OtherCommits ==
  /\ Latest < MaxVersions
  /\ \E n \in Names, x \in Contents \cup {Nothing} :
       /\ FilesAt(Latest)[n] # x
       /\ versions' = Append(versions, [FilesAt(Latest) EXCEPT ![n] = x])
  /\ UNCHANGED <<node, nodes, looker, workdir, pushing>>

\* The FUSE process dies and is started again; the push fails with it.
Remount ==
  /\ node' = Nothing /\ nodes' = {}
  /\ looker' = [l \in Lookers |-> [at |-> "idle", got |-> Empty]]
  /\ pushing' = NoPush
  /\ UNCHANGED <<versions, workdir>>

MountNext ==
  \/ \E l \in Lookers :
       LookupMissing(l) \/ FetchCollectionMetadata(l) \/ LookupFails(l) \/ CacheNode(l)
  \/ ForgetDirs \/ Remount \/ OtherCommits
  \/ \E n \in Names : WriteFile(n)
  \/ \E v \in nodes :
       \/ \E n \in Names : CreateFile(v, n) \/ RemoveFile(v, n)
       \/ \E old, new \in Names : RenameFile(v, old, new)
       \/ PushScan(v)
  \/ PushAccepted \/ PushRefused \/ CreatePart \/ forgetCollection

MountSpec == MountInit /\ [][MountNext]_mountVars

(***************************************************************************)
(* Properties.                                                             *)
(***************************************************************************)
Versions == Empty .. MaxVersions

MountTypeOK ==
  /\ versions \in Seq(Files) /\ Latest <= MaxVersions
  /\ nodes \in SUBSET Versions /\ \A v \in nodes : v <= Latest
  /\ node \in nodes \cup {Nothing}
  /\ looker \in [Lookers -> [at : {"idle", "fetching", "fetched"}, got : Versions]]
  /\ workdir \in Files
  /\ pushing \in [at : {"none", "scanned", "accepted", "removed"}, base : Versions, files : Files]

InSomeVersion(n) == \E v \in 1 .. Latest : versions[v][n] = workdir[n]

\* When the workdir is emptied, what the push had scanned of it, and nobody has
\* changed since, is in the collection's history.
ScannedWorkIsCommitted ==
  [][CreatePart => \A n \in Names :
       pushing.files[n] = workdir[n] /\ workdir[n] # Nothing => InSomeVersion(n)]_mountVars

\* Create, on emptying the workdir: "we can assume that all changed files were
\* successfully commited" (collectionadapter.go:219).
UncommittedWorkIsKept ==
  [][CreatePart => \A n \in Names : workdir[n] # Nothing => InSomeVersion(n)]_mountVars
=============================================================================
