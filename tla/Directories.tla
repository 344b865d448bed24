---------------------------- MODULE Directories ----------------------------
(***************************************************************************)
(* The directory tree, the collections in it and the replication policies  *)
(* they take effect from. Every command is one write transaction, which    *)
(* finds children and siblings through the two indices the repositories    *)
(* keep, and leaves everything as it was when it fails.                    *)
(*                                                                         *)
(* Identifiers are random, so those of deleted records never come back.    *)
(***************************************************************************)
EXTENDS Integers, FiniteSets

CONSTANTS
    Root,         \* the identifier of the root directory
    Dirs,         \* the identifiers of the others
    Colls,        \* the identifiers of collections
    Names,        \* names of directories and collections, among them ...
    MetaName,     \* ... the one of meta collections, ".stodirmeta"
    Policies,     \* replication policies
    Unplaceable,  \* those of them that desire no volume at all
    None,         \* the empty string: no parent, no policy, no meta collection
    Unborn,       \* what stands for the record that is not there yet, ...
    Deleted,      \* ... and for the one that is no longer
    MaxRecords    \* bound: how many directories and collections are ever made

AllDirs == Dirs \union {Root}

DirRecords  == [parent: AllDirs \union {None}, name: Names, policy: Policies \union {None},
                meta: Colls \union {None}]
CollRecords == [dir: AllDirs, name: Names, policy: Policies]

ASSUME DirectoriesAssumption ==
    /\ Root \notin Dirs /\ AllDirs \intersect Colls = {}
    /\ MetaName \in Names
    /\ Unplaceable \subseteq Policies
    /\ None \notin AllDirs \union Colls \union Policies
    /\ Unborn # Deleted /\ {Unborn, Deleted} \intersect (DirRecords \union CollRecords) = {}

VARIABLES
    dirs,      \* the records of directories
    colls,     \* the records of collections
    subdirs,   \* the index of directories by parent
    contents,  \* the index of collections by directory
    spinning   \* a transaction follows parents in a circle and never ends

recordVars    == <<dirs, colls, subdirs, contents>>
directoryVars == <<dirs, colls, subdirs, contents, spinning>>

Room == Cardinality({d \in Dirs : dirs[d] # Unborn} \union {c \in Colls : colls[c] # Unborn}) < MaxRecords

LiveDirs  == {d \in AllDirs : dirs[d] \notin {Unborn, Deleted}}
LiveColls == {c \in Colls : colls[c] \notin {Unborn, Deleted}}

DirectoriesTypeOK ==
    /\ DOMAIN dirs = AllDirs /\ \A d \in LiveDirs : dirs[d] \in DirRecords
    /\ DOMAIN colls = Colls  /\ \A c \in LiveColls : colls[c] \in CollRecords
    /\ DOMAIN subdirs \subseteq AllDirs  /\ \A p \in DOMAIN subdirs : subdirs[p] \subseteq AllDirs
    /\ DOMAIN contents \subseteq AllDirs /\ \A p \in DOMAIN contents : contents[p] \subseteq Colls
    /\ spinning \in BOOLEAN

----------------------------------------------------------------------------
\* The repositories: saving a record compares what the index says of the old
\* one with what it should say of the new one.

\* An index by value has a bucket per value, made when it is first needed and
\* never removed. None is not indexed.
Unindex(index, old, id) ==
    IF old = None THEN index ELSE [index EXCEPT ![old] = @ \ {id}]

Index(index, new, id) ==
    IF new = None THEN index
    ELSE [v \in DOMAIN index \union {new} |->
            (IF v \in DOMAIN index THEN index[v] ELSE {}) \union (IF v = new THEN {id} ELSE {})]

Reindex_KeepsOld(index, old, new, id) ==
    IF old = new THEN index ELSE Index(index, new, id)

Reindex(index, old, new, id) ==
    IF old = new THEN index ELSE Index(Unindex(index, old, id), new, id)

SaveDir(d, record) ==
    /\ dirs' = [dirs EXCEPT ![d] = record]
    /\ subdirs' = Reindex(subdirs, IF d \in LiveDirs THEN dirs[d].parent ELSE None, record.parent, d)

DeleteDir(d) ==
    /\ dirs' = [dirs EXCEPT ![d] = Deleted]
    /\ subdirs' = Unindex(subdirs, dirs[d].parent, d)

\* Several collections may be saved by one transaction.
SaveColls(C, record) ==
    /\ colls' = [c \in Colls |-> IF c \in C THEN record[c] ELSE colls[c]]
    /\ contents' =
         [p \in DOMAIN contents \union {record[c].dir : c \in C} |->
            ((IF p \in DOMAIN contents THEN contents[p] ELSE {}) \ C)
              \union {c \in C : record[c].dir = p}]

SaveColl(c, record) == SaveColls({c}, [x \in {c} |-> record])

DeleteColl(c) ==
    /\ colls' = [colls EXCEPT ![c] = Deleted]
    /\ contents' = Unindex(contents, colls[c].dir, c)

\* What the indices answer for a directory. Asked for the empty string they
\* list their buckets, so the children of None are taken to be the records
\* whose identifiers name a bucket.
SubDirectories(p) ==
    IF p = None THEN DOMAIN subdirs ELSE IF p \in DOMAIN subdirs THEN subdirs[p] ELSE {}

CollectionsByDirectory(p) ==
    IF p = None THEN DOMAIN contents ELSE IF p \in DOMAIN contents THEN contents[p] ELSE {}

UniqueName_AmongDirs(p, name) ==
    /\ SubDirectories(p) \subseteq LiveDirs
    /\ \A d \in SubDirectories(p) : dirs[d].name # name

\* validateUniqueNameWithinSiblings, which fails as well when a record it is
\* told of does not exist.
UniqueName(p, name) ==
    /\ SubDirectories(p) \subseteq LiveDirs
    /\ CollectionsByDirectory(p) \subseteq LiveColls
    /\ \A d \in SubDirectories(p) : dirs[d].name # name
    /\ \A c \in CollectionsByDirectory(p) : colls[c].name # name

----------------------------------------------------------------------------
\* Walks up the tree

\* The directories a walk from d visits: d, its parent, and so on.
UpClosed(S)  == \A x \in S \intersect LiveDirs : dirs[x].parent \in S \union {None}
Ancestors(d) == {a \in AllDirs : \A S \in SUBSET AllDirs : d \in S /\ UpClosed(S) => a \in S}

WithPolicy(d) == {a \in Ancestors(d) \intersect LiveDirs : dirs[a].policy # None}

\* createCollection's walk goes no further than the first directory that has
\* a policy, of which there is one at most.
WalkClosed(S)      == \A x \in S \intersect LiveDirs :
                        dirs[x].policy = None => dirs[x].parent \in S \union {None}
Walked(d)          == {a \in AllDirs :
                        \A S \in SUBSET AllDirs : d \in S /\ WalkClosed(S) => a \in S}
FirstWithPolicy(d) == {a \in Walked(d) \intersect LiveDirs : dirs[a].policy # None}
Nearest(d)         == CHOOSE a \in FirstWithPolicy(d) : TRUE

EffectivePolicy(d) == dirs[Nearest(d)].policy

\* Without a policy anywhere, the walk ends at a directory that does not
\* exist, with an error, or never.
WalkNeverEnds(d) ==
    /\ WithPolicy(d) = {}
    /\ \A a \in Ancestors(d) : a \in LiveDirs /\ dirs[a].parent # None

----------------------------------------------------------------------------
\* createCollection. Its caller saves.

CreatedIn_OwnPolicy(d, name) == [dir |-> d, name |-> name, policy |-> dirs[d].policy]

CreatedIn(d, name) == [dir |-> d, name |-> name, policy |-> EffectivePolicy(d)]

MayCreate(c, d, name) ==
    /\ colls[c] = Unborn /\ Room
    /\ d \in LiveDirs
    /\ UniqueName(d, name)
    /\ WithPolicy(d) # {}
    /\ EffectivePolicy(d) \notin Unplaceable

CollectionCreate(c, d, name) ==
    /\ MayCreate(c, d, name)
    /\ SaveColl(c, CreatedIn(d, name))
    /\ UNCHANGED <<dirs, subdirs, spinning>>

\* The walk to the nearest policy goes round a circle, in a write transaction.
CreateSpins(d, name) ==
    /\ d \in LiveDirs
    /\ UniqueName(d, name)
    /\ WalkNeverEnds(d)
    /\ spinning' = TRUE
    /\ UNCHANGED recordVars

CollectionRename(c, name) ==
    /\ c \in LiveColls
    /\ UniqueName(colls[c].dir, name)
    /\ SaveColl(c, [colls[c] EXCEPT !.name = name])
    /\ UNCHANGED <<dirs, subdirs, spinning>>

\* Metadata of a film or a game is pulled, and its proper name with it.
CollectionPullMetadata(c, scrubbedName) ==
    /\ c \in LiveColls
    /\ scrubbedName = colls[c].name \/ UniqueName(colls[c].dir, scrubbedName)
    /\ SaveColl(c, [colls[c] EXCEPT !.name = scrubbedName])
    /\ UNCHANGED <<dirs, subdirs, spinning>>

\* The collections are moved one after the other, each compared with what is
\* in the directory by then. They keep their policy.
CollectionMove(C, d) ==
    /\ C # {} /\ C \subseteq LiveColls /\ d \in LiveDirs
    /\ \A c \in C : UniqueName(d, colls[c].name)
    /\ \A b, c \in C : colls[b].name = colls[c].name => b = c
    /\ SaveColls(C, [c \in C |-> [colls[c] EXCEPT !.dir = d]])
    /\ UNCHANGED <<dirs, subdirs, spinning>>

CollectionDelete(c) ==
    /\ c \in LiveColls
    /\ DeleteColl(c)
    /\ UNCHANGED <<dirs, subdirs, spinning>>

----------------------------------------------------------------------------
\* Commands on directories

\* Nobody looks whether the parent exists (any more).
DirectoryCreate(d, p, name) ==
    /\ dirs[d] = Unborn /\ dirs[p] # Unborn /\ Room
    /\ UniqueName(p, name)
    /\ SaveDir(d, [parent |-> p, name |-> name, policy |-> None, meta |-> None])
    /\ UNCHANGED <<colls, contents, spinning>>

DirectoryDelete_NotLooking(d) ==
    LET meta == {dirs[d].meta} \ {None} IN
    /\ d \in LiveDirs
    /\ meta \subseteq LiveColls
    /\ SubDirectories(d) = {}
    /\ IF meta = {} THEN UNCHANGED <<colls, contents>> ELSE DeleteColl(dirs[d].meta)
    /\ DeleteDir(d)
    /\ UNCHANGED spinning

\* The meta collection goes first; then the directory has to be empty.
DirectoryDelete(d) ==
    LET meta == {dirs[d].meta} \ {None} IN
    /\ d \in LiveDirs
    /\ meta \subseteq LiveColls
    /\ CollectionsByDirectory(d) \subseteq meta
    /\ SubDirectories(d) = {}
    /\ IF meta = {} THEN UNCHANGED <<colls, contents>> ELSE DeleteColl(dirs[d].meta)
    /\ DeleteDir(d)
    /\ UNCHANGED spinning

DirectoryRename(d, name) ==
    /\ d \in LiveDirs
    /\ UniqueName(dirs[d].parent, name)
    /\ SaveDir(d, [dirs[d] EXCEPT !.name = name])
    /\ UNCHANGED <<colls, contents, spinning>>

\* A directory may not become its own parent; its grandchild's, it may.
DirectoryMove(d, p) ==
    /\ d \in LiveDirs /\ p \in LiveDirs
    /\ d # p
    /\ UniqueName(p, dirs[d].name)
    /\ SaveDir(d, [dirs[d] EXCEPT !.parent = p])
    /\ UNCHANGED <<colls, contents, spinning>>

DirectoryChangeReplicationPolicy(d, policy) ==
    /\ d \in LiveDirs
    /\ policy = None => dirs[d].parent # None
    /\ SaveDir(d, [dirs[d] EXCEPT !.policy = policy])
    /\ UNCHANGED <<colls, contents, spinning>>

\* What is said of a directory is kept in its meta collection, which is made
\* when it is first needed. One that somebody deleted is not made again.
metaCollForDir(d, c) ==
    /\ dirs[d].meta = None
    /\ MayCreate(c, d, MetaName)
    /\ SaveDir(d, [dirs[d] EXCEPT !.meta = c])
    /\ SaveColl(c, CreatedIn(d, MetaName))

\* A description is given; pulling the metadata of a series does the same.
DirectoryChangeDescription(d, c) ==
    /\ d \in LiveDirs
    /\ metaCollForDir(d, c)
    /\ UNCHANGED spinning

----------------------------------------------------------------------------
\* DatabaseDiscoverReconcilableReplicationPolicies: from the root down, every
\* collection gets the policy of its directory, which is its own if it has
\* one and the one handed down to it otherwise.

\* The directories that walk visits.
DownClosed(S) == \A p \in S : SubDirectories(p) \subseteq S
Below         == {d \in AllDirs : \A S \in SUBSET AllDirs : Root \in S /\ DownClosed(S) => d \in S}

Own_HandedFirst(d, handed) == IF handed # None THEN handed ELSE dirs[d].policy

\* A directory's own policy goes before the one handed down to it.
Own(d, handed) == IF dirs[d].policy # None THEN dirs[d].policy ELSE handed

\* The policy the walk comes to each of them with.
HandedDown ==
    LET below == Below IN
    CHOOSE policy \in [below -> Policies \union {None}] :
      /\ policy[Root] = dirs[Root].policy
      /\ \A p \in below : \A d \in SubDirectories(p) : policy[d] = Own(d, policy[p])

\* A walk down from a root that is its own descendant never ends either.
RootIsTop == Root \in LiveDirs /\ dirs[Root].parent = None

DiscoverPolicies ==
    LET handed == HandedDown
        C      == {c \in LiveColls : colls[c].dir \in DOMAIN handed}
    IN /\ RootIsTop
       /\ \A d \in DOMAIN handed : CollectionsByDirectory(d) # {} => handed[d] # None
       /\ SaveColls(C, [c \in C |-> [colls[c] EXCEPT !.policy = handed[colls[c].dir]]])
       /\ UNCHANGED <<dirs, subdirs, spinning>>

----------------------------------------------------------------------------
\* stodb.Bootstrap makes the root directory and gives it a policy.
DirectoriesInit ==
    /\ \E name \in Names \ {MetaName}, policy \in Policies \ Unplaceable :
         dirs = [d \in AllDirs |->
                   IF d = Root THEN [parent |-> None, name |-> name, policy |-> policy, meta |-> None]
                   ELSE Unborn]
    /\ colls = [c \in Colls |-> Unborn]
    /\ subdirs = [p \in {} |-> {}] /\ contents = [p \in {} |-> {}]
    /\ spinning = FALSE

DirectoriesNext ==
    /\ ~spinning
    /\ \/ \E d \in AllDirs :
            \/ \E p \in AllDirs, name \in Names : DirectoryCreate(d, p, name)
            \/ DirectoryDelete(d)
            \/ \E name \in Names : DirectoryRename(d, name)
            \/ \E p \in AllDirs : DirectoryMove(d, p)
            \/ \E policy \in Policies \union {None} : DirectoryChangeReplicationPolicy(d, policy)
            \/ \E c \in Colls : DirectoryChangeDescription(d, c)
            \/ \E c \in Colls, name \in Names : CollectionCreate(c, d, name)
            \/ \E name \in Names : CreateSpins(d, name)
            \/ \E C \in SUBSET Colls : CollectionMove(C, d)
       \/ \E c \in Colls :
            \/ CollectionDelete(c)
            \/ \E name \in Names : CollectionRename(c, name) \/ CollectionPullMetadata(c, name)
       \/ DiscoverPolicies

DirectoriesSpec == DirectoriesInit /\ [][DirectoriesNext]_directoryVars

----------------------------------------------------------------------------
\* Properties

\* The indices say what the records say, whatever sequence of moves, deletions
\* and renames made them: commands find siblings and children nowhere else.
IndicesExact ==
    /\ \A p \in AllDirs : SubDirectories(p) = {d \in LiveDirs : dirs[d].parent = p}
    /\ \A p \in AllDirs : CollectionsByDirectory(p) = {c \in LiveColls : colls[c].dir = p}

\* Directories and collections share one space of names in a directory, and no
\* create, rename or move, of one or of several at once, makes a name ambiguous.
NamesUnique ==
    \A p \in AllDirs :
       LET D == {d \in LiveDirs : dirs[d].parent = p}
           C == {c \in LiveColls : colls[c].dir = p}
       IN /\ \A d, e \in D : dirs[d].name = dirs[e].name => d = e
          /\ \A b, c \in C : colls[b].name = colls[c].name => b = c
          /\ \A d \in D, c \in C : dirs[d].name # colls[c].name

\* Nothing is left behind in a directory that is deleted: a collection is
\* always in a directory that exists, and a directory whose parent exists is
\* never without it later.
NothingOrphaned ==
    [][/\ \A c \in LiveColls' : colls'[c].dir \in LiveDirs'
       /\ \A d \in LiveDirs :
            (dirs[d].parent \in LiveDirs /\ d \in LiveDirs') => dirs'[d].parent \in LiveDirs']_directoryVars

\* Two walks agree: after policies are discovered from the root down, every
\* collection below the root has the policy a walk up from its directory
\* finds, the one a collection created there would get.
PoliciesReconciled ==
    [][DiscoverPolicies =>
         \A c \in LiveColls :
            Root \in Ancestors(colls[c].dir) => colls'[c].policy = EffectivePolicy(colls[c].dir)]_directoryVars
=============================================================================
