-------------------------- MODULE Directories_proofs --------------------------
(***************************************************************************)
(* Proofs about Directories: the indices are exact and names unique        *)
(* whatever commands come in whatever order, nothing is orphaned, and the  *)
(* two walks that find policies agree.                                     *)
(***************************************************************************)
EXTENDS Directories, TLAPS

(***************************************************************************)
(* The inductive invariant, of records and indices that may be those       *)
(* before or those after a command.                                        *)
(***************************************************************************)
Alive(records, ids) == {x \in ids : records[x] \notin {Unborn, Deleted}}
Bucket(index, p)    == IF p \in DOMAIN index THEN index[p] ELSE {}

ParentIndex(ds, index) ==
  /\ DOMAIN index \subseteq AllDirs
  /\ \A p \in AllDirs : Bucket(index, p) = {x \in Alive(ds, AllDirs) : ds[x].parent = p}

DirIndex(cs, index) ==
  /\ DOMAIN index \subseteq AllDirs
  /\ \A p \in AllDirs : Bucket(index, p) = {x \in Alive(cs, Colls) : cs[x].dir = p}

Recorded(ds, cs) ==
  /\ DOMAIN ds = AllDirs /\ \A d \in Alive(ds, AllDirs) : ds[d] \in DirRecords
  /\ DOMAIN cs = Colls   /\ \A c \in Alive(cs, Colls) : cs[c] \in CollRecords

\* Names are unique among the children of a directory, and collections are in
\* directories that exist.
NamedApart(ds, cs) ==
  /\ \A d, e \in Alive(ds, AllDirs) :
       ds[d].parent = ds[e].parent /\ ds[d].parent # None /\ ds[d].name = ds[e].name => d = e
  /\ \A b, c \in Alive(cs, Colls) : cs[b].dir = cs[c].dir /\ cs[b].name = cs[c].name => b = c
  /\ \A d \in Alive(ds, AllDirs), c \in Alive(cs, Colls) :
       ds[d].parent = cs[c].dir => ds[d].name # cs[c].name

Housed(ds, cs) == \A c \in Alive(cs, Colls) : cs[c].dir \in Alive(ds, AllDirs)

TreeInv(ds, cs, sub, con) ==
  /\ Recorded(ds, cs) /\ ParentIndex(ds, sub) /\ DirIndex(cs, con)
  /\ NamedApart(ds, cs) /\ Housed(ds, cs)

DirectoriesInv == TreeInv(dirs, colls, subdirs, contents) /\ spinning \in BOOLEAN

LEMMA Identifiers ==
  /\ None \notin AllDirs /\ None \notin Colls /\ None \notin Policies /\ Root \in AllDirs
  /\ \A r \in DirRecords \union CollRecords : r \notin {Unborn, Deleted}
BY DirectoriesAssumption DEF AllDirs

LEMMA Living ==
  /\ LiveDirs = Alive(dirs, AllDirs) /\ LiveColls = Alive(colls, Colls)
  /\ \A p \in AllDirs : SubDirectories(p) = Bucket(subdirs, p)
  /\ \A p \in AllDirs : CollectionsByDirectory(p) = Bucket(contents, p)
BY Identifiers DEF LiveDirs, LiveColls, Alive, SubDirectories, CollectionsByDirectory, Bucket

(***************************************************************************)
(* The repositories keep their indices.                                    *)
(***************************************************************************)
\* id is in the bucket of its value, and in no other.
Holds(index, value, id) == \A p \in AllDirs : id \in Bucket(index, p) <=> p = value

\* What index2 has more than index, if anything, is id in the bucket of new.
Puts(index, index2, new, id) ==
  /\ DOMAIN index2 \subseteq AllDirs
  /\ \A p \in AllDirs : p = new => Bucket(index2, p) = Bucket(index, p) \union {id}
  /\ \A p \in AllDirs : p # new => Bucket(index2, p) = Bucket(index, p) \ {id}

LEMMA Unindexed ==
  ASSUME NEW index, DOMAIN index \subseteq AllDirs, NEW old \in AllDirs \union {None}, NEW id,
         Holds(index, old, id)
  PROVE  Puts(index, Unindex(index, old, id), None, id)
<1> DEFINE index2 == Unindex(index, old, id)
<1>1. /\ DOMAIN index2 = DOMAIN index
      /\ \A p \in AllDirs : p = old => Bucket(index2, p) = Bucket(index, p) \ {id}
      /\ \A p \in AllDirs : p # old => Bucket(index2, p) = Bucket(index, p)
  <2>1. CASE old = None
    BY <2>1, Identifiers DEF Unindex
  <2>2. CASE old # None
    <3>1. index2 = [index EXCEPT ![old] = @ \ {id}]
      BY <2>2 DEF Unindex
    <3> HIDE DEF index2
    <3> QED BY <3>1, <2>2 DEF Bucket
  <2> QED BY <2>1, <2>2
<1> HIDE DEF index2
<1>2. \A p \in AllDirs : p # old => id \notin Bucket(index, p)
  BY DEF Holds
<1>3. Puts(index, index2, None, id)
  BY <1>1, <1>2, Identifiers DEF Puts
<1> QED BY <1>3 DEF index2
LEMMA Indexed ==
  ASSUME NEW index, DOMAIN index \subseteq AllDirs, NEW new \in AllDirs \union {None}, NEW id,
         NEW index2, index2 = Index(index, new, id)
  PROVE  /\ DOMAIN index2 \subseteq AllDirs
         /\ \A p \in AllDirs : p = new => Bucket(index2, p) = Bucket(index, p) \union {id}
         /\ \A p \in AllDirs : p # new => Bucket(index2, p) = Bucket(index, p)
<1>1. CASE new = None
  BY <1>1, Identifiers DEF Index
<1>2. CASE new # None
  <2>1. index2 = [x \in DOMAIN index \union {new} |->
                    (IF x \in DOMAIN index THEN index[x] ELSE {}) \union (IF x = new THEN {id} ELSE {})]
    BY <1>2 DEF Index
  <2>2. DOMAIN index2 = DOMAIN index \union {new}
    BY <2>1
  <2>3. \A p \in AllDirs : p = new => Bucket(index2, p) = Bucket(index, p) \union {id}
    BY <2>1, <1>2 DEF Bucket
  <2>4. \A p \in AllDirs : p # new => Bucket(index2, p) = Bucket(index, p)
    BY <2>1, <1>2 DEF Bucket
  <2> QED BY <2>2, <2>3, <2>4, <1>2
<1> QED BY <1>1, <1>2

LEMMA Reindexed ==
  ASSUME NEW index, DOMAIN index \subseteq AllDirs, NEW old \in AllDirs \union {None},
         NEW new \in AllDirs \union {None}, NEW id, Holds(index, old, id)
  PROVE  Puts(index, Reindex(index, old, new, id), new, id)
<1>1. CASE old = new
  <2>1. Reindex(index, old, new, id) = index
    BY <1>1 DEF Reindex
  <2> QED BY <2>1, <1>1 DEF Puts, Holds
<1>2. CASE old # new
  <2> DEFINE mid == Unindex(index, old, id)
             index2 == Index(mid, new, id)
  <2>1. Reindex(index, old, new, id) = index2
    BY <1>2 DEF Reindex
  <2>2. Puts(index, mid, None, id)
    BY Unindexed
  <2> HIDE DEF mid
  <2>3. DOMAIN mid \subseteq AllDirs /\ \A p \in AllDirs : Bucket(mid, p) = Bucket(index, p) \ {id}
    BY <2>2, Identifiers DEF Puts
  <2>4. /\ DOMAIN index2 \subseteq AllDirs
        /\ \A p \in AllDirs : p = new => Bucket(index2, p) = Bucket(mid, p) \union {id}
        /\ \A p \in AllDirs : p # new => Bucket(index2, p) = Bucket(mid, p)
    BY <2>3, Indexed
  <2> HIDE DEF index2
  <2>5. Puts(index, index2, new, id)
    BY <2>3, <2>4 DEF Puts
  <2> QED BY <2>1, <2>5
<1> QED BY <1>1, <1>2

(***************************************************************************)
(* The repositories' operations, from records and index to new ones.       *)
(***************************************************************************)
SavesDir(ds, sub, d, r, ds2, sub2) ==
  /\ ds2 = [ds EXCEPT ![d] = r]
  /\ sub2 = Reindex(sub, IF d \in Alive(ds, AllDirs) THEN ds[d].parent ELSE None, r.parent, d)

DeletesDir(ds, sub, d, ds2, sub2) ==
  ds2 = [ds EXCEPT ![d] = Deleted] /\ sub2 = Unindex(sub, ds[d].parent, d)

SavesColls(cs, con, C, r, cs2, con2) ==
  /\ cs2 = [c \in Colls |-> IF c \in C THEN r[c] ELSE cs[c]]
  /\ con2 = [p \in DOMAIN con \union {r[c].dir : c \in C} |->
               ((IF p \in DOMAIN con THEN con[p] ELSE {}) \ C) \union {c \in C : r[c].dir = p}]

DeletesColl(cs, con, c, cs2, con2) ==
  cs2 = [cs EXCEPT ![c] = Deleted] /\ con2 = Unindex(con, cs[c].dir, c)

LEMMA DirSaved ==
  ASSUME NEW ds, DOMAIN ds = AllDirs, NEW index, ParentIndex(ds, index),
         NEW d \in AllDirs, NEW r \in DirRecords,
         d \in Alive(ds, AllDirs) => ds[d] \in DirRecords,
         NEW ds2, NEW index2, SavesDir(ds, index, d, r, ds2, index2)
  PROVE  /\ ParentIndex(ds2, index2)
         /\ Alive(ds2, AllDirs) = Alive(ds, AllDirs) \union {d}
         /\ DOMAIN ds2 = AllDirs /\ ds2[d] = r /\ \A x \in AllDirs \ {d} : ds2[x] = ds[x]
<1>1. DOMAIN ds2 = AllDirs /\ ds2[d] = r /\ \A x \in AllDirs \ {d} : ds2[x] = ds[x]
  BY DEF SavesDir
<1>2. Alive(ds2, AllDirs) = Alive(ds, AllDirs) \union {d}
  BY <1>1, Identifiers DEF Alive
<1> DEFINE old == IF d \in Alive(ds, AllDirs) THEN ds[d].parent ELSE None
           new == r.parent
<1>3. old \in AllDirs \union {None} /\ new \in AllDirs \union {None}
  BY DEF DirRecords
<1>4. /\ DOMAIN index \subseteq AllDirs
      /\ \A p \in AllDirs : Bucket(index, p) = {x \in Alive(ds, AllDirs) : ds[x].parent = p}
  BY DEF ParentIndex
<1>5. Holds(index, old, d)
  BY <1>4, Identifiers DEF Holds
<1>6. index2 = Reindex(index, old, new, d)
  BY DEF SavesDir
<1> HIDE DEF old
<1>8. ds2[d].parent = new
  BY <1>1
<1> HIDE DEF new
<1>7. Puts(index, index2, new, d)
  BY <1>3, <1>4, <1>5, <1>6, Reindexed
<1>9. /\ DOMAIN index2 \subseteq AllDirs
      /\ \A p \in AllDirs : p = new => Bucket(index2, p) = Bucket(index, p) \union {d}
      /\ \A p \in AllDirs : p # new => Bucket(index2, p) = Bucket(index, p) \ {d}
  BY <1>7 DEF Puts
<1>10. ASSUME NEW p \in AllDirs
       PROVE  Bucket(index2, p) = {x \in Alive(ds2, AllDirs) : ds2[x].parent = p}
  <2>1. \A x \in AllDirs : x # d => (x \in Alive(ds2, AllDirs) <=> x \in Alive(ds, AllDirs)) /\ ds2[x] = ds[x]
    BY <1>1, <1>2
  <2>2. Alive(ds2, AllDirs) \subseteq AllDirs /\ Alive(ds, AllDirs) \subseteq AllDirs
    BY DEF Alive
  <2>3. Bucket(index, p) = {x \in Alive(ds, AllDirs) : ds[x].parent = p}
    BY <1>4
  <2>4. \A x : x \in Bucket(index2, p) <=> x \in Alive(ds2, AllDirs) /\ ds2[x].parent = p
    <3> SUFFICES ASSUME NEW x PROVE x \in Bucket(index2, p) <=> x \in Alive(ds2, AllDirs) /\ ds2[x].parent = p
      OBVIOUS
    <3>1. CASE x = d
      BY <3>1, <1>2, <1>8, <1>9
    <3>2. CASE x # d
      <4>1. x \in Bucket(index2, p) <=> x \in Bucket(index, p)
        BY <3>2, <1>9
      <4> QED BY <4>1, <3>2, <2>1, <2>2, <2>3
    <3> QED BY <3>1, <3>2
  <2> QED BY <2>4
<1> QED BY <1>1, <1>2, <1>9, <1>10 DEF ParentIndex

LEMMA DirGone ==
  ASSUME NEW ds, DOMAIN ds = AllDirs, NEW index, ParentIndex(ds, index),
         NEW d \in Alive(ds, AllDirs), ds[d] \in DirRecords,
         NEW ds2, NEW index2, DeletesDir(ds, index, d, ds2, index2)
  PROVE  /\ ParentIndex(ds2, index2)
         /\ Alive(ds2, AllDirs) = Alive(ds, AllDirs) \ {d}
         /\ DOMAIN ds2 = AllDirs /\ \A x \in AllDirs \ {d} : ds2[x] = ds[x]
<1>1. DOMAIN ds2 = AllDirs /\ ds2[d] = Deleted /\ \A x \in AllDirs \ {d} : ds2[x] = ds[x]
  BY DEF DeletesDir, Alive
<1>2. Alive(ds2, AllDirs) = Alive(ds, AllDirs) \ {d}
  BY <1>1 DEF Alive
<1> DEFINE old == ds[d].parent
<1>3. old \in AllDirs \union {None}
  BY DEF DirRecords
<1>4. /\ DOMAIN index \subseteq AllDirs
      /\ \A p \in AllDirs : Bucket(index, p) = {x \in Alive(ds, AllDirs) : ds[x].parent = p}
  BY DEF ParentIndex
<1>5. Holds(index, old, d)
  BY <1>4 DEF Holds
<1>6. index2 = Unindex(index, old, d)
  BY DEF DeletesDir
<1> HIDE DEF old
<1>7. Puts(index, index2, None, d)
  BY <1>3, <1>4, <1>5, <1>6, Unindexed
<1>9. DOMAIN index2 \subseteq AllDirs /\ \A p \in AllDirs : Bucket(index2, p) = Bucket(index, p) \ {d}
  BY <1>7, Identifiers DEF Puts
<1>8. ASSUME NEW p \in AllDirs
      PROVE  Bucket(index2, p) = {x \in Alive(ds2, AllDirs) : ds2[x].parent = p}
  <2>1. \A x \in Alive(ds, AllDirs) : x # d => ds2[x].parent = ds[x].parent
    BY <1>1 DEF Alive
  <2>2. Bucket(index, p) = {x \in Alive(ds, AllDirs) : ds[x].parent = p}
    BY <1>4
  <2>3. Bucket(index2, p) = Bucket(index, p) \ {d}
    BY <1>9
  <2> QED BY <2>1, <2>2, <2>3, <1>2
<1> QED BY <1>1, <1>2, <1>8, <1>9 DEF ParentIndex

LEMMA CollsSaved ==
  ASSUME NEW cs, DOMAIN cs = Colls, NEW index, DirIndex(cs, index),
         NEW C \in SUBSET Colls, NEW r \in [C -> CollRecords],
         NEW cs2, NEW index2, SavesColls(cs, index, C, r, cs2, index2)
  PROVE  /\ DirIndex(cs2, index2)
         /\ Alive(cs2, Colls) = Alive(cs, Colls) \union C
         /\ DOMAIN cs2 = Colls
         /\ \A c \in C : cs2[c] = r[c] /\ cs2[c] \in CollRecords
         /\ \A c \in Colls \ C : cs2[c] = cs[c]
<1>1. /\ DOMAIN cs2 = Colls /\ \A c \in C : cs2[c] = r[c] /\ cs2[c] \in CollRecords
      /\ \A c \in Colls \ C : cs2[c] = cs[c]
  BY DEF SavesColls
<1>2. Alive(cs2, Colls) = Alive(cs, Colls) \union C
  BY <1>1, Identifiers DEF Alive
<1>3. /\ DOMAIN index \subseteq AllDirs
      /\ \A p \in AllDirs : Bucket(index, p) = {x \in Alive(cs, Colls) : cs[x].dir = p}
  BY DEF DirIndex
<1>7. index2 = [p \in DOMAIN index \union {r[c].dir : c \in C} |->
                  ((IF p \in DOMAIN index THEN index[p] ELSE {}) \ C) \union {c \in C : r[c].dir = p}]
  BY DEF SavesColls
<1>4. \A c \in C : r[c].dir \in AllDirs
  BY DEF CollRecords
<1>5. DOMAIN index2 \subseteq AllDirs
  BY <1>7, <1>3, <1>4
<1>6. ASSUME NEW p \in AllDirs
      PROVE  Bucket(index2, p) = {x \in Alive(cs2, Colls) : cs2[x].dir = p}
  <2>1. Bucket(index2, p) = (Bucket(index, p) \ C) \union {c \in C : r[c].dir = p}
    <3>1. CASE p \in DOMAIN index2
      BY <1>7, <3>1 DEF Bucket
    <3>2. CASE p \notin DOMAIN index2
      BY <1>7, <3>2 DEF Bucket
    <3> QED BY <3>1, <3>2
  <2>2. \A x \in Alive(cs2, Colls) : IF x \in C THEN cs2[x] = r[x] ELSE x \in Alive(cs, Colls) /\ cs2[x] = cs[x]
    BY <1>1, <1>2 DEF Alive
  <2>3. \A x \in Alive(cs, Colls) \ C : x \in Alive(cs2, Colls) /\ cs2[x] = cs[x]
    BY <1>1, <1>2 DEF Alive
  <2>4. \A x \in C : x \in Alive(cs2, Colls) /\ cs2[x] = r[x]
    BY <1>1, <1>2
  <2>5. Bucket(index, p) = {x \in Alive(cs, Colls) : cs[x].dir = p}
    BY <1>3
  <2> HIDE DEF Bucket
  <2> QED BY <2>1, <2>2, <2>3, <2>4, <2>5
<1> QED BY <1>1, <1>2, <1>5, <1>6 DEF DirIndex

LEMMA CollGone ==
  ASSUME NEW cs, DOMAIN cs = Colls, NEW index, DirIndex(cs, index),
         NEW c \in Alive(cs, Colls), cs[c] \in CollRecords,
         NEW cs2, NEW index2, DeletesColl(cs, index, c, cs2, index2)
  PROVE  /\ DirIndex(cs2, index2)
         /\ Alive(cs2, Colls) = Alive(cs, Colls) \ {c}
         /\ DOMAIN cs2 = Colls /\ \A x \in Colls \ {c} : cs2[x] = cs[x]
<1>1. DOMAIN cs2 = Colls /\ cs2[c] = Deleted /\ \A x \in Colls \ {c} : cs2[x] = cs[x]
  BY DEF DeletesColl, Alive
<1>2. Alive(cs2, Colls) = Alive(cs, Colls) \ {c}
  BY <1>1 DEF Alive
<1> DEFINE old == cs[c].dir
<1>3. old \in AllDirs \union {None}
  BY DEF CollRecords
<1>4. /\ DOMAIN index \subseteq AllDirs
      /\ \A p \in AllDirs : Bucket(index, p) = {x \in Alive(cs, Colls) : cs[x].dir = p}
  BY DEF DirIndex
<1>5. Holds(index, old, c)
  BY <1>4 DEF Holds
<1>6. index2 = Unindex(index, old, c)
  BY DEF DeletesColl
<1> HIDE DEF old
<1>7. Puts(index, index2, None, c)
  BY <1>3, <1>4, <1>5, <1>6, Unindexed
<1>9. DOMAIN index2 \subseteq AllDirs /\ \A p \in AllDirs : Bucket(index2, p) = Bucket(index, p) \ {c}
  BY <1>7, Identifiers DEF Puts
<1>8. ASSUME NEW p \in AllDirs
      PROVE  Bucket(index2, p) = {x \in Alive(cs2, Colls) : cs2[x].dir = p}
  <2>1. \A x \in Alive(cs, Colls) : x # c => cs2[x].dir = cs[x].dir
    BY <1>1 DEF Alive
  <2>2. Bucket(index, p) = {x \in Alive(cs, Colls) : cs[x].dir = p}
    BY <1>4
  <2>3. Bucket(index2, p) = Bucket(index, p) \ {c}
    BY <1>9
  <2> QED BY <2>1, <2>2, <2>3, <1>2
<1> QED BY <1>1, <1>2, <1>8, <1>9 DEF DirIndex

(***************************************************************************)
(* Walks up the tree. Nothing is said of a tree without circles: commands  *)
(* make some.                                                              *)
(***************************************************************************)
LEMMA Parents ==
  ASSUME DirectoriesInv, NEW d \in LiveDirs
  PROVE  /\ d \in AllDirs /\ dirs[d] \in DirRecords /\ dirs[d].parent \in AllDirs \union {None}
         /\ dirs[d].policy \in Policies \union {None}
<1>1. d \in AllDirs /\ dirs[d] \in DirRecords
  BY Living DEF DirectoriesInv, TreeInv, Recorded, LiveDirs
<1> QED BY <1>1 DEF DirRecords

LEMMA AncestorsLeast ==
  ASSUME NEW d, NEW S \in SUBSET AllDirs, d \in S, UpClosed(S)
  PROVE  Ancestors(d) \subseteq S
BY DEF Ancestors

LEMMA AncestorsClosed ==
  ASSUME DirectoriesInv, NEW d \in AllDirs
  PROVE  /\ d \in Ancestors(d) /\ Ancestors(d) \in SUBSET AllDirs
         /\ UpClosed(Ancestors(d))
<1>1. d \in Ancestors(d) /\ Ancestors(d) \in SUBSET AllDirs
  BY DEF Ancestors
<1>2. ASSUME NEW x \in Ancestors(d) \intersect LiveDirs, dirs[x].parent # None
      PROVE  dirs[x].parent \in Ancestors(d)
  <2>1. dirs[x].parent \in AllDirs
    BY <1>2, Parents
  <2>2. ASSUME NEW S \in SUBSET AllDirs, d \in S, UpClosed(S) PROVE dirs[x].parent \in S
    <3>1. x \in S
      BY <2>2, AncestorsLeast
    <3> QED BY <2>2, <3>1, <1>2 DEF UpClosed
  <2> QED BY <2>1, <2>2 DEF Ancestors
<1> QED BY <1>1, <1>2 DEF UpClosed

LEMMA AncestorsOfAncestor ==
  ASSUME DirectoriesInv, NEW d \in AllDirs, NEW a \in Ancestors(d)
  PROVE  Ancestors(a) \subseteq Ancestors(d)
BY AncestorsClosed, AncestorsLeast

LEMMA AncestorsOfParent ==
  ASSUME DirectoriesInv, NEW d \in LiveDirs
  PROVE  /\ dirs[d].parent = None => Ancestors(d) = {d}
         /\ dirs[d].parent # None =>
              /\ dirs[d].parent \in Ancestors(d) /\ dirs[d].parent \in AllDirs
              /\ Ancestors(d) = {d} \union Ancestors(dirs[d].parent)
<1> DEFINE p == dirs[d].parent
<1>1. d \in AllDirs /\ p \in AllDirs \union {None}
  BY Parents
<1>2. CASE p = None
  <2>1. UpClosed({d})
    BY <1>2 DEF UpClosed
  <2> QED BY <1>1, <1>2, <2>1, AncestorsLeast, AncestorsClosed
<1>3. CASE p # None
  <2>1. p \in AllDirs
    BY <1>1, <1>3
  <2>2. p \in Ancestors(d)
    BY <1>1, <1>3, AncestorsClosed DEF UpClosed
  <2>3. p \in Ancestors(p) /\ Ancestors(p) \in SUBSET AllDirs /\ UpClosed(Ancestors(p))
    BY <2>1, AncestorsClosed
  <2> DEFINE S == {d} \union Ancestors(p)
  <2>4. S \in SUBSET AllDirs /\ d \in S /\ UpClosed(S)
    BY <2>3, <1>1 DEF UpClosed
  <2> HIDE DEF S
  <2>5. Ancestors(d) \subseteq S
    BY <2>4, AncestorsLeast
  <2>6. Ancestors(p) \subseteq Ancestors(d) /\ d \in Ancestors(d)
    BY <1>1, <2>2, AncestorsOfAncestor, AncestorsClosed
  <2> QED BY <1>3, <2>1, <2>2, <2>5, <2>6 DEF S
<1> QED BY <1>2, <1>3

LEMMA WalkedLeast ==
  ASSUME NEW d, NEW S \in SUBSET AllDirs, d \in S, WalkClosed(S)
  PROVE  Walked(d) \subseteq S
BY DEF Walked

LEMMA WalkedClosed ==
  ASSUME DirectoriesInv, NEW d \in AllDirs
  PROVE  /\ d \in Walked(d) /\ Walked(d) \in SUBSET AllDirs
         /\ WalkClosed(Walked(d))
<1>1. d \in Walked(d) /\ Walked(d) \in SUBSET AllDirs
  BY DEF Walked
<1>2. ASSUME NEW x \in Walked(d) \intersect LiveDirs, dirs[x].policy = None, dirs[x].parent # None
      PROVE  dirs[x].parent \in Walked(d)
  <2>1. dirs[x].parent \in AllDirs
    BY <1>2, Parents
  <2>2. ASSUME NEW S \in SUBSET AllDirs, d \in S, WalkClosed(S) PROVE dirs[x].parent \in S
    <3>1. x \in S
      BY <2>2, WalkedLeast
    <3> QED BY <2>2, <3>1, <1>2 DEF WalkClosed
  <2> QED BY <2>1, <2>2 DEF Walked
<1> QED BY <1>1, <1>2 DEF WalkClosed

\* A walk from a directory without a policy is one from its parent.
LEMMA WalkedOfParent ==
  ASSUME DirectoriesInv, NEW d \in LiveDirs
  PROVE  /\ dirs[d].policy # None => Walked(d) = {d}
         /\ dirs[d].policy = None /\ dirs[d].parent # None =>
              Walked(d) = {d} \union Walked(dirs[d].parent)
<1> DEFINE p == dirs[d].parent
<1>1. d \in AllDirs /\ p \in AllDirs \union {None}
  BY Parents
<1>2. d \in Walked(d) /\ Walked(d) \in SUBSET AllDirs /\ WalkClosed(Walked(d))
  BY <1>1, WalkedClosed
<1>3. CASE dirs[d].policy # None
  <2>1. WalkClosed({d})
    BY <1>3 DEF WalkClosed
  <2> QED BY <1>1, <1>2, <1>3, <2>1, WalkedLeast
<1>4. CASE dirs[d].policy = None /\ p # None
  <2>1. p \in AllDirs /\ p \in Walked(d)
    BY <1>1, <1>2, <1>4 DEF WalkClosed
  <2>2. Walked(p) \subseteq Walked(d)
    BY <1>2, <2>1, WalkedLeast
  <2>3. p \in Walked(p) /\ Walked(p) \in SUBSET AllDirs /\ WalkClosed(Walked(p))
    BY <2>1, WalkedClosed
  <2> DEFINE S == {d} \union Walked(p)
  <2>4. S \in SUBSET AllDirs /\ d \in S /\ WalkClosed(S)
    BY <1>1, <2>3 DEF WalkClosed
  <2> HIDE DEF S
  <2>5. Walked(d) \subseteq S
    BY <2>4, WalkedLeast
  <2> QED BY <1>2, <1>4, <2>2, <2>5 DEF S
<1> QED BY <1>3, <1>4

\* The walk finds a policy wherever there is one up the tree: without, it would
\* have come to every directory there is.
LEMMA NearestExists ==
  ASSUME DirectoriesInv, NEW d \in AllDirs, WithPolicy(d) # {}
  PROVE  Nearest(d) \in FirstWithPolicy(d)
<1> SUFFICES ASSUME FirstWithPolicy(d) = {} PROVE FALSE
  BY DEF Nearest
<1>1. d \in Walked(d) /\ Walked(d) \in SUBSET AllDirs /\ WalkClosed(Walked(d))
  BY WalkedClosed
<1>2. UpClosed(Walked(d))
  BY <1>1 DEF WalkClosed, UpClosed, FirstWithPolicy
<1>3. Ancestors(d) \subseteq Walked(d)
  BY <1>1, <1>2, AncestorsLeast
<1> QED BY <1>3 DEF WithPolicy, FirstWithPolicy

LEMMA EffectivePolicies ==
  ASSUME DirectoriesInv, NEW d \in AllDirs, WithPolicy(d) # {}
  PROVE  EffectivePolicy(d) \in Policies
<1>1. Nearest(d) \in LiveDirs /\ dirs[Nearest(d)].policy # None
  BY NearestExists DEF FirstWithPolicy
<1> QED BY <1>1, Parents DEF EffectivePolicy

(***************************************************************************)
(* The walk down from a root that has no parent.                           *)
(***************************************************************************)
LEMMA Children ==
  ASSUME DirectoriesInv, NEW p \in AllDirs
  PROVE  SubDirectories(p) = {d \in LiveDirs : dirs[d].parent = p}
BY Living DEF DirectoriesInv, TreeInv, ParentIndex

LEMMA BelowClosed ==
  ASSUME DirectoriesInv
  PROVE  Root \in Below /\ Below \in SUBSET AllDirs /\ DownClosed(Below)
<1>1. Root \in Below /\ Below \in SUBSET AllDirs
  BY Identifiers DEF Below
<1>2. ASSUME NEW p \in Below, NEW d \in SubDirectories(p) PROVE d \in Below
  <2>1. d \in AllDirs
    BY <1>1, Children, Living DEF Alive
  <2>2. ASSUME NEW S \in SUBSET AllDirs, Root \in S, DownClosed(S) PROVE d \in S
    BY <2>2 DEF Below, DownClosed
  <2> QED BY <2>1, <2>2 DEF Below
<1> QED BY <1>1, <1>2 DEF DownClosed

LEMMA BelowLeast ==
  ASSUME NEW S \in SUBSET AllDirs, Root \in S, DownClosed(S)
  PROVE  Below \subseteq S
BY DEF Below

\* It comes to the directories that are under the root, and to no other.
LEMMA BelowRoot ==
  ASSUME DirectoriesInv, RootIsTop
  PROVE  \A d \in Below : d \in LiveDirs /\ Root \in Ancestors(d)
<1> DEFINE S == {d \in Below \intersect LiveDirs : Root \in Ancestors(d)}
<1>1. Root \in S /\ S \in SUBSET AllDirs
  BY BelowClosed, AncestorsClosed, Identifiers DEF RootIsTop
<1>2. ASSUME NEW p \in S, NEW d \in SubDirectories(p) PROVE d \in S
  <2>1. p \in AllDirs /\ p \in Below /\ Root \in Ancestors(p)
    BY <1>1
  <2>2. d \in LiveDirs /\ dirs[d].parent = p
    BY <2>1, Children
  <2>3. d \in Below
    BY <2>1, BelowClosed DEF DownClosed
  <2>4. Ancestors(d) = {d} \union Ancestors(p)
    BY <2>1, <2>2, AncestorsOfParent, Identifiers
  <2> QED BY <2>1, <2>2, <2>3, <2>4
<1>3. DownClosed(S)
  BY <1>2 DEF DownClosed
<1> HIDE DEF S
<1>4. Below \subseteq S
  BY <1>1, <1>3, BelowLeast
<1> QED BY <1>4 DEF S

LEMMA UnderRootIsBelow ==
  ASSUME DirectoriesInv, NEW d \in AllDirs, Root \in Ancestors(d)
  PROVE  d \in Below
<1> SUFFICES ASSUME d \notin Below PROVE FALSE
  OBVIOUS
<1> DEFINE S == AllDirs \ Below
<1>1. S \in SUBSET AllDirs /\ d \in S
  OBVIOUS
<1>2. ASSUME NEW x \in S \intersect LiveDirs, dirs[x].parent # None PROVE dirs[x].parent \in S
  <2>1. dirs[x].parent \in AllDirs
    BY <1>2, Parents
  <2>2. x \in SubDirectories(dirs[x].parent)
    BY <2>1, Children
  <2> QED BY <2>1, <2>2, BelowClosed DEF DownClosed
<1>3. UpClosed(S)
  BY <1>2 DEF UpClosed
<1> HIDE DEF S
<1>4. Root \in S
  BY <1>1, <1>3, AncestorsLeast
<1> QED BY <1>4, BelowClosed DEF S

\* What the walk up finds, from a directory and from its parent.
Found(d) == IF WithPolicy(d) = {} THEN None ELSE EffectivePolicy(d)

LEMMA FoundBelow ==
  ASSUME DirectoriesInv, RootIsTop, NEW d \in LiveDirs, Root \in Ancestors(d)
  PROVE  /\ Found(d) \in Policies \union {None}
         /\ dirs[d].policy # None => Found(d) = dirs[d].policy
         /\ dirs[d].policy = None /\ dirs[d].parent = None => Found(d) = None
         /\ dirs[d].policy = None /\ dirs[d].parent # None => Found(d) = Found(dirs[d].parent)
<1>1. d \in AllDirs /\ d \in Ancestors(d)
  BY Parents, AncestorsClosed
<1>2. Found(d) \in Policies \union {None}
  BY <1>1, EffectivePolicies DEF Found
<1>3. CASE dirs[d].policy # None
  <2>1. WithPolicy(d) # {}
    BY <1>1, <1>3 DEF WithPolicy
  <2>2. FirstWithPolicy(d) \subseteq {d}
    BY <1>3, WalkedOfParent DEF FirstWithPolicy
  <2>3. Nearest(d) = d
    BY <1>1, <2>1, <2>2, NearestExists
  <2> QED BY <1>2, <1>3, <2>1, <2>3 DEF Found, EffectivePolicy
<1>4. CASE dirs[d].policy = None /\ dirs[d].parent = None
  <2>1. WithPolicy(d) = {}
    BY <1>4, AncestorsOfParent DEF WithPolicy
  <2> QED BY <1>2, <1>4, <2>1 DEF Found
<1>5. CASE dirs[d].policy = None /\ dirs[d].parent # None
  <2>1. WithPolicy(d) = WithPolicy(dirs[d].parent)
    BY <1>5, AncestorsOfParent DEF WithPolicy
  <2>2. FirstWithPolicy(d) = FirstWithPolicy(dirs[d].parent)
    BY <1>5, WalkedOfParent DEF FirstWithPolicy
  <2>3. Found(d) = Found(dirs[d].parent)
    BY <2>1, <2>2 DEF Found, EffectivePolicy, Nearest
  <2> QED BY <1>2, <1>5, <2>3
<1> QED BY <1>3, <1>4, <1>5

\* The two walks agree: what is handed down is what is found on the way up.
LEMMA HandedIsFound ==
  ASSUME DirectoriesInv, RootIsTop
  PROVE  HandedDown = [d \in Below |-> Found(d)]
<1> DEFINE F == [d \in Below |-> Found(d)]
           Obeys(policy) == /\ policy[Root] = dirs[Root].policy
                            /\ \A p \in Below : \A d \in SubDirectories(p) : policy[d] = Own(d, policy[p])
<1>1. /\ Root \in Below /\ Below \in SUBSET AllDirs /\ DownClosed(Below)
      /\ \A d \in Below : d \in LiveDirs /\ Root \in Ancestors(d)
  BY BelowClosed, BelowRoot
<1>2. F \in [Below -> Policies \union {None}]
  BY <1>1, FoundBelow
<1>3. Found(Root) = dirs[Root].policy
  BY <1>1, FoundBelow DEF RootIsTop
<1>4. ASSUME NEW p \in Below, NEW d \in SubDirectories(p)
      PROVE  d \in Below /\ Found(d) = Own(d, Found(p))
  <2>1. d \in Below
    BY <1>1 DEF DownClosed
  <2>2. p \in AllDirs /\ d \in LiveDirs /\ dirs[d].parent = p /\ p # None
    BY <1>1, Children, Identifiers
  <2> QED BY <1>1, <2>1, <2>2, FoundBelow DEF Own
<1>5. Obeys(F)
  BY <1>1, <1>3, <1>4
<1>6. HandedDown = CHOOSE policy \in [Below -> Policies \union {None}] : Obeys(policy)
  BY DEF HandedDown
<1>7. HandedDown \in [Below -> Policies \union {None}] /\ Obeys(HandedDown)
  <2> HIDE DEF F, Obeys
  <2> QED BY <1>2, <1>5, <1>6
<1> DEFINE S == {d \in Below : HandedDown[d] = Found(d)}
<1>8. S \in SUBSET AllDirs /\ Root \in S
  BY <1>1, <1>3, <1>7
<1>9. ASSUME NEW p \in S, NEW d \in SubDirectories(p) PROVE d \in S
  <2>1. p \in Below /\ HandedDown[p] = Found(p)
    OBVIOUS
  <2>2. d \in Below /\ Found(d) = Own(d, Found(p))
    BY <2>1, <1>4
  <2>3. HandedDown[d] = Own(d, HandedDown[p])
    BY <2>1, <1>7
  <2> QED BY <2>1, <2>2, <2>3
<1>10. DownClosed(S)
  BY <1>9 DEF DownClosed
<1> HIDE DEF S
<1>11. Below \subseteq S
  BY <1>8, <1>10, BelowLeast
<1>12. \A d \in Below : HandedDown[d] = Found(d)
  BY <1>11 DEF S
<1> QED BY <1>7, <1>12

(***************************************************************************)
(* What the repositories' operations leave true.                           *)
(***************************************************************************)
LEMMA TreeAfterSaveDir ==
  ASSUME NEW ds, NEW cs, NEW sub, NEW con, TreeInv(ds, cs, sub, con),
         NEW d \in AllDirs, NEW r \in DirRecords,
         r.parent # None => \A x \in Alive(ds, AllDirs) \ {d} : ds[x].parent = r.parent => ds[x].name # r.name,
         \A c \in Alive(cs, Colls) : cs[c].dir = r.parent => cs[c].name # r.name,
         NEW ds2, NEW sub2, SavesDir(ds, sub, d, r, ds2, sub2)
  PROVE  TreeInv(ds2, cs, sub2, con) /\ Alive(ds2, AllDirs) = Alive(ds, AllDirs) \union {d}
<1>1. Recorded(ds, cs) /\ ParentIndex(ds, sub) /\ DirIndex(cs, con) /\ NamedApart(ds, cs) /\ Housed(ds, cs)
  BY DEF TreeInv
<1>2. DOMAIN ds = AllDirs /\ \A x \in Alive(ds, AllDirs) : ds[x] \in DirRecords
  BY <1>1 DEF Recorded
<1>3. /\ ParentIndex(ds2, sub2) /\ Alive(ds2, AllDirs) = Alive(ds, AllDirs) \union {d}
      /\ DOMAIN ds2 = AllDirs /\ ds2[d] = r /\ \A x \in AllDirs \ {d} : ds2[x] = ds[x]
  BY <1>1, <1>2, DirSaved
<1>4. \A x \in Alive(ds2, AllDirs) : x # d => x \in Alive(ds, AllDirs) /\ ds2[x] = ds[x]
  BY <1>3 DEF Alive
<1>5. Recorded(ds2, cs)
  BY <1>1, <1>3, <1>4 DEF Recorded
<1>6. Housed(ds2, cs)
  BY <1>1, <1>3 DEF Housed
<1>7. NamedApart(ds2, cs)
  <2>1. ASSUME NEW x \in Alive(ds2, AllDirs), NEW y \in Alive(ds2, AllDirs),
               ds2[x].parent = ds2[y].parent, ds2[x].parent # None, ds2[x].name = ds2[y].name
        PROVE  x = y
    <3>1. CASE x = d
      <4>1. ds2[x] = r
        BY <3>1, <1>3
      <4> QED BY <4>1, <3>1, <2>1, <1>4
    <3>2. CASE y = d
      <4>1. ds2[y] = r
        BY <3>2, <1>3
      <4> QED BY <4>1, <3>2, <2>1, <1>4
    <3>3. CASE x # d /\ y # d
      BY <3>3, <2>1, <1>1, <1>4 DEF NamedApart
    <3> QED BY <3>1, <3>2, <3>3
  <2>2. ASSUME NEW x \in Alive(ds2, AllDirs), NEW c \in Alive(cs, Colls), ds2[x].parent = cs[c].dir
        PROVE  ds2[x].name # cs[c].name
    <3>1. CASE x = d
      BY <3>1, <2>2, <1>3
    <3>2. CASE x # d
      BY <3>2, <2>2, <1>1, <1>4 DEF NamedApart
    <3> QED BY <3>1, <3>2
  <2>3. \A b, c \in Alive(cs, Colls) : cs[b].dir = cs[c].dir /\ cs[b].name = cs[c].name => b = c
    BY <1>1 DEF NamedApart
  <2> QED BY <2>1, <2>2, <2>3 DEF NamedApart
<1> QED BY <1>1, <1>3, <1>5, <1>6, <1>7 DEF TreeInv

LEMMA TreeAfterDeleteDir ==
  ASSUME NEW ds, NEW cs, NEW sub, NEW con, TreeInv(ds, cs, sub, con),
         NEW d \in Alive(ds, AllDirs), \A c \in Alive(cs, Colls) : cs[c].dir # d,
         NEW ds2, NEW sub2, DeletesDir(ds, sub, d, ds2, sub2)
  PROVE  TreeInv(ds2, cs, sub2, con)
<1>1. Recorded(ds, cs) /\ ParentIndex(ds, sub) /\ DirIndex(cs, con) /\ NamedApart(ds, cs) /\ Housed(ds, cs)
  BY DEF TreeInv
<1>2. DOMAIN ds = AllDirs /\ \A x \in Alive(ds, AllDirs) : ds[x] \in DirRecords
  BY <1>1 DEF Recorded
<1>3. /\ ParentIndex(ds2, sub2) /\ Alive(ds2, AllDirs) = Alive(ds, AllDirs) \ {d}
      /\ DOMAIN ds2 = AllDirs /\ \A x \in AllDirs \ {d} : ds2[x] = ds[x]
  BY <1>1, <1>2, DirGone
<1>4. \A x \in Alive(ds2, AllDirs) : x # d /\ x \in Alive(ds, AllDirs) /\ ds2[x] = ds[x]
  BY <1>3 DEF Alive
<1>5. Recorded(ds2, cs) /\ Housed(ds2, cs) /\ NamedApart(ds2, cs)
  BY <1>1, <1>3, <1>4 DEF Recorded, Housed, NamedApart
<1> QED BY <1>1, <1>3, <1>5 DEF TreeInv

LEMMA TreeAfterSaveColls ==
  ASSUME NEW ds, NEW cs, NEW sub, NEW con, TreeInv(ds, cs, sub, con),
         NEW C \in SUBSET Colls, NEW r \in [C -> CollRecords],
         \A c \in C : r[c].dir \in Alive(ds, AllDirs),
         \A c \in C, x \in Alive(ds, AllDirs) : ds[x].parent = r[c].dir => ds[x].name # r[c].name,
         \A c \in C, b \in Alive(cs, Colls) \ C : cs[b].dir = r[c].dir => cs[b].name # r[c].name,
         \A b, c \in C : r[b].dir = r[c].dir /\ r[b].name = r[c].name => b = c,
         NEW cs2, NEW con2, SavesColls(cs, con, C, r, cs2, con2)
  PROVE  TreeInv(ds, cs2, sub, con2)
<1>1. Recorded(ds, cs) /\ ParentIndex(ds, sub) /\ DirIndex(cs, con) /\ NamedApart(ds, cs) /\ Housed(ds, cs)
  BY DEF TreeInv
<1>2. DOMAIN cs = Colls
  BY <1>1 DEF Recorded
<1>3. /\ DirIndex(cs2, con2)
      /\ Alive(cs2, Colls) = Alive(cs, Colls) \union C
      /\ DOMAIN cs2 = Colls
      /\ \A c \in C : cs2[c] = r[c] /\ cs2[c] \in CollRecords
      /\ \A c \in Colls \ C : cs2[c] = cs[c]
  BY <1>1, <1>2, CollsSaved
<1>4. \A x \in Alive(cs2, Colls) : x \in C \/ (x \in Alive(cs, Colls) \ C /\ cs2[x] = cs[x])
  BY <1>3 DEF Alive
<1>5. Recorded(ds, cs2) /\ Housed(ds, cs2)
  BY <1>1, <1>3, <1>4 DEF Recorded, Housed
<1>6. NamedApart(ds, cs2)
  <2>1. ASSUME NEW b \in Alive(cs2, Colls), NEW c \in Alive(cs2, Colls),
               cs2[b].dir = cs2[c].dir, cs2[b].name = cs2[c].name
        PROVE  b = c
    <3>1. CASE b \in C /\ c \in C
      BY <3>1, <2>1, <1>3
    <3>2. CASE b \notin C /\ c \in C
      BY <3>2, <2>1, <1>3, <1>4
    <3>3. CASE b \in C /\ c \notin C
      BY <3>3, <2>1, <1>3, <1>4
    <3>4. CASE b \notin C /\ c \notin C
      BY <3>4, <2>1, <1>1, <1>4 DEF NamedApart
    <3> QED BY <3>1, <3>2, <3>3, <3>4
  <2>2. ASSUME NEW x \in Alive(ds, AllDirs), NEW c \in Alive(cs2, Colls), ds[x].parent = cs2[c].dir
        PROVE  ds[x].name # cs2[c].name
    <3>1. CASE c \in C
      BY <3>1, <2>2, <1>3
    <3>2. CASE c \notin C
      BY <3>2, <2>2, <1>1, <1>4 DEF NamedApart
    <3> QED BY <3>1, <3>2
  <2>3. \A d, e \in Alive(ds, AllDirs) :
          ds[d].parent = ds[e].parent /\ ds[d].parent # None /\ ds[d].name = ds[e].name => d = e
    BY <1>1 DEF NamedApart
  <2> QED BY <2>1, <2>2, <2>3 DEF NamedApart
<1> QED BY <1>1, <1>3, <1>5, <1>6 DEF TreeInv

LEMMA TreeAfterDeleteColl ==
  ASSUME NEW ds, NEW cs, NEW sub, NEW con, TreeInv(ds, cs, sub, con),
         NEW c \in Alive(cs, Colls),
         NEW cs2, NEW con2, DeletesColl(cs, con, c, cs2, con2)
  PROVE  TreeInv(ds, cs2, sub, con2) /\ \A x \in Alive(cs2, Colls) : x # c /\ x \in Alive(cs, Colls) /\ cs2[x] = cs[x]
<1>1. Recorded(ds, cs) /\ ParentIndex(ds, sub) /\ DirIndex(cs, con) /\ NamedApart(ds, cs) /\ Housed(ds, cs)
  BY DEF TreeInv
<1>2. DOMAIN cs = Colls /\ \A x \in Alive(cs, Colls) : cs[x] \in CollRecords
  BY <1>1 DEF Recorded
<1>3. /\ DirIndex(cs2, con2) /\ Alive(cs2, Colls) = Alive(cs, Colls) \ {c}
      /\ DOMAIN cs2 = Colls /\ \A x \in Colls \ {c} : cs2[x] = cs[x]
  BY <1>1, <1>2, CollGone
<1>4. \A x \in Alive(cs2, Colls) : x # c /\ x \in Alive(cs, Colls) /\ cs2[x] = cs[x]
  BY <1>3 DEF Alive
<1>5. Recorded(ds, cs2) /\ Housed(ds, cs2) /\ NamedApart(ds, cs2)
  BY <1>1, <1>3, <1>4 DEF Recorded, Housed, NamedApart
<1> QED BY <1>1, <1>3, <1>4, <1>5 DEF TreeInv

(***************************************************************************)
(* The commands.                                                           *)
(***************************************************************************)
\* What the answers of the indices say of a name.
LEMMA NameIsFree ==
  ASSUME DirectoriesInv, NEW p \in AllDirs, NEW name, UniqueName(p, name)
  PROVE  /\ \A x \in Alive(dirs, AllDirs) : dirs[x].parent = p => dirs[x].name # name
         /\ \A c \in Alive(colls, Colls) : colls[c].dir = p => colls[c].name # name
<1>1. SubDirectories(p) = {x \in Alive(dirs, AllDirs) : dirs[x].parent = p}
  BY Living DEF DirectoriesInv, TreeInv, ParentIndex
<1>2. CollectionsByDirectory(p) = {x \in Alive(colls, Colls) : colls[x].dir = p}
  BY Living DEF DirectoriesInv, TreeInv, DirIndex
<1> QED BY <1>1, <1>2 DEF UniqueName

LEMMA LiveRecords ==
  ASSUME DirectoriesInv
  PROVE  /\ \A d \in LiveDirs : d \in AllDirs /\ dirs[d] \in DirRecords /\ d \in Alive(dirs, AllDirs)
         /\ \A c \in LiveColls : /\ c \in Colls /\ colls[c] \in CollRecords /\ c \in Alive(colls, Colls)
                                 /\ colls[c].dir \in LiveDirs
BY Living DEF DirectoriesInv, TreeInv, Recorded, Housed, LiveDirs, LiveColls

LEMMA SaveDirStep ==
  ASSUME DirectoriesInv, NEW d \in AllDirs, NEW r \in DirRecords,
         SaveDir(d, r), UNCHANGED <<colls, contents, spinning>>,
         r.parent # None =>
           \A x \in Alive(dirs, AllDirs) \ {d} : dirs[x].parent = r.parent => dirs[x].name # r.name,
         \A c \in Alive(colls, Colls) : colls[c].dir = r.parent => colls[c].name # r.name
  PROVE  DirectoriesInv'
<1>1. TreeInv(dirs, colls, subdirs, contents) /\ spinning \in BOOLEAN
  BY DEF DirectoriesInv
<1>2. SavesDir(dirs, subdirs, d, r, dirs', subdirs')
  BY Living DEF SaveDir, SavesDir
<1>3. TreeInv(dirs', colls, subdirs', contents)
  BY <1>1, <1>2, TreeAfterSaveDir
<1> QED BY <1>1, <1>3 DEF DirectoriesInv

LEMMA SaveCollsStep ==
  ASSUME DirectoriesInv, NEW C \in SUBSET Colls, NEW r \in [C -> CollRecords],
         SaveColls(C, r), UNCHANGED <<dirs, subdirs, spinning>>,
         \A c \in C : r[c].dir \in Alive(dirs, AllDirs),
         \A c \in C, x \in Alive(dirs, AllDirs) : dirs[x].parent = r[c].dir => dirs[x].name # r[c].name,
         \A c \in C, b \in Alive(colls, Colls) \ C : colls[b].dir = r[c].dir => colls[b].name # r[c].name,
         \A b, c \in C : r[b].dir = r[c].dir /\ r[b].name = r[c].name => b = c
  PROVE  DirectoriesInv'
<1>1. TreeInv(dirs, colls, subdirs, contents) /\ spinning \in BOOLEAN
  BY DEF DirectoriesInv
<1>2. SavesColls(colls, contents, C, r, colls', contents')
  BY DEF SaveColls, SavesColls
<1>3. TreeInv(dirs, colls', subdirs, contents')
  BY <1>1, <1>2, TreeAfterSaveColls
<1> QED BY <1>1, <1>3 DEF DirectoriesInv

LEMMA DirectoryCreateStep ==
  ASSUME DirectoriesInv, NEW d \in AllDirs, NEW p \in AllDirs, NEW name \in Names, DirectoryCreate(d, p, name)
  PROVE  DirectoriesInv'
<1> DEFINE r == [parent |-> p, name |-> name, policy |-> None, meta |-> None]
<1>1. SaveDir(d, r) /\ UNCHANGED <<colls, contents, spinning>> /\ UniqueName(p, name)
  BY DEF DirectoryCreate
<1>2. r \in DirRecords /\ r.parent = p /\ r.name = name
  BY DEF DirRecords
<1> HIDE DEF r
<1>3. /\ \A x \in Alive(dirs, AllDirs) : dirs[x].parent = p => dirs[x].name # name
      /\ \A c \in Alive(colls, Colls) : colls[c].dir = p => colls[c].name # name
  BY <1>1, NameIsFree
<1> QED BY <1>1, <1>2, <1>3, SaveDirStep

LEMMA DirectoryRenameStep ==
  ASSUME DirectoriesInv, NEW d \in AllDirs, NEW name \in Names, DirectoryRename(d, name)
  PROVE  DirectoriesInv'
<1> DEFINE r == [dirs[d] EXCEPT !.name = name]
           p == dirs[d].parent
<1>1. SaveDir(d, r) /\ UNCHANGED <<colls, contents, spinning>> /\ UniqueName(p, name) /\ d \in LiveDirs
  BY DEF DirectoryRename
<1>2. dirs[d] \in DirRecords
  BY <1>1, LiveRecords
<1>3. r \in DirRecords /\ r.parent = p /\ r.name = name /\ p \in AllDirs \union {None}
  BY <1>2 DEF DirRecords
<1> HIDE DEF r, p
<1>4. CASE p = None
  <2>1. \A c \in Alive(colls, Colls) : colls[c].dir # p
    BY <1>4, LiveRecords, Living, Identifiers
  <2> QED BY <1>1, <1>3, <1>4, <2>1, SaveDirStep
<1>5. CASE p \in AllDirs
  <2>1. /\ \A x \in Alive(dirs, AllDirs) : dirs[x].parent = p => dirs[x].name # name
        /\ \A c \in Alive(colls, Colls) : colls[c].dir = p => colls[c].name # name
    BY <1>1, <1>5, NameIsFree
  <2> QED BY <1>1, <1>3, <2>1, SaveDirStep
<1> QED BY <1>3, <1>4, <1>5

LEMMA DirectoryMoveStep ==
  ASSUME DirectoriesInv, NEW d \in AllDirs, NEW p \in AllDirs, DirectoryMove(d, p)
  PROVE  DirectoriesInv'
<1> DEFINE r == [dirs[d] EXCEPT !.parent = p]
<1>1. SaveDir(d, r) /\ UNCHANGED <<colls, contents, spinning>> /\ UniqueName(p, dirs[d].name) /\ d \in LiveDirs
  BY DEF DirectoryMove
<1>2. dirs[d] \in DirRecords
  BY <1>1, LiveRecords
<1>3. r \in DirRecords /\ r.parent = p /\ r.name = dirs[d].name
  BY <1>2 DEF DirRecords
<1> HIDE DEF r
<1>4. /\ \A x \in Alive(dirs, AllDirs) : dirs[x].parent = p => dirs[x].name # dirs[d].name
      /\ \A c \in Alive(colls, Colls) : colls[c].dir = p => colls[c].name # dirs[d].name
  BY <1>1, NameIsFree
<1> QED BY <1>1, <1>3, <1>4, SaveDirStep

\* A record is saved that keeps its name and its place.
LEMMA InPlace ==
  ASSUME DirectoriesInv, NEW d \in LiveDirs, NEW r \in DirRecords,
         r.parent = dirs[d].parent, r.name = dirs[d].name
  PROVE  /\ r.parent # None =>
              \A x \in Alive(dirs, AllDirs) \ {d} : dirs[x].parent = r.parent => dirs[x].name # r.name
         /\ \A c \in Alive(colls, Colls) : colls[c].dir = r.parent => colls[c].name # r.name
<1>1. NamedApart(dirs, colls) /\ d \in Alive(dirs, AllDirs)
  BY LiveRecords DEF DirectoriesInv, TreeInv
<1>2. /\ \A x \in Alive(dirs, AllDirs) :
           dirs[d].parent = dirs[x].parent /\ dirs[d].parent # None /\ dirs[d].name = dirs[x].name => d = x
      /\ \A c \in Alive(colls, Colls) : dirs[d].parent = colls[c].dir => dirs[d].name # colls[c].name
  BY <1>1 DEF NamedApart
<1> QED BY <1>2

LEMMA ChangePolicyStep ==
  ASSUME DirectoriesInv, NEW d \in AllDirs, NEW policy \in Policies \union {None},
         DirectoryChangeReplicationPolicy(d, policy)
  PROVE  DirectoriesInv'
<1> DEFINE r == [dirs[d] EXCEPT !.policy = policy]
<1>1. SaveDir(d, r) /\ UNCHANGED <<colls, contents, spinning>> /\ d \in LiveDirs
  BY DEF DirectoryChangeReplicationPolicy
<1>2. dirs[d] \in DirRecords
  BY <1>1, LiveRecords
<1>3. r \in DirRecords /\ r.parent = dirs[d].parent /\ r.name = dirs[d].name
  BY <1>2 DEF DirRecords
<1> HIDE DEF r
<1> QED BY <1>1, <1>3, InPlace, SaveDirStep

\* A collection that is to be made gets a policy, and a name that is free.
LEMMA MadeColl ==
  ASSUME DirectoriesInv, NEW c \in Colls, NEW d \in AllDirs, NEW name \in Names, MayCreate(c, d, name)
  PROVE  /\ CreatedIn(d, name) \in CollRecords
         /\ CreatedIn(d, name).dir = d /\ CreatedIn(d, name).name = name /\ d \in Alive(dirs, AllDirs)
         /\ \A x \in Alive(dirs, AllDirs) : dirs[x].parent = d => dirs[x].name # name
         /\ \A b \in Alive(colls, Colls) : colls[b].dir = d => colls[b].name # name
<1>1. d \in LiveDirs /\ UniqueName(d, name) /\ WithPolicy(d) # {}
  BY DEF MayCreate
<1>2. EffectivePolicy(d) \in Policies
  BY <1>1, EffectivePolicies
<1>3. CreatedIn(d, name) \in CollRecords /\ CreatedIn(d, name).dir = d /\ CreatedIn(d, name).name = name
  BY <1>2 DEF CreatedIn, CollRecords
<1> QED BY <1>1, <1>3, NameIsFree, LiveRecords

\* One collection is saved.
LEMMA SaveCollStep ==
  ASSUME DirectoriesInv, NEW c \in Colls, NEW record \in CollRecords,
         SaveColl(c, record), UNCHANGED <<dirs, subdirs, spinning>>,
         record.dir \in Alive(dirs, AllDirs),
         \A x \in Alive(dirs, AllDirs) : dirs[x].parent = record.dir => dirs[x].name # record.name,
         \A b \in Alive(colls, Colls) \ {c} : colls[b].dir = record.dir => colls[b].name # record.name
  PROVE  DirectoriesInv'
<1> DEFINE r == [x \in {c} |-> record]
<1>1. SaveColls({c}, r)
  BY DEF SaveColl
<1>2. r \in [{c} -> CollRecords] /\ r[c] = record
  OBVIOUS
<1> HIDE DEF r
<1>3. /\ \A b \in {c} : r[b].dir \in Alive(dirs, AllDirs)
      /\ \A b \in {c}, x \in Alive(dirs, AllDirs) : dirs[x].parent = r[b].dir => dirs[x].name # r[b].name
      /\ \A b \in {c}, x \in Alive(colls, Colls) \ {c} : colls[x].dir = r[b].dir => colls[x].name # r[b].name
      /\ \A b, x \in {c} : r[b].dir = r[x].dir /\ r[b].name = r[x].name => b = x
  BY <1>2
<1> QED BY <1>1, <1>2, <1>3, SaveCollsStep

LEMMA CollectionCreateStep ==
  ASSUME DirectoriesInv, NEW c \in Colls, NEW d \in AllDirs, NEW name \in Names, CollectionCreate(c, d, name)
  PROVE  DirectoriesInv'
<1> DEFINE record == CreatedIn(d, name)
<1>1. MayCreate(c, d, name) /\ SaveColl(c, record) /\ UNCHANGED <<dirs, subdirs, spinning>>
  BY DEF CollectionCreate
<1>2. /\ record \in CollRecords /\ record.dir = d /\ record.name = name /\ d \in Alive(dirs, AllDirs)
      /\ \A x \in Alive(dirs, AllDirs) : dirs[x].parent = d => dirs[x].name # name
      /\ \A b \in Alive(colls, Colls) : colls[b].dir = d => colls[b].name # name
  BY <1>1, MadeColl
<1> HIDE DEF record
<1> QED BY <1>1, <1>2, SaveCollStep

LEMMA RenamedCollStep ==
  ASSUME DirectoriesInv, NEW c \in LiveColls, NEW name \in Names,
         name = colls[c].name \/ UniqueName(colls[c].dir, name),
         SaveColl(c, [colls[c] EXCEPT !.name = name]), UNCHANGED <<dirs, subdirs, spinning>>
  PROVE  DirectoriesInv'
<1> DEFINE record == [colls[c] EXCEPT !.name = name]
           p == colls[c].dir
<1>1. c \in Colls /\ colls[c] \in CollRecords /\ p \in LiveDirs /\ c \in Alive(colls, Colls)
  BY LiveRecords
<1>2. record \in CollRecords /\ record.dir = p /\ record.name = name
  BY <1>1 DEF CollRecords
<1>3. SaveColl(c, record)
  OBVIOUS
<1> HIDE DEF record
<1>4. p \in AllDirs /\ p \in Alive(dirs, AllDirs)
  BY <1>1, LiveRecords
<1>5. /\ \A x \in Alive(dirs, AllDirs) : dirs[x].parent = p => dirs[x].name # name
      /\ \A b \in Alive(colls, Colls) \ {c} : colls[b].dir = p => colls[b].name # name
  <2>1. CASE name = colls[c].name
    <3>1. NamedApart(dirs, colls)
      BY DEF DirectoriesInv, TreeInv
    <3> QED BY <3>1, <2>1, <1>1 DEF NamedApart
  <2>2. CASE UniqueName(p, name)
    BY <2>2, <1>4, NameIsFree
  <2> QED BY <2>1, <2>2
<1> QED BY <1>1, <1>2, <1>3, <1>4, <1>5, SaveCollStep

LEMMA CollectionMoveStep ==
  ASSUME DirectoriesInv, NEW C \in SUBSET Colls, NEW d \in AllDirs, CollectionMove(C, d)
  PROVE  DirectoriesInv'
<1> DEFINE r == [c \in C |-> [colls[c] EXCEPT !.dir = d]]
<1>1. /\ SaveColls(C, r) /\ UNCHANGED <<dirs, subdirs, spinning>>
      /\ C \subseteq LiveColls /\ d \in LiveDirs
      /\ \A c \in C : UniqueName(d, colls[c].name)
      /\ \A b, c \in C : colls[b].name = colls[c].name => b = c
  BY DEF CollectionMove
<1>2. ASSUME NEW c \in C
      PROVE  /\ [colls[c] EXCEPT !.dir = d] \in CollRecords
             /\ [colls[c] EXCEPT !.dir = d].dir = d /\ [colls[c] EXCEPT !.dir = d].name = colls[c].name
  <2>1. colls[c] \in CollRecords
    BY <1>1, LiveRecords
  <2> QED BY <2>1 DEF CollRecords
<1>3. r \in [C -> CollRecords] /\ \A c \in C : r[c].dir = d /\ r[c].name = colls[c].name
  BY <1>2
<1> HIDE DEF r
<1>4. ASSUME NEW c \in C
      PROVE  /\ \A x \in Alive(dirs, AllDirs) : dirs[x].parent = d => dirs[x].name # colls[c].name
             /\ \A b \in Alive(colls, Colls) : colls[b].dir = d => colls[b].name # colls[c].name
  BY <1>1, NameIsFree
<1>5. d \in Alive(dirs, AllDirs)
  BY <1>1, LiveRecords
<1>6. /\ \A c \in C : r[c].dir \in Alive(dirs, AllDirs)
      /\ \A c \in C, x \in Alive(dirs, AllDirs) : dirs[x].parent = r[c].dir => dirs[x].name # r[c].name
      /\ \A c \in C, b \in Alive(colls, Colls) \ C : colls[b].dir = r[c].dir => colls[b].name # r[c].name
      /\ \A b, c \in C : r[b].dir = r[c].dir /\ r[b].name = r[c].name => b = c
  BY <1>1, <1>3, <1>4, <1>5
<1> QED BY <1>1, <1>3, <1>6, SaveCollsStep

LEMMA CollectionDeleteStep ==
  ASSUME DirectoriesInv, NEW c \in Colls, CollectionDelete(c)
  PROVE  DirectoriesInv'
<1>1. TreeInv(dirs, colls, subdirs, contents) /\ spinning \in BOOLEAN
  BY DEF DirectoriesInv
<1>2. DeletesColl(colls, contents, c, colls', contents') /\ c \in LiveColls /\ UNCHANGED <<dirs, subdirs, spinning>>
  BY DEF CollectionDelete, DeleteColl, DeletesColl
<1>3. c \in Alive(colls, Colls)
  BY <1>2, LiveRecords
<1>4. TreeInv(dirs, colls', subdirs, contents')
  BY <1>1, <1>2, <1>3, TreeAfterDeleteColl
<1> QED BY <1>1, <1>2, <1>4 DEF DirectoriesInv

LEMMA DirectoryDeleteStep ==
  ASSUME DirectoriesInv, NEW d \in AllDirs, DirectoryDelete(d)
  PROVE  DirectoriesInv'
<1> DEFINE meta == {dirs[d].meta} \ {None}
<1>1. TreeInv(dirs, colls, subdirs, contents) /\ spinning \in BOOLEAN
  BY DEF DirectoriesInv
<1>2. /\ d \in LiveDirs /\ meta \subseteq LiveColls /\ CollectionsByDirectory(d) \subseteq meta
      /\ IF meta = {} THEN UNCHANGED <<colls, contents>> ELSE DeleteColl(dirs[d].meta)
      /\ DeleteDir(d) /\ UNCHANGED spinning
  BY DEF DirectoryDelete
<1>3. d \in Alive(dirs, AllDirs) /\ dirs[d] \in DirRecords
  BY <1>2, LiveRecords
<1>4. \A c \in Alive(colls, Colls) : colls[c].dir = d => c \in meta
  BY <1>1, <1>2, Living DEF TreeInv, DirIndex
<1>5. TreeInv(dirs, colls', subdirs, contents') /\ \A c \in Alive(colls', Colls) : colls'[c].dir # d
  <2>1. CASE meta = {}
    BY <2>1, <1>1, <1>2, <1>4
  <2>2. CASE meta # {}
    <3>1. DeletesColl(colls, contents, dirs[d].meta, colls', contents')
      BY <2>2, <1>2 DEF DeleteColl, DeletesColl
    <3>2. dirs[d].meta \in Alive(colls, Colls)
      BY <2>2, <1>2, LiveRecords
    <3>3. /\ TreeInv(dirs, colls', subdirs, contents')
          /\ \A x \in Alive(colls', Colls) :
               x # dirs[d].meta /\ x \in Alive(colls, Colls) /\ colls'[x] = colls[x]
      BY <1>1, <3>1, <3>2, TreeAfterDeleteColl
    <3> QED BY <3>3, <1>4
  <2> QED BY <2>1, <2>2
<1>6. DeletesDir(dirs, subdirs, d, dirs', subdirs')
  BY <1>2 DEF DeleteDir, DeletesDir
<1>7. TreeInv(dirs', colls', subdirs', contents')
  BY <1>3, <1>5, <1>6, TreeAfterDeleteDir
<1> QED BY <1>1, <1>2, <1>7 DEF DirectoriesInv

LEMMA ChangeDescriptionStep ==
  ASSUME DirectoriesInv, NEW d \in AllDirs, NEW c \in Colls, DirectoryChangeDescription(d, c)
  PROVE  DirectoriesInv'
<1> DEFINE r == [dirs[d] EXCEPT !.meta = c]
           record == CreatedIn(d, MetaName)
           rs == [x \in {c} |-> record]
<1>1. /\ d \in LiveDirs /\ MayCreate(c, d, MetaName) /\ SaveDir(d, r) /\ SaveColl(c, record)
      /\ UNCHANGED spinning
  BY DEF DirectoryChangeDescription, metaCollForDir
<1>2. dirs[d] \in DirRecords /\ MetaName \in Names
  BY <1>1, LiveRecords, DirectoriesAssumption
<1>3. r \in DirRecords /\ r.parent = dirs[d].parent /\ r.name = dirs[d].name
  BY <1>2 DEF DirRecords
<1>4. /\ record \in CollRecords /\ record.dir = d /\ record.name = MetaName /\ d \in Alive(dirs, AllDirs)
      /\ \A x \in Alive(dirs, AllDirs) : dirs[x].parent = d => dirs[x].name # MetaName
      /\ \A b \in Alive(colls, Colls) : colls[b].dir = d => colls[b].name # MetaName
  BY <1>1, <1>2, MadeColl
<1>5. SavesDir(dirs, subdirs, d, r, dirs', subdirs')
  BY <1>1, Living DEF SaveDir, SavesDir
<1>6. SavesColls(colls, contents, {c}, rs, colls', contents')
  BY <1>1 DEF SaveColl, SaveColls, SavesColls
<1>7. rs \in [{c} -> CollRecords] /\ rs[c] = record
  BY <1>4
<1>8. TreeInv(dirs, colls, subdirs, contents) /\ spinning \in BOOLEAN
  BY DEF DirectoriesInv
<1> HIDE DEF r, rs, record
<1>9. /\ \A b \in {c} : rs[b].dir \in Alive(dirs, AllDirs)
      /\ \A b \in {c}, x \in Alive(dirs, AllDirs) : dirs[x].parent = rs[b].dir => dirs[x].name # rs[b].name
      /\ \A b \in {c}, x \in Alive(colls, Colls) \ {c} : colls[x].dir = rs[b].dir => colls[x].name # rs[b].name
      /\ \A b, x \in {c} : rs[b].dir = rs[x].dir /\ rs[b].name = rs[x].name => b = x
  BY <1>4, <1>7
<1>10. TreeInv(dirs, colls', subdirs, contents')
  BY <1>6, <1>7, <1>8, <1>9, TreeAfterSaveColls
<1>11. NamedApart(dirs, colls') /\ d \in Alive(dirs, AllDirs)
  BY <1>4, <1>10 DEF TreeInv
<1>12. /\ r.parent # None =>
            \A x \in Alive(dirs, AllDirs) \ {d} : dirs[x].parent = r.parent => dirs[x].name # r.name
       /\ \A b \in Alive(colls', Colls) : colls'[b].dir = r.parent => colls'[b].name # r.name
  BY <1>3, <1>11 DEF NamedApart
<1>13. TreeInv(dirs', colls', subdirs', contents')
  BY <1>3, <1>5, <1>10, <1>12, TreeAfterSaveDir
<1> QED BY <1>1, <1>8, <1>13 DEF DirectoriesInv

\* Every collection that policies are discovered for gets one.
LEMMA Discovered ==
  ASSUME DirectoriesInv, DiscoverPolicies
  PROVE  LET C == {c \in LiveColls : colls[c].dir \in Below}
             r == [c \in C |-> [colls[c] EXCEPT !.policy = HandedDown[colls[c].dir]]]
         IN  /\ RootIsTop /\ SaveColls(C, r) /\ UNCHANGED <<dirs, subdirs, spinning>>
             /\ \A c \in C : HandedDown[colls[c].dir] = Found(colls[c].dir) /\ Found(colls[c].dir) \in Policies
<1> DEFINE C == {c \in LiveColls : colls[c].dir \in Below}
           r == [c \in C |-> [colls[c] EXCEPT !.policy = HandedDown[colls[c].dir]]]
<1>1. RootIsTop
  BY DEF DiscoverPolicies
<1>2. DOMAIN HandedDown = Below /\ \A d \in Below : HandedDown[d] = Found(d)
  BY <1>1, HandedIsFound
<1>3. /\ \A d \in Below : CollectionsByDirectory(d) # {} => HandedDown[d] # None
      /\ SaveColls(C, r) /\ UNCHANGED <<dirs, subdirs, spinning>>
  BY <1>2 DEF DiscoverPolicies
<1>4. ASSUME NEW c \in C
      PROVE  HandedDown[colls[c].dir] = Found(colls[c].dir) /\ Found(colls[c].dir) \in Policies
  <2>1. c \in LiveColls /\ colls[c].dir \in Below /\ colls[c].dir \in LiveDirs
    BY LiveRecords
  <2> DEFINE d == colls[c].dir
  <2>2. d \in AllDirs /\ c \in Alive(colls, Colls)
    BY <2>1, LiveRecords
  <2>3. c \in CollectionsByDirectory(d)
    BY <2>2, Living DEF DirectoriesInv, TreeInv, DirIndex
  <2>4. Found(d) # None
    BY <1>2, <1>3, <2>1, <2>3
  <2>5. Found(d) \in Policies \union {None}
    BY <2>1, <1>1, BelowRoot, FoundBelow
  <2> QED BY <1>2, <2>1, <2>4, <2>5
<1> QED BY <1>1, <1>3, <1>4

LEMMA DiscoverPoliciesStep ==
  ASSUME DirectoriesInv, DiscoverPolicies
  PROVE  DirectoriesInv'
<1> DEFINE C == {c \in LiveColls : colls[c].dir \in Below}
           r == [c \in C |-> [colls[c] EXCEPT !.policy = HandedDown[colls[c].dir]]]
<1>1. /\ SaveColls(C, r) /\ UNCHANGED <<dirs, subdirs, spinning>>
      /\ \A c \in C : HandedDown[colls[c].dir] \in Policies
  BY Discovered
<1>2. \A c \in C : c \in Colls /\ c \in Alive(colls, Colls) /\ colls[c] \in CollRecords /\ colls[c].dir \in LiveDirs
  BY LiveRecords
<1>3. r \in [C -> CollRecords] /\ \A c \in C : r[c].dir = colls[c].dir /\ r[c].name = colls[c].name
  <2> SUFFICES ASSUME NEW c \in C
               PROVE  /\ [colls[c] EXCEPT !.policy = HandedDown[colls[c].dir]] \in CollRecords
                      /\ r[c].dir = colls[c].dir /\ r[c].name = colls[c].name
    OBVIOUS
  <2>1. HandedDown[colls[c].dir] \in Policies /\ colls[c] \in CollRecords
    BY <1>1, <1>2
  <2> HIDE DEF C
  <2> QED BY <2>1 DEF CollRecords
<1>4. C \in SUBSET Colls
  BY <1>2
<1> HIDE DEF C, r
<1>5. NamedApart(dirs, colls)
  BY DEF DirectoriesInv, TreeInv
<1>6. /\ \A c \in C : r[c].dir \in Alive(dirs, AllDirs)
      /\ \A c \in C, x \in Alive(dirs, AllDirs) : dirs[x].parent = r[c].dir => dirs[x].name # r[c].name
      /\ \A c \in C, b \in Alive(colls, Colls) \ C : colls[b].dir = r[c].dir => colls[b].name # r[c].name
      /\ \A b, c \in C : r[b].dir = r[c].dir /\ r[b].name = r[c].name => b = c
  <2>1. \A c \in C : r[c].dir \in Alive(dirs, AllDirs)
    BY <1>2, <1>3, LiveRecords
  <2>2. \A c \in C, x \in Alive(dirs, AllDirs) : dirs[x].parent = r[c].dir => dirs[x].name # r[c].name
    BY <1>2, <1>3, <1>5 DEF NamedApart
  <2>3. \A c \in C, b \in Alive(colls, Colls) \ C : colls[b].dir = r[c].dir => colls[b].name # r[c].name
    BY <1>2, <1>3, <1>5 DEF NamedApart
  <2>4. \A b, c \in C : r[b].dir = r[c].dir /\ r[b].name = r[c].name => b = c
    BY <1>2, <1>3, <1>5 DEF NamedApart
  <2> QED BY <2>1, <2>2, <2>3, <2>4
<1> QED BY <1>1, <1>3, <1>4, <1>6, SaveCollsStep

LEMMA DirectoriesStart ==
  ASSUME DirectoriesInit
  PROVE  DirectoriesInv
<1>1. PICK name \in Names \ {MetaName}, policy \in Policies \ Unplaceable :
        dirs = [d \in AllDirs |->
                  IF d = Root THEN [parent |-> None, name |-> name, policy |-> policy, meta |-> None]
                  ELSE Unborn]
  BY DEF DirectoriesInit
<1> DEFINE root == [parent |-> None, name |-> name, policy |-> policy, meta |-> None]
<1>2. root \in DirRecords /\ root.parent = None
  BY DEF DirRecords
<1>3. DOMAIN dirs = AllDirs /\ dirs[Root] = root /\ Alive(dirs, AllDirs) = {Root}
  BY <1>1, <1>2, Identifiers DEF Alive
<1> HIDE DEF root
<1>4. /\ colls = [c \in Colls |-> Unborn] /\ subdirs = [p \in {} |-> {}] /\ contents = [p \in {} |-> {}]
      /\ spinning = FALSE
  BY DEF DirectoriesInit
<1>5. DOMAIN colls = Colls /\ Alive(colls, Colls) = {}
  BY <1>4 DEF Alive
<1>6. Recorded(dirs, colls) /\ NamedApart(dirs, colls) /\ Housed(dirs, colls)
  BY <1>2, <1>3, <1>5 DEF Recorded, NamedApart, Housed
<1>7. ParentIndex(dirs, subdirs)
  BY <1>2, <1>3, <1>4, Identifiers DEF ParentIndex, Bucket
<1>8. DirIndex(colls, contents)
  BY <1>4, <1>5 DEF DirIndex, Bucket
<1> QED BY <1>4, <1>6, <1>7, <1>8 DEF DirectoriesInv, TreeInv

(***************************************************************************)
(* Theorems.                                                               *)
(***************************************************************************)
THEOREM DirectoriesInvariant == DirectoriesSpec => []DirectoriesInv
<1>1. DirectoriesInit => DirectoriesInv
  BY DirectoriesStart
<1>2. DirectoriesInv /\ [DirectoriesNext]_directoryVars => DirectoriesInv'
  <2> SUFFICES ASSUME DirectoriesInv, [DirectoriesNext]_directoryVars PROVE DirectoriesInv'
    OBVIOUS
  <2>1. ASSUME NEW d \in AllDirs, NEW p \in AllDirs, NEW name \in Names, DirectoryCreate(d, p, name)
        PROVE  DirectoriesInv'
    BY <2>1, DirectoryCreateStep
  <2>2. ASSUME NEW d \in AllDirs, DirectoryDelete(d) PROVE DirectoriesInv'
    BY <2>2, DirectoryDeleteStep
  <2>3. ASSUME NEW d \in AllDirs, NEW name \in Names, DirectoryRename(d, name) PROVE DirectoriesInv'
    BY <2>3, DirectoryRenameStep
  <2>4. ASSUME NEW d \in AllDirs, NEW p \in AllDirs, DirectoryMove(d, p) PROVE DirectoriesInv'
    BY <2>4, DirectoryMoveStep
  <2>5. ASSUME NEW d \in AllDirs, NEW policy \in Policies \union {None}, DirectoryChangeReplicationPolicy(d, policy)
        PROVE  DirectoriesInv'
    BY <2>5, ChangePolicyStep
  <2>6. ASSUME NEW d \in AllDirs, NEW c \in Colls, DirectoryChangeDescription(d, c) PROVE DirectoriesInv'
    BY <2>6, ChangeDescriptionStep
  <2>7. ASSUME NEW d \in AllDirs, NEW c \in Colls, NEW name \in Names, CollectionCreate(c, d, name)
        PROVE  DirectoriesInv'
    BY <2>7, CollectionCreateStep
  <2>8. ASSUME NEW d \in AllDirs, NEW name \in Names, CreateSpins(d, name) PROVE DirectoriesInv'
    BY <2>8 DEF CreateSpins, recordVars, DirectoriesInv
  <2>9. ASSUME NEW d \in AllDirs, NEW C \in SUBSET Colls, CollectionMove(C, d) PROVE DirectoriesInv'
    BY <2>9, CollectionMoveStep
  <2>10. ASSUME NEW c \in Colls, CollectionDelete(c) PROVE DirectoriesInv'
    BY <2>10, CollectionDeleteStep
  <2>11. ASSUME NEW c \in Colls, NEW name \in Names, CollectionRename(c, name) PROVE DirectoriesInv'
    BY <2>11, RenamedCollStep DEF CollectionRename
  <2>12. ASSUME NEW c \in Colls, NEW name \in Names, CollectionPullMetadata(c, name) PROVE DirectoriesInv'
    BY <2>12, RenamedCollStep DEF CollectionPullMetadata
  <2>13. CASE DiscoverPolicies
    BY <2>13, DiscoverPoliciesStep
  <2>14. CASE UNCHANGED directoryVars
    BY <2>14 DEF directoryVars, DirectoriesInv
  <2> QED BY <2>1, <2>2, <2>3, <2>4, <2>5, <2>6, <2>7, <2>8, <2>9, <2>10, <2>11, <2>12, <2>13, <2>14
          DEF DirectoriesNext
<1> QED BY <1>1, <1>2, PTL DEF DirectoriesSpec

\* Records, indices and what they point to have their types; a collection that
\* is made, or reconciled, always gets a policy that exists.
THEOREM DirectoriesTypeCorrect == DirectoriesSpec => []DirectoriesTypeOK
<1>1. DirectoriesInv => DirectoriesTypeOK
  <2> SUFFICES ASSUME DirectoriesInv PROVE DirectoriesTypeOK
    OBVIOUS
  <2>1. /\ Recorded(dirs, colls) /\ ParentIndex(dirs, subdirs) /\ DirIndex(colls, contents) /\ spinning \in BOOLEAN
    BY DEF DirectoriesInv, TreeInv
  <2>2. DOMAIN subdirs \subseteq AllDirs /\ \A p \in DOMAIN subdirs : subdirs[p] \subseteq AllDirs
    BY <2>1 DEF ParentIndex, Bucket, Alive
  <2>3. DOMAIN contents \subseteq AllDirs /\ \A p \in DOMAIN contents : contents[p] \subseteq Colls
    BY <2>1 DEF DirIndex, Bucket, Alive
  <2> QED BY <2>1, <2>2, <2>3, Living DEF DirectoriesTypeOK, Recorded
<1> QED BY <1>1, DirectoriesInvariant, PTL

\* Whatever is created, moved, renamed and deleted, in whatever order, the two
\* indices answer what the records say.
THEOREM IndicesStayExact == DirectoriesSpec => []IndicesExact
<1>1. DirectoriesInv => IndicesExact
  BY Living DEF DirectoriesInv, TreeInv, ParentIndex, DirIndex, IndicesExact
<1> QED BY <1>1, DirectoriesInvariant, PTL

\* And so no two children of a directory ever have the same name.
THEOREM NamesStayUnique == DirectoriesSpec => []NamesUnique
<1>1. DirectoriesInv => NamesUnique
  <2> SUFFICES ASSUME DirectoriesInv, NEW p \in AllDirs
               PROVE  LET D == {d \in LiveDirs : dirs[d].parent = p}
                          C == {c \in LiveColls : colls[c].dir = p}
                      IN /\ \A d, e \in D : dirs[d].name = dirs[e].name => d = e
                         /\ \A b, c \in C : colls[b].name = colls[c].name => b = c
                         /\ \A d \in D, c \in C : dirs[d].name # colls[c].name
    BY DEF NamesUnique
  <2>1. NamedApart(dirs, colls) /\ p # None
    BY Identifiers DEF DirectoriesInv, TreeInv
  <2> QED BY <2>1, Living DEF NamedApart
<1> QED BY <1>1, DirectoriesInvariant, PTL

\* A directory that goes leaves nothing behind, and none that stays loses its
\* parent.
ParentsStay ==
  \A d \in LiveDirs : (dirs[d].parent \in LiveDirs /\ d \in LiveDirs') => dirs'[d].parent \in LiveDirs'

LEMMA ParentsAfterSave ==
  ASSUME DirectoriesInv, NEW x \in AllDirs, NEW r \in DirRecords, SaveDir(x, r),
         x \in LiveDirs => r.parent = dirs[x].parent \/ r.parent \in LiveDirs
  PROVE  ParentsStay
<1>1. DOMAIN dirs = AllDirs /\ dirs' = [dirs EXCEPT ![x] = r] /\ r \notin {Unborn, Deleted}
  BY Identifiers DEF DirectoriesInv, TreeInv, Recorded, SaveDir
<1>2. dirs'[x] = r /\ \A d \in AllDirs \ {x} : dirs'[d] = dirs[d]
  BY <1>1
<1>3. LiveDirs \subseteq LiveDirs'
  BY <1>1, <1>2 DEF LiveDirs
<1>4. LiveDirs \subseteq AllDirs
  BY DEF LiveDirs
<1> QED BY <1>2, <1>3, <1>4 DEF ParentsStay

LEMMA ParentsAfterDelete ==
  ASSUME DirectoriesInv, NEW x \in AllDirs, DirectoryDelete(x)
  PROVE  ParentsStay
<1>1. DOMAIN dirs = AllDirs /\ dirs' = [dirs EXCEPT ![x] = Deleted] /\ SubDirectories(x) = {}
  BY DEF DirectoriesInv, TreeInv, Recorded, DirectoryDelete, DeleteDir
<1>2. dirs'[x] = Deleted /\ \A d \in AllDirs \ {x} : dirs'[d] = dirs[d]
  BY <1>1
<1>3. LiveDirs' = LiveDirs \ {x}
  BY <1>2 DEF LiveDirs
<1>4. \A d \in LiveDirs : dirs[d].parent # x
  BY <1>1, Children
<1>5. LiveDirs \subseteq AllDirs
  BY DEF LiveDirs
<1> QED BY <1>2, <1>3, <1>4, <1>5 DEF ParentsStay

THEOREM NothingIsOrphaned == DirectoriesSpec => NothingOrphaned
<1>1. DirectoriesInv /\ DirectoriesInv' /\ [DirectoriesNext]_directoryVars
        => /\ \A c \in LiveColls' : colls'[c].dir \in LiveDirs'
           /\ \A d \in LiveDirs :
                (dirs[d].parent \in LiveDirs /\ d \in LiveDirs') => dirs'[d].parent \in LiveDirs'
  <2> SUFFICES ASSUME DirectoriesInv, DirectoriesInv', [DirectoriesNext]_directoryVars
               PROVE  (\A c \in LiveColls' : colls'[c].dir \in LiveDirs') /\ ParentsStay
    BY DEF ParentsStay
  <2>1. \A c \in LiveColls' : colls'[c].dir \in LiveDirs'
    BY DEF DirectoriesInv, TreeInv, Housed, LiveColls, LiveDirs, Alive
  <2>2. ASSUME UNCHANGED dirs PROVE ParentsStay
    BY <2>2 DEF LiveDirs, ParentsStay
  <2>3. ASSUME NEW d \in AllDirs, NEW p \in AllDirs, NEW name \in Names, DirectoryCreate(d, p, name)
        PROVE  ParentsStay
    <3> DEFINE r == [parent |-> p, name |-> name, policy |-> None, meta |-> None]
    <3>1. r \in DirRecords /\ SaveDir(d, r) /\ d \notin LiveDirs
      BY <2>3 DEF DirectoryCreate, DirRecords, LiveDirs
    <3> HIDE DEF r
    <3> QED BY <3>1, ParentsAfterSave
  <2>4. ASSUME NEW d \in AllDirs, DirectoryDelete(d) PROVE ParentsStay
    BY <2>4, ParentsAfterDelete
  <2>5. ASSUME NEW d \in AllDirs, NEW name \in Names, DirectoryRename(d, name) PROVE ParentsStay
    <3> DEFINE r == [dirs[d] EXCEPT !.name = name]
    <3>1. dirs[d] \in DirRecords /\ SaveDir(d, r)
      BY <2>5, LiveRecords DEF DirectoryRename
    <3>2. r \in DirRecords /\ r.parent = dirs[d].parent
      BY <3>1 DEF DirRecords
    <3> HIDE DEF r
    <3> QED BY <3>1, <3>2, ParentsAfterSave
  <2>6. ASSUME NEW d \in AllDirs, NEW p \in AllDirs, DirectoryMove(d, p) PROVE ParentsStay
    <3> DEFINE r == [dirs[d] EXCEPT !.parent = p]
    <3>1. dirs[d] \in DirRecords /\ SaveDir(d, r) /\ p \in LiveDirs
      BY <2>6, LiveRecords DEF DirectoryMove
    <3>2. r \in DirRecords /\ r.parent = p
      BY <3>1 DEF DirRecords
    <3> HIDE DEF r
    <3> QED BY <3>1, <3>2, ParentsAfterSave
  <2>7. ASSUME NEW d \in AllDirs, NEW policy \in Policies \union {None}, DirectoryChangeReplicationPolicy(d, policy)
        PROVE  ParentsStay
    <3> DEFINE r == [dirs[d] EXCEPT !.policy = policy]
    <3>1. dirs[d] \in DirRecords /\ SaveDir(d, r)
      BY <2>7, LiveRecords DEF DirectoryChangeReplicationPolicy
    <3>2. r \in DirRecords /\ r.parent = dirs[d].parent
      BY <3>1 DEF DirRecords
    <3> HIDE DEF r
    <3> QED BY <3>1, <3>2, ParentsAfterSave
  <2>8. ASSUME NEW d \in AllDirs, NEW c \in Colls, DirectoryChangeDescription(d, c) PROVE ParentsStay
    <3> DEFINE r == [dirs[d] EXCEPT !.meta = c]
    <3>1. dirs[d] \in DirRecords /\ SaveDir(d, r)
      BY <2>8, LiveRecords DEF DirectoryChangeDescription, metaCollForDir
    <3>2. r \in DirRecords /\ r.parent = dirs[d].parent
      BY <3>1 DEF DirRecords
    <3> HIDE DEF r
    <3> QED BY <3>1, <3>2, ParentsAfterSave
  <2>9. \/ UNCHANGED dirs
        \/ \E d \in AllDirs :
             \/ \E p \in AllDirs, name \in Names : DirectoryCreate(d, p, name)
             \/ DirectoryDelete(d)
             \/ \E name \in Names : DirectoryRename(d, name)
             \/ \E p \in AllDirs : DirectoryMove(d, p)
             \/ \E policy \in Policies \union {None} : DirectoryChangeReplicationPolicy(d, policy)
             \/ \E c \in Colls : DirectoryChangeDescription(d, c)
    BY DEF DirectoriesNext, directoryVars, recordVars, CollectionCreate, CreateSpins, CollectionMove,
           CollectionDelete, CollectionRename, CollectionPullMetadata, DiscoverPolicies
  <2> QED BY <2>1, <2>2, <2>3, <2>4, <2>5, <2>6, <2>7, <2>8, <2>9
<1> QED BY <1>1, DirectoriesInvariant, PTL DEF DirectoriesSpec, NothingOrphaned

\* In every tree that can come about, with circles beside it or not, the policy
\* the walk down gives a collection is the one the walk up finds for it.
THEOREM PoliciesAgree == DirectoriesSpec => PoliciesReconciled
<1>1. DirectoriesInv /\ DiscoverPolicies
        => \A c \in LiveColls :
             Root \in Ancestors(colls[c].dir) => colls'[c].policy = EffectivePolicy(colls[c].dir)
  <2> SUFFICES ASSUME DirectoriesInv, DiscoverPolicies, NEW c \in LiveColls, Root \in Ancestors(colls[c].dir)
               PROVE  colls'[c].policy = EffectivePolicy(colls[c].dir)
    OBVIOUS
  <2> DEFINE d == colls[c].dir
             C == {b \in LiveColls : colls[b].dir \in Below}
             r == [b \in C |-> [colls[b] EXCEPT !.policy = HandedDown[colls[b].dir]]]
  <2>1. c \in Colls /\ colls[c] \in CollRecords /\ d \in AllDirs
    BY LiveRecords
  <2>2. c \in C
    BY <2>1, UnderRootIsBelow
  <2>3. SaveColls(C, r) /\ HandedDown[d] = Found(d) /\ Found(d) \in Policies
    BY <2>2, Discovered
  <2>4. colls'[c] = [colls[c] EXCEPT !.policy = HandedDown[d]]
    BY <2>1, <2>2, <2>3 DEF SaveColls
  <2>5. Found(d) # None
    BY <2>3, Identifiers
  <2>6. Found(d) = EffectivePolicy(d)
    BY <2>5 DEF Found
  <2> QED BY <2>1, <2>3, <2>4, <2>6 DEF CollRecords
<1> QED BY <1>1, DirectoriesInvariant, PTL DEF DirectoriesSpec, PoliciesReconciled
=============================================================================
