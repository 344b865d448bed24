-------------------------- MODULE Collections_proofs --------------------------
(***************************************************************************)
(* Proofs about Collections, for any collections, files, blobs and keys    *)
(* and without a bound on changesets; and that Collections implements      *)
(* VersionedTrees.                                                         *)
(***************************************************************************)
EXTENDS Collections, SequenceTheorems, WellFoundedInduction, TLAPS

-----------------------------------------------------------------------------
\* What a history resolves to, and the invariant.

(***************************************************************************)
(* What histories resolve to.  ComputeStateAt is recursive; along a chain  *)
(* it computes one tree after the other.                                   *)
(***************************************************************************)
Chain(h) ==
  /\ h \in Seq(Changeset)
  /\ \A i, j \in 1 .. Len(h) : h[i].id = h[j].id => i = j
  /\ \A i \in 1 .. Len(h) : h[i].parent = IF i = 1 THEN NoParentID ELSE h[i - 1].id

\* The id of the k-th revision, the 0th being the empty one.
Rev(h, k) == IF k = 0 THEN NoParentID ELSE h[k].id

\* t[k] is the tree of the k-th revision, up to the n-th.
Trees(h, n, t) ==
  /\ t \in [0 .. n -> Tree]
  /\ t[0] = NoFiles
  /\ \A k \in 1 .. n : t[k] = Applied(h[k], t[k - 1])

Resolves(f, h) ==
  f = [i \in IDs(h) \cup {NoParentID} |->
         IF i = NoParentID THEN NoFiles
         ELSE LET ch == findChangesetByID(h, i) IN Applied(ch, f[ch.parent])]

LEMMA StateAtResolves ==
  ASSUME NEW h, NEW id
  PROVE  StateAt(h, id) = (CHOOSE f : Resolves(f, h))[id]
BY DEF StateAt, Resolves

\* A set of numbers that is not empty has a least member.
LEMMA Least ==
  ASSUME NEW S \in SUBSET Nat, S # {}
  PROVE  \E n \in S : \A m \in S : n <= m
<1>1. PICK n \in S : \A m \in S : ~(<<m, n>> \in OpToRel(<, Nat))
  BY NatLessThanWellFounded, WFMin
<1>2. \A m \in S : ~(m < n)
  BY <1>1 DEF OpToRel
<1>3. QED
  BY <1>2

LEMMA AppliedType ==
  ASSUME NEW ch \in Changeset, NEW tree \in Tree
  PROVE  Applied(ch, tree) \in Tree
BY DEF Applied, Changeset, Tree

LEMMA NoFilesType == NoFiles \in Tree
BY DEF NoFiles, Tree

LEMMA ChainFacts ==
  ASSUME NEW h, Chain(h)
  PROVE  /\ Len(h) \in Nat
         /\ \A k \in 1 .. Len(h) : h[k] \in Changeset /\ h[k].id \in ChangesetIDs
         /\ \A k \in 1 .. Len(h) : h[k].id # NoParentID /\ h[k].parent = Rev(h, k - 1)
         /\ IDs(h) = {h[k].id : k \in 1 .. Len(h)}
         /\ \A k \in 1 .. Len(h) : findChangesetByID(h, h[k].id) = h[k]
<1>1. Len(h) \in Nat /\ DOMAIN h = 1 .. Len(h) /\ \A k \in 1 .. Len(h) : h[k] \in Changeset
  BY LenProperties, ElementOfSeq DEF Chain
<1>2. \A k \in 1 .. Len(h) : h[k].id \in ChangesetIDs /\ h[k].id # NoParentID
  BY <1>1, NoParentAssumption DEF Changeset
<1>3. \A k \in 1 .. Len(h) : h[k].parent = Rev(h, k - 1)
  BY <1>1 DEF Chain, Rev
<1>4. ASSUME NEW k \in 1 .. Len(h)
      PROVE  findChangesetByID(h, h[k].id) = h[k]
  <2> DEFINE P(i) == h[i].id = h[k].id /\ \A j \in 1 .. i - 1 : h[j].id # h[k].id
  <2>1. P(k)
    BY <1>1, <1>4 DEF Chain
  <2>2. \A i \in DOMAIN h : P(i) => i = k
    BY <1>1, <1>4 DEF Chain
  <2>3. (CHOOSE i \in DOMAIN h : P(i)) = k
    <3> HIDE DEF P
    <3>1. QED
      BY <1>1, <1>4, <2>1, <2>2
  <2>4. QED
    BY <2>3 DEF findChangesetByID
<1>5. QED
  BY <1>1, <1>2, <1>3, <1>4 DEF IDs

LEMMA TreesExist ==
  ASSUME NEW h, Chain(h)
  PROVE  \E t : Trees(h, Len(h), t)
<1> DEFINE Bad == {n \in 0 .. Len(h) : ~\E t : Trees(h, n, t)}
<1>0. Len(h) \in Nat /\ \A k \in 1 .. Len(h) : h[k] \in Changeset
  BY ChainFacts
<1>1. SUFFICES Bad = {}
  BY <1>0
<1>2. SUFFICES ASSUME Bad # {} PROVE FALSE
  OBVIOUS
<1>3. Bad \in SUBSET Nat
  BY <1>0
<1>4. PICK n \in Bad : \A m \in Bad : n <= m
  BY <1>2, <1>3, Least
<1>5. n \in 0 .. Len(h) /\ ~\E t : Trees(h, n, t)
  BY <1>4
<1>6. CASE n = 0
  <2>1. Trees(h, 0, [k \in 0 .. 0 |-> NoFiles])
    BY NoFilesType DEF Trees
  <2>2. QED
    BY <1>5, <1>6, <2>1
<1>7. CASE n # 0
  <2>1. n - 1 \in 0 .. Len(h) /\ n - 1 \notin Bad
    BY <1>0, <1>4, <1>5, <1>7
  <2>2. PICK t : Trees(h, n - 1, t)
    BY <2>1
  <2> DEFINE u == [k \in 0 .. n |-> IF k = n THEN Applied(h[n], t[n - 1]) ELSE t[k]]
  <2>3. n \in 1 .. Len(h) /\ n - 1 \in 0 .. n - 1 /\ t[n - 1] \in Tree
    BY <1>0, <1>5, <1>7, <2>2 DEF Trees
  <2>4. Applied(h[n], t[n - 1]) \in Tree
    BY <1>0, <2>3, AppliedType
  <2>5. u \in [0 .. n -> Tree]
    BY <2>2, <2>3, <2>4 DEF Trees
  <2>6. u[0] = NoFiles
    BY <2>2, <2>3 DEF Trees
  <2>7. \A k \in 1 .. n : u[k] = Applied(h[k], u[k - 1])
    BY <2>2, <2>3 DEF Trees
  <2>8. Trees(h, n, u)
    BY <2>5, <2>6, <2>7 DEF Trees
  <2>9. QED
    BY <1>5, <2>8
<1>8. QED
  BY <1>6, <1>7

\* There is a function as the recursion describes it, and it gives the trees.
LEMMA ResolutionExists ==
  ASSUME NEW h, Chain(h), NEW t, Trees(h, Len(h), t)
  PROVE  \E f : Resolves(f, h)
<1> DEFINE S == IDs(h) \cup {NoParentID}
           Pos(i) == CHOOSE k \in 0 .. Len(h) : Rev(h, k) = i
           f == [i \in S |-> t[Pos(i)]]
<1>1. Len(h) \in Nat
  BY ChainFacts
<1>2. \A k \in 0 .. Len(h) : Pos(Rev(h, k)) = k
  <2>1. \A k, m \in 0 .. Len(h) : Rev(h, k) = Rev(h, m) => k = m
    BY <1>1, ChainFacts DEF Chain, Rev
  <2>2. QED
    BY <2>1
<1>3. \A i \in S : \E k \in 0 .. Len(h) : i = Rev(h, k)
  BY <1>1, ChainFacts DEF Rev
<1>4. \A k \in 0 .. Len(h) : Rev(h, k) \in S
  BY <1>1, ChainFacts DEF Rev
<1>5. \A k \in 0 .. Len(h) : f[Rev(h, k)] = t[k]
  BY <1>2, <1>4
<1> HIDE DEF f
<1>6. ASSUME NEW i \in S
      PROVE  f[i] = IF i = NoParentID THEN NoFiles
                    ELSE LET ch == findChangesetByID(h, i) IN Applied(ch, f[ch.parent])
  <2>1. PICK k \in 0 .. Len(h) : i = Rev(h, k)
    BY <1>3, <1>6
  <2>2. CASE k = 0
    BY <1>5, <2>1, <2>2 DEF Rev, Trees
  <2>3. CASE k # 0
    <3>1. k \in 1 .. Len(h) /\ k - 1 \in 0 .. Len(h) /\ i = h[k].id
      BY <1>1, <2>1, <2>3 DEF Rev
    <3>2. i # NoParentID /\ findChangesetByID(h, i) = h[k] /\ h[k].parent = Rev(h, k - 1)
      BY <3>1, ChainFacts
    <3>3. f[i] = t[k] /\ f[h[k].parent] = t[k - 1]
      BY <1>5, <2>1, <3>1, <3>2
    <3>4. t[k] = Applied(h[k], t[k - 1])
      BY <3>1 DEF Trees
    <3>5. QED
      BY <3>2, <3>3, <3>4
  <2>4. QED
    BY <2>2, <2>3
<1>7. f = [i \in S |-> f[i]]
  BY DEF f
<1>8. Resolves(f, h)
  BY <1>6, <1>7 DEF Resolves
<1>9. QED
  BY <1>8

\* ComputeStateAt of the k-th revision.
LEMMA StateAtIsTree ==
  ASSUME NEW h, Chain(h), NEW t, Trees(h, Len(h), t), NEW k \in 0 .. Len(h)
  PROVE  StateAt(h, Rev(h, k)) = t[k]
<1> DEFINE f == CHOOSE g : Resolves(g, h)
           Bad == {n \in 0 .. Len(h) : f[Rev(h, n)] # t[n]}
<1>1. Resolves(f, h)
  BY ResolutionExists
<1>2. StateAt(h, Rev(h, k)) = f[Rev(h, k)]
  BY StateAtResolves
<1> HIDE DEF f
<1>3. Len(h) \in Nat
  BY ChainFacts
<1>4. SUFFICES ASSUME Bad # {} PROVE FALSE
  BY <1>2
<1>5. Bad \in SUBSET Nat
  BY <1>3
<1>6. PICK n \in Bad : \A m \in Bad : n <= m
  BY <1>4, <1>5, Least
<1>7. n \in 0 .. Len(h) /\ f[Rev(h, n)] # t[n]
  BY <1>6
<1>8. CASE n = 0
  <2>1. f[NoParentID] = NoFiles
    BY <1>1 DEF Resolves
  <2>2. QED
    BY <1>7, <1>8, <2>1 DEF Rev, Trees
<1>9. CASE n # 0
  <2>1. n \in 1 .. Len(h) /\ n - 1 \in 0 .. Len(h) /\ n - 1 \notin Bad
    BY <1>3, <1>6, <1>7, <1>9
  <2>2. f[Rev(h, n - 1)] = t[n - 1]
    BY <2>1
  <2>3. /\ Rev(h, n) = h[n].id
        /\ h[n].id \in IDs(h)
        /\ h[n].id # NoParentID
        /\ findChangesetByID(h, h[n].id) = h[n]
        /\ h[n].parent = Rev(h, n - 1)
    BY <1>9, <2>1, ChainFacts DEF Rev
  <2>4. f[h[n].id] = Applied(h[n], f[h[n].parent])
    BY <1>1, <2>3 DEF Resolves
  <2>5. t[n] = Applied(h[n], t[n - 1])
    BY <2>1 DEF Trees
  <2>6. QED
    BY <1>7, <2>2, <2>3, <2>4, <2>5
<1>10. QED
  BY <1>8, <1>9

Latest(h) == Rev(h, Len(h))

LEMMA StateAtType ==
  ASSUME NEW h, Chain(h), NEW k \in 0 .. Len(h)
  PROVE  StateAt(h, Rev(h, k)) \in Tree
<1>1. PICK t : Trees(h, Len(h), t)
  BY TreesExist
<1>2. QED
  BY <1>1, StateAtIsTree DEF Trees

LEMMA AppendChain ==
  ASSUME NEW h, Chain(h), NEW ch \in Changeset, ch.id \notin IDs(h), ch.parent = Latest(h)
  PROVE  /\ Chain(Append(h, ch))
         /\ Len(Append(h, ch)) = Len(h) + 1
         /\ Latest(Append(h, ch)) = ch.id
         /\ \A k \in 0 .. Len(h) : Rev(Append(h, ch), k) = Rev(h, k)
<1> DEFINE g == Append(h, ch)
<1>0. Len(h) \in Nat /\ h \in Seq(Changeset)
  BY ChainFacts DEF Chain
<1>1. /\ g \in Seq(Changeset)
      /\ Len(g) = Len(h) + 1
      /\ \A i \in 1 .. Len(h) : g[i] = h[i]
      /\ g[Len(h) + 1] = ch
  BY <1>0, AppendProperties
<1> HIDE DEF g
<1>2. \A i \in 1 .. Len(h) : ch.id # h[i].id
  BY ChainFacts
<1>3. \A i, j \in 1 .. Len(g) : g[i].id = g[j].id => i = j
  <2> SUFFICES ASSUME NEW i \in 1 .. Len(g), NEW j \in 1 .. Len(g), g[i].id = g[j].id
               PROVE  i = j
    OBVIOUS
  <2>1. CASE i \in 1 .. Len(h) /\ j \in 1 .. Len(h)
    BY <1>1, <2>1 DEF Chain
  <2>2. CASE ~(i \in 1 .. Len(h) /\ j \in 1 .. Len(h))
    BY <1>0, <1>1, <1>2, <2>2
  <2>3. QED
    BY <2>1, <2>2
<1>4. \A i \in 1 .. Len(g) : g[i].parent = IF i = 1 THEN NoParentID ELSE g[i - 1].id
  <2> SUFFICES ASSUME NEW i \in 1 .. Len(g)
               PROVE  g[i].parent = IF i = 1 THEN NoParentID ELSE g[i - 1].id
    OBVIOUS
  <2>1. CASE i \in 1 .. Len(h)
    <3>1. i # 1 => i - 1 \in 1 .. Len(h)
      BY <1>0, <2>1
    <3>2. QED
      BY <1>1, <2>1, <3>1 DEF Chain
  <2>2. CASE i = Len(h) + 1
    <3>1. g[i].parent = Rev(h, Len(h))
      BY <1>1, <2>2 DEF Latest
    <3>2. Len(h) # 0 => Len(h) \in 1 .. Len(h)
      BY <1>0
    <3>3. QED
      BY <1>0, <1>1, <2>2, <3>1, <3>2 DEF Rev
  <2>3. QED
    BY <1>0, <1>1, <2>1, <2>2
<1>5. Chain(g)
  BY <1>1, <1>3, <1>4 DEF Chain
<1>6. Latest(g) = ch.id
  BY <1>0, <1>1 DEF Latest, Rev
<1>7. \A k \in 0 .. Len(h) : Rev(g, k) = Rev(h, k)
  BY <1>0, <1>1 DEF Rev
<1>8. QED
  BY <1>1, <1>5, <1>6, <1>7 DEF g

\* Adding a changeset leaves past revisions as they were, and the new one is
\* what the changeset makes of the last.
LEMMA AppendResolves ==
  ASSUME NEW h, Chain(h), NEW ch \in Changeset, ch.id \notin IDs(h), ch.parent = Latest(h)
  PROVE  /\ \A k \in 0 .. Len(h) : StateAt(Append(h, ch), Rev(h, k)) = StateAt(h, Rev(h, k))
         /\ StateAt(Append(h, ch), ch.id) = Applied(ch, StateAt(h, Latest(h)))
<1> DEFINE g == Append(h, ch)
           n == Len(h)
<1>0. n \in Nat /\ h \in Seq(Changeset)
  BY ChainFacts DEF Chain
<1>1. Chain(g) /\ Len(g) = n + 1 /\ Latest(g) = ch.id /\ \A k \in 0 .. n : Rev(g, k) = Rev(h, k)
  BY AppendChain
<1>2. g[n + 1] = ch /\ \A k \in 1 .. n : g[k] = h[k]
  BY <1>0, AppendProperties
<1> HIDE DEF g
<1>3. PICK t : Trees(g, n + 1, t)
  BY <1>1, TreesExist
<1> DEFINE u == [k \in 0 .. n |-> t[k]]
<1>4. Trees(h, n, u)
  <2>1. u \in [0 .. n -> Tree] /\ u[0] = NoFiles
    BY <1>0, <1>3 DEF Trees
  <2>2. ASSUME NEW k \in 1 .. n
        PROVE  u[k] = Applied(h[k], u[k - 1])
    <3>1. k \in 1 .. n + 1 /\ k - 1 \in 0 .. n /\ k \in 0 .. n
      BY <1>0
    <3>2. t[k] = Applied(g[k], t[k - 1])
      BY <1>3, <3>1 DEF Trees
    <3>3. QED
      BY <1>2, <3>1, <3>2
  <2>3. QED
    BY <2>1, <2>2 DEF Trees
<1>5. \A k \in 0 .. n : StateAt(h, Rev(h, k)) = t[k]
  BY <1>4, StateAtIsTree
<1>6. \A k \in 0 .. n + 1 : StateAt(g, Rev(g, k)) = t[k]
  BY <1>1, <1>3, StateAtIsTree
<1>7. StateAt(g, ch.id) = t[n + 1] /\ StateAt(h, Latest(h)) = t[n]
  <2>1. n + 1 \in 0 .. n + 1 /\ n \in 0 .. n
    BY <1>0
  <2>2. QED
    BY <1>1, <1>5, <1>6, <2>1 DEF Latest
<1>8. t[n + 1] = Applied(ch, t[n])
  BY <1>0, <1>2, <1>3 DEF Trees
<1>9. \A k \in 0 .. n : k \in 0 .. n + 1
  BY <1>0
<1>10. QED
  BY <1>1, <1>5, <1>6, <1>7, <1>8, <1>9 DEF g

(***************************************************************************)
(* The inductive invariant.                                                *)
(***************************************************************************)
\* Envelopes are sealed for KEKs the server has; the own one is always there.
Sealed ==
  /\ \A c, d \in Colls : envelopes[c][d] \subseteq keyStore
  /\ \A c \in live : envelopes[c][c] # {}

\* Only blobs that have no row are being uploaded.
UploadsNew == \A b \in Blobs : uploading[b] # None => dekOf[b] = None

\* The blobs of this changeset have rows, and keys in the collection.
KeysKnown(c, ch) ==
  \A x \in Written(ch) : \A b \in BlobRefs[x] :
    dekOf[b] # None /\ envelopes[c][dekOf[b]] # {}

AllKeysKnown ==
  \A c \in Colls : \A i \in 1 .. Len(history[c]) : KeysKnown(c, history[c][i])

HistoriesChain ==
  \A c \in Colls : Chain(history[c]) /\ head[c] = Latest(history[c])

CollInv == TypeOK /\ HistoriesChain /\ Sealed /\ UploadsNew /\ AllKeysKnown

LEMMA HistoryFacts ==
  ASSUME TypeOK, NEW c \in Colls
  PROVE  /\ history[c] \in Seq(Changeset)
         /\ DOMAIN history[c] = 1 .. Len(history[c])
         /\ Len(history[c]) \in Nat
         /\ history[c] = <<>> <=> Len(history[c]) = 0
         /\ \A i \in 1 .. Len(history[c]) : history[c][i] \in Changeset
BY EmptySeq, LenProperties, ElementOfSeq DEF TypeOK

LEMMA ChainsAreChains ==
  ASSUME TypeOK, HistoriesChain
  PROVE  HistoryIsChain
<1> SUFFICES ASSUME NEW c \in Colls
             PROVE  LET h == history[c]
                    IN  /\ \A i, j \in DOMAIN h : h[i].id = h[j].id => i = j
                        /\ \A i \in DOMAIN h :
                             h[i].parent = IF i = 1 THEN NoParentID ELSE h[i - 1].id
                        /\ head[c] = IF h = <<>> THEN NoParentID ELSE h[Len(h)].id
  BY DEF HistoryIsChain
<1>1. /\ DOMAIN history[c] = 1 .. Len(history[c])
      /\ history[c] = <<>> <=> Len(history[c]) = 0
  BY HistoryFacts
<1>2. Chain(history[c]) /\ head[c] = Rev(history[c], Len(history[c]))
  BY DEF HistoriesChain, Latest
<1>3. QED
  BY <1>1, <1>2 DEF Chain, Rev

LEMMA KnownKeysFollow ==
  ASSUME TypeOK, Sealed, AllKeysKnown
  PROVE  KeysFollowBlobs
<1> SUFFICES ASSUME NEW c \in live, NEW i \in DOMAIN history[c],
                    NEW x \in Written(history[c][i]), NEW b \in BlobRefs[x]
             PROVE  dekOf[b] # None /\ Opens(envelopes[c][dekOf[b]])
  BY DEF KeysFollowBlobs
<1>1. c \in Colls /\ i \in 1 .. Len(history[c])
  BY HistoryFacts DEF TypeOK
<1>2. history[c][i] \in Changeset
  BY <1>1, HistoryFacts
<1>3. x \in Contents /\ b \in Blobs
  BY <1>2, BlobRefsAssumption DEF Written, Files, Changeset, Tree
<1>4. dekOf[b] # None /\ envelopes[c][dekOf[b]] # {}
  BY <1>1 DEF AllKeysKnown, KeysKnown
<1>5. dekOf[b] \in Colls
  BY <1>3, <1>4 DEF TypeOK
<1>6. QED
  BY <1>1, <1>4, <1>5 DEF Sealed, Opens

LEMMA HeadState ==
  ASSUME HistoriesChain, NEW c \in Colls
  PROVE  StateAtHead(c) \in Tree
<1>1. Len(history[c]) \in 0 .. Len(history[c])
  BY ChainFacts DEF HistoriesChain
<1>2. QED
  BY <1>1, StateAtType DEF HistoriesChain, StateAtHead, Latest

LEMMA WrittenType ==
  ASSUME NEW ch \in Changeset
  PROVE  Written(ch) \subseteq Contents
BY DEF Written, Files, Changeset, Tree

LEMMA DiffType ==
  ASSUME NEW before, NEW after \in Tree, NEW id \in ChangesetIDs,
         NEW parent \in ChangesetIDs \cup {NoParentID}
  PROVE  NewChangeset(id, parent, Diff(before, after)) \in Changeset
BY DEF NewChangeset, Diff, Changeset, Tree, Files

\* What copying the missing keys of some contents to c achieves.
LEMMA KeysCopied ==
  ASSUME TypeOK, Sealed, NEW c \in Colls, NEW contents \in SUBSET Contents,
         NEW recipients \in SUBSET Keks,
         BlobsExist(contents),
         CanCopy(MissingDeks(c, contents), recipients),
         envelopes' = WithEnvelopes(c, MissingDeks(c, contents), recipients)
  PROVE  /\ envelopes' \in [Colls -> [Colls -> SUBSET Keks]]
         /\ \A e \in Colls \ {c} : envelopes'[e] = envelopes[e]
         /\ \A d \in Colls : envelopes'[c][d] \subseteq keyStore
         /\ \A d \in Colls : envelopes[c][d] # {} => envelopes'[c][d] # {}
         /\ \A x \in contents : \A b \in BlobRefs[x] :
              dekOf[b] \in Colls /\ dekOf[b] # None /\ envelopes'[c][dekOf[b]] # {}
<1> DEFINE deks == MissingDeks(c, contents)
<1>1. envelopes \in [Colls -> [Colls -> SUBSET Keks]]
  BY DEF TypeOK
<1>2. deks # {} => recipients # {} /\ recipients \subseteq keyStore
  BY DEF CanCopy, Seals
<1> HIDE DEF deks
<1>3. envelopes' = [envelopes EXCEPT ![c] =
                      [d \in Colls |-> IF d \in deks THEN recipients ELSE envelopes[c][d]]]
  BY DEF WithEnvelopes, deks
<1>4. \A d \in Colls : envelopes'[c][d] = IF d \in deks THEN recipients ELSE envelopes[c][d]
  BY <1>1, <1>3
<1>5. \A e \in Colls \ {c} : envelopes'[e] = envelopes[e]
  BY <1>1, <1>3
<1>6. \A d \in Colls : envelopes'[c][d] \subseteq keyStore
  BY <1>2, <1>4 DEF Sealed
<1>7. \A d \in Colls : envelopes[c][d] # {} => envelopes'[c][d] # {}
  BY <1>2, <1>4
<1>8. ASSUME NEW x \in contents, NEW b \in BlobRefs[x]
      PROVE  dekOf[b] \in Colls /\ dekOf[b] # None /\ envelopes'[c][dekOf[b]] # {}
  <2>1. dekOf[b] \in DeksOf(contents)
    BY <1>8 DEF DeksOf
  <2>2. dekOf[b] # None
    BY <2>1 DEF BlobsExist
  <2>3. b \in Blobs
    BY <1>8, BlobRefsAssumption
  <2>4. dekOf[b] \in Colls
    BY <2>2, <2>3 DEF TypeOK
  <2>5. dekOf[b] \notin deks => envelopes[c][dekOf[b]] # {}
    BY <2>1 DEF MissingDeks, deks
  <2>6. QED
    BY <1>2, <1>4, <2>2, <2>4, <2>5
<1>9. envelopes' \in [Colls -> [Colls -> SUBSET Keks]]
  BY <1>1, <1>3
<1>10. QED
  BY <1>5, <1>6, <1>7, <1>8, <1>9

\* What it means for one collection to get a changeset whose keys are known.
LEMMA ChangesetAdded ==
  ASSUME CollInv, NEW c \in live, NEW ch \in Changeset,
         ch.id \notin IDs(history[c]), ch.parent = head[c],
         history'[c] = Append(history[c], ch), head'[c] = ch.id,
         dekOf' = dekOf,
         \A d \in Colls : envelopes[c][d] # {} => envelopes'[c][d] # {},
         \A x \in Written(ch) : \A b \in BlobRefs[x] :
           dekOf[b] # None /\ envelopes'[c][dekOf[b]] # {}
  PROVE  /\ history'[c] \in Seq(Changeset)
         /\ Chain(history'[c]) /\ head'[c] = Latest(history'[c])
         /\ \A i \in 1 .. Len(history'[c]) : KeysKnown(c, history[c][i])'
<1> DEFINE h == history[c]
<1>1. c \in Colls
  BY DEF CollInv, TypeOK
<1>2. Chain(h) /\ head[c] = Latest(h) /\ h \in Seq(Changeset) /\ Len(h) \in Nat
  BY <1>1, HistoryFacts DEF CollInv, HistoriesChain
<1>3. Chain(Append(h, ch)) /\ Latest(Append(h, ch)) = ch.id
  BY <1>2, AppendChain
<1>4. /\ Len(history'[c]) = Len(h) + 1
      /\ \A i \in 1 .. Len(h) : history'[c][i] = h[i]
      /\ history'[c][Len(h) + 1] = ch
      /\ history'[c] \in Seq(Changeset)
  BY <1>2, AppendProperties
<1>5. ASSUME NEW i \in 1 .. Len(h), NEW x \in Written(h[i]), NEW b \in BlobRefs[x]
      PROVE  dekOf[b] # None /\ envelopes'[c][dekOf[b]] # {}
  <2>1. dekOf[b] # None /\ envelopes[c][dekOf[b]] # {}
    BY <1>1, <1>5 DEF CollInv, AllKeysKnown, KeysKnown
  <2>2. x \in Contents
    BY <1>1, <1>5, HistoryFacts, WrittenType DEF CollInv
  <2>3. dekOf[b] \in Colls
    BY <2>1, <2>2, BlobRefsAssumption DEF CollInv, TypeOK
  <2>4. QED
    BY <2>1, <2>3
<1>6. ASSUME NEW i \in 1 .. Len(history'[c]), NEW x \in Written(history'[c][i]),
             NEW b \in BlobRefs[x]
      PROVE  dekOf'[b] # None /\ envelopes'[c][dekOf'[b]] # {}
  <2>1. CASE i \in 1 .. Len(h)
    BY <1>4, <1>5, <1>6, <2>1
  <2>2. CASE i = Len(h) + 1
    BY <1>4, <1>6, <2>2
  <2>3. QED
    BY <1>2, <1>4, <1>6, <2>1, <2>2
<1>7. \A i \in 1 .. Len(history'[c]) : KeysKnown(c, history[c][i])'
  BY <1>6 DEF KeysKnown, Written
<1>8. QED
  BY <1>3, <1>4, <1>7

\* Invariants of a collection that is left alone.
LEMMA LeftAlone ==
  ASSUME CollInv, NEW c \in Colls, history'[c] = history[c], head'[c] = head[c],
         envelopes'[c] = envelopes[c],
         \A b \in Blobs : dekOf[b] # None => dekOf'[b] = dekOf[b]
  PROVE  /\ Chain(history'[c]) /\ head'[c] = Latest(history'[c])
         /\ \A i \in 1 .. Len(history'[c]) : KeysKnown(c, history[c][i])'
<1>1. Chain(history'[c]) /\ head'[c] = Latest(history'[c])
  BY DEF CollInv, HistoriesChain
<1>2. ASSUME NEW i \in 1 .. Len(history'[c]), NEW x \in Written(history'[c][i]),
             NEW b \in BlobRefs[x]
      PROVE  dekOf'[b] # None /\ envelopes'[c][dekOf'[b]] # {}
  <2>1. i \in 1 .. Len(history[c]) /\ x \in Written(history[c][i])
    BY <1>2
  <2>2. dekOf[b] # None /\ envelopes[c][dekOf[b]] # {}
    BY <1>2, <2>1 DEF CollInv, AllKeysKnown, KeysKnown
  <2>3. b \in Blobs
    BY <1>2, <2>1, HistoryFacts, WrittenType, BlobRefsAssumption DEF CollInv
  <2>4. QED
    BY <2>2, <2>3
<1>3. QED
  BY <1>1, <1>2 DEF KeysKnown, Written

(***************************************************************************)
(* Each action preserves the invariant.                                    *)
(***************************************************************************)
LEMMA CommitKeeps ==
  ASSUME CollInv, NEW c \in live, NEW ch \in Changeset, CommitChangeset(c, ch)
  PROVE  CollInv'
<1> DEFINE missing == MissingDeks(c, Written(ch))
           recipients == envelopes[c][c]
<1>1. TypeOK /\ Sealed /\ c \in Colls
  BY DEF CollInv, TypeOK
<1>2. /\ ch.id \notin IDs(history[c])
      /\ ch.parent = head[c]
      /\ BlobsExist(Written(ch))
      /\ CanCopy(missing, recipients)
      /\ history' = [history EXCEPT ![c] = Append(@, ch)]
      /\ head' = [head EXCEPT ![c] = ch.id]
      /\ envelopes' = WithEnvelopes(c, missing, recipients)
      /\ UNCHANGED <<live, gone, keyVars, blobVars>>
  BY DEF CommitChangeset, TargetsHead, Appended
<1>3. recipients \in SUBSET Keks
  BY <1>1 DEF TypeOK
<1>4. /\ envelopes' \in [Colls -> [Colls -> SUBSET Keks]]
      /\ \A e \in Colls \ {c} : envelopes'[e] = envelopes[e]
      /\ \A d \in Colls : envelopes'[c][d] \subseteq keyStore
      /\ \A d \in Colls : envelopes[c][d] # {} => envelopes'[c][d] # {}
      /\ \A x \in Written(ch) : \A b \in BlobRefs[x] :
           dekOf[b] \in Colls /\ dekOf[b] # None /\ envelopes'[c][dekOf[b]] # {}
  BY <1>1, <1>2, <1>3, WrittenType, KeysCopied
<1> HIDE DEF missing, recipients
<1>5. /\ history'[c] = Append(history[c], ch)
      /\ head'[c] = ch.id
      /\ \A e \in Colls \ {c} : history'[e] = history[e] /\ head'[e] = head[e]
      /\ dekOf' = dekOf
  BY <1>1, <1>2 DEF TypeOK, blobVars
<1>6. /\ history'[c] \in Seq(Changeset)
      /\ Chain(history'[c]) /\ head'[c] = Latest(history'[c])
      /\ \A i \in 1 .. Len(history'[c]) : KeysKnown(c, history[c][i])'
  <2>1. \A x \in Written(ch) : \A b \in BlobRefs[x] :
          dekOf[b] # None /\ envelopes'[c][dekOf[b]] # {}
    BY <1>4
  <2>2. \A d \in Colls : envelopes[c][d] # {} => envelopes'[c][d] # {}
    BY <1>4
  <2>3. QED
    BY <1>2, <1>5, <2>1, <2>2, ChangesetAdded
<1>7. ASSUME NEW e \in Colls \ {c}
      PROVE  /\ Chain(history'[e]) /\ head'[e] = Latest(history'[e])
             /\ \A i \in 1 .. Len(history'[e]) : KeysKnown(e, history[e][i])'
  BY <1>4, <1>5, LeftAlone
<1>8. HistoriesChain' /\ AllKeysKnown'
  BY <1>6, <1>7 DEF HistoriesChain, AllKeysKnown
<1>9. TypeOK'
  <2>1. history' \in [Colls -> Seq(Changeset)]
    BY <1>1, <1>2, <1>5, <1>6 DEF TypeOK
  <2>2. head' \in [Colls -> ChangesetIDs \cup {NoParentID}]
    BY <1>1, <1>2 DEF TypeOK, Changeset
  <2>3. QED
    BY <1>1, <1>2, <1>4, <1>5, <2>1, <2>2 DEF TypeOK, keyVars, blobVars
<1>10. Sealed'
  BY <1>1, <1>2, <1>4 DEF Sealed, keyVars, TypeOK
<1>11. UploadsNew'
  BY <1>2 DEF CollInv, UploadsNew, blobVars
<1>12. QED
  BY <1>8, <1>9, <1>10, <1>11 DEF CollInv

LEMMA DeleteFilesKeeps ==
  ASSUME CollInv, NEW c \in live, NEW files \in SUBSET Paths, NEW id \in ChangesetIDs,
         CollectionDeleteFiles(c, files, id)
  PROVE  CollInv'
<1> DEFINE ch == [id |-> id, parent |-> head[c], created |-> NoFiles, updated |-> NoFiles,
                  deleted |-> WithRelated(files, StateAtHead(c))]
<1>1. TypeOK /\ c \in Colls
  BY DEF CollInv, TypeOK
<1>2. ch \in Changeset
  BY <1>1, NoFilesType DEF Changeset, WithRelated, Related, Files, TypeOK
<1>3. Written(ch) = {}
  BY DEF Written, Files, NoFiles
<1>4. /\ ch.id = id /\ ch.parent = head[c]
      /\ ch.id \notin IDs(history[c])
      /\ history' = [history EXCEPT ![c] = Append(@, ch)]
      /\ head' = [head EXCEPT ![c] = id]
      /\ UNCHANGED <<live, gone, envelopes, keyVars, blobVars>>
  BY <1>1 DEF CollectionDeleteFiles, Appended, Fresh
<1> HIDE DEF ch
<1>5. /\ history'[c] = Append(history[c], ch)
      /\ head'[c] = ch.id
      /\ \A e \in Colls \ {c} : history'[e] = history[e] /\ head'[e] = head[e]
      /\ dekOf' = dekOf
      /\ envelopes' = envelopes
  BY <1>1, <1>4 DEF TypeOK, blobVars
<1>6. /\ history'[c] \in Seq(Changeset)
      /\ Chain(history'[c]) /\ head'[c] = Latest(history'[c])
      /\ \A i \in 1 .. Len(history'[c]) : KeysKnown(c, history[c][i])'
  BY <1>2, <1>3, <1>4, <1>5, ChangesetAdded
<1>7. ASSUME NEW e \in Colls \ {c}
      PROVE  /\ Chain(history'[e]) /\ head'[e] = Latest(history'[e])
             /\ \A i \in 1 .. Len(history'[e]) : KeysKnown(e, history[e][i])'
  BY <1>5, LeftAlone
<1>8. HistoriesChain' /\ AllKeysKnown'
  BY <1>6, <1>7 DEF HistoriesChain, AllKeysKnown
<1>9. TypeOK'
  <2>1. history' \in [Colls -> Seq(Changeset)]
    BY <1>1, <1>4, <1>5, <1>6 DEF TypeOK
  <2>2. head' \in [Colls -> ChangesetIDs \cup {NoParentID}]
    BY <1>1, <1>4 DEF TypeOK
  <2>3. QED
    BY <1>1, <1>4, <1>5, <2>1, <2>2 DEF TypeOK, keyVars, blobVars
<1>10. Sealed' /\ UploadsNew'
  BY <1>4 DEF CollInv, Sealed, UploadsNew, keyVars, blobVars
<1>11. QED
  BY <1>8, <1>9, <1>10 DEF CollInv

LEMMA MoveKeeps ==
  ASSUME CollInv, NEW src \in live, NEW dst \in live, NEW files \in SUBSET Paths,
         NEW srcID \in ChangesetIDs, NEW dstID \in ChangesetIDs,
         CollectionMoveFilesIntoAnotherCollection(src, dst, files, srcID, dstID)
  PROVE  CollInv'
<1> DEFINE tree == StateAtHead(src)
           moved == WithRelated(files, tree)
           srcCh == [id |-> srcID, parent |-> head[src], created |-> NoFiles,
                     updated |-> NoFiles, deleted |-> moved]
           dstCh == [id |-> dstID, parent |-> head[dst], created |-> Only(moved, tree),
                     updated |-> NoFiles, deleted |-> {}]
           missing == MissingDeks(dst, Written(dstCh))
           recipients == envelopes[src][src]
<1>1. TypeOK /\ Sealed /\ HistoriesChain /\ src \in Colls /\ dst \in Colls
  BY DEF CollInv, TypeOK
<1>2. tree \in Tree
  BY <1>1, HeadState
<1>3. srcCh \in Changeset /\ dstCh \in Changeset
  <2> HIDE DEF tree
  <2>1. Only(moved, tree) \in Tree
    BY <1>2 DEF Only, Tree
  <2>2. head[src] \in ChangesetIDs \cup {NoParentID} /\ head[dst] \in ChangesetIDs \cup {NoParentID}
    BY <1>1 DEF TypeOK
  <2>3. moved \subseteq Paths
    BY DEF WithRelated, Related, Files
  <2>4. QED
    BY <2>1, <2>2, <2>3, NoFilesType DEF Changeset
<1>4. Written(srcCh) = {}
  BY DEF Written, Files, NoFiles
<1>5. /\ src # dst
      /\ BlobsExist(Written(dstCh))
      /\ CanCopy(missing, recipients)
      /\ srcID \notin IDs(history[src])
      /\ dstID \notin IDs(history[dst])
      /\ history' = [history EXCEPT ![src] = Append(@, srcCh), ![dst] = Append(@, dstCh)]
      /\ head' = [head EXCEPT ![src] = srcID, ![dst] = dstID]
      /\ envelopes' = WithEnvelopes(dst, missing, recipients)
      /\ UNCHANGED <<live, gone, keyVars, blobVars>>
  BY <1>1 DEF CollectionMoveFilesIntoAnotherCollection, Appended, Fresh
<1>6. /\ srcCh.id = srcID /\ srcCh.parent = head[src]
      /\ dstCh.id = dstID /\ dstCh.parent = head[dst]
  OBVIOUS
<1>7. recipients \in SUBSET Keks
  BY <1>1 DEF TypeOK
<1> HIDE DEF srcCh, dstCh, tree, moved, recipients
<1>8. /\ envelopes' \in [Colls -> [Colls -> SUBSET Keks]]
      /\ \A e \in Colls \ {dst} : envelopes'[e] = envelopes[e]
      /\ \A d \in Colls : envelopes'[dst][d] \subseteq keyStore
      /\ \A d \in Colls : envelopes[dst][d] # {} => envelopes'[dst][d] # {}
      /\ \A x \in Written(dstCh) : \A b \in BlobRefs[x] :
           dekOf[b] \in Colls /\ dekOf[b] # None /\ envelopes'[dst][dekOf[b]] # {}
  BY <1>1, <1>3, <1>5, <1>7, WrittenType, KeysCopied
<1> HIDE DEF missing
<1>9. /\ history'[src] = Append(history[src], srcCh) /\ head'[src] = srcCh.id
      /\ history'[dst] = Append(history[dst], dstCh) /\ head'[dst] = dstCh.id
      /\ \A e \in Colls \ {src, dst} : history'[e] = history[e] /\ head'[e] = head[e]
      /\ dekOf' = dekOf
  BY <1>1, <1>5, <1>6 DEF TypeOK, blobVars
<1>10. /\ history'[src] \in Seq(Changeset)
       /\ Chain(history'[src]) /\ head'[src] = Latest(history'[src])
       /\ \A i \in 1 .. Len(history'[src]) : KeysKnown(src, history[src][i])'
  <2>1. \A d \in Colls : envelopes[src][d] # {} => envelopes'[src][d] # {}
    BY <1>1, <1>5, <1>8
  <2>2. QED
    BY <1>3, <1>4, <1>5, <1>6, <1>9, <2>1, ChangesetAdded
<1>11. /\ history'[dst] \in Seq(Changeset)
       /\ Chain(history'[dst]) /\ head'[dst] = Latest(history'[dst])
       /\ \A i \in 1 .. Len(history'[dst]) : KeysKnown(dst, history[dst][i])'
  <2>1. \A x \in Written(dstCh) : \A b \in BlobRefs[x] :
          dekOf[b] # None /\ envelopes'[dst][dekOf[b]] # {}
    BY <1>8
  <2>2. \A d \in Colls : envelopes[dst][d] # {} => envelopes'[dst][d] # {}
    BY <1>8
  <2>3. QED
    BY <1>3, <1>5, <1>6, <1>9, <2>1, <2>2, ChangesetAdded
<1>12. ASSUME NEW e \in Colls \ {src, dst}
       PROVE  /\ Chain(history'[e]) /\ head'[e] = Latest(history'[e])
              /\ \A i \in 1 .. Len(history'[e]) : KeysKnown(e, history[e][i])'
  BY <1>8, <1>9, LeftAlone
<1>13. HistoriesChain' /\ AllKeysKnown'
  BY <1>10, <1>11, <1>12 DEF HistoriesChain, AllKeysKnown
<1>14. TypeOK'
  <2>1. history' \in [Colls -> Seq(Changeset)]
    BY <1>1, <1>5, <1>9, <1>10, <1>11 DEF TypeOK
  <2>2. head' \in [Colls -> ChangesetIDs \cup {NoParentID}]
    BY <1>1, <1>5 DEF TypeOK
  <2>3. \A c \in Colls \ live' : history'[c] = <<>> /\ head'[c] = NoParentID
                                /\ envelopes'[c] = [d \in Colls |-> {}]
    <3>1. \A c \in Colls \ live' : c \in Colls \ {src, dst} /\ c \notin live
      BY <1>5
    <3>2. QED
      BY <1>1, <1>8, <1>9, <3>1 DEF TypeOK
  <2>4. UNCHANGED <<live, gone, keks, keyStore, dekOf, uploading>>
    BY <1>5 DEF keyVars, blobVars
  <2>5. QED
    BY <1>1, <1>8, <2>1, <2>2, <2>3, <2>4 DEF TypeOK
<1>15. Sealed'
  BY <1>1, <1>5, <1>8 DEF Sealed, keyVars, TypeOK
<1>16. UploadsNew'
  BY <1>5 DEF CollInv, UploadsNew, blobVars
<1>17. QED
  BY <1>13, <1>14, <1>15, <1>16 DEF CollInv

LEMMA CreateKeeps ==
  ASSUME CollInv, NEW c \in Colls, CollectionCreate(c)
  PROVE  CollInv'
<1>1. TypeOK /\ Sealed /\ c \notin live
  BY DEF CollInv, CollectionCreate
<1>2. /\ keks # {} /\ keks \subseteq keyStore
      /\ live' = live \cup {c}
      /\ envelopes' = [envelopes EXCEPT ![c][c] = keks]
      /\ UNCHANGED <<gone, histVars, keyVars, blobVars>>
      /\ c \notin gone
  BY DEF CollectionCreate, Seals
<1>3. history' = history /\ head' = head /\ dekOf' = dekOf
  BY <1>2 DEF histVars, blobVars
<1>4. /\ envelopes' \in [Colls -> [Colls -> SUBSET Keks]]
      /\ \A e \in Colls \ {c} : envelopes'[e] = envelopes[e]
      /\ envelopes'[c][c] = keks
      /\ \A d \in Colls \ {c} : envelopes'[c][d] = envelopes[c][d]
  BY <1>1, <1>2 DEF TypeOK
<1>5. Len(history'[c]) = 0
  BY <1>1, <1>3, HistoryFacts DEF TypeOK
<1>6. HistoriesChain'
  BY <1>3 DEF CollInv, HistoriesChain
<1>7. AllKeysKnown'
  <2>1. ASSUME NEW e \in Colls \ {c}
        PROVE  \A i \in 1 .. Len(history'[e]) : KeysKnown(e, history[e][i])'
    BY <1>3, <1>4, LeftAlone
  <2>2. \A i \in 1 .. Len(history'[c]) : KeysKnown(c, history[c][i])'
    BY <1>5
  <2>3. QED
    BY <2>1, <2>2 DEF AllKeysKnown
<1>8. TypeOK'
  <2>1. \A e \in Colls \ live' : history'[e] = <<>> /\ head'[e] = NoParentID
                                /\ envelopes'[e] = [d \in Colls |-> {}]
    BY <1>1, <1>2, <1>3, <1>4 DEF TypeOK
  <2>2. live' \subseteq Colls /\ gone' \subseteq Colls /\ live' \cap gone' = {}
    BY <1>1, <1>2 DEF TypeOK
  <2>3. QED
    BY <1>1, <1>2, <1>3, <1>4, <2>1, <2>2 DEF TypeOK, keyVars, blobVars
<1>9. Sealed'
  BY <1>1, <1>2, <1>4 DEF Sealed, keyVars
<1>10. UploadsNew'
  BY <1>2 DEF CollInv, UploadsNew, blobVars
<1>11. QED
  BY <1>6, <1>7, <1>8, <1>9, <1>10 DEF CollInv

LEMMA EmptyChain == Chain(<<>>) /\ Latest(<<>>) = NoParentID /\ Len(<<>>) = 0
BY EmptySeq DEF Chain, Latest, Rev

LEMMA DeleteKeeps ==
  ASSUME CollInv, NEW c \in Colls, CollectionDelete(c)
  PROVE  CollInv'
<1>1. TypeOK /\ Sealed /\ HistoriesChain
  BY DEF CollInv
<1>2. /\ c \in live
      /\ live' = live \ {c}
      /\ gone' = gone \cup {c}
      /\ history' = [history EXCEPT ![c] = <<>>]
      /\ head' = [head EXCEPT ![c] = NoParentID]
      /\ envelopes' = [envelopes EXCEPT ![c] = [d \in Colls |-> {}]]
      /\ UNCHANGED <<keyVars, blobVars>>
  BY DEF CollectionDelete, EnvelopesWithout
<1>3. /\ history'[c] = <<>> /\ head'[c] = NoParentID
      /\ envelopes'[c] = [d \in Colls |-> {}]
      /\ \A e \in Colls \ {c} : /\ history'[e] = history[e]
                               /\ head'[e] = head[e]
                               /\ envelopes'[e] = envelopes[e]
      /\ dekOf' = dekOf
  BY <1>1, <1>2 DEF TypeOK, blobVars
<1>4. ASSUME NEW e \in Colls
      PROVE  /\ Chain(history'[e]) /\ head'[e] = Latest(history'[e])
             /\ \A i \in 1 .. Len(history'[e]) : KeysKnown(e, history[e][i])'
  <2>1. CASE e = c
    BY <1>3, <2>1, EmptyChain
  <2>2. CASE e # c
    BY <1>3, <2>2, LeftAlone
  <2>3. QED
    BY <2>1, <2>2
<1>5. HistoriesChain' /\ AllKeysKnown'
  BY <1>4 DEF HistoriesChain, AllKeysKnown
<1>6. TypeOK'
  <2>1. history' \in [Colls -> Seq(Changeset)]
    BY <1>1, <1>2 DEF TypeOK
  <2>2. head' \in [Colls -> ChangesetIDs \cup {NoParentID}]
    BY <1>1, <1>2 DEF TypeOK
  <2>3. envelopes' \in [Colls -> [Colls -> SUBSET Keks]]
    BY <1>1, <1>2 DEF TypeOK
  <2>4. QED
    BY <1>1, <1>2, <1>3, <2>1, <2>2, <2>3 DEF TypeOK, keyVars, blobVars
<1>7. Sealed'
  BY <1>1, <1>2, <1>3 DEF Sealed, keyVars, TypeOK
<1>8. UploadsNew'
  BY <1>2 DEF CollInv, UploadsNew, blobVars
<1>9. QED
  BY <1>5, <1>6, <1>7, <1>8 DEF CollInv

\* Keys are only added, and a restart forgets uploads.
LEMMA KeysKeep ==
  ASSUME CollInv, Restart \/ \E k \in Keks : KekGenerateOrImport(k)
  PROVE  CollInv'
<1>1. /\ UNCHANGED <<live, gone, histVars, envelopes, dekOf>>
      /\ keks \subseteq keks' /\ keks' \subseteq Keks
      /\ keyStore \subseteq keyStore' /\ keyStore' \subseteq keks'
      /\ uploading' \in [Blobs -> Colls \cup {None}]
      /\ \A b \in Blobs : uploading'[b] = None \/ uploading'[b] = uploading[b]
  BY DEF Restart, KekGenerateOrImport, blobVars, CollInv, TypeOK
<1>2. TypeOK'
  BY <1>1 DEF CollInv, TypeOK, histVars
<1>3. HistoriesChain' /\ AllKeysKnown' /\ UploadsNew'
  BY <1>1 DEF CollInv, HistoriesChain, AllKeysKnown, KeysKnown, UploadsNew, histVars
<1>4. Sealed'
  BY <1>1 DEF CollInv, Sealed
<1>5. QED
  BY <1>2, <1>3, <1>4 DEF CollInv

LEMMA UploadKeeps ==
  ASSUME CollInv, NEW b \in Blobs,
         (\E c \in Colls : BeginUpload(b, c)) \/ RecordUpload(b) \/ FailUpload(b)
  PROVE  CollInv'
<1>1. /\ UNCHANGED <<live, gone, histVars, envelopes, keyVars>>
      /\ dekOf' \in [Blobs -> Colls \cup {None}]
      /\ uploading' \in [Blobs -> Colls \cup {None}]
  BY DEF BeginUpload, RecordUpload, FailUpload, CollInv, TypeOK, keyVars
<1>2. \A a \in Blobs : dekOf[a] # None => dekOf'[a] = dekOf[a]
  BY DEF BeginUpload, RecordUpload, FailUpload, CollInv, TypeOK, UploadsNew
<1>3. UploadsNew'
  BY DEF BeginUpload, RecordUpload, FailUpload, NotSeen, CollInv, TypeOK, UploadsNew
<1>4. history' = history /\ head' = head
  BY <1>1 DEF histVars
<1>5. HistoriesChain' /\ AllKeysKnown'
  <2>1. ASSUME NEW e \in Colls
        PROVE  /\ Chain(history'[e]) /\ head'[e] = Latest(history'[e])
               /\ \A i \in 1 .. Len(history'[e]) : KeysKnown(e, history[e][i])'
    BY <1>1, <1>2, <1>4, LeftAlone
  <2>2. QED
    BY <2>1 DEF HistoriesChain, AllKeysKnown
<1>6. TypeOK' /\ Sealed'
  BY <1>1, <1>4 DEF CollInv, TypeOK, Sealed, keyVars
<1>7. QED
  BY <1>3, <1>5, <1>6 DEF CollInv

LEMMA InitInv ==
  ASSUME Init
  PROVE  CollInv
<1>1. TypeOK
  BY EmptySeq DEF Init, TypeOK
<1>2. HistoriesChain
  BY EmptyChain DEF Init, HistoriesChain
<1>3. AllKeysKnown
  BY EmptyChain DEF Init, AllKeysKnown
<1>4. Sealed /\ UploadsNew
  BY DEF Init, Sealed, UploadsNew
<1>5. QED
  BY <1>1, <1>2, <1>3, <1>4 DEF CollInv

LEMMA StepInv ==
  ASSUME CollInv, [Next]_vars
  PROVE  CollInv'
<1>0. TypeOK
  BY DEF CollInv
<1>1. ASSUME ClientCommit
      PROVE  CollInv'
  <2>1. PICK c \in live : \E parent \in Revisions(c) : \E base \in {parent, NoParentID} :
          \E after \in Tree, id \in ChangesetIDs :
            CommitChangeset(c, NewChangeset(id, parent, Diff(StateAt(history[c], base), after)))
    BY <1>1 DEF ClientCommit
  <2>2. PICK parent \in Revisions(c) : \E base \in {parent, NoParentID} :
          \E after \in Tree, id \in ChangesetIDs :
            CommitChangeset(c, NewChangeset(id, parent, Diff(StateAt(history[c], base), after)))
    BY <2>1
  <2>3. PICK base \in {parent, NoParentID}, after \in Tree, id \in ChangesetIDs :
          CommitChangeset(c, NewChangeset(id, parent, Diff(StateAt(history[c], base), after)))
    BY <2>2
  <2>4. parent \in ChangesetIDs \cup {NoParentID}
    BY <1>0, ChainFacts DEF Revisions, CollInv, HistoriesChain, TypeOK
  <2>5. NewChangeset(id, parent, Diff(StateAt(history[c], base), after)) \in Changeset
    BY <2>4, DiffType
  <2>6. QED
    BY <2>3, <2>5, CommitKeeps
<1>2. CASE UNCHANGED vars
  BY <1>2 DEF vars, histVars, keyVars, blobVars, CollInv, TypeOK, HistoriesChain, Sealed,
              UploadsNew, AllKeysKnown, KeysKnown
<1>3. QED
  BY <1>1, <1>2, DeleteFilesKeeps, MoveKeeps, CreateKeeps, DeleteKeeps, KeysKeep, UploadKeeps
     DEF Next, ServerStep, Upload, Command

THEOREM Invariance == Spec => []CollInv
BY InitInv, StepInv, PTL DEF Spec

\* Types, and nothing is left of a collection that was deleted.
THEOREM TypeCorrect == Spec => []TypeOK
<1>1. CollInv => TypeOK
  BY DEF CollInv
<1>2. QED
  BY Invariance, <1>1, PTL

\* However clients, commands, uploads and restarts interleave, the changesets
\* of a collection are one chain from the root to the head.
THEOREM ChainOfChangesets == Spec => []HistoryIsChain
<1>1. CollInv => HistoryIsChain
  BY ChainsAreChains DEF CollInv
<1>2. QED
  BY Invariance, <1>1, PTL

\* Every file of every revision can be decrypted, wherever its blobs were first
\* stored and whatever was deleted since.
THEOREM KeysAlwaysFollow == Spec => []KeysFollowBlobs
<1>1. CollInv => KeysFollowBlobs
  BY KnownKeysFollow DEF CollInv
<1>2. QED
  BY Invariance, <1>1, PTL

-----------------------------------------------------------------------------
\* The refinement of VersionedTrees.

VersionsOf(h) == [i \in DOMAIN h |-> StateAt(h, h[i].id)]

LEMMA VersionsFacts ==
  ASSUME NEW h, Chain(h)
  PROVE  /\ VersionsOf(h) \in Seq(Tree)
         /\ VersionsOf(h) # None
         /\ Len(VersionsOf(h)) = Len(h)
         /\ Len(h) \in Nat
         /\ VersionsOf(h) = <<>> <=> Len(h) = 0
         /\ \A k \in 1 .. Len(h) : VersionsOf(h)[k] = StateAt(h, Rev(h, k))
<1>1. DOMAIN h = 1 .. Len(h) /\ Len(h) \in Nat
  BY LenProperties DEF Chain
<1>2. \A k \in 1 .. Len(h) : VersionsOf(h)[k] = StateAt(h, Rev(h, k))
  BY <1>1 DEF VersionsOf, Rev
<1>3. \A k \in 1 .. Len(h) : VersionsOf(h)[k] \in Tree
  BY <1>1, <1>2, StateAtType
<1>4. VersionsOf(h) = [k \in 1 .. Len(h) |-> VersionsOf(h)[k]]
  BY <1>1 DEF VersionsOf
<1> HIDE DEF VersionsOf
<1>5. VersionsOf(h) \in Seq(Tree) /\ Len(VersionsOf(h)) = Len(h)
  BY <1>1, <1>3, <1>4, IsASeq, LenProperties
<1>6. VersionsOf(h) = <<>> <=> Len(VersionsOf(h)) = 0
  BY <1>5, EmptySeq
<1>7. QED
  BY <1>1, <1>2, <1>5, <1>6, NoVersionsAssumption

\* A changeset adds one version and changes none.
LEMMA VersionAdded ==
  ASSUME NEW h, Chain(h), NEW ch \in Changeset, ch.id \notin IDs(h), ch.parent = Latest(h)
  PROVE  /\ Applied(ch, StateAt(h, Latest(h))) \in Tree
         /\ VersionsOf(Append(h, ch)) = Append(VersionsOf(h), Applied(ch, StateAt(h, Latest(h))))
<1> DEFINE g == Append(h, ch)
           tree == Applied(ch, StateAt(h, Latest(h)))
           v == Append(VersionsOf(h), tree)
<1>1. Chain(g) /\ Len(g) = Len(h) + 1 /\ \A k \in 0 .. Len(h) : Rev(g, k) = Rev(h, k)
  BY AppendChain
<1>2. Rev(g, Len(h) + 1) = ch.id
  BY <1>1, AppendChain DEF Latest
<1>3. /\ \A k \in 0 .. Len(h) : StateAt(g, Rev(h, k)) = StateAt(h, Rev(h, k))
      /\ StateAt(g, ch.id) = tree
  BY AppendResolves
<1>4. Len(h) \in Nat /\ Len(h) \in 0 .. Len(h)
  BY ChainFacts
<1>5. tree \in Tree
  BY <1>4, StateAtType, AppliedType DEF Latest
<1> HIDE DEF g, tree
<1>6. /\ VersionsOf(h) \in Seq(Tree) /\ Len(VersionsOf(h)) = Len(h)
      /\ \A k \in 1 .. Len(h) : VersionsOf(h)[k] = StateAt(h, Rev(h, k))
  BY VersionsFacts
<1>7. /\ VersionsOf(g) \in Seq(Tree) /\ Len(VersionsOf(g)) = Len(h) + 1
      /\ \A k \in 1 .. Len(h) + 1 : VersionsOf(g)[k] = StateAt(g, Rev(g, k))
  BY <1>1, VersionsFacts
<1>8. /\ v \in Seq(Tree) /\ Len(v) = Len(h) + 1
      /\ v[Len(h) + 1] = tree
      /\ \A k \in 1 .. Len(h) : v[k] = VersionsOf(h)[k]
  BY <1>5, <1>6, AppendProperties
<1> HIDE DEF v
<1>9. ASSUME NEW k \in 1 .. Len(h) + 1
      PROVE  VersionsOf(g)[k] = v[k]
  <2>1. CASE k \in 1 .. Len(h)
    BY <1>1, <1>3, <1>4, <1>6, <1>7, <1>8, <2>1
  <2>2. CASE k = Len(h) + 1
    BY <1>2, <1>3, <1>4, <1>7, <1>8, <2>2
  <2>3. QED
    BY <1>4, <2>1, <2>2
<1>10. VersionsOf(g) = v
  BY <1>7, <1>8, <1>9, SeqEqual
<1>11. QED
  BY <1>5, <1>10 DEF g, tree, v

LEMMA VersionsAre ==
  ASSUME CollInv
  PROVE  /\ Versions = [c \in Colls |-> IF c \in live THEN VersionsOf(history[c]) ELSE None]
         /\ \A c \in live : Versions[c] = VersionsOf(history[c]) /\ Abstract!Exists(c)
         /\ \A c \in Colls \ live : Versions[c] = None
         /\ \A c \in live : Abstract!Current(c) = StateAtHead(c)
<1>1. Versions = [c \in Colls |-> IF c \in live THEN VersionsOf(history[c]) ELSE None]
  BY DEF Versions, VersionsOf
<1>2. \A c \in live : c \in Colls
  BY DEF CollInv, TypeOK
<1>3. \A c \in live : Versions[c] = VersionsOf(history[c])
  BY <1>1, <1>2
<1>4. ASSUME NEW c \in live
      PROVE  Abstract!Exists(c)
  BY <1>2, <1>3, VersionsFacts DEF CollInv, HistoriesChain, Abstract!Exists
<1>5. ASSUME NEW c \in live
      PROVE  Abstract!Current(c) = StateAtHead(c)
  <2> DEFINE h == history[c]
  <2>1. Chain(h) /\ head[c] = Latest(h)
    BY <1>2 DEF CollInv, HistoriesChain
  <2>2. /\ Len(VersionsOf(h)) = Len(h)
        /\ Len(h) \in Nat
        /\ VersionsOf(h) = <<>> <=> Len(h) = 0
        /\ \A k \in 1 .. Len(h) : VersionsOf(h)[k] = StateAt(h, Rev(h, k))
    BY <2>1, VersionsFacts
  <2>3. CASE Len(h) = 0
    <3>1. PICK t : Trees(h, Len(h), t)
      BY <2>1, TreesExist
    <3>2. 0 \in 0 .. Len(h) /\ t[0] = NoFiles
      BY <2>2, <3>1 DEF Trees
    <3>3. StateAt(h, Rev(h, 0)) = NoFiles
      BY <2>1, <3>1, <3>2, StateAtIsTree
    <3>4. StateAtHead(c) = NoFiles
      BY <2>1, <2>3, <3>3 DEF StateAtHead, Latest
    <3>5. QED
      BY <1>3, <2>2, <2>3, <3>4 DEF Abstract!Current, Abstract!NoFiles, NoFiles
  <2>4. CASE Len(h) # 0
    <3>1. Len(h) \in 1 .. Len(h)
      BY <2>2, <2>4
    <3>2. QED
      BY <1>3, <2>1, <2>2, <2>4, <3>1 DEF Abstract!Current, StateAtHead, Latest
  <2>5. QED
    BY <2>3, <2>4
<1>6. QED
  BY <1>1, <1>2, <1>3, <1>4, <1>5

(***************************************************************************)
(* The operations.                                                         *)
(***************************************************************************)
\* A collection that gets a changeset gets a version.
LEMMA ChangesetVersion ==
  ASSUME CollInv, CollInv', NEW c \in live, live' = live,
         NEW ch \in Changeset, ch.id \notin IDs(history[c]), ch.parent = head[c],
         history'[c] = Append(history[c], ch)
  PROVE  /\ Versions'[c] = Append(Versions[c], Applied(ch, StateAtHead(c)))
         /\ Applied(ch, StateAtHead(c)) \in Tree
<1>1. c \in Colls
  BY DEF CollInv, TypeOK
<1>2. Chain(history[c]) /\ head[c] = Latest(history[c])
  BY <1>1 DEF CollInv, HistoriesChain
<1>3. Versions[c] = VersionsOf(history[c])
  BY VersionsAre
<1>4. Versions'[c] = VersionsOf(history'[c])
  BY <1>1 DEF Versions, VersionsOf
<1>5. QED
  BY <1>2, <1>3, <1>4, VersionAdded DEF StateAtHead

LEMMA VersionsKept ==
  ASSUME NEW c \in Colls, history'[c] = history[c], c \in live' <=> c \in live
  PROVE  Versions'[c] = Versions[c]
BY DEF Versions

LEMMA VersionsUpdate ==
  ASSUME NEW c \in Colls, \A e \in Colls \ {c} : Versions'[e] = Versions[e]
  PROVE  Versions' = [Versions EXCEPT ![c] = Versions'[c]]
<1>1. /\ Versions = [e \in Colls |-> Versions[e]]
      /\ Versions' = [e \in Colls |-> Versions'[e]]
  BY DEF Versions
<1>2. QED
  BY <1>1

LEMMA OneChanges ==
  ASSUME CollInv, CollInv', NEW c \in live, UNCHANGED live,
         NEW ch \in Changeset, ch.id \notin IDs(history[c]), ch.parent = head[c],
         history' = [history EXCEPT ![c] = Append(@, ch)]
  PROVE  Abstract!Change(c)
<1>1. c \in Colls /\ history \in [Colls -> Seq(Changeset)]
  BY DEF CollInv, TypeOK
<1>2. /\ history'[c] = Append(history[c], ch)
      /\ \A e \in Colls \ {c} : history'[e] = history[e]
  BY <1>1
<1>3. /\ Versions'[c] = Append(Versions[c], Applied(ch, StateAtHead(c)))
      /\ Applied(ch, StateAtHead(c)) \in Tree
  BY <1>2, ChangesetVersion
<1>4. \A e \in Colls \ {c} : Versions'[e] = Versions[e]
  BY <1>2, VersionsKept
<1>5. Versions' = [Versions EXCEPT ![c] = Versions'[c]]
  BY <1>1, <1>4, VersionsUpdate
<1>6. Abstract!Exists(c)
  BY VersionsAre
<1>7. QED
  BY <1>3, <1>5, <1>6 DEF Abstract!Change, Abstract!Tree, Tree

LEMMA CreateImplements ==
  ASSUME CollInv, NEW c \in Colls, CollectionCreate(c)
  PROVE  Abstract!Create(c)
<1>1. c \notin live /\ live' = live \cup {c} /\ history' = history
  BY DEF CollectionCreate, histVars
<1>2. history[c] = <<>>
  BY <1>1 DEF CollInv, TypeOK
<1>3. Versions'[c] = VersionsOf(<<>>)
  BY <1>1, <1>2 DEF Versions, VersionsOf
<1>4. Versions'[c] = <<>>
  BY <1>3, EmptyChain, VersionsFacts
<1>5. \A e \in Colls \ {c} : Versions'[e] = Versions[e]
  BY <1>1, VersionsKept
<1>6. Versions' = [Versions EXCEPT ![c] = <<>>]
  BY <1>4, <1>5, VersionsUpdate
<1>7. Versions[c] = None
  BY <1>1, VersionsAre
<1>8. QED
  BY <1>6, <1>7 DEF Abstract!Create, Abstract!Exists

LEMMA DeleteImplements ==
  ASSUME CollInv, NEW c \in Colls, CollectionDelete(c)
  PROVE  Abstract!Delete(c)
<1>1. c \in live /\ live' = live \ {c} /\ \A e \in Colls \ {c} : history'[e] = history[e]
  BY DEF CollectionDelete, CollInv, TypeOK
<1>2. Versions'[c] = None
  BY <1>1 DEF Versions
<1>3. \A e \in Colls \ {c} : Versions'[e] = Versions[e]
  BY <1>1, VersionsKept
<1>4. Versions' = [Versions EXCEPT ![c] = None]
  BY <1>2, <1>3, VersionsUpdate
<1>5. Abstract!Exists(c)
  BY <1>1, VersionsAre
<1>6. QED
  BY <1>4, <1>5 DEF Abstract!Delete

LEMMA CommitImplements ==
  ASSUME CollInv, CollInv', NEW c \in live, NEW ch \in Changeset, CommitChangeset(c, ch)
  PROVE  Abstract!Change(c)
<1>1. /\ ch.id \notin IDs(history[c]) /\ ch.parent = head[c] /\ UNCHANGED live
      /\ history' = [history EXCEPT ![c] = Append(@, ch)]
  BY DEF CommitChangeset, TargetsHead, Appended
<1>2. QED
  BY <1>1, OneChanges

LEMMA DeleteFilesImplements ==
  ASSUME CollInv, CollInv', NEW c \in live, NEW files \in SUBSET Paths,
         NEW id \in ChangesetIDs, CollectionDeleteFiles(c, files, id)
  PROVE  Abstract!Change(c)
<1> DEFINE ch == [id |-> id, parent |-> head[c], created |-> NoFiles, updated |-> NoFiles,
                  deleted |-> WithRelated(files, StateAtHead(c))]
<1>1. ch \in Changeset
  BY NoFilesType DEF Changeset, WithRelated, Related, Files, CollInv, TypeOK
<1>2. ch.id = id /\ ch.parent = head[c]
  OBVIOUS
<1>3. /\ id \notin IDs(history[c]) /\ UNCHANGED live
      /\ history' = [history EXCEPT ![c] = Append(@, ch)]
  BY DEF CollectionDeleteFiles, Appended, Fresh, CollInv, TypeOK
<1> HIDE DEF ch
<1>4. QED
  BY <1>1, <1>2, <1>3, OneChanges

\* A move conserves files: what the source loses, the destination gets.
LEMMA MoveImplements ==
  ASSUME CollInv, CollInv', NEW src \in live, NEW dst \in live, NEW files \in SUBSET Paths,
         NEW srcID \in ChangesetIDs, NEW dstID \in ChangesetIDs,
         CollectionMoveFilesIntoAnotherCollection(src, dst, files, srcID, dstID)
  PROVE  \E moved \in (SUBSET Paths) \ {{}} : Abstract!Move(src, dst, moved)
<1> DEFINE tree == StateAtHead(src)
           dtree == StateAtHead(dst)
           moved == WithRelated(files, tree)
           srcCh == [id |-> srcID, parent |-> head[src], created |-> NoFiles,
                     updated |-> NoFiles, deleted |-> moved]
           dstCh == [id |-> dstID, parent |-> head[dst], created |-> Only(moved, tree),
                     updated |-> NoFiles, deleted |-> {}]
<1>1. /\ src \in Colls /\ dst \in Colls /\ tree \in Tree /\ dtree \in Tree
      /\ history \in [Colls -> Seq(Changeset)]
  BY HeadState DEF CollInv, TypeOK
<1>2. /\ files # {} /\ src # dst /\ files \subseteq Files(tree)
      /\ Files(dstCh.created) \cap Files(dtree) = {}
      /\ srcID \notin IDs(history[src]) /\ dstID \notin IDs(history[dst])
      /\ history' = [history EXCEPT ![src] = Append(@, srcCh), ![dst] = Append(@, dstCh)]
      /\ UNCHANGED live
  BY <1>1 DEF CollectionMoveFilesIntoAnotherCollection, Appended, Fresh, FitsTree, WithRelated
<1> HIDE DEF tree, dtree
<1>3. moved \in (SUBSET Paths) \ {{}} /\ moved \subseteq Files(tree)
  <2>1. Files(tree) \subseteq Paths
    BY DEF Files
  <2>2. files \subseteq moved /\ moved \subseteq files \cup Files(tree)
    BY DEF WithRelated, Related
  <2> HIDE DEF moved
  <2>3. moved \subseteq Files(tree) /\ moved # {}
    BY <1>2, <2>2
  <2>4. QED
    BY <2>1, <2>3
<1>4. \A p \in moved : tree[p] # None /\ dtree[p] = None
  <2>1. \A p \in moved : tree[p] # None
    BY <1>3 DEF Files
  <2>2. \A p \in moved : p \in Files(dstCh.created)
    BY <1>3, <2>1 DEF Files, Only
  <2>3. QED
    BY <1>2, <1>3, <2>1, <2>2 DEF Files
<1> HIDE DEF moved
<1>5. srcCh \in Changeset /\ dstCh \in Changeset
  <2>1. Only(moved, tree) \in Tree
    BY <1>1 DEF Only, Tree
  <2>2. QED
    BY <1>1, <1>3, <2>1, NoFilesType DEF Changeset, CollInv, TypeOK
<1>6. Applied(srcCh, tree) = [p \in Paths |-> IF p \in moved THEN None ELSE tree[p]]
  BY DEF Applied, NoFiles
<1>7. Applied(dstCh, dtree) = [p \in Paths |-> IF p \in moved THEN tree[p] ELSE dtree[p]]
  BY <1>4 DEF Applied, NoFiles, Only
<1>8. srcCh.id = srcID /\ srcCh.parent = head[src] /\ dstCh.id = dstID /\ dstCh.parent = head[dst]
  OBVIOUS
<1> HIDE DEF srcCh, dstCh
<1>9. /\ history'[src] = Append(history[src], srcCh)
      /\ history'[dst] = Append(history[dst], dstCh)
      /\ \A e \in Colls \ {src, dst} : history'[e] = history[e]
  BY <1>1, <1>2
<1>10. /\ Versions'[src] = Append(Versions[src], Applied(srcCh, tree))
       /\ Versions'[dst] = Append(Versions[dst], Applied(dstCh, dtree))
  BY <1>2, <1>5, <1>8, <1>9, ChangesetVersion DEF tree, dtree
<1>11. \A e \in Colls \ {src, dst} : Versions'[e] = Versions[e]
  BY <1>2, <1>9, VersionsKept
<1>12. Versions' = [Versions EXCEPT ![src] = Append(@, Applied(srcCh, tree)),
                                    ![dst] = Append(@, Applied(dstCh, dtree))]
  <2>1. /\ Versions = [e \in Colls |-> Versions[e]]
        /\ Versions' = [e \in Colls |-> Versions'[e]]
    BY DEF Versions
  <2>2. QED
    BY <1>1, <1>2, <1>10, <1>11, <2>1
<1>13. /\ Abstract!Exists(src) /\ Abstract!Exists(dst)
       /\ Abstract!Current(src) = tree /\ Abstract!Current(dst) = dtree
  BY VersionsAre DEF tree, dtree
<1>14. Abstract!Move(src, dst, moved)
  BY <1>2, <1>4, <1>6, <1>7, <1>12, <1>13 DEF Abstract!Move
<1>15. QED
  BY <1>3, <1>14

LEMMA StepImplements ==
  ASSUME CollInv, CollInv', [Next]_vars
  PROVE  [Abstract!Next]_Versions
<1>0. live \subseteq Colls
  BY DEF CollInv, TypeOK
<1>1. ASSUME ClientCommit
      PROVE  \E c \in live : Abstract!Change(c)
  <2>1. PICK c \in live : \E parent \in Revisions(c) : \E base \in {parent, NoParentID} :
          \E after \in Tree, id \in ChangesetIDs :
            CommitChangeset(c, NewChangeset(id, parent, Diff(StateAt(history[c], base), after)))
    BY <1>1 DEF ClientCommit
  <2>2. PICK parent \in Revisions(c) : \E base \in {parent, NoParentID} :
          \E after \in Tree, id \in ChangesetIDs :
            CommitChangeset(c, NewChangeset(id, parent, Diff(StateAt(history[c], base), after)))
    BY <2>1
  <2>3. PICK base \in {parent, NoParentID}, after \in Tree, id \in ChangesetIDs :
          CommitChangeset(c, NewChangeset(id, parent, Diff(StateAt(history[c], base), after)))
    BY <2>2
  <2>4. parent \in ChangesetIDs \cup {NoParentID}
    BY <1>0, ChainFacts DEF Revisions, CollInv, HistoriesChain
  <2>5. NewChangeset(id, parent, Diff(StateAt(history[c], base), after)) \in Changeset
    BY <2>4, DiffType
  <2>6. QED
    BY <2>3, <2>5, CommitImplements
<1>2. ASSUME Upload \/ Restart \/ (\E k \in Keks : KekGenerateOrImport(k)) \/ UNCHANGED vars
      PROVE  UNCHANGED Versions
  <2>1. history' = history /\ live' = live
    BY <1>2 DEF Upload, BeginUpload, RecordUpload, FailUpload, Restart, KekGenerateOrImport, vars,
                histVars
  <2>2. QED
    BY <2>1 DEF Versions
<1>3. ASSUME NEW c \in live, NEW files \in SUBSET Paths, NEW id \in ChangesetIDs,
             CollectionDeleteFiles(c, files, id)
      PROVE  Abstract!Change(c)
  BY <1>3, DeleteFilesImplements
<1>4. ASSUME NEW src \in live, NEW dst \in live, NEW files \in SUBSET Paths,
             NEW srcID \in ChangesetIDs, NEW dstID \in ChangesetIDs,
             CollectionMoveFilesIntoAnotherCollection(src, dst, files, srcID, dstID)
      PROVE  \E moved \in (SUBSET Paths) \ {{}} : Abstract!Move(src, dst, moved)
  BY <1>4, MoveImplements
<1>5. ASSUME NEW c \in Colls, CollectionCreate(c) \/ CollectionDelete(c)
      PROVE  Abstract!Create(c) \/ Abstract!Delete(c)
  BY <1>5, CreateImplements, DeleteImplements
<1>6. QED
  BY <1>0, <1>1, <1>2, <1>3, <1>4, <1>5 DEF Next, ServerStep, Command, Abstract!Next

LEMMA InitImplements ==
  ASSUME Init
  PROVE  Abstract!Init
BY DEF Init, Versions, Abstract!Init

\* Every operation of the server - commits of racing clients, deletes, moves
\* between collections - adds versions to trees, changes no past version and
\* neither loses nor doubles a file that it moves.
THEOREM ImplementsVersionedTrees == Spec => IsVersioned
<1>1. Init => Abstract!Init
  BY InitImplements
<1>2. CollInv /\ CollInv' /\ [Next]_vars => [Abstract!Next]_Versions
  BY StepImplements
<1>3. QED
  BY <1>1, <1>2, Invariance, PTL DEF Spec, IsVersioned, Abstract!Spec
=============================================================================
