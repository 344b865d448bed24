---------------------------- MODULE Workdirs_proofs ----------------------------
(***************************************************************************)
(* Proofs about Workdirs, for any number of working directories and        *)
(* without a bound on changesets.                                          *)
(*                                                                         *)
(* What a client knows of a collection - its copy of the changesets, the   *)
(* revision it has, the changeset it is about to send - is related to the  *)
(* collection as it is now.  All that is needed of the server is how a     *)
(* collection may grow: past revisions stay what they were, and a new head *)
(* has an id that none of them had.                                        *)
(***************************************************************************)
EXTENDS Workdirs, Collections_proofs

RevisionsIn(h) == {NoParentID} \cup IDs(h)

\* What a client may take for a revision of h.
NamedIn(h) == RevisionsIn(h) \cup {UnknownRevision}

Continues(h, s) == Len(s) <= Len(h) /\ \A i \in 1 .. Len(s) : s[i] = h[i]

\* From history h with head r to history h2 with head r2.
Grows(h, r, h2, r2) ==
  /\ h \in Seq(Changeset) /\ h2 \in Seq(Changeset)
  /\ Continues(h2, h)
  /\ RevisionsIn(h) \subseteq RevisionsIn(h2)
  /\ \A rev \in RevisionsIn(h) : StateAt(h2, rev) = StateAt(h, rev)
  /\ (h2 = h /\ r2 = r) \/ r2 \notin NamedIn(h)

\* What a working directory knows is true of history h with head r.
Seen(m, h, r) ==
  /\ Continues(h, m.seen)
  /\ m.rev \in NamedIn(h)
  /\ m.seenHead \in RevisionsIn(h)
  /\ StateAt(h, m.seenHead) = StateAt(m.seen, m.seenHead)
  /\ m.rev = r => m.seenHead = r

\* If the changeset fits, the result is what its sender read, and what it did
\* not read stays.
Exact(q, h, r) ==
  /\ q.ch.parent \in NamedIn(h)
  /\ q.ch.parent = r => Applied(q.ch, StateAt(h, r)) = Taken(StateAt(h, r), q.read, q.unread)

WorkdirsTyped ==
  /\ manifest \in [Workdir -> BupManifest \cup {None}]
  /\ request \in [Workdir -> Request \cup {None}]

ManifestsTrue ==
  \A w \in Workdir : manifest[w] # None =>
    /\ manifest[w].rev \in NamedIn(manifest[w].seen)
    /\ manifest[w].seenHead \in RevisionsIn(manifest[w].seen)
    /\ manifest[w].coll \in live \cup gone
    /\ manifest[w].coll \in live =>
         Seen(manifest[w], history[manifest[w].coll], head[manifest[w].coll])

RequestsExact ==
  \A w \in Workdir : request[w] # None =>
    /\ request[w].coll \in live \cup gone
    /\ request[w].coll \in live =>
         Exact(request[w], history[request[w].coll], head[request[w].coll])

WorkdirsInv == CollInv /\ WorkdirsTyped /\ ManifestsTrue /\ RequestsExact

(***************************************************************************)
(* What stays true while a collection grows.                               *)
(***************************************************************************)
LEMMA SeenKept ==
  ASSUME NEW m \in BupManifest, NEW h, NEW r, NEW h2, NEW r2,
         Seen(m, h, r), Grows(h, r, h2, r2)
  PROVE  Seen(m, h2, r2)
<1>1. Len(m.seen) \in Nat /\ Len(h) \in Nat /\ Len(h2) \in Nat
  BY LenProperties DEF BupManifest, Grows
<1>2. Continues(h2, m.seen)
  BY <1>1 DEF Seen, Grows, Continues
<1>3. QED
  BY <1>2 DEF Seen, Grows, NamedIn

LEMMA ExactKept ==
  ASSUME NEW q, NEW h, NEW r, NEW h2, NEW r2, Exact(q, h, r), Grows(h, r, h2, r2)
  PROVE  Exact(q, h2, r2)
BY DEF Exact, Grows, NamedIn

LEMMA GrowsNot ==
  ASSUME NEW h \in Seq(Changeset), NEW r
  PROVE  Grows(h, r, h, r)
BY LenProperties DEF Grows, Continues

LEMMA RevisionAt ==
  ASSUME NEW h, Chain(h), NEW rev \in RevisionsIn(h)
  PROVE  \E k \in 0 .. Len(h) : rev = Rev(h, k)
<1>1. Len(h) \in Nat /\ IDs(h) = {h[k].id : k \in 1 .. Len(h)}
  BY ChainFacts
<1>2. CASE rev = NoParentID
  BY <1>1, <1>2 DEF Rev
<1>3. CASE rev \in IDs(h)
  <2>1. PICK k \in 1 .. Len(h) : rev = h[k].id
    BY <1>1, <1>3
  <2>2. k \in 0 .. Len(h) /\ k # 0
    BY <1>1
  <2> QED BY <2>1, <2>2 DEF Rev
<1> QED BY <1>2, <1>3 DEF RevisionsIn

LEMMA GrowsByOne ==
  ASSUME NEW h, Chain(h), NEW ch \in Changeset, ch.id \notin IDs(h), ch.parent = Latest(h)
  PROVE  /\ Grows(h, Latest(h), Append(h, ch), ch.id)
         /\ StateAt(Append(h, ch), ch.id) = Applied(ch, StateAt(h, Latest(h)))
<1> DEFINE g == Append(h, ch)
<1>1. h \in Seq(Changeset) /\ Len(h) \in Nat /\ DOMAIN h = 1 .. Len(h)
  BY LenProperties DEF Chain
<1>2. g \in Seq(Changeset) /\ Len(g) = Len(h) + 1 /\ \A i \in 1 .. Len(h) : g[i] = h[i]
  BY <1>1, AppendProperties
<1>3. DOMAIN g = 1 .. Len(h) + 1
  BY <1>2, LenProperties
<1> HIDE DEF g
<1>4. Continues(g, h)
  BY <1>1, <1>2 DEF Continues
<1>5. RevisionsIn(h) \subseteq RevisionsIn(g)
  BY <1>1, <1>2, <1>3 DEF RevisionsIn, IDs
<1>6. ASSUME NEW rev \in RevisionsIn(h) PROVE StateAt(g, rev) = StateAt(h, rev)
  BY RevisionAt, AppendResolves DEF g
<1>7. ch.id \notin NamedIn(h)
  BY NoParentAssumption, UnknownAssumption DEF NamedIn, RevisionsIn, Changeset
<1>8. StateAt(g, ch.id) = Applied(ch, StateAt(h, Latest(h)))
  BY AppendResolves DEF g
<1> QED BY <1>1, <1>2, <1>4, <1>5, <1>6, <1>7, <1>8 DEF Grows, g

(***************************************************************************)
(* Each step of the server lets collections grow, or deletes them for good.*)
(***************************************************************************)
\* A collection there still is has grown; one that is deleted is not created
\* again.
Progress ==
  /\ live \cup gone \subseteq (live \cup gone)'
  /\ \A c \in gone : c \notin live'
  /\ \A c \in live : c \in live' => Grows(history[c], head[c], history'[c], head'[c])

LEMMA LiveChains ==
  ASSUME CollInv, NEW c \in live
  PROVE  /\ c \in Colls /\ c \notin gone
         /\ history[c] \in Seq(Changeset) /\ Chain(history[c])
         /\ head[c] = Latest(history[c])
<1>1. c \in Colls /\ c \notin gone
  BY DEF CollInv, TypeOK
<1> QED BY <1>1 DEF CollInv, TypeOK, HistoriesChain

LEMMA ProgressOfOthers ==
  ASSUME CollInv, \A c \in live : c \in live' => history'[c] = history[c] /\ head'[c] = head[c],
         live \cup gone \subseteq (live \cup gone)', \A c \in gone : c \notin live'
  PROVE  Progress
BY LiveChains, GrowsNot DEF Progress

\* One collection gets one changeset.
LEMMA ProgressOfOne ==
  ASSUME CollInv, UNCHANGED <<live, gone>>, NEW c \in live, NEW ch \in Changeset,
         ch.id \notin IDs(history[c]), ch.parent = head[c],
         history' = [history EXCEPT ![c] = Append(@, ch)],
         head' = [head EXCEPT ![c] = ch.id]
  PROVE  /\ Progress
         /\ StateAt(history'[c], head'[c]) = Applied(ch, StateAtHead(c))
<1>1. c \in Colls /\ DOMAIN history = Colls /\ DOMAIN head = Colls
  BY LiveChains DEF CollInv, TypeOK
<1>2. /\ history'[c] = Append(history[c], ch) /\ head'[c] = ch.id
      /\ \A e \in Colls \ {c} : history'[e] = history[e] /\ head'[e] = head[e]
  BY <1>1
<1>3. /\ Grows(history[c], head[c], history'[c], head'[c])
      /\ StateAt(history'[c], head'[c]) = Applied(ch, StateAtHead(c))
  BY <1>2, LiveChains, GrowsByOne DEF StateAtHead
<1>4. ASSUME NEW e \in live PROVE Grows(history[e], head[e], history'[e], head'[e])
  <2>1. CASE e = c
    BY <1>3, <2>1
  <2>2. CASE e # c
    BY <1>2, <2>2, LiveChains, GrowsNot
  <2> QED BY <2>1, <2>2
<1>5. \A e \in gone : e \notin live'
  BY DEF CollInv, TypeOK
<1> QED BY <1>3, <1>4, <1>5 DEF Progress

LEMMA ProgressOfCommit ==
  ASSUME CollInv, NEW c \in live, NEW ch \in Changeset, CommitChangeset(c, ch)
  PROVE  /\ Progress
         /\ ch.parent = head[c]
         /\ StateAt(history'[c], head'[c]) = Applied(ch, StateAtHead(c))
<1>1. /\ UNCHANGED <<live, gone>>
      /\ ch.id \notin IDs(history[c]) /\ ch.parent = head[c]
      /\ history' = [history EXCEPT ![c] = Append(@, ch)]
      /\ head' = [head EXCEPT ![c] = ch.id]
  BY DEF CommitChangeset, TargetsHead, Appended
<1> QED BY <1>1, ProgressOfOne

LEMMA ProgressOfMove ==
  ASSUME CollInv, NEW src \in live, NEW dst \in live, NEW files \in SUBSET Paths,
         NEW srcID \in ChangesetIDs, NEW dstID \in ChangesetIDs,
         CollectionMoveFilesIntoAnotherCollection(src, dst, files, srcID, dstID)
  PROVE  Progress
<1> DEFINE tree == StateAtHead(src)
           moved == WithRelated(files, tree)
           srcCh == [id |-> srcID, parent |-> head[src], created |-> NoFiles,
                     updated |-> NoFiles, deleted |-> moved]
           dstCh == [id |-> dstID, parent |-> head[dst], created |-> Only(moved, tree),
                     updated |-> NoFiles, deleted |-> {}]
<1>1. src \in Colls /\ dst \in Colls /\ src # dst /\ tree \in Tree
  BY LiveChains, HeadState DEF CollInv, CollectionMoveFilesIntoAnotherCollection
<1>2. head[src] \in ChangesetIDs \cup {NoParentID} /\ head[dst] \in ChangesetIDs \cup {NoParentID}
  BY <1>1 DEF CollInv, TypeOK
<1>3. srcCh \in Changeset
  BY <1>1, <1>2, NoFilesType DEF Changeset, WithRelated, Related, Files
<1>4. Only(moved, tree) \in Tree
  BY <1>1 DEF Only, Tree
<1>5. dstCh \in Changeset
  BY <1>2, <1>4, NoFilesType DEF Changeset
<1>6. /\ srcCh.id = srcID /\ srcCh.parent = head[src] /\ dstCh.id = dstID /\ dstCh.parent = head[dst]
      /\ srcID \notin IDs(history[src]) /\ dstID \notin IDs(history[dst])
      /\ history' = [history EXCEPT ![src] = Append(@, srcCh), ![dst] = Append(@, dstCh)]
      /\ head' = [head EXCEPT ![src] = srcID, ![dst] = dstID]
      /\ UNCHANGED <<live, gone>>
  BY <1>1 DEF CollectionMoveFilesIntoAnotherCollection, Appended, Fresh
<1> HIDE DEF srcCh, dstCh
<1>7. /\ history'[src] = Append(history[src], srcCh) /\ head'[src] = srcCh.id
      /\ history'[dst] = Append(history[dst], dstCh) /\ head'[dst] = dstCh.id
      /\ \A e \in Colls \ {src, dst} : history'[e] = history[e] /\ head'[e] = head[e]
  BY <1>1, <1>6 DEF CollInv, TypeOK
<1>8. Grows(history[src], head[src], history'[src], head'[src])
  <2>1. Chain(history[src]) /\ head[src] = Latest(history[src])
    BY LiveChains
  <2>2. srcCh \in Changeset /\ srcCh.id \notin IDs(history[src]) /\ srcCh.parent = Latest(history[src])
    BY <1>3, <1>6, <2>1
  <2>3. Grows(history[src], Latest(history[src]), Append(history[src], srcCh), srcCh.id)
    BY <2>1, <2>2, GrowsByOne
  <2> QED BY <1>7, <2>1, <2>3
<1>9. Grows(history[dst], head[dst], history'[dst], head'[dst])
  <2>1. Chain(history[dst]) /\ head[dst] = Latest(history[dst])
    BY LiveChains
  <2>2. dstCh \in Changeset /\ dstCh.id \notin IDs(history[dst]) /\ dstCh.parent = Latest(history[dst])
    BY <1>5, <1>6, <2>1
  <2>3. Grows(history[dst], Latest(history[dst]), Append(history[dst], dstCh), dstCh.id)
    BY <2>1, <2>2, GrowsByOne
  <2> QED BY <1>7, <2>1, <2>3
<1>10. ASSUME NEW e \in live PROVE Grows(history[e], head[e], history'[e], head'[e])
  <2>1. CASE e \notin {src, dst}
    BY <1>7, <2>1, LiveChains, GrowsNot
  <2> QED BY <1>8, <1>9, <2>1
<1>11. \A e \in gone : e \notin live'
  BY <1>6 DEF CollInv, TypeOK
<1> QED BY <1>6, <1>10, <1>11 DEF Progress

LEMMA ProgressOfDeleteFiles ==
  ASSUME CollInv, NEW c \in live, NEW files \in SUBSET Paths, NEW id \in ChangesetIDs,
         CollectionDeleteFiles(c, files, id)
  PROVE  Progress
<1> DEFINE ch == [id |-> id, parent |-> head[c], created |-> NoFiles, updated |-> NoFiles,
                  deleted |-> WithRelated(files, StateAtHead(c))]
<1>1. c \in Colls /\ head[c] \in ChangesetIDs \cup {NoParentID}
  BY LiveChains DEF CollInv, TypeOK
<1>2. ch \in Changeset /\ ch.id = id /\ ch.parent = head[c]
  BY <1>1, NoFilesType DEF Changeset, WithRelated, Related, Files
<1>3. /\ id \notin IDs(history[c])
      /\ history' = [history EXCEPT ![c] = Append(@, ch)]
      /\ head' = [head EXCEPT ![c] = id]
      /\ UNCHANGED <<live, gone>>
  BY <1>1 DEF CollectionDeleteFiles, Appended, Fresh
<1> HIDE DEF ch
<1> QED BY <1>2, <1>3, ProgressOfOne

LEMMA ProgressOfClients ==
  ASSUME CollInv, ClientCommit
  PROVE  Progress
<1>1. PICK c \in live : \E parent \in Revisions(c) : \E base \in {parent, NoParentID} :
        \E after \in Tree, id \in ChangesetIDs :
          CommitChangeset(c, NewChangeset(id, parent, Diff(StateAt(history[c], base), after)))
  BY DEF ClientCommit
<1>2. PICK parent \in Revisions(c), base \in {NoParentID} \cup Revisions(c),
           after \in Tree, id \in ChangesetIDs :
        CommitChangeset(c, NewChangeset(id, parent, Diff(StateAt(history[c], base), after)))
  BY <1>1
<1>3. parent \in ChangesetIDs \cup {NoParentID}
  BY LiveChains, ChainFacts DEF Revisions
<1>4. NewChangeset(id, parent, Diff(StateAt(history[c], base), after)) \in Changeset
  BY <1>3, DiffType
<1> QED BY <1>2, <1>4, ProgressOfCommit

LEMMA ServerProgress ==
  ASSUME CollInv, ClientCommit \/ ServerStep
  PROVE  Progress
<1>0. \A c \in gone : c \notin live
  BY DEF CollInv, TypeOK
<1>1. ASSUME Upload PROVE Progress
  <2>1. UNCHANGED <<live, gone, history, head>>
    BY <1>1 DEF Upload, BeginUpload, RecordUpload, FailUpload, histVars
  <2> QED BY <1>0, <2>1, ProgressOfOthers
<1>2. ASSUME NEW c \in Colls, CollectionCreate(c) PROVE Progress
  <2>1. c \notin gone /\ live' = live \cup {c} /\ UNCHANGED <<gone, history, head>>
    BY <1>2 DEF CollectionCreate, histVars
  <2> QED BY <1>0, <2>1, ProgressOfOthers
<1>3. ASSUME NEW c \in Colls, CollectionDelete(c) PROVE Progress
  <2>1. /\ live' = live \ {c} /\ gone' = gone \cup {c}
        /\ \A e \in Colls \ {c} : history'[e] = history[e] /\ head'[e] = head[e]
    BY <1>3 DEF CollectionDelete, CollInv, TypeOK
  <2>2. \A e \in live : e \in live' => e \in Colls \ {c}
    BY <2>1, LiveChains
  <2> QED BY <1>0, <2>1, <2>2, ProgressOfOthers
<1>4. ASSUME Restart \/ \E k \in Keks : KekGenerateOrImport(k) PROVE Progress
  <2>1. UNCHANGED <<live, gone, history, head>>
    BY <1>4 DEF Restart, KekGenerateOrImport, histVars
  <2> QED BY <1>0, <2>1, ProgressOfOthers
<1> QED BY <1>1, <1>2, <1>3, <1>4, ProgressOfClients, ProgressOfDeleteFiles, ProgressOfMove
       DEF ServerStep, Command

(***************************************************************************)
(* The steps of a client.                                                  *)
(***************************************************************************)
LEMMA ManifestsKept ==
  ASSUME WorkdirsInv, Progress, NEW w \in Workdir, manifest[w] # None, manifest'[w] = manifest[w]
  PROVE  /\ manifest'[w].rev \in NamedIn(manifest'[w].seen)
         /\ manifest'[w].seenHead \in RevisionsIn(manifest'[w].seen)
         /\ manifest'[w].coll \in live' \cup gone'
         /\ manifest'[w].coll \in live' =>
              Seen(manifest'[w], history'[manifest'[w].coll], head'[manifest'[w].coll])
<1> DEFINE m == manifest[w]
           c == m.coll
<1>1. /\ m \in BupManifest
      /\ m.rev \in NamedIn(m.seen) /\ m.seenHead \in RevisionsIn(m.seen)
      /\ c \in live \cup gone
      /\ c \in live => Seen(m, history[c], head[c])
  BY DEF WorkdirsInv, WorkdirsTyped, ManifestsTrue
<1>2. c \in live' \cup gone'
  BY <1>1 DEF Progress
<1>3. ASSUME c \in live' PROVE Seen(m, history'[c], head'[c])
  <2>1. c \in live
    BY <1>1, <1>3 DEF Progress
  <2>2. Grows(history[c], head[c], history'[c], head'[c])
    BY <1>3, <2>1 DEF Progress
  <2> QED BY <1>1, <2>1, <2>2, SeenKept
<1> QED BY <1>1, <1>2, <1>3

LEMMA RequestsKept ==
  ASSUME WorkdirsInv, Progress, NEW w \in Workdir, request[w] # None, request'[w] = request[w]
  PROVE  /\ request'[w].coll \in live' \cup gone'
         /\ request'[w].coll \in live' =>
              Exact(request'[w], history'[request'[w].coll], head'[request'[w].coll])
<1> DEFINE q == request[w]
           c == q.coll
<1>1. /\ c \in live \cup gone
      /\ c \in live => Exact(q, history[c], head[c])
  BY DEF WorkdirsInv, RequestsExact
<1>2. c \in live' \cup gone'
  BY <1>1 DEF Progress
<1>3. ASSUME c \in live' PROVE Exact(q, history'[c], head'[c])
  <2>1. c \in live
    BY <1>1, <1>3 DEF Progress
  <2>2. Grows(history[c], head[c], history'[c], head'[c])
    BY <1>3, <2>1 DEF Progress
  <2> QED BY <1>1, <2>1, <2>2, ExactKept
<1> QED BY <1>1, <1>2, <1>3

\* The changeset computed from two trees turns the one into the other.
LEMMA DiffExact ==
  ASSUME NEW before \in Tree, NEW after \in Tree, NEW id, NEW parent
  PROVE  Applied(NewChangeset(id, parent, Diff(before, after)), before) = after
<1> DEFINE ch == NewChangeset(id, parent, Diff(before, after))
<1>1. /\ ch.created = [p \in Paths |-> IF before[p] = None THEN after[p] ELSE None]
      /\ ch.updated = [p \in Paths |-> IF before[p] # None /\ before[p] # after[p]
                                       THEN after[p] ELSE None]
      /\ ch.deleted = Files(before) \ Files(after)
  BY DEF NewChangeset, Diff
<1> HIDE DEF ch
<1>2. \A p \in Paths : Applied(ch, before)[p] = after[p]
  BY <1>1 DEF Applied, Files
<1>3. Applied(ch, before) = [p \in Paths |-> Applied(ch, before)[p]]
  BY DEF Applied
<1>4. after = [p \in Paths |-> after[p]]
  BY DEF Tree
<1> QED BY <1>2, <1>3, <1>4 DEF ch

\* A copy of the collection as it is.
LEMMA FreshCopy ==
  ASSUME NEW c \in Colls, NEW h, Chain(h), NEW rev \in NamedIn(h)
  PROVE  LET m == [coll |-> c, rev |-> rev, seen |-> h, seenHead |-> Latest(h)]
         IN  m \in BupManifest /\ Seen(m, h, Latest(h)) /\ Latest(h) \in RevisionsIn(h)
<1>1. h \in Seq(Changeset) /\ Len(h) \in Nat /\ IDs(h) \subseteq ChangesetIDs
  BY ChainFacts DEF Chain
<1>2. Latest(h) \in RevisionsIn(h)
  <2>1. CASE Len(h) = 0
    BY <2>1 DEF Latest, Rev, RevisionsIn
  <2>2. CASE Len(h) # 0
    <3>1. Len(h) \in 1 .. Len(h) /\ IDs(h) = {h[k].id : k \in 1 .. Len(h)}
      BY <1>1, <2>2, ChainFacts
    <3> QED BY <2>2, <3>1 DEF Latest, Rev, RevisionsIn
  <2> QED BY <2>1, <2>2
<1> DEFINE m == [coll |-> c, rev |-> rev, seen |-> h, seenHead |-> Latest(h)]
<1>3. /\ m.coll = c /\ m.rev = rev /\ m.seen = h /\ m.seenHead = Latest(h)
      /\ m \in [coll : {c}, rev : {rev}, seen : {h}, seenHead : {Latest(h)}]
  OBVIOUS
<1>4. rev \in ClientRevisions /\ Latest(h) \in ChangesetIDs \cup {NoParentID}
  BY <1>1, <1>2 DEF NamedIn, RevisionsIn, ClientRevisions
<1>5. m \in BupManifest
  BY <1>1, <1>4 DEF BupManifest
<1> HIDE DEF m
<1>6. Seen(m, h, Latest(h))
  BY <1>1, <1>2, <1>3 DEF Seen, Continues
<1> QED BY <1>2, <1>5, <1>6 DEF m

LEMMA NoProgress ==
  ASSUME WorkdirsInv, UNCHANGED vars
  PROVE  Progress /\ CollInv'
<1>1. CollInv' /\ UNCHANGED <<live, gone, history, head>>
  BY StepInv DEF vars, histVars, WorkdirsInv
<1>2. \A c \in gone : c \notin live
  BY DEF WorkdirsInv, CollInv, TypeOK
<1> QED BY <1>1, <1>2, ProgressOfOthers DEF WorkdirsInv

LEMMA CloneKeeps ==
  ASSUME WorkdirsInv, NEW w \in Workdir, NEW c \in live, NEW requested \in Revisions(c) \cup {UnknownRevision},
         clone(w, c, requested)
  PROVE  WorkdirsInv'
<1> DEFINE rev == IF requested = NoParentID THEN head[c] ELSE requested
           m == [coll |-> c, rev |-> rev, seen |-> history[c], seenHead |-> head[c]]
<1>0. CollInv /\ WorkdirsTyped /\ ManifestsTrue /\ RequestsExact
  BY DEF WorkdirsInv
<1>1. manifest' = [manifest EXCEPT ![w] = m] /\ request' = request /\ UNCHANGED vars
  BY DEF clone
<1>2. Progress /\ CollInv' /\ UNCHANGED <<live, gone, history, head>>
  BY <1>1, NoProgress DEF vars, histVars
<1>3. c \in Colls /\ Chain(history[c]) /\ head[c] = Latest(history[c])
  BY <1>0, LiveChains
<1>4. rev \in NamedIn(history[c])
  <2>1. head[c] \in RevisionsIn(history[c])
    BY <1>3, FreshCopy DEF RevisionsIn, NamedIn
  <2> QED BY <2>1 DEF Revisions, RevisionsIn, NamedIn
<1> HIDE DEF rev
<1>5. m \in BupManifest /\ Seen(m, history[c], head[c]) /\ head[c] \in RevisionsIn(history[c])
  BY <1>3, <1>4, FreshCopy
<1>6. m.coll = c /\ m.rev = rev /\ m.seen = history[c] /\ m.seenHead = head[c]
  OBVIOUS
<1> HIDE DEF m
<1>7. manifest'[w] = m /\ \A v \in Workdir \ {w} : manifest'[v] = manifest[v]
  BY <1>0, <1>1 DEF WorkdirsTyped
<1>8. WorkdirsTyped'
  BY <1>0, <1>1, <1>5 DEF WorkdirsTyped
<1>9. ASSUME NEW v \in Workdir, manifest'[v] # None
      PROVE  /\ manifest'[v].rev \in NamedIn(manifest'[v].seen)
             /\ manifest'[v].seenHead \in RevisionsIn(manifest'[v].seen)
             /\ manifest'[v].coll \in live' \cup gone'
             /\ manifest'[v].coll \in live' =>
                  Seen(manifest'[v], history'[manifest'[v].coll], head'[manifest'[v].coll])
  <2>1. CASE v = w
    BY <1>2, <1>4, <1>5, <1>6, <1>7, <2>1
  <2>2. CASE v # w
    BY <1>2, <1>7, <1>9, <2>2, ManifestsKept
  <2> QED BY <2>1, <2>2
<1>10. ManifestsTrue'
  BY <1>9 DEF ManifestsTrue
<1>11. RequestsExact'
  BY <1>0, <1>1, <1>2 DEF RequestsExact
<1> QED BY <1>2, <1>8, <1>10, <1>11 DEF WorkdirsInv

LEMMA RemoveKeeps ==
  ASSUME WorkdirsInv, NEW w \in Workdir, rm(w)
  PROVE  WorkdirsInv'
<1>0. CollInv /\ WorkdirsTyped /\ ManifestsTrue /\ RequestsExact
  BY DEF WorkdirsInv
<1>1. manifest' = [manifest EXCEPT ![w] = None] /\ request' = request /\ UNCHANGED vars
  BY DEF rm
<1>2. CollInv' /\ UNCHANGED <<live, gone, history, head>>
  BY <1>1, NoProgress DEF vars, histVars
<1>3. manifest'[w] = None /\ \A v \in Workdir \ {w} : manifest'[v] = manifest[v]
  BY <1>0, <1>1 DEF WorkdirsTyped
<1>4. WorkdirsTyped'
  BY <1>0, <1>1 DEF WorkdirsTyped
<1>5. ManifestsTrue'
  BY <1>0, <1>2, <1>3 DEF ManifestsTrue
<1>6. RequestsExact'
  BY <1>0, <1>1, <1>2 DEF RequestsExact
<1> QED BY <1>2, <1>4, <1>5, <1>6 DEF WorkdirsInv

\* A changeset that is exact may be sent.
LEMMA SendKeeps ==
  ASSUME WorkdirsInv, NEW w \in Workdir, NEW c \in Colls, NEW ch \in SentChangeset,
         NEW read \in Tree, NEW unread \in SUBSET Paths, Send(w, c, ch, read, unread),
         c \in live \cup gone,
         c \in live => /\ ch.parent \in NamedIn(history[c])
                       /\ ch.parent = head[c] =>
                            Applied(ch, StateAt(history[c], head[c]))
                              = Taken(StateAt(history[c], head[c]), read, unread)
  PROVE  WorkdirsInv'
<1> DEFINE q == [coll |-> c, ch |-> ch, read |-> read, unread |-> unread]
<1>0. CollInv /\ WorkdirsTyped /\ ManifestsTrue /\ RequestsExact
  BY DEF WorkdirsInv
<1>1. request' = [request EXCEPT ![w] = q] /\ manifest' = manifest /\ UNCHANGED vars
  BY DEF Send
<1>2. CollInv' /\ UNCHANGED <<live, gone, history, head>>
  BY <1>1, NoProgress DEF vars, histVars
<1>3. q \in Request /\ q.coll = c /\ q.ch = ch /\ q.read = read /\ q.unread = unread
  BY DEF Request
<1> HIDE DEF q
<1>4. request'[w] = q /\ \A v \in Workdir \ {w} : request'[v] = request[v]
  BY <1>0, <1>1 DEF WorkdirsTyped
<1>5. WorkdirsTyped'
  BY <1>0, <1>1, <1>3 DEF WorkdirsTyped
<1>6. ManifestsTrue'
  BY <1>0, <1>1, <1>2 DEF ManifestsTrue
<1>7. c \in live => Exact(q, history[c], head[c])
  BY <1>3 DEF Exact
<1>8. RequestsExact'
  BY <1>0, <1>2, <1>3, <1>4, <1>7 DEF RequestsExact
<1> QED BY <1>2, <1>5, <1>6, <1>8 DEF WorkdirsInv

LEMMA TakenType ==
  ASSUME NEW before \in Tree, NEW found \in Tree, NEW unread \in SUBSET Paths
  PROVE  /\ Taken(before, found, unread) \in Tree
         /\ Only(Paths \ unread, found) \in Tree
         /\ Taken(before, Only(Paths \ unread, found), unread) = Taken(before, found, unread)
BY DEF Taken, Only, Tree

\* Whatever a directory's copy of the record resolves to, what is sent are files
\* that were found.
LEMMA SentType ==
  ASSUME NEW before, NEW found \in Tree, NEW unread \in SUBSET Paths,
         NEW id \in ChangesetIDs, NEW parent \in ClientRevisions
  PROVE  NewChangeset(id, parent, Diff(before, Taken(before, found, unread))) \in SentChangeset
<1> DEFINE taken == Taken(before, found, unread)
           d == Diff(before, taken)
<1>1. \A p \in Paths : found[p] \in Contents \cup {None}
  BY DEF Tree
<1>2. \A p \in Paths : taken[p] = IF p \in unread THEN before[p] ELSE found[p]
  BY DEF Taken
<1> HIDE DEF taken
<1>3. d.created \in Tree /\ d.updated \in Tree /\ d.deleted \in SUBSET Paths
  BY <1>1, <1>2 DEF Diff, Tree, Files
<1> HIDE DEF d
<1> QED BY <1>3 DEF NewChangeset, SentChangeset, d, taken

LEMMA PushKeeps ==
  ASSUME WorkdirsInv, NEW w \in Workdir, NEW found \in Tree, NEW unread \in SUBSET Paths,
         NEW id \in ChangesetIDs, push(w, found, unread, id)
  PROVE  WorkdirsInv'
<1> DEFINE m == manifest[w]
           c == m.coll
           before == StateAt(m.seen, m.seenHead)
           read == Only(Paths \ unread, found)
           ch == NewChangeset(id, m.rev, Diff(before, Taken(before, found, unread)))
<1>1. Send(w, c, ch, read, unread) /\ m # None /\ unread \subseteq Files(before)
  BY DEF push, computeChangeset, Before, KnownFiles
<1>2. /\ m \in BupManifest /\ c \in live \cup gone
      /\ m.seenHead \in RevisionsIn(m.seen)
      /\ c \in live => Seen(m, history[c], head[c])
  BY <1>1 DEF WorkdirsInv, WorkdirsTyped, ManifestsTrue
<1>3. c \in Colls /\ m.rev \in ClientRevisions
  BY <1>2 DEF BupManifest
<1>4. read \in Tree
  BY DEF Only, Tree
<1>5. ch \in SentChangeset /\ ch.parent = m.rev
  <2>1. ch \in SentChangeset
    BY <1>3, SentType
  <2> QED BY <2>1 DEF NewChangeset
<1>6. ASSUME c \in live, m.rev = head[c]
      PROVE  Applied(ch, StateAt(history[c], head[c]))
               = Taken(StateAt(history[c], head[c]), read, unread)
  <2>1. before = StateAt(history[c], head[c])
    BY <1>2, <1>6 DEF Seen
  <2>2. before \in Tree
    BY <1>6, <2>1, LiveChains, HeadState DEF WorkdirsInv, CollInv, StateAtHead
  <2> HIDE DEF before
  <2>3. Taken(before, found, unread) \in Tree
    BY <2>2, TakenType
  <2>4. Applied(ch, before) = Taken(before, found, unread)
    BY <2>2, <2>3, DiffExact
  <2>5. Taken(before, read, unread) = Taken(before, found, unread)
    BY <2>2, TakenType
  <2> QED BY <2>1, <2>4, <2>5
<1>7. c \in live => m.rev \in NamedIn(history[c])
  BY <1>2 DEF Seen
<1> HIDE DEF ch, c, read
<1> QED BY <1>1, <1>2, <1>3, <1>4, <1>5, <1>6, <1>7, SendKeeps

LEMMA PushOneKeeps ==
  ASSUME WorkdirsInv, NEW w \in Workdir, NEW c \in live, NEW p \in Paths, NEW x \in Contents,
         NEW id \in ChangesetIDs, pushOne(w, c, p, x, id)
  PROVE  WorkdirsInv'
<1> DEFINE file == [NoFiles EXCEPT ![p] = x]
           ch == [id |-> id, parent |-> head[c], created |-> file,
                  updated |-> NoFiles, deleted |-> {}]
           tree == StateAtHead(c)
           unread == Paths \ {p}
<1>1. Send(w, c, ch, file, unread)
  BY DEF pushOne
<1>2. c \in Colls /\ Chain(history[c]) /\ head[c] = Latest(history[c]) /\ tree \in Tree
  BY LiveChains, HeadState DEF WorkdirsInv, CollInv
<1>3. head[c] \in NamedIn(history[c]) /\ head[c] \in ClientRevisions
  <2>1. head[c] \in RevisionsIn(history[c])
    BY <1>2, FreshCopy DEF RevisionsIn, NamedIn
  <2>2. head[c] \in ChangesetIDs \cup {NoParentID}
    BY <1>2 DEF WorkdirsInv, CollInv, TypeOK
  <2> QED BY <2>1, <2>2 DEF NamedIn, ClientRevisions
<1>4. file \in Tree /\ file[p] = x /\ \A q \in Paths \ {p} : file[q] = None
  BY DEF NoFiles, Tree
<1>5. ch \in SentChangeset
  BY <1>3, <1>4, NoFilesType DEF SentChangeset
<1>6. ch.parent = head[c] /\ ch.created = file /\ ch.updated = NoFiles /\ ch.deleted = {}
  OBVIOUS
<1> HIDE DEF ch, file, tree
<1>7. Applied(ch, tree) = Taken(tree, file, unread)
  <2>1. \A q \in Paths : NoFiles[q] = None
    BY DEF NoFiles
  <2>2. x # None
    BY NoneAssumption
  <2> QED BY <1>4, <1>6, <2>1, <2>2 DEF Applied, Taken
<1>8. Applied(ch, StateAt(history[c], head[c])) = Taken(StateAt(history[c], head[c]), file, unread)
  BY <1>7 DEF tree, StateAtHead
<1>9. unread \in SUBSET Paths
  OBVIOUS
<1> HIDE DEF unread
<1> QED BY <1>1, <1>2, <1>3, <1>4, <1>5, <1>6, <1>8, <1>9, SendKeeps

LEMMA CommitFacts ==
  ASSUME WorkdirsInv, NEW w \in Workdir, Commit(w)
  PROVE  /\ request[w] \in Request
         /\ request[w].coll \in live
         /\ CommitChangeset(request[w].coll, request[w].ch)
         /\ Progress /\ CollInv'
         /\ request[w].ch.parent = head[request[w].coll]
         /\ StateAt(history'[request[w].coll], head'[request[w].coll])
              = Applied(request[w].ch, StateAtHead(request[w].coll))
<1> DEFINE c == request[w].coll
           ch == request[w].ch
<1>1. request[w] \in Request /\ CommitChangeset(c, ch) /\ c \in live
  BY DEF Commit, CommitChangeset, WorkdirsInv, WorkdirsTyped
<1>2. ch \in Changeset
  <2>1. ch \in SentChangeset /\ ch.parent \in {NoParentID} \cup IDs(history[c])
    BY <1>1 DEF Request, CommitChangeset
  <2>2. IDs(history[c]) \subseteq ChangesetIDs
    BY <1>1, LiveChains, ChainFacts DEF WorkdirsInv
  <2> QED BY <2>1, <2>2 DEF SentChangeset, Changeset
<1> QED BY <1>1, <1>2, CommitKeeps, ProgressOfCommit DEF WorkdirsInv

LEMMA CommittingKeeps ==
  ASSUME WorkdirsInv, NEW w \in Workdir, Commit(w)
  PROVE  WorkdirsInv'
<1>0. CollInv /\ WorkdirsTyped /\ ManifestsTrue /\ RequestsExact
  BY DEF WorkdirsInv
<1>1. Progress /\ CollInv'
  BY CommitFacts
<1>2. /\ request' = [request EXCEPT ![w] = None]
      /\ manifest' = manifest \/ manifest' = [manifest EXCEPT ![w] = AfterPush(w)]
  BY DEF Commit
<1>3. request'[w] = None /\ \A v \in Workdir \ {w} : request'[v] = request[v]
  BY <1>0, <1>2 DEF WorkdirsTyped
<1>4. \A v \in Workdir \ {w} : manifest'[v] = manifest[v]
  BY <1>0, <1>2 DEF WorkdirsTyped
<1>5. manifest'[w] = manifest[w] \/ manifest'[w] = AfterPush(w)
  BY <1>0, <1>2 DEF WorkdirsTyped
<1>6. ASSUME manifest[w] # None
      PROVE  LET c == manifest[w].coll
             IN  /\ AfterPush(w) \in BupManifest
                 /\ AfterPush(w).rev \in NamedIn(AfterPush(w).seen)
                 /\ AfterPush(w).seenHead \in RevisionsIn(AfterPush(w).seen)
                 /\ AfterPush(w).coll \in live' \cup gone'
                 /\ Seen(AfterPush(w), history'[AfterPush(w).coll], head'[AfterPush(w).coll])
  <2> DEFINE c == manifest[w].coll
             m == [coll |-> c, rev |-> head'[c], seen |-> history'[c], seenHead |-> head'[c]]
  <2>1. AfterPush(w) = m
    BY <1>6 DEF AfterPush
  <2>2. c \in Colls /\ c \in live \cup gone
    BY <1>0, <1>6 DEF WorkdirsTyped, ManifestsTrue, BupManifest
  <2>3. Chain(history'[c]) /\ head'[c] = Latest(history'[c])
    BY <1>1, <2>2 DEF CollInv, HistoriesChain
  <2>4. head'[c] \in RevisionsIn(history'[c])
    BY <2>2, <2>3, FreshCopy DEF RevisionsIn, NamedIn
  <2>5. m \in BupManifest /\ Seen(m, history'[c], head'[c])
    BY <2>2, <2>3, <2>4, FreshCopy DEF NamedIn
  <2>6. m.coll = c /\ m.rev = head'[c] /\ m.seen = history'[c] /\ m.seenHead = head'[c]
    OBVIOUS
  <2> HIDE DEF m
  <2>7. c \in live' \cup gone'
    BY <1>1, <2>2 DEF Progress
  <2> QED BY <2>1, <2>4, <2>5, <2>6, <2>7 DEF NamedIn
<1>7. manifest[w] = None => AfterPush(w) = None
  BY DEF AfterPush
<1>8. WorkdirsTyped'
  BY <1>0, <1>2, <1>6, <1>7 DEF WorkdirsTyped
<1>9. ASSUME NEW v \in Workdir, manifest'[v] # None
      PROVE  /\ manifest'[v].rev \in NamedIn(manifest'[v].seen)
             /\ manifest'[v].seenHead \in RevisionsIn(manifest'[v].seen)
             /\ manifest'[v].coll \in live' \cup gone'
             /\ manifest'[v].coll \in live' =>
                  Seen(manifest'[v], history'[manifest'[v].coll], head'[manifest'[v].coll])
  <2>1. CASE manifest'[v] = manifest[v]
    BY <1>1, <1>9, <2>1, ManifestsKept
  <2>2. CASE v = w /\ manifest'[w] = AfterPush(w)
    BY <1>6, <1>7, <1>9, <2>2
  <2> QED BY <1>4, <1>5, <2>1, <2>2
<1>10. ManifestsTrue'
  BY <1>9 DEF ManifestsTrue
<1>11. ASSUME NEW v \in Workdir, request'[v] # None
       PROVE  /\ request'[v].coll \in live' \cup gone'
              /\ request'[v].coll \in live' =>
                   Exact(request'[v], history'[request'[v].coll], head'[request'[v].coll])
  BY <1>1, <1>3, <1>11, RequestsKept
<1>12. RequestsExact'
  BY <1>11 DEF RequestsExact
<1> QED BY <1>1, <1>8, <1>10, <1>12 DEF WorkdirsInv

LEMMA AbandonKeeps ==
  ASSUME WorkdirsInv, NEW w \in Workdir, Abandon(w)
  PROVE  WorkdirsInv'
<1>0. CollInv /\ WorkdirsTyped /\ ManifestsTrue /\ RequestsExact
  BY DEF WorkdirsInv
<1>1. request' = [request EXCEPT ![w] = None] /\ manifest' = manifest /\ UNCHANGED vars
  BY DEF Abandon
<1>2. CollInv' /\ UNCHANGED <<live, gone, history, head>>
  BY <1>1, NoProgress DEF vars, histVars
<1>3. request'[w] = None /\ \A v \in Workdir \ {w} : request'[v] = request[v]
  BY <1>0, <1>1 DEF WorkdirsTyped
<1>4. WorkdirsTyped' /\ ManifestsTrue'
  BY <1>0, <1>1, <1>2 DEF WorkdirsTyped, ManifestsTrue
<1>5. RequestsExact'
  BY <1>0, <1>2, <1>3 DEF RequestsExact
<1> QED BY <1>2, <1>4, <1>5 DEF WorkdirsInv

LEMMA ElsewhereKeeps ==
  ASSUME WorkdirsInv, Elsewhere
  PROVE  WorkdirsInv'
<1>0. CollInv /\ WorkdirsTyped
  BY DEF WorkdirsInv
<1>1. (ClientCommit \/ ServerStep) /\ manifest' = manifest /\ request' = request
  BY DEF Elsewhere, clientVars
<1>2. Progress /\ CollInv'
  BY <1>0, <1>1, ServerProgress, StepInv DEF Next
<1>3. WorkdirsTyped'
  BY <1>0, <1>1 DEF WorkdirsTyped
<1>4. ManifestsTrue'
  BY <1>1, <1>2, ManifestsKept DEF ManifestsTrue
<1>5. RequestsExact'
  BY <1>1, <1>2, RequestsKept DEF RequestsExact
<1> QED BY <1>2, <1>3, <1>4, <1>5 DEF WorkdirsInv

LEMMA WorkdirsStepInv ==
  ASSUME WorkdirsInv, [WorkdirsNext]_allVars
  PROVE  WorkdirsInv'
<1>1. CASE UNCHANGED allVars
  <2>1. UNCHANGED vars /\ manifest' = manifest /\ request' = request
    BY <1>1 DEF allVars, clientVars
  <2>2. CollInv' /\ UNCHANGED <<live, gone, history, head>>
    BY <2>1, NoProgress DEF vars, histVars
  <2> QED BY <2>1, <2>2 DEF WorkdirsInv, WorkdirsTyped, ManifestsTrue, RequestsExact
<1>2. ASSUME NEW w \in Workdir, Client(w) PROVE WorkdirsInv'
  BY <1>2, CloneKeeps, RemoveKeeps, PushKeeps, PushOneKeeps, CommittingKeeps, AbandonKeeps
     DEF Client
<1> QED BY <1>1, <1>2, ElsewhereKeeps DEF WorkdirsNext

THEOREM WorkdirsInvariant == WorkdirsSpec => []WorkdirsInv
<1>1. WorkdirsInit => WorkdirsInv
  BY InitInv DEF WorkdirsInit, WorkdirsInv, WorkdirsTyped, ManifestsTrue, RequestsExact
<1> QED BY <1>1, WorkdirsStepInv, PTL DEF WorkdirsSpec

\* Types; a directory's revision is one of the changesets it has seen, or one
\* that the collection never had.
THEOREM WorkdirsTypeCorrect == WorkdirsSpec => []WorkdirsTypeOK
<1>1. WorkdirsInv => WorkdirsTypeOK
  BY DEF WorkdirsInv, CollInv, WorkdirsTyped, ManifestsTrue, RevisionsIn, NamedIn, WorkdirsTypeOK
<1> QED BY <1>1, WorkdirsInvariant, PTL

\* The copy of a collection that .varasto holds is a beginning of what the
\* server has, whoever committed since and whatever answers were lost.
THEOREM CopiesStayTrue == WorkdirsSpec => []SeenStaysTrue
<1>1. WorkdirsInv => SeenStaysTrue
  <2> SUFFICES ASSUME WorkdirsInv, NEW w \in Workdir, manifest[w] # None, manifest[w].coll \in live
               PROVE  IsPrefix(manifest[w].seen, history[manifest[w].coll])
    BY DEF SeenStaysTrue
  <2> DEFINE s == manifest[w].seen
             h == history[manifest[w].coll]
  <2>1. s \in Seq(Changeset) /\ h \in Seq(Changeset) /\ Continues(h, s)
    BY LiveChains DEF WorkdirsInv, WorkdirsTyped, ManifestsTrue, BupManifest, Seen
  <2> HIDE DEF s, h
  <2>2. SubSeq(s, 1, Len(s)) = SubSeq(h, 1, Len(s))
    BY <2>1 DEF Continues
  <2>3. IsPrefix(s, h)
    BY <2>1, <2>2 DEF IsPrefix, Continues
  <2> QED BY <2>3 DEF s, h
<1> QED BY <1>1, WorkdirsInvariant, PTL

LEMMA NoChangesMeansSame ==
  ASSUME NEW before \in Tree, NEW after \in Tree, ~AnyChanges(Diff(before, after))
  PROVE  before = after
<1>1. ASSUME NEW p \in Paths PROVE before[p] = after[p]
  <2>1. p \notin Files(Diff(before, after).created) /\ p \notin Files(Diff(before, after).updated)
    BY DEF AnyChanges
  <2>2. p \notin Files(before) \ Files(after)
    BY DEF AnyChanges, Diff
  <2> QED BY <2>1, <2>2 DEF Diff, Files
<1> QED BY <1>1 DEF Tree

\* rm deletes no file that it has read and that is not the same in a revision of
\* the collection, and that revision has the files it deletes and no others,
\* although the comparison is with a copy that other clients may have left behind.
THEOREM NothingUnsavedIsRemoved == WorkdirsSpec => []RemovesOnlyCopies
<1>1. WorkdirsInv => RemovesOnlyCopies
  <2> SUFFICES ASSUME WorkdirsInv, NEW w \in Workdir, NEW found \in Tree,
                      NEW unread \in SUBSET Paths,
                      manifest[w] # None, manifest[w].coll \in live, MayRemove(w, found, unread)
               PROVE  \E rev \in Revisions(manifest[w].coll) :
                        LET tree == StateAt(history[manifest[w].coll], rev)
                        IN  /\ Files(tree) = Files(found)
                            /\ \A p \in Files(found) \ unread : tree[p] = found[p]
    BY DEF RemovesOnlyCopies
  <2> DEFINE m == manifest[w]
             c == m.coll
             before == StateAt(m.seen, m.seenHead)
             taken == Taken(before, found, unread)
  <2>1. c \in live /\ Seen(m, history[c], head[c])
    BY DEF WorkdirsInv, ManifestsTrue
  <2>2. Chain(history[c])
    BY <2>1, LiveChains DEF WorkdirsInv
  <2>3. m.seenHead \in RevisionsIn(history[c]) /\ before = StateAt(history[c], m.seenHead)
    BY <2>1 DEF Seen
  <2>4. PICK k \in 0 .. Len(history[c]) : m.seenHead = Rev(history[c], k)
    BY <2>2, <2>3, RevisionAt
  <2>5. before \in Tree
    BY <2>2, <2>3, <2>4, StateAtType
  <2>6. ~AnyChanges(Diff(before, taken)) /\ unread \subseteq Files(before) \cap Files(found)
    BY DEF MayRemove, computeChangeset, Before, KnownFiles
  <2> HIDE DEF before
  <2>7. before = taken
    BY <2>5, <2>6, TakenType, NoChangesMeansSame
  <2>8. \A p \in Paths : before[p] = IF p \in unread THEN before[p] ELSE found[p]
    BY <2>7 DEF Taken
  <2>9. Files(before) = Files(found) /\ \A p \in Files(found) \ unread : before[p] = found[p]
    BY <2>6, <2>8 DEF Files
  <2> QED BY <2>3, <2>9 DEF Revisions, RevisionsIn
<1> QED BY <1>1, WorkdirsInvariant, PTL

\* A push that is accepted makes the collection what its sender read, and leaves
\* what it did not read as it is in the collection: from a directory cloned at any
\* revision, an unknown one included, and whoever committed in between.
THEOREM PushesAreExact == WorkdirsSpec => PushIsExact
<1>1. ASSUME WorkdirsInv, [WorkdirsNext]_allVars, NEW w \in Workdir,
             request[w] # None, request'[w] = None, history' # history
      PROVE  Commit(w)
  <2>1. ~UNCHANGED allVars /\ ~Elsewhere
    BY <1>1 DEF allVars, vars, histVars, Elsewhere, clientVars
  <2>2. PICK v \in Workdir : Client(v)
    BY <1>1, <2>1 DEF WorkdirsNext
  <2>3. Commit(v)
    BY <1>1, <2>2 DEF Client, clone, rm, push, pushOne, Send, Abandon, vars, histVars
  <2>4. v = w
    BY <1>1, <2>3 DEF Commit, WorkdirsInv, WorkdirsTyped
  <2> QED BY <2>3, <2>4
<1>2. ASSUME WorkdirsInv, NEW w \in Workdir, Commit(w)
      PROVE  LET c == request[w].coll
             IN  StateAt(history'[c], head'[c])
                   = Taken(StateAtHead(c), request[w].read, request[w].unread)
  <2> DEFINE c == request[w].coll
  <2>1. /\ c \in live /\ request[w].ch.parent = head[c]
        /\ StateAt(history'[c], head'[c]) = Applied(request[w].ch, StateAtHead(c))
    BY <1>2, CommitFacts
  <2>2. Exact(request[w], history[c], head[c])
    BY <1>2, <2>1 DEF Commit, WorkdirsInv, RequestsExact
  <2> QED BY <2>1, <2>2 DEF Exact, StateAtHead
<1>3. WorkdirsInv /\ [WorkdirsNext]_allVars =>
        [\A w \in Workdir :
           LET c == request[w].coll
           IN  request[w] # None /\ request'[w] = None /\ history' # history
                 => StateAt(history'[c], head'[c])
                      = Taken(StateAtHead(c), request[w].read, request[w].unread)]_allVars
  BY <1>1, <1>2
<1> QED BY <1>3, WorkdirsInvariant, PTL DEF WorkdirsSpec, PushIsExact
=============================================================================
