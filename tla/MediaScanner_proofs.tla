-------------------------- MODULE MediaScanner_proofs --------------------------
(***************************************************************************)
(* Proofs about MediaScanner: any collections, files and contents, scans   *)
(* by hand and by the task, feeds of any size and any number of failures.  *)
(*                                                                         *)
(* The server's collections are put into one record, Colls, that lemmas    *)
(* can take as a parameter: what the scanner knows is related to it, and a *)
(* step of a client only replaces it by one in which all that changed got  *)
(* a version higher than any before (Renewed).                             *)
(***************************************************************************)
EXTENDS MediaScanner, FiniteSetTheorems, WellFoundedInduction, TLAPS

(***************************************************************************)
(* The inductive invariant, in two parts: of the collections, and of the   *)
(* scanner with what it may miss in them.                                  *)
(***************************************************************************)
UniqueVersions ==
  \A c, d \in ScanColls : version[c] = version[d] /\ version[c] # 0 => c = d

CollsInv ==
  /\ clock \in Nat
  /\ version \in [ScanColls -> 0..clock]
  /\ head \in [ScanColls -> Nat]
  /\ files \in [ScanColls -> SUBSET MediaFiles]
  /\ thumbs \in [ScanColls -> SUBSET ScanContents]
  /\ skipped \in [ScanColls -> SUBSET ScanContents]
  /\ UniqueVersions
  /\ \A c \in ScanColls : version[c] = 0 => files[c] = {}

\* The collections, as far as the scanner is concerned.
Colls ==
  [clock |-> clock, version |-> version, files |-> files, thumbs |-> thumbs, skipped |-> skipped]

Owed(k, c) == Lacking(k.files[c], k.thumbs[c]) \ k.skipped[c]

Numbered(k) == k.clock \in Nat /\ k.version \in [ScanColls -> 0..k.clock]

Changes(k) == [version : 1..k.clock, coll : ScanColls]
ScannerStates(k) ==
  [pc : {"dead", "polling", "items"}, cursor : 0..k.clock, known : 0..k.clock, feed : SUBSET Changes(k)]

Fetches == [pc : {"fetch"}, coll : ScanColls, destructive : BOOLEAN]
Batches ==
  [pc : {"batch"}, coll : ScanColls, destructive : BOOLEAN, version : Nat, head : Nat,
   files : SUBSET MediaFiles, thumbs : SUBSET ScanContents]

\* A batch works on the collection as it was: at the version it was fetched at.
Snapshot(k, b) ==
  /\ b.version \in 1..k.clock
  /\ k.version[b.coll] = 0 \/ b.version <= k.version[b.coll]
  /\ b.version = k.version[b.coll] => b.files = k.files[b.coll] /\ b.thumbs = k.thumbs[b.coll]

NothingMissed(k, cursor) == \A c \in ScanColls : Owed(k, c) # {} => k.version[c] > cursor

\* The feed holds what changed after the cursor, but for what has changed
\* again, or was left out of it, and comes after all of it.
FeedInv(k, s) ==
  /\ s.feed # {}
  /\ \A x \in s.feed : x.version > s.cursor /\ (k.version[x.coll] = 0 \/ x.version <= k.version[x.coll])
  /\ \A x, y \in s.feed : x.version = y.version => x = y
  /\ \A c \in ScanColls : k.version[c] > s.cursor =>
       \/ [version |-> k.version[c], coll |-> c] \in s.feed
       \/ \A x \in s.feed : x.version < k.version[c]

\* The task works on the oldest change of its feed.
OnItem(s, scan) ==
  /\ scan.pc \in {"fetch", "batch"} /\ scan.coll = Oldest(s.feed).coll
  /\ scan.pc = "batch" => Oldest(s.feed).version <= scan.version

ScansInv(k, sc) ==
  /\ sc \in [Scanners -> {NoScan} \union Fetches \union Batches]
  /\ \A w \in Scanners : sc[w].pc = "batch" => Snapshot(k, sc[w])

TaskInv(k, sv, s, sc) ==
  /\ sv \in 0..k.clock /\ s \in ScannerStates(k)
  /\ ScansInv(k, sc)
  /\ NothingMissed(k, sv) /\ (s.pc # "dead" => NothingMissed(k, s.cursor))
  /\ IF s.pc = "items" THEN FeedInv(k, s) /\ OnItem(s, sc["task"]) ELSE sc["task"] = NoScan

ScannerInv == CollsInv /\ TaskInv(Colls, saved, scanner, scans) /\ events \in 0..MaxEvents

(***************************************************************************)
(* Facts about feeds and batches.                                          *)
(***************************************************************************)
LEMMA LeastVersion ==
  ASSUME NEW S, S # {}, \A x \in S : x.version \in Nat
  PROVE  Oldest(S) \in S /\ \A y \in S : Oldest(S).version <= y.version
<1> DEFINE V == {x.version : x \in S}
<1>1. V # {} /\ V \in SUBSET Nat
  OBVIOUS
<1>2. PICK n \in V : \A m \in V : ~(<<m, n>> \in OpToRel(<, Nat))
  BY <1>1, NatLessThanWellFounded, WFMin
<1>3. \A m \in V : ~(m < n)
  BY <1>1, <1>2 DEF OpToRel
<1>4. \E x \in S : \A y \in S : x.version <= y.version
  <2>1. PICK x \in S : x.version = n
    BY <1>2
  <2>2. \A y \in S : x.version <= y.version
    BY <2>1, <1>1, <1>3
  <2> QED BY <2>2
<1> QED BY <1>4 DEF Oldest

LEMMA OldestOfFeed ==
  ASSUME NEW n \in Nat, NEW S \in SUBSET [version : 1..n, coll : ScanColls], S # {}
  PROVE  /\ Oldest(S) \in S /\ Oldest(S).version \in 1..n /\ Oldest(S).coll \in ScanColls
         /\ \A y \in S : Oldest(S).version <= y.version
<1>1. \A x \in S : x.version \in Nat
  OBVIOUS
<1>2. Oldest(S) \in S /\ \A y \in S : Oldest(S).version <= y.version
  BY <1>1, LeastVersion
<1> QED BY <1>2

\* A batch that makes nothing has found of every image that none can be made.
LEMMA OutcomeOfBatch ==
  ASSUME NEW scan \in Batches, NEW result \in Outcomes(scan)
  PROVE  /\ result.made \subseteq ScanContents /\ result.failed \subseteq ScanContents
         /\ result.made = {} => result.failed = Lacking(scan.files, scan.thumbs)
<1> DEFINE banner  == IF scan.coll \in Known THEN {Banner} ELSE {}
           lacking == Lacking(scan.files, scan.thumbs)
           moved   == {Content[u] : u \in Moved(scan)} \ scan.thumbs
<1>1. PICK found \in SUBSET (banner \ scan.thumbs), made \in SUBSET lacking, failed \in SUBSET lacking :
        /\ result = [made |-> moved \union found \union made, failed |-> failed,
                     more |-> made \union failed # lacking]
        /\ made \union failed # lacking => Cardinality(moved \union found) + Cardinality(made) > ImageLimit
  BY DEF Outcomes
<1>2. /\ lacking \subseteq ScanContents /\ moved \subseteq ScanContents /\ banner \subseteq ScanContents
  BY DEF Batches, Lacking, Moved, ScanContents, MediaFiles
<1>3. result.made = moved \union found \union made /\ result.failed = failed
  BY <1>1
<1>4. ASSUME result.made = {} PROVE failed = lacking
  <2>1. moved \union found = {} /\ made = {}
    BY <1>3, <1>4
  <2>2. Cardinality(moved \union found) + Cardinality(made) = 0
    BY <2>1, FS_EmptySet
  <2>3. ~(0 > ImageLimit)
    BY MediaScannerAssumption
  <2>4. made \union failed = lacking
    BY <1>1, <2>2, <2>3
  <2> QED BY <2>1, <2>4
<1> QED BY <1>1, <1>2, <1>3, <1>4

\* What Poll asks for has FeedInv.
LEMMA FeedOfPoll ==
  ASSUME CollsInv, NEW cursor \in 0..clock, NEW feed, feed = CollectionChangefeed(cursor)
  PROVE  /\ feed \in SUBSET Changes(Colls)
         /\ \A x \in feed : x.version > cursor /\ version[x.coll] = x.version
         /\ \A c \in ScanColls : version[c] > cursor =>
              \/ [version |-> version[c], coll |-> c] \in feed
              \/ \A x \in feed : x.version < version[c]
<1> DEFINE changed == {x \in ScanColls : version[x] > cursor}
           after == {[version |-> version[c], coll |-> c] : c \in changed}
           Older(n) == {y \in after : y.version < n}
<1>1. feed = {x \in after : Cardinality(Older(x.version)) < FeedLimit}
  BY DEF CollectionChangefeed
<1>2. version \in [ScanColls -> 0..clock] /\ clock \in Nat
  BY DEF CollsInv
<1>3. ASSUME NEW x \in after
      PROVE  x.coll \in ScanColls /\ x.version > cursor /\ version[x.coll] = x.version /\ x \in Changes(Colls)
  BY <1>2 DEF Changes, Colls
<1>4. IsFiniteSet(after)
  <2>1. IsFiniteSet(changed)
    BY MediaScannerAssumption, FS_Subset
  <2> DEFINE f == [c \in changed |-> [version |-> version[c], coll |-> c]]
  <2>2. f \in Surjection(changed, after)
    BY DEF Surjection
  <2> QED BY <2>1, <2>2, FS_Surjection
<1>5. ASSUME NEW c \in ScanColls, version[c] > cursor, NEW x \in feed, ~(x.version < version[c])
      PROVE  [version |-> version[c], coll |-> c] \in feed
  <2> DEFINE me == [version |-> version[c], coll |-> c]
  <2>1. me \in after /\ me.version = version[c]
    BY <1>5
  <2>2. x \in after /\ Cardinality(Older(x.version)) < FeedLimit /\ x.version \in Nat
    BY <1>1, <1>2, <1>3 DEF Changes, Colls
  <2>3. Older(version[c]) \subseteq Older(x.version)
    <3>1. \A y \in after : y.version \in Nat
      BY <1>2, <1>3 DEF Changes, Colls
    <3> QED BY <3>1, <2>2, <1>2, <1>5
  <2>4. IsFiniteSet(Older(x.version))
    BY <1>4, FS_Subset
  <2> HIDE DEF Older
  <2>5. /\ Cardinality(Older(version[c])) \in Nat /\ Cardinality(Older(x.version)) \in Nat
        /\ Cardinality(Older(version[c])) <= Cardinality(Older(x.version))
    BY <2>3, <2>4, FS_Subset, FS_CardinalityType
  <2>6. Cardinality(Older(me.version)) < FeedLimit
    BY <2>1, <2>2, <2>5, MediaScannerAssumption
  <2> QED BY <2>1, <2>6, <1>1
<1> HIDE DEF after
<1>6. \A x \in feed : x \in after
  BY <1>1
<1> QED BY <1>3, <1>5, <1>6

(***************************************************************************)
(* What a change of collections leaves true of the scanner: whatever it    *)
(* changes gets a version of its own, after all the others, or is gone.    *)
(***************************************************************************)
Renewed(k, k2) ==
  /\ k.clock <= k2.clock
  /\ \A c \in ScanColls :
       \/ k2.version[c] > k.clock
       \/ k2.version[c] = 0 /\ k2.files[c] = {}
       \/ /\ k2.version[c] = k.version[c] /\ k2.files[c] = k.files[c] /\ k2.thumbs[c] = k.thumbs[c]
          /\ k.skipped[c] \subseteq k2.skipped[c]

LEMMA CollsMove ==
  ASSUME NEW k, NEW k2, Numbered(k), Numbered(k2), Renewed(k, k2),
         NEW sv, NEW s, NEW sc, TaskInv(k, sv, s, sc)
  PROVE  TaskInv(k2, sv, s, sc)
<1>1. k.clock \in Nat /\ k2.clock \in Nat /\ k.clock <= k2.clock
  BY DEF Numbered, Renewed
<1>2. /\ k.version \in [ScanColls -> 0..k.clock] /\ k2.version \in [ScanColls -> 0..k2.clock]
  BY DEF Numbered, Renewed
<1>3. ASSUME NEW n \in 0..k.clock, NothingMissed(k, n)
      PROVE  NothingMissed(k2, n)
  <2> SUFFICES ASSUME NEW c \in ScanColls, Owed(k2, c) # {} PROVE k2.version[c] > n
    BY DEF NothingMissed
  <2>1. CASE k2.version[c] > k.clock
    BY <2>1, <1>1, <1>2
  <2>2. CASE k2.version[c] = 0 /\ k2.files[c] = {}
    BY <2>2 DEF Owed, Lacking
  <2>3. CASE /\ k2.version[c] = k.version[c] /\ k2.files[c] = k.files[c] /\ k2.thumbs[c] = k.thumbs[c]
             /\ k.skipped[c] \subseteq k2.skipped[c]
    <3>1. Owed(k2, c) \subseteq Owed(k, c)
      BY <2>3 DEF Owed, Lacking
    <3> QED BY <3>1, <2>3, <1>3 DEF NothingMissed
  <2> QED BY <2>1, <2>2, <2>3 DEF Renewed
<1>4. /\ sv \in 0..k.clock /\ s \in ScannerStates(k)
      /\ sc \in [Scanners -> {NoScan} \union Fetches \union Batches]
      /\ NothingMissed(k, sv) /\ (s.pc # "dead" => NothingMissed(k, s.cursor))
      /\ \A w \in Scanners : sc[w].pc = "batch" => Snapshot(k, sc[w])
      /\ IF s.pc = "items" THEN FeedInv(k, s) /\ OnItem(s, sc["task"]) ELSE sc["task"] = NoScan
  BY DEF TaskInv, ScansInv
<1>5. 0..k.clock \subseteq 0..k2.clock /\ 1..k.clock \subseteq 1..k2.clock
  BY <1>1
<1>6. sv \in 0..k2.clock
  BY <1>4, <1>5
<1>7. s \in ScannerStates(k2) /\ s.cursor \in 0..k.clock /\ s.feed \in SUBSET Changes(k)
  BY <1>4, <1>5 DEF ScannerStates, Changes
<1>8. NothingMissed(k2, sv) /\ (s.pc # "dead" => NothingMissed(k2, s.cursor))
  BY <1>3, <1>4, <1>7
<1>9. ASSUME NEW w \in Scanners, sc[w].pc = "batch"
      PROVE  Snapshot(k2, sc[w])
  <2> DEFINE b == sc[w]
             c == b.coll
  <2>1. b \in Batches /\ Snapshot(k, b)
    BY <1>4, <1>9 DEF NoScan, Fetches
  <2> HIDE DEF b
  <2>2. c \in ScanColls /\ b.version \in 1..k.clock
    BY <2>1 DEF Batches, Snapshot
  <2> HIDE DEF c
  <2>3. CASE k2.version[c] > k.clock
    <3>1. b.version <= k2.version[c] /\ b.version # k2.version[c]
      BY <2>2, <2>3, <1>1, <1>2
    <3> QED BY <3>1, <2>2, <1>5 DEF Snapshot, c, b
  <2>4. CASE k2.version[c] = 0 /\ k2.files[c] = {}
    <3>1. b.version # k2.version[c]
      BY <2>2, <2>4, <1>1
    <3> QED BY <3>1, <2>2, <2>4, <1>5 DEF Snapshot, c, b
  <2>5. CASE k2.version[c] = k.version[c] /\ k2.files[c] = k.files[c] /\ k2.thumbs[c] = k.thumbs[c]
    BY <2>1, <2>2, <2>5, <1>5 DEF Snapshot, c, b
  <2> QED BY <2>2, <2>3, <2>4, <2>5 DEF Renewed
<1>10. ASSUME s.pc = "items" PROVE FeedInv(k2, s)
  <2>1. FeedInv(k, s)
    BY <1>4, <1>10
  <2>2. ASSUME NEW x \in s.feed
        PROVE  x.version > s.cursor /\ (k2.version[x.coll] = 0 \/ x.version <= k2.version[x.coll])
    <3>1. x \in Changes(k)
      BY <1>7
    <3>2. x.coll \in ScanColls /\ x.version \in 1..k.clock
      BY <3>1 DEF Changes
    <3>3. x.version > s.cursor /\ (k.version[x.coll] = 0 \/ x.version <= k.version[x.coll])
      BY <2>1 DEF FeedInv
    <3>4. k2.version[x.coll] > k.clock => x.version <= k2.version[x.coll]
      BY <3>2, <1>1, <1>2
    <3> QED BY <3>2, <3>3, <3>4 DEF Renewed
  <2>3. ASSUME NEW c \in ScanColls, k2.version[c] > s.cursor
        PROVE  \/ [version |-> k2.version[c], coll |-> c] \in s.feed
               \/ \A x \in s.feed : x.version < k2.version[c]
    <3>1. CASE k2.version[c] > k.clock
      <4> SUFFICES ASSUME NEW x \in s.feed PROVE x.version < k2.version[c]
        OBVIOUS
      <4>1. x.version \in 1..k.clock
        BY <1>7 DEF Changes
      <4> QED BY <4>1, <3>1, <1>1, <1>2
    <3>2. CASE k2.version[c] = 0
      BY <3>2, <2>3, <1>1, <1>7
    <3>3. CASE k2.version[c] = k.version[c]
      BY <3>3, <2>3, <2>1 DEF FeedInv
    <3> QED BY <3>1, <3>2, <3>3 DEF Renewed
  <2>4. s.feed # {} /\ \A x, y \in s.feed : x.version = y.version => x = y
    BY <2>1 DEF FeedInv
  <2> QED BY <2>2, <2>3, <2>4 DEF FeedInv
<1>11. sc \in [Scanners -> {NoScan} \union Fetches \union Batches]
  BY <1>4 DEF Fetches, Batches
<1>12. s.pc = "items" => OnItem(s, sc["task"])
  BY <1>4 DEF OnItem
<1> QED BY <1>4, <1>6, <1>7, <1>8, <1>9, <1>10, <1>11, <1>12 DEF TaskInv, ScansInv

\* The collections as they were.
LEMMA CollsStay ==
  ASSUME CollsInv, UNCHANGED collVars
  PROVE  CollsInv' /\ Renewed(Colls, Colls')
<1>1. UNCHANGED <<clock, version, head, files, thumbs, skipped>>
  BY DEF collVars
<1>2. clock <= clock'
  BY <1>1 DEF CollsInv
<1>3. CollsInv'
  BY <1>1 DEF CollsInv, UniqueVersions
<1> QED BY <1>1, <1>2, <1>3 DEF Renewed, Colls

\* Only the skipped contents of a collection grow.
LEMMA CollsSkip ==
  ASSUME CollsInv, NEW c \in ScanColls, NEW S \in SUBSET ScanContents,
         skipped' = [skipped EXCEPT ![c] = @ \union S],
         UNCHANGED <<clock, version, head, files, thumbs>>
  PROVE  CollsInv' /\ Renewed(Colls, Colls')
<1>1. clock <= clock'
  BY DEF CollsInv
<1>2. skipped' \in [ScanColls -> SUBSET ScanContents] /\ \A d \in ScanColls : skipped[d] \subseteq skipped'[d]
  BY DEF CollsInv
<1> QED BY <1>1, <1>2 DEF CollsInv, UniqueVersions, Renewed, Colls

\* A collection changes, and gets the next version.
LEMMA CollsBump ==
  ASSUME CollsInv, NEW c \in ScanColls, BumpGlobalVersion(c),
         files' \in [ScanColls -> SUBSET MediaFiles], thumbs' \in [ScanColls -> SUBSET ScanContents],
         head' \in [ScanColls -> Nat],
         \A d \in ScanColls \ {c} : files'[d] = files[d] /\ thumbs'[d] = thumbs[d]
  PROVE  CollsInv' /\ Renewed(Colls, Colls')
<1>1. clock \in Nat /\ clock' = clock + 1 /\ clock' \in Nat /\ clock <= clock' /\ clock + 1 > clock
  BY DEF CollsInv, BumpGlobalVersion
<1>2. version \in [ScanColls -> 0..clock] /\ skipped \in [ScanColls -> SUBSET ScanContents]
  BY DEF CollsInv
<1>3. /\ version' = [version EXCEPT ![c] = clock + 1]
      /\ skipped' = [skipped EXCEPT ![c] = {}]
  BY DEF BumpGlobalVersion
<1>4. version'[c] = clock + 1 /\ \A d \in ScanColls \ {c} : version'[d] = version[d] /\ skipped'[d] = skipped[d]
  BY <1>2, <1>3
<1>5. version' \in [ScanColls -> 0..clock'] /\ skipped' \in [ScanColls -> SUBSET ScanContents]
  BY <1>1, <1>2, <1>3
<1>6. UniqueVersions'
  <2>1. \A d \in ScanColls : version[d] # clock + 1
    BY <1>1, <1>2
  <2> QED BY <2>1, <1>4 DEF UniqueVersions, CollsInv
<1>7. \A d \in ScanColls : version'[d] = 0 => files'[d] = {}
  BY <1>1, <1>4 DEF CollsInv
<1>8. Renewed(Colls, Colls')
  BY <1>1, <1>4 DEF Renewed, Colls
<1> QED BY <1>1, <1>5, <1>6, <1>7, <1>8 DEF CollsInv

(***************************************************************************)
(* Steps of clients.                                                       *)
(***************************************************************************)
LEMMA HeadsGrow ==
  ASSUME CollsInv, NEW c \in ScanColls
  PROVE  NewHead(c) \in [ScanColls -> Nat]
BY DEF CollsInv, NewHead

LEMMA ClientStep ==
  ASSUME CollsInv, NEW c \in ScanColls,
         \/ CreateColl(c) \/ PullMetadata(c) \/ DeleteColl(c)
         \/ \E F \in SUBSET MediaFiles :
              PushFiles(c, F) \/ DeleteFiles(c, F) \/ \E d \in ScanColls : MoveFiles(c, d, F)
  PROVE  CollsInv' /\ Renewed(Colls, Colls')
<1>1. /\ clock \in Nat /\ version \in [ScanColls -> 0..clock] /\ head \in [ScanColls -> Nat]
      /\ files \in [ScanColls -> SUBSET MediaFiles] /\ thumbs \in [ScanColls -> SUBSET ScanContents]
      /\ skipped \in [ScanColls -> SUBSET ScanContents] /\ UniqueVersions
      /\ \A d \in ScanColls : version[d] = 0 => files[d] = {}
  BY DEF CollsInv
<1>2. CASE CreateColl(c) \/ PullMetadata(c)
  <2>1. BumpGlobalVersion(c) /\ UNCHANGED <<head, files, thumbs>>
    BY <1>2 DEF CreateColl, PullMetadata
  <2> QED BY <2>1, <1>1, CollsBump
<1>3. CASE DeleteColl(c)
  <2>1. /\ version' = [version EXCEPT ![c] = 0] /\ head' = NewHead(c)
        /\ files' = [files EXCEPT ![c] = {}] /\ thumbs' = [thumbs EXCEPT ![c] = {}]
        /\ skipped' = [skipped EXCEPT ![c] = {}] /\ clock' = clock
    BY <1>3 DEF DeleteColl
  <2>2. /\ version'[c] = 0 /\ files'[c] = {}
        /\ \A d \in ScanColls \ {c} :
             version'[d] = version[d] /\ files'[d] = files[d] /\ thumbs'[d] = thumbs[d] /\ skipped'[d] = skipped[d]
    BY <2>1, <1>1
  <2>3. /\ version' \in [ScanColls -> 0..clock] /\ files' \in [ScanColls -> SUBSET MediaFiles]
        /\ thumbs' \in [ScanColls -> SUBSET ScanContents] /\ skipped' \in [ScanColls -> SUBSET ScanContents]
    BY <2>1, <1>1
  <2>4. UniqueVersions'
    BY <2>2, <1>1 DEF UniqueVersions
  <2>5. \A d \in ScanColls : version'[d] = 0 => files'[d] = {}
    BY <2>2, <1>1
  <2>6. Renewed(Colls, Colls')
    BY <2>1, <2>2, <1>1 DEF Renewed, Colls
  <2> QED BY <2>1, <2>3, <2>4, <2>5, <2>6, <1>1, HeadsGrow DEF CollsInv
<1>4. ASSUME NEW F \in SUBSET MediaFiles, PushFiles(c, F) PROVE CollsInv' /\ Renewed(Colls, Colls')
  <2>1. /\ BumpGlobalVersion(c) /\ files' = [files EXCEPT ![c] = @ \union F]
        /\ head' = NewHead(c) /\ thumbs' = thumbs
    BY <1>4 DEF PushFiles
  <2>2. files' \in [ScanColls -> SUBSET MediaFiles] /\ \A d \in ScanColls \ {c} : files'[d] = files[d]
    BY <2>1, <1>1
  <2> QED BY <2>1, <2>2, <1>1, CollsBump, HeadsGrow
<1>5. ASSUME NEW F \in SUBSET MediaFiles, DeleteFiles(c, F) PROVE CollsInv' /\ Renewed(Colls, Colls')
  <2>1. /\ BumpGlobalVersion(c) /\ files' = [files EXCEPT ![c] = @ \ F]
        /\ head' = NewHead(c) /\ thumbs' = [thumbs EXCEPT ![c] = @ \ {Content[f] : f \in F}]
    BY <1>5 DEF DeleteFiles
  <2>2. /\ files' \in [ScanColls -> SUBSET MediaFiles] /\ thumbs' \in [ScanColls -> SUBSET ScanContents]
        /\ \A d \in ScanColls \ {c} : files'[d] = files[d] /\ thumbs'[d] = thumbs[d]
    BY <2>1, <1>1
  <2> QED BY <2>1, <2>2, <1>1, CollsBump, HeadsGrow
<1>6. ASSUME NEW F \in SUBSET MediaFiles, NEW d \in ScanColls, MoveFiles(c, d, F)
      PROVE  CollsInv' /\ Renewed(Colls, Colls')
  <2> DEFINE T == {Content[f] : f \in F} \intersect thumbs[c]
  <2>1. /\ c # d
        /\ files' = [files EXCEPT ![c] = @ \ F, ![d] = @ \union F]
        /\ thumbs' = [thumbs EXCEPT ![c] = @ \ T, ![d] = @ \union T]
        /\ head' = [head EXCEPT ![c] = @ + 1, ![d] = @ + 1]
        /\ clock' = clock + 2
        /\ version' = [version EXCEPT ![c] = clock + 1, ![d] = clock + 2]
        /\ skipped' = [skipped EXCEPT ![c] = {}, ![d] = {}]
    BY <1>6 DEF MoveFiles
  <2>2. T \subseteq ScanContents
    BY <1>1
  <2> HIDE DEF T
  <2>3. files' \in [ScanColls -> SUBSET MediaFiles] /\ thumbs' \in [ScanColls -> SUBSET ScanContents]
    BY <2>1, <2>2, <1>1
  <2>4. skipped' \in [ScanColls -> SUBSET ScanContents] /\ head' \in [ScanColls -> Nat]
    BY <2>1, <1>1
  <2>5. clock' \in Nat /\ clock <= clock' /\ version' \in [ScanColls -> 0..clock']
    BY <2>1, <1>1
  <2>6. /\ version'[c] = clock + 1 /\ version'[d] = clock + 2
        /\ \A x \in ScanColls \ {c, d} :
             version'[x] = version[x] /\ files'[x] = files[x] /\ thumbs'[x] = thumbs[x] /\ skipped'[x] = skipped[x]
    BY <2>1, <1>1
  <2>7. \A x \in ScanColls : version[x] # clock + 1 /\ version[x] # clock + 2
    BY <1>1
  <2>8. clock + 1 # clock + 2 /\ clock + 1 > clock /\ clock + 2 > clock /\ clock + 1 # 0 /\ clock + 2 # 0
    BY <1>1
  <2>9. UniqueVersions'
    <3> SUFFICES ASSUME NEW x \in ScanColls, NEW y \in ScanColls, version'[x] = version'[y], version'[x] # 0
                 PROVE  x = y
      BY DEF UniqueVersions
    <3>1. CASE x \in {c, d} \/ y \in {c, d}
      BY <3>1, <2>6, <2>7, <2>8
    <3>2. CASE x \notin {c, d} /\ y \notin {c, d}
      BY <3>2, <2>6, <1>1 DEF UniqueVersions
    <3> QED BY <3>1, <3>2
  <2>10. \A x \in ScanColls : version'[x] = 0 => files'[x] = {}
    BY <2>6, <2>8, <1>1
  <2>11. Renewed(Colls, Colls')
    BY <2>5, <2>6, <2>8 DEF Renewed, Colls
  <2> QED BY <2>3, <2>4, <2>5, <2>9, <2>10, <2>11 DEF CollsInv
<1> QED BY <1>2, <1>3, <1>4, <1>5, <1>6

(***************************************************************************)
(* Steps of the scanner, after what they do to the collections.            *)
(***************************************************************************)
\* Scans that end, and those that begin.
LEMMA ScanKinds ==
  /\ NoScan.pc = "idle"
  /\ \A c \in ScanColls, b \in BOOLEAN :
       Scan(c, b) \in Fetches /\ Scan(c, b).pc = "fetch" /\ Scan(c, b).coll = c
BY DEF NoScan, Scan, Fetches

LEMMA CollsAreNumbered ==
  ASSUME CollsInv
  PROVE  Numbered(Colls)
BY DEF CollsInv, Numbered, Colls

\* A scan goes on, ends, or begins, that the task is not concerned with, or
\* that is still the one of its item.
LEMMA ScanGoesOn ==
  ASSUME NEW k, NEW sv, NEW s, NEW sc, TaskInv(k, sv, s, sc), NEW w \in Scanners,
         NEW q \in {NoScan} \union Fetches \union Batches, q.pc = "batch" => Snapshot(k, q),
         NEW sc2, sc2 = [sc EXCEPT ![w] = q],
         w = "task" => s.pc = "items" /\ OnItem(s, q)
  PROVE  TaskInv(k, sv, s, sc2)
<1>1. /\ sv \in 0..k.clock /\ s \in ScannerStates(k) /\ ScansInv(k, sc)
      /\ NothingMissed(k, sv) /\ (s.pc # "dead" => NothingMissed(k, s.cursor))
      /\ IF s.pc = "items" THEN FeedInv(k, s) /\ OnItem(s, sc["task"]) ELSE sc["task"] = NoScan
  BY DEF TaskInv
<1>2. ScansInv(k, sc2) /\ sc2[w] = q /\ \A x \in Scanners \ {w} : sc2[x] = sc[x]
  BY <1>1 DEF ScansInv
<1>3. IF s.pc = "items" THEN FeedInv(k, s) /\ OnItem(s, sc2["task"]) ELSE sc2["task"] = NoScan
  BY <1>1, <1>2 DEF Scanners
<1> QED BY <1>1, <1>2, <1>3 DEF TaskInv

LEMMA TaskDies ==
  ASSUME NEW k, Numbered(k), NEW sv, NEW s, NEW sc, TaskInv(k, sv, s, sc),
         NEW sc2, sc2 = [sc EXCEPT !["task"] = NoScan]
  PROVE  TaskInv(k, sv, Dead, sc2)
<1>1. sv \in 0..k.clock /\ NothingMissed(k, sv) /\ ScansInv(k, sc)
  BY DEF TaskInv
<1>2. "task" \in Scanners /\ NoScan.pc # "batch"
  BY ScanKinds DEF Scanners
<1>3. ScansInv(k, sc2) /\ sc2["task"] = NoScan
  BY <1>1, <1>2 DEF ScansInv
<1>4. Dead \in ScannerStates(k) /\ Dead.pc = "dead"
  BY DEF Numbered, Dead, ScannerStates
<1> HIDE DEF Dead
<1> QED BY <1>1, <1>3, <1>4 DEF TaskInv

\* What is left of a feed without its oldest item, and what the task goes on with.
LaterItems(s) == s.feed \ {Oldest(s.feed)}
ScanOf(feed) == IF feed = {} THEN NoScan ELSE Scan(Oldest(feed).coll, FALSE)

\* The cursor moves past an item that owes nothing as of its version.
LEMMA CursorMoves ==
  ASSUME NEW k, Numbered(k), NEW sv, NEW s, NEW sc, TaskInv(k, sv, s, sc), s.pc = "items",
         Owed(k, Oldest(s.feed).coll) # {} => k.version[Oldest(s.feed).coll] > Oldest(s.feed).version,
         NEW s2 \in ScannerStates(k), s2.pc = (IF LaterItems(s) = {} THEN "polling" ELSE "items"),
         s2.cursor = Oldest(s.feed).version, s2.feed = LaterItems(s),
         NEW sc2, sc2 = [sc EXCEPT !["task"] = ScanOf(LaterItems(s))]
  PROVE  TaskInv(k, sv, s2, sc2) /\ TaskInv(k, s2.cursor, s2, sc2)
<1> DEFINE item == Oldest(s.feed)
           rest == s.feed \ {item}
<1>0. /\ Owed(k, item.coll) # {} => k.version[item.coll] > item.version
      /\ s2.pc = (IF rest = {} THEN "polling" ELSE "items") /\ s2.cursor = item.version /\ s2.feed = rest
      /\ sc2 = [sc EXCEPT !["task"] = ScanOf(rest)]
  BY DEF LaterItems
<1>1. /\ sv \in 0..k.clock /\ s \in ScannerStates(k)
      /\ NothingMissed(k, sv) /\ NothingMissed(k, s.cursor)
      /\ FeedInv(k, s)
  BY DEF TaskInv
<1>2. k.clock \in Nat /\ k.version \in [ScanColls -> 0..k.clock]
  BY DEF Numbered
<1>3. s.feed # {} /\ s.feed \in SUBSET [version : 1..k.clock, coll : ScanColls] /\ s.cursor \in 0..k.clock
  BY <1>1 DEF FeedInv, ScannerStates, Changes
<1>4. /\ item \in s.feed /\ item.version \in 1..k.clock /\ item.coll \in ScanColls
      /\ \A y \in s.feed : item.version <= y.version
  BY <1>2, <1>3, OldestOfFeed
<1> HIDE DEF item
<1>5. \A x, y \in s.feed : x.version = y.version => x = y
  BY <1>1 DEF FeedInv
<1>6. \A y \in rest : y.version \in 1..k.clock /\ y.version > item.version
  <2> SUFFICES ASSUME NEW y \in rest PROVE y.version \in 1..k.clock /\ y.version > item.version
    OBVIOUS
  <2>1. y \in s.feed /\ y # item
    OBVIOUS
  <2>2. y.version \in 1..k.clock
    BY <2>1, <1>3
  <2>3. y.version # item.version /\ item.version <= y.version
    BY <2>1, <1>4, <1>5
  <2> QED BY <2>2, <2>3, <1>4
<1>7. ASSUME NEW c \in ScanColls, k.version[c] > s.cursor
      PROVE  \/ [version |-> k.version[c], coll |-> c] \in s.feed
             \/ \A x \in s.feed : x.version < k.version[c]
  BY <1>1, <1>7 DEF FeedInv
<1>8. NothingMissed(k, item.version)
  <2> SUFFICES ASSUME NEW c \in ScanColls, Owed(k, c) # {} PROVE k.version[c] > item.version
    BY DEF NothingMissed
  <2>1. CASE c = item.coll
    BY <2>1, <1>0
  <2>2. CASE c # item.coll
    <3>1. k.version[c] > s.cursor
      BY <1>1 DEF NothingMissed
    <3> DEFINE x == [version |-> k.version[c], coll |-> c]
    <3>2. CASE x \in s.feed
      <4>1. x # item /\ x.version = k.version[c]
        BY <2>2
      <4>2. x \in rest
        BY <4>1, <3>2
      <4> QED BY <4>1, <4>2, <1>6
    <3>3. CASE \A y \in s.feed : y.version < k.version[c]
      BY <3>3, <1>2, <1>4
    <3> QED BY <3>1, <3>2, <3>3, <1>7
  <2> QED BY <2>1, <2>2
<1>9. item.version \in 0..k.clock
  BY <1>4
<1>10. NothingMissed(k, s2.cursor) /\ s2.cursor \in 0..k.clock
  BY <1>0, <1>8, <1>9
<1>11. ASSUME rest # {} PROVE FeedInv(k, s2)
  <2>1. \A x \in rest : x.version > s2.cursor /\ (k.version[x.coll] = 0 \/ x.version <= k.version[x.coll])
    BY <1>0, <1>1, <1>6 DEF FeedInv
  <2>2. ASSUME NEW c \in ScanColls, k.version[c] > s2.cursor
        PROVE  \/ [version |-> k.version[c], coll |-> c] \in rest
               \/ \A x \in rest : x.version < k.version[c]
    <3>1. item.version > s.cursor
      BY <1>1, <1>4 DEF FeedInv
    <3>2. k.version[c] > s.cursor /\ k.version[c] # item.version
      BY <3>1, <2>2, <1>0, <1>2, <1>3, <1>4
    <3>3. [version |-> k.version[c], coll |-> c] # item
      BY <3>2
    <3> QED BY <3>2, <3>3, <1>7
  <2> QED BY <1>11, <2>1, <2>2, <1>0, <1>5 DEF FeedInv
<1> DEFINE q == ScanOf(rest)
<1>12. /\ q \in {NoScan} \union Fetches /\ q.pc # "batch"
       /\ rest = {} => q = NoScan
       /\ rest # {} => OnItem(s2, q)
  <2>1. CASE rest = {}
    BY <2>1, ScanKinds DEF ScanOf
  <2>2. CASE rest # {}
    <3>1. rest \in SUBSET [version : 1..k.clock, coll : ScanColls]
      BY <1>3
    <3>2. Oldest(rest).coll \in ScanColls
      BY <3>1, <2>2, <1>2, OldestOfFeed
    <3>3. q = Scan(Oldest(rest).coll, FALSE)
      BY <2>2 DEF ScanOf
    <3> HIDE DEF q
    <3> QED BY <2>2, <3>2, <3>3, <1>0, ScanKinds DEF OnItem
  <2> QED BY <2>1, <2>2
<1> HIDE DEF q
<1>13. ScansInv(k, sc2) /\ sc2["task"] = q
  <2>1. sc2 = [sc EXCEPT !["task"] = q]
    BY <1>0 DEF q
  <2>2. q \in {NoScan} \union Fetches \union Batches /\ q.pc # "batch" /\ "task" \in Scanners
    BY <1>12 DEF Scanners
  <2>3. ScansInv(k, sc)
    BY DEF TaskInv
  <2> QED BY <2>1, <2>2, <2>3 DEF ScansInv
<1>15. IF s2.pc = "items" THEN FeedInv(k, s2) /\ OnItem(s2, sc2["task"]) ELSE sc2["task"] = NoScan
  BY <1>0, <1>11, <1>12, <1>13
<1> QED BY <1>1, <1>8, <1>9, <1>10, <1>13, <1>15 DEF TaskInv

LEMMA AfterItem ==
  ASSUME NEW k, Numbered(k), TaskInv(k, saved, scanner, scans), scanner.pc = "items",
         LET item == Oldest(scanner.feed)
         IN  Owed(k, item.coll) # {} => k.version[item.coll] > item.version,
         ItemDone
  PROVE  TaskInv(k, saved', scanner', scans')
<1> DEFINE s == scanner
           item == Oldest(s.feed)
           rest == LaterItems(s)
           pc   == IF rest = {} THEN "polling" ELSE "items"
           sc2  == [scans EXCEPT !["task"] = ScanOf(rest)]
<1>1. scans' = sc2
  BY DEF ItemDone, LaterItems, ScanOf
<1>2. /\ s \in ScannerStates(k) /\ s.feed \in SUBSET Changes(k) /\ k.clock \in Nat /\ s.feed # {}
  BY DEF TaskInv, Numbered, ScannerStates, FeedInv
<1>3. item \in s.feed /\ item.version \in 1..k.clock
  <2>1. s.feed \in SUBSET [version : 1..k.clock, coll : ScanColls]
    BY <1>2 DEF Changes
  <2> QED BY <1>2, <2>1, OldestOfFeed
<1>4. item.version \in 0..k.clock /\ rest \in SUBSET Changes(k)
  BY <1>2, <1>3 DEF LaterItems
<1>5. ASSUME NEW s2 \in ScannerStates(k), s2.pc = pc, s2.cursor = item.version, s2.feed = rest
      PROVE  TaskInv(k, saved, s2, sc2) /\ TaskInv(k, item.version, s2, sc2)
  BY <1>5, CursorMoves
<1>6. pc \in {"polling", "items"}
  OBVIOUS
<1>7. \/ saved' = saved /\ scanner' = [scanner EXCEPT !.pc = pc, !.cursor = item.version, !.feed = rest]
      \/ UpdateServerState(item.version, rest, pc)
  BY DEF ItemDone, LaterItems
<1> HIDE DEF item, rest, pc, sc2
<1>8. CASE saved' = saved /\ scanner' = [scanner EXCEPT !.pc = pc, !.cursor = item.version, !.feed = rest]
  <2> DEFINE s2 == [s EXCEPT !.pc = pc, !.cursor = item.version, !.feed = rest]
  <2>1. /\ s2 \in ScannerStates(k) /\ s2.pc = pc /\ s2.cursor = item.version /\ s2.feed = rest
    BY <1>2, <1>4, <1>6 DEF ScannerStates
  <2>2. scanner' = s2
    BY <1>8
  <2> HIDE DEF s2
  <2>3. TaskInv(k, saved, s2, sc2)
    BY <2>1, <1>5
  <2> QED BY <2>2, <2>3, <1>1, <1>8
<1>9. CASE UpdateServerState(item.version, rest, pc)
  <2> DEFINE s2 == [pc |-> pc, cursor |-> item.version, known |-> item.version, feed |-> rest]
  <2>1. scanner' = s2 /\ saved' = item.version
    BY <1>9 DEF UpdateServerState
  <2>2. /\ s2 \in ScannerStates(k) /\ s2.pc = pc /\ s2.cursor = item.version /\ s2.feed = rest
    BY <1>2, <1>4, <1>6 DEF ScannerStates
  <2> HIDE DEF s2
  <2>3. TaskInv(k, item.version, s2, sc2)
    BY <2>2, <1>5
  <2> QED BY <2>1, <2>3, <1>1
<1> QED BY <1>7, <1>8, <1>9

(***************************************************************************)
(* The steps of the scanner.                                               *)
(***************************************************************************)
LEMMA CollsMoved ==
  ASSUME CollsInv, CollsInv', Renewed(Colls, Colls'),
         NEW sv, NEW s, NEW sc, TaskInv(Colls, sv, s, sc)
  PROVE  Numbered(Colls') /\ TaskInv(Colls', sv, s, sc)
<1>1. Numbered(Colls)
  BY CollsAreNumbered
<1>2. Numbered(Colls')
  BY DEF CollsInv, Numbered, Colls
<1> QED BY <1>1, <1>2, CollsMove

LEMMA StartStep ==
  ASSUME ScannerInv, Start
  PROVE  ScannerInv'
<1>1. CollsInv /\ TaskInv(Colls, saved, scanner, scans) /\ events \in 0..MaxEvents
  BY DEF ScannerInv
<1>2. /\ scanner.pc = "dead" /\ UNCHANGED <<collVars, saved, scans, events>>
      /\ scanner' = [pc |-> "polling", cursor |-> saved, known |-> saved, feed |-> {}]
  BY DEF Start
<1>3. CollsInv' /\ Renewed(Colls, Colls')
  BY <1>1, <1>2, CollsStay
<1>4. TaskInv(Colls', saved, scanner, scans)
  BY <1>1, <1>3, CollsMoved
<1>5. scanner' \in ScannerStates(Colls') /\ scanner'.pc = "polling" /\ scanner'.cursor = saved
  BY <1>2, <1>4 DEF TaskInv, ScannerStates
<1>6. TaskInv(Colls', saved, scanner', scans)
  BY <1>2, <1>4, <1>5 DEF TaskInv
<1> QED BY <1>1, <1>2, <1>3, <1>6 DEF ScannerInv

LEMMA PollStep ==
  ASSUME ScannerInv, Poll
  PROVE  ScannerInv'
<1> DEFINE feed == CollectionChangefeed(scanner.cursor)
<1>1. CollsInv /\ TaskInv(Colls, saved, scanner, scans) /\ events \in 0..MaxEvents
  BY DEF ScannerInv
<1>2. /\ scanner.pc = "polling" /\ UNCHANGED <<collVars, saved, events>> /\ feed # {}
      /\ scanner' = [scanner EXCEPT !.pc = "items", !.feed = feed]
      /\ scans' = [scans EXCEPT !["task"] = Scan(Oldest(feed).coll, FALSE)]
  BY DEF Poll
<1>3. CollsInv' /\ Renewed(Colls, Colls')
  BY <1>1, <1>2, CollsStay
<1>4. /\ scanner \in ScannerStates(Colls) /\ saved \in 0..clock /\ ScansInv(Colls, scans)
      /\ NothingMissed(Colls, saved) /\ NothingMissed(Colls, scanner.cursor)
  BY <1>1, <1>2 DEF TaskInv, Colls
<1>5. scanner.cursor \in 0..clock
  BY <1>4 DEF ScannerStates, Colls
<1>6. /\ feed \in SUBSET Changes(Colls)
      /\ \A x \in feed : x.version > scanner.cursor /\ version[x.coll] = x.version
      /\ \A c \in ScanColls : version[c] > scanner.cursor =>
           \/ [version |-> version[c], coll |-> c] \in feed
           \/ \A x \in feed : x.version < version[c]
  BY <1>1, <1>5, FeedOfPoll
<1> HIDE DEF feed
<1> DEFINE s2 == [scanner EXCEPT !.pc = "items", !.feed = feed]
<1>7. /\ s2 \in ScannerStates(Colls) /\ s2.pc = "items" /\ s2.cursor = scanner.cursor /\ s2.feed = feed
  BY <1>4, <1>6 DEF ScannerStates
<1>8. scanner' = s2
  BY <1>2
<1> HIDE DEF s2
<1>9. ASSUME NEW x \in feed, NEW y \in feed, x.version = y.version PROVE x = y
  <2>1. /\ x.coll \in ScanColls /\ y.coll \in ScanColls /\ x.version # 0
        /\ version[x.coll] = x.version /\ version[y.coll] = y.version
    BY <1>6 DEF Changes, Colls
  <2>2. x.coll = y.coll
    BY <2>1, <1>1, <1>9 DEF CollsInv, UniqueVersions
  <2>3. x = [version |-> x.version, coll |-> x.coll] /\ y = [version |-> y.version, coll |-> y.coll]
    BY <1>6 DEF Changes
  <2> QED BY <2>2, <2>3, <1>9
<1>10. FeedInv(Colls, s2)
  <2>1. \A x \in feed : x.version > s2.cursor /\ (Colls.version[x.coll] = 0 \/ x.version <= Colls.version[x.coll])
    <3> SUFFICES ASSUME NEW x \in feed
                 PROVE  x.version > s2.cursor /\ x.version <= Colls.version[x.coll]
      OBVIOUS
    <3>1. x.version \in Int
      BY <1>6 DEF Changes
    <3> QED BY <3>1, <1>6, <1>7 DEF Colls
  <2> QED BY <2>1, <1>2, <1>6, <1>7, <1>9 DEF FeedInv, Colls
<1> DEFINE q == Scan(Oldest(feed).coll, FALSE)
<1>11. q \in Fetches /\ q.pc = "fetch" /\ q.coll = Oldest(feed).coll
  <2>1. Oldest(feed).coll \in ScanColls
    <3>1. feed \in SUBSET [version : 1..clock, coll : ScanColls] /\ clock \in Nat
      BY <1>1, <1>6 DEF Changes, Colls, CollsInv
    <3> QED BY <3>1, <1>2, OldestOfFeed
  <2> QED BY <2>1, ScanKinds
<1>12. scans' = [scans EXCEPT !["task"] = q]
  BY <1>2
<1> HIDE DEF q
<1>13. ScansInv(Colls, scans') /\ scans'["task"] = q
  BY <1>4, <1>11, <1>12 DEF ScansInv, Scanners
<1>14. OnItem(s2, q)
  BY <1>7, <1>11 DEF OnItem
<1>15. TaskInv(Colls, saved, s2, scans')
  <2>1. saved \in 0..Colls.clock
    BY <1>4 DEF Colls
  <2> QED BY <2>1, <1>4, <1>7, <1>10, <1>13, <1>14 DEF TaskInv
<1>16. TaskInv(Colls', saved, s2, scans')
  BY <1>1, <1>3, <1>15, CollsMoved
<1> QED BY <1>1, <1>2, <1>3, <1>8, <1>16 DEF ScannerInv

LEMMA SaveStep ==
  ASSUME ScannerInv, SaveWhilePolling
  PROVE  ScannerInv'
<1>1. CollsInv /\ TaskInv(Colls, saved, scanner, scans) /\ events \in 0..MaxEvents
  BY DEF ScannerInv
<1> DEFINE s2 == [pc |-> "polling", cursor |-> scanner.cursor, known |-> scanner.cursor, feed |-> {}]
<1>2. /\ scanner.pc = "polling" /\ UNCHANGED <<collVars, scans, events>>
      /\ saved' = scanner.cursor /\ scanner' = s2
  BY DEF SaveWhilePolling, UpdateServerState
<1>3. CollsInv' /\ Renewed(Colls, Colls')
  BY <1>1, <1>2, CollsStay
<1>4. s2 \in ScannerStates(Colls) /\ s2.pc = "polling" /\ s2.cursor = scanner.cursor
      /\ scanner.cursor \in 0..Colls.clock
  BY <1>1 DEF TaskInv, ScannerStates
<1> HIDE DEF s2
<1>5. TaskInv(Colls, scanner.cursor, s2, scans)
  BY <1>1, <1>2, <1>4 DEF TaskInv
<1>6. TaskInv(Colls', scanner.cursor, s2, scans)
  BY <1>1, <1>3, <1>5, CollsMoved
<1> QED BY <1>1, <1>2, <1>3, <1>6 DEF ScannerInv

\* What a worker that is in the middle of a scan is known to be doing.
LEMMA ScanAtWork ==
  ASSUME NEW k, NEW sv, NEW s, NEW sc, TaskInv(k, sv, s, sc), NEW w \in Scanners
  PROVE  /\ sc[w].pc = "fetch" => sc[w] \in Fetches
         /\ sc[w].pc = "batch" => sc[w] \in Batches /\ Snapshot(k, sc[w])
         /\ sc[w].pc # "idle" /\ w = "task" => s.pc = "items" /\ FeedInv(k, s) /\ OnItem(s, sc[w])
<1>1. ScansInv(k, sc) /\ IF s.pc = "items" THEN FeedInv(k, s) /\ OnItem(s, sc["task"]) ELSE sc["task"] = NoScan
  BY DEF TaskInv
<1>2. sc[w] \in {NoScan} \union Fetches \union Batches /\ (sc[w].pc = "batch" => Snapshot(k, sc[w]))
  BY <1>1 DEF ScansInv
<1>3. sc[w].pc = "fetch" => sc[w] \in Fetches
  BY <1>2 DEF NoScan, Batches
<1>4. sc[w].pc = "batch" => sc[w] \in Batches
  BY <1>2 DEF NoScan, Fetches
<1> QED BY <1>1, <1>2, <1>3, <1>4, ScanKinds

LEMMA AfterFailure ==
  ASSUME NEW k, Numbered(k), TaskInv(k, saved, scanner, scans), NEW w \in Scanners, ScanFails(w)
  PROVE  TaskInv(k, saved', scanner', scans')
<1>1. saved' = saved /\ scans' = [scans EXCEPT ![w] = NoScan]
  BY DEF ScanFails
<1>2. CASE w = "task"
  <2>1. scanner' = Dead
    BY <1>2 DEF ScanFails
  <2>2. TaskInv(k, saved, Dead, scans')
    BY <1>1, <1>2, TaskDies
  <2> QED BY <1>1, <2>1, <2>2
<1>3. CASE w # "task"
  <2>1. scanner' = scanner
    BY <1>3 DEF ScanFails
  <2>2. NoScan \in {NoScan} \union Fetches \union Batches /\ NoScan.pc # "batch"
    BY ScanKinds
  <2>3. TaskInv(k, saved, scanner, scans')
    BY <1>1, <1>3, <2>2, ScanGoesOn
  <2> QED BY <1>1, <2>1, <2>3
<1> QED BY <1>2, <1>3

\* A scan is done that has left nothing to do at the version it has seen.
LEMMA AfterScan ==
  ASSUME NEW k, Numbered(k), TaskInv(k, saved, scanner, scans), NEW w \in Scanners,
         scans[w].pc = "batch", ScanDone(w),
         Owed(k, scans[w].coll) # {} => k.version[scans[w].coll] > scans[w].version
  PROVE  TaskInv(k, saved', scanner', scans')
<1>1. scans[w] \in Batches /\ Snapshot(k, scans[w])
  BY ScanAtWork
<1>2. CASE w = "task"
  <2>1. scanner.pc = "items" /\ FeedInv(k, scanner) /\ OnItem(scanner, scans[w])
    BY <1>2, ScanAtWork
  <2> DEFINE item == Oldest(scanner.feed)
  <2>2. item.coll = scans[w].coll /\ item.version <= scans[w].version
    BY <2>1 DEF OnItem
  <2>3. item.version \in 1..k.clock /\ item.coll \in ScanColls
    <3>1. scanner.feed \in SUBSET [version : 1..k.clock, coll : ScanColls] /\ k.clock \in Nat /\ scanner.feed # {}
      BY <2>1 DEF TaskInv, ScannerStates, Changes, FeedInv, Numbered
    <3> QED BY <3>1, OldestOfFeed
  <2>4. k.version[item.coll] \in Int /\ scans[w].version \in Int /\ item.version \in Int
    BY <1>1, <2>3 DEF Numbered, Batches
  <2>5. Owed(k, item.coll) # {} => k.version[item.coll] > item.version
    BY <2>2, <2>4
  <2>6. ItemDone
    BY <1>2 DEF ScanDone
  <2> QED BY <2>1, <2>5, <2>6, AfterItem
<1>3. CASE w # "task"
  <2>1. scans' = [scans EXCEPT ![w] = NoScan] /\ saved' = saved /\ scanner' = scanner
    BY <1>3 DEF ScanDone
  <2>2. NoScan \in {NoScan} \union Fetches \union Batches /\ NoScan.pc # "batch"
    BY ScanKinds
  <2>3. TaskInv(k, saved, scanner, scans')
    BY <2>1, <1>3, <2>2, ScanGoesOn
  <2> QED BY <2>1, <2>3
<1> QED BY <1>2, <1>3

LEMMA FetchStep ==
  ASSUME ScannerInv, NEW w \in Scanners, FetchColl(w)
  PROVE  ScannerInv'
<1>1. CollsInv /\ TaskInv(Colls, saved, scanner, scans) /\ events \in 0..MaxEvents
  BY DEF ScannerInv
<1> DEFINE scan == scans[w]
           c == scan.coll
<1>2. scan.pc = "fetch" /\ UNCHANGED <<collVars, events>>
  BY DEF FetchColl
<1>3. CollsInv' /\ Renewed(Colls, Colls')
  BY <1>1, <1>2, CollsStay
<1>4. Numbered(Colls)
  BY <1>1, CollsAreNumbered
<1>5. /\ scan \in Fetches
      /\ w = "task" => scanner.pc = "items" /\ FeedInv(Colls, scanner) /\ OnItem(scanner, scan)
  BY <1>1, <1>2, ScanAtWork
<1>6. c \in ScanColls /\ scan.destructive \in BOOLEAN
  BY <1>5 DEF Fetches
<1>7. TaskInv(Colls, saved', scanner', scans')
  <2>1. CASE Exists(c)
    <3> DEFINE q == Batch(scan)
    <3>1. scans' = [scans EXCEPT ![w] = q] /\ saved' = saved /\ scanner' = scanner
      BY <2>1 DEF FetchColl
    <3>2. /\ version[c] \in 1..clock /\ head[c] \in Nat /\ files[c] \in SUBSET MediaFiles
          /\ thumbs[c] \in SUBSET ScanContents
      BY <1>1, <1>6, <2>1 DEF CollsInv, Exists
    <3>3. /\ q.pc = "batch" /\ q.coll = c /\ q.version = version[c] /\ q.files = files[c] /\ q.thumbs = thumbs[c]
          /\ q \in Batches
      BY <1>6, <3>2 DEF Batch, Batches
    <3> HIDE DEF q
    <3>4. Snapshot(Colls, q)
      BY <3>2, <3>3 DEF Snapshot, Colls
    <3>5. ASSUME w = "task" PROVE OnItem(scanner, q)
      <4>1. FeedInv(Colls, scanner) /\ OnItem(scanner, scan)
        BY <1>5, <3>5
      <4>2. scanner.feed \in SUBSET [version : 1..clock, coll : ScanColls] /\ clock \in Nat /\ scanner.feed # {}
        BY <1>1, <4>1 DEF TaskInv, ScannerStates, Changes, FeedInv, CollsInv, Colls
      <4>3. Oldest(scanner.feed) \in scanner.feed
        BY <4>2, OldestOfFeed
      <4>4. Oldest(scanner.feed).coll = c
        BY <4>1 DEF OnItem
      <4>5. Oldest(scanner.feed).version <= version[c]
        BY <4>1, <4>3, <4>4, <3>2 DEF FeedInv, Colls
      <4> QED BY <4>4, <4>5, <3>3 DEF OnItem
    <3>6. TaskInv(Colls, saved, scanner, scans')
      BY <1>1, <1>5, <3>1, <3>3, <3>4, <3>5, ScanGoesOn
    <3> QED BY <3>1, <3>6
  <2>2. CASE ~Exists(c)
    <3>1. ScanFails(w)
      BY <2>2 DEF FetchColl
    <3> QED BY <3>1, <1>1, <1>4, AfterFailure
  <2> QED BY <2>1, <2>2
<1>8. TaskInv(Colls', saved', scanner', scans')
  BY <1>1, <1>3, <1>7, CollsMoved
<1> QED BY <1>1, <1>2, <1>3, <1>8 DEF ScannerInv

LEMMA NothingMadeStep ==
  ASSUME CollsInv, TaskInv(Colls, saved, scanner, scans), NEW w \in Scanners, scans[w].pc = "batch",
         NEW result \in Outcomes(scans[w]), NothingMade(w, result)
  PROVE  CollsInv' /\ TaskInv(Colls', saved', scanner', scans')
<1> DEFINE scan == scans[w]
           c == scan.coll
<1>1. scan \in Batches /\ Snapshot(Colls, scan)
  BY ScanAtWork
<1>2. c \in ScanColls /\ scan.version \in 1..clock
  BY <1>1 DEF Batches, Snapshot, Colls
<1>3. /\ result.failed \subseteq ScanContents /\ result.failed = Lacking(scan.files, scan.thumbs)
  BY <1>1, OutcomeOfBatch DEF NothingMade
<1>4. /\ skipped' = IF version[c] = scan.version THEN [skipped EXCEPT ![c] = @ \union result.failed] ELSE skipped
      /\ UNCHANGED <<clock, version, head, files, thumbs>> /\ ScanDone(w)
  BY DEF NothingMade
<1>5. CollsInv' /\ Renewed(Colls, Colls')
  <2>1. CASE version[c] = scan.version
    <3>1. skipped' = [skipped EXCEPT ![c] = @ \union result.failed]
      BY <1>4, <2>1
    <3> QED BY <3>1, <1>2, <1>3, <1>4, CollsSkip
  <2>2. CASE version[c] # scan.version
    <3>1. UNCHANGED collVars
      BY <1>4, <2>2 DEF collVars
    <3> QED BY <3>1, CollsStay
  <2> QED BY <2>1, <2>2
<1>6. ASSUME Owed(Colls', c) # {} PROVE version'[c] > scan.version
  <2>1. /\ version[c] \in Int /\ scan.version \in Int /\ version[c] # 0
    BY <1>2, <1>4, <1>6 DEF CollsInv, Owed, Lacking, Colls
  <2>2. scan.version <= version[c]
    BY <1>1, <2>1 DEF Snapshot, Colls
  <2>3. version[c] # scan.version
    <3> SUFFICES ASSUME version[c] = scan.version PROVE Owed(Colls', c) = {}
      BY <1>6
    <3>1. scan.files = files[c] /\ scan.thumbs = thumbs[c]
      BY <1>1 DEF Snapshot, Colls
    <3>2. skipped'[c] = skipped[c] \union Lacking(files[c], thumbs[c])
      BY <3>1, <1>2, <1>3, <1>4 DEF CollsInv
    <3> QED BY <3>2, <1>4 DEF Owed, Colls
  <2> QED BY <2>1, <2>2, <2>3, <1>4
<1>7. Numbered(Colls') /\ TaskInv(Colls', saved, scanner, scans)
  BY <1>5, CollsMoved
<1>8. Owed(Colls', c) # {} => Colls'.version[c] > scan.version
  BY <1>6 DEF Colls
<1> QED BY <1>4, <1>5, <1>7, <1>8, AfterScan

LEMMA CommitStep ==
  ASSUME CollsInv, TaskInv(Colls, saved, scanner, scans), NEW w \in Scanners, scans[w].pc = "batch",
         NEW result \in Outcomes(scans[w]), CommitBatch(w, result)
  PROVE  CollsInv' /\ TaskInv(Colls', saved', scanner', scans')
<1> DEFINE scan == scans[w]
           c == scan.coll
<1>1. scan \in Batches /\ Snapshot(Colls, scan) /\ (w = "task" => scanner.pc = "items" /\ OnItem(scanner, scan))
  BY ScanAtWork
<1>2. c \in ScanColls /\ scan.version \in 1..clock /\ scan.destructive \in BOOLEAN
  BY <1>1 DEF Batches, Snapshot, Colls
<1>3. result.made \subseteq ScanContents
  BY <1>1, OutcomeOfBatch
<1>4. /\ files' = [files EXCEPT ![c] = @ \ {Counterpart[v] : v \in Moved(scan)}]
      /\ thumbs' = [thumbs EXCEPT ![c] = @ \union result.made]
      /\ head' = NewHead(c) /\ BumpGlobalVersion(c)
  BY DEF CommitBatch
<1>5. CollsInv' /\ Renewed(Colls, Colls')
  <2>1. files \in [ScanColls -> SUBSET MediaFiles] /\ thumbs \in [ScanColls -> SUBSET ScanContents]
    BY DEF CollsInv
  <2> DEFINE gone == {Counterpart[v] : v \in Moved(scan)}
  <2>2. files' = [files EXCEPT ![c] = @ \ gone]
    BY <1>4
  <2> HIDE DEF gone
  <2>3. /\ files' \in [ScanColls -> SUBSET MediaFiles] /\ thumbs' \in [ScanColls -> SUBSET ScanContents]
        /\ \A d \in ScanColls \ {c} : files'[d] = files[d] /\ thumbs'[d] = thumbs[d]
    BY <1>2, <1>3, <1>4, <2>1, <2>2
  <2>4. head' \in [ScanColls -> Nat]
    BY <1>2, <1>4, HeadsGrow
  <2> QED BY <1>2, <1>4, <2>3, <2>4, CollsBump
<1>6. version'[c] > scan.version
  <2>1. clock \in Nat /\ version'[c] = clock + 1
    BY <1>2, <1>4 DEF BumpGlobalVersion, CollsInv
  <2> QED BY <2>1, <1>2
<1>7. Numbered(Colls') /\ TaskInv(Colls', saved, scanner, scans)
  BY <1>5, CollsMoved
<1>8. CASE result.more
  <2> DEFINE q == Scan(c, scan.destructive)
  <2>1. q \in Fetches /\ q.pc = "fetch" /\ q.coll = c
    BY <1>2, ScanKinds
  <2>2. scans' = [scans EXCEPT ![w] = q] /\ saved' = saved /\ scanner' = scanner
    <3>1. scans' = [scans EXCEPT ![w] = Scan(c, @.destructive)] /\ saved' = saved /\ scanner' = scanner
      BY <1>8 DEF CommitBatch
    <3> QED BY <3>1
  <2> HIDE DEF q
  <2>3. w = "task" => OnItem(scanner, q)
    BY <1>1, <2>1 DEF OnItem
  <2>4. TaskInv(Colls', saved, scanner, scans')
    BY <1>1, <1>7, <2>1, <2>2, <2>3, ScanGoesOn
  <2> QED BY <1>5, <2>2, <2>4
<1>9. CASE ~result.more
  <2>1. ScanDone(w)
    BY <1>9 DEF CommitBatch
  <2>2. Owed(Colls', c) # {} => Colls'.version[c] > scan.version
    BY <1>6 DEF Colls
  <2> QED BY <1>5, <1>7, <2>1, <2>2, AfterScan
<1> QED BY <1>8, <1>9

LEMMA BatchStep ==
  ASSUME ScannerInv, NEW w \in Scanners, CollectionThumbnailsOneBatch(w)
  PROVE  ScannerInv'
<1>1. CollsInv /\ TaskInv(Colls, saved, scanner, scans) /\ events \in 0..MaxEvents
  BY DEF ScannerInv
<1>2. scans[w].pc = "batch" /\ events' = events
  BY DEF CollectionThumbnailsOneBatch
<1>3. PICK result \in Outcomes(scans[w]) :
        NothingMade(w, result) \/ CommitBatch(w, result) \/ CommitConflicts(w, result)
  BY DEF CollectionThumbnailsOneBatch
<1>4. CASE CommitConflicts(w, result)
  <2>1. ScanFails(w) /\ UNCHANGED collVars
    BY <1>4 DEF CommitConflicts
  <2>2. CollsInv' /\ Renewed(Colls, Colls')
    BY <1>1, <2>1, CollsStay
  <2>3. Numbered(Colls') /\ TaskInv(Colls', saved, scanner, scans)
    BY <1>1, <2>2, CollsMoved
  <2>4. TaskInv(Colls', saved', scanner', scans')
    BY <2>1, <2>3, AfterFailure
  <2> QED BY <1>1, <1>2, <2>2, <2>4 DEF ScannerInv
<1>5. CASE NothingMade(w, result) \/ CommitBatch(w, result)
  <2>1. CollsInv' /\ TaskInv(Colls', saved', scanner', scans')
    BY <1>1, <1>2, <1>5, NothingMadeStep, CommitStep
  <2> QED BY <1>1, <1>2, <2>1 DEF ScannerInv
<1> QED BY <1>3, <1>4, <1>5

LEMMA TriggerStep ==
  ASSUME ScannerInv, NEW c \in ScanColls, NEW b \in BOOLEAN, TriggerScan(c, b)
  PROVE  ScannerInv'
<1>1. CollsInv /\ TaskInv(Colls, saved, scanner, scans) /\ events \in 0..MaxEvents
  BY DEF ScannerInv
<1> DEFINE q == Scan(c, b)
<1>2. /\ UNCHANGED <<collVars, saved, scanner>> /\ events' \in 0..MaxEvents
      /\ scans' = [scans EXCEPT !["trigger"] = q]
  BY <1>1, MediaScannerAssumption DEF TriggerScan, Event
<1>3. q \in Fetches /\ q.pc = "fetch"
  BY ScanKinds
<1> HIDE DEF q
<1>4. CollsInv' /\ Renewed(Colls, Colls')
  BY <1>1, <1>2, CollsStay
<1>5. TaskInv(Colls', saved, scanner, scans)
  BY <1>1, <1>4, CollsMoved
<1>6. "trigger" \in Scanners /\ "trigger" # "task"
  BY DEF Scanners
<1>7. TaskInv(Colls', saved, scanner, scans')
  BY <1>2, <1>3, <1>5, <1>6, ScanGoesOn
<1> QED BY <1>2, <1>4, <1>7 DEF ScannerInv

LEMMA ResetStep ==
  ASSUME ScannerInv, ConfigSetMediascannerState
  PROVE  ScannerInv'
<1>1. CollsInv /\ TaskInv(Colls, saved, scanner, scans) /\ events \in 0..MaxEvents
  BY DEF ScannerInv
<1>2. UNCHANGED <<collVars, scanner, scans>> /\ events' \in 0..MaxEvents /\ saved' = 0
  BY <1>1, MediaScannerAssumption DEF ConfigSetMediascannerState, Event
<1>3. CollsInv' /\ Renewed(Colls, Colls')
  BY <1>1, <1>2, CollsStay
<1>4. 0 \in 0..clock /\ NothingMissed(Colls, 0)
  <2>1. /\ clock \in Nat /\ version \in [ScanColls -> 0..clock]
        /\ \A c \in ScanColls : version[c] = 0 => files[c] = {}
    BY <1>1 DEF CollsInv
  <2>2. ASSUME NEW c \in ScanColls, Owed(Colls, c) # {} PROVE version[c] > 0
    <3>1. files[c] # {}
      BY <2>2 DEF Owed, Lacking, Colls
    <3> QED BY <3>1, <2>1
  <2> QED BY <2>1, <2>2 DEF NothingMissed, Colls
<1>5. TaskInv(Colls, 0, scanner, scans)
  <2>1. 0 \in 0..Colls.clock
    BY <1>4 DEF Colls
  <2> QED BY <2>1, <1>1, <1>4 DEF TaskInv
<1>6. TaskInv(Colls', 0, scanner, scans)
  BY <1>1, <1>3, <1>5, CollsMoved
<1> QED BY <1>2, <1>3, <1>6 DEF ScannerInv

LEMMA KillStep ==
  ASSUME ScannerInv, Kill
  PROVE  ScannerInv'
<1>1. CollsInv /\ TaskInv(Colls, saved, scanner, scans) /\ events \in 0..MaxEvents
  BY DEF ScannerInv
<1> DEFINE sc2 == [w \in Scanners |-> NoScan]
<1>2. UNCHANGED <<collVars, saved>> /\ events' \in 0..MaxEvents /\ scanner' = Dead /\ scans' = sc2
  BY <1>1, MediaScannerAssumption DEF Kill, Event
<1>3. CollsInv' /\ Renewed(Colls, Colls')
  BY <1>1, <1>2, CollsStay
<1>4. ScansInv(Colls, sc2) /\ sc2["task"] = NoScan
  BY ScanKinds DEF ScansInv, Scanners
<1> HIDE DEF sc2
<1>5. Dead \in ScannerStates(Colls) /\ Dead.pc = "dead"
  BY <1>1 DEF CollsInv, Colls, Dead, ScannerStates
<1> HIDE DEF Dead
<1>6. TaskInv(Colls, saved, Dead, sc2)
  BY <1>1, <1>4, <1>5 DEF TaskInv
<1>7. TaskInv(Colls', saved, Dead, sc2)
  BY <1>1, <1>3, <1>6, CollsMoved
<1> QED BY <1>2, <1>3, <1>7 DEF ScannerInv

LEMMA ClientsScannerStep ==
  ASSUME ScannerInv, NEW c \in ScanColls,
         \/ CreateColl(c) \/ PullMetadata(c) \/ DeleteColl(c)
         \/ \E F \in SUBSET MediaFiles :
              PushFiles(c, F) \/ DeleteFiles(c, F) \/ \E d \in ScanColls : MoveFiles(c, d, F)
  PROVE  ScannerInv'
<1>1. CollsInv /\ TaskInv(Colls, saved, scanner, scans) /\ events \in 0..MaxEvents
  BY DEF ScannerInv
<1>2. CollsInv' /\ Renewed(Colls, Colls')
  BY <1>1, ClientStep
<1>3. UNCHANGED <<saved, scanner, scans>> /\ events' \in 0..MaxEvents
  BY <1>1, MediaScannerAssumption
     DEF CreateColl, PullMetadata, DeleteColl, PushFiles, DeleteFiles, MoveFiles, MayChange, Event
<1>4. TaskInv(Colls', saved, scanner, scans)
  BY <1>1, <1>2, CollsMoved
<1> QED BY <1>2, <1>3, <1>4 DEF ScannerInv

LEMMA ScannerStarts ==
  ASSUME ScannerInit
  PROVE  ScannerInv
<1>1. PICK some \in SUBSET ScanColls :
        /\ clock = Cardinality(some) /\ version \in [ScanColls -> 0..clock]
        /\ {c \in ScanColls : version[c] # 0} = some /\ {version[c] : c \in some} = 1..clock
  BY DEF ScannerInit
<1>2. IsFiniteSet(some) /\ clock \in Nat
  BY <1>1, MediaScannerAssumption, FS_Subset, FS_CardinalityType
<1>3. UniqueVersions
  <2> DEFINE f == [c \in some |-> version[c]]
  <2>1. f \in Surjection(some, 1..clock)
    BY <1>1 DEF Surjection
  <2>2. Cardinality(1..clock) = clock
    BY <1>2, FS_Interval
  <2>3. f \in Injection(some, 1..clock)
    BY <2>1, <2>2, <1>1, <1>2, FS_Surjection
  <2> QED BY <2>3, <1>1 DEF UniqueVersions, Injection, IsInjective
<1>4. /\ head = [c \in ScanColls |-> 0] /\ thumbs = [c \in ScanColls |-> {}] /\ skipped = [c \in ScanColls |-> {}]
      /\ \E c \in ScanColls : Exists(c) /\ files = [d \in ScanColls |-> IF d = c THEN MediaFiles ELSE {}]
      /\ saved = 0 /\ scanner = Dead /\ scans = [w \in Scanners |-> NoScan] /\ events = 0
  BY DEF ScannerInit
<1>5. \A d \in ScanColls : version[d] = 0 => files[d] = {}
  BY <1>4 DEF Exists
<1>6. CollsInv
  BY <1>1, <1>2, <1>3, <1>4, <1>5 DEF CollsInv
<1>7. NothingMissed(Colls, 0)
  <2> SUFFICES ASSUME NEW c \in ScanColls, Owed(Colls, c) # {} PROVE version[c] > 0
    BY DEF NothingMissed, Colls
  <2>1. files[c] # {}
    BY DEF Owed, Lacking, Colls
  <2> QED BY <2>1, <1>1, <1>2, <1>5
<1>8. Dead \in ScannerStates(Colls) /\ Dead.pc = "dead" /\ saved \in 0..Colls.clock
  BY <1>2, <1>4 DEF Colls, Dead, ScannerStates
<1>9. ScansInv(Colls, scans) /\ scans["task"] = NoScan
  BY <1>4, ScanKinds DEF ScansInv, Scanners
<1> HIDE DEF Dead
<1>10. TaskInv(Colls, saved, scanner, scans)
  BY <1>4, <1>7, <1>8, <1>9 DEF TaskInv
<1> QED BY <1>4, <1>6, <1>10, MediaScannerAssumption DEF ScannerInv

LEMMA ScannerStep ==
  ASSUME ScannerInv, [ScannerNext]_scannerVars
  PROVE  ScannerInv'
<1>1. CASE Start
  BY <1>1, StartStep
<1>2. CASE Poll
  BY <1>2, PollStep
<1>3. CASE SaveWhilePolling
  BY <1>3, SaveStep
<1>4. ASSUME NEW w \in Scanners, ScanStep(w) PROVE ScannerInv'
  BY <1>4, FetchStep, BatchStep DEF ScanStep
<1>5. ASSUME NEW c \in ScanColls,
             \/ CreateColl(c) \/ PullMetadata(c) \/ DeleteColl(c)
             \/ \E F \in SUBSET MediaFiles :
                  PushFiles(c, F) \/ DeleteFiles(c, F) \/ \E d \in ScanColls : MoveFiles(c, d, F)
      PROVE  ScannerInv'
  BY <1>5, ClientsScannerStep
<1>6. ASSUME NEW c \in ScanColls, NEW b \in BOOLEAN, TriggerScan(c, b) PROVE ScannerInv'
  BY <1>6, TriggerStep
<1>7. CASE ConfigSetMediascannerState
  BY <1>7, ResetStep
<1>8. CASE Kill
  BY <1>8, KillStep
<1>9. CASE UNCHANGED scannerVars
  <2>1. UNCHANGED <<collVars, saved, scanner, scans, events>>
    BY <1>9 DEF scannerVars
  <2>2. CollsInv /\ TaskInv(Colls, saved, scanner, scans) /\ events \in 0..MaxEvents
    BY DEF ScannerInv
  <2>3. CollsInv' /\ Renewed(Colls, Colls')
    BY <2>1, <2>2, CollsStay
  <2>4. TaskInv(Colls', saved, scanner, scans)
    BY <2>2, <2>3, CollsMoved
  <2> QED BY <2>1, <2>2, <2>3, <2>4 DEF ScannerInv
<1> QED BY <1>1, <1>2, <1>3, <1>4, <1>5, <1>6, <1>7, <1>8, <1>9 DEF ScannerNext

THEOREM ScannerInvariant == ScannerSpec => []ScannerInv
<1>1. ScannerInv /\ [ScannerNext]_scannerVars => ScannerInv'
  BY ScannerStep
<1> QED BY <1>1, ScannerStarts, PTL DEF ScannerSpec

LEMMA ScannerInvTypes ==
  ASSUME ScannerInv
  PROVE  ScannerTypeOK
<1>1. CollsInv /\ TaskInv(Colls, saved, scanner, scans) /\ events \in 0..MaxEvents
  BY DEF ScannerInv
<1>2. saved \in 0..clock /\ scanner \in ScannerStates(Colls)
  BY <1>1 DEF TaskInv, Colls
<1>3. /\ scanner.pc \in {"dead", "polling", "items"} /\ scanner.cursor \in 0..clock
      /\ scanner.known \in 0..clock /\ scanner.feed \subseteq [version : 1..clock, coll : ScanColls]
  BY <1>2 DEF ScannerStates, Changes, Colls
<1>4. \A w \in Scanners : scans[w].pc \in {"idle", "fetch", "batch"}
  BY <1>1, ScanKinds DEF TaskInv, ScansInv, Fetches, Batches
<1> QED BY <1>1, <1>2, <1>3, <1>4 DEF ScannerTypeOK, CollsInv

\* Versions, cursors and feeds stay in their ranges, and a scan is idle, about
\* to fetch or at work on a batch.
THEOREM ScannerTypeCorrect == ScannerSpec => []ScannerTypeOK
<1>1. ScannerInv => ScannerTypeOK
  BY ScannerInvTypes
<1> QED BY <1>1, ScannerInvariant, PTL

\* What the scanner owes a thumbnail is ahead of the cursor it has saved, from
\* which it goes on after any failure, and ahead of the one it follows the feed
\* with: whatever clients, scans asked for by hand and its own commits do to
\* the collection between any two of its steps.
THEOREM ScannerMissesNothing == ScannerSpec => []NoChangeMissed
<1>1. ScannerInv => NoChangeMissed
  BY DEF ScannerInv, TaskInv, NothingMissed, Owed, Colls, NoChangeMissed, Due
<1> QED BY <1>1, ScannerInvariant, PTL
=============================================================================
