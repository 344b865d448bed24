---------------------------- MODULE MediaScanner ----------------------------
(***************************************************************************)
(* The media scanner follows the server's feed of changed collections and  *)
(* commits a thumbnail for every image that lacks one. It works on a        *)
(* snapshot of a collection while clients, and scans asked for by hand,     *)
(* commit to it; it commits against the head it saw, so it fails when the   *)
(* head has moved; and it ends at any error, to be started again from the   *)
(* cursor it last saved. Its own commits come back to it through the feed.  *)
(*                                                                         *)
(* A thumbnail is named after the content of the file it is for, so copies  *)
(* share one. The clock that versions come from is taken to go forward.     *)
(***************************************************************************)
EXTENDS Integers, FiniteSets

CONSTANTS
    ScanColls,    \* the identifiers of collections
    Images,       \* files that can be thumbnailed
    Videos,       \* files that cannot
    Counterpart,  \* the image that is named like the video
    Content,      \* what is in a file
    Banner,       \* the file a banner is kept in
    Known,        \* the collections some database of films or games may have one for
    ImageLimit,   \* a batch ends once it has more files than this
    FeedLimit,    \* how many changes one answer of the feed holds
    MaxEvents     \* bound: how often clients change something or ask for a scan, the
                  \* cursor is reset or the process is killed

MediaFiles == Images \union Videos

ASSUME MediaScannerAssumption ==
    /\ IsFiniteSet(ScanColls) /\ Images \intersect Videos = {} /\ Known \subseteq ScanColls
    /\ Counterpart \in [Videos -> Images]
    /\ DOMAIN Content = MediaFiles /\ Banner \notin {Content[f] : f \in MediaFiles}
    /\ ImageLimit \in Nat /\ FeedLimit \in Nat \ {0}
    /\ MaxEvents \in Nat

VARIABLES
    clock,    \* the last version given out
    version,  \* of each collection, 0 when there is none
    head,     \* how many changesets it has
    files,    \* the files in it, ...
    thumbs,   \* ... the contents there is a thumbnail of, and the banner
    skipped,  \* history: the contents no thumbnail could be made of since the last change
    saved,    \* the cursor in the server's database
    scanner,  \* the scanner's task: pc, cursor, known (what it takes saved to be), feed
    scans,    \* what the task, and a scan asked for by hand, are doing to a collection
    events

collVars    == <<clock, version, head, files, thumbs, skipped>>
scannerVars == <<collVars, saved, scanner, scans, events>>

Scanners  == {"task", "trigger"}
ScanContents == {Content[f] : f \in MediaFiles} \union {Banner}

Dead     == [pc |-> "dead", cursor |-> 0, known |-> 0, feed |-> {}]
NoScan     == [pc |-> "idle"]

\* A scan goes from batch to batch, each on a snapshot of the collection.
Scan(c, destructive) == [pc |-> "fetch", coll |-> c, destructive |-> destructive]
Batch(scan) ==
    [pc |-> "batch", coll |-> scan.coll, destructive |-> scan.destructive,
     version |-> version[scan.coll], head |-> head[scan.coll],
     files |-> files[scan.coll], thumbs |-> thumbs[scan.coll]]

ScannerTypeOK ==
    /\ clock \in Nat
    /\ version \in [ScanColls -> 0..clock]
    /\ head \in [ScanColls -> Nat]
    /\ files \in [ScanColls -> SUBSET MediaFiles]
    /\ thumbs \in [ScanColls -> SUBSET ScanContents] /\ skipped \in [ScanColls -> SUBSET ScanContents]
    /\ saved \in 0..clock
    /\ scanner.pc \in {"dead", "polling", "items"}
    /\ scanner.cursor \in 0..clock /\ scanner.known \in 0..clock
    /\ scanner.feed \subseteq [version : 1..clock, coll : ScanColls]
    /\ \A w \in Scanners : scans[w].pc \in {"idle", "fetch", "batch"}
    /\ events \in 0..MaxEvents

----------------------------------------------------------------------------
\* Collections

Exists(c)  == version[c] # 0
NewHead(c) == [head EXCEPT ![c] = @ + 1]

\* What every image in F needs, and is without in a collection with thumbnails T.
Lacking(F, T) == {Content[f] : f \in F \intersect Images} \ T

\* BumpGlobalVersion, in the write transaction that changes the collection: a
\* new version gives every content another chance.
BumpGlobalVersion(c) ==
    /\ clock' = clock + 1
    /\ version' = [version EXCEPT ![c] = clock + 1]
    /\ skipped' = [skipped EXCEPT ![c] = {}]

Event == events < MaxEvents /\ events' = events + 1

MayChange == Event /\ UNCHANGED <<saved, scanner, scans>>

CreateColl(c) ==
    /\ MayChange
    /\ ~Exists(c) /\ head[c] = 0
    /\ BumpGlobalVersion(c)
    /\ UNCHANGED <<head, files, thumbs>>

\* A changeset is pushed that adds files.
PushFiles(c, F) ==
    /\ MayChange
    /\ Exists(c) /\ F # {} /\ F \intersect files[c] = {}
    /\ files' = [files EXCEPT ![c] = @ \union F]
    /\ head' = NewHead(c)
    /\ BumpGlobalVersion(c)
    /\ UNCHANGED thumbs

\* The thumbnails of the files that go go with them, also those of copies that stay.
DeleteFiles(c, F) ==
    /\ MayChange
    /\ Exists(c) /\ F # {} /\ F \subseteq files[c]
    /\ files' = [files EXCEPT ![c] = @ \ F]
    /\ thumbs' = [thumbs EXCEPT ![c] = @ \ {Content[f] : f \in F}]
    /\ head' = NewHead(c)
    /\ BumpGlobalVersion(c)

\* Files move with their thumbnails; the destination must have none of either.
MoveFiles(c, d, F) ==
    LET T == {Content[f] : f \in F} \intersect thumbs[c] IN
    /\ MayChange
    /\ c # d /\ Exists(c) /\ Exists(d)
    /\ F # {} /\ F \subseteq files[c]
    /\ F \intersect files[d] = {} /\ T \intersect thumbs[d] = {}
    /\ files' = [files EXCEPT ![c] = @ \ F, ![d] = @ \union F]
    /\ thumbs' = [thumbs EXCEPT ![c] = @ \ T, ![d] = @ \union T]
    /\ head' = [head EXCEPT ![c] = @ + 1, ![d] = @ + 1]
    /\ clock' = clock + 2
    /\ version' = [version EXCEPT ![c] = clock + 1, ![d] = clock + 2]
    /\ skipped' = [skipped EXCEPT ![c] = {}, ![d] = {}]

\* Metadata is pulled: a version without a changeset.
PullMetadata(c) ==
    /\ MayChange
    /\ Exists(c)
    /\ BumpGlobalVersion(c)
    /\ UNCHANGED <<head, files, thumbs>>

\* A collection that is deleted leaves the index of versions.
DeleteColl(c) ==
    /\ MayChange
    /\ Exists(c)
    /\ version' = [version EXCEPT ![c] = 0]
    /\ head' = NewHead(c)
    /\ files' = [files EXCEPT ![c] = {}] /\ thumbs' = [thumbs EXCEPT ![c] = {}]
    /\ skipped' = [skipped EXCEPT ![c] = {}]
    /\ UNCHANGED clock

\* How the scanner is reset, by hand.
ConfigSetMediascannerState ==
    /\ Event
    /\ saved' = 0
    /\ UNCHANGED <<collVars, scanner, scans>>

----------------------------------------------------------------------------
\* The change feed and the scanner's task

CollectionChangefeed_NewestFirst(cursor) ==
    LET after == {[version |-> version[c], coll |-> c] : c \in {x \in ScanColls : version[x] > cursor}}
    IN {x \in after : Cardinality({y \in after : y.version > x.version}) < FeedLimit}

CollectionChangefeed_WithCursor(cursor) ==
    LET from == {[version |-> version[c], coll |-> c] : c \in {x \in ScanColls : Exists(x) /\ version[x] >= cursor}}
    IN {x \in from : Cardinality({y \in from : y.version < x.version}) < FeedLimit}

\* The oldest changes after a cursor.
CollectionChangefeed(cursor) ==
    LET after == {[version |-> version[c], coll |-> c] : c \in {x \in ScanColls : version[x] > cursor}}
    IN {x \in after : Cardinality({y \in after : y.version < x.version}) < FeedLimit}

Oldest(feed) == CHOOSE x \in feed : \A y \in feed : x.version <= y.version

\* The process is started again when nothing is left of the one before.
Start ==
    /\ scanner.pc = "dead" /\ scans["trigger"] = NoScan
    /\ scanner' = [pc |-> "polling", cursor |-> saved, known |-> saved, feed |-> {}]
    /\ UNCHANGED <<collVars, saved, scans, events>>

Poll ==
    LET feed == CollectionChangefeed(scanner.cursor) IN
    /\ scanner.pc = "polling"
    /\ feed # {}
    /\ scanner' = [scanner EXCEPT !.pc = "items", !.feed = feed]
    /\ scans' = [scans EXCEPT !["task"] = Scan(Oldest(feed).coll, FALSE)]
    /\ UNCHANGED <<collVars, saved, events>>

\* updateServerState, whenever its ticker has ticked. It compares with what the
\* task saved last, whatever somebody else saved since.
UpdateServerState(cursor, feed, pc) ==
    /\ cursor # scanner.known
    /\ saved' = cursor
    /\ scanner' = [pc |-> pc, cursor |-> cursor, known |-> cursor, feed |-> feed]

SaveWhilePolling ==
    /\ scanner.pc = "polling"
    /\ UpdateServerState(scanner.cursor, {}, "polling")
    /\ UNCHANGED <<collVars, scans, events>>

\* The cursor moves past a collection when it has been scanned, and with a
\* tick of the ticker is saved.
ItemDone ==
    LET item == Oldest(scanner.feed)
        rest == scanner.feed \ {item}
        pc   == IF rest = {} THEN "polling" ELSE "items"
    IN /\ scans' = [scans EXCEPT !["task"] = IF rest = {} THEN NoScan ELSE Scan(Oldest(rest).coll, FALSE)]
       /\ \/ /\ scanner' = [scanner EXCEPT !.pc = pc, !.cursor = item.version, !.feed = rest]
             /\ UNCHANGED saved
          \/ UpdateServerState(item.version, rest, pc)

----------------------------------------------------------------------------
\* collectionThumbnails, by the task and by TriggerScan

ScanDone(w) ==
    IF w = "task" THEN ItemDone
    ELSE scans' = [scans EXCEPT ![w] = NoScan] /\ UNCHANGED <<saved, scanner>>

\* An error ends a scan, and the task, and with it the process.
ScanFails(w) ==
    /\ scans' = [scans EXCEPT ![w] = NoScan]
    /\ scanner' = IF w = "task" THEN Dead ELSE scanner
    /\ UNCHANGED saved

TriggerScan(c, destructive) ==
    /\ Event
    /\ scanner.pc # "dead" /\ scans["trigger"] = NoScan
    /\ scans' = [scans EXCEPT !["trigger"] = Scan(c, destructive)]
    /\ UNCHANGED <<collVars, saved, scanner>>

FetchColl(w) ==
    LET scan == scans[w] IN
    /\ scan.pc = "fetch"
    /\ IF Exists(scan.coll)
       THEN scans' = [scans EXCEPT ![w] = Batch(scan)] /\ UNCHANGED <<saved, scanner>>
       ELSE ScanFails(w)
    /\ UNCHANGED <<collVars, events>>

\* In a destructive scan the image named like a video becomes its thumbnail.
Moved(scan) ==
    IF scan.destructive THEN {v \in scan.files \intersect Videos : Counterpart[v] \in scan.files}
    ELSE {}

\* What a batch can come to: a banner that may be found, the thumbnails that
\* were made and those that could not be, and whether images are left over.
Outcomes(scan) ==
    LET banner  == IF scan.coll \in Known THEN {Banner} ELSE {}
        lacking == Lacking(scan.files, scan.thumbs)
        moved   == {Content[v] : v \in Moved(scan)} \ scan.thumbs
        Outcome(found, made, failed) ==
            [made |-> moved \union found \union made, failed |-> failed,
             more |-> made \union failed # lacking]
        Possible(found, made, failed) ==
            LET first == Cardinality(moved \union found)
                all   == first + Cardinality(made)
            IN /\ made \intersect failed = {}
               /\ made \union failed # lacking => all > ImageLimit
               /\ all <= ImageLimit + 1 \/ made = {}
               /\ first > ImageLimit => failed = {}
    IN {Outcome(x[1], x[2], x[3]) : x \in
          {y \in (SUBSET (banner \ scan.thumbs)) \X (SUBSET lacking) \X (SUBSET lacking) :
             Possible(y[1], y[2], y[3])}}

\* A batch that created nothing is not committed, whatever it would replace.
NothingMade(w, result) ==
    LET c == scans[w].coll IN
    /\ result.made = {}
    /\ skipped' = IF version[c] = scans[w].version
                  THEN [skipped EXCEPT ![c] = @ \union result.failed] ELSE skipped
    /\ ScanDone(w)
    /\ UNCHANGED <<clock, version, head, files, thumbs>>

CommitBatch(w, result) ==
    LET c == scans[w].coll IN
    /\ result.made # {}
    /\ Exists(c) /\ head[c] = scans[w].head
    /\ files' = [files EXCEPT ![c] = @ \ {Counterpart[v] : v \in Moved(scans[w])}]
    /\ thumbs' = [thumbs EXCEPT ![c] = @ \union result.made]
    /\ head' = NewHead(c)
    /\ BumpGlobalVersion(c)
    /\ IF result.more
       THEN scans' = [scans EXCEPT ![w] = Scan(c, @.destructive)] /\ UNCHANGED <<saved, scanner>>
       ELSE ScanDone(w)

\* Somebody else committed since.
CommitConflicts(w, result) ==
    LET c == scans[w].coll IN
    /\ result.made # {}
    /\ ~Exists(c) \/ head[c] # scans[w].head
    /\ ScanFails(w)
    /\ UNCHANGED collVars

CollectionThumbnailsOneBatch(w) ==
    /\ scans[w].pc = "batch"
    /\ \E result \in Outcomes(scans[w]) :
         NothingMade(w, result) \/ CommitBatch(w, result) \/ CommitConflicts(w, result)
    /\ UNCHANGED events

\* The server or the whole machine goes down; so does what a request may fail of.
Kill ==
    /\ Event
    /\ scanner' = Dead
    /\ scans' = [w \in Scanners |-> NoScan]
    /\ UNCHANGED <<collVars, saved>>

----------------------------------------------------------------------------
\* The scanner is enabled when there are collections already, here
\* one of them with files.
ScannerInit ==
    /\ \E some \in SUBSET ScanColls :
         /\ clock = Cardinality(some)
         /\ version \in [ScanColls -> 0..clock]
         /\ {c \in ScanColls : version[c] # 0} = some /\ {version[c] : c \in some} = 1..clock
    /\ head = [c \in ScanColls |-> 0]
    /\ \E c \in ScanColls : Exists(c) /\ files = [d \in ScanColls |-> IF d = c THEN MediaFiles ELSE {}]
    /\ thumbs = [c \in ScanColls |-> {}]
    /\ skipped = [c \in ScanColls |-> {}]
    /\ saved = 0 /\ scanner = Dead
    /\ scans = [w \in Scanners |-> NoScan]
    /\ events = 0

ScanStep(w) == FetchColl(w) \/ CollectionThumbnailsOneBatch(w)

ScannerNext ==
    \/ Start \/ Poll \/ SaveWhilePolling
    \/ \E w \in Scanners : ScanStep(w)
    \/ \E c \in ScanColls :
         \/ CreateColl(c) \/ PullMetadata(c) \/ DeleteColl(c)
         \/ \E F \in SUBSET MediaFiles :
              PushFiles(c, F) \/ DeleteFiles(c, F) \/ \E d \in ScanColls : MoveFiles(c, d, F)
         \/ \E destructive \in BOOLEAN : TriggerScan(c, destructive)
    \/ ConfigSetMediascannerState
    \/ Kill

ScannerSpec == ScannerInit /\ [][ScannerNext]_scannerVars

\* The child is started again whenever it ends, its task polls for ever, and
\* what it asks of the server is answered.
ScannerFairness ==
    /\ WF_scannerVars(Start) /\ WF_scannerVars(Poll)
    /\ \A w \in Scanners : WF_scannerVars(ScanStep(w))

ScannerFairSpec == ScannerSpec /\ ScannerFairness

----------------------------------------------------------------------------
\* Properties

\* Images that still need a thumbnail, and have not been found to get none.
Due(c) == Lacking(files[c], thumbs[c]) \ skipped[c]

\* Nothing is missed: a collection with images the scanner owes thumbnails is
\* ahead of the cursor, of the saved one as well, from which the scanner goes
\* on after any error and whatever was committed between two of its steps.
NoChangeMissed ==
    \A c \in ScanColls : Due(c) # {} =>
        /\ version[c] > saved
        /\ scanner.pc # "dead" => version[c] > scanner.cursor

\* The scanner's commits do not keep it busy for ever, and neither do its
\* conflicts with others: when clients are done, it gets to the end of the feed
\* and stays there.
CatchesUp == <>[](\A c \in ScanColls : version[c] <= scanner.cursor)
=============================================================================
