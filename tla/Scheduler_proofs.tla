--------------------------- MODULE Scheduler_proofs ---------------------------
(***************************************************************************)
(* Proofs about Scheduler, for any number of jobs, any schedules, any      *)
(* capacity of the snapshot channel and no bound on time.                  *)
(***************************************************************************)
EXTENDS Scheduler, FiniteSetTheorems, WellFoundedInduction, SequenceTheorems, TLAPS

(***************************************************************************)
(* Schedules.                                                              *)
(***************************************************************************)
LEMMA NextAfterLater ==
  ASSUME NEW j \in Jobs, NEW t \in Time
  PROVE  NextAfter(j, t) \in Time /\ t < NextAfter(j, t)
<1> DEFINE p == Period[j]
           q == t \div p
<1>1. p \in Nat /\ p > 0
  BY PeriodAssumption
<1>2. q \in Nat /\ t = p * q + (t % p) /\ t % p < p /\ t % p \in Nat
  BY <1>1 DEF Time
<1>3. (q + 1) * p \in Nat /\ (q + 1) * p = p * q + p
  BY <1>1, <1>2
<1>4. QED
  BY <1>1, <1>2, <1>3 DEF NextAfter, Time

LEMMA FirstRunsType ==
  ASSUME NEW t \in Time
  PROVE  FirstRuns(t) \in [Jobs -> Time]
BY NextAfterLater DEF FirstRuns

LEMMA LeastTime ==
  ASSUME NEW T, T \subseteq Time, T # {}
  PROVE  \E t \in T : \A s \in T : t <= s
<1>1. PICK t \in T : \A s \in T : ~(<<s, t>> \in OpToRel(<, Nat))
  BY NatLessThanWellFounded, WFMin DEF Time
<1>2. \A s \in T : ~(s < t)
  BY <1>1 DEF OpToRel, Time
<1>3. QED
  BY <1>2 DEF Time

\* What the loop over all jobs in Controller.run computes.
LEMMA EarliestIsLeast ==
  ASSUME NEW next \in [Jobs -> Time], NEW js \in SUBSET Jobs
  PROVE  /\ Earliest(next, js) \in Time
         /\ \A j \in js : Earliest(next, js) <= next[j]
<1>1. CASE js = {}
  BY <1>1 DEF Earliest, Time
<1>2. CASE js # {}
  <2> DEFINE T == {next[j] : j \in js}
  <2>1. T \subseteq Time /\ T # {}
    BY <1>2
  <2>2. PICK t \in T : \A s \in T : t <= s
    BY <2>1, LeastTime
  <2>3. \E u \in T : \A j \in js : u <= next[j]
    BY <2>2
  <2>4. /\ Earliest(next, js) \in T
        /\ \A j \in js : Earliest(next, js) <= next[j]
    BY <1>2, <2>3 DEF Earliest
  <2>5. QED
    BY <2>1, <2>4
<1>3. QED
  BY <1>1, <1>2

(***************************************************************************)
(* Type correctness.                                                       *)
(***************************************************************************)
\* A channel of capacity one is empty or holds just its head.
LEMMA OnePlace ==
  ASSUME NEW S, NEW s \in Seq(S), Len(s) <= 1, s # <<>>
  PROVE  s = <<Head(s)>> /\ Tail(s) = <<>> /\ Head(s) \in S
<1>0. Len(s) \in Nat \ {0}
  BY EmptySeq
<1>1. Head(s) \in S /\ Tail(s) \in Seq(S) /\ Len(Tail(s)) = 0 /\ Len(s) = 1
  <2>1. Head(s) \in S /\ Tail(s) \in Seq(S) /\ Len(Tail(s)) = Len(s) - 1
    BY HeadTailProperties
  <2>2. QED
    BY <1>0, <2>1
<1>2. Tail(s) = <<>>
  BY <1>1, EmptySeq
<1>3. <<Head(s)>> \in Seq(S) /\ Len(<<Head(s)>>) = 1 /\ Head(s) = s[1]
  BY <1>1
<1>4. s = <<Head(s)>>
  BY <1>1, <1>3, SeqEqual
<1>5. QED
  BY <1>1, <1>2, <1>4

LEMMA EmptyChannel ==
  \A S : <<>> \in Seq(S) /\ Len(<<>>) = 0
BY EmptySeq

LEMMA StartJobsType ==
  ASSUME TypeOK, NEW js \in SUBSET loaded, StartJobs(js)
  PROVE  /\ nextRun' \in [Jobs -> Time]
         /\ \A j \in Jobs : nextRun[j] <= nextRun'[j]
         /\ running' \subseteq loaded
         /\ work' \subseteq Run
<1> USE DEF TypeOK, StartJobs
<1>1. \A j \in Jobs : NextAfter(j, nextRun[j]) \in Time /\ nextRun[j] < NextAfter(j, nextRun[j])
  BY NextAfterLater
<1>2. nextRun' \in [Jobs -> Time] /\ \A j \in Jobs : nextRun[j] <= nextRun'[j]
  BY <1>1 DEF Time
<1>3. \A j \in ToStart(js) : j \in Jobs /\ [job |-> j, started |-> now] \in Run
  BY DEF ToStart, Run
<1>4. QED
  BY <1>2, <1>3

LEMMA RecordFinishedType ==
  ASSUME TypeOK, RecordFinished
  PROVE  /\ jobFinished' = <<>>
         /\ jobFinished' \in Seq(Run) /\ Len(jobFinished') <= 1
         /\ lastRun' \in Times
         /\ running' \subseteq loaded
         /\ outbox' \in Snapshot
<1> DEFINE r == Head(jobFinished)
<1>1. r \in Run /\ jobFinished' = <<>>
  BY OnePlace DEF TypeOK, RecordFinished
<1>2. lastRun' \in Times
  BY <1>1 DEF TypeOK, RecordFinished, Times, Run
<1>3. nextRun \in Times
  BY DEF TypeOK, Times
<1>4. jobFinished' \in Seq(Run) /\ Len(jobFinished') <= 1
  BY <1>1, EmptyChannel
<1>5. QED
  BY <1>1, <1>2, <1>3, <1>4 DEF TypeOK, RecordFinished, Snapshot

LEMMA BootType ==
  ASSUME TypeOK, NEW js \in SUBSET Jobs, Boot(now, js), UNCHANGED <<now, dbVars>>,
         leftBehind' \subseteq Jobs
  PROVE  TypeOK'
<1>1. nextRun' \in [Jobs -> Time] /\ timer' \in Time
  BY FirstRunsType, EarliestIsLeast DEF TypeOK, Boot
<1>2. cursor' \in 1 .. NumJobs + 1
  BY NumJobsAssumption DEF Boot
<1>3. /\ jobFinished' \in Seq(Run) /\ Len(jobFinished') <= 1
      /\ SnapshotReady' \in Seq(Snapshot) /\ Len(SnapshotReady') <= SnapshotCap
  BY EmptyChannel, SnapshotCapAssumption DEF Boot
<1>4. QED
  BY <1>1, <1>2, <1>3 DEF TypeOK, Boot, LoadedLastRun, dbVars

LEMMA InitType == Init => TypeOK
<1> SUFFICES ASSUME Init PROVE TypeOK
  OBVIOUS
<1>1. nextRun \in [Jobs -> Time] /\ timer \in Time /\ now \in Time
  BY FirstRunsType, EarliestIsLeast DEF Init, Time
<1>2. cursor \in 1 .. NumJobs + 1
  BY NumJobsAssumption DEF Init
<1>3. savedLast \in Times /\ savedNext \in Times /\ lastRun \in Times
  BY DEF Init, Times
<1>4. /\ jobFinished \in Seq(Run) /\ Len(jobFinished) <= 1
      /\ SnapshotReady \in Seq(Snapshot) /\ Len(SnapshotReady) <= SnapshotCap
  BY EmptyChannel, SnapshotCapAssumption DEF Init
<1>5. QED
  BY <1>1, <1>2, <1>3, <1>4 DEF TypeOK, Init

LEMMA LoopStepType ==
  ASSUME TypeOK, LoopStep
  PROVE  TypeOK'
<1> USE DEF dbVars, processVars
<1>1. CASE Fire
  <2>1. PICK t \in timer .. now : StartJobs({j \in loaded : nextRun[j] <= t})
    BY <1>1 DEF Fire
  <2>2. /\ nextRun' \in [Jobs -> Time] /\ running' \subseteq loaded /\ work' \subseteq Run
    BY <2>1, StartJobsType
  <2>3. timer' \in Time
    BY <1>1, <2>2, EarliestIsLeast DEF Fire, TypeOK
  <2>4. QED
    BY <1>1, <2>2, <2>3 DEF Fire, TypeOK
<1>2. ASSUME NEW j \in Jobs, ServeTrigger(j) PROVE TypeOK'
  <2>1. StartJobs({j} \cap loaded)
    BY <1>2 DEF ServeTrigger
  <2>2. /\ nextRun' \in [Jobs -> Time] /\ running' \subseteq loaded /\ work' \subseteq Run
    BY <2>1, StartJobsType
  <2>3. QED
    BY <1>2, <2>2 DEF ServeTrigger, TypeOK
<1>3. CASE ServeSnapshot
  BY <1>3 DEF ServeSnapshot, TypeOK, loopVars
<1>4. CASE ReceiveResult
  BY <1>4, RecordFinishedType DEF ReceiveResult, TypeOK
<1>5. CASE Emit
  BY <1>5, SnapshotCapAssumption DEF Emit, Emitted, TypeOK
<1>6. CASE BeginStop
  BY <1>6 DEF BeginStop, TypeOK
<1>7. CASE StopOne
  <2>1. CASE AwaitsResult(cursor)
    <3>1. RecordFinished
      BY <1>7, <2>1 DEF StopOne
    <3>2. QED
      BY <1>7, <3>1, RecordFinishedType, NumJobsAssumption DEF StopOne, TypeOK
  <2>2. CASE ~AwaitsResult(cursor)
    BY <1>7, <2>2, NumJobsAssumption DEF StopOne, TypeOK
  <2>3. QED
    BY <2>1, <2>2
<1>8. CASE StopEnd
  BY <1>8 DEF StopEnd, TypeOK
<1>9. QED
  BY <1>1, <1>2, <1>3, <1>4, <1>5, <1>6, <1>7, <1>8 DEF LoopStep

LEMMA ProcessStepType ==
  ASSUME TypeOK,
         \/ \E r \in work : FinishRun(r)
         \/ TakeSnapshot
         \/ SaveSnapshot
         \/ StopSnapshotter
         \/ \E request \in MayAsk : Ask(request)
         \/ \E j \in Jobs : ScheduledjobToggle(j)
         \/ Tick
         \/ Stop
         \/ Reload
         \/ \E j \in Jobs : EndLeftBehind(j)
         \/ ProcessEnds
         \/ Restart
  PROVE  TypeOK'
<1> USE DEF dbVars, loopVars, processVars
<1>1. ASSUME NEW r \in work, FinishRun(r) PROVE TypeOK'
  BY <1>1 DEF FinishRun, TypeOK
<1>2. CASE TakeSnapshot
  <2>1. /\ snapshotter' \in Snapshot
        /\ SnapshotReady' \in Seq(Snapshot) /\ Len(SnapshotReady') <= SnapshotCap
    BY <1>2, HeadTailProperties, SnapshotCapAssumption DEF TakeSnapshot, TypeOK
  <2>2. QED
    BY <1>2, <2>1 DEF TakeSnapshot, TypeOK
<1>3. CASE SaveSnapshot
  <2>1. snapshotter \in Snapshot
    BY <1>3 DEF SaveSnapshot, TypeOK
  <2>2. savedLast' \in Times /\ savedNext' \in Times
    BY <1>3, <2>1 DEF SaveSnapshot, TypeOK, Times, Snapshot
  <2>3. QED
    BY <1>3, <2>2 DEF SaveSnapshot, EnabledAfterSave, AfterSave, TypeOK
<1>4. CASE StopSnapshotter
  BY <1>4 DEF StopSnapshotter, TypeOK
<1>5. ASSUME NEW request \in MayAsk, Ask(request) PROVE TypeOK'
  BY <1>5, RequestsAssumption DEF Ask, TypeOK
<1>6. ASSUME NEW j \in Jobs, ScheduledjobToggle(j) PROVE TypeOK'
  BY <1>6 DEF ScheduledjobToggle, TypeOK
<1>7. CASE Tick
  BY <1>7 DEF Tick, TypeOK, Time
<1>8. CASE Stop
  BY <1>8 DEF Stop, TypeOK
<1>9. CASE Reload
  <2>1. leftBehind' \subseteq Jobs
    BY <1>9 DEF Reload, LeftBehindAfterReload, TypeOK, Run
  <2>2. QED
    BY <1>9, <2>1, BootType DEF Reload, TypeOK
<1>10. ASSUME NEW j \in Jobs, EndLeftBehind(j) PROVE TypeOK'
  BY <1>10 DEF EndLeftBehind, TypeOK
<1>11. CASE ProcessEnds
  <2>1. /\ jobFinished' \in Seq(Run) /\ Len(jobFinished') <= 1
        /\ SnapshotReady' \in Seq(Snapshot) /\ Len(SnapshotReady') <= SnapshotCap
    BY <1>11, EmptyChannel, SnapshotCapAssumption DEF ProcessEnds
  <2>2. QED
    BY <1>11, <2>1 DEF ProcessEnds, TypeOK
<1>12. CASE Restart
  BY <1>12, BootType DEF Restart, TypeOK
<1>13. QED
  BY <1>1, <1>2, <1>3, <1>4, <1>5, <1>6, <1>7, <1>8, <1>9, <1>10, <1>11, <1>12

LEMMA NextType == TypeOK /\ [Next]_vars => TypeOK'
<1> SUFFICES ASSUME TypeOK, [Next]_vars PROVE TypeOK'
  OBVIOUS
<1>1. CASE UNCHANGED vars
  BY <1>1 DEF vars, dbVars, loopVars, processVars, TypeOK
<1>2. QED
  BY <1>1, LoopStepType, ProcessStepType DEF Next

\* Every variable keeps its type; the channels keep within their capacities.
THEOREM TypeCorrect == Spec => []TypeOK
BY InitType, NextType, PTL DEF Spec

(***************************************************************************)
(* Runs.  OneRunEach alone is not inductive: a run whose result is in the   *)
(* channel must not be under way as well, or receiving it would clear the  *)
(* Running flag of a job that runs.                                        *)
(***************************************************************************)
OneRunEach ==
  /\ \A r, s \in Unrecorded : r.job = s.job => r = s
  /\ running = {r.job : r \in Unrecorded}

Apart == work \cap ToSet(jobFinished) = {}

RunsInv == TypeOK /\ OneRunEach /\ Apart

LEMMA ChannelSet ==
  /\ ToSet(<<>>) = {}
  /\ \A r : ToSet(<<r>>) = {r}
BY DEF ToSet

LEMMA StartJobsRuns ==
  ASSUME RunsInv, NEW js \in SUBSET loaded, StartJobs(js), UNCHANGED jobFinished
  PROVE  OneRunEach' /\ Apart'
<1> DEFINE New == {[job |-> j, started |-> now] : j \in ToStart(js)}
<1>1. Unrecorded' = Unrecorded \cup New /\ work' = work \cup New
  BY DEF StartJobs, Unrecorded
<1>2. \A r \in New : r.job \in js \ running
  BY DEF ToStart
<1>3. \A r, s \in New : r.job = s.job => r = s
  OBVIOUS
<1>4. \A r \in Unrecorded : r.job \in running
  BY DEF RunsInv, OneRunEach
<1>5. \A r, s \in Unrecorded' : r.job = s.job => r = s
  BY <1>1, <1>2, <1>3, <1>4 DEF RunsInv, OneRunEach
<1>6. \A j \in js \ running : \E r \in New : r.job = j
  <2> TAKE j \in js \ running
  <2>1. [job |-> j, started |-> now] \in New
    BY DEF ToStart
  <2>2. QED
    BY <2>1
<1>7. running' = {r.job : r \in Unrecorded'}
  <2>1. running' = running \cup js
    BY DEF StartJobs
  <2>2. \A r \in Unrecorded' : r.job \in running'
    BY <1>1, <1>2, <1>4, <2>1
  <2>3. \A j \in running : \E r \in Unrecorded : r.job = j
    BY DEF RunsInv, OneRunEach
  <2>4. \A j \in running' : \E r \in Unrecorded' : r.job = j
    BY <1>1, <1>6, <2>1, <2>3
  <2>5. QED
    BY <2>2, <2>4
<1>8. New \cap ToSet(jobFinished) = {}
  BY <1>2, <1>4 DEF Unrecorded
<1>9. QED
  BY <1>1, <1>5, <1>7, <1>8 DEF OneRunEach, Apart, RunsInv

LEMMA RecordFinishedRuns ==
  ASSUME RunsInv, RecordFinished, UNCHANGED work
  PROVE  OneRunEach' /\ Apart'
<1> DEFINE r == Head(jobFinished)
<1>1. ToSet(jobFinished) = {r} /\ jobFinished' = <<>> /\ r \in Run
  <2>1. jobFinished = <<r>> /\ Tail(jobFinished) = <<>> /\ r \in Run
    BY OnePlace DEF RunsInv, TypeOK, RecordFinished
  <2>2. QED
    BY <2>1, ChannelSet DEF RecordFinished
<1>2. ToSet(jobFinished') = {}
  BY <1>1, ChannelSet
<1>3. Unrecorded' = Unrecorded \ {r} /\ r \in Unrecorded
  BY <1>1, <1>2 DEF Unrecorded, RunsInv, Apart
<1>4. \A s \in Unrecorded \ {r} : s.job # r.job
  BY <1>3 DEF RunsInv, OneRunEach
<1>5. running' = {s.job : s \in Unrecorded'}
  BY <1>3, <1>4 DEF RunsInv, OneRunEach, RecordFinished
<1>6. QED
  BY <1>2, <1>3, <1>5 DEF RunsInv, OneRunEach, Apart

LEMMA NextRuns == RunsInv /\ [Next]_vars => OneRunEach' /\ Apart'
<1> SUFFICES ASSUME RunsInv, [Next]_vars PROVE OneRunEach' /\ Apart'
  OBVIOUS
<1>1. CASE Fire
  BY <1>1, StartJobsRuns DEF Fire
<1>2. ASSUME NEW j \in Jobs, ServeTrigger(j) PROVE OneRunEach' /\ Apart'
  BY <1>2, StartJobsRuns DEF ServeTrigger
<1>3. CASE ReceiveResult
  BY <1>3, RecordFinishedRuns DEF ReceiveResult
<1>4. CASE StopOne
  <2>1. CASE AwaitsResult(cursor)
    BY <1>4, <2>1, RecordFinishedRuns DEF StopOne
  <2>2. CASE ~AwaitsResult(cursor)
    BY <1>4, <2>2 DEF StopOne, RunsInv, OneRunEach, Apart, Unrecorded
  <2>3. QED
    BY <2>1, <2>2
<1>5. ASSUME NEW r \in work, FinishRun(r) PROVE OneRunEach' /\ Apart'
  <2>1. jobFinished = <<>> /\ jobFinished' = <<r>>
    <3>1. jobFinished = <<>>
      BY <1>5, EmptySeq DEF FinishRun, RunsInv, TypeOK
    <3>2. QED
      BY <1>5, <3>1 DEF FinishRun
  <2>2. ToSet(jobFinished) = {} /\ ToSet(jobFinished') = {r}
    BY <2>1, ChannelSet
  <2>3. Unrecorded' = Unrecorded /\ work' = work \ {r} /\ running' = running
    BY <1>5, <2>2 DEF FinishRun, Unrecorded, loopVars
  <2>4. QED
    BY <2>2, <2>3 DEF RunsInv, OneRunEach, Apart
<1>6. CASE Reload \/ ProcessEnds \/ Restart
  <2>1. running' = {} /\ Unrecorded' = {} /\ ToSet(jobFinished') = {}
    BY <1>6, ChannelSet DEF Reload, ProcessEnds, Restart, Boot, Unrecorded
  <2>2. QED
    BY <2>1 DEF OneRunEach, Apart
<1>7. ASSUME UNCHANGED <<running, work, jobFinished>> PROVE OneRunEach' /\ Apart'
  BY <1>7 DEF RunsInv, OneRunEach, Apart, Unrecorded
<1>8. CASE ServeSnapshot \/ Emit \/ BeginStop \/ StopEnd
  BY <1>7, <1>8 DEF ServeSnapshot, Emit, BeginStop, StopEnd, loopVars, processVars
<1>9. ASSUME \/ TakeSnapshot \/ SaveSnapshot \/ StopSnapshotter
             \/ \E request \in MayAsk : Ask(request)
             \/ \E j \in Jobs : ScheduledjobToggle(j)
             \/ \E j \in Jobs : EndLeftBehind(j)
             \/ Tick \/ Stop \/ UNCHANGED vars
      PROVE  UNCHANGED <<running, work, jobFinished>>
  BY <1>9 DEF TakeSnapshot, SaveSnapshot, StopSnapshotter, Ask, ScheduledjobToggle,
              EndLeftBehind, Tick, Stop, vars, loopVars, processVars
<1>10. QED
  BY <1>1, <1>2, <1>3, <1>4, <1>5, <1>6, <1>7, <1>8, <1>9 DEF Next, LoopStep

(***************************************************************************)
(* Stopping.  For each job the loop has found running it has received a    *)
(* result, so those of them that still run are no more than the jobs that  *)
(* do not.                                                                 *)
(***************************************************************************)
WaitInv ==
  /\ phase = "loop" => cursor = 1
  /\ phase = "stopped" => cursor = NumJobs + 1
  /\ phase \in {"stopping", "stopped"} =>
       Cardinality(running \cap 1 .. cursor - 1) <= Cardinality(loaded \ running)

LEMMA FiniteJobs ==
  /\ IsFiniteSet(Jobs)
  /\ \A S \in SUBSET Jobs : IsFiniteSet(S) /\ Cardinality(S) \in Nat
<1>1. IsFiniteSet(Jobs)
  BY NumJobsAssumption, FS_Interval DEF Jobs
<1>2. ASSUME NEW S \in SUBSET Jobs PROVE IsFiniteSet(S) /\ Cardinality(S) \in Nat
  <2>1. IsFiniteSet(S)
    BY <1>1, FS_Subset
  <2>2. QED
    BY <2>1, FS_CardinalityType
<1>3. QED
  BY <1>1, <1>2

LEMMA StopOneWaits ==
  ASSUME RunsInv, WaitInv, StopOne
  PROVE  WaitInv'
<1> DEFINE Passed == running \cap 1 .. cursor - 1
<1>1. /\ running \subseteq loaded /\ loaded \subseteq Jobs /\ cursor \in Jobs
      /\ cursor' = cursor + 1 /\ loaded' = loaded /\ phase' = "stopping"
      /\ Cardinality(Passed) <= Cardinality(loaded \ running)
  BY NumJobsAssumption DEF StopOne, RunsInv, TypeOK, WaitInv, Jobs
<1>2. 1 .. cursor' - 1 = (1 .. cursor - 1) \cup {cursor}
  BY <1>1, NumJobsAssumption DEF Jobs
<1>3. CASE cursor \notin running
  <2>1. running' = running
    BY <1>3 DEF StopOne, AwaitsResult
  <2>2. running' \cap 1 .. cursor' - 1 = Passed
    BY <1>2, <1>3, <2>1
  <2>3. QED
    BY <1>1, <2>1, <2>2 DEF WaitInv
<1>4. CASE cursor \in running
  <2> DEFINE r == Head(jobFinished)
  <2>1. RecordFinished
    BY <1>4 DEF StopOne, AwaitsResult
  <2>2. r.job \in running /\ running' = running \ {r.job}
    <3>1. jobFinished = <<r>>
      BY <2>1, OnePlace DEF RunsInv, TypeOK, RecordFinished
    <3>2. r \in Unrecorded
      BY <3>1, ChannelSet DEF Unrecorded
    <3>3. QED
      BY <2>1, <3>2 DEF RecordFinished, RunsInv, OneRunEach
  <2>3. Cardinality(Passed \cup {cursor}) <= Cardinality(Passed) + 1
    <3>1. Passed \in SUBSET Jobs /\ cursor \notin Passed
      BY <1>1, NumJobsAssumption DEF Jobs
    <3>2. QED
      BY <3>1, FiniteJobs, FS_AddElement
  <2>4. Cardinality(running' \cap 1 .. cursor' - 1) <= Cardinality(Passed) + 1
    <3>1. running' \cap 1 .. cursor' - 1 \subseteq Passed \cup {cursor}
      BY <1>2, <2>2
    <3>2. Passed \cup {cursor} \in SUBSET Jobs /\ running' \cap 1 .. cursor' - 1 \in SUBSET Jobs
      BY <1>1, <2>2
    <3>3. Cardinality(running' \cap 1 .. cursor' - 1) <= Cardinality(Passed \cup {cursor})
      BY <3>1, <3>2, FiniteJobs, FS_Subset
    <3>4. Cardinality(Passed) \in Nat /\ Cardinality(Passed \cup {cursor}) \in Nat
          /\ Cardinality(running' \cap 1 .. cursor' - 1) \in Nat
      BY <1>1, <3>2, FiniteJobs
    <3>5. QED
      BY <2>3, <3>3, <3>4
  <2>5. Cardinality(loaded' \ running') = Cardinality(loaded \ running) + 1
    <3>1. loaded' \ running' = (loaded \ running) \cup {r.job} /\ r.job \notin loaded \ running
      BY <1>1, <2>2
    <3>2. loaded \ running \in SUBSET Jobs
      BY <1>1
    <3>3. QED
      BY <3>1, <3>2, FiniteJobs, FS_AddElement
  <2>6. Passed \in SUBSET Jobs /\ loaded \ running \in SUBSET Jobs
        /\ running' \cap 1 .. cursor' - 1 \in SUBSET Jobs
    BY <1>1, <2>2
  <2>7. Cardinality(running' \cap 1 .. cursor' - 1) <= Cardinality(loaded' \ running')
    BY <1>1, <2>4, <2>5, <2>6, FiniteJobs
  <2>8. QED
    BY <1>1, <2>7 DEF WaitInv
<1>5. QED
  BY <1>3, <1>4

LEMMA NextWaits == RunsInv /\ WaitInv /\ [Next]_vars => WaitInv'
<1> SUFFICES ASSUME RunsInv, WaitInv, [Next]_vars PROVE WaitInv'
  OBVIOUS
<1>1. CASE StopOne
  BY <1>1, StopOneWaits
<1>2. CASE BeginStop
  <2>1. running' \cap 1 .. cursor' - 1 = {}
    BY <1>2 DEF BeginStop, Selecting, WaitInv
  <2>2. loaded' \ running' \in SUBSET Jobs
    BY <1>2 DEF BeginStop, RunsInv, TypeOK
  <2>3. QED
    BY <1>2, <2>1, <2>2, FiniteJobs, FS_EmptySet DEF BeginStop, Selecting, WaitInv
<1>3. CASE StopEnd
  BY <1>3, NumJobsAssumption DEF StopEnd, WaitInv, RunsInv, TypeOK
<1>4. ASSUME Selecting, phase' = phase, cursor' = cursor
      PROVE  WaitInv'
  BY <1>4 DEF Selecting, WaitInv
<1>5. CASE Fire \/ ReceiveResult \/ \E j \in Jobs : ServeTrigger(j)
  BY <1>4, <1>5 DEF Fire, ReceiveResult, ServeTrigger
<1>6. CASE Reload \/ ProcessEnds \/ Restart
  BY <1>6 DEF Reload, ProcessEnds, Restart, Boot, WaitInv
<1>7. ASSUME \/ ServeSnapshot \/ Emit \/ TakeSnapshot \/ SaveSnapshot \/ StopSnapshotter
             \/ \E r \in work : FinishRun(r)
             \/ \E request \in MayAsk : Ask(request)
             \/ \E j \in Jobs : ScheduledjobToggle(j)
             \/ \E j \in Jobs : EndLeftBehind(j)
             \/ Tick \/ Stop \/ UNCHANGED vars
      PROVE  UNCHANGED <<phase, cursor, running, loaded>>
  BY <1>7 DEF ServeSnapshot, Emit, TakeSnapshot, SaveSnapshot, StopSnapshotter, FinishRun,
              Ask, ScheduledjobToggle, EndLeftBehind, Tick, Stop, vars, loopVars, processVars
<1>8. ASSUME UNCHANGED <<phase, cursor, running, loaded>> PROVE WaitInv'
  BY <1>8 DEF WaitInv
<1>9. QED
  BY <1>1, <1>2, <1>3, <1>5, <1>6, <1>7, <1>8 DEF Next, LoopStep

\* A stopped scheduler has waited for half of its jobs.
LEMMA WaitedForHalf ==
  ASSUME RunsInv, WaitInv, phase = "stopped"
  PROVE  2 * Cardinality(running) <= Cardinality(loaded)
<1>1. running \in SUBSET Jobs /\ running \subseteq loaded /\ loaded \ running \in SUBSET Jobs
      /\ loaded \in SUBSET Jobs
  BY DEF RunsInv, TypeOK
<1>2. running \cap 1 .. cursor - 1 = running
  <2>1. 1 .. cursor - 1 = Jobs
    <3>1. cursor - 1 = NumJobs
      BY NumJobsAssumption DEF WaitInv
    <3>2. QED
      BY <3>1 DEF Jobs
  <2>2. QED
    BY <1>1, <2>1
<1>3. Cardinality(running) <= Cardinality(loaded \ running)
  BY <1>2 DEF WaitInv
<1>4. Cardinality(loaded) = Cardinality(running) + Cardinality(loaded \ running)
  <2>1. loaded = running \cup (loaded \ running) /\ running \cap (loaded \ running) = {}
    BY <1>1
  <2>2. Cardinality(running \cup (loaded \ running))
          = Cardinality(running) + Cardinality(loaded \ running)
              - Cardinality(running \cap (loaded \ running))
    BY <1>1, FiniteJobs, FS_Union
  <2>3. QED
    <3>1. /\ Cardinality(running) \in Nat /\ Cardinality(loaded \ running) \in Nat
          /\ Cardinality(running \cap (loaded \ running)) = 0
      BY <1>1, <2>1, FiniteJobs, FS_EmptySet
    <3>2. Cardinality(loaded) = Cardinality(running \cup (loaded \ running))
      BY <2>1, Zenon
    <3>3. QED
      BY <2>2, <3>1, <3>2
<1>5. QED
  BY <1>1, <1>3, <1>4, FiniteJobs

\* Within a scheduler a job never runs twice at once and the Running flag tells
\* whether it runs, whatever is triggered; and one that stops has waited for at
\* least half of its jobs, however often the server is stopped or restarted.
THEOREM NeverOverlaps == Spec => []NoOverlap
<1>1. Init => RunsInv /\ WaitInv
  <2> SUFFICES ASSUME Init PROVE RunsInv /\ WaitInv
    OBVIOUS
  <2>1. running = {} /\ Unrecorded = {} /\ ToSet(jobFinished) = {}
    BY ChannelSet DEF Init, Unrecorded
  <2>2. RunsInv
    BY <2>1, InitType DEF RunsInv, OneRunEach, Apart
  <2>3. WaitInv
    BY DEF Init, WaitInv
  <2>4. QED
    BY <2>2, <2>3
<1>2. RunsInv /\ WaitInv /\ [Next]_vars => (RunsInv /\ WaitInv)'
  BY NextType, NextRuns, NextWaits DEF RunsInv
<1>3. RunsInv /\ WaitInv => NoOverlap
  BY WaitedForHalf DEF RunsInv, OneRunEach, NoOverlap
<1>4. QED
  BY <1>1, <1>2, <1>3, PTL DEF Spec

(***************************************************************************)
(* The timer.                                                              *)
(***************************************************************************)
TimerInv == TypeOK /\ TimerNotLate

LEMMA NextTimer == TimerInv /\ [Next]_vars => TimerNotLate'
<1> SUFFICES ASSUME TimerInv, [Next]_vars PROVE TimerNotLate'
  OBVIOUS
<1>1. CASE Fire
  <2>1. PICK t \in timer .. now : StartJobs({j \in loaded : nextRun[j] <= t})
    BY <1>1 DEF Fire
  <2>2. nextRun' \in [Jobs -> Time] /\ loaded \in SUBSET Jobs
    BY <2>1, StartJobsType DEF TimerInv, TypeOK
  <2>3. \A j \in loaded : timer' <= nextRun'[j]
    BY <1>1, <2>2, EarliestIsLeast DEF Fire
  <2>4. QED
    BY <1>1, <2>3 DEF Fire, TimerNotLate
<1>2. ASSUME NEW j \in Jobs, ServeTrigger(j) PROVE TimerNotLate'
  <2>1. /\ nextRun' \in [Jobs -> Time]
        /\ \A k \in Jobs : nextRun[k] <= nextRun'[k]
    BY <1>2, StartJobsType DEF ServeTrigger, TimerInv
  <2>2. loaded \subseteq Jobs /\ nextRun \in [Jobs -> Time] /\ timer \in Time
    BY DEF TimerInv, TypeOK
  <2>3. UNCHANGED <<phase, loaded, timer>>
    BY <1>2 DEF ServeTrigger
  <2>4. QED
    BY <2>1, <2>2, <2>3 DEF TimerInv, TimerNotLate, Time
<1>3. CASE Reload \/ Restart
  <2>1. FirstRuns(now) \in [Jobs -> Time] /\ enabled \in SUBSET Jobs
    BY FirstRunsType DEF TimerInv, TypeOK
  <2>2. nextRun' = FirstRuns(now) /\ loaded' = enabled /\ timer' = Earliest(FirstRuns(now), enabled)
    BY <1>3 DEF Reload, Restart, Boot
  <2>3. QED
    BY <2>1, <2>2, EarliestIsLeast DEF TimerNotLate
<1>4. ASSUME UNCHANGED <<loaded, nextRun, timer>>, phase' = "loop" => phase = "loop"
      PROVE  TimerNotLate'
  BY <1>4 DEF TimerInv, TimerNotLate
<1>5. CASE ServeSnapshot \/ ReceiveResult \/ Emit \/ BeginStop \/ StopOne \/ StopEnd \/ ProcessEnds
  BY <1>4, <1>5
     DEF ProcessEnds, ServeSnapshot, ReceiveResult, Emit, BeginStop, StopOne, StopEnd, loopVars
<1>6. ASSUME \/ \E r \in work : FinishRun(r)
             \/ TakeSnapshot \/ SaveSnapshot \/ StopSnapshotter
             \/ \E request \in MayAsk : Ask(request)
             \/ \E j \in Jobs : ScheduledjobToggle(j)
             \/ \E j \in Jobs : EndLeftBehind(j)
             \/ Tick \/ Stop \/ UNCHANGED vars
      PROVE  UNCHANGED <<phase, loaded, nextRun, timer>>
  BY <1>6 DEF FinishRun, TakeSnapshot, SaveSnapshot, StopSnapshotter, Ask,
              ScheduledjobToggle, EndLeftBehind, Tick, Stop, vars, loopVars
<1>7. QED
  BY <1>1, <1>2, <1>3, <1>4, <1>5, <1>6 DEF Next, LoopStep

\* The loop never sleeps past a job's next run, although a trigger moves the
\* next run without setting the timer.
THEOREM TimerInTime == Spec => []TimerNotLate
<1>1. Init => TimerInv
  <2> SUFFICES ASSUME Init PROVE TimerInv
    OBVIOUS
  <2>1. FirstRuns(0) \in [Jobs -> Time]
    BY FirstRunsType DEF Time
  <2>2. QED
    BY <2>1, InitType, EarliestIsLeast DEF Init, TimerInv, TimerNotLate
<1>2. TimerInv /\ [Next]_vars => TimerInv'
  BY NextType, NextTimer DEF TimerInv
<1>3. TimerInv => TimerNotLate
  BY DEF TimerInv
<1>4. QED
  BY <1>1, <1>2, <1>3, PTL DEF Spec

(***************************************************************************)
(* The way of results to the database.  What is saved, being saved, queued *)
(* for saving, being sent and known to the loop are ordered: each is at    *)
(* least as new as the one before, for every job.                          *)
(***************************************************************************)
Saving == snapshotter \notin {None, Gone}

NotAfter(a, b) == \A j \in loaded : a[j] <= b[j]

\* last is no older than what is saved and what is being saved.
AfterSaved(last) ==
  /\ NotAfter(savedLast, last)
  /\ Saving => NotAfter(snapshotter.last, last)

\* last is no older than anything in the channel.
AfterQueued(last) ==
  \A i \in 1 .. Len(SnapshotReady) : NotAfter(SnapshotReady[i].last, last)

QueueOrdered ==
  \A i \in 1 .. Len(SnapshotReady) :
    /\ AfterSaved(SnapshotReady[i].last)
    /\ \A k \in i .. Len(SnapshotReady) :
         NotAfter(SnapshotReady[i].last, SnapshotReady[k].last)

WayOrdered ==
  /\ Saving => NotAfter(savedLast, snapshotter.last)
  /\ QueueOrdered
  /\ outbox # None => /\ AfterSaved(outbox.last)
                      /\ AfterQueued(outbox.last)
                      /\ NotAfter(outbox.last, lastRun)
  /\ AfterSaved(lastRun)
  /\ AfterQueued(lastRun)

\* A run that is not recorded is newer than the last one that is.
RunsAreNew ==
  /\ \A j \in Jobs : savedLast[j] <= now /\ lastRun[j] <= now
  /\ \A r \in Unrecorded : lastRun[r.job] <= r.started /\ r.started <= now

WayInv == RunsInv /\ WayOrdered /\ RunsAreNew

LEMMA NotAfterTransitive ==
  ASSUME TypeOK, NEW a \in Times, NEW b \in Times, NEW c \in Times,
         NotAfter(a, b), NotAfter(b, c)
  PROVE  NotAfter(a, c)
<1>1. \A j \in loaded : a[j] \in Int /\ b[j] \in Int /\ c[j] \in Int
  BY DEF TypeOK, Times, Time, Never
<1>2. QED
  BY <1>1 DEF NotAfter

LEMMA NotAfterReflexive ==
  ASSUME TypeOK, NEW a \in Times
  PROVE  NotAfter(a, a)
<1>1. \A j \in loaded : a[j] \in Int
  BY DEF TypeOK, Times, Time, Never
<1>2. QED
  BY <1>1 DEF NotAfter

\* The types of what is on the way.
LEMMA WayTypes ==
  ASSUME TypeOK
  PROVE  /\ savedLast \in Times /\ lastRun \in Times
         /\ outbox # None => outbox.last \in Times
         /\ Saving => snapshotter.last \in Times
         /\ \A i \in 1 .. Len(SnapshotReady) : SnapshotReady[i].last \in Times
<1>1. \A s \in Snapshot : s.last \in Times
  BY DEF Snapshot
<1>2. \A i \in 1 .. Len(SnapshotReady) : SnapshotReady[i] \in Snapshot
  BY ElementOfSeq DEF TypeOK
<1>3. QED
  BY <1>1, <1>2 DEF TypeOK, Saving

\* The loop learns a newer result.
LEMMA RecordFinishedWay ==
  ASSUME WayInv, RecordFinished,
         UNCHANGED <<now, dbVars, loaded, work, SnapshotReady, snapshotter>>,
         outbox = None
  PROVE  WayOrdered' /\ RunsAreNew'
<1> DEFINE r == Head(jobFinished)
<1> USE DEF dbVars
<1>1. r \in Run /\ r \in ToSet(jobFinished) /\ ToSet(jobFinished') = {}
  <2>1. jobFinished = <<r>> /\ Tail(jobFinished) = <<>> /\ r \in Run
    BY OnePlace DEF WayInv, RunsInv, TypeOK, RecordFinished
  <2>2. QED
    BY <2>1, ChannelSet DEF RecordFinished
<1>2. r \in Unrecorded /\ Unrecorded' \subseteq Unrecorded /\ r \notin Unrecorded'
  BY <1>1 DEF Unrecorded, WayInv, RunsInv, Apart
<1>3. TypeOK /\ lastRun' = [lastRun EXCEPT ![r.job] = r.started] /\ lastRun' \in Times
  BY RecordFinishedType DEF WayInv, RunsInv, RecordFinished
<1>4. \A j \in Jobs : lastRun'[j] = IF j = r.job THEN r.started ELSE lastRun[j]
  BY <1>3 DEF TypeOK, Times
<1>5. lastRun[r.job] <= r.started /\ r.started <= now
  BY <1>2 DEF WayInv, RunsAreNew
<1>6. NotAfter(lastRun, lastRun')
  <2>1. \A j \in Jobs : lastRun[j] <= lastRun'[j]
    BY <1>3, <1>4, <1>5 DEF TypeOK, Times, Time, Never
  <2>2. QED
    BY <1>3, <2>1 DEF NotAfter, TypeOK
<1>7. RunsAreNew'
  <2>1. \A s \in Unrecorded' : s.job # r.job /\ s.job \in Jobs
    BY <1>2 DEF WayInv, RunsInv, OneRunEach, TypeOK, Unrecorded, Run
  <2>2. \A s \in Unrecorded' : lastRun'[s.job] <= s.started /\ s.started <= now
    BY <1>2, <1>4, <2>1 DEF WayInv, RunsAreNew
  <2>3. \A j \in Jobs : savedLast[j] <= now /\ lastRun'[j] <= now
    BY <1>4, <1>5 DEF WayInv, RunsAreNew
  <2>4. QED
    BY <2>2, <2>3 DEF RunsAreNew
<1>8. AfterSaved(lastRun') /\ AfterQueued(lastRun')
  <2>1. AfterSaved(lastRun) /\ AfterQueued(lastRun)
    BY DEF WayInv, WayOrdered
  <2>2. \A a \in Times : NotAfter(a, lastRun) => NotAfter(a, lastRun')
    BY <1>3, <1>6, WayTypes, NotAfterTransitive
  <2>3. AfterSaved(lastRun')
    BY <1>3, <2>1, <2>2, WayTypes DEF AfterSaved
  <2>4. AfterQueued(lastRun')
    BY <1>3, <2>1, <2>2, WayTypes DEF AfterQueued
  <2>5. QED
    BY <2>3, <2>4
<1>9. outbox'.last = lastRun'
  BY DEF RecordFinished
<1>10. NotAfter(lastRun', lastRun')
  BY <1>3, NotAfterReflexive
<1>11. QED
  BY <1>7, <1>8, <1>9, <1>10
     DEF WayInv, WayOrdered, QueueOrdered, AfterSaved, AfterQueued, NotAfter, Saving

LEMMA StartJobsWay ==
  ASSUME WayInv, NEW js \in SUBSET loaded, StartJobs(js),
         UNCHANGED <<now, dbVars, loaded, lastRun, outbox, jobFinished,
                     SnapshotReady, snapshotter>>
  PROVE  WayOrdered' /\ RunsAreNew'
<1> USE DEF dbVars
<1>1. WayOrdered'
  BY DEF WayInv, WayOrdered, QueueOrdered, AfterSaved, AfterQueued, NotAfter, Saving
<1>2. \A r \in Unrecorded' : r \in Unrecorded \/ (r.started = now /\ r.job \in Jobs)
  BY DEF StartJobs, Unrecorded, ToStart, WayInv, RunsInv, TypeOK
<1>3. now <= now
  BY DEF WayInv, RunsInv, TypeOK, Time
<1>4. \A r \in Unrecorded' : lastRun[r.job] <= r.started /\ r.started <= now
  BY <1>2, <1>3 DEF WayInv, RunsAreNew
<1>5. QED
  BY <1>1, <1>4 DEF WayInv, RunsAreNew

LEMMA EmitWay ==
  ASSUME WayInv, Emit
  PROVE  WayOrdered' /\ RunsAreNew'
<1> DEFINE n == Len(SnapshotReady)
           Q == SnapshotReady'
<1>1. /\ n \in Nat /\ Len(Q) = n + 1
      /\ \A i \in 1 .. n : Q[i] = SnapshotReady[i]
      /\ Q[n + 1] = outbox
  <2>1. outbox \in Snapshot /\ SnapshotReady \in Seq(Snapshot) /\ Q = Append(SnapshotReady, outbox)
    BY DEF Emit, Emitted, WayInv, RunsInv, TypeOK
  <2>2. QED
    BY <2>1, AppendProperties, LenProperties
<1>2. /\ AfterSaved(outbox.last) /\ AfterQueued(outbox.last)
      /\ NotAfter(outbox.last, lastRun) /\ NotAfter(outbox.last, outbox.last)
  BY WayTypes, NotAfterReflexive DEF Emit, WayInv, WayOrdered, RunsInv
<1>3. UNCHANGED <<now, savedLast, loaded, lastRun, snapshotter, work, jobFinished>> /\ outbox' = None
  BY DEF Emit, dbVars
<1>4. \A i \in 1 .. Len(Q) : i \in 1 .. n \/ i = n + 1
  BY <1>1
<1>5. \A i \in 1 .. Len(Q) : AfterSaved(Q[i].last) /\ NotAfter(Q[i].last, lastRun)
  BY <1>1, <1>2, <1>4 DEF WayInv, WayOrdered, QueueOrdered, AfterQueued
<1>6. \A i \in 1 .. Len(Q) : \A k \in i .. Len(Q) : NotAfter(Q[i].last, Q[k].last)
  <2> TAKE i \in 1 .. Len(Q)
  <2> TAKE k \in i .. Len(Q)
  <2>1. CASE i \in 1 .. n /\ k \in i .. n
    BY <1>1, <2>1 DEF WayInv, WayOrdered, QueueOrdered
  <2>2. CASE i \in 1 .. n /\ k = n + 1
    BY <1>1, <1>2, <2>2 DEF AfterQueued
  <2>3. CASE i = n + 1 /\ k = n + 1
    BY <1>1, <1>2, <2>3
  <2>4. QED
    BY <1>1, <2>1, <2>2, <2>3
<1>7. RunsAreNew'
  BY <1>3 DEF WayInv, RunsAreNew, Unrecorded
<1>8. QED
  BY <1>3, <1>5, <1>6, <1>7
     DEF WayInv, WayOrdered, QueueOrdered, AfterSaved, AfterQueued, NotAfter, Saving

LEMMA TakeSnapshotWay ==
  ASSUME WayInv, TakeSnapshot
  PROVE  WayOrdered' /\ RunsAreNew'
<1> DEFINE s == SnapshotReady[1]
           Q == SnapshotReady'
<1>1. /\ snapshotter' = s /\ 1 \in 1 .. Len(SnapshotReady)
      /\ Len(Q) \in Nat /\ Len(Q) = Len(SnapshotReady) - 1
      /\ \A i \in 1 .. Len(Q) : Q[i] = SnapshotReady[i + 1]
  <2>1. SnapshotReady \in Seq(Snapshot) /\ SnapshotReady # <<>> /\ Q = Tail(SnapshotReady)
    BY DEF TakeSnapshot, WayInv, RunsInv, TypeOK
  <2>2. Len(SnapshotReady) \in Nat \ {0} /\ snapshotter' = s
    BY <2>1, EmptySeq DEF TakeSnapshot
  <2>3. /\ Len(Q) = Len(SnapshotReady) - 1
        /\ \A i \in 1 .. Len(Q) : Q[i] = SnapshotReady[i + 1]
    BY <2>1, HeadTailProperties
  <2>4. QED
    BY <2>2, <2>3
<1>2. /\ NotAfter(savedLast, s.last) /\ NotAfter(s.last, lastRun)
      /\ outbox # None => NotAfter(s.last, outbox.last)
      /\ \A k \in 1 .. Len(SnapshotReady) : NotAfter(s.last, SnapshotReady[k].last)
  BY <1>1 DEF WayInv, WayOrdered, QueueOrdered, AfterQueued, AfterSaved
<1>3. UNCHANGED <<now, savedLast, loaded, lastRun, outbox, work, jobFinished>>
  BY DEF TakeSnapshot, dbVars, loopVars
<1>4. \A i \in 1 .. Len(Q) : i + 1 \in 1 .. Len(SnapshotReady) /\ Q[i] = SnapshotReady[i + 1]
  BY <1>1
<1>5. \A i \in 1 .. Len(Q) : \A j \in loaded :
        /\ savedLast[j] <= Q[i].last[j]
        /\ s.last[j] <= Q[i].last[j]
        /\ Q[i].last[j] <= lastRun[j]
        /\ outbox # None => Q[i].last[j] <= outbox.last[j]
  BY <1>2, <1>4
     DEF WayInv, WayOrdered, QueueOrdered, AfterSaved, AfterQueued, NotAfter
<1>6. \A i \in 1 .. Len(Q) : \A k \in i .. Len(Q) : NotAfter(Q[i].last, Q[k].last)
  <2> TAKE i \in 1 .. Len(Q)
  <2> TAKE k \in i .. Len(Q)
  <2>1. k \in 1 .. Len(Q) /\ k + 1 \in i + 1 .. Len(SnapshotReady)
    BY <1>1
  <2>2. NotAfter(SnapshotReady[i + 1].last, SnapshotReady[k + 1].last)
    BY <1>4, <2>1 DEF WayInv, WayOrdered, QueueOrdered
  <2>3. QED
    BY <1>4, <2>1, <2>2
<1>7. NotAfter(savedLast, lastRun) /\ (outbox # None => NotAfter(savedLast, outbox.last) /\ NotAfter(outbox.last, lastRun))
  BY DEF WayInv, WayOrdered, AfterSaved
<1>8. RunsAreNew'
  BY <1>3 DEF WayInv, RunsAreNew, Unrecorded
<1>9. /\ loaded' = loaded /\ savedLast' = savedLast /\ lastRun' = lastRun
      /\ outbox' = outbox /\ snapshotter'.last = s.last
  BY <1>1, <1>3
<1>10. QueueOrdered'
  <2>1. \A i \in 1 .. Len(Q) : NotAfter(savedLast, SnapshotReady[i].last)'
    BY <1>5, <1>9 DEF NotAfter
  <2>2. \A i \in 1 .. Len(Q) : NotAfter(snapshotter.last, SnapshotReady[i].last)'
    BY <1>5, <1>9 DEF NotAfter
  <2>3. \A i \in 1 .. Len(Q) : \A k \in i .. Len(Q) :
          NotAfter(SnapshotReady[i].last, SnapshotReady[k].last)'
    BY <1>6, <1>9 DEF NotAfter
  <2>4. QED
    BY <2>1, <2>2, <2>3 DEF QueueOrdered, AfterSaved, NotAfter
<1>11. AfterSaved(lastRun)' /\ NotAfter(savedLast, snapshotter.last)'
  BY <1>2, <1>7, <1>9 DEF AfterSaved, NotAfter
<1>12. AfterQueued(lastRun)'
  BY <1>5, <1>9 DEF AfterQueued, NotAfter
<1>13. outbox' # None => AfterQueued(outbox.last)'
  BY <1>5, <1>9 DEF AfterQueued, NotAfter
<1>14. outbox' # None => AfterSaved(outbox.last)' /\ NotAfter(outbox.last, lastRun)'
  BY <1>2, <1>7, <1>9 DEF AfterSaved, NotAfter
<1>15. QED
  BY <1>8, <1>10, <1>11, <1>12, <1>13, <1>14 DEF WayOrdered

LEMMA SaveSnapshotWay ==
  ASSUME WayInv, SaveSnapshot
  PROVE  /\ WayOrdered' /\ RunsAreNew'
         /\ \A j \in Jobs : savedLast[j] <= savedLast'[j]
<1>1. Saving /\ snapshotter' = None /\ snapshotter.last \in Times /\ savedLast \in Times
  BY WayTypes DEF SaveSnapshot, Saving, AfterSave, WayInv, RunsInv
<1>2. UNCHANGED <<now, loaded, lastRun, outbox, work, jobFinished, SnapshotReady>>
  BY DEF SaveSnapshot, loopVars
<1>3. \A j \in Jobs : savedLast'[j] = IF j \in loaded THEN snapshotter.last[j] ELSE savedLast[j]
  BY DEF SaveSnapshot
<1>4. \A last : AfterSaved(last) => NotAfter(savedLast', last)
  BY <1>1, <1>3 DEF AfterSaved, NotAfter, WayInv, RunsInv, TypeOK
<1>5. WayOrdered'
  <2>1. QueueOrdered'
    BY <1>1, <1>2, <1>4 DEF WayInv, WayOrdered, QueueOrdered, AfterSaved, NotAfter, Saving
  <2>2. AfterSaved(lastRun)' /\ AfterQueued(lastRun)'
    BY <1>1, <1>2, <1>4 DEF WayInv, WayOrdered, AfterSaved, AfterQueued, NotAfter, Saving
  <2>3. outbox' # None => /\ AfterSaved(outbox.last)' /\ AfterQueued(outbox.last)'
                          /\ NotAfter(outbox.last, lastRun)'
    BY <1>1, <1>2, <1>4 DEF WayInv, WayOrdered, AfterSaved, AfterQueued, NotAfter, Saving
  <2>4. QED
    BY <1>1, <2>1, <2>2, <2>3 DEF WayOrdered, Saving
<1>6. \A j \in Jobs : savedLast[j] <= savedLast'[j]
  <2>1. \A j \in Jobs : savedLast[j] <= savedLast[j]
    BY <1>1 DEF Times, Time, Never
  <2>2. QED
    BY <1>1, <1>3, <2>1 DEF WayInv, WayOrdered, NotAfter
<1>7. RunsAreNew'
  <2>1. \A j \in loaded : snapshotter.last[j] <= now
    <3>1. \A j \in loaded : snapshotter.last[j] <= lastRun[j] /\ lastRun[j] <= now
      BY <1>1 DEF WayInv, WayOrdered, AfterSaved, NotAfter, RunsAreNew, RunsInv, TypeOK
    <3>2. \A j \in loaded : snapshotter.last[j] \in Int /\ lastRun[j] \in Int /\ now \in Int
      BY <1>1 DEF WayInv, RunsInv, TypeOK, Times, Time, Never
    <3>3. QED
      BY <3>1, <3>2
  <2>2. \A j \in Jobs : savedLast'[j] <= now
    BY <1>3, <2>1 DEF WayInv, RunsAreNew
  <2>3. QED
    BY <1>2, <2>2 DEF WayInv, RunsAreNew, Unrecorded
<1>8. QED
  BY <1>5, <1>6, <1>7

LEMMA TickWay ==
  ASSUME WayInv, Tick
  PROVE  WayOrdered' /\ RunsAreNew'
<1>1. now' = now + 1 /\ now \in Int
  BY DEF Tick, WayInv, RunsInv, TypeOK, Time
<1>2. UNCHANGED <<savedLast, lastRun, loaded, outbox, work, jobFinished, SnapshotReady, snapshotter>>
  BY DEF Tick, dbVars, loopVars, processVars
<1>3. \A j \in Jobs : savedLast[j] \in Int /\ lastRun[j] \in Int
  BY DEF WayInv, RunsInv, TypeOK, Times, Time, Never
<1>4. \A r \in Unrecorded : r.started <= now => r.started <= now'
  <2>1. \A r \in Unrecorded : r.started \in Int
    <3>1. \A r \in ToSet(jobFinished) : r \in Run
      BY ElementOfSeq, LenProperties DEF ToSet, WayInv, RunsInv, TypeOK
    <3>2. QED
      BY <3>1 DEF Unrecorded, WayInv, RunsInv, TypeOK, Run, Time
  <2>2. QED
    BY <1>1, <2>1
<1>5. RunsAreNew'
  BY <1>1, <1>2, <1>3, <1>4 DEF WayInv, RunsAreNew, Unrecorded
<1>6. QED
  BY <1>2, <1>5 DEF WayInv, WayOrdered, QueueOrdered, AfterSaved, AfterQueued, NotAfter, Saving

LEMMA RestartWay ==
  ASSUME WayInv, Reload \/ Restart
  PROVE  WayOrdered' /\ RunsAreNew'
<1>1. /\ lastRun' = savedLast /\ savedLast' = savedLast /\ now' = now
      /\ work' = {} /\ jobFinished' = <<>> /\ SnapshotReady' = <<>>
      /\ snapshotter' = None /\ outbox' = None /\ loaded' \subseteq Jobs
  BY DEF Reload, Restart, Boot, LoadedLastRun, dbVars, WayInv, RunsInv, TypeOK
<1>2. Unrecorded' = {}
  BY <1>1, ChannelSet DEF Unrecorded
<1>3. \A j \in Jobs : savedLast[j] <= savedLast[j]
  <2>1. \A j \in Jobs : savedLast[j] \in Int
    BY DEF WayInv, RunsInv, TypeOK, Times, Time, Never
  <2>2. QED
    BY <2>1
<1>4. Len(SnapshotReady') = 0
  BY <1>1, EmptySeq
<1>5. WayOrdered'
  BY <1>1, <1>3, <1>4 DEF WayOrdered, QueueOrdered, AfterSaved, AfterQueued, NotAfter, Saving
<1>6. QED
  BY <1>1, <1>2, <1>5 DEF WayInv, RunsAreNew

LEMMA ProcessEndsWay ==
  ASSUME WayInv, ProcessEnds
  PROVE  WayOrdered' /\ RunsAreNew'
<1>1. /\ UNCHANGED <<now, savedLast, loaded, lastRun>>
      /\ work' = {} /\ jobFinished' = <<>> /\ SnapshotReady' = <<>>
      /\ snapshotter' = Gone /\ outbox' = None
  BY DEF ProcessEnds, dbVars
<1>2. Unrecorded' = {}
  BY <1>1, ChannelSet DEF Unrecorded
<1>3. Len(SnapshotReady') = 0
  BY <1>1, EmptySeq
<1>4. WayOrdered'
  BY <1>1, <1>3
     DEF WayInv, WayOrdered, QueueOrdered, AfterSaved, AfterQueued, NotAfter, Saving
<1>5. QED
  BY <1>1, <1>2, <1>4 DEF WayInv, RunsAreNew

LEMMA SameWay ==
  ASSUME WayInv,
         UNCHANGED <<now, savedLast, loaded, lastRun, outbox, SnapshotReady>>,
         Unrecorded' \subseteq Unrecorded,
         snapshotter' = snapshotter \/ snapshotter' = Gone
  PROVE  WayOrdered' /\ RunsAreNew'
BY DEF WayInv, WayOrdered, QueueOrdered, AfterSaved, AfterQueued, NotAfter, Saving, RunsAreNew

LEMMA NextWay == WayInv /\ [Next]_vars => WayOrdered' /\ RunsAreNew'
<1> SUFFICES ASSUME WayInv, [Next]_vars PROVE WayOrdered' /\ RunsAreNew'
  OBVIOUS
<1>1. CASE Fire
  BY <1>1, StartJobsWay DEF Fire
<1>2. ASSUME NEW j \in Jobs, ServeTrigger(j) PROVE WayOrdered' /\ RunsAreNew'
  BY <1>2, StartJobsWay DEF ServeTrigger
<1>3. CASE ReceiveResult
  BY <1>3, RecordFinishedWay DEF ReceiveResult, Selecting
<1>4. CASE StopOne
  <2>1. CASE AwaitsResult(cursor)
    BY <1>4, <2>1, RecordFinishedWay DEF StopOne
  <2>2. CASE ~AwaitsResult(cursor)
    BY <1>4, <2>2, SameWay DEF StopOne, dbVars, Unrecorded
  <2>3. QED
    BY <2>1, <2>2
<1>5. ASSUME NEW r \in work, FinishRun(r) PROVE WayOrdered' /\ RunsAreNew'
  <2>1. jobFinished' = <<r>>
    <3>1. jobFinished = <<>>
      BY <1>5, EmptySeq DEF FinishRun, WayInv, RunsInv, TypeOK
    <3>2. QED
      BY <1>5, <3>1 DEF FinishRun
  <2>2. Unrecorded' \subseteq Unrecorded
    BY <1>5, <2>1, ChannelSet DEF FinishRun, Unrecorded
  <2>3. QED
    BY <1>5, <2>2, SameWay DEF FinishRun, dbVars, loopVars
<1>6. CASE Emit \/ TakeSnapshot \/ SaveSnapshot \/ Tick \/ Reload \/ Restart
                \/ ProcessEnds
  BY <1>6, EmitWay, TakeSnapshotWay, SaveSnapshotWay, TickWay, RestartWay, ProcessEndsWay
<1>7. CASE ServeSnapshot \/ BeginStop \/ StopEnd
  BY <1>7, SameWay DEF ServeSnapshot, BeginStop, StopEnd, dbVars, loopVars, processVars, Unrecorded
<1>8. CASE \/ StopSnapshotter \/ Stop \/ UNCHANGED vars
           \/ \E request \in MayAsk : Ask(request)
           \/ \E j \in Jobs : ScheduledjobToggle(j)
           \/ \E j \in Jobs : EndLeftBehind(j)
  BY <1>8, SameWay DEF StopSnapshotter, Stop, Ask, ScheduledjobToggle, EndLeftBehind, vars, dbVars,
                       loopVars, processVars, Unrecorded
<1>9. QED
  BY <1>1, <1>2, <1>3, <1>4, <1>5, <1>6, <1>7, <1>8 DEF Next, LoopStep

LEMMA WayInductive == WayInv /\ [Next]_vars => WayInv'
BY NextType, NextRuns, NextWay DEF WayInv, RunsInv

LEMMA InitWay == Init => WayInv
<1> SUFFICES ASSUME Init PROVE WayInv
  OBVIOUS
<1>1. running = {} /\ Unrecorded = {} /\ ToSet(jobFinished) = {}
  BY ChannelSet DEF Init, Unrecorded
<1>2. RunsInv
  BY <1>1, InitType DEF RunsInv, OneRunEach, Apart
<1>3. Len(SnapshotReady) = 0
  BY EmptySeq DEF Init
<1>4. \A j \in Jobs : lastRun[j] = Never /\ savedLast[j] = Never
  BY DEF Init
<1>5. QED
  BY <1>1, <1>2, <1>3, <1>4
     DEF Init, WayInv, WayOrdered, QueueOrdered, AfterSaved, AfterQueued, NotAfter,
         Saving, RunsAreNew, Never

\* The recorded last run of a job never goes back, through stops, crashes and
\* restarts, and whichever job the snapshots were made for.
THEOREM SavedIsMonotonic == Spec => SavedNeverBack
<1>1. WayInv /\ [Next]_vars => [\A j \in Jobs : savedLast[j] <= savedLast'[j]]_vars
  <2> SUFFICES ASSUME WayInv, [Next]_vars
               PROVE  \A j \in Jobs : savedLast[j] <= savedLast'[j]
    OBVIOUS
  <2>1. CASE SaveSnapshot
    BY <2>1, SaveSnapshotWay
  <2>2. CASE ~SaveSnapshot
    <3>1. savedLast' = savedLast
      BY <2>2
         DEF Next, LoopStep, Fire, ServeTrigger, ServeSnapshot, ReceiveResult, Emit,
             BeginStop, StopOne, StopEnd, FinishRun, TakeSnapshot, StopSnapshotter, Ask,
             ScheduledjobToggle, Tick, Stop, Reload, EndLeftBehind, ProcessEnds, Restart, vars,
             dbVars
    <3>2. QED
      BY <3>1 DEF WayInv, RunsInv, TypeOK, Times, Time, Never
  <2>3. QED
    BY <2>1, <2>2
<1>2. QED
  BY <1>1, InitWay, WayInductive, PTL DEF Spec, SavedNeverBack

\* Only an operator's command changes whether a job is enabled: saving a
\* snapshot leaves it as the row has it now.
THEOREM OperatorsHaveTheLastWord == Spec => OperatorsDecide
<1>1. [Next]_vars => [\A j \in Jobs : (j \in enabled) # (j \in enabled') => ScheduledjobToggle(j)]_vars
  <2> SUFFICES ASSUME [Next]_vars, NEW k \in Jobs, (k \in enabled) # (k \in enabled')
               PROVE  ScheduledjobToggle(k)
    OBVIOUS
  <2>1. enabled' # enabled
    OBVIOUS
  <2>2. PICK j \in Jobs : ScheduledjobToggle(j)
    BY <2>1
       DEF Next, LoopStep, Fire, ServeTrigger, ServeSnapshot, ReceiveResult, Emit,
           BeginStop, StopOne, StopEnd, FinishRun, TakeSnapshot, SaveSnapshot,
           EnabledAfterSave, StopSnapshotter, Ask, Tick, Stop, Reload, EndLeftBehind,
           ProcessEnds, Restart, vars, dbVars
  <2>3. j = k
    BY <2>2 DEF ScheduledjobToggle
  <2>4. QED
    BY <2>2, <2>3
<1>2. QED
  BY <1>1, PTL DEF Spec, OperatorsDecide
=============================================================================
