------------------------------ MODULE Scheduler ------------------------------
(***************************************************************************)
(* The job scheduler (scheduler.Controller): a single-threaded loop that   *)
(* starts jobs when they are due, runs each in a goroutine of its own,     *)
(* receives their results and sends a snapshot of its state after each;    *)
(* the snapshotter, which writes the snapshots to the database; the        *)
(* requests that talk to the loop over unbuffered channels; and the ways   *)
(* the server ends: it stops and runs again within the process, or the     *)
(* process ends, or dies, and is started again.                            *)
(*                                                                         *)
(* Time is a counter and a job's schedule a period.  A run is known by     *)
(* when it started; its error text is left out.                            *)
(***************************************************************************)
EXTENDS Integers, Sequences, FiniteSets, SequencesExt

CONSTANTS
  NumJobs,      \* jobs are 1..NumJobs, in the order the database lists them
  Period,       \* of each job
  Editable,     \* jobs an operator may enable and disable
  SnapshotCap,  \* capacity of the SnapshotReady channel
  MaxTime,      \* bound: the clock stops here
  MayAsk,       \* requests that may be made: a job to trigger, or AskSnapshot
  StopAllowed,  \* may the server be asked to stop?
  CrashAllowed, \* may the process die?
  None,
  Gone

Jobs == 1 .. NumJobs
AskSnapshot == 0

ASSUME NumJobsAssumption == NumJobs \in Nat
ASSUME PeriodAssumption == Period \in [Jobs -> Nat \ {0}]
ASSUME SnapshotCapAssumption == SnapshotCap \in Nat
ASSUME MaxTimeAssumption == MaxTime \in Nat
ASSUME RequestsAssumption == MayAsk \subseteq Jobs \cup {AskSnapshot}
ASSUME ServerAssumption == {StopAllowed, CrashAllowed} \subseteq BOOLEAN

Time == Nat
Never == -1  \* LastRun of a job that has not run

VARIABLES
  now,
  \* the database
  enabled,        \* jobs with Enabled set
  savedLast,      \* savedLast[j]: when the recorded LastRun started
  savedNext,      \* savedNext[j]: the recorded NextRun
  \* the scheduler's loop
  phase,          \* "loop", "stopping" or "stopped"; "down" if there is no process
  loaded,         \* the jobs it was started with
  nextRun,
  lastRun,
  running,        \* jobs with Spec.Running set
  timer,          \* when nextJobBecomesRunnableCh fires
  cursor,         \* while stopping: the job the loop is at
  outbox,         \* the snapshot being sent, or None
  \* the rest of the process
  work,           \* runs that are under way
  jobFinished,    \* channel of results, capacity 1
  SnapshotReady,  \* channel of snapshots, capacity SnapshotCap
  snapshotter,    \* None, the snapshot it is saving, or Gone
  asked,          \* requests waiting for the loop
  ctxDone,        \* the context is cancelled
  leftBehind      \* jobs of which a run goes on though its scheduler has stopped

dbVars == <<enabled, savedLast, savedNext>>
loopVars == <<phase, loaded, nextRun, lastRun, running, timer, cursor, outbox>>
processVars == <<work, jobFinished, SnapshotReady, snapshotter, asked, ctxDone, leftBehind>>
vars == <<now, dbVars, loopVars, processVars>>

Run == [job : Jobs, started : Time]
Times == [Jobs -> Time \cup {Never}]
Snapshot == [next : Times, last : Times]

TypeOK ==
  /\ now \in Time
  /\ enabled \subseteq Jobs
  /\ savedLast \in Times
  /\ savedNext \in Times
  /\ phase \in {"loop", "stopping", "stopped", "down"}
  /\ loaded \subseteq Jobs
  /\ nextRun \in [Jobs -> Time]
  /\ lastRun \in Times
  /\ running \subseteq loaded
  /\ timer \in Time
  /\ cursor \in 1 .. NumJobs + 1
  /\ outbox \in Snapshot \cup {None}
  /\ work \subseteq Run
  /\ jobFinished \in Seq(Run)
  /\ Len(jobFinished) <= 1
  /\ SnapshotReady \in Seq(Snapshot)
  /\ Len(SnapshotReady) <= SnapshotCap
  /\ snapshotter \in Snapshot \cup {None, Gone}
  /\ asked \subseteq Jobs \cup {AskSnapshot}
  /\ ctxDone \in BOOLEAN
  /\ leftBehind \subseteq Jobs

(***************************************************************************)
(* Schedules: cron.Schedule.Next gives the first moment after the one it   *)
(* is given.                                                               *)
(***************************************************************************)
NextAfter(j, t) == (t \div Period[j] + 1) * Period[j]

Earliest_FirstJob(next, js) == IF js = {} THEN 0 ELSE next[1]

Earliest(next, js) ==
  IF js = {} THEN 0
  ELSE CHOOSE t \in {next[j] : j \in js} : \A j \in js : t <= next[j]

(***************************************************************************)
(* setupScheduledJobs at time t: NewJob computes NextRun anew, LastRun     *)
(* comes from the database.                                                *)
(***************************************************************************)
FirstRuns(t) == [j \in Jobs |-> NextAfter(j, t)]

LoadedLastRun_Forgotten == [j \in Jobs |-> Never]

LoadedLastRun == savedLast

Boot(t, js) ==
  /\ phase' = "loop"
  /\ loaded' = js
  /\ nextRun' = FirstRuns(t)
  /\ lastRun' = LoadedLastRun
  /\ running' = {}
  /\ timer' = Earliest(FirstRuns(t), js)
  /\ cursor' = 1
  /\ outbox' = None
  /\ work' = {}
  /\ jobFinished' = <<>>
  /\ SnapshotReady' = <<>>
  /\ snapshotter' = None
  /\ asked' = {}
  /\ ctxDone' = FALSE

\* The first boot, with every job enabled, as the database is seeded.
Init ==
  /\ now = 0
  /\ enabled = Jobs
  /\ savedLast = [j \in Jobs |-> Never]
  /\ savedNext = [j \in Jobs |-> Never]
  /\ phase = "loop"
  /\ loaded = Jobs
  /\ nextRun = FirstRuns(0)
  /\ lastRun = [j \in Jobs |-> Never]
  /\ running = {}
  /\ timer = Earliest(FirstRuns(0), Jobs)
  /\ cursor = 1
  /\ outbox = None
  /\ work = {}
  /\ jobFinished = <<>>
  /\ SnapshotReady = <<>>
  /\ snapshotter = None
  /\ asked = {}
  /\ ctxDone = FALSE
  /\ leftBehind = {}

(***************************************************************************)
(* The loop.                                                               *)
(***************************************************************************)
\* The loop is at its select, not inside a send.
Selecting == phase = "loop" /\ outbox = None

\* startJob for each of js: the next run is always moved, a job that is still
\* running is not started again.
ToStart_EvenIfRunning(js) == js

ToStart(js) == js \ running

StartJobs(js) ==
  /\ nextRun' = [j \in Jobs |->
                   IF j \in js THEN NextAfter(j, nextRun[j]) ELSE nextRun[j]]
  /\ running' = running \cup js
  /\ work' = work \cup {[job |-> j, started |-> now] : j \in ToStart(js)}

\* The timer fires.  The time received is when it fired, which may be a
\* while ago.
Fire ==
  /\ Selecting
  /\ loaded # {}
  /\ \E t \in timer .. now : StartJobs({j \in loaded : nextRun[j] <= t})
  /\ timer' = Earliest(nextRun', loaded)
  /\ UNCHANGED <<now, dbVars, phase, loaded, lastRun, cursor, outbox, jobFinished,
                 SnapshotReady, snapshotter, asked, ctxDone, leftBehind>>

\* A trigger request; an unknown job is ignored.  The timer is left alone.
ServeTrigger(j) ==
  /\ Selecting
  /\ j \in asked \cap Jobs
  /\ asked' = asked \ {j}
  /\ StartJobs({j} \cap loaded)
  /\ UNCHANGED <<now, dbVars, phase, loaded, lastRun, timer, cursor, outbox,
                 jobFinished, SnapshotReady, snapshotter, ctxDone, leftBehind>>

ServeSnapshot ==
  /\ Selecting
  /\ AskSnapshot \in asked
  /\ asked' = asked \ {AskSnapshot}
  /\ UNCHANGED <<now, dbVars, loopVars, work, jobFinished, SnapshotReady,
                 snapshotter, ctxDone, leftBehind>>

\* recordJobFinished, until the snapshot is to be sent.
RecordFinished ==
  LET r == Head(jobFinished)
      last == [lastRun EXCEPT ![r.job] = r.started]
  IN  /\ jobFinished # <<>>
      /\ jobFinished' = Tail(jobFinished)
      /\ lastRun' = last
      /\ running' = running \ {r.job}
      /\ outbox' = [next |-> nextRun, last |-> last]

ReceiveResult ==
  /\ Selecting
  /\ RecordFinished
  /\ UNCHANGED <<now, dbVars, phase, loaded, nextRun, timer, cursor, work,
                 SnapshotReady, snapshotter, asked, ctxDone, leftBehind>>

Emitted_Unbounded(s) == SnapshotReady' = Append(SnapshotReady, s)

Emitted_DroppedWhenFull(s) ==
  SnapshotReady' = IF Len(SnapshotReady) < SnapshotCap
                   THEN Append(SnapshotReady, s) ELSE SnapshotReady

Emitted(s) ==
  /\ Len(SnapshotReady) < SnapshotCap
  /\ SnapshotReady' = Append(SnapshotReady, s)

\* The send that ends recordJobFinished.
Emit ==
  /\ outbox # None
  /\ Emitted(outbox)
  /\ outbox' = None
  /\ UNCHANGED <<now, dbVars, phase, loaded, nextRun, lastRun, running, timer,
                 cursor, work, jobFinished, snapshotter, asked, ctxDone, leftBehind>>

(***************************************************************************)
(* Stopping: the loop goes through its jobs and, for each it finds         *)
(* running, waits for a result - of whichever job ends first.              *)
(***************************************************************************)
BeginStop ==
  /\ Selecting
  /\ ctxDone
  /\ phase' = "stopping"
  /\ UNCHANGED <<now, dbVars, loaded, nextRun, lastRun, running, timer, cursor,
                 outbox, processVars>>

AwaitsResult(j) == j \in running

StopOne ==
  /\ phase = "stopping"
  /\ outbox = None
  /\ cursor <= NumJobs
  /\ cursor' = cursor + 1
  /\ IF AwaitsResult(cursor)
     THEN RecordFinished
     ELSE UNCHANGED <<jobFinished, lastRun, running, outbox>>
  /\ UNCHANGED <<now, dbVars, phase, loaded, nextRun, timer, work, SnapshotReady,
                 snapshotter, asked, ctxDone, leftBehind>>

StopEnd ==
  /\ phase = "stopping"
  /\ outbox = None
  /\ cursor > NumJobs
  /\ phase' = "stopped"
  /\ UNCHANGED <<now, dbVars, loaded, nextRun, lastRun, running, timer, cursor,
                 outbox, processVars>>

(***************************************************************************)
(* Job runs, the snapshotter, requests.                                    *)
(***************************************************************************)
\* A job's function returns and its result is sent.
FinishRun(r) ==
  /\ r \in work
  /\ Len(jobFinished) < 1
  /\ work' = work \ {r}
  /\ jobFinished' = Append(jobFinished, r)
  /\ UNCHANGED <<now, dbVars, loopVars, SnapshotReady, snapshotter, asked, ctxDone, leftBehind>>

TakeSnapshot ==
  /\ snapshotter = None
  /\ SnapshotReady # <<>>
  /\ snapshotter' = Head(SnapshotReady)
  /\ SnapshotReady' = Tail(SnapshotReady)
  /\ UNCHANGED <<now, dbVars, loopVars, work, jobFinished, asked, ctxDone, leftBehind>>

\* handleSnapshot reads each row again and sets two fields of it.
EnabledAfterSave_AsLoaded == loaded

EnabledAfterSave == enabled

\* The snapshotter loops.
AfterSave_Returns == Gone

AfterSave == None

SaveSnapshot ==
  /\ snapshotter \notin {None, Gone}
  /\ savedLast' = [j \in Jobs |->
                     IF j \in loaded THEN snapshotter.last[j] ELSE savedLast[j]]
  /\ savedNext' = [j \in Jobs |->
                     IF j \in loaded THEN snapshotter.next[j] ELSE savedNext[j]]
  /\ enabled' = EnabledAfterSave
  /\ snapshotter' = AfterSave
  /\ UNCHANGED <<now, loopVars, work, jobFinished, SnapshotReady, asked, ctxDone, leftBehind>>

\* It stops when the context is cancelled, even if snapshots are waiting, or
\* when the scheduler has closed the channel and it is empty.
StopSnapshotter ==
  /\ snapshotter = None
  /\ ctxDone \/ (phase = "stopped" /\ SnapshotReady = <<>>)
  /\ snapshotter' = Gone
  /\ UNCHANGED <<now, dbVars, loopVars, work, jobFinished, SnapshotReady, asked,
                 ctxDone, leftBehind>>

\* Each trigger moves the next run further: MaxTime bounds that too.
Ask(request) ==
  /\ phase # "down"
  /\ ~ctxDone
  /\ request \in MayAsk \ asked
  /\ request \in Jobs => nextRun[request] <= MaxTime
  /\ asked' = asked \cup {request}
  /\ UNCHANGED <<now, dbVars, loopVars, work, jobFinished, SnapshotReady,
                 snapshotter, ctxDone, leftBehind>>

\* ScheduledjobEnable and ScheduledjobDisable; the scheduler learns of it at
\* the next boot.
ScheduledjobToggle(j) ==
  /\ j \in Editable
  /\ phase # "down"
  /\ enabled' = IF j \in enabled THEN enabled \ {j} ELSE enabled \cup {j}
  /\ UNCHANGED <<now, savedLast, savedNext, loopVars, processVars>>

(***************************************************************************)
(* Time and the server's life.                                             *)
(***************************************************************************)
Tick ==
  /\ now < MaxTime
  /\ now' = now + 1
  /\ UNCHANGED <<dbVars, loopVars, processVars>>

Stop ==
  /\ StopAllowed
  /\ phase # "down"
  /\ ~ctxDone
  /\ ctxDone' = TRUE
  /\ UNCHANGED <<now, dbVars, loopVars, work, jobFinished, SnapshotReady,
                 snapshotter, asked, leftBehind>>

\* tasks.Wait returns: the scheduler, the snapshotter and the HTTP server,
\* which waits for its requests.
AllStopped == phase = "stopped" /\ snapshotter = Gone /\ asked = {}

\* Run of the restart controller: a reload runs the server again in the same
\* process.  Runs the scheduler did not wait for go on; whoever hears of their
\* results, nobody.
LeftBehindAfterReload_None == {}

LeftBehindAfterReload == leftBehind \cup {r.job : r \in work}

Reload ==
  /\ AllStopped
  /\ Boot(now, enabled)
  /\ leftBehind' = LeftBehindAfterReload
  /\ UNCHANGED <<now, dbVars>>

\* The last run of a job that was left behind ends.
EndLeftBehind(j) ==
  /\ j \in leftBehind
  /\ leftBehind' = leftBehind \ {j}
  /\ UNCHANGED <<now, dbVars, loopVars, work, jobFinished, SnapshotReady, snapshotter,
                 asked, ctxDone>>

\* The process ends, after a stop or by dying, and all that runs with it.
ProcessEnds ==
  /\ phase # "down"
  /\ AllStopped \/ CrashAllowed
  /\ phase' = "down"
  /\ running' = {} /\ outbox' = None
  /\ work' = {} /\ leftBehind' = {}
  /\ jobFinished' = <<>> /\ SnapshotReady' = <<>> /\ snapshotter' = Gone
  /\ asked' = {} /\ ctxDone' = FALSE
  /\ UNCHANGED <<now, dbVars, loaded, nextRun, lastRun, timer, cursor>>

Restart ==
  /\ phase = "down"
  /\ Boot(now, enabled)
  /\ UNCHANGED <<now, dbVars, leftBehind>>

LoopStep ==
  \/ Fire
  \/ \E j \in Jobs : ServeTrigger(j)
  \/ ServeSnapshot
  \/ ReceiveResult
  \/ Emit
  \/ BeginStop
  \/ StopOne
  \/ StopEnd

Next ==
  \/ LoopStep
  \/ \E r \in work : FinishRun(r)
  \/ TakeSnapshot
  \/ SaveSnapshot
  \/ StopSnapshotter
  \/ \E request \in MayAsk : Ask(request)
  \/ \E j \in Jobs : ScheduledjobToggle(j)
  \/ Tick
  \/ Stop
  \/ Reload
  \/ \E j \in Jobs : EndLeftBehind(j)
  \/ ProcessEnds
  \/ Restart

Spec == Init /\ [][Next]_vars

\* Time passes, and goroutines that can take a step do.  A select with several
\* ready cases takes any of them at random, so each case that is ready again
\* and again is taken (strong fairness).  Job functions return,
\* sooner or later: they run programs and ask servers, though not all of them
\* heed the cancelled context.  Nobody need stop or restart the server or ask
\* it anything.
Fairness ==
  /\ WF_vars(Tick)
  /\ SF_vars(Fire)
  /\ \A j \in Jobs : SF_vars(ServeTrigger(j))
  /\ SF_vars(ServeSnapshot)
  /\ SF_vars(ReceiveResult)
  /\ WF_vars(Emit)
  /\ SF_vars(BeginStop)
  /\ WF_vars(StopOne)
  /\ WF_vars(StopEnd)
  /\ \A j \in Jobs : SF_vars(\E r \in work : r.job = j /\ FinishRun(r))
  /\ WF_vars(TakeSnapshot)
  /\ WF_vars(SaveSnapshot)
  /\ WF_vars(StopSnapshotter)

FairSpec == Spec /\ Fairness

(***************************************************************************)
(* Safety.                                                                 *)
(***************************************************************************)
Unrecorded == work \cup ToSet(jobFinished)

\* A scheduler never runs a job twice at once, however it is triggered, and its
\* Running flag tells whether the job runs: set exactly while there is a run
\* whose result the loop has not received.  A scheduler that has stopped has
\* waited for at least half of its jobs - for the one, if it has one - although
\* it may take another job's result for the one it waits for.  The others can
\* overlap with the next scheduler's.
NoOverlap ==
  /\ \A r, s \in Unrecorded : r.job = s.job => r = s
  /\ running = {r.job : r \in Unrecorded}
  /\ phase = "stopped" => 2 * Cardinality(running) <= Cardinality(loaded)

\* "can't start job since previous instance is still running"
\* (scheduler.go:192): no two runs of a job, of whichever scheduler.
NeverTwice == \A r \in work : r.job \notin leftBehind

\* The timer is never later than a job's next run, although triggers move
\* next runs without setting it: no job can be overdue without being seen.
TimerNotLate ==
  phase = "loop" => \A j \in loaded : timer <= nextRun[j]

\* What the database will say of the loaded jobs once the snapshotter has
\* caught up: the newest snapshot on its way, else what is saved.
Newest ==
  IF outbox # None THEN outbox.last
  ELSE IF SnapshotReady # <<>> THEN Last(SnapshotReady).last
  ELSE IF snapshotter \notin {None, Gone} THEN snapshotter.last
  ELSE savedLast

\* No result is lost on its way to the database.
ResultsOnTheirWay == \A j \in loaded : Newest[j] = lastRun[j]

(***************************************************************************)
(* Action properties.                                                      *)
(***************************************************************************)
\* The recorded last run of a job never goes back to an older one, or to
\* none, whichever job the snapshots were made for and however often the
\* server has restarted in between.
SavedNeverBack ==
  [][\A j \in Jobs : savedLast[j] <= savedLast'[j]]_vars

\* Saving a snapshot that was made before an operator enabled or disabled a
\* job does not undo that.
OperatorsDecide ==
  [][\A j \in Jobs : (j \in enabled) # (j \in enabled') => ScheduledjobToggle(j)]_vars

(***************************************************************************)
(* Liveness.                                                               *)
(***************************************************************************)
\* A job that is due is started, or seen to be running still, unless the server
\* is stopped or dies.
DueIsSeen ==
  \A j \in Jobs :
    (phase = "loop" /\ j \in loaded /\ nextRun[j] <= now)
      ~> (nextRun[j] > now \/ ctxDone \/ phase = "down")

\* A run ends up in the database, unless the server is stopped or dies before:
\* a stop lets the snapshotter go at once, and with it what was on its way.
RunsRecorded ==
  \A j \in Jobs :
    j \in running ~> \/ j \notin running /\ savedLast[j] = lastRun[j]
                     \/ ctxDone
                     \/ phase = "down"

\* A request that waits for the loop is served, "gets an atomic snapshot",
\* unless the server is stopped.
RequestsServed ==
  \A request \in MayAsk : request \in asked ~> (request \notin asked \/ ctxDone)

\* A cancelled context ends the scheduler ("stops scheduler").
SchedulerStops == ctxDone ~> phase \in {"stopped", "down"}
=============================================================================
