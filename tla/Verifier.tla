----------------------------- MODULE Verifier -----------------------------
(***************************************************************************)
(* The integrity verifier: jobs that read every blob of a volume and       *)
(* report the damaged ones. A controller starts and cancels the jobs'      *)
(* workers; a worker goes through the blobs in the order of their names,   *)
(* one batch at a time, saves its progress now and then, and goes on from  *)
(* there when it is resumed, after a stop, a shutdown or a crash.          *)
(*                                                                         *)
(* There is one volume. Blobs are numbered in the order of their names;    *)
(* the ones in Early are on the volume from the start and stay there, the  *)
(* others may come while a job runs. Damage does not come or go.           *)
(***************************************************************************)
EXTENDS Integers, FiniteSets

CONSTANTS
    Jobs,
    Workers,     \* goroutines that can run a job
    LastBlob,    \* blobs are 1..LastBlob
    Early,       \* blobs that are on the volume from the start
    Damaged,     \* blobs whose content does not match their checksum
    BatchLimit,  \* the code's is 1000
    ReportLimit  \* lines in a report before a job gives up

Refs == 1..LastBlob

ASSUME VerifierAssumption ==
    /\ Jobs # {} /\ LastBlob \in Nat /\ Early \subseteq Refs /\ Damaged \subseteq Refs
    /\ BatchLimit \in Nat \ {0, 1}
    /\ ReportLimit \in Nat

VARIABLES
    jobs,        \* the job records in the database
    blobs,       \* where each blob is: nowhere yet, on other volumes only, on this one
    phase,       \* the controller: running, draining (its context is done), returned
    running,     \* runningJobIDs
    cancelled,   \* the running jobs whose own context is cancelled
    resuming,    \* the channel `resume`, with room for one job
    stopping,    \* the channel `stop`
    stopped,     \* the channel `stopped`
    workers      \* what each worker is doing

controlVars  == <<phase, running, cancelled, resuming, stopping, stopped>>
verifierVars == <<jobs, blobs, controlVars, workers>>

NoJob == [last |-> -1, errors |-> {}, lines |-> 0, completed |-> FALSE]
NewJob == [NoJob EXCEPT !.last = 0]

JobRecords == [last: -1..LastBlob, errors: SUBSET Refs, lines: 0..(ReportLimit + 1),
               completed: BOOLEAN]

\* A worker: its job, the record it has in memory, and the blobs of its batch
\* still to be looked at, with what the batch said of their volume.
Resting == [at |-> "rest", job |-> CHOOSE j \in Jobs : TRUE, record |-> NoJob,
            todo |-> {}, onVolume |-> {}, full |-> FALSE]

WorkerStates == [at: {"rest", "fetch", "next", "scrub", "save", "report"}, job: Jobs,
                 record: JobRecords, todo: SUBSET Refs, onVolume: SUBSET Refs, full: BOOLEAN]

Channels == {{}} \union {{j} : j \in Jobs}

VerifierTypeOK ==
    /\ jobs \in [Jobs -> JobRecords]
    /\ blobs \in [Refs -> {"nowhere", "elsewhere", "here"}]
    /\ phase \in {"running", "draining", "returned"}
    /\ running \subseteq Jobs /\ cancelled \subseteq running
    /\ resuming \in Channels /\ stopping \in Channels /\ stopped \in Channels
    /\ workers \in [Workers -> WorkerStates]

VerifierInit ==
    /\ jobs = [j \in Jobs |-> NoJob]
    /\ blobs \in {f \in [Refs -> {"nowhere", "here"}] : \A b \in Refs : f[b] = "here" <=> b \in Early}
    /\ phase = "running"
    /\ running = {} /\ cancelled = {}
    /\ resuming = {} /\ stopping = {} /\ stopped = {}
    /\ workers = [w \in Workers |-> Resting]

----------------------------------------------------------------------------
\* Commands. A request waits while the channel it sends on is full.

VolumeVerifyIntegrity(j) ==
    /\ phase # "returned" /\ jobs[j] = NoJob
    /\ jobs' = [jobs EXCEPT ![j] = NewJob]
    /\ UNCHANGED <<blobs, controlVars, workers>>

Resume(j) ==
    /\ phase # "returned" /\ jobs[j] # NoJob /\ resuming = {}
    /\ resuming' = {j}
    /\ UNCHANGED <<jobs, blobs, phase, running, cancelled, stopping, stopped, workers>>

Stop(j) ==
    /\ phase # "returned" /\ stopping = {}
    /\ stopping' = {j}
    /\ UNCHANGED <<jobs, blobs, phase, running, cancelled, resuming, stopped, workers>>

\* A blob is stored on some other volume, or on this one.
BlobArrives(b) ==
    /\ phase # "returned"
    /\ \/ blobs[b] = "nowhere" /\ blobs' \in {[blobs EXCEPT ![b] = v] : v \in {"elsewhere", "here"}}
       \/ blobs[b] = "elsewhere" /\ blobs' = [blobs EXCEPT ![b] = "here"]
    /\ UNCHANGED <<jobs, controlVars, workers>>

----------------------------------------------------------------------------
\* The controller's loop

TakeResume_EvenIfRunning ==
    /\ phase = "running" /\ resuming # {}
    /\ resuming' = {}
    /\ \E j \in resuming, w \in Workers :
         /\ workers[w].at = "rest"
         /\ running' = running \union {j}
         /\ workers' = [workers EXCEPT ![w] =
              [Resting EXCEPT !.at = "fetch", !.job = j, !.record = jobs[j]]]
    /\ UNCHANGED <<jobs, blobs, phase, cancelled, stopping, stopped>>

\* A job that still counts as running is not started again: the request is lost.
TakeResume ==
    /\ phase = "running" /\ resuming # {}
    /\ resuming' = {}
    /\ \/ /\ resuming \subseteq running
          /\ UNCHANGED <<running, workers>>
       \/ \E j \in resuming \ running, w \in Workers :
            /\ workers[w].at = "rest"
            /\ running' = running \union {j}
            /\ workers' = [workers EXCEPT ![w] =
                 [Resting EXCEPT !.at = "fetch", !.job = j, !.record = jobs[j]]]
    /\ UNCHANGED <<jobs, blobs, phase, cancelled, stopping, stopped>>

TakeStopRequest ==
    /\ phase = "running" /\ stopping # {}
    /\ stopping' = {}
    /\ cancelled' = cancelled \union (stopping \intersect running)
    /\ UNCHANGED <<jobs, blobs, phase, running, resuming, stopped, workers>>

HandleStopped_ForgetsCancel ==
    /\ phase # "returned" /\ stopped # {}
    /\ stopped' = {}
    /\ running' = running \ stopped
    /\ UNCHANGED <<jobs, blobs, phase, cancelled, resuming, stopping, workers>>

HandleStopped_StaysRunning ==
    /\ phase # "returned" /\ stopped # {}
    /\ stopped' = {}
    /\ cancelled' = cancelled \ stopped
    /\ UNCHANGED <<jobs, blobs, phase, running, resuming, stopping, workers>>

HandleStopped ==
    /\ phase # "returned" /\ stopped # {}
    /\ stopped' = {}
    /\ running' = running \ stopped
    /\ cancelled' = cancelled \ stopped
    /\ UNCHANGED <<jobs, blobs, phase, resuming, stopping, workers>>

ContextDone ==
    /\ phase = "running"
    /\ phase' = "draining"
    /\ UNCHANGED <<jobs, blobs, running, cancelled, resuming, stopping, stopped, workers>>

Return ==
    /\ phase = "draining" /\ running = {}
    /\ phase' = "returned"
    /\ UNCHANGED <<jobs, blobs, running, cancelled, resuming, stopping, stopped, workers>>

\* The process crashes, or has ended, and a new one starts.
NewProcess ==
    /\ phase' = "running"
    /\ running' = {} /\ cancelled' = {}
    /\ resuming' = {} /\ stopping' = {} /\ stopped' = {}
    /\ workers' = [w \in Workers |-> Resting]
    /\ UNCHANGED <<jobs, blobs>>

StartAgain  == phase = "returned" /\ NewProcess
Crash == phase # "returned" /\ NewProcess

----------------------------------------------------------------------------
\* A worker

JobCancelled(j) == phase # "running" \/ j \in cancelled

Candidates_After(from) == {b \in Refs : b > from /\ blobs[b] # "nowhere"}

\* nextBlobsForJob: the first blobs there are from the last one on, that one
\* included.
Candidates(from) == {b \in Refs : b >= from /\ blobs[b] # "nowhere"}

IsBatch(batch, from) ==
    /\ batch \subseteq Candidates(from)
    /\ \A b \in batch, c \in Candidates(from) : c < b => c \in batch
    /\ Cardinality(batch) <= BatchLimit
    /\ Cardinality(batch) < BatchLimit => batch = Candidates(from)

Completed(record) == [record EXCEPT !.completed = TRUE]

FetchBatch(w) ==
    LET me == workers[w] IN
    /\ me.at = "fetch"
    /\ \E batch \in SUBSET Candidates(me.record.last) :
         /\ IsBatch(batch, me.record.last)
         /\ workers' = [workers EXCEPT ![w] =
              IF batch = {}
              THEN [me EXCEPT !.at = "save", !.record = Completed(me.record)]
              ELSE [me EXCEPT !.at = "next", !.todo = batch,
                             !.onVolume = {b \in batch : blobs[b] = "here"},
                             !.full = (Cardinality(batch) = BatchLimit)]]
    /\ UNCHANGED <<jobs, blobs, controlVars>>

\* The read of the batch fails, which ends the worker.
BatchFails(w) ==
    /\ workers[w].at = "fetch"
    /\ workers' = [workers EXCEPT ![w].at = "save"]
    /\ UNCHANGED <<jobs, blobs, controlVars>>

\* The next blob is noted before it is verified. Every five seconds that is
\* saved too, and the worker looks whether it is to stop; it ends if that fails.
NextBlob(w) ==
    LET me == workers[w]
        b  == CHOOSE x \in me.todo : \A y \in me.todo : x <= y
        record == [me.record EXCEPT !.last = b]
    IN
    /\ me.at = "next" /\ me.todo # {}
    /\ \/ \E at \in {"scrub", "save"} :
          /\ UNCHANGED jobs
          /\ workers' = [workers EXCEPT ![w] =
               [me EXCEPT !.at = at, !.record = record, !.todo = me.todo \ {b}]]
       \/ /\ jobs' = [jobs EXCEPT ![me.job] = record]
          /\ workers' = [workers EXCEPT ![w] =
               [me EXCEPT !.at = IF JobCancelled(me.job) THEN "save" ELSE "scrub",
                          !.record = record, !.todo = me.todo \ {b}]]
    /\ UNCHANGED <<blobs, controlVars>>

\* A damaged blob makes one line of the report, or two when its size is wrong
\* as well; too long a report ends the job.
Report(record, b, lines) ==
    [record EXCEPT !.errors = @ \union {b},
                   !.lines = IF @ + lines > ReportLimit THEN ReportLimit + 1 ELSE @ + lines]

Scrub(w) ==
    LET me == workers[w]
        b  == me.record.last
    IN
    /\ me.at = "scrub"
    /\ \/ /\ b \notin me.onVolume \intersect Damaged
          /\ workers' = [workers EXCEPT ![w].at = "next"]
       \/ /\ b \in me.onVolume \intersect Damaged
          /\ \E lines \in {1, 2} :
               LET record == Report(me.record, b, lines) IN
               workers' = [workers EXCEPT ![w] =
                 [me EXCEPT !.record = record,
                            !.at = IF record.lines > ReportLimit THEN "save" ELSE "next"]]
    /\ UNCHANGED <<jobs, blobs, controlVars>>

\* After a batch with fewer blobs than asked for there are no more.
BatchDone(w) ==
    LET me == workers[w] IN
    /\ me.at = "next" /\ me.todo = {}
    /\ workers' = [workers EXCEPT ![w] =
         IF me.full THEN [me EXCEPT !.at = "fetch"]
                    ELSE [me EXCEPT !.at = "save", !.record = Completed(me.record)]]
    /\ UNCHANGED <<jobs, blobs, controlVars>>

\* Whatever made it return, the worker saves its record last; an error of that
\* is ignored.
SaveAtEnd(w) ==
    LET me == workers[w] IN
    /\ me.at = "save"
    /\ jobs' \in {jobs, [jobs EXCEPT ![me.job] = me.record]}
    /\ workers' = [workers EXCEPT ![w].at = "report"]
    /\ UNCHANGED <<blobs, controlVars>>

ReportStopped(w) ==
    /\ workers[w].at = "report" /\ stopped = {}
    /\ stopped' = {workers[w].job}
    /\ workers' = [workers EXCEPT ![w] = Resting]
    /\ UNCHANGED <<jobs, blobs, phase, running, cancelled, resuming, stopping>>

----------------------------------------------------------------------------

WorkerStep(w) == \/ FetchBatch(w) \/ BatchFails(w) \/ NextBlob(w) \/ Scrub(w)
                 \/ BatchDone(w) \/ SaveAtEnd(w) \/ ReportStopped(w)
ControllerStep == TakeResume \/ TakeStopRequest \/ HandleStopped \/ Return \/ StartAgain
CommandStep    == \E j \in Jobs : VolumeVerifyIntegrity(j) \/ Resume(j) \/ Stop(j)

VerifierNext ==
    \/ CommandStep
    \/ \E b \in Refs : BlobArrives(b)
    \/ ControllerStep \/ ContextDone \/ Crash
    \/ \E w \in Workers : WorkerStep(w)

VerifierSpec == VerifierInit /\ [][VerifierNext]_verifierVars

\* Goroutines that can run do run. Commands, blobs and failures need not come.
VerifierFairness ==
    /\ WF_verifierVars(HandleStopped) /\ WF_verifierVars(Return)
    /\ \A w \in Workers : WF_verifierVars(WorkerStep(w))

----------------------------------------------------------------------------
\* Properties

\* A job that says it is completed has reported every damaged blob that was
\* on the volume all the time: stops, crashes, resumes and the seams between
\* batches never make it skip a blob, nor lose an error it had found.
ReportComplete ==
    \A j \in Jobs : jobs[j].completed => (Early \intersect Damaged) \subseteq jobs[j].errors

\* What a job's record says only grows: no save overwrites a newer one, so no
\* two workers ever work on one job, and a found error stays reported.
ProgressKept ==
    [][\A j \in Jobs : /\ jobs[j].last <= jobs'[j].last
                       /\ jobs[j].errors \subseteq jobs'[j].errors]_jobs

\* When the server stops, the controller returns: the jobs that run end, and
\* none is left in the running set.
VerifierReturns == phase = "draining" ~> phase # "draining"
=============================================================================
