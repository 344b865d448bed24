------------------------------ MODULE Server ------------------------------
(***************************************************************************)
(* The life of a server process: the restart controller that runs          *)
(* runServer and runs it again when a configuration change asks for it,    *)
(* what one run does from boot to the end of its tasks, the requests that  *)
(* change the configuration or start and stop a subsystem, and the         *)
(* controller that keeps the subsystem's child process alive.              *)
(*                                                                         *)
(* The subsystem stands for either of the two the code has: the media      *)
(* scanner, which a run starts unless its file says otherwise, and the     *)
(* FUSE projector, which it does not.                                      *)
(***************************************************************************)
EXTENDS Integers, FiniteSets

CONSTANTS
    Requests,  \* the requests that may be in flight at one time
    Settings    \* what a boot reads from the database: mounts, API keys, ...

VARIABLES
    runner,    \* Controller.Run: in its select, waiting for the run to stop, ...
    asked,     \* an interrupt or terminate signal has cancelled the outermost context
    server,    \* where the goroutine of runServer is
    tasks,     \* the run's tasks besides the HTTP server and the subsystem's handler
    failing,   \* the run has cancelled its own context, because a part of it failed
    listening, \* the HTTP server accepts requests
    stored,    \* the records in the database
    loaded,    \* the records this run read when it booted
    once,      \* the run's timerOnce: unused, asleep before the restart, or over
    enabled,   \* subsystem.enabled
    handler,   \* where the child process controller's handler is
    desired,   \* its desiredRunning
    cmd,       \* its cmd: nil, a process that started, or one that failed to
    exited,    \* the messages in its channel `exited`
    processes, \* the child processes the operating system runs
    pc         \* where each request is

runVars    == <<tasks, failing, listening, loaded, once>>
childVars  == <<handler, desired, cmd, exited, processes>>
serverVars == <<runner, asked, server, runVars, stored, enabled, childVars, pc>>

Idle == {r \in Requests : pc[r] = "idle"}

Cancelled_NotBySignal == runner = "restarting" \/ failing

\* The context of the current run is done: by a signal, by the restart
\* controller, or by the run itself.
Cancelled == asked \/ runner = "restarting" \/ failing

ServerTypeOK ==
    /\ runner \in {"running", "restarting", "exited", "crashed"}
    /\ server \in {"reading", "mounting", "mounted", "waiting", "stopped"}
    /\ tasks \in {"none", "verifier", "all", "returned", "stuck"}
    /\ asked \in BOOLEAN /\ failing \in BOOLEAN /\ listening \in BOOLEAN
    /\ stored \subseteq Settings /\ loaded \subseteq Settings
    /\ once \in {"unused", "asleep", "over"}
    /\ enabled \in BOOLEAN /\ desired \in BOOLEAN
    /\ handler \in {"none", "select", "stopping", "ending", "backoff", "returned"}
    /\ cmd \in {"nil", "started", "failed"}
    /\ exited \in Nat /\ processes \in Nat
    /\ pc \in [Requests -> {"idle", "reload", "enabling", "disabling", "sendStart", "sendStop"}]

----------------------------------------------------------------------------
\* The restart controller and one run of the server

NewRun_SameOnce ==
    /\ server' = "reading" /\ tasks' = "none"
    /\ failing' = FALSE /\ listening' = FALSE /\ UNCHANGED once
    /\ handler' = "none" /\ desired' = FALSE /\ cmd' = "nil" /\ exited' = 0

\* What a run makes anew: its `once`, and no controller until it has booted.
NewRun ==
    /\ server' = "reading" /\ tasks' = "none"
    /\ failing' = FALSE /\ listening' = FALSE /\ once' = "unused"
    /\ handler' = "none" /\ desired' = FALSE /\ cmd' = "nil" /\ exited' = 0

ServerInit ==
    /\ runner = "running" /\ asked = FALSE
    /\ server = "reading" /\ tasks = "none" /\ failing = FALSE /\ listening = FALSE /\ once = "unused"
    /\ stored \in SUBSET Settings /\ loaded = {}
    /\ enabled = FALSE
    /\ handler = "none" /\ desired = FALSE /\ cmd = "nil" /\ exited = 0
    /\ processes = 0
    /\ pc = [r \in Requests |-> "idle"]

Signal ==
    /\ ~asked
    /\ asked' = TRUE
    /\ UNCHANGED <<runner, server, runVars, stored, enabled, childVars, pc>>

\* readConfigFromDatabase, then the controllers of the subsystems, whose
\* handlers run from here on, and the integrity verifier. The file's settings
\* may have changed as well.
Boot ==
    /\ server = "reading"
    /\ loaded' = stored
    /\ enabled' \in BOOLEAN
    /\ handler' = "select" /\ tasks' = "verifier"
    /\ server' = IF enabled' THEN "mounting" ELSE "mounted"
    /\ UNCHANGED <<runner, asked, failing, listening, stored, once, desired, cmd, exited,
                   processes, pc>>

\* A boot that cannot read its configuration returns before any task runs.
BootFails ==
    /\ server = "reading"
    /\ server' = "stopped"
    /\ failing' = TRUE
    /\ UNCHANGED <<runner, asked, tasks, listening, stored, loaded, once, enabled, childVars, pc>>

\* The scheduler and its snapshotter, the replication controllers, the HTTP
\* server and the metrics collector start.
Serve ==
    /\ server = "mounted"
    /\ server' = "waiting"
    /\ listening' = TRUE
    /\ tasks' = "all"
    /\ UNCHANGED <<runner, asked, failing, stored, loaded, once, enabled, childVars, pc>>

\* withErrButWaitTasks: the jobs could not be set up, so the tasks are cancelled.
SetupFails ==
    /\ server = "mounted"
    /\ server' = "waiting"
    /\ failing' = TRUE
    /\ UNCHANGED <<runner, asked, tasks, listening, stored, loaded, once, enabled, childVars, pc>>

\* One task ends with an error, on which the task runner cancels the others.
TaskFails ==
    /\ server = "waiting" /\ ~Cancelled
    /\ failing' = TRUE
    /\ UNCHANGED <<runner, asked, server, tasks, listening, stored, loaded, once, enabled, childVars, pc>>

\* The shutdown of the HTTP server closes the listener first ...
StopListening ==
    /\ Cancelled /\ listening
    /\ listening' = FALSE
    /\ UNCHANGED <<runner, asked, server, tasks, failing, stored, loaded, once, enabled, childVars, pc>>

\* The other tasks return: the verifier, the replication controllers after the
\* blobs they are writing, the metrics collector.  Of the scheduler that is not
\* certain: it may wait for ever for a snapshotter that has returned before it
\* (module Scheduler), and a request it has yet to serve for it.
OthersReturn ==
    /\ Cancelled /\ server = "waiting"
    /\ \/ tasks \in {"verifier", "all"} /\ tasks' = "returned"
       \/ tasks = "all" /\ tasks' = "stuck"
    /\ UNCHANGED <<runner, asked, server, failing, listening, stored, loaded, once, enabled,
                   childVars, pc>>

\* ... and the tasks are over when every request is answered, the handler of
\* the child process has returned, and so has every other task.
TasksEnd ==
    /\ server = "waiting" /\ Cancelled /\ ~listening
    /\ Idle = Requests
    /\ handler = "returned" /\ tasks = "returned"
    /\ server' = "stopped"
    /\ UNCHANGED <<runner, asked, runVars, stored, enabled, childVars, pc>>

\* Run: a run that stops by itself ends the process, one that was stopped for
\* a restart is followed by another, whether it stopped with an error or not.
RunnerExits ==
    /\ server = "stopped" /\ runner = "running"
    /\ runner' = "exited"
    /\ UNCHANGED <<asked, server, runVars, stored, enabled, childVars, pc>>

RunnerStartsAgain ==
    /\ server = "stopped" /\ runner = "restarting"
    /\ runner' = "running"
    /\ NewRun
    /\ UNCHANGED <<asked, stored, loaded, enabled, processes, pc>>

----------------------------------------------------------------------------
\* Requests that change what a boot reads

\* A command commits a change of the configuration ...
ChangeConfig(r) ==
    /\ listening /\ pc[r] = "idle"
    /\ \E x \in Settings : stored' \in {stored \union {x}, stored \ {x}}
    /\ pc' = [pc EXCEPT ![r] = "reload"]
    /\ UNCHANGED <<runner, asked, server, runVars, enabled, childVars>>

\* ... and asks for a restart, which only the first to ask in a run arranges.
ReloadConfig(r) ==
    /\ pc[r] = "reload"
    /\ pc' = [pc EXCEPT ![r] = "idle"]
    /\ once' = IF once = "unused" THEN "asleep" ELSE once
    /\ UNCHANGED <<runner, asked, server, tasks, failing, listening, stored, loaded, enabled,
                   childVars>>

\* Restart() never waits: unless Run is in its select, the error is a panic.
TimedRestart ==
    /\ once = "asleep"
    /\ once' = "over"
    /\ runner' = IF runner = "running" THEN "restarting" ELSE "crashed"
    /\ UNCHANGED <<asked, server, tasks, failing, listening, stored, loaded, enabled, childVars, pc>>

----------------------------------------------------------------------------
\* Requests that start and stop the subsystem. `enabled` is read, and then
\* flipped, without a lock, so a flip may read what another has just written.

CheckStart(r) ==
    /\ listening /\ pc[r] = "idle" /\ ~enabled
    /\ pc' = [pc EXCEPT ![r] = "enabling"]
    /\ UNCHANGED <<runner, asked, server, runVars, stored, enabled, childVars>>

CheckStop(r) ==
    /\ listening /\ pc[r] = "idle" /\ enabled
    /\ pc' = [pc EXCEPT ![r] = "disabling"]
    /\ UNCHANGED <<runner, asked, server, runVars, stored, enabled, childVars>>

FlipEnabled(r) ==
    /\ \/ /\ pc[r] = "enabling"
          /\ enabled' \in {~enabled, TRUE}
          /\ pc' = [pc EXCEPT ![r] = "sendStart"]
       \/ /\ pc[r] = "disabling"
          /\ enabled' \in {~enabled, FALSE}
          /\ pc' = [pc EXCEPT ![r] = "sendStop"]
    /\ UNCHANGED <<runner, asked, server, runVars, stored, childVars>>

----------------------------------------------------------------------------
\* The handler of the child process controller

\* startChildProcess: a process that fails to start has its error in `exited`,
\* and is the controller's process all the same.
StartChild ==
    \/ /\ cmd' = "started"
       /\ processes' = processes + 1
       /\ UNCHANGED exited
    \/ /\ cmd' = "failed"
       /\ exited' = exited + 1
       /\ UNCHANGED processes

StartUnlessRunning_Always == StartChild

StartUnlessRunning ==
    IF cmd = "nil" THEN StartChild ELSE UNCHANGED <<cmd, exited, processes>>

\* stopSubprocess signals the process, so there has to be one, and waits.
StopIfRunning(running, notRunning) ==
    /\ handler' = CASE cmd = "nil"     -> notRunning
                    [] cmd = "started" -> running
                    [] cmd = "failed"  -> handler
    /\ runner' = IF cmd = "failed" THEN "crashed" ELSE runner

\* A boot, or a request, hands over its start; both wait until it is taken.
TakeStart ==
    /\ handler = "select"
    /\ desired' = TRUE
    /\ StartUnlessRunning
    /\ \/ /\ server = "mounting"
          /\ server' = "mounted"
          /\ UNCHANGED pc
       \/ \E r \in Requests :
            /\ pc[r] = "sendStart"
            /\ pc' = [pc EXCEPT ![r] = "idle"]
            /\ UNCHANGED server
    /\ UNCHANGED <<runner, asked, runVars, stored, enabled, handler>>

TakeStop ==
    /\ handler = "select"
    /\ desired' = FALSE
    /\ StopIfRunning("stopping", "select")
    /\ \E r \in Requests :
         /\ pc[r] = "sendStop"
         /\ pc' = [pc EXCEPT ![r] = "idle"]
    /\ UNCHANGED <<asked, server, runVars, stored, enabled, cmd, exited, processes>>

\* The context is done: stop the child and return, or return from the pause
\* before a restart, when there is no child.
HandlerDone ==
    /\ Cancelled
    /\ \/ handler = "select" /\ StopIfRunning("ending", "returned")
       \/ handler = "backoff" /\ handler' = "returned" /\ UNCHANGED runner
    /\ UNCHANGED <<asked, server, runVars, stored, enabled, desired, cmd, exited, processes, pc>>

\* The child has exited although nobody stopped it (or a stopped one is late).
TakeExited ==
    /\ handler = "select" /\ exited > 0
    /\ exited' = exited - 1
    /\ cmd' = "nil"
    /\ handler' = IF desired THEN "backoff" ELSE "select"
    /\ UNCHANGED <<runner, asked, server, runVars, stored, enabled, desired, processes, pc>>

BackoffEnds ==
    /\ handler = "backoff"
    /\ handler' = "select"
    /\ StartChild
    /\ UNCHANGED <<runner, asked, server, runVars, stored, enabled, desired, pc>>

\* stopSubprocess has waited for the exit.
ChildStopped ==
    /\ handler \in {"stopping", "ending"} /\ exited > 0
    /\ exited' = exited - 1
    /\ cmd' = "nil"
    /\ handler' = IF handler = "stopping" THEN "select" ELSE "returned"
    /\ UNCHANGED <<runner, asked, server, runVars, stored, enabled, desired, processes, pc>>

\* A child exits when it is interrupted, and may at any time.
ChildExits ==
    /\ processes > 0
    /\ processes' = processes - 1
    /\ exited' = exited + 1
    /\ UNCHANGED <<runner, asked, server, runVars, stored, enabled, handler, desired, cmd, pc>>

----------------------------------------------------------------------------

RunNext     == \/ Boot \/ BootFails \/ Serve \/ SetupFails \/ TaskFails
               \/ StopListening \/ OthersReturn \/ TasksEnd
RunnerNext  == Signal \/ RunnerExits \/ RunnerStartsAgain \/ TimedRestart
RequestNext == \E r \in Requests : \/ ChangeConfig(r) \/ ReloadConfig(r)
                                   \/ CheckStart(r) \/ CheckStop(r) \/ FlipEnabled(r)
HandlerNext == TakeStart \/ TakeStop \/ HandlerDone \/ TakeExited \/ BackoffEnds \/ ChildStopped

\* Nothing runs any more in a process that has exited or panicked.
Ended == runner \in {"exited", "crashed"}

ServerNext ==
    /\ ~Ended
    /\ RunNext \/ RunnerNext \/ RequestNext \/ HandlerNext \/ ChildExits

ServerSpec == ServerInit /\ [][ServerNext]_serverVars

\* Goroutines that can run do run, and a child that was interrupted exits.
\* Nothing makes requests, signals, failures or unasked exits happen.
Interrupted == handler \in {"stopping", "ending"}

ServerFairness ==
    /\ WF_serverVars(~Ended /\ (Boot \/ Serve \/ StopListening \/ TasksEnd))
    /\ WF_serverVars(~Ended /\ OthersReturn)
    /\ WF_serverVars(~Ended /\ (RunnerExits \/ RunnerStartsAgain))
    /\ WF_serverVars(~Ended /\ TimedRestart)
    /\ \A r \in Requests : WF_serverVars(~Ended /\ (ReloadConfig(r) \/ FlipEnabled(r)))
    /\ WF_serverVars(~Ended /\ TakeStart)
    /\ WF_serverVars(~Ended /\ HandlerDone)
    /\ WF_serverVars(~Ended /\ (TakeExited \/ ChildStopped))
    /\ WF_serverVars(~Ended /\ Interrupted /\ ChildExits)

ServerFairSpec == ServerSpec /\ ServerFairness

----------------------------------------------------------------------------
\* Properties

\* There is never more than one child process, none while no run of the
\* server owns it, and the handler knows of the one there is: a second start,
\* a restart after an exit and a stop of the same child may come in any order.
OneChild ==
    /\ processes <= 1
    /\ processes = 1 => cmd = "started" /\ handler \in {"select", "stopping", "ending"}
    /\ (server \in {"reading", "stopped"} \/ runner = "exited") => processes = 0

\* A run that works with an outdated configuration is about to be replaced:
\* it is ending, a restart is on its way, or the request that made the change
\* has yet to ask for one. Changes committed while the run stops count too. And
\* a restart that is on its way is not refused: no other is being carried out.
ChangeNoticed ==
    /\ (server = "waiting" /\ loaded # stored) =>
         \/ Cancelled \/ Ended
         \/ once = "asleep"
         \/ \E r \in Requests : pc[r] = "reload"
    /\ once = "asleep" => runner # "restarting"

\* The handler has returned and somebody waits for it to take a start or stop.
LeftBehind ==
    /\ handler = "returned"
    /\ server = "mounting" \/ \E r \in Requests : pc[r] \in {"sendStart", "sendStop"}

\* A server that is asked to stop does, unless it is restarted for ever, a
\* start or stop of the subsystem came too late for the controller, or the
\* scheduler or a request to it hangs.
StopsUnlessStuck ==
    <>[](runner # "restarting") => (asked ~> (Ended \/ LeftBehind \/ tasks = "stuck"))

\* "on graceful shutdown this'll return nil" (server.go:270): it returns.
StopsWhenAsked == asked ~> Ended
=============================================================================
