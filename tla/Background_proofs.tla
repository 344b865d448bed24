-------------------------- MODULE Background_proofs ---------------------------
(***************************************************************************)
(* Proofs about the components that work beside the requests - Server,     *)
(* Verifier, Database - and that MCBackground, which puts them together,   *)
(* keeps the types of all of them.                                         *)
(***************************************************************************)
EXTENDS MCBackground, FiniteSetTheorems, WellFoundedInduction, TLAPS

-----------------------------------------------------------------------------
\* Server: any number of requests in flight, any settings and any number of restarts.

(***************************************************************************)
(* The inductive invariants.  A command that was started is a process or   *)
(* the message that it has exited, one that failed is that message; what   *)
(* the handler does agrees with it.  And of a run that was told to restart *)
(* the timer is over, of one whose timer is over the restart has come.     *)
(***************************************************************************)
ChildInv ==
    /\ cmd = "nil"     => processes = 0 /\ exited = 0
    /\ cmd = "started" => (processes = 1 /\ exited = 0) \/ (processes = 0 /\ exited = 1)
    /\ cmd = "failed"  => processes = 0 /\ exited = 1
    /\ handler \in {"none", "backoff", "returned"} => cmd = "nil"
    /\ handler \in {"stopping", "ending"} => cmd = "started"
    /\ server = "stopped" => handler \in {"none", "returned"}
    /\ server = "reading" => handler = "none"
    /\ runner = "exited"  => server = "stopped"

Noticed ==
    \/ Cancelled \/ Ended
    \/ once = "asleep"
    \/ \E r \in Requests : pc[r] = "reload"

ConfigInv ==
    /\ listening => server = "waiting"
    /\ server \in {"mounting", "mounted"} => loaded = stored
    /\ (server = "waiting" /\ loaded # stored) => Noticed
    /\ once = "over" => runner \in {"restarting", "crashed"}
    /\ runner = "restarting" => once = "over"

(***************************************************************************)
(* Types.                                                                  *)
(***************************************************************************)
LEMMA ServerTypeStep ==
    ASSUME ServerTypeOK, [ServerNext]_serverVars
    PROVE  ServerTypeOK'
<1> USE DEF ServerTypeOK, serverVars, runVars, childVars
<1>1. CASE Boot \/ Serve \/ StopListening \/ OthersReturn \/ TasksEnd
  <2>1. listening' \in BOOLEAN /\ enabled' \in BOOLEAN
    BY <1>1 DEF Boot, Serve, StopListening, OthersReturn, TasksEnd
  <2>2. QED
    BY <1>1, <2>1 DEF Boot, Serve, StopListening, OthersReturn, TasksEnd
<1>2. CASE BootFails \/ SetupFails \/ TaskFails
  <2>1. failing' \in BOOLEAN
    BY <1>2 DEF BootFails, SetupFails, TaskFails
  <2>2. QED
    BY <1>2, <2>1 DEF BootFails, SetupFails, TaskFails
<1>3. CASE RunnerNext
  <2>1. CASE Signal
    BY <2>1 DEF Signal
  <2>2. CASE RunnerStartsAgain
    <3>1. failing' \in BOOLEAN /\ listening' \in BOOLEAN /\ desired' \in BOOLEAN
      BY <2>2 DEF RunnerStartsAgain, NewRun
    <3>2. QED
      BY <2>2, <3>1 DEF RunnerStartsAgain, NewRun
  <2>3. CASE RunnerExits \/ TimedRestart
    BY <2>3 DEF RunnerExits, TimedRestart
  <2>4. QED
    BY <1>3, <2>1, <2>2, <2>3 DEF RunnerNext
<1>4. ASSUME NEW r \in Requests,
              ChangeConfig(r) \/ ReloadConfig(r) \/ CheckStart(r) \/ CheckStop(r) \/ FlipEnabled(r)
       PROVE  ServerTypeOK'
  <2>1. pc' \in [Requests -> {"idle", "reload", "enabling", "disabling", "sendStart", "sendStop"}]
    BY <1>4 DEF ChangeConfig, ReloadConfig, CheckStart, CheckStop, FlipEnabled
  <2>2. enabled' \in BOOLEAN
    BY <1>4 DEF ChangeConfig, ReloadConfig, CheckStart, CheckStop, FlipEnabled
  <2>3. stored' \subseteq Settings /\ once' \in {"unused", "asleep", "over"}
    BY <1>4 DEF ChangeConfig, ReloadConfig, CheckStart, CheckStop, FlipEnabled
  <2>4. UNCHANGED <<runner, asked, server, tasks, failing, listening, loaded, childVars>>
    BY <1>4 DEF ChangeConfig, ReloadConfig, CheckStart, CheckStop, FlipEnabled
  <2>5. QED
    BY <2>1, <2>2, <2>3, <2>4
<1>5. CASE TakeStart
  BY <1>5 DEF TakeStart, StartUnlessRunning, StartChild
<1>6. CASE TakeStop
  <2>1. /\ handler' \in {"none", "select", "stopping", "ending", "backoff", "returned"}
        /\ runner' \in {"running", "restarting", "exited", "crashed"}
    BY <1>6 DEF TakeStop, StopIfRunning
  <2>2. pc' \in [Requests -> {"idle", "reload", "enabling", "disabling", "sendStart", "sendStop"}]
    BY <1>6 DEF TakeStop
  <2>3. desired' \in BOOLEAN
    BY <1>6 DEF TakeStop
  <2>4. UNCHANGED <<asked, server, runVars, stored, enabled, cmd, exited, processes>>
    BY <1>6 DEF TakeStop
  <2>5. QED
    BY <2>1, <2>2, <2>3, <2>4
<1>7. CASE HandlerDone
  BY <1>7 DEF HandlerDone, StopIfRunning
<1>8. CASE TakeExited \/ BackoffEnds \/ ChildStopped
  BY <1>8 DEF TakeExited, BackoffEnds, StartChild, ChildStopped
<1>9. CASE ChildExits
  BY <1>9 DEF ChildExits
<1>10. CASE UNCHANGED serverVars
  BY <1>10
<1>11. QED
  BY <1>1, <1>2, <1>3, <1>4, <1>5, <1>6, <1>7, <1>8, <1>9, <1>10
  DEF ServerNext, RunNext, RequestNext, HandlerNext

(***************************************************************************)
(* The child process.                                                      *)
(***************************************************************************)
LEMMA ChildStep ==
    ASSUME ServerTypeOK, ChildInv, [ServerNext]_serverVars
    PROVE  ChildInv'
<1> USE DEF ServerTypeOK, ChildInv, serverVars, runVars, childVars
<1>1. CASE RunNext
  BY <1>1 DEF RunNext, Boot, BootFails, Serve, SetupFails, TaskFails, StopListening, OthersReturn, TasksEnd
<1>2. CASE RunnerNext
  BY <1>2 DEF RunnerNext, Signal, RunnerExits, RunnerStartsAgain, NewRun, TimedRestart
<1>3. CASE RequestNext
  BY <1>3 DEF RequestNext, ChangeConfig, ReloadConfig, CheckStart, CheckStop, FlipEnabled
<1>4. CASE TakeStart
  BY <1>4 DEF TakeStart, StartUnlessRunning, StartChild
<1>5. CASE TakeStop
  BY <1>5 DEF TakeStop, StopIfRunning
<1>6. CASE HandlerDone
  BY <1>6 DEF HandlerDone, StopIfRunning
<1>7. CASE TakeExited \/ BackoffEnds \/ ChildStopped
  BY <1>7 DEF TakeExited, BackoffEnds, StartChild, ChildStopped
<1>8. CASE ChildExits
  BY <1>8 DEF ChildExits
<1>9. CASE UNCHANGED serverVars
  BY <1>9
<1>10. QED
  BY <1>1, <1>2, <1>3, <1>4, <1>5, <1>6, <1>7, <1>8, <1>9 DEF ServerNext, HandlerNext

(***************************************************************************)
(* The configuration.                                                      *)
(***************************************************************************)
LEMMA ConfigStep ==
    ASSUME ServerTypeOK, ConfigInv, ServerNext
    PROVE  ConfigInv'
<1> USE DEF ServerTypeOK, ConfigInv, serverVars, runVars, childVars, Cancelled, Ended
<1>1. CASE RunNext
  BY <1>1 DEF RunNext, Boot, BootFails, Serve, SetupFails, TaskFails, StopListening, OthersReturn, TasksEnd, Noticed
<1>2. CASE RunnerNext
  BY <1>2 DEF RunnerNext, Signal, RunnerExits, RunnerStartsAgain, NewRun, TimedRestart, Noticed
<1>3. ASSUME NEW r \in Requests, ChangeConfig(r)
      PROVE  ConfigInv'
  <2>1. pc'[r] = "reload"
    BY <1>3 DEF ChangeConfig
  <2>2. QED
    BY <1>3, <2>1 DEF ChangeConfig, Noticed
<1>4. ASSUME NEW r \in Requests, ReloadConfig(r)
      PROVE  ConfigInv'
  BY <1>4 DEF ReloadConfig, Noticed
\* Every other step leaves what the invariant speaks of as it was, but for
\* a crash, and requests that ask for no restart.
<1>5. ASSUME UNCHANGED <<asked, runVars, stored>>,
             runner' = runner \/ runner' = "crashed",
             server' = server \/ (server = "mounting" /\ server' = "mounted"),
             \A r \in Requests : pc[r] = "reload" => pc'[r] = "reload"
      PROVE  ConfigInv'
  <2>1. Noticed => Noticed'
    BY <1>5 DEF Noticed
  <2>2. QED
    BY <1>5, <2>1 DEF Noticed
<1>6. ASSUME NEW r \in Requests, CheckStart(r) \/ CheckStop(r) \/ FlipEnabled(r)
      PROVE  ConfigInv'
  BY <1>5, <1>6 DEF CheckStart, CheckStop, FlipEnabled
<1>7. CASE TakeStart \/ TakeStop
  BY <1>5, <1>7 DEF TakeStart, TakeStop, StopIfRunning
<1>8. CASE HandlerDone \/ TakeExited \/ BackoffEnds \/ ChildStopped \/ ChildExits
  BY <1>5, <1>8 DEF HandlerDone, StopIfRunning, TakeExited, BackoffEnds, ChildStopped, ChildExits
<1>9. QED
  BY <1>1, <1>2, <1>3, <1>4, <1>6, <1>7, <1>8 DEF ServerNext, RequestNext, HandlerNext

(***************************************************************************)
(* The theorems.                                                           *)
(***************************************************************************)
LEMMA ServerStarts ==
    ASSUME ServerInit
    PROVE  ServerTypeOK /\ ChildInv /\ ConfigInv
BY DEF ServerInit, ServerTypeOK, ChildInv, ConfigInv

LEMMA ServerStep ==
    ASSUME ServerTypeOK, ChildInv, ConfigInv, [ServerNext]_serverVars
    PROVE  (ServerTypeOK /\ ChildInv /\ ConfigInv)'
<1>1. CASE ServerNext
  BY <1>1, ServerTypeStep, ChildStep, ConfigStep
<1>2. CASE UNCHANGED serverVars
  <2>1. ConfigInv'
    BY <1>2 DEF serverVars, runVars, childVars, ConfigInv, Noticed, Cancelled, Ended
  <2>2. QED
    BY <1>2, <2>1, ServerTypeStep, ChildStep
<1>3. QED
  BY <1>1, <1>2

\* The types of the state of runServer, its restart controller and the
\* controller of a child process.
THEOREM ServerTypeCorrect == ServerSpec => []ServerTypeOK
<1>1. ServerTypeOK /\ ChildInv /\ ConfigInv /\ [ServerNext]_serverVars
        => (ServerTypeOK /\ ChildInv /\ ConfigInv)'
  BY ServerStep
<1>2. QED
  BY <1>1, ServerStarts, PTL DEF ServerSpec

\* However starts, stops, exits, failures and restarts of the server come, the
\* handler of childprocesscontroller runs at most one process, and leaves none.
THEOREM NeverTwoChildren == ServerSpec => []OneChild
<1>1. ServerTypeOK /\ ChildInv /\ ConfigInv /\ [ServerNext]_serverVars
        => (ServerTypeOK /\ ChildInv /\ ConfigInv)'
  BY ServerStep
<1>2. ServerTypeOK /\ ChildInv => OneChild
  BY DEF ServerTypeOK, ChildInv, OneChild
<1>3. QED
  BY <1>1, <1>2, ServerStarts, PTL DEF ServerSpec

\* No change that a confreload command committed is overlooked by
\* configReloader, and none of its restarts comes while another is carried out.
THEOREM ChangesAreNoticed == ServerSpec => []ChangeNoticed
<1>1. ServerTypeOK /\ ChildInv /\ ConfigInv /\ [ServerNext]_serverVars
        => (ServerTypeOK /\ ChildInv /\ ConfigInv)'
  BY ServerStep
<1>2. ConfigInv => ChangeNoticed
  BY DEF ConfigInv, Noticed, ChangeNoticed
<1>3. QED
  BY <1>1, <1>2, ServerStarts, PTL DEF ServerSpec

-----------------------------------------------------------------------------
\* Database: any records, any batch size, any number of imports and exports.

(***************************************************************************)
(* The inductive invariant.  What the export still reads and what it has   *)
(* written is together a content the database had; what the import has     *)
(* committed, has in its transaction and has yet to read is the backup.    *)
(***************************************************************************)
FileThere == proc.pc # "none" => file \in Files

ServesThePast == proc.pc = "serving" => file.records \in past

ExportsThePast ==
    export # Absent => proc.pc = "serving" /\ export.left \union export.done \in past

BackupIsPast == backup # Absent => backup.records \in past

ImportsTheBackup ==
    /\ proc.pc \in {"opened", "importing", "imported"} => backup # Absent
    /\ proc.pc = "importing" => file.records \union proc.tx \union proc.left = backup.records
    /\ proc.pc = "imported" => file.records = backup.records

DatabaseInv ==
    /\ DatabaseTypeOK
    /\ FileThere
    /\ ServesThePast
    /\ ExportsThePast
    /\ BackupIsPast
    /\ ImportsTheBackup

(***************************************************************************)
(* What is made is of the right type.                                      *)
(***************************************************************************)
LEMMA AtType ==
    ASSUME tokens \in Nat,
           NEW place \in {"none", "boot", "bootstrap", "serving", "opened", "importing", "imported"}
    PROVE  At(place) \in Processes /\ At(place).pc = place /\ At(place).token = 0
BY DEF At, Processes

LEMMA ImportingType ==
    ASSUME tokens \in Nat, NEW left \in SUBSET AllRecords, NEW tx \in SUBSET AllRecords, NEW used \in Nat
    PROVE  /\ Importing(left, tx, used) \in Processes
           /\ Importing(left, tx, used).pc = "importing"
           /\ Importing(left, tx, used).left = left
           /\ Importing(left, tx, used).tx = tx
BY DEF Importing, Processes

LEMMA OfVersionType ==
    ASSUME NEW v \in {NoSchema} \union 0..CurrentSchemaVersion + 1,
           NEW R \in SUBSET AllRecords, NEW token \in 0..tokens
    PROVE  OfVersion(v, R, token) \in Files /\ OfVersion(v, R, token).records = R
BY DEF OfVersion, Files

\* More tokens do no harm.
LEMMA TypesStay ==
    ASSUME tokens \in Nat, tokens' = tokens \/ tokens' = tokens + 1
    PROVE  Files \subseteq Files' /\ Processes \subseteq Processes'
<1>1. 0..tokens \subseteq (0..tokens)'
  OBVIOUS
<1>2. QED
  BY <1>1 DEF Files, Processes

(***************************************************************************)
(* The server.                                                             *)
(***************************************************************************)
LEMMA ServerKeepsInv ==
    ASSUME DatabaseInv,
           ServerStart \/ ReadConfigFromDatabase \/ ConfigureClientConfig \/ Bootstrap
    PROVE  DatabaseInv'
<1> USE DEF DatabaseInv, FileThere, ServesThePast, ExportsThePast, BackupIsPast, ImportsTheBackup
<1>0. tokens \in Nat /\ DatabaseTypeOK
  BY DEF DatabaseTypeOK
<1>1. CASE ServerStart
  <2>1. proc' = At("boot") /\ proc'.pc = "boot" /\ proc' \in Processes /\ proc.pc = "none"
    BY <1>0, <1>1, AtType DEF ServerStart, NoProcess
  <2>2. file' \in Files
    BY <1>0, <1>1 DEF ServerStart, Empty, Files, DatabaseTypeOK
  <2>3. DatabaseTypeOK'
    BY <1>0, <1>1, <2>1, <2>2 DEF ServerStart, DatabaseTypeOK, Files, Processes
  <2>4. QED
    BY <1>1, <2>1, <2>2, <2>3 DEF ServerStart, Files
<1>2. CASE ReadConfigFromDatabase
  <2>1. file \in Files /\ proc.pc = "boot" /\ export = Absent
    BY <1>2 DEF ReadConfigFromDatabase
  <2>2. CASE proc' = At("bootstrap") /\ UNCHANGED <<file, past>>
    <3>1. proc'.pc = "bootstrap" /\ proc' \in Processes
      BY <1>0, <2>2, AtType
    <3>2. QED
      BY <1>0, <1>2, <2>1, <2>2, <3>1 DEF ReadConfigFromDatabase, DatabaseTypeOK, Files, Processes
  <2>3. CASE proc' = NoProcess /\ UNCHANGED <<file, past>>
    <3>1. proc'.pc = "none" /\ proc' \in Processes
      BY <1>0, <2>3, AtType DEF NoProcess
    <3>2. QED
      BY <1>0, <1>2, <2>1, <2>3, <3>1 DEF ReadConfigFromDatabase, DatabaseTypeOK, Files, Processes
  <2>4. CASE /\ file' = Migrated(file)
             /\ \/ proc' = At("serving") /\ past' = past \union {file.records}
                \/ proc' = NoProcess /\ UNCHANGED past
    <3>1. file' \in Files /\ file'.records = file.records
      BY <2>1, <2>4 DEF Migrated, Files, CurrentSchemaVersion
    <3>2. proc' \in Processes /\ (proc' = At("serving") => proc'.pc = "serving")
          /\ (proc' = NoProcess => proc'.pc = "none")
      BY <1>0, <2>4, AtType DEF NoProcess
    <3>3. file.records \in SUBSET AllRecords
      BY <2>1 DEF Files
    <3>4. DatabaseTypeOK'
      BY <1>0, <1>2, <2>4, <3>1, <3>2, <3>3 DEF ReadConfigFromDatabase, DatabaseTypeOK, Files, Processes
    <3>5. QED
      BY <1>2, <2>1, <2>4, <3>1, <3>2, <3>4 DEF ReadConfigFromDatabase, Files
  <2>5. QED
    BY <1>2, <2>2, <2>3, <2>4 DEF ReadConfigFromDatabase
<1>3. CASE ConfigureClientConfig
  <2>1. /\ proc = At("bootstrap") /\ proc' = [proc EXCEPT !.token = tokens + 1]
        /\ tokens' = tokens + 1 /\ tokens' \in 0..MaxTokens /\ proc.pc = "bootstrap"
    BY <1>0, <1>3, AtType, DatabaseAssumption DEF ConfigureClientConfig, DatabaseTypeOK
  <2>2. proc' \in Processes' /\ proc'.pc = "bootstrap"
    BY <1>0, <2>1 DEF DatabaseTypeOK, Processes
  <2>3. Files \subseteq Files'
    BY <1>0, <2>1, TypesStay
  <2>4. clientConf' \in 0..tokens'
    BY <1>0, <1>3, <2>1 DEF ConfigureClientConfig, DatabaseTypeOK
  <2>5. backup' = Absent \/ backup' \in [schema : Nat, records : SUBSET AllRecords, token : 0..tokens']
    BY <1>0, <1>3, <2>1 DEF ConfigureClientConfig, DatabaseTypeOK
  <2>6. DatabaseTypeOK'
    BY <1>0, <1>3, <2>1, <2>2, <2>3, <2>4, <2>5 DEF ConfigureClientConfig, DatabaseTypeOK
  <2>7. QED
    BY <1>3, <2>1, <2>2, <2>3, <2>6 DEF ConfigureClientConfig
<1>4. CASE Bootstrap
  <2>1. file' \in Files /\ file'.records = {NodeRecord} /\ {NodeRecord} \in SUBSET AllRecords
    BY <1>0, <1>4, OfVersionType DEF Bootstrap, CurrentSchemaVersion, AllRecords, DatabaseTypeOK, Processes
  <2>2. proc' \in Processes /\ proc'.pc = "serving" /\ proc.pc = "bootstrap"
    BY <1>0, <1>4, AtType DEF Bootstrap
  <2>3. DatabaseTypeOK'
    BY <1>0, <1>4, <2>1, <2>2 DEF Bootstrap, DatabaseTypeOK, Files, Processes
  <2>4. QED
    BY <1>4, <2>1, <2>2, <2>3 DEF Bootstrap, Files
<1>5. QED
  BY <1>1, <1>2, <1>3, <1>4

(***************************************************************************)
(* Commands and exports.                                                   *)
(***************************************************************************)
LEMMA ExportKeepsInv ==
    ASSUME DatabaseInv, NEW R \in SUBSET AllRecords,
           Command(R) \/ DatabaseBackup \/ ExportRepo(R) \/ StoreBackup
    PROVE  DatabaseInv'
<1> USE DEF DatabaseInv, FileThere, ServesThePast, ExportsThePast, BackupIsPast, ImportsTheBackup
<1>0. tokens \in Nat /\ DatabaseTypeOK /\ proc.pc = "serving" /\ proc' = proc /\ tokens' = tokens
  BY DEF DatabaseTypeOK, Command, DatabaseBackup, ExportRepo, StoreBackup
<1>1. file \in Files /\ file.records \in SUBSET AllRecords /\ file.token \in 0..tokens
  BY <1>0 DEF Files
<1>2. CASE Command(R)
  <2>1. file' \in Files /\ file'.records = R
    BY <1>1, <1>2 DEF Command, Files
  <2>2. DatabaseTypeOK'
    BY <1>0, <1>2, <2>1 DEF Command, DatabaseTypeOK, Files, Processes
  <2>3. QED
    BY <1>0, <1>2, <2>1, <2>2 DEF Command, Files
<1>3. CASE DatabaseBackup
  <2>1. /\ export' = [left |-> file.records, done |-> {}]
        /\ UNCHANGED <<file, proc, backup, clientConf, tokens, moves, past>>
    BY <1>3 DEF DatabaseBackup
  <2>2. export'.left \union export'.done = file.records
        /\ export' \in [left : SUBSET AllRecords, done : SUBSET AllRecords]
    BY <1>1, <2>1
  <2>3. DatabaseTypeOK'
    BY <1>0, <2>1, <2>2 DEF DatabaseTypeOK, Files, Processes
  <2>4. QED
    BY <1>0, <2>1, <2>2, <2>3 DEF Files
<1>4. CASE ExportRepo(R)
  <2>1. /\ export # Absent /\ R \subseteq export.left
        /\ export' = [left |-> export.left \ R, done |-> export.done \union R]
        /\ UNCHANGED <<file, proc, backup, clientConf, tokens, moves, past>>
    BY <1>4 DEF ExportRepo
  <2>2. export'.left \union export'.done = export.left \union export.done
        /\ export' \in [left : SUBSET AllRecords, done : SUBSET AllRecords]
    BY <1>0, <2>1 DEF DatabaseTypeOK
  <2>3. DatabaseTypeOK'
    BY <1>0, <2>1, <2>2 DEF DatabaseTypeOK, Files, Processes
  <2>4. QED
    BY <1>0, <2>1, <2>2, <2>3 DEF Files
<1>5. CASE StoreBackup
  <2>1. /\ export # Absent /\ export.left = {} /\ export' = Absent
        /\ backup' = [schema |-> CurrentSchemaVersion, records |-> export.done, token |-> file.token]
        /\ UNCHANGED <<file, proc, clientConf, tokens, moves, past>>
    BY <1>5 DEF StoreBackup
  <2>2. backup'.records = export.left \union export.done
        /\ backup' \in [schema : Nat, records : SUBSET AllRecords, token : 0..tokens]
    BY <1>0, <1>1, <2>1 DEF DatabaseTypeOK, CurrentSchemaVersion
  <2>3. DatabaseTypeOK'
    BY <1>0, <2>1, <2>2 DEF DatabaseTypeOK, Files, Processes
  <2>4. QED
    BY <1>0, <2>1, <2>2, <2>3 DEF Files
<1>6. QED
  BY <1>2, <1>3, <1>4, <1>5

(***************************************************************************)
(* Imports.                                                                *)
(***************************************************************************)
LEMMA ImportKeepsInv ==
    ASSUME DatabaseInv, NEW r \in AllRecords,
           ImportOpens \/ BootstrapRepos \/ ImportRecord(r) \/ ImportEnds
    PROVE  DatabaseInv'
<1> USE DEF DatabaseInv, FileThere, ServesThePast, ExportsThePast, BackupIsPast, ImportsTheBackup
<1>0. /\ tokens \in Nat /\ DatabaseTypeOK /\ export = Absent /\ backup # Absent
      /\ UNCHANGED <<export, backup, clientConf, tokens, moves, past>>
      /\ {} \in SUBSET AllRecords
  BY AtType DEF DatabaseTypeOK, ImportOpens, BootstrapRepos, ImportRecord, ImportEnds, NoProcess
<1>1. backup.records \in SUBSET AllRecords /\ backup.token \in 0..tokens
  BY <1>0 DEF DatabaseTypeOK
\* It is enough to look at the file and the process.
<1>2. ASSUME file' \in Files, proc' \in Processes, ImportsTheBackup',
             proc'.pc # "serving"
      PROVE  DatabaseInv'
  <2>1. DatabaseTypeOK'
    BY <1>0, <1>2 DEF DatabaseTypeOK, Files, Processes
  <2>2. QED
    BY <1>0, <1>2, <2>1 DEF Files
<1>3. CASE ImportOpens
  <2>1. file' \in Files
    BY <1>0, <1>3 DEF ImportOpens, Empty, Files
  <2>2. proc' \in Processes /\ proc'.pc = "opened"
    BY <1>0, <1>3, AtType DEF ImportOpens
  <2>3. QED
    BY <1>0, <1>2, <2>1, <2>2
<1>4. CASE BootstrapRepos
  <2>1. file' \in Files /\ file'.records = {}
    BY <1>0, <1>4, OfVersionType DEF BootstrapRepos, CurrentSchemaVersion
  <2>2. CASE proc' = Importing(backup.records, {}, 0)
    <3>1. /\ proc' \in Processes /\ proc'.pc = "importing"
          /\ proc'.left = backup.records /\ proc'.tx = {}
      BY <1>0, <1>1, <2>2, ImportingType
    <3>2. QED
      BY <1>0, <1>2, <2>1, <3>1
  <2>3. CASE proc' = NoProcess
    <3>1. proc' \in Processes /\ proc'.pc = "none"
      BY <1>0, <2>3, AtType DEF NoProcess
    <3>2. QED
      BY <1>0, <1>2, <2>1, <3>1
  <2>4. QED
    BY <1>4, <2>2, <2>3 DEF BootstrapRepos
<1>5. ASSUME file \in Files, NEW R \in SUBSET AllRecords
      PROVE  Committed(R) \in Files /\ Committed(R).records = file.records \union R
  BY <1>1, <1>5, OfVersionType DEF Committed, Files
<1>6. CASE ImportRecord(r)
  <2> DEFINE used  == proc.used + 1
             turns == used % BatchSize = 0
             tx    == IF turns THEN {r} ELSE proc.tx \union {r}
  <2>1. /\ proc.pc = "importing" /\ r \in proc.left
        /\ file' = IF turns THEN Committed(proc.tx) ELSE file
        /\ proc' = Importing(proc.left \ {r}, tx, used)
    BY <1>6 DEF ImportRecord
  <2>2. /\ file \in Files /\ used \in Nat /\ proc.left \in SUBSET AllRecords
        /\ proc.tx \in SUBSET AllRecords /\ tx \in SUBSET AllRecords
    BY <1>0, <2>1 DEF DatabaseTypeOK, Processes
  <2>3. /\ proc' \in Processes /\ proc'.pc = "importing"
        /\ proc'.left = proc.left \ {r} /\ proc'.tx = tx
    <3> HIDE DEF used, tx
    <3>1. proc.left \ {r} \in SUBSET AllRecords
      BY <2>2
    <3>2. QED
      BY <1>0, <2>1, <2>2, <3>1, ImportingType
  <2>4. /\ file' \in Files
        /\ file'.records \union tx \union (proc.left \ {r}) = backup.records
    <3>1. CASE turns
      BY <1>5, <2>1, <2>2, <3>1
    <3>2. CASE ~turns
      BY <2>1, <2>2, <3>2
    <3>3. QED
      BY <3>1, <3>2
  <2> HIDE DEF tx, used, turns
  <2>5. QED
    BY <1>0, <1>2, <2>3, <2>4
<1>7. CASE ImportEnds
  <2>1. /\ proc.pc = "importing" /\ proc.left = {} /\ file' = Committed(proc.tx) /\ proc' = At("imported")
        /\ file \in Files /\ proc.tx \in SUBSET AllRecords
    BY <1>0, <1>7 DEF ImportEnds, DatabaseTypeOK, Processes
  <2>2. file' \in Files /\ file'.records = backup.records
    BY <1>5, <2>1
  <2>3. proc' \in Processes /\ proc'.pc = "imported"
    BY <1>0, <2>1, AtType
  <2>4. QED
    BY <1>0, <1>2, <2>2, <2>3
<1>8. QED
  BY <1>3, <1>4, <1>6, <1>7

LEMMA DatabaseStep ==
    ASSUME DatabaseInv, [DatabaseNext]_databaseVars
    PROVE  DatabaseInv'
<1>1. CASE ProcessEnds \/ MoveAway
  <2> USE DEF DatabaseInv, FileThere, ServesThePast, ExportsThePast, BackupIsPast, ImportsTheBackup
  <2>0. tokens \in Nat /\ DatabaseTypeOK
    BY DEF DatabaseTypeOK
  <2>1. /\ proc' = NoProcess /\ proc'.pc = "none" /\ proc' \in Processes
        /\ (file' = file \/ file' = Absent) /\ (export' = Absent \/ (proc = NoProcess /\ export' = export))
        /\ UNCHANGED <<backup, clientConf, tokens, past>>
    <3>1. NoProcess.pc = "none" /\ NoProcess \in Processes /\ Processes' = Processes
      BY <1>1, <2>0, AtType DEF NoProcess, ProcessEnds, MoveAway, Processes
    <3>2. proc' = NoProcess
      BY <1>1 DEF ProcessEnds, MoveAway, NoProcess, At
    <3>3. QED
      BY <1>1, <3>1, <3>2 DEF ProcessEnds, MoveAway
  <2>2. export' = Absent
    BY <2>0, <2>1, AtType DEF NoProcess
  <2>3. moves' \in 0..MaxMoves
    BY <1>1, <2>0, DatabaseAssumption DEF ProcessEnds, MoveAway, DatabaseTypeOK
  <2>4. DatabaseTypeOK'
    BY <2>0, <2>1, <2>2, <2>3 DEF DatabaseTypeOK, Files, Processes
  <2>5. QED
    BY <2>1, <2>2, <2>4
<1>2. CASE UNCHANGED databaseVars
  BY <1>2 DEF databaseVars, DatabaseInv, DatabaseTypeOK, Files, Processes, FileThere, ServesThePast,
              ExportsThePast, BackupIsPast, ImportsTheBackup
<1>3. QED
  <2>1. NodeRecord \in AllRecords /\ {} \in SUBSET AllRecords
    BY DEF AllRecords
  <2>2. QED
    BY <1>1, <1>2, <2>1, ServerKeepsInv, ExportKeepsInv, ImportKeepsInv DEF DatabaseNext

LEMMA DatabaseStart ==
    ASSUME DatabaseInit
    PROVE  DatabaseInv
<1>1. /\ tokens = 0 /\ clientConf = 0 /\ moves = 0 /\ export = Absent
      /\ proc = NoProcess /\ proc.pc = "none" /\ proc \in Processes
  BY AtType DEF DatabaseInit, NoProcess
<1>2. CASE file = Absent
  <2>1. backup = Absent /\ past = {}
    BY <1>2 DEF DatabaseInit
  <2>2. DatabaseTypeOK
    BY <1>1, <1>2, <2>1, DatabaseAssumption DEF DatabaseTypeOK
  <2>3. QED
    BY <1>1, <2>1, <2>2 DEF DatabaseInv, FileThere, ServesThePast, ExportsThePast, BackupIsPast,
                            ImportsTheBackup
<1>3. CASE file # Absent
  <2>1. PICK v \in 0..CurrentSchemaVersion + 1 : file = OfVersion(v, {NodeRecord}, 0)
    BY <1>3 DEF DatabaseInit
  <2>2. file \in Files /\ file.records = {NodeRecord} /\ file.schema \in Nat
        /\ {NodeRecord} \in SUBSET AllRecords
    BY <1>1, <2>1, OfVersionType DEF OfVersion, CurrentSchemaVersion, AllRecords
  <2>3. /\ backup \in {Absent, [schema |-> file.schema, records |-> file.records, token |-> 0]}
        /\ past = {file.records}
    BY <1>3 DEF DatabaseInit
  <2>4. backup # Absent => backup.records = file.records
                           /\ backup \in [schema : Nat, records : SUBSET AllRecords, token : 0..tokens]
    BY <1>1, <2>2, <2>3
  <2>5. DatabaseTypeOK
    BY <1>1, <2>2, <2>3, <2>4, DatabaseAssumption DEF DatabaseTypeOK
  <2>6. QED
    BY <1>1, <2>2, <2>3, <2>4, <2>5 DEF DatabaseInv, FileThere, ServesThePast, ExportsThePast,
                                         BackupIsPast, ImportsTheBackup
<1>4. QED
  BY <1>2, <1>3

\* The types of the file, the processes and the backup (stodb.Open, Export, Import).
THEOREM DatabaseTypeCorrect == DatabaseSpec => []DatabaseTypeOK
<1>1. DatabaseInit => DatabaseInv
  BY DatabaseStart
<1>2. DatabaseInv /\ [DatabaseNext]_databaseVars => DatabaseInv'
  BY DatabaseStep
<1>3. DatabaseInv => DatabaseTypeOK
  BY DEF DatabaseInv
<1>4. QED
  BY <1>1, <1>2, <1>3, PTL DEF DatabaseSpec

\* Whatever commands ran beside the export, and wherever servers and imports
\* were killed, an Import that returned without an error restored a content
\* the database once had, in batches of any size.
THEOREM ImportsRestoreThePast == DatabaseSpec => []ImportRestoresThePast
<1>1. DatabaseInit => DatabaseInv
  BY DatabaseStart
<1>2. DatabaseInv /\ [DatabaseNext]_databaseVars => DatabaseInv'
  BY DatabaseStep
<1>3. DatabaseInv => ImportRestoresThePast
  BY DEF DatabaseInv, ImportRestoresThePast, BackupIsPast, ImportsTheBackup
<1>4. QED
  BY <1>1, <1>2, <1>3, PTL DEF DatabaseSpec

-----------------------------------------------------------------------------
\* Verifier: any blobs, jobs, batch limits and any number of workers.

(***************************************************************************)
(* The inductive invariant.  A record covers what comes before its last    *)
(* blob; a worker's record covers, beside that, what its batch no longer   *)
(* has and does not leave to the next one.  A job has at most one worker,  *)
(* whose record is ahead of the saved one, until it has been removed from  *)
(* the running jobs.                                                       *)
(***************************************************************************)
Lasting == Early \intersect Damaged

RecordCovers(record) ==
    /\ \A b \in Lasting : b < record.last => b \in record.errors
    /\ record.completed => Lasting \subseteq record.errors

\* The blobs a worker has yet to look at in its batch, and those that are left
\* to the next batch.
Ahead(me) == me.todo \union (IF me.at = "scrub" THEN {me.record.last} ELSE {})

Beyond(me) == {b \in Refs : me.full /\ me.record.last < b /\ \A y \in me.todo : y < b}

BatchCovers(me) ==
    me.at \in {"next", "scrub"} =>
        /\ Lasting \subseteq me.record.errors \union Ahead(me) \union Beyond(me)
        /\ Lasting \intersect Ahead(me) \subseteq me.onVolume
        /\ \A y \in me.todo : IF me.at = "scrub" THEN me.record.last < y ELSE me.record.last <= y

WorkerInv(me) ==
    me.at # "rest" =>
        /\ me.job \in running \ stopped
        /\ 0 <= jobs[me.job].last /\ jobs[me.job].last <= me.record.last
        /\ jobs[me.job].errors \subseteq me.record.errors
        /\ RecordCovers(me.record)
        /\ BatchCovers(me)

OneWorker ==
    \A v, w \in Workers :
        (workers[v].at # "rest" /\ workers[w].at # "rest" /\ workers[v].job = workers[w].job) => v = w

JobsInv ==
    /\ \A j \in Jobs : RecordCovers(jobs[j]) /\ (jobs[j] = NoJob \/ 0 <= jobs[j].last)
    /\ \A j \in resuming : 0 <= jobs[j].last
    /\ stopped \subseteq running
    /\ \A b \in Early : blobs[b] = "here"

VerifierInv ==
    /\ VerifierTypeOK
    /\ JobsInv
    /\ OneWorker
    /\ \A w \in Workers : WorkerInv(workers[w])

(***************************************************************************)
(* Facts about numbers and batches.                                        *)
(***************************************************************************)
LEMMA LeastRef ==
    ASSUME NEW S \in SUBSET Refs, S # {}
    PROVE  \E n \in S : \A m \in S : n <= m
<1>1. S \in SUBSET Nat
  BY VerifierAssumption DEF Refs
<1>2. PICK n \in S : \A m \in S : ~(<<m, n>> \in OpToRel(<, Nat))
  BY <1>1, NatLessThanWellFounded, WFMin
<1>3. \A m \in S : ~(m < n)
  BY <1>1, <1>2 DEF OpToRel
<1>4. QED
  BY <1>1, <1>3

LEMMA BatchIsSmall ==
    ASSUME NEW batch \in SUBSET Refs
    PROVE  Cardinality(batch) \in Nat /\ (batch = {} => Cardinality(batch) < BatchLimit)
<1>1. IsFiniteSet(Refs)
  BY FS_Interval, VerifierAssumption DEF Refs
<1>2. Cardinality(batch) \in Nat
  BY <1>1, FS_Subset, FS_CardinalityType
<1>3. QED
  BY <1>2, FS_EmptySet, VerifierAssumption

LEMMA RestingType == Resting \in WorkerStates /\ Resting.at = "rest"
<1>1. (CHOOSE j \in Jobs : TRUE) \in Jobs
  BY VerifierAssumption
<1>2. NoJob \in JobRecords
  BY VerifierAssumption DEF NoJob, JobRecords
<1>3. QED
  BY <1>1, <1>2 DEF Resting, WorkerStates

(***************************************************************************)
(* A worker that goes on, saving its record or not.                        *)
(***************************************************************************)
LEMMA WorkerMoves ==
    ASSUME VerifierInv,
           NEW w \in Workers, NEW me \in WorkerStates,
           workers[w].at # "rest", me.at # "rest", me.job = workers[w].job,
           workers' = [workers EXCEPT ![w] = me],
           UNCHANGED <<blobs, controlVars>>,
           jobs' = jobs \/ jobs' = [jobs EXCEPT ![me.job] = me.record],
           workers[w].record.last <= me.record.last,
           workers[w].record.errors \subseteq me.record.errors,
           RecordCovers(me.record), BatchCovers(me)
    PROVE  /\ VerifierInv'
           /\ \A j \in Jobs : jobs[j].last <= jobs'[j].last /\ jobs[j].errors \subseteq jobs'[j].errors
<1> USE DEF VerifierInv
<1> DEFINE j == me.job
<1>1. /\ j \in Jobs /\ me.record \in JobRecords
      /\ jobs \in [Jobs -> JobRecords] /\ workers \in [Workers -> WorkerStates]
      /\ j \in running \ stopped
      /\ 0 <= jobs[j].last /\ jobs[j].last <= workers[w].record.last
      /\ jobs[j].errors \subseteq workers[w].record.errors
  BY DEF VerifierTypeOK, WorkerInv, WorkerStates
<1>2. workers[w].record \in JobRecords /\ jobs[j] \in JobRecords
  BY <1>1 DEF WorkerStates
<1>3. /\ workers[w].record.last \in Int /\ me.record.last \in Int
      /\ \A i \in Jobs : jobs[i].last \in Int
  BY <1>1, <1>2, VerifierAssumption DEF JobRecords
<1>4. jobs[j].last <= me.record.last /\ 0 <= me.record.last
      /\ jobs[j].errors \subseteq me.record.errors
  BY <1>1, <1>3
<1>5. /\ jobs' \in [Jobs -> JobRecords]
      /\ \A i \in Jobs \ {j} : jobs'[i] = jobs[i]
      /\ jobs'[j] \in {jobs[j], me.record}
  BY <1>1
<1>6. /\ workers' \in [Workers -> WorkerStates]
      /\ workers'[w] = me /\ \A v \in Workers \ {w} : workers'[v] = workers[v]
  BY <1>1
<1>7. VerifierTypeOK'
  BY <1>5, <1>6 DEF VerifierTypeOK, controlVars
<1>8. JobsInv'
  <2>1. \A i \in Jobs : RecordCovers(jobs'[i]) /\ (jobs'[i] = NoJob \/ 0 <= jobs'[i].last)
    BY <1>4, <1>5 DEF JobsInv
  <2>2. \A i \in resuming : i \in Jobs
    BY DEF VerifierTypeOK, Channels
  <2>3. \A i \in resuming : 0 <= jobs'[i].last
    BY <1>4, <1>5, <2>2 DEF JobsInv
  <2>4. (\A i \in Jobs : RecordCovers(jobs[i]))' <=> \A i \in Jobs : RecordCovers(jobs'[i])
    BY DEF RecordCovers
  <2>5. QED
    BY <2>1, <2>3, <2>4 DEF JobsInv, controlVars, RecordCovers
<1>9. OneWorker'
  BY <1>6 DEF OneWorker
<1>10. ASSUME NEW v \in Workers PROVE WorkerInv(workers[v])'
  <2>1. CASE v = w
    <3>1. /\ jobs'[j].last <= me.record.last /\ jobs'[j].errors \subseteq me.record.errors
          /\ 0 <= jobs'[j].last
      BY <1>1, <1>3, <1>4, <1>5
    <3>2. QED
      BY <1>1, <1>6, <2>1, <3>1 DEF WorkerInv, RecordCovers, BatchCovers, Ahead, Beyond, controlVars
  <2>2. CASE v # w
    <3>1. workers'[v] = workers[v] /\ WorkerInv(workers[v])
      BY <1>6, <2>2
    <3>2. workers[v].at # "rest" => workers[v].job \in Jobs \ {j}
      BY <1>1, <2>2 DEF OneWorker, WorkerStates
    <3>3. QED
      BY <1>5, <3>1, <3>2 DEF WorkerInv, RecordCovers, BatchCovers, Ahead, Beyond, controlVars
  <2>3. QED
    BY <2>1, <2>2
<1>11. \A i \in Jobs : jobs[i].last <= jobs'[i].last /\ jobs[i].errors \subseteq jobs'[i].errors
  BY <1>3, <1>4, <1>5
<1>12. QED
  BY <1>7, <1>8, <1>9, <1>10, <1>11

(***************************************************************************)
(* The steps of a worker.                                                  *)
(***************************************************************************)
LEMMA WorkerFacts ==
    ASSUME VerifierInv, NEW w \in Workers, workers[w].at # "rest"
    PROVE  /\ workers[w] \in WorkerStates /\ workers[w].record \in JobRecords
           /\ workers[w].record.last \in Int /\ 0 <= workers[w].record.last
           /\ workers[w].record.errors \subseteq Refs
           /\ workers[w].todo \subseteq Refs /\ Refs \subseteq Int
           /\ RecordCovers(workers[w].record) /\ BatchCovers(workers[w])
           /\ Lasting \subseteq Refs /\ \A b \in Lasting : blobs[b] = "here"
<1>1. workers[w] \in WorkerStates /\ workers[w].record \in JobRecords
  BY DEF VerifierInv, VerifierTypeOK, WorkerStates
<1>2. jobs[workers[w].job] \in JobRecords
  BY <1>1 DEF VerifierInv, VerifierTypeOK, WorkerStates
<1>3. /\ workers[w].record.last \in Int /\ jobs[workers[w].job].last \in Int
      /\ workers[w].record.errors \subseteq Refs
      /\ workers[w].todo \subseteq Refs /\ Refs \subseteq Int
  BY <1>1, <1>2, VerifierAssumption DEF JobRecords, WorkerStates, Refs
<1>4. 0 <= workers[w].record.last
  BY <1>3 DEF VerifierInv, WorkerInv
<1>5. Lasting \subseteq Refs /\ \A b \in Lasting : blobs[b] = "here"
  BY VerifierAssumption DEF VerifierInv, JobsInv, Lasting
<1>6. QED
  BY <1>1, <1>3, <1>4, <1>5 DEF VerifierInv, WorkerInv

LEMMA FetchBatchKeeps ==
    ASSUME VerifierInv, NEW w \in Workers, FetchBatch(w)
    PROVE  VerifierInv' /\ jobs' = jobs
<1> DEFINE old == workers[w]
<1>1. old.at = "fetch"
  BY DEF FetchBatch
<1>2. /\ old \in WorkerStates /\ old.record \in JobRecords
      /\ old.record.last \in Int /\ 0 <= old.record.last
      /\ RecordCovers(old.record)
      /\ Refs \subseteq Int /\ Lasting \subseteq Refs /\ \A b \in Lasting : blobs[b] = "here"
  BY <1>1, WorkerFacts
<1>3. PICK batch \in SUBSET Candidates(old.record.last) :
        /\ IsBatch(batch, old.record.last)
        /\ workers' = [workers EXCEPT ![w] =
              IF batch = {}
              THEN [old EXCEPT !.at = "save", !.record = Completed(old.record)]
              ELSE [old EXCEPT !.at = "next", !.todo = batch,
                             !.onVolume = {b \in batch : blobs[b] = "here"},
                             !.full = (Cardinality(batch) = BatchLimit)]]
  BY DEF FetchBatch
<1>4. /\ batch \in SUBSET Refs
      /\ \A b \in batch : old.record.last <= b
      /\ \A b \in Lasting : old.record.last <= b => b \in Candidates(old.record.last)
  BY <1>2, <1>3 DEF Candidates
<1>5. Cardinality(batch) \in Nat /\ (batch = {} => Cardinality(batch) < BatchLimit)
  BY <1>4, BatchIsSmall
<1>6. CASE batch = {}
  <2> DEFINE me == [old EXCEPT !.at = "save", !.record = Completed(old.record)]
  <2>1. Candidates(old.record.last) = {}
    BY <1>3, <1>5, <1>6 DEF IsBatch
  <2>2. ASSUME NEW b \in Lasting PROVE b < old.record.last
    <3>1. b \in Int /\ ~(old.record.last <= b)
      BY <1>2, <1>4, <2>1
    <3>2. QED
      BY <1>2, <3>1
  <2>3. /\ Completed(old.record) \in JobRecords
        /\ Completed(old.record).last = old.record.last
        /\ Completed(old.record).errors = old.record.errors
    BY <1>2 DEF Completed, JobRecords
  <2>4. me \in WorkerStates /\ me.at = "save" /\ me.job = old.job /\ me.record = Completed(old.record)
    BY <1>2, <2>3 DEF WorkerStates
  <2>5. RecordCovers(me.record) /\ BatchCovers(me)
    BY <1>2, <2>2, <2>3, <2>4 DEF RecordCovers, BatchCovers
  <2>6. workers' = [workers EXCEPT ![w] = me]
    BY <1>3, <1>6
  <2>7. jobs' = jobs /\ UNCHANGED <<blobs, controlVars>>
    BY DEF FetchBatch
  <2> HIDE DEF me
  <2>8. me.at # "rest" /\ (jobs' = jobs \/ jobs' = [jobs EXCEPT ![me.job] = me.record])
    BY <2>4, <2>7
  <2>9. old.record.last <= me.record.last /\ old.record.errors \subseteq me.record.errors
    BY <1>2, <2>3, <2>4
  <2>10. QED
    BY <1>1, <2>4, <2>5, <2>6, <2>7, <2>8, <2>9, WorkerMoves
<1>7. CASE batch # {}
  <2> DEFINE here == {b \in batch : blobs[b] = "here"}
             full == (Cardinality(batch) = BatchLimit)
             me == [old EXCEPT !.at = "next", !.todo = batch, !.onVolume = here, !.full = full]
  <2>1. /\ me \in WorkerStates /\ me.at = "next" /\ me.job = old.job /\ me.record = old.record
        /\ me.todo = batch /\ me.onVolume = here /\ me.full = full
    BY <1>2, <1>4 DEF WorkerStates
  <2>2. ASSUME NEW b \in Lasting, b \notin old.record.errors, b \notin batch
        PROVE  b \in Beyond(me)
    <3>0. b \in Int /\ ~(b < old.record.last)
      BY <1>2, <2>2 DEF RecordCovers
    <3>1. old.record.last <= b
      BY <1>2, <3>0
    <3>2. b \in Candidates(old.record.last) /\ b \in Refs
      BY <1>2, <1>4, <3>1
    <3>3. \A y \in batch : y \in Int /\ y < b
      BY <1>2, <1>3, <1>4, <2>2, <3>2 DEF IsBatch
    <3>4. old.record.last < b
      <4>1. PICK y \in batch : y \in Int /\ old.record.last <= y /\ y < b
        BY <1>4, <1>7, <3>3
      <4>2. QED
        BY <1>2, <3>0, <4>1
    <3>5. full
      BY <1>3, <1>5, <2>2, <3>2, VerifierAssumption DEF IsBatch
    <3>6. QED
      BY <2>1, <3>2, <3>3, <3>4, <3>5 DEF Beyond
  <2>3. Ahead(me) = batch
    BY <2>1 DEF Ahead
  <2>4. Lasting \subseteq me.record.errors \union Ahead(me) \union Beyond(me)
    BY <2>1, <2>2, <2>3
  <2>5. Lasting \intersect Ahead(me) \subseteq me.onVolume
    BY <1>2, <2>1, <2>3
  <2>6. BatchCovers(me)
    BY <1>4, <2>1, <2>4, <2>5 DEF BatchCovers
  <2>7. workers' = [workers EXCEPT ![w] = me]
    BY <1>3, <1>7
  <2>8. jobs' = jobs /\ UNCHANGED <<blobs, controlVars>>
    BY DEF FetchBatch
  <2> HIDE DEF me
  <2>9. me.at # "rest" /\ (jobs' = jobs \/ jobs' = [jobs EXCEPT ![me.job] = me.record])
    BY <2>1, <2>8
  <2>10. /\ old.record.last <= me.record.last /\ old.record.errors \subseteq me.record.errors
         /\ RecordCovers(me.record)
    BY <1>2, <2>1
  <2>11. QED
    BY <1>1, <2>1, <2>6, <2>7, <2>8, <2>9, <2>10, WorkerMoves
<1>8. QED
  BY <1>6, <1>7

LEMMA BatchFailsKeeps ==
    ASSUME VerifierInv, NEW w \in Workers, BatchFails(w)
    PROVE  VerifierInv' /\ jobs' = jobs
<1> DEFINE old == workers[w]
           me == [old EXCEPT !.at = "save"]
<1>1. /\ old.at = "fetch" /\ jobs' = jobs /\ UNCHANGED <<blobs, controlVars>>
      /\ workers' = [workers EXCEPT ![w].at = "save"]
  BY DEF BatchFails
<1>2. /\ old \in WorkerStates /\ old.record \in JobRecords /\ old.record.last \in Int
      /\ RecordCovers(old.record)
  BY <1>1, WorkerFacts
<1>3. me \in WorkerStates /\ me.at = "save" /\ me.job = old.job /\ me.record = old.record
  BY <1>2 DEF WorkerStates
<1>4. workers' = [workers EXCEPT ![w] = me]
  BY <1>1
<1> HIDE DEF me
<1>5. RecordCovers(me.record) /\ BatchCovers(me)
  BY <1>2, <1>3 DEF BatchCovers
<1>6. old.record.last <= me.record.last
  BY <1>2, <1>3
<1>7. QED
  BY <1>1, <1>3, <1>4, <1>5, <1>6, WorkerMoves

LEMMA NextBlobKeeps ==
    ASSUME VerifierInv, NEW w \in Workers, NextBlob(w)
    PROVE  /\ VerifierInv'
           /\ \A j \in Jobs : jobs[j].last <= jobs'[j].last /\ jobs[j].errors \subseteq jobs'[j].errors
<1> DEFINE old == workers[w]
           b == CHOOSE x \in old.todo : \A y \in old.todo : x <= y
           record == [old.record EXCEPT !.last = b]
<1>1. old.at = "next" /\ old.todo # {}
  BY DEF NextBlob
<1>2. /\ old \in WorkerStates /\ old.record \in JobRecords
      /\ old.record.last \in Int /\ 0 <= old.record.last
      /\ RecordCovers(old.record) /\ BatchCovers(old)
      /\ old.todo \subseteq Refs /\ Refs \subseteq Int /\ Lasting \subseteq Refs
  BY <1>1, WorkerFacts
<1>3. b \in old.todo /\ \A y \in old.todo : b <= y
  BY <1>1, <1>2, LeastRef
<1>4. PICK at \in {"save", "scrub"} :
         /\ workers' = [workers EXCEPT ![w] =
               [old EXCEPT !.at = at, !.record = record, !.todo = old.todo \ {b}]]
         /\ jobs' = jobs \/ jobs' = [jobs EXCEPT ![old.job] = record]
         /\ UNCHANGED <<blobs, controlVars>>
  BY DEF NextBlob
<1> DEFINE me == [old EXCEPT !.at = at, !.record = record, !.todo = old.todo \ {b}]
<1> HIDE DEF b
<1>5. b \in Refs /\ b \in -1 .. LastBlob /\ b \in Int
  BY <1>2, <1>3, VerifierAssumption DEF Refs
<1>6. /\ record \in JobRecords /\ record.last = b /\ record.errors = old.record.errors
      /\ record.completed = old.record.completed
  BY <1>2, <1>5 DEF JobRecords
<1> HIDE DEF record
<1>7. /\ me \in WorkerStates /\ me.at = at /\ me.job = old.job /\ me.record = record
      /\ me.todo = old.todo \ {b} /\ me.onVolume = old.onVolume /\ me.full = old.full
  BY <1>2, <1>4, <1>6 DEF WorkerStates
<1> HIDE DEF me
<1>8. Ahead(old) = old.todo /\ old.record.last <= b
  BY <1>1, <1>2, <1>3 DEF Ahead, BatchCovers
<1>9. Lasting \subseteq old.record.errors \union old.todo \union Beyond(old)
  BY <1>1, <1>2, <1>8 DEF BatchCovers
<1>10. RecordCovers(me.record)
  <2>1. ASSUME NEW x \in Lasting, x < b PROVE x \in record.errors
    BY <1>2, <1>3, <1>5, <1>6, <1>9, <2>1 DEF Beyond
  <2>2. QED
    BY <1>2, <1>6, <1>7, <2>1 DEF RecordCovers
<1>11. BatchCovers(me)
  <2>1. CASE at = "save"
    BY <1>7, <2>1 DEF BatchCovers
  <2>2. CASE at = "scrub"
    <3>1. Ahead(me) = old.todo
      BY <1>3, <1>6, <1>7, <2>2 DEF Ahead
    <3>2. Beyond(old) \subseteq Beyond(me)
      BY <1>3, <1>6, <1>7 DEF Beyond
    <3>3. ASSUME NEW y \in me.todo PROVE b < y
      <4>1. y \in Int /\ y # b /\ b <= y
        BY <1>2, <1>3, <1>7
      <4>2. QED
        BY <1>5, <4>1
    <3>4. Lasting \intersect old.todo \subseteq old.onVolume
      BY <1>1, <1>2, <1>8 DEF BatchCovers
    <3>5. QED
      BY <1>6, <1>7, <1>9, <2>2, <3>1, <3>2, <3>3, <3>4 DEF BatchCovers
  <2>3. QED
    BY <1>4, <2>1, <2>2
<1>12. workers' = [workers EXCEPT ![w] = me]
  BY <1>4 DEF me
<1>13. me.at # "rest" /\ (jobs' = jobs \/ jobs' = [jobs EXCEPT ![me.job] = me.record])
  BY <1>4, <1>7
<1>14. old.record.last <= me.record.last /\ old.record.errors \subseteq me.record.errors
  BY <1>6, <1>7, <1>8
<1>15. QED
  BY <1>1, <1>4, <1>7, <1>10, <1>11, <1>12, <1>13, <1>14, WorkerMoves

LEMMA ScrubKeeps ==
    ASSUME VerifierInv, NEW w \in Workers, Scrub(w)
    PROVE  VerifierInv' /\ jobs' = jobs
<1> DEFINE old == workers[w]
           last == old.record.last
<1>1. old.at = "scrub" /\ jobs' = jobs /\ UNCHANGED <<blobs, controlVars>>
  BY DEF Scrub
<1>2. /\ old \in WorkerStates /\ old.record \in JobRecords
      /\ last \in Int /\ 0 <= last
      /\ RecordCovers(old.record) /\ BatchCovers(old)
      /\ old.todo \subseteq Refs /\ Refs \subseteq Int /\ Lasting \subseteq Refs
  BY <1>1, WorkerFacts
<1>3. /\ Lasting \subseteq old.record.errors \union (old.todo \union {last}) \union Beyond(old)
      /\ Lasting \intersect (old.todo \union {last}) \subseteq old.onVolume
      /\ \A y \in old.todo : last < y
  BY <1>1, <1>2 DEF BatchCovers, Ahead
\* It is enough to look at the worker's new state.
<1>4. ASSUME NEW me \in WorkerStates, me.at \in {"next", "save"}, me.job = old.job,
             me.todo = old.todo, me.onVolume = old.onVolume, me.full = old.full,
             me.record.last = last, me.record.completed = old.record.completed,
             old.record.errors \subseteq me.record.errors,
             last \in Lasting => last \in me.record.errors,
             workers' = [workers EXCEPT ![w] = me]
      PROVE  VerifierInv'
  <2>1. RecordCovers(me.record)
    BY <1>2, <1>4 DEF RecordCovers
  <2>2. BatchCovers(me)
    <3>1. CASE me.at = "save"
      BY <3>1 DEF BatchCovers
    <3>2. CASE me.at = "next"
      <4>1. Ahead(me) = old.todo /\ Beyond(me) = Beyond(old)
        BY <1>4, <3>2 DEF Ahead, Beyond
      <4>2. ASSUME NEW y \in me.todo PROVE last <= y
        <5>1. y \in Int /\ last < y
          BY <1>2, <1>3, <1>4
        <5>2. QED
          BY <1>2, <5>1
      <4>3. QED
        BY <1>3, <1>4, <3>2, <4>1, <4>2 DEF BatchCovers
    <3>3. QED
      BY <1>4, <3>1, <3>2
  <2>3. last <= me.record.last
    BY <1>2, <1>4
  <2>4. QED
    BY <1>1, <1>4, <2>1, <2>2, <2>3, WorkerMoves
<1>5. CASE last \notin old.onVolume \intersect Damaged /\ workers' = [workers EXCEPT ![w].at = "next"]
  <2> DEFINE me == [old EXCEPT !.at = "next"]
  <2>1. /\ me \in WorkerStates /\ me.at = "next" /\ me.job = old.job /\ me.record = old.record
        /\ me.todo = old.todo /\ me.onVolume = old.onVolume /\ me.full = old.full
    BY <1>2 DEF WorkerStates
  <2>2. last \notin Lasting
    BY <1>3, <1>5 DEF Lasting
  <2>3. workers' = [workers EXCEPT ![w] = me]
    BY <1>5
  <2> HIDE DEF me
  <2>4. QED
    BY <1>1, <1>4, <2>1, <2>2, <2>3
<1>6. ASSUME last \in Damaged, NEW lines \in {1, 2},
             workers' = [workers EXCEPT ![w] =
                 [old EXCEPT !.record = Report(old.record, last, lines),
                             !.at = IF Report(old.record, last, lines).lines > ReportLimit
                                    THEN "save" ELSE "next"]]
      PROVE  VerifierInv'
  <2> DEFINE total == IF old.record.lines + lines > ReportLimit THEN ReportLimit + 1
                      ELSE old.record.lines + lines
             record == Report(old.record, last, lines)
             at == IF record.lines > ReportLimit THEN "save" ELSE "next"
             me == [old EXCEPT !.record = record, !.at = at]
  <2>1. total \in 0 .. (ReportLimit + 1)
    BY <1>2, VerifierAssumption DEF JobRecords
  <2>2. last \in Refs
    BY <1>6, VerifierAssumption
  <2>3. record = [old.record EXCEPT !.errors = old.record.errors \union {last}, !.lines = total]
    BY DEF Report
  <2> HIDE DEF total, record
  <2>4. /\ record \in JobRecords
        /\ record.last = last /\ record.completed = old.record.completed
        /\ record.errors = old.record.errors \union {last}
    <3>1. record.last = last /\ record.errors = old.record.errors \union {last}
      BY <1>2, <2>3 DEF JobRecords
    <3>2. record.completed = old.record.completed
      BY <1>2, <2>3 DEF JobRecords
    <3>3. old.record.errors \union {last} \in SUBSET Refs
      BY <1>2, <2>2 DEF JobRecords
    <3>4. record \in JobRecords
      BY <1>2, <2>1, <2>3, <3>3 DEF JobRecords
    <3>5. QED
      BY <3>1, <3>2, <3>4
  <2>5. at \in {"next", "save"}
    OBVIOUS
  <2> HIDE DEF at
  <2>6. /\ me \in WorkerStates /\ me.at = at /\ me.job = old.job /\ me.record = record
        /\ me.todo = old.todo /\ me.onVolume = old.onVolume /\ me.full = old.full
    BY <1>2, <2>4, <2>5 DEF WorkerStates
  <2>7. workers' = [workers EXCEPT ![w] = me]
    BY <1>6 DEF record, at
  <2> HIDE DEF me
  <2>8. QED
    BY <1>4, <2>4, <2>5, <2>6, <2>7
<1>7. QED
  BY <1>1, <1>5, <1>6 DEF Scrub

LEMMA BatchDoneKeeps ==
    ASSUME VerifierInv, NEW w \in Workers, BatchDone(w)
    PROVE  VerifierInv' /\ jobs' = jobs
<1> DEFINE old == workers[w]
<1>1. old.at = "next" /\ old.todo = {} /\ jobs' = jobs /\ UNCHANGED <<blobs, controlVars>>
  BY DEF BatchDone
<1>2. /\ old \in WorkerStates /\ old.record \in JobRecords /\ old.record.last \in Int
      /\ RecordCovers(old.record) /\ BatchCovers(old)
  BY <1>1, WorkerFacts
<1>3. Ahead(old) = {}
  BY <1>1 DEF Ahead
<1>4. CASE old.full
  <2> DEFINE me == [old EXCEPT !.at = "fetch"]
  <2>1. me \in WorkerStates /\ me.at = "fetch" /\ me.job = old.job /\ me.record = old.record
    BY <1>2 DEF WorkerStates
  <2>2. workers' = [workers EXCEPT ![w] = me]
    BY <1>4 DEF BatchDone
  <2> HIDE DEF me
  <2>3. RecordCovers(me.record) /\ BatchCovers(me)
    BY <1>2, <2>1 DEF BatchCovers
  <2>4. old.record.last <= me.record.last
    BY <1>2, <2>1
  <2>5. QED
    BY <1>1, <2>1, <2>2, <2>3, <2>4, WorkerMoves
<1>5. CASE ~old.full
  <2> DEFINE me == [old EXCEPT !.at = "save", !.record = Completed(old.record)]
  <2>1. /\ Completed(old.record) \in JobRecords
        /\ Completed(old.record).last = old.record.last
        /\ Completed(old.record).errors = old.record.errors
    BY <1>2 DEF Completed, JobRecords
  <2>2. me \in WorkerStates /\ me.at = "save" /\ me.job = old.job /\ me.record = Completed(old.record)
    BY <1>2, <2>1 DEF WorkerStates
  <2>3. workers' = [workers EXCEPT ![w] = me]
    BY <1>5 DEF BatchDone
  <2> HIDE DEF me
  <2>4. Lasting \subseteq old.record.errors
    BY <1>1, <1>2, <1>3, <1>5 DEF BatchCovers, Beyond
  <2>5. RecordCovers(me.record) /\ BatchCovers(me)
    BY <2>1, <2>2, <2>4 DEF RecordCovers, BatchCovers
  <2>6. old.record.last <= me.record.last
    BY <1>2, <2>1, <2>2
  <2>7. QED
    BY <1>1, <2>1, <2>2, <2>3, <2>5, <2>6, WorkerMoves
<1>6. QED
  BY <1>4, <1>5

LEMMA SaveAtEndKeeps ==
    ASSUME VerifierInv, NEW w \in Workers, SaveAtEnd(w)
    PROVE  /\ VerifierInv'
           /\ \A j \in Jobs : jobs[j].last <= jobs'[j].last /\ jobs[j].errors \subseteq jobs'[j].errors
<1> DEFINE old == workers[w]
           me == [old EXCEPT !.at = "report"]
<1>1. /\ old.at = "save" /\ UNCHANGED <<blobs, controlVars>>
      /\ jobs' = jobs \/ jobs' = [jobs EXCEPT ![old.job] = old.record]
      /\ workers' = [workers EXCEPT ![w].at = "report"]
  BY DEF SaveAtEnd
<1>2. /\ old \in WorkerStates /\ old.record \in JobRecords /\ old.record.last \in Int
      /\ RecordCovers(old.record)
  BY <1>1, WorkerFacts
<1>3. me \in WorkerStates /\ me.at = "report" /\ me.job = old.job /\ me.record = old.record
  BY <1>2 DEF WorkerStates
<1>4. workers' = [workers EXCEPT ![w] = me]
  BY <1>1
<1> HIDE DEF me
<1>5. RecordCovers(me.record) /\ BatchCovers(me)
  BY <1>2, <1>3 DEF BatchCovers
<1>6. old.record.last <= me.record.last
  BY <1>2, <1>3
<1>7. QED
  BY <1>1, <1>3, <1>4, <1>5, <1>6, WorkerMoves

LEMMA ReportStoppedKeeps ==
    ASSUME VerifierInv, NEW w \in Workers, ReportStopped(w)
    PROVE  VerifierInv' /\ jobs' = jobs
<1> USE DEF VerifierInv
<1> DEFINE j == workers[w].job
<1>1. /\ workers[w].at = "report" /\ stopped' = {j}
      /\ workers' = [workers EXCEPT ![w] = Resting]
      /\ UNCHANGED <<jobs, blobs, phase, running, cancelled, resuming, stopping>>
  BY DEF ReportStopped
<1>2. workers \in [Workers -> WorkerStates] /\ j \in Jobs /\ j \in running
  BY <1>1 DEF VerifierTypeOK, WorkerInv, WorkerStates
<1>3. /\ workers' \in [Workers -> WorkerStates]
      /\ workers'[w].at = "rest" /\ \A v \in Workers \ {w} : workers'[v] = workers[v]
  BY <1>1, <1>2, RestingType
<1>4. VerifierTypeOK'
  BY <1>1, <1>2, <1>3 DEF VerifierTypeOK, Channels
<1>5. JobsInv'
  BY <1>1, <1>2 DEF JobsInv, RecordCovers
<1>6. OneWorker'
  BY <1>3 DEF OneWorker
<1>7. ASSUME NEW v \in Workers PROVE WorkerInv(workers[v])'
  <2>1. CASE v = w
    BY <1>3, <2>1 DEF WorkerInv
  <2>2. CASE v # w
    <3>1. workers[v].at # "rest" => workers[v].job # j
      BY <1>1, <2>2 DEF OneWorker
    <3>2. QED
      BY <1>1, <1>3, <2>2, <3>1 DEF WorkerInv, RecordCovers, BatchCovers, Ahead, Beyond
  <2>3. QED
    BY <2>1, <2>2
<1>8. QED
  BY <1>1, <1>4, <1>5, <1>6, <1>7

(***************************************************************************)
(* The steps of the controller and of commands.                            *)
(***************************************************************************)
LEMMA TakeResumeKeeps ==
    ASSUME VerifierInv, TakeResume
    PROVE  VerifierInv' /\ jobs' = jobs
<1> USE DEF VerifierInv
<1>1. /\ resuming' = {} /\ UNCHANGED <<jobs, blobs, phase, cancelled, stopping, stopped>>
      /\ workers \in [Workers -> WorkerStates] /\ jobs \in [Jobs -> JobRecords]
      /\ resuming \subseteq Jobs
  BY DEF TakeResume, VerifierTypeOK, Channels
<1>2. CASE UNCHANGED <<running, workers>>
  BY <1>1, <1>2 DEF VerifierTypeOK, Channels, JobsInv, OneWorker, WorkerInv, RecordCovers, BatchCovers,
     Ahead, Beyond
<1>3. ASSUME NEW j \in resuming \ running, NEW w \in Workers, workers[w].at = "rest",
             running' = running \union {j},
             workers' = [workers EXCEPT ![w] = [Resting EXCEPT !.at = "fetch", !.job = j, !.record = jobs[j]]]
      PROVE  VerifierInv'
  <2> DEFINE me == [Resting EXCEPT !.at = "fetch", !.job = j, !.record = jobs[j]]
  <2>1. me \in WorkerStates /\ me.at = "fetch" /\ me.job = j /\ me.record = jobs[j]
    BY <1>1, RestingType DEF WorkerStates
  <2>2. /\ workers' \in [Workers -> WorkerStates]
        /\ workers'[w] = me /\ \A v \in Workers \ {w} : workers'[v] = workers[v]
    BY <1>1, <1>3, <2>1
  <2> HIDE DEF me
  <2>3. VerifierTypeOK'
    BY <1>1, <1>3, <2>2 DEF VerifierTypeOK, Channels
  <2>4. JobsInv'
    BY <1>1, <1>3 DEF JobsInv, RecordCovers
  <2>5. \A v \in Workers : workers[v].at # "rest" => workers[v].job # j
    BY <1>3 DEF WorkerInv
  <2>6. OneWorker'
    BY <2>1, <2>2, <2>5 DEF OneWorker
  <2>7. ASSUME NEW v \in Workers PROVE WorkerInv(workers[v])'
    <3>1. CASE v = w
      <4>1. jobs[j].last \in Int /\ 0 <= jobs[j].last /\ RecordCovers(jobs[j]) /\ j \notin stopped
        BY <1>1, <1>3, VerifierAssumption DEF JobsInv, JobRecords
      <4>2. QED
        BY <1>1, <1>3, <2>1, <2>2, <3>1, <4>1 DEF WorkerInv, RecordCovers, BatchCovers
    <3>2. CASE v # w
      BY <1>1, <1>3, <2>2, <3>2 DEF WorkerInv, RecordCovers, BatchCovers, Ahead, Beyond
    <3>3. QED
      BY <3>1, <3>2
  <2>8. QED
    BY <2>3, <2>4, <2>6, <2>7
<1>4. QED
  BY <1>1, <1>2, <1>3 DEF TakeResume

LEMMA HandleStoppedKeeps ==
    ASSUME VerifierInv, HandleStopped
    PROVE  VerifierInv' /\ jobs' = jobs
<1> USE DEF VerifierInv
<1>1. /\ stopped' = {} /\ running' = running \ stopped /\ cancelled' = cancelled \ stopped
      /\ UNCHANGED <<jobs, blobs, phase, resuming, stopping, workers>>
  BY DEF HandleStopped
<1>2. VerifierTypeOK'
  BY <1>1 DEF VerifierTypeOK, Channels
<1>3. JobsInv' /\ OneWorker'
  BY <1>1 DEF JobsInv, OneWorker, RecordCovers
<1>4. \A w \in Workers : WorkerInv(workers[w])'
  BY <1>1 DEF WorkerInv, RecordCovers, BatchCovers, Ahead, Beyond
<1>5. QED
  BY <1>1, <1>2, <1>3, <1>4

LEMMA OthersKeep ==
    ASSUME VerifierInv,
           \/ TakeStopRequest \/ ContextDone \/ Return \/ UNCHANGED verifierVars
           \/ \E j \in Jobs : Resume(j) \/ Stop(j)
           \/ \E b \in Refs : BlobArrives(b)
    PROVE  VerifierInv' /\ jobs' = jobs
<1> USE DEF VerifierInv
<1>1. /\ UNCHANGED <<jobs, running, stopped, workers>>
      /\ resuming' = resuming \/ \E j \in Jobs : jobs[j] # NoJob /\ resuming' = {j}
      /\ blobs' = blobs \/ \E b \in Refs : blobs' \in {[blobs EXCEPT ![b] = v] : v \in {"elsewhere", "here"}}
      /\ \A b \in Refs : blobs[b] = "here" => blobs'[b] = "here"
      /\ cancelled' \subseteq running
      /\ phase' \in {"running", "draining", "returned"}
      /\ stopping' \in Channels
  BY DEF TakeStopRequest, ContextDone, Return, verifierVars, controlVars, Resume, Stop, BlobArrives,
     VerifierTypeOK, Channels
<1>2. resuming' \in Channels /\ blobs' \in [Refs -> {"nowhere", "elsewhere", "here"}]
  BY <1>1 DEF VerifierTypeOK, Channels
<1>3. VerifierTypeOK'
  BY <1>1, <1>2 DEF VerifierTypeOK
<1>4. JobsInv'
  BY <1>1, VerifierAssumption DEF JobsInv, RecordCovers
<1>5. OneWorker' /\ \A w \in Workers : WorkerInv(workers[w])'
  BY <1>1 DEF OneWorker, WorkerInv, RecordCovers, BatchCovers, Ahead, Beyond
<1>6. QED
  BY <1>1, <1>3, <1>4, <1>5

LEMMA NewJobKeeps ==
    ASSUME VerifierInv, NEW j \in Jobs, VolumeVerifyIntegrity(j)
    PROVE  /\ VerifierInv'
           /\ \A i \in Jobs : jobs[i].last <= jobs'[i].last /\ jobs[i].errors \subseteq jobs'[i].errors
<1> USE DEF VerifierInv
<1>1. /\ jobs[j] = NoJob /\ jobs' = [jobs EXCEPT ![j] = NewJob]
      /\ UNCHANGED <<blobs, controlVars, workers>>
      /\ jobs \in [Jobs -> JobRecords]
  BY DEF VolumeVerifyIntegrity, VerifierTypeOK
<1>2. /\ NoJob.last = -1 /\ NoJob.errors = {}
      /\ NewJob \in JobRecords /\ NewJob.last = 0 /\ NewJob.errors = {} /\ ~NewJob.completed
  <2>1. NoJob \in JobRecords /\ NoJob.last = -1 /\ NoJob.errors = {} /\ ~NoJob.completed
    BY VerifierAssumption DEF NoJob, JobRecords
  <2>2. NewJob \in JobRecords /\ NewJob.last = 0 /\ NewJob.errors = {}
    BY <2>1, VerifierAssumption DEF NewJob, JobRecords
  <2>3. NewJob.completed = NoJob.completed
    BY <2>1 DEF NewJob, JobRecords
  <2>4. QED
    BY <2>1, <2>2, <2>3
<1>3. /\ jobs' \in [Jobs -> JobRecords]
      /\ jobs'[j] = NewJob /\ \A i \in Jobs \ {j} : jobs'[i] = jobs[i]
  BY <1>1, <1>2
<1>4. VerifierTypeOK'
  BY <1>1, <1>3 DEF VerifierTypeOK, controlVars
<1>5. Lasting \subseteq Refs /\ \A b \in Lasting : ~(b < 0)
  BY VerifierAssumption DEF Lasting, Refs
<1>6. RecordCovers(NewJob)
  BY <1>2, <1>5 DEF RecordCovers
<1>7. resuming \subseteq Jobs
  BY DEF VerifierTypeOK, Channels
<1>8. \A i \in Jobs : RecordCovers(jobs'[i]) /\ (jobs'[i] = NoJob \/ 0 <= jobs'[i].last)
  BY <1>2, <1>3, <1>6 DEF JobsInv
<1>9. \A i \in resuming : 0 <= jobs'[i].last
  BY <1>2, <1>3, <1>7 DEF JobsInv
<1>10. JobsInv'
  BY <1>1, <1>8, <1>9 DEF JobsInv, RecordCovers, controlVars
<1>11. OneWorker'
  BY <1>1 DEF OneWorker
<1>12. ASSUME NEW w \in Workers PROVE WorkerInv(workers[w])'
  <2>1. workers[w].at # "rest" => workers[w].job \in Jobs \ {j}
    BY <1>1, <1>2 DEF WorkerInv, VerifierTypeOK, WorkerStates
  <2>2. QED
    BY <1>1, <1>3, <2>1 DEF WorkerInv, RecordCovers, BatchCovers, Ahead, Beyond, controlVars
<1>13. \A i \in Jobs : jobs[i].last <= jobs'[i].last /\ jobs[i].errors \subseteq jobs'[i].errors
  BY <1>1, <1>2, <1>3, VerifierAssumption DEF JobRecords
<1>14. QED
  BY <1>4, <1>10, <1>11, <1>12, <1>13

LEMMA NewProcessKeeps ==
    ASSUME VerifierInv, NewProcess
    PROVE  VerifierInv' /\ jobs' = jobs
<1>1. /\ workers' \in [Workers -> WorkerStates]
      /\ \A w \in Workers : workers'[w].at = "rest"
  BY RestingType DEF NewProcess
<1>2. VerifierTypeOK'
  BY <1>1 DEF NewProcess, VerifierInv, VerifierTypeOK, Channels
<1>3. JobsInv' /\ OneWorker'
  BY <1>1 DEF NewProcess, VerifierInv, JobsInv, OneWorker, RecordCovers
<1>4. \A w \in Workers : WorkerInv(workers[w])'
  BY <1>1 DEF WorkerInv
<1>5. QED
  BY <1>2, <1>3, <1>4 DEF VerifierInv, NewProcess

(***************************************************************************)
(* Together.                                                               *)
(***************************************************************************)
LEMMA VerifierInitially == VerifierInit => VerifierInv
<1> SUFFICES ASSUME VerifierInit PROVE VerifierInv
  OBVIOUS
<1>1. workers \in [Workers -> WorkerStates] /\ \A w \in Workers : workers[w].at = "rest"
  BY RestingType DEF VerifierInit
<1>2. NoJob \in JobRecords /\ NoJob.last = -1 /\ ~NoJob.completed
  BY VerifierAssumption DEF NoJob, JobRecords
<1>3. \A b \in Lasting : ~(b < -1)
  BY VerifierAssumption DEF Lasting, Refs
<1>4. RecordCovers(NoJob)
  BY <1>2, <1>3 DEF RecordCovers
<1>5. VerifierTypeOK
  BY <1>1, <1>2 DEF VerifierInit, VerifierTypeOK, Channels
<1>6. JobsInv
  BY <1>4, VerifierAssumption DEF VerifierInit, JobsInv
<1>7. OneWorker /\ \A w \in Workers : WorkerInv(workers[w])
  BY <1>1 DEF OneWorker, WorkerInv
<1>8. QED
  BY <1>5, <1>6, <1>7 DEF VerifierInv

LEMMA VerifierStep ==
    ASSUME VerifierInv, [VerifierNext]_verifierVars
    PROVE  /\ VerifierInv'
           /\ \A j \in Jobs : jobs[j].last <= jobs'[j].last /\ jobs[j].errors \subseteq jobs'[j].errors
<1>1. \A j \in Jobs : jobs[j].last <= jobs[j].last
  BY VerifierAssumption DEF VerifierInv, VerifierTypeOK, JobRecords
<1>2. ASSUME NEW j \in Jobs, VolumeVerifyIntegrity(j) \/ Resume(j) \/ Stop(j)
      PROVE  VerifierInv' /\ \A i \in Jobs : jobs[i].last <= jobs'[i].last /\ jobs[i].errors \subseteq jobs'[i].errors
  BY <1>1, <1>2, NewJobKeeps, OthersKeep
<1>3. CASE (\E b \in Refs : BlobArrives(b)) \/ UNCHANGED verifierVars
  BY <1>1, <1>3, OthersKeep
<1>4. CASE ControllerStep \/ ContextDone \/ Crash
  BY <1>1, <1>4, TakeResumeKeeps, HandleStoppedKeeps, OthersKeep, NewProcessKeeps
     DEF ControllerStep, StartAgain, Crash
<1>5. ASSUME NEW w \in Workers, WorkerStep(w)
      PROVE  VerifierInv' /\ \A i \in Jobs : jobs[i].last <= jobs'[i].last /\ jobs[i].errors \subseteq jobs'[i].errors
  BY <1>1, <1>5, FetchBatchKeeps, BatchFailsKeeps, NextBlobKeeps, ScrubKeeps, BatchDoneKeeps,
     SaveAtEndKeeps, ReportStoppedKeeps DEF WorkerStep
<1>6. QED
  BY <1>2, <1>3, <1>4, <1>5 DEF VerifierNext, CommandStep

LEMMA VerifierInvariant == VerifierSpec => []VerifierInv
<1>1. VerifierInv /\ [VerifierNext]_verifierVars => VerifierInv'
  BY VerifierStep
<1>2. QED
  BY <1>1, VerifierInitially, PTL DEF VerifierSpec

\* Types.
THEOREM VerifierTypeCorrect == VerifierSpec => []VerifierTypeOK
<1>1. VerifierInv => VerifierTypeOK
  BY DEF VerifierInv
<1>2. QED
  BY <1>1, VerifierInvariant, PTL

\* Through any stops, crashes and resumes, and wherever batches end: a job that
\* is completed has reported every damaged blob that was there all the time.
THEOREM ReportsAreComplete == VerifierSpec => []ReportComplete
<1>1. VerifierInv => ReportComplete
  BY DEF VerifierInv, JobsInv, RecordCovers, Lasting, ReportComplete
<1>2. QED
  BY <1>1, VerifierInvariant, PTL

\* A job's saved progress never goes back and a reported error never goes away.
THEOREM ProgressIsKept == VerifierSpec => ProgressKept
<1>1. VerifierInv /\ [VerifierNext]_verifierVars =>
        [\A j \in Jobs : /\ jobs[j].last <= jobs'[j].last
                         /\ jobs[j].errors \subseteq jobs'[j].errors]_jobs
  BY VerifierStep
<1>2. QED
  BY <1>1, VerifierInvariant, PTL DEF VerifierSpec, ProgressKept

-----------------------------------------------------------------------------
\* MCBackground: side by side, each component keeps its own invariant.

BackgroundInv == ServerTypeOK /\ ChildInv /\ ConfigInv /\ VerifierInv /\ DatabaseInv

LEMMA OverStarts ==
    ASSUME ServerOver
    PROVE  ServerTypeOK /\ ChildInv /\ ConfigInv
BY DEF ServerOver, ServerTypeOK, ChildInv, ConfigInv

LEMMA BackgroundStarts ==
    ASSUME BackgroundInit
    PROVE  BackgroundInv
BY ServerStarts, OverStarts, VerifierInitially, DatabaseStart DEF BackgroundInit, BackgroundInv

\* A step of one of them is a step or a stutter of each.
LEMMA StepsOfEach ==
    ASSUME [BackgroundNext]_allBackground
    PROVE  /\ [ServerNext]_serverVars
           /\ [VerifierNext]_verifierVars
           /\ [DatabaseNext]_databaseVars
<1>1. CASE UNCHANGED allBackground
  BY <1>1 DEF allBackground
<1>2. CASE ServerNext /\ Others("server")
  BY <1>2 DEF Others
<1>3. CASE VerifierNext /\ Others("verifier")
  BY <1>3 DEF Others
<1>4. CASE DatabaseNext /\ Others("database")
  BY <1>4 DEF Others
<1> QED BY <1>1, <1>2, <1>3, <1>4 DEF BackgroundNext

LEMMA BackgroundStep ==
    ASSUME BackgroundInv, [BackgroundNext]_allBackground
    PROVE  BackgroundInv'
BY StepsOfEach, ServerStep, VerifierStep, DatabaseStep DEF BackgroundInv

\* All components keep their types side by side: none of them has a variable of
\* another's.
THEOREM BackgroundTypeCorrect == BackgroundSpec => []BackgroundTypeOK
<1>1. BackgroundInit => BackgroundInv
  BY BackgroundStarts
<1>2. BackgroundInv /\ [BackgroundNext]_allBackground => BackgroundInv'
  BY BackgroundStep
<1>3. BackgroundInv => BackgroundTypeOK
  BY DEF BackgroundInv, VerifierInv, DatabaseInv, BackgroundTypeOK
<1> QED BY <1>1, <1>2, <1>3, PTL DEF BackgroundSpec
=============================================================================
