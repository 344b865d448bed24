------------------------------ MODULE Database ------------------------------
(***************************************************************************)
(* The file of the metadata database: how a server that starts makes it, or *)
(* migrates it, or finds it unusable; how it is exported while it is being  *)
(* changed, and how an export is imported into a new file, a batch of       *)
(* records at a time. Server and import are processes that can be killed    *)
(* between any two commits. The file is locked by the one that runs.        *)
(***************************************************************************)
EXTENDS Integers, FiniteSets

CONSTANTS
    Records,    \* what is kept in the database, besides ...
    NodeRecord, \* ... what bootstrap makes: the node, its keys and the first client
    BatchSize,  \* an import commits every so many records
    Absent,     \* no file, no export, no transaction
    MaxMoves,   \* bound: how often the file is moved away
    MaxTokens   \* bound: how often a bootstrap gets to generate a token

AllRecords == Records \union {NodeRecord}

ASSUME DatabaseAssumption ==
    /\ NodeRecord \notin Records
    /\ BatchSize \in Nat \ {0} /\ MaxMoves \in Nat /\ MaxTokens \in Nat

CurrentSchemaVersion == 6
Migrations == 2..5      \* the versions there is a migration from
NoSchema   == -1        \* of a file without a bucket in it

VARIABLES
    file,       \* its schema version, records and the first client's token
    proc,       \* the process that has it open
    export,     \* what the export going on still reads, and has written
    backup,     \* the last export that was stored
    clientConf, \* the token in the configuration file of clients, 0 when there is none
    tokens,     \* how many tokens were generated
    moves,      \* how often the file was moved away
    past        \* history: every content a server had

databaseVars == <<file, proc, export, backup, clientConf, tokens, moves, past>>

Empty == [schema |-> NoSchema, records |-> {}, token |-> 0]
At(place) == [pc |-> place, token |-> 0, left |-> {}, tx |-> {}, used |-> 0]
NoProcess == At("none")

\* An import: the lines to read, the records of the transaction, records so far.
Importing(left, tx, used) ==
    [pc |-> "importing", token |-> 0, left |-> left, tx |-> tx, used |-> used]

OfVersion(v, R, token) == [schema |-> v, records |-> R, token |-> token]

Files   == [schema : {NoSchema} \union 0..CurrentSchemaVersion + 1, records : SUBSET AllRecords,
            token : 0..tokens]
Processes ==
    [pc : {"none", "boot", "bootstrap", "serving", "opened", "importing", "imported"},
     token : 0..tokens, left : SUBSET AllRecords, tx : SUBSET AllRecords, used : Nat]

DatabaseTypeOK ==
    /\ file = Absent \/ file \in Files
    /\ proc \in Processes
    /\ export = Absent \/ export \in [left : SUBSET AllRecords, done : SUBSET AllRecords]
    /\ backup = Absent \/ backup \in [schema : Nat, records : SUBSET AllRecords, token : 0..tokens]
    /\ clientConf \in 0..tokens
    /\ tokens \in 0..MaxTokens
    /\ moves \in 0..MaxMoves
    /\ past \subseteq SUBSET AllRecords

----------------------------------------------------------------------------
\* The server

ServerStart ==
    /\ proc = NoProcess
    /\ file' = IF file = Absent THEN Empty ELSE file
    /\ proc' = At("boot")
    /\ UNCHANGED <<export, backup, clientConf, tokens, moves, past>>

\* The migrations are one transaction, up to the current version.
Migrated(f) == [f EXCEPT !.schema = CurrentSchemaVersion]

Migratable(f) == f.schema \in Migrations \union {CurrentSchemaVersion}

\* A server that cannot read its configuration ends.
ReadConfigFromDatabase ==
    /\ proc.pc = "boot"
    /\ \/ /\ file.schema = NoSchema
          /\ proc' = At("bootstrap")
          /\ UNCHANGED <<file, past>>
       \/ /\ file.schema # NoSchema /\ ~Migratable(file)
          /\ proc' = NoProcess
          /\ UNCHANGED <<file, past>>
       \/ /\ Migratable(file)
          /\ file' = Migrated(file)
          /\ IF NodeRecord \in file.records
             THEN proc' = At("serving") /\ past' = past \union {file.records}
             ELSE proc' = NoProcess /\ UNCHANGED past
    /\ UNCHANGED <<export, backup, clientConf, tokens, moves>>

\* Bootstrap puts a new token into the configuration of clients, where there
\* is none yet, before it commits; a server killed in between starts over.
ConfigureClientConfig ==
    /\ proc = At("bootstrap")
    /\ tokens < MaxTokens
    /\ tokens' = tokens + 1
    /\ clientConf' = IF clientConf = 0 THEN tokens + 1 ELSE clientConf
    /\ proc' = [proc EXCEPT !.token = tokens + 1]
    /\ UNCHANGED <<file, export, backup, moves, past>>

Bootstrap ==
    /\ proc.pc = "bootstrap" /\ proc.token # 0
    /\ file' = OfVersion(CurrentSchemaVersion, {NodeRecord}, proc.token)
    /\ past' = past \union {file'.records}
    /\ proc' = At("serving")
    /\ UNCHANGED <<export, backup, clientConf, tokens, moves>>

\* Any command, as far as the file is concerned.
Command(R) ==
    /\ proc.pc = "serving"
    /\ NodeRecord \in R
    /\ file' = [file EXCEPT !.records = R]
    /\ past' = past \union {R}
    /\ UNCHANGED <<proc, export, backup, clientConf, tokens, moves>>

\* An export goes through one repository after the other, in any order, in one
\* read transaction. There is one backup at a time.
DatabaseBackup ==
    /\ proc.pc = "serving" /\ export = Absent
    /\ export' = [left |-> file.records, done |-> {}]
    /\ UNCHANGED <<file, proc, backup, clientConf, tokens, moves, past>>

ExportRepo(R) ==
    /\ proc.pc = "serving" /\ export # Absent
    /\ R # {} /\ R \subseteq export.left
    /\ export' = [left |-> export.left \ R, done |-> export.done \union R]
    /\ UNCHANGED <<file, proc, backup, clientConf, tokens, moves, past>>

StoreBackup ==
    /\ proc.pc = "serving" /\ export # Absent
    /\ export.left = {}
    /\ backup' = [schema |-> CurrentSchemaVersion, records |-> export.done, token |-> file.token]
    /\ export' = Absent
    /\ UNCHANGED <<file, proc, clientConf, tokens, moves, past>>

----------------------------------------------------------------------------
\* Importing an export into a file that does not exist

ImportOpens ==
    /\ proc = NoProcess
    /\ file = Absent /\ backup # Absent
    /\ file' = Empty
    /\ proc' = At("opened")
    /\ UNCHANGED <<export, backup, clientConf, tokens, moves, past>>

\* The repositories are made and committed before the header is looked at,
\* which ends the import when it is of another schema version.
BootstrapRepos ==
    /\ proc.pc = "opened"
    /\ file' = OfVersion(CurrentSchemaVersion, {}, 0)
    /\ proc' = IF backup.schema = CurrentSchemaVersion
               THEN Importing(backup.records, {}, 0)
               ELSE NoProcess
    /\ UNCHANGED <<export, backup, clientConf, tokens, moves, past>>

Committed(R) ==
    OfVersion(file.schema, file.records \union R,
              IF NodeRecord \in R THEN backup.token ELSE file.token)

\* withTx: a record opens a transaction of its own when it is its turn to
\* commit those before it.
ImportRecord(r) ==
    LET used  == proc.used + 1
        turns == used % BatchSize = 0
    IN /\ proc.pc = "importing"
       /\ r \in proc.left
       /\ file' = IF turns THEN Committed(proc.tx) ELSE file
       /\ proc' = Importing(proc.left \ {r}, IF turns THEN {r} ELSE proc.tx \union {r}, used)
       /\ UNCHANGED <<export, backup, clientConf, tokens, moves, past>>

ImportEnds_WithoutCommit ==
    /\ proc.pc = "importing" /\ proc.left = {}
    /\ proc' = At("imported")
    /\ UNCHANGED <<file, export, backup, clientConf, tokens, moves, past>>

ImportEnds ==
    /\ proc.pc = "importing" /\ proc.left = {}
    /\ file' = Committed(proc.tx)
    /\ proc' = At("imported")
    /\ UNCHANGED <<export, backup, clientConf, tokens, moves, past>>

----------------------------------------------------------------------------
\* A process ends or is killed, an import also for a line it cannot read: what
\* is not committed is gone, and no backup is stored.
ProcessEnds ==
    /\ proc # NoProcess
    /\ proc' = NoProcess
    /\ export' = Absent
    /\ UNCHANGED <<file, backup, clientConf, tokens, moves, past>>

\* What an import that finds a file asks for.
MoveAway ==
    /\ proc = NoProcess /\ file # Absent
    /\ moves < MaxMoves /\ moves' = moves + 1
    /\ file' = Absent
    /\ UNCHANGED <<proc, export, backup, clientConf, tokens, past>>

\* There is no database, or one of some version, and maybe a backup of it.
DatabaseInit ==
    /\ file \in {Absent} \union {OfVersion(v, {NodeRecord}, 0) : v \in 0..CurrentSchemaVersion + 1}
    /\ backup \in IF file = Absent THEN {Absent}
                  ELSE {Absent, [schema |-> file.schema, records |-> file.records, token |-> 0]}
    /\ past = IF file = Absent THEN {} ELSE {file.records}
    /\ proc = NoProcess /\ export = Absent
    /\ clientConf = 0 /\ tokens = 0 /\ moves = 0

DatabaseNext ==
    \/ ServerStart \/ ReadConfigFromDatabase
    \/ ConfigureClientConfig \/ Bootstrap
    \/ \E R \in SUBSET AllRecords : Command(R) \/ ExportRepo(R)
    \/ DatabaseBackup \/ StoreBackup
    \/ ImportOpens \/ BootstrapRepos \/ ImportEnds
    \/ \E r \in AllRecords : ImportRecord(r)
    \/ ProcessEnds \/ MoveAway

DatabaseSpec == DatabaseInit /\ [][DatabaseNext]_databaseVars

----------------------------------------------------------------------------
\* Properties

\* An import that says it is done restored what the database was at one time,
\* every record of it and no other, however its batches and the commands the
\* export ran beside were.
ImportRestoresThePast ==
    proc.pc = "imported" => file.records \in past /\ file.records = backup.records
=============================================================================
