----------------------------- MODULE MCBackground -----------------------------
(***************************************************************************)
(* An instance, for TLC, of the components that work beside the requests:  *)
(* the server's runs and its child process, the integrity verifier, and    *)
(* the database file.  They do not depend on each other, so each behaviour *)
(* is one of one of them, the subject, while the others stay as they were; *)
(* the state space is the sum of theirs.                                   *)
(***************************************************************************)
EXTENDS Server, Verifier, Database

VARIABLE subject

Others(s) ==
  /\ subject' = subject
  /\ s # "server" => UNCHANGED serverVars
  /\ s # "verifier" => UNCHANGED verifierVars
  /\ s # "database" => UNCHANGED databaseVars

\* A server that has exited, of which nothing can move.
ServerOver ==
  /\ runner = "exited" /\ server = "stopped" /\ tasks = "none" /\ asked = FALSE
  /\ failing = FALSE /\ listening = FALSE
  /\ once = "unused" /\ stored = {} /\ loaded = {} /\ enabled = FALSE
  /\ handler = "none" /\ desired = FALSE /\ cmd = "nil" /\ exited = 0 /\ processes = 0
  /\ pc = [r \in Requests |-> "idle"]

BackgroundInit ==
  /\ subject \in {"server", "verifier", "database"}
  /\ IF subject = "server" THEN ServerInit ELSE ServerOver
  /\ VerifierInit
  /\ DatabaseInit
  /\ subject # "database" => file = Absent

BackgroundNext ==
  \/ subject = "server" /\ ServerNext /\ Others("server")
  \/ subject = "verifier" /\ VerifierNext /\ Others("verifier")
  \/ subject = "database" /\ DatabaseNext /\ Others("database")

allBackground == <<subject, serverVars, verifierVars, databaseVars>>

BackgroundSpec ==
  /\ BackgroundInit /\ [][BackgroundNext]_allBackground
  /\ ServerFairness /\ VerifierFairness

\* Types, of every component.
BackgroundTypeOK == ServerTypeOK /\ VerifierTypeOK /\ DatabaseTypeOK
=============================================================================
