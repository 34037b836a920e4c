------------------------------ MODULE Deployment ------------------------------
(***************************************************************************)
(* The build that serves the household and the files of its database, as   *)
(* c1-deploy.sh and c1-rollback.sh change them on the NAS.                 *)
(*                                                                         *)
(* A script is a state machine, one action per command that changes a      *)
(* file or the container.  It may break off before any of them: it runs    *)
(* under `set -e`, every command may fail, the NAS may lose power.  What a *)
(* script has stopped stays stopped.                                       *)
(*                                                                         *)
(* A database file is what the household has stored, as a number that      *)
(* every change makes anew, and the version of its schema.  Beside it may  *)
(* lie the write-ahead log of a server that was killed: what the log       *)
(* holds, and the content it belongs to.  The .env files, the loading of   *)
(* the image and the scripts' checks of their surroundings are left out;   *)
(* that one of them fails is Abort.                                        *)
(***************************************************************************)
EXTENDS Integers, Sequences

CONSTANTS
  Backup,          \* directories of backups, one for each run of c1-deploy.sh
  MaxWrites,       \* bound of what the household stores
  RepeatsRollback  \* is a rollback that broke off run again before anything else?

ASSUME DeployAssumption == MaxWrites \in Nat \ {0} /\ RepeatsRollback \in BOOLEAN

VARIABLES
  server,     \* the build that runs, or Down
  compose,    \* the build that compose.yaml names
  main,       \* family-dashboard.db
  wal,        \* family-dashboard.db-wal
  backup,     \* backup[b]: what the directory holds
  script,     \* the script that runs and the command it has reached
  printed,    \* the backups a script has named as the ones to restore
  writes,     \* the last number given to a change
  due,        \* what the household has to find
  left        \* the content of e3 when c1 last took its place

deployVars ==
  <<server, compose, main, wal, backup, script, printed, writes, due, left>>

-----------------------------------------------------------------------------
Build == {"e3", "c1"}
Down == "down"

\* The last schema a build knows.
Schema == [e3 |-> 3, c1 |-> 4]

Content == [stored : 0..MaxWrites, schema : {3, 4}]
None == [stored |-> -1, schema |-> 0]      \* no such file
Torn == [stored |-> -2, schema |-> 0]      \* a log replayed into another file
NoWal == [base |-> None, holds |-> None]
Wal == [base : Content, holds : Content]

\* What SQLite finds in a file and its log; a log without its file is deleted.
Found(m, w) ==
  IF m = None \/ w = NoWal THEN m ELSE IF w.base = m THEN w.holds ELSE Torn

\* Mutant: a database that exists is not migrated.
InitializedOnce(build) ==
  IF main = None THEN [stored |-> 0, schema |-> Schema[build]] ELSE Found(main, wal)

\* Open and initialize: one transaction that creates what is missing of the schema
\* and keeps what the tables hold.  A file that is missing is created, empty.
Initialized(build) ==
  LET content == IF Found(main, wal) = None THEN [stored |-> 0, schema |-> 0]
                 ELSE Found(main, wal) IN
  [content EXCEPT !.schema = IF @ < Schema[build] THEN Schema[build] ELSE @]

NoBackup == [compose |-> "none", main |-> None, wal |-> NoWal]
Saved(b) == Found(backup[b].main, backup[b].wal)

-----------------------------------------------------------------------------
\* No script runs; a rollback broke off with the service stopped; a script runs.
Idle == [run |-> "none"]
Broken == [run |-> "broken"]
Running(run, at, b) == [run |-> run, at |-> at, backup |-> b]
Unhindered == script.run = "none" \/ (script.run = "broken" /\ ~RepeatsRollback)

\* Mutant: the service is stopped only for the exchange of the image.
LateStop ==
  <<"copy_compose", "copy_main", "copy_wal", "stop", "replace_compose", "check", "up">>

\* The commands of the two scripts, in their order.
DeployCommands ==
  <<"stop", "copy_compose", "copy_main", "copy_wal", "replace_compose", "check", "up">>
RollbackCommands ==
  <<"stop", "restore_compose", "remove", "restore_main", "restore_wal", "up">>

Commands(run) == IF run = "deploy" THEN DeployCommands ELSE RollbackCommands

\* The script is at this command, and goes on to the next.
At(command) == script.run \in {"deploy", "rollback"} /\ script.at = command
Continue ==
  LET commands == Commands(script.run)
      i == CHOOSE j \in DOMAIN commands : commands[j] = script.at IN
  script' = [script EXCEPT !.at = commands[i + 1]]

DeployInit ==
  /\ server = "e3" /\ compose = "e3"
  /\ main = [stored |-> 1, schema |-> 3] /\ wal = NoWal
  /\ backup = [b \in Backup |-> NoBackup]
  /\ script = Idle /\ printed = {}
  /\ writes = 1 /\ due = 1 /\ left = main

-----------------------------------------------------------------------------
\* The household stores something; it reaches the log first, and the file when
\* SQLite copies the log into it.
Store(checkpointed) ==
  LET content == [Found(main, wal) EXCEPT !.stored = writes + 1] IN
  /\ server # Down /\ writes < MaxWrites
  /\ writes' = writes + 1 /\ due' = writes + 1
  /\ main' = IF checkpointed THEN content ELSE main
  /\ wal' = IF checkpointed THEN NoWal ELSE [base |-> main, holds |-> content]
  /\ UNCHANGED <<server, compose, backup, script, printed, left>>

\* The container of compose.yaml starts and opens the database.
Serve ==
  /\ server' = compose
  /\ main' = Initialized(compose) /\ wal' = NoWal

\* Somebody starts a service that a script has left stopped.
StartByHand ==
  /\ server = Down
  /\ Unhindered
  /\ Serve
  /\ UNCHANGED <<compose, backup, script, printed, writes, due, left>>

\* c1-deploy.sh makes its directory; the script does not see what an earlier run
\* has left behind.
BeginDeploy(b) ==
  /\ Unhindered
  /\ backup[b] = NoBackup
  /\ script' = Running("deploy", DeployCommands[1], b)
  /\ UNCHANGED <<server, compose, main, wal, backup, printed, writes, due, left>>

\* c1-rollback.sh, with a path that a deployment has printed, as the README of the
\* scripts demands; the directory must hold compose.yaml and a database.
BeginRollback(b) ==
  /\ script.run \in {"none", "broken"}
  /\ b \in printed
  /\ backup[b].compose \in Build /\ backup[b].main # None
  /\ script' = Running("rollback", RollbackCommands[1], b)
  /\ UNCHANGED <<server, compose, main, wal, backup, printed, writes, due, left>>

\* The script breaks off.  A rollback that leaves the service stopped is to be
\* repeated.
Abort ==
  /\ script.run \in {"deploy", "rollback"}
  /\ script' = IF script.run = "rollback" /\ server = Down THEN Broken ELSE Idle
  /\ UNCHANGED <<server, compose, main, wal, backup, printed, writes, due, left>>

\* compose stop.  A server that ends in time closes its database, which copies the
\* log into the file; one that is killed leaves both.
StopService(closes) ==
  LET content == Found(main, wal) IN
  /\ At("stop")
  /\ server' = Down
  /\ IF server # Down /\ closes THEN main' = content /\ wal' = NoWal
     ELSE UNCHANGED <<main, wal>>
  /\ due' = IF script.run = "rollback" THEN Saved(script.backup).stored ELSE due
  /\ Continue
  /\ UNCHANGED <<compose, backup, printed, writes, left>>

\* c1-deploy.sh copies what there is to its directory.
CopyToBackup(command, field, file) ==
  /\ At(command)
  /\ backup' = [backup EXCEPT ![script.backup][field] = file]
  /\ Continue
  /\ UNCHANGED <<server, compose, main, wal, printed, writes, due, left>>

CopyCompose == CopyToBackup("copy_compose", "compose", compose)
CopyMain == CopyToBackup("copy_main", "main", main)
CopyWal == CopyToBackup("copy_wal", "wal", wal)

ReplaceCompose ==
  /\ At("replace_compose")
  /\ compose' = "c1"
  /\ left' = IF compose = "e3" THEN Found(main, wal) ELSE left
  /\ Continue
  /\ UNCHANGED <<server, main, wal, backup, printed, writes, due>>

\* --check-db in a container of its own: it opens the database like a server, then
\* checks it.  A failure, before or after the migration, ends the script, which
\* prints its backup.
CheckDatabase(migrated, passed) ==
  /\ At("check")
  /\ passed => migrated
  /\ IF migrated THEN main' = Initialized(compose) /\ wal' = NoWal
     ELSE UNCHANGED <<main, wal>>
  /\ IF passed THEN Continue /\ UNCHANGED printed
     ELSE script' = Idle /\ printed' = printed \cup {script.backup}
  /\ UNCHANGED <<server, compose, backup, writes, due, left>>

\* compose up -d, and the last words of the script.
Up ==
  /\ At("up")
  /\ Serve
  /\ script' = Idle
  /\ printed' = printed \cup {script.backup}
  /\ UNCHANGED <<compose, backup, writes, due, left>>

\* c1-rollback.sh puts compose.yaml back.
RestoreCompose ==
  /\ At("restore_compose")
  /\ compose' = backup[script.backup].compose
  /\ Continue
  /\ UNCHANGED <<server, main, wal, backup, printed, writes, due, left>>

\* Mutant: the log stays.
FileRemoved == main' = None /\ UNCHANGED wal

\* rm -f of the file and its log.
FilesRemoved == main' = None /\ wal' = NoWal

RemoveDatabase ==
  /\ At("remove")
  /\ FilesRemoved
  /\ Continue
  /\ UNCHANGED <<server, compose, backup, printed, writes, due, left>>

RestoreMain ==
  /\ At("restore_main")
  /\ main' = backup[script.backup].main
  /\ Continue
  /\ UNCHANGED <<server, compose, wal, backup, printed, writes, due, left>>

\* The log is restored if the backup has one.
RestoreWal ==
  /\ At("restore_wal")
  /\ wal' = IF backup[script.backup].wal = NoWal THEN wal ELSE backup[script.backup].wal
  /\ Continue
  /\ UNCHANGED <<server, compose, main, backup, printed, writes, due, left>>

DeployNext ==
  \/ \E checkpointed \in BOOLEAN : Store(checkpointed)
  \/ StartByHand
  \/ \E b \in Backup : BeginDeploy(b) \/ BeginRollback(b)
  \/ Abort
  \/ \E closes \in BOOLEAN : StopService(closes)
  \/ CopyCompose \/ CopyMain \/ CopyWal \/ ReplaceCompose
  \/ \E migrated, passed \in BOOLEAN : CheckDatabase(migrated, passed)
  \/ Up
  \/ RestoreCompose \/ RemoveDatabase \/ RestoreMain \/ RestoreWal

DeploySpec == DeployInit /\ [][DeployNext]_deployVars

-----------------------------------------------------------------------------
\* The build, the files and the backups are what the scripts can make of them, and a
\* build never serves a schema it has not brought up to date.
DeployTypeOK ==
  /\ server \in Build \cup {Down} /\ compose \in Build
  /\ main \in Content \cup {None} /\ wal \in Wal \cup {NoWal}
  /\ backup \in [Backup -> [compose : Build \cup {"none"},
                            main : Content \cup {None}, wal : Wal \cup {NoWal}]]
  /\ script \in {Idle, Broken} \cup
       {Running(run, at, b) : run \in {"deploy", "rollback"},
          at \in {DeployCommands[i] : i \in DOMAIN DeployCommands}
                 \cup {RollbackCommands[i] : i \in DOMAIN RollbackCommands},
          b \in Backup}
  /\ printed \subseteq Backup /\ writes \in 1..MaxWrites
  /\ server # Down => main.schema >= Schema[server]

\* Whatever broke off and was run again: where c1 has taken the place of e3, some
\* backup holds compose.yaml of e3 with all that e3 had stored when c1 took its place,
\* in the schema of that time (c1-deploy.sh:23-42).
BackupKept ==
  compose = "c1" =>
    \E b \in Backup : backup[b].compose = "e3" /\ Saved(b) = left

\* The service, whichever build it is, works on what the household stored last, or
\* on what the backup held to which it was rolled back: never on an empty
\* database, and never on a file with the log of another one (c1-rollback.sh:40-52).
ServesWhatIsDue == server # Down => Found(main, wal).stored = due

=============================================================================
