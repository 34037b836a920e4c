--------------------------- MODULE DeploymentProofs ---------------------------
(***************************************************************************)
(* Theorems of Deployment, for any number of backups and changes of the    *)
(* data.  The inductive invariant says, for each command a script has      *)
(* reached, what the backup it writes or restores holds by then.           *)
(***************************************************************************)
EXTENDS Deployment, TLAPS

\* The log that lies beside a file is the log of this file.
Fits(m, w) == w # NoWal => w.base = m /\ w.holds.schema = m.schema
LogsFit == Fits(main, wal) /\ \A b \in Backup : Fits(backup[b].main, backup[b].wal)

\* The deployment that runs has still to write to b.
Copying(b) ==
  /\ script.run = "deploy" /\ script.backup = b
  /\ script.at \in {"stop", "copy_compose", "copy_main", "copy_wal"}

\* What a deployment has copied when it reaches a command.
DeploySteps ==
  script.run = "deploy" =>
    LET saved == backup[script.backup] IN
    /\ script.at \in {"stop", "copy_compose", "copy_main", "copy_wal",
                      "replace_compose", "check", "up"}
    /\ script.at \in {"stop", "copy_compose"} => saved = NoBackup
    /\ script.at = "copy_main" => saved = [NoBackup EXCEPT !.compose = compose]
    /\ script.at = "copy_wal" =>
         saved = [NoBackup EXCEPT !.compose = compose, !.main = main]
    /\ script.at = "replace_compose" =>
         saved = [compose |-> compose, main |-> main, wal |-> wal]
    /\ script.at \in {"check", "up"} => saved.compose \in Build
    /\ script.at \notin {"check", "up"} => script.backup \notin printed

\* What a rollback has restored when it reaches a command.
RollbackSteps ==
  script.run = "rollback" =>
    LET saved == backup[script.backup] IN
    /\ script.at \in {"stop", "restore_compose", "remove", "restore_main",
                      "restore_wal", "up"}
    /\ script.backup \in printed /\ saved.compose \in Build /\ saved.main # None
    /\ script.at = "restore_main" => main = None /\ wal = NoWal
    /\ script.at = "restore_wal" => main = saved.main /\ wal = NoWal
    /\ script.at = "up" => main = saved.main /\ wal = saved.wal

\* Behind its first command a script has the service stopped; a service that runs
\* has a database.
Stopped ==
  /\ script.run \in {"deploy", "rollback"} /\ script.at # "stop" => server = Down
  /\ server # Down => main # None

\* Once c1 has been there, one backup that no script will write again holds what
\* e3 left; every backup that a script has named has a compose.yaml.
Kept(b) == backup[b].compose = "e3" /\ Saved(b) = left /\ ~Copying(b)
LeftKept ==
  /\ \A b \in printed : backup[b].compose \in Build
  /\ compose = "c1" \/ (\E b \in Backup : backup[b].compose = "c1") =>
       \E b \in Backup : Kept(b)

Inv == DeployTypeOK /\ LogsFit /\ DeploySteps /\ RollbackSteps /\ Stopped /\ LeftKept

\* If a rollback that broke off is repeated before anything else: what the files
\* hold is due except while a rollback is under way, and then its backup is.
FilesAreDue ==
  /\ script.run \in {"none", "deploy"} \/ server # Down =>
       main # None /\ Found(main, wal).stored = due
  /\ script.run = "broken" => server = Down
  /\ \A b \in printed : backup[b].main # None
  /\ script.run = "deploy" /\ script.at \in {"check", "up"} =>
       backup[script.backup].main # None
  /\ script.run = "rollback" /\ script.at # "stop" => due = Saved(script.backup).stored

-----------------------------------------------------------------------------
(* What SQLite and the two scripts do, as the proofs use it. *)

\* The numbers of changes.
LEMMA Writes == MaxWrites \in Nat \ {0}
  BY DeployAssumption

\* No file is no content.
LEMMA NoContent == None \notin Content
  BY Writes DEF None, Content

\* A file and its own log are read as the file's content or the log's, and the
\* schema is the file's.
LEMMA FoundContent ==
  ASSUME NEW m \in Content \cup {None}, NEW w \in Wal \cup {NoWal}, Fits(m, w)
  PROVE  /\ m = None => w = NoWal /\ Found(m, w) = None
         /\ m # None => Found(m, w) \in Content /\ Found(m, w).schema = m.schema
  <1>1. CASE w = NoWal
    BY <1>1 DEF Found
  <1>2. CASE w # NoWal
    <2>1. w \in Wal /\ w.base = m /\ w.base \in Content /\ w.holds \in Content
          /\ w.holds.schema = m.schema
      BY <1>2 DEF Fits, Wal
    <2>2. m # None /\ Found(m, w) = w.holds
      BY <1>2, <2>1, NoContent DEF Found
    <2> QED  BY <2>1, <2>2
  <1> QED  BY <1>1, <1>2

\* A build that opens the database brings its schema up to date and keeps what is
\* stored.
LEMMA InitializedContent ==
  ASSUME DeployTypeOK, Fits(main, wal), NEW build \in Build
  PROVE  /\ Initialized(build) \in Content
         /\ Initialized(build).schema >= Schema[build]
         /\ main # None => Initialized(build).stored = Found(main, wal).stored
  <1> DEFINE c == IF Found(main, wal) = None THEN [stored |-> 0, schema |-> 0]
                  ELSE Found(main, wal)
             s == IF c.schema < Schema[build] THEN Schema[build] ELSE c.schema
  <1>1. /\ main \in Content \cup {None} /\ wal \in Wal \cup {NoWal}
    BY DEF DeployTypeOK
  <1>2. Schema[build] \in {3, 4}  BY DEF Build, Schema
  <1>3. c = [stored |-> 0, schema |-> 0] \/ c \in Content
    BY <1>1, FoundContent
  <1>4. c.stored \in 0..MaxWrites /\ c.schema \in {0, 3, 4}
        /\ c = [stored |-> c.stored, schema |-> c.schema]
    BY <1>3, Writes DEF Content
  <1>5. Initialized(build) = [c EXCEPT !.schema = s]
    BY DEF Initialized
  <1>6. main # None => c = Found(main, wal)
    BY <1>1, FoundContent, NoContent
  <1> HIDE DEF c
  <1>7. s \in {3, 4} /\ s >= Schema[build]  BY <1>2, <1>4
  <1> HIDE DEF s
  <1>8. Initialized(build) = [stored |-> c.stored, schema |-> s]
    BY <1>4, <1>5
  <1> QED  BY <1>4, <1>6, <1>7, <1>8 DEF Content

\* The command that follows another.
LEMMA ContinueDeploy ==
  ASSUME script.run = "deploy", Continue
  PROVE  /\ script.at = "stop" => script' = [script EXCEPT !.at = "copy_compose"]
         /\ script.at = "copy_compose" => script' = [script EXCEPT !.at = "copy_main"]
         /\ script.at = "copy_main" => script' = [script EXCEPT !.at = "copy_wal"]
         /\ script.at = "copy_wal" => script' = [script EXCEPT !.at = "replace_compose"]
         /\ script.at = "replace_compose" => script' = [script EXCEPT !.at = "check"]
         /\ script.at = "check" => script' = [script EXCEPT !.at = "up"]
  <1> DEFINE i == CHOOSE j \in DOMAIN DeployCommands : DeployCommands[j] = script.at
  <1>0. Commands(script.run) = DeployCommands
    BY DEF Commands
  <1>1. script' = [script EXCEPT !.at = DeployCommands[i + 1]]
    BY <1>0 DEF Continue
  <1>2. \A j \in 1..7 : DeployCommands[j] = script.at =>
          DeployCommands[i] = script.at /\ i \in 1..7
    <2>1. DOMAIN DeployCommands = 1..7  BY DEF DeployCommands
    <2> QED  BY <2>1
  <1> HIDE DEF i
  <1>3. /\ DeployCommands[1] = "stop" /\ DeployCommands[2] = "copy_compose"
        /\ DeployCommands[3] = "copy_main" /\ DeployCommands[4] = "copy_wal"
        /\ DeployCommands[5] = "replace_compose" /\ DeployCommands[6] = "check"
        /\ DeployCommands[7] = "up"
    BY DEF DeployCommands
  <1>4. /\ script.at = "stop" => i = 1
        /\ script.at = "copy_compose" => i = 2
        /\ script.at = "copy_main" => i = 3
        /\ script.at = "copy_wal" => i = 4
        /\ script.at = "replace_compose" => i = 5
        /\ script.at = "check" => i = 6
    BY <1>2, <1>3
  <1> QED  BY <1>1, <1>3, <1>4

LEMMA ContinueRollback ==
  ASSUME script.run = "rollback", Continue
  PROVE  /\ script.at = "stop" => script' = [script EXCEPT !.at = "restore_compose"]
         /\ script.at = "restore_compose" => script' = [script EXCEPT !.at = "remove"]
         /\ script.at = "remove" => script' = [script EXCEPT !.at = "restore_main"]
         /\ script.at = "restore_main" => script' = [script EXCEPT !.at = "restore_wal"]
         /\ script.at = "restore_wal" => script' = [script EXCEPT !.at = "up"]
  <1> DEFINE i == CHOOSE j \in DOMAIN RollbackCommands : RollbackCommands[j] = script.at
  <1>0. Commands(script.run) = RollbackCommands
    BY DEF Commands
  <1>1. script' = [script EXCEPT !.at = RollbackCommands[i + 1]]
    BY <1>0 DEF Continue
  <1>2. \A j \in 1..6 : RollbackCommands[j] = script.at =>
          RollbackCommands[i] = script.at /\ i \in 1..6
    <2>1. DOMAIN RollbackCommands = 1..6  BY DEF RollbackCommands
    <2> QED  BY <2>1
  <1> HIDE DEF i
  <1>3. /\ RollbackCommands[1] = "stop" /\ RollbackCommands[2] = "restore_compose"
        /\ RollbackCommands[3] = "remove" /\ RollbackCommands[4] = "restore_main"
        /\ RollbackCommands[5] = "restore_wal" /\ RollbackCommands[6] = "up"
    BY DEF RollbackCommands
  <1>4. /\ script.at = "stop" => i = 1
        /\ script.at = "restore_compose" => i = 2
        /\ script.at = "remove" => i = 3
        /\ script.at = "restore_main" => i = 4
        /\ script.at = "restore_wal" => i = 5
    BY <1>2, <1>3
  <1> QED  BY <1>1, <1>3, <1>4

\* The states of a script.
Commanded == {"stop", "copy_compose", "copy_main", "copy_wal", "replace_compose", "check",
              "up", "restore_compose", "remove", "restore_main", "restore_wal"}
Script == {Idle, Broken} \cup
  [run : {"deploy", "rollback"}, at : Commanded, backup : Backup]

LEMMA ScriptType ==
  Script = {Idle, Broken} \cup
       {Running(run, at, b) : run \in {"deploy", "rollback"},
          at \in {DeployCommands[i] : i \in DOMAIN DeployCommands}
                 \cup {RollbackCommands[i] : i \in DOMAIN RollbackCommands},
          b \in Backup}
  <1>1. {DeployCommands[i] : i \in DOMAIN DeployCommands}
          = {"stop", "copy_compose", "copy_main", "copy_wal", "replace_compose",
             "check", "up"}
    BY DEF DeployCommands
  <1>2. {RollbackCommands[i] : i \in DOMAIN RollbackCommands}
          = {"stop", "restore_compose", "remove", "restore_main", "restore_wal", "up"}
    BY DEF RollbackCommands
  <1> QED  BY <1>1, <1>2 DEF Script, Commanded, Running


\* The type invariant with the states of a script spelled out, before and after a step.
Files ==
  /\ server \in Build \cup {Down} /\ compose \in Build
  /\ main \in Content \cup {None} /\ wal \in Wal \cup {NoWal}
  /\ backup \in [Backup -> [compose : Build \cup {"none"},
                            main : Content \cup {None}, wal : Wal \cup {NoWal}]]
  /\ printed \subseteq Backup /\ writes \in 1..MaxWrites
  /\ server # Down => main.schema >= Schema[server]

LEMMA TypeParts ==
  /\ DeployTypeOK <=> Files /\ script \in Script
  /\ DeployTypeOK' <=> Files' /\ script' \in Script
  BY ScriptType DEF DeployTypeOK, Files

LEMMA BackupType ==
  ASSUME DeployTypeOK, NEW b \in Backup
  PROVE  /\ backup[b].compose \in Build \cup {"none"}
         /\ backup[b].main \in Content \cup {None}
         /\ backup[b].wal \in Wal \cup {NoWal}
         /\ backup[b] = [compose |-> backup[b].compose, main |-> backup[b].main,
                         wal |-> backup[b].wal]
  BY DEF DeployTypeOK

\* A script that runs has a command and a backup.
LEMMA ScriptFields ==
  ASSUME DeployTypeOK, script.run \in {"deploy", "rollback"}
  PROVE  /\ script.at \in Commanded /\ script.backup \in Backup
         /\ script = [run |-> script.run, at |-> script.at, backup |-> script.backup]
         /\ \A c \in Commanded :
              LET s == [script EXCEPT !.at = c] IN
              /\ s \in Script /\ s.run = script.run /\ s.at = c /\ s.backup = script.backup
  <1>1. script \in Script  BY TypeParts
  <1>2. script \in [run : {"deploy", "rollback"}, at : Commanded, backup : Backup]
    BY <1>1 DEF Script, Idle, Broken
  <1> QED  BY <1>2 DEF Script

LEMMA IdleType == Idle \in Script /\ Broken \in Script /\ Idle.run = "none" /\ Broken.run = "broken"
  BY DEF Script, Idle, Broken

-----------------------------------------------------------------------------
\* At the start e3 runs and there is no backup.
LEMMA InitInv == DeployInit => Inv /\ FilesAreDue
  <1> SUFFICES ASSUME DeployInit PROVE Inv /\ FilesAreDue
    OBVIOUS
  <1> USE DEF DeployInit
  <1>1. main \in Content /\ wal = NoWal /\ main # None
    BY Writes, NoContent DEF Content
  <1>2. DeployTypeOK
    <2>1. Files
      BY <1>1, Writes DEF Files, Build, Down, Schema, NoBackup
    <2> QED  BY <2>1, IdleType, TypeParts
  <1>3. LogsFit  BY <1>1 DEF LogsFit, Fits, NoBackup
  <1>4. DeploySteps /\ RollbackSteps /\ Stopped
    BY <1>1, IdleType DEF DeploySteps, RollbackSteps, Stopped
  <1>5. LeftKept  BY DEF LeftKept, NoBackup
  <1>6. FilesAreDue  BY <1>1, IdleType DEF FilesAreDue, Found
  <1> QED  BY <1>2, <1>3, <1>4, <1>5, <1>6 DEF Inv

\* A step that changes the files or the service while no script is behind its first
\* command.
LEMMA FilesStep ==
  ASSUME Inv, script.run \in {"none", "broken"} \/ script.at = "stop",
         UNCHANGED <<compose, backup, script, printed, left>>,
         main' \in Content, wal' \in Wal \cup {NoWal}, Fits(main', wal'),
         writes' \in 1..MaxWrites,
         server' \in Build, main'.schema >= Schema[server']
  PROVE  Inv'
  <1> USE DEF Inv
  <1>1. main' # None /\ script \in Script  BY NoContent, TypeParts
  <1>2. DeployTypeOK'
    BY <1>1, TypeParts DEF Files
  <1>3. LogsFit'  BY DEF LogsFit, Fits
  <1>4. DeploySteps'  BY <1>1 DEF DeploySteps, Script, Idle, Broken
  <1>5. RollbackSteps'  BY <1>1 DEF RollbackSteps, Script, Idle, Broken
  <1>6. Stopped'  BY <1>1 DEF Stopped, Script, Idle, Broken
  <1>7. LeftKept'  BY DEF LeftKept, Kept, Saved, Copying
  <1> QED  BY <1>2, <1>3, <1>4, <1>5, <1>6, <1>7

\* What the household stores is found by the build that runs.
LEMMA StoreStep ==
  ASSUME Inv, NEW checkpointed \in BOOLEAN, Store(checkpointed)
  PROVE  /\ Inv'
         /\ RepeatsRollback /\ FilesAreDue => FilesAreDue'
  <1> USE DEF Inv
  <1> DEFINE content == [Found(main, wal) EXCEPT !.stored = writes + 1]
  <1>1. /\ server # Down /\ writes' = writes + 1 /\ due' = writes + 1 /\ writes < MaxWrites
        /\ IF checkpointed THEN main' = content /\ wal' = NoWal
           ELSE main' = main /\ wal' = [base |-> main, holds |-> content]
        /\ UNCHANGED <<server, compose, backup, script, printed, left>>
    BY DEF Store
  <1>2. /\ main \in Content /\ Found(main, wal) \in Content
        /\ Found(main, wal).schema = main.schema
    BY <1>1, FoundContent DEF DeployTypeOK, LogsFit, Stopped
  <1>3. writes \in 1..MaxWrites /\ writes + 1 \in 1..MaxWrites
    BY <1>1, Writes DEF DeployTypeOK
  <1>4. content \in Content /\ content.schema = main.schema /\ content.stored = writes + 1
    BY <1>2, <1>3 DEF Content
  <1>5. main.schema >= Schema[server] /\ server \in Build
    BY <1>1 DEF DeployTypeOK
  <1> HIDE DEF content
  <1>6. /\ main' \in Content /\ wal' \in Wal \cup {NoWal} /\ Fits(main', wal')
        /\ main'.schema >= Schema[server']
    BY <1>1, <1>2, <1>4, <1>5 DEF Wal, Fits
  <1>7. script.run \in {"none", "broken"} \/ script.at = "stop"
    BY <1>1, TypeParts DEF Stopped, Script, Idle, Broken
  <1>8. Inv'
    BY <1>1, <1>3, <1>5, <1>6, <1>7, FilesStep
  <1>9. main' # None /\ Found(main', wal').stored = due'
    <2>1. wal' # NoWal => wal'.base = main' /\ wal'.holds = content
      BY <1>1
    <2>2. main' # None  BY <1>6, NoContent
    <2>3. wal' = NoWal => main' = content
      <3>1. [base |-> main, holds |-> content] # NoWal
        BY <1>2, NoContent DEF NoWal
      <3> QED  BY <1>1, <3>1
    <2> QED  BY <1>1, <1>4, <2>1, <2>2, <2>3 DEF Found
  <1>10. ASSUME RepeatsRollback, FilesAreDue PROVE FilesAreDue'
    BY <1>1, <1>7, <1>9, <1>10 DEF FilesAreDue, Saved, Stopped
  <1> QED  BY <1>8, <1>10

\* A service that is started finds what it had.
LEMMA StartByHandStep ==
  ASSUME Inv, StartByHand
  PROVE  /\ Inv'
         /\ RepeatsRollback /\ FilesAreDue => FilesAreDue'
  <1> USE DEF Inv
  <1>1. /\ main' = Initialized(compose) /\ wal' = NoWal /\ server' = compose
        /\ UNCHANGED <<compose, backup, script, printed, writes, due, left>>
        /\ script.run \in {"none", "broken"}
        /\ RepeatsRollback => script.run = "none"
    BY DEF StartByHand, Serve, Unhindered
  <1>2. /\ main' \in Content /\ main'.schema >= Schema[compose] /\ compose \in Build
        /\ main # None => main'.stored = Found(main, wal).stored
    BY <1>1, InitializedContent DEF LogsFit, DeployTypeOK
  <1>3. Inv'
    BY <1>1, <1>2, FilesStep DEF Fits, DeployTypeOK
  <1>4. Found(main', wal') = main' /\ main' # None
    BY <1>1, <1>2, NoContent DEF Found
  <1>5. ASSUME RepeatsRollback, FilesAreDue PROVE FilesAreDue'
    BY <1>1, <1>2, <1>4, <1>5 DEF FilesAreDue
  <1> QED  BY <1>3, <1>5

\* A script that begins has nothing behind it.
LEMMA BeginStep ==
  ASSUME Inv, NEW b \in Backup, BeginDeploy(b) \/ BeginRollback(b)
  PROVE  /\ Inv'
         /\ RepeatsRollback /\ FilesAreDue => FilesAreDue'
  <1> USE DEF Inv
  <1>1. UNCHANGED <<server, compose, main, wal, backup, printed, writes, due, left>>
    BY DEF BeginDeploy, BeginRollback
  <1>2. CASE BeginDeploy(b)
    <2>1. /\ backup[b] = NoBackup /\ script.run \in {"none", "broken"}
          /\ RepeatsRollback => script.run = "none"
          /\ script' = [run |-> "deploy", at |-> "stop", backup |-> b]
      BY <1>2 DEF BeginDeploy, Running, DeployCommands, Unhindered
    <2>2. backup[b].compose = "none" /\ b \notin printed
      BY <2>1 DEF NoBackup, LeftKept, Build
    <2>3. DeployTypeOK'
      BY <1>1, <2>1, TypeParts DEF Files, Script, Commanded
    <2>4. LogsFit' /\ RollbackSteps' /\ Stopped'
      BY <1>1, <2>1 DEF LogsFit, RollbackSteps, Stopped
    <2>5. DeploySteps'
      BY <1>1, <2>1, <2>2 DEF DeploySteps
    <2>6. \A x \in Backup : Kept(x) => Kept(x)'
      BY <1>1, <2>1, <2>2 DEF Kept, Saved, Copying
    <2>7. LeftKept'
      BY <1>1, <2>6 DEF LeftKept
    <2>8. ASSUME RepeatsRollback, FilesAreDue PROVE FilesAreDue'
      BY <1>1, <2>1, <2>8 DEF FilesAreDue
    <2> QED  BY <2>3, <2>4, <2>5, <2>7, <2>8
  <1>3. CASE BeginRollback(b)
    <2>1. /\ b \in printed /\ backup[b].compose \in Build /\ backup[b].main # None
          /\ script.run \in {"none", "broken"}
          /\ script' = [run |-> "rollback", at |-> "stop", backup |-> b]
      BY <1>3 DEF BeginRollback, Running, RollbackCommands
    <2>3. DeployTypeOK'
      BY <1>1, <2>1, TypeParts DEF Files, Script, Commanded
    <2>4. LogsFit' /\ DeploySteps' /\ Stopped'
      BY <1>1, <2>1 DEF LogsFit, DeploySteps, Stopped
    <2>5. RollbackSteps'
      BY <1>1, <2>1 DEF RollbackSteps
    <2>6. \A x \in Backup : Kept(x) => Kept(x)'
      BY <1>1, <2>1 DEF Kept, Saved, Copying
    <2>7. LeftKept'
      BY <1>1, <2>6 DEF LeftKept
    <2>8. ASSUME RepeatsRollback, FilesAreDue PROVE FilesAreDue'
      BY <1>1, <2>1, <2>8 DEF FilesAreDue
    <2> QED  BY <2>3, <2>4, <2>5, <2>7, <2>8
  <1> QED  BY <1>2, <1>3

\* A script that breaks off leaves everything where it is.
LEMMA AbortStep ==
  ASSUME Inv, Abort
  PROVE  /\ Inv'
         /\ RepeatsRollback /\ FilesAreDue => FilesAreDue'
  <1> USE DEF Inv
  <1>1. /\ UNCHANGED <<server, compose, main, wal, backup, printed, writes, due, left>>
        /\ script.run \in {"deploy", "rollback"}
        /\ script' = IF script.run = "rollback" /\ server = Down THEN Broken ELSE Idle
    BY DEF Abort
  <1>2. script' \in Script /\ script'.run \in {"none", "broken"}
        /\ (script'.run = "broken" <=> script.run = "rollback" /\ server = Down)
    BY <1>1, IdleType
  <1>3. DeployTypeOK'
    BY <1>1, <1>2, TypeParts DEF Files
  <1>4. LogsFit' /\ DeploySteps' /\ RollbackSteps' /\ Stopped'
    BY <1>1, <1>2 DEF LogsFit, DeploySteps, RollbackSteps, Stopped
  <1>5. \A x \in Backup : Kept(x) => Kept(x)'
    BY <1>1, <1>2 DEF Kept, Saved, Copying
  <1>6. LeftKept'
    BY <1>1, <1>5 DEF LeftKept
  <1>7. ASSUME RepeatsRollback, FilesAreDue PROVE FilesAreDue'
    BY <1>1, <1>2, <1>7 DEF FilesAreDue
  <1> QED  BY <1>3, <1>4, <1>6, <1>7

\* The service is stopped; a rollback that stops it makes its backup what is due.
LEMMA StopServiceStep ==
  ASSUME Inv, NEW closes \in BOOLEAN, StopService(closes)
  PROVE  /\ Inv'
         /\ RepeatsRollback /\ FilesAreDue => FilesAreDue'
  <1> USE DEF Inv
  <1> DEFINE b == script.backup
  <1>1. /\ script.run \in {"deploy", "rollback"} /\ script.at = "stop"
        /\ server' = Down /\ Continue
        /\ IF server # Down /\ closes THEN main' = Found(main, wal) /\ wal' = NoWal
           ELSE UNCHANGED <<main, wal>>
        /\ due' = IF script.run = "rollback" THEN Saved(b).stored ELSE due
        /\ UNCHANGED <<compose, backup, printed, writes, left>>
    BY DEF StopService, At
  <1>2. b \in Backup  BY <1>1, ScriptFields
  <1>3. /\ script' = [script EXCEPT
                        !.at = IF script.run = "deploy" THEN "copy_compose" ELSE "restore_compose"]
        /\ script' \in Script /\ script'.run = script.run /\ script'.backup = b
        /\ script'.at = IF script.run = "deploy" THEN "copy_compose" ELSE "restore_compose"
    <2>1. CASE script.run = "deploy"
      <3>1. script' = [script EXCEPT !.at = "copy_compose"]
        BY <1>1, <2>1, ContinueDeploy
      <3> QED  BY <1>1, <2>1, <3>1, ScriptFields DEF Commanded
    <2>2. CASE script.run = "rollback"
      <3>1. script' = [script EXCEPT !.at = "restore_compose"]
        BY <1>1, <2>2, ContinueRollback
      <3> QED  BY <1>1, <2>2, <3>1, ScriptFields DEF Commanded
    <2> QED  BY <1>1, <2>1, <2>2
  <1>4. /\ main' \in Content \cup {None} /\ wal' \in Wal \cup {NoWal} /\ Fits(main', wal')
        /\ Found(main', wal') = Found(main, wal)
        /\ main # None => main' # None
    <2>1. CASE server # Down /\ closes
      <3>1. main # None  BY <2>1 DEF Stopped
      <3>2. Found(main, wal) \in Content  BY <3>1, FoundContent DEF DeployTypeOK, LogsFit
      <3> QED  BY <1>1, <2>1, <3>2, NoContent DEF Found, Fits
    <2>2. CASE ~(server # Down /\ closes)
      BY <1>1, <2>2 DEF DeployTypeOK, LogsFit
    <2> QED  BY <2>1, <2>2
  <1>5. DeployTypeOK'
    BY <1>1, <1>3, <1>4, TypeParts DEF Files
  <1>6. LogsFit' /\ Stopped'
    BY <1>1, <1>4 DEF LogsFit, Stopped
  <1>7. DeploySteps' /\ RollbackSteps'
    BY <1>1, <1>3 DEF DeploySteps, RollbackSteps
  <1>8. \A x \in Backup : Kept(x) => Kept(x)'
    BY <1>1, <1>3 DEF Kept, Saved, Copying
  <1>9. LeftKept'
    BY <1>1, <1>8 DEF LeftKept
  <1>10. ASSUME RepeatsRollback, FilesAreDue PROVE FilesAreDue'
    BY <1>1, <1>3, <1>4, <1>10 DEF FilesAreDue, Saved
  <1> QED  BY <1>5, <1>6, <1>7, <1>9, <1>10

\* A deployment copies one file after the other to a directory nobody relies on yet.
LEMMA CopyStep ==
  ASSUME Inv, CopyCompose \/ CopyMain \/ CopyWal
  PROVE  /\ Inv'
         /\ RepeatsRollback /\ FilesAreDue => FilesAreDue'
  <1> USE DEF Inv
  <1> DEFINE b == script.backup
  <1>1. /\ script.run \in {"deploy", "rollback"} /\ Continue
        /\ script.at \in {"copy_compose", "copy_main", "copy_wal"}
        /\ UNCHANGED <<server, compose, main, wal, printed, writes, due, left>>
    BY DEF CopyCompose, CopyMain, CopyWal, CopyToBackup, At
  <1>2. script.run = "deploy" /\ b \in Backup /\ b \notin printed
    BY <1>1, ScriptFields DEF RollbackSteps, DeploySteps
  <1>3. /\ script.at = "copy_compose" =>
             backup' = [backup EXCEPT ![b].compose = compose]
        /\ script.at = "copy_main" => backup' = [backup EXCEPT ![b].main = main]
        /\ script.at = "copy_wal" => backup' = [backup EXCEPT ![b].wal = wal]
    BY DEF CopyCompose, CopyMain, CopyWal, CopyToBackup, At
  <1>4. /\ script.at = "copy_compose" => backup[b] = NoBackup
        /\ script.at = "copy_main" => backup[b] = [NoBackup EXCEPT !.compose = compose]
        /\ script.at = "copy_wal" =>
             backup[b] = [NoBackup EXCEPT !.compose = compose, !.main = main]
    BY <1>1, <1>2 DEF DeploySteps
  <1> DEFINE new == CASE script.at = "copy_compose" -> [NoBackup EXCEPT !.compose = compose]
                      [] script.at = "copy_main" ->
                           [NoBackup EXCEPT !.compose = compose, !.main = main]
                      [] OTHER -> [compose |-> compose, main |-> main, wal |-> wal]
             at == CASE script.at = "copy_compose" -> "copy_main"
                     [] script.at = "copy_main" -> "copy_wal"
                     [] OTHER -> "replace_compose"
  <1>5. /\ backup' = [backup EXCEPT ![b] = new]
        /\ new \in [compose : Build, main : Content \cup {None}, wal : Wal \cup {NoWal}]
        /\ Fits(new.main, new.wal)
    <2>1. CASE script.at = "copy_compose"
      <3>1. new = [compose |-> compose, main |-> None, wal |-> NoWal]
        BY <2>1 DEF NoBackup
      <3> QED  BY <2>1, <3>1, <1>2, <1>3, <1>4 DEF DeployTypeOK, Fits, NoBackup
    <2>2. CASE script.at = "copy_main"
      <3>1. new = [compose |-> compose, main |-> main, wal |-> NoWal]
        BY <2>2 DEF NoBackup
      <3> QED  BY <2>2, <3>1, <1>2, <1>3, <1>4 DEF DeployTypeOK, Fits, NoBackup
    <2>3. CASE script.at = "copy_wal"
      <3>1. new = [compose |-> compose, main |-> main, wal |-> wal]
        BY <2>3
      <3>2. backup[b] = [compose |-> compose, main |-> main, wal |-> NoWal]
        BY <2>3, <1>4 DEF NoBackup
      <3>3. [backup[b] EXCEPT !.wal = wal] = new
        BY <3>1, <3>2
      <3>4. backup' = [backup EXCEPT ![b] = new]
        BY <2>3, <3>3, <1>2, <1>3 DEF DeployTypeOK
      <3>5. /\ main \in Content \cup {None} /\ wal \in Wal \cup {NoWal}
            /\ compose \in Build /\ Fits(main, wal)
        BY DEF DeployTypeOK, LogsFit
      <3> HIDE DEF new
      <3> QED  BY <3>1, <3>4, <3>5
    <2> QED  BY <1>1, <2>1, <2>2, <2>3
  <1>6. /\ script' \in Script /\ script'.run = "deploy" /\ script'.backup = b /\ script'.at = at
    <2>1. script' = [script EXCEPT !.at = at]
      BY <1>1, <1>2, ContinueDeploy
    <2>2. at \in Commanded  BY DEF Commanded
    <2> HIDE DEF at
    <2> QED  BY <1>1, <1>2, <2>1, <2>2, ScriptFields
  <1>7. /\ backup' \in [Backup -> [compose : Build \cup {"none"}, main : Content \cup {None},
                                   wal : Wal \cup {NoWal}]]
        /\ backup'[b] = new
        /\ \A x \in Backup : x # b => backup'[x] = backup[x]
    <2> HIDE DEF new
    <2> QED  BY <1>2, <1>5 DEF DeployTypeOK
  <1>8. DeployTypeOK'
    BY <1>1, <1>6, <1>7, TypeParts DEF Files
  <1>9. LogsFit'
    <2> HIDE DEF new
    <2> QED  BY <1>1, <1>2, <1>5, <1>7 DEF LogsFit
  <1>10. DeploySteps'
    <2>1. CASE script.at = "copy_compose"
      BY <2>1, <1>1, <1>2, <1>6, <1>7 DEF DeploySteps
    <2>2. CASE script.at = "copy_main"
      BY <2>2, <1>1, <1>2, <1>6, <1>7 DEF DeploySteps
    <2>3. CASE script.at = "copy_wal"
      BY <2>3, <1>1, <1>2, <1>6, <1>7 DEF DeploySteps
    <2> QED  BY <1>1, <2>1, <2>2, <2>3
  <1>11. RollbackSteps' /\ Stopped'
    BY <1>1, <1>2, <1>6 DEF RollbackSteps, Stopped
  <1>12. \A x \in Backup : Kept(x) => x # b /\ Kept(x)'
    BY <1>1, <1>2, <1>6, <1>7 DEF Kept, Saved, Copying
  <1>13. LeftKept'
    <2>1. \A x \in printed : backup'[x].compose \in Build
      BY <1>2, <1>7 DEF LeftKept, DeployTypeOK
    <2>2. ASSUME compose = "c1" \/ \E x \in Backup : backup'[x].compose = "c1"
          PROVE  compose = "c1" \/ \E x \in Backup : backup[x].compose = "c1"
      <3>1. new.compose = compose
        BY DEF NoBackup
      <3> HIDE DEF new
      <3> QED  BY <2>2, <3>1, <1>7
    <2> QED  BY <1>1, <1>12, <2>1, <2>2 DEF LeftKept
  <1>14. ASSUME RepeatsRollback, FilesAreDue PROVE FilesAreDue'
    <2>1. script'.at \notin {"check", "up"}  BY <1>6
    <2>2. \A x \in printed : backup'[x] = backup[x]
      BY <1>2, <1>7 DEF DeployTypeOK
    <2> QED  BY <1>1, <1>2, <1>6, <1>14, <2>1, <2>2 DEF FilesAreDue
  <1> QED  BY <1>8, <1>9, <1>10, <1>11, <1>13, <1>14

\* c1 takes the place of e3 only when the backup of the deployment is complete.
LEMMA ReplaceComposeStep ==
  ASSUME Inv, ReplaceCompose
  PROVE  /\ Inv'
         /\ RepeatsRollback /\ FilesAreDue => FilesAreDue'
  <1> USE DEF Inv
  <1> DEFINE b == script.backup
  <1>1. /\ script.run \in {"deploy", "rollback"} /\ Continue
        /\ script.at = "replace_compose"
        /\ compose' = "c1"
        /\ left' = IF compose = "e3" THEN Found(main, wal) ELSE left
        /\ UNCHANGED <<server, main, wal, backup, printed, writes, due>>
    BY DEF ReplaceCompose, At
  <1>2. script.run = "deploy" /\ b \in Backup
        /\ backup[b] = [compose |-> compose, main |-> main, wal |-> wal]
    BY <1>1, ScriptFields DEF RollbackSteps, DeploySteps
  <1>3. /\ script' \in Script /\ script'.run = "deploy" /\ script'.backup = b
        /\ script'.at = "check"
    BY <1>1, <1>2, ContinueDeploy, ScriptFields DEF Commanded
  <1>4. DeployTypeOK'
    BY <1>1, <1>3, TypeParts DEF Files, Build
  <1>5. LogsFit' /\ RollbackSteps' /\ Stopped'
    BY <1>1, <1>2, <1>3 DEF LogsFit, RollbackSteps, Stopped
  <1>6. DeploySteps'
    BY <1>1, <1>2, <1>3 DEF DeploySteps, DeployTypeOK
  <1>7. LeftKept'
    <2>1. CASE compose = "e3"
      <3>1. PICK x \in Backup : x = b
        BY <1>2
      <3>2. Kept(x)'
        BY <1>1, <1>2, <1>3, <2>1, <3>1 DEF Kept, Saved, Copying
      <3> QED  BY <1>1, <3>2 DEF LeftKept
    <2>2. CASE compose # "e3"
      <3>1. compose = "c1"  BY <2>2 DEF DeployTypeOK, Build
      <3>2. \A x \in Backup : Kept(x) => Kept(x)'
        BY <1>1, <1>3, <2>2 DEF Kept, Saved, Copying
      <3> QED  BY <1>1, <3>1, <3>2 DEF LeftKept
    <2> QED  BY <2>1, <2>2
  <1>8. ASSUME RepeatsRollback, FilesAreDue PROVE FilesAreDue'
    BY <1>1, <1>2, <1>3, <1>8 DEF FilesAreDue
  <1> QED  BY <1>4, <1>5, <1>6, <1>7, <1>8

\* The check may migrate the database, and keeps what it holds.
LEMMA CheckStep ==
  ASSUME Inv, NEW migrated \in BOOLEAN, NEW passed \in BOOLEAN,
         CheckDatabase(migrated, passed)
  PROVE  /\ Inv'
         /\ RepeatsRollback /\ FilesAreDue => FilesAreDue'
  <1> USE DEF Inv
  <1> DEFINE b == script.backup
  <1>1. /\ script.run \in {"deploy", "rollback"} /\ script.at = "check"
        /\ IF migrated THEN main' = Initialized(compose) /\ wal' = NoWal
           ELSE UNCHANGED <<main, wal>>
        /\ IF passed THEN Continue /\ UNCHANGED printed
           ELSE script' = Idle /\ printed' = printed \cup {b}
        /\ UNCHANGED <<server, compose, backup, writes, due, left>>
    BY DEF CheckDatabase, At
  <1>2. script.run = "deploy" /\ b \in Backup /\ server = Down /\ backup[b].compose \in Build
    BY <1>1, ScriptFields DEF RollbackSteps, DeploySteps, Stopped
  <1>3. /\ script' \in Script
        /\ \/ /\ script'.run = "deploy" /\ script'.backup = b /\ script'.at = "up"
              /\ printed' = printed
           \/ script'.run = "none" /\ printed' = printed \cup {b}
    <2>1. CASE passed
      BY <1>1, <1>2, <2>1, ContinueDeploy, ScriptFields DEF Commanded
    <2>2. CASE ~passed
      BY <1>1, <2>2, IdleType
    <2> QED  BY <2>1, <2>2
  <1>4. /\ main' \in Content \cup {None} /\ wal' \in Wal \cup {NoWal} /\ Fits(main', wal')
        /\ main # None => main' # None /\ Found(main', wal').stored = Found(main, wal).stored
    <2>1. CASE migrated
      <3>1. /\ Initialized(compose) \in Content
            /\ main # None => Initialized(compose).stored = Found(main, wal).stored
        BY InitializedContent DEF DeployTypeOK, LogsFit
      <3>2. main' = Initialized(compose) /\ wal' = NoWal
        BY <1>1, <2>1
      <3>3. Found(main', wal') = main'
        BY <3>2 DEF Found
      <3> QED  BY <3>1, <3>2, <3>3, NoContent DEF Fits
    <2>2. CASE ~migrated
      BY <1>1, <2>2 DEF DeployTypeOK, LogsFit
    <2> QED  BY <2>1, <2>2
  <1>5. DeployTypeOK'
    BY <1>1, <1>2, <1>3, <1>4, TypeParts DEF Files
  <1>6. LogsFit' /\ Stopped' /\ RollbackSteps'
    BY <1>1, <1>2, <1>3, <1>4 DEF LogsFit, Stopped, RollbackSteps
  <1>7. DeploySteps'
    BY <1>1, <1>2, <1>3 DEF DeploySteps
  <1>8. \A x \in Backup : Kept(x) => Kept(x)'
    BY <1>1, <1>3 DEF Kept, Saved, Copying
  <1>9. LeftKept'
    BY <1>1, <1>2, <1>3, <1>8 DEF LeftKept
  <1>10. ASSUME RepeatsRollback, FilesAreDue PROVE FilesAreDue'
    BY <1>1, <1>2, <1>3, <1>4, <1>10 DEF FilesAreDue
  <1> QED  BY <1>5, <1>6, <1>7, <1>9, <1>10

\* A script that has come to its end starts the build that compose.yaml names.
LEMMA UpStep ==
  ASSUME Inv, Up
  PROVE  /\ Inv'
         /\ RepeatsRollback /\ FilesAreDue => FilesAreDue'
  <1> USE DEF Inv
  <1> DEFINE b == script.backup
  <1>1. /\ script.run \in {"deploy", "rollback"} /\ script.at = "up"
        /\ server' = compose /\ main' = Initialized(compose) /\ wal' = NoWal
        /\ script' = Idle /\ printed' = printed \cup {b}
        /\ UNCHANGED <<compose, backup, writes, due, left>>
    BY DEF Up, At, Serve
  <1>2. b \in Backup /\ backup[b].compose \in Build
    BY <1>1, ScriptFields DEF DeploySteps, RollbackSteps
  <1>3. /\ main' \in Content /\ main'.schema >= Schema[compose] /\ main' # None
        /\ main # None => main'.stored = Found(main, wal).stored
    BY <1>1, InitializedContent, NoContent DEF LogsFit, DeployTypeOK
  <1>4. script' \in Script /\ script'.run = "none"
    BY <1>1, IdleType
  <1>5. DeployTypeOK'
    BY <1>1, <1>2, <1>3, <1>4, TypeParts DEF Files
  <1>6. LogsFit' /\ Stopped' /\ RollbackSteps' /\ DeploySteps'
    BY <1>1, <1>3, <1>4 DEF LogsFit, Fits, Stopped, RollbackSteps, DeploySteps
  <1>7. \A x \in Backup : Kept(x) => Kept(x)'
    BY <1>1, <1>4 DEF Kept, Saved, Copying
  <1>8. LeftKept'
    BY <1>1, <1>2, <1>7 DEF LeftKept
  <1>9. ASSUME RepeatsRollback, FilesAreDue PROVE FilesAreDue'
    <2>1. backup[b].main # None /\ main # None
      BY <1>1, <1>9 DEF FilesAreDue, RollbackSteps
    <2>2. Found(main, wal).stored = due
      BY <1>1, <1>9 DEF FilesAreDue, RollbackSteps, Saved
    <2>3. Found(main', wal') = main'  BY <1>1 DEF Found
    <2> QED  BY <1>1, <1>3, <1>4, <1>9, <2>1, <2>2, <2>3 DEF FilesAreDue
  <1> QED  BY <1>5, <1>6, <1>8, <1>9

\* A rollback puts the files of its backup in the place of those there were.
LEMMA RestoreStep ==
  ASSUME Inv, RestoreCompose \/ RemoveDatabase \/ RestoreMain \/ RestoreWal
  PROVE  /\ Inv'
         /\ RepeatsRollback /\ FilesAreDue => FilesAreDue'
  <1> USE DEF Inv
  <1> DEFINE b == script.backup
  <1>1. /\ script.run \in {"deploy", "rollback"} /\ Continue
        /\ script.at \in {"restore_compose", "remove", "restore_main", "restore_wal"}
        /\ UNCHANGED <<server, backup, printed, writes, due, left>>
    BY DEF RestoreCompose, RemoveDatabase, RestoreMain, RestoreWal, At
  <1>2. /\ script.run = "rollback" /\ b \in Backup /\ server = Down
        /\ b \in printed /\ backup[b].compose \in Build /\ backup[b].main # None
    BY <1>1, ScriptFields DEF RollbackSteps, DeploySteps, Stopped
  <1>3. /\ script.at = "restore_compose" =>
             compose' = backup[b].compose /\ main' = main /\ wal' = wal
        /\ script.at = "remove" => compose' = compose /\ main' = None /\ wal' = NoWal
        /\ script.at = "restore_main" =>
             compose' = compose /\ main' = backup[b].main /\ wal' = NoWal
        /\ script.at = "restore_wal" =>
             compose' = compose /\ main' = backup[b].main /\ wal' = backup[b].wal
    BY <1>1, <1>2
    DEF RestoreCompose, RemoveDatabase, RestoreMain, RestoreWal, At, FilesRemoved,
        RollbackSteps
  <1> DEFINE at == CASE script.at = "restore_compose" -> "remove"
                     [] script.at = "remove" -> "restore_main"
                     [] script.at = "restore_main" -> "restore_wal"
                     [] OTHER -> "up"
  <1>4. script' \in Script /\ script'.run = "rollback" /\ script'.backup = b /\ script'.at = at
    <2>1. script' = [script EXCEPT !.at = at]
      BY <1>1, <1>2, ContinueRollback
    <2>2. at \in Commanded  BY DEF Commanded
    <2> HIDE DEF at
    <2> QED  BY <1>1, <1>2, <2>1, <2>2, ScriptFields
  <1>5. /\ main' \in Content \cup {None} /\ wal' \in Wal \cup {NoWal} /\ Fits(main', wal')
        /\ compose' \in Build
        /\ compose' = compose \/ compose' = backup[b].compose
    <2>1. /\ backup[b].main \in Content \cup {None} /\ backup[b].wal \in Wal \cup {NoWal}
          /\ Fits(backup[b].main, backup[b].wal)
      BY <1>2, BackupType DEF LogsFit
    <2>2. main \in Content \cup {None} /\ wal \in Wal \cup {NoWal} /\ compose \in Build
          /\ Fits(main, wal)
      BY DEF DeployTypeOK, LogsFit
    <2> QED  BY <1>1, <1>2, <1>3, <2>1, <2>2 DEF Fits
  <1>6. DeployTypeOK'
    BY <1>1, <1>2, <1>4, <1>5, TypeParts DEF Files
  <1>7. LogsFit' /\ Stopped' /\ DeploySteps'
    BY <1>1, <1>2, <1>4, <1>5 DEF LogsFit, Stopped, DeploySteps
  <1>8. RollbackSteps'
    BY <1>1, <1>2, <1>3, <1>4 DEF RollbackSteps
  <1>9. \A x \in Backup : Kept(x) => Kept(x)'
    BY <1>1, <1>4 DEF Kept, Saved, Copying
  <1>10. LeftKept'
    BY <1>1, <1>2, <1>5, <1>9 DEF LeftKept
  <1>11. ASSUME RepeatsRollback, FilesAreDue PROVE FilesAreDue'
    BY <1>1, <1>2, <1>4, <1>11 DEF FilesAreDue, Saved
  <1> QED  BY <1>6, <1>7, <1>8, <1>10, <1>11

-----------------------------------------------------------------------------
\* Every step preserves the invariant and, if rollbacks are repeated, what is due.
LEMMA StepInv ==
  /\ Inv /\ [DeployNext]_deployVars => Inv'
  /\ RepeatsRollback /\ Inv /\ FilesAreDue /\ [DeployNext]_deployVars => FilesAreDue'
  <1> SUFFICES ASSUME Inv, [DeployNext]_deployVars
               PROVE  Inv' /\ (RepeatsRollback /\ FilesAreDue => FilesAreDue')
    OBVIOUS
  <1>1. CASE UNCHANGED deployVars
    BY <1>1 DEF deployVars, Inv, DeployTypeOK, LogsFit, DeploySteps, RollbackSteps, Stopped,
                LeftKept, Kept, Saved, Copying, FilesAreDue
  <1>2. CASE DeployNext
    BY <1>2, StoreStep, StartByHandStep, BeginStep, AbortStep, StopServiceStep, CopyStep,
       ReplaceComposeStep, CheckStep, UpStep, RestoreStep
    DEF DeployNext
  <1> QED  BY <1>1, <1>2

\* The invariant holds in every state.
THEOREM Invariance == DeploySpec => []Inv
  BY InitInv, StepInv, PTL DEF DeploySpec

\* The build, the files and the backups keep their types, and no build serves a
\* schema it has not brought up to date.
THEOREM TypeCorrect == DeploySpec => []DeployTypeOK
  <1>1. Inv => DeployTypeOK  BY DEF Inv
  <1> QED  BY Invariance, <1>1, PTL

\* However deployments and rollbacks break off and follow each other: where c1 has
\* taken the place of e3, a backup restores what e3 had when it did.
THEOREM LeftIsKept == DeploySpec => []BackupKept
  <1>1. Inv => BackupKept  BY DEF Inv, LeftKept, Kept, BackupKept
  <1> QED  BY Invariance, <1>1, PTL

\* If a rollback that broke off is repeated before anything else, the service works
\* on what was stored last, or on what the backup held.
THEOREM ServiceFindsData == RepeatsRollback /\ DeploySpec => []ServesWhatIsDue
  <1>1. FilesAreDue => ServesWhatIsDue  BY DEF FilesAreDue, ServesWhatIsDue
  <1>2. RepeatsRollback => (DeploySpec => []FilesAreDue)
    <2> SUFFICES ASSUME RepeatsRollback PROVE DeploySpec => []FilesAreDue
      OBVIOUS
    <2>1. Inv /\ FilesAreDue /\ [DeployNext]_deployVars => FilesAreDue'  BY StepInv
    <2> QED  BY InitInv, Invariance, <2>1, PTL DEF DeploySpec
  <1> QED  BY <1>1, <1>2, PTL

=============================================================================
