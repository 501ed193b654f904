--------------------------- MODULE UpgradeRollout ---------------------------
(***************************************************************************)
(* The way of a new agent program from the console to a device: the upload *)
(* directory of server/api/upgrade_routes.py and its retention, the        *)
(* command "upgrade" of agent/handler.go, and agent/upgrade.go with the    *)
(* script it writes, which runs detached from the agent, replaces the      *)
(* agent's file and starts the service again.                              *)
(*                                                                         *)
(* A file's content is the program that was uploaded, Torn after a copy or *)
(* a machine that stopped half-way, or None.  A program comes up as a      *)
(* service (Works), ends at once, or hangs while it starts, in which case  *)
(* it holds its file.                                                      *)
(*                                                                         *)
(* The timing of the code is taken for granted in two places.  The agent   *)
(* exits 2 seconds after it launched the script, and the service manager   *)
(* restarts a service that died 5 seconds later at the earliest            *)
(* (ensureServiceRecovery); the script waits 3 seconds and moves the file. *)
(* So the old agent is gone when the file is moved, and is not restarted   *)
(* before.  And no other upgrade is accepted while a script is at work:    *)
(* upgradeRunning forbids it only to the agent that launched the script,   *)
(* but the agent the script starts has its first connection after 3        *)
(* seconds, and the script ends after 5.                                   *)
(***************************************************************************)
EXTENDS Integers, Sequences, FiniteSets

CONSTANTS
    Program,    \* programs that pass the checks of upload and download
    First,      \* the one installed
    Works,      \* those that reach RUNNING
    Hangs,      \* those that hang in START_PENDING
    Push,       \* files for file_push, which share the directory
    Latest,     \* the URL of the program that lies on the server itself
    Torn, None,
    UPLOAD_KEEP,
    FaultKind,  \* the faults that may happen, each once
    MaxFaults   \* how many of them

ASSUME ProgramAssumption ==
    /\ Works \subseteq Program /\ Hangs \subseteq Program /\ Works \cap Hangs = {}
    /\ First \in Works
    /\ Torn \notin Program /\ None \notin Program \cup {Torn}
    /\ Latest \notin Program \cup {None}
    /\ Push \cap (Program \cup {Latest, Torn, None}) = {}
ASSUME BoundsAssumption ==
    /\ UPLOAD_KEEP \in Nat \ {0} /\ MaxFaults \in Nat
    /\ FaultKind \subseteq {"remove", "del", "move", "copy", "restore", "power"}

VARIABLES
    uploads,    \* the upload directory, newest first
    order,      \* what the last upgrade command names
    fetched,    \* LanAgent_new.exe
    dest,       \* LanAgent.exe
    backup,     \* LanAgent.exe.old
    script,     \* the next command of the script
    up,         \* the service is RUNNING; what runs is dest
    held,       \* a program that hangs holds dest
    upgradeRunning,     \* the agent's flag, in its memory
    revive,     \* the service manager has a restart due
    hit         \* the faults so far

files == <<fetched, dest, backup>>
service == <<up, held, upgradeRunning, revive>>
vars == <<uploads, order, files, script, service, hit>>

Content == Program \cup {Torn, None}
Step == {"none", "stop", "clear", "move", "copy", "start", "query", "halt",
         "restore", "again"}

TypeOK ==
    /\ uploads \in Seq(Program \cup Push)
    /\ Len(uploads) <= UPLOAD_KEEP + (IF "remove" \in hit THEN 1 ELSE 0)
    /\ order \in Program \cup {Latest, None}
    /\ fetched \in Program \cup {None}
    /\ dest \in Content /\ backup \in Content
    /\ script \in Step
    /\ up \in BOOLEAN /\ held \in BOOLEAN
    /\ upgradeRunning \in BOOLEAN /\ revive \in BOOLEAN
    /\ hit \subseteq FaultKind

Init ==
    /\ uploads = <<>>
    /\ order = None /\ fetched = None
    /\ dest = First /\ backup = None
    /\ script = "none"
    /\ up = TRUE /\ held = FALSE /\ upgradeRunning = FALSE /\ revive = FALSE
    /\ hit = {}

\* Each kind of fault happens once, and at most MaxFaults in all.
Fault(kind) ==
    /\ kind \in FaultKind \ hit
    /\ Cardinality(hit) < MaxFaults
    /\ hit' = hit \cup {kind}

-----------------------------------------------------------------------------
(* The server.                                                             *)

Uploaded == {uploads[i] : i \in DOMAIN uploads}

\* Mutant: "keep + 1" for "keep": one file more than the limit stays.
Kept_OneMore(s) == IF Len(s) > UPLOAD_KEEP + 1 THEN SubSeq(s, 1, UPLOAD_KEEP + 1) ELSE s

\* _cleanup_uploads: the newest files.
Kept(s) == IF Len(s) > UPLOAD_KEEP THEN SubSeq(s, 1, UPLOAD_KEEP) ELSE s

\* upload_agent_exe and upload_file: a new name each time, and no await from
\* the write to the end of the cleanup, which passes over a file that cannot be
\* removed.
Upload(f) ==
    /\ f \notin Uploaded /\ order # f
    /\ \/ uploads' = Kept(<<f>> \o uploads) /\ UNCHANGED hit
       \/ /\ Len(uploads) = UPLOAD_KEEP
          /\ uploads' = <<f>> \o uploads
          /\ Fault("remove")
    /\ UNCHANGED <<order, files, script, service>>

\* maintenance_loop: the cleanup again.
Maintain ==
    /\ uploads' = Kept(uploads)
    /\ UNCHANGED <<order, files, script, service, hit>>

\* A task is created and its command sent, with the URL of an uploaded file or,
\* as the console does it, of the program that lies on the server.
Order(url) ==
    /\ up /\ order = None
    /\ url \in Uploaded \cup {Latest}
    /\ order' = url
    /\ UNCHANGED <<uploads, files, script, service, hit>>

-----------------------------------------------------------------------------
(* The agent: the case "upgrade" of handleCommand.                         *)

Accepts == up /\ order # None /\ ~upgradeRunning /\ script = "none"

\* startUpgrade: the download, then the launch of the script.  What lies on the
\* server is replaced there by whoever builds it.
StartUpgrade ==
    /\ Accepts
    /\ \/ order \in Uploaded /\ fetched' = order
       \/ order = Latest /\ fetched' \in Program
    /\ script' = "stop"
    /\ upgradeRunning' = TRUE
    /\ order' = None
    /\ UNCHANGED <<uploads, dest, backup, up, held, revive, hit>>

\* The file has made way for newer ones, and the download ends with 404; or
\* the download or the write of the script fails.
FailUpgrade ==
    /\ Accepts
    /\ order' = None
    /\ fetched' \in {fetched, None}
    /\ UNCHANGED <<uploads, dest, backup, script, service, hit>>

RefuseUpgrade ==
    /\ up /\ order # None
    /\ upgradeRunning
    /\ order' = None
    /\ UNCHANGED <<uploads, files, script, service, hit>>

\* The command is lost with the connection.
LoseOrder ==
    /\ order # None
    /\ order' = None
    /\ UNCHANGED <<uploads, files, script, service, hit>>

\* os.Exit(0): the service ends without a word to the service manager.
Exit ==
    /\ up /\ upgradeRunning
    /\ up' = FALSE /\ upgradeRunning' = FALSE
    /\ revive' = TRUE
    /\ UNCHANGED <<uploads, order, files, script, held, hit>>

-----------------------------------------------------------------------------
(* The service manager.                                                    *)

Open == up \/ held      \* what runs is dest, which no copy can replace

\* An attempt to start the service.  Whether a failure brings a restart
\* depends on how the program ended.
StartService ==
    IF Open THEN UNCHANGED service
    ELSE /\ up' = (dest \in Works)
         /\ held' = (dest \in Hangs)
         /\ upgradeRunning' = FALSE
         /\ revive' \in (IF dest \in Works THEN {FALSE} ELSE BOOLEAN)

\* The restart that is due.  cleanupUpgradeArtifacts may remove what an upgrade
\* left behind long ago.
Revive ==
    /\ revive
    /\ script \notin {"stop", "clear", "move"}
    /\ IF Open THEN revive' = FALSE /\ UNCHANGED <<up, held, upgradeRunning>>
               ELSE StartService
    /\ fetched' \in {fetched} \cup (IF script = "none" THEN {None} ELSE {})
    /\ UNCHANGED <<uploads, order, dest, backup, script, hit>>

\* A program that does not report within 30 seconds is killed.
KillHung ==
    /\ held
    /\ held' = FALSE
    /\ revive' \in BOOLEAN
    /\ UNCHANGED <<uploads, order, files, script, up, upgradeRunning, hit>>

-----------------------------------------------------------------------------
(* The script.                                                             *)

\* "sc stop" and the wait.
StopService ==
    /\ up' = FALSE /\ upgradeRunning' = FALSE
    /\ UNCHANGED held

\* An agent that is slow to stop is ended by its os.Exit.
Stop ==
    /\ script = "stop"
    /\ StopService
    /\ revive' \in {revive, up}
    /\ script' = "clear"
    /\ UNCHANGED <<uploads, order, files, hit>>

Clear ==
    /\ script = "clear"
    /\ script' = "move"
    /\ \/ backup' = None /\ UNCHANGED hit
       \/ Fault("del") /\ UNCHANGED backup
    /\ UNCHANGED <<uploads, order, fetched, dest, service>>

\* Mutant: the script does not test that there is a backup.
MoveAway_Untested ==
    /\ script = "move"
    /\ \/ backup' = dest /\ dest' = None /\ UNCHANGED hit
       \/ Fault("move") /\ UNCHANGED <<dest, backup>>
    /\ script' = "copy"
    /\ UNCHANGED <<uploads, order, fetched, service>>

\* The move, and the test that there is a backup, be it an older one.
\* Without one the script gives up, and leaves the service stopped.
MoveAway ==
    /\ script = "move"
    /\ \/ backup' = dest /\ dest' = None /\ UNCHANGED hit
       \/ Fault("move") /\ UNCHANGED <<dest, backup>>
    /\ script' = IF backup' = None THEN "none" ELSE "copy"
    /\ UNCHANGED <<uploads, order, fetched, service>>

\* "copy /Y" fails on an open file; elsewhere it may fail too, and half-way.
CopyOnto(content, kind) ==
    \/ Open /\ UNCHANGED <<dest, hit>>
    \/ ~Open /\ dest' = content /\ UNCHANGED hit
    \/ ~Open /\ dest' \in {dest, Torn} /\ Fault(kind)

\* Mutant: the script gives up where it should go on with the rollback.
Copy_GivesUp ==
    /\ script = "copy"
    /\ CopyOnto(fetched, "copy")
    /\ script' = IF dest' = None THEN "none" ELSE "start"
    /\ UNCHANGED <<uploads, order, fetched, backup, service>>

Copy ==
    /\ script = "copy"
    /\ CopyOnto(fetched, "copy")
    /\ script' = IF dest' = None THEN "halt" ELSE "start"
    /\ UNCHANGED <<uploads, order, fetched, backup, service>>

Start ==
    /\ script = "start"
    /\ StartService
    /\ script' = "query"
    /\ UNCHANGED <<uploads, order, files, hit>>

\* Mutant: "if errorlevel 0" for "if errorlevel 1", which is always true: a
\* new program that runs is rolled back as well.
Query_RollsBack ==
    /\ script = "query"
    /\ script' = "halt"
    /\ UNCHANGED <<uploads, order, files, service, hit>>

Query ==
    /\ script = "query"
    /\ \/ up /\ fetched' = None /\ script' = "none"
       \/ ~up /\ script' = "halt" /\ UNCHANGED fetched
    /\ UNCHANGED <<uploads, order, dest, backup, service, hit>>

Halt ==
    /\ script = "halt"
    /\ StopService
    /\ UNCHANGED revive
    /\ script' = "restore"
    /\ UNCHANGED <<uploads, order, files, hit>>

Restore ==
    /\ script = "restore"
    /\ CopyOnto(backup, "restore")
    /\ script' = "again"
    /\ UNCHANGED <<uploads, order, fetched, backup, service>>

StartAgain ==
    /\ script = "again"
    /\ StartService
    /\ script' = "none"
    /\ UNCHANGED <<uploads, order, files, hit>>

-----------------------------------------------------------------------------

\* The machine stops, with a copy half done, and starts the service when it is
\* on again.  The script is not continued.
Power ==
    /\ Fault("power")
    /\ dest' \in {dest} \cup (IF script \in {"copy", "restore"} /\ ~Open THEN {Torn} ELSE {})
    /\ script' = "none"
    /\ order' = None
    /\ up' = FALSE /\ held' = FALSE /\ upgradeRunning' = FALSE /\ revive' = TRUE
    /\ UNCHANGED <<uploads, fetched, backup>>

Script == \/ Stop \/ Clear \/ MoveAway \/ Copy \/ Start \/ Query
          \/ Halt \/ Restore \/ StartAgain

Next ==
    \/ \E f \in Program \cup Push : Upload(f)
    \/ Maintain
    \/ \E url \in Program \cup {Latest} : Order(url)
    \/ StartUpgrade \/ FailUpgrade \/ RefuseUpgrade \/ LoseOrder \/ Exit
    \/ Revive \/ KillHung
    \/ Script \/ Power

Safety == Init /\ [][Next]_vars

\* The command interpreter goes on with the script.  Nothing else has to happen.
Fairness == WF_vars(Script)

Spec == Safety /\ Fairness

-----------------------------------------------------------------------------
(* Properties.                                                             *)

\* Whatever is uploaded and whatever fails, on the disk of the device is a
\* program that comes up as a service: in its place, or as the backup.
SomethingToRun == dest \in Works \/ backup \in Works

\* If nothing fails the script ends with the service running: with the new
\* program exactly if that is one that comes up, else with the previous one.  (A
\* new program that hangs holds its file against the rollback.)
EndsAsIntended ==
    [][(/\ script \in {"query", "again"} /\ script' = "none"
        /\ hit' = {}
        /\ dest \notin Hangs)
            => up' /\ dest' = (IF fetched \in Works THEN fetched ELSE backup)]_vars

\* An upgrade does not end with the service down, though its delete or its copy
\* failed, and though the service manager restarts what it finds in between:
\* except for a move or a rollback that fails, a power cut, and a program that
\* hangs, which holds its file against the rollback.
Excused == fetched \in Hangs \/ dest \in Hangs \/ ~(hit \subseteq {"remove", "del", "copy"})

ServiceReturns ==
    script = "stop" ~> (up /\ script = "none") \/ Excused
=============================================================================
