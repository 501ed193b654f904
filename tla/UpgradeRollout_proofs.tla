----------------------- MODULE UpgradeRollout_proofs -----------------------
(* Proofs about UpgradeRollout: its type invariant, that a device always has *)
(* a program that comes up, and how an upgrade without a fault ends.         *)
EXTENDS UpgradeRollout, TLAPS

\* What runs is the installed file, and the flag is the one of an agent that
\* has launched its script and not yet exited.
Running ==
    /\ up => dest \in Works
    /\ held => dest \in Hangs
    /\ upgradeRunning => up /\ script = "stop"

\* Until the file is moved away it is the one that accepted the upgrade, and
\* from the end of the wait on nothing holds it.
BeforeMove ==
    /\ script \in {"stop", "clear", "move"} => dest \in Works /\ ~held
    /\ script \in {"clear", "move"} => ~up

\* The backup is a program that accepted an upgrade, and is there from the move
\* to the end of the script.
BackupWorks ==
    /\ backup \in Works \cup {None}
    /\ script \in {"copy", "start", "query", "halt", "restore", "again"}
            => backup \in Works

\* Where a script that met no fault has come to.
Unharmed ==
    hit = {} =>
        /\ script = "copy" => dest = None
        /\ script \in {"start", "query", "halt", "restore"} => dest = fetched
        /\ script = "query" /\ dest \in Works => up
        /\ script \in {"halt", "restore"} => dest \notin Works
        /\ script = "again" => /\ dest = backup \/ dest \in Hangs
                               /\ fetched \notin Works

ScriptInv == Running /\ BeforeMove /\ BackupWorks /\ SomethingToRun

Inv == TypeOK /\ ScriptInv /\ Unharmed

-----------------------------------------------------------------------------
(* Types.                                                                  *)

\* The cleanup leaves a sequence of files, no longer than the limit.
LEMMA KeptType ==
    ASSUME NEW s \in Seq(Program \cup Push)
    PROVE  /\ Kept(s) \in Seq(Program \cup Push)
           /\ Len(Kept(s)) <= UPLOAD_KEEP
<1>1. UPLOAD_KEEP \in Nat /\ Len(s) \in Nat
  BY BoundsAssumption
<1>2. CASE Len(s) > UPLOAD_KEEP
  <2>1. /\ SubSeq(s, 1, UPLOAD_KEEP) \in Seq(Program \cup Push)
        /\ Len(SubSeq(s, 1, UPLOAD_KEEP)) = UPLOAD_KEEP
    BY <1>1, <1>2
  <2>2. Kept(s) = SubSeq(s, 1, UPLOAD_KEEP)
    BY <1>2 DEF Kept
  <2> QED
    BY <1>1, <2>1, <2>2
<1>3. CASE ~(Len(s) > UPLOAD_KEEP)
  BY <1>1, <1>3 DEF Kept
<1> QED
  BY <1>2, <1>3

LEMMA AddType ==
    ASSUME NEW s \in Seq(Program \cup Push), NEW f \in Program \cup Push
    PROVE  /\ <<f>> \o s \in Seq(Program \cup Push)
           /\ Len(<<f>> \o s) = Len(s) + 1
<1>1. <<f>> \in Seq(Program \cup Push) /\ Len(<<f>>) = 1
  OBVIOUS
<1> QED
  BY <1>1

\* The directory is over the limit only after a removal that failed.
UploadsBound == Len(uploads) <= UPLOAD_KEEP + (IF "remove" \in hit THEN 1 ELSE 0)

LEMMA UploadsNext == TypeOK /\ [Next]_vars => UploadsBound'
<1> SUFFICES ASSUME TypeOK, [Next]_vars PROVE UploadsBound'
  OBVIOUS
<1>1. UPLOAD_KEEP \in Nat /\ Len(uploads) \in Nat /\ uploads \in Seq(Program \cup Push)
  BY BoundsAssumption DEF TypeOK
<1>2. ASSUME uploads' \in Seq(Program \cup Push), Len(uploads') <= UPLOAD_KEEP
      PROVE  UploadsBound'
  <2>1. Len(uploads') \in Nat
    BY <1>2
  <2> QED
    BY <1>1, <1>2, <2>1 DEF UploadsBound
<1>3. ASSUME NEW f \in Program \cup Push, Upload(f) PROVE UploadsBound'
  <2>1. <<f>> \o uploads \in Seq(Program \cup Push)
        /\ Len(<<f>> \o uploads) = Len(uploads) + 1
    BY <1>1, AddType
  <2>2. CASE uploads' = Kept(<<f>> \o uploads)
    BY <1>2, <2>1, <2>2, KeptType
  <2>3. CASE Fault("remove") /\ Len(uploads) = UPLOAD_KEEP /\ uploads' = <<f>> \o uploads
    <3>1. "remove" \in hit' /\ Len(uploads') = UPLOAD_KEEP + 1
      BY <2>1, <2>3 DEF Fault
    <3> QED
      BY <1>1, <3>1 DEF UploadsBound
  <2> QED
    BY <1>3, <2>2, <2>3 DEF Upload
<1>4. CASE Maintain
  BY <1>1, <1>2, <1>4, KeptType DEF Maintain
<1>5. ASSUME uploads' = uploads, hit \subseteq hit' PROVE UploadsBound'
  BY <1>1, <1>5 DEF UploadsBound, TypeOK
<1>6. CASE (\E url \in Program \cup {Latest} : Order(url)) \/ StartUpgrade \/ FailUpgrade
           \/ RefuseUpgrade \/ LoseOrder \/ Exit \/ Revive \/ KillHung
  BY <1>5, <1>6 DEF Order, StartUpgrade, FailUpgrade, RefuseUpgrade, LoseOrder, Exit,
                    Revive, KillHung
<1>7. CASE Script \/ Power
  BY <1>5, <1>7 DEF Script, Stop, Clear, MoveAway, Copy, Start, Query, Halt, Restore,
                    StartAgain, Power, CopyOnto, Fault
<1>8. CASE UNCHANGED vars
  BY <1>5, <1>8 DEF vars
<1> QED
  BY <1>3, <1>4, <1>6, <1>7, <1>8 DEF Next

LEMMA UploadedType ==
    ASSUME uploads \in Seq(Program \cup Push)
    PROVE  Uploaded \subseteq Program \cup Push
BY DEF Uploaded

LEMMA FaultType ==
    ASSUME NEW kind, Fault(kind), hit \subseteq FaultKind
    PROVE  hit' \subseteq FaultKind /\ hit' # {}
BY DEF Fault

LEMMA CopyType ==
    ASSUME NEW content \in Content, NEW kind, CopyOnto(content, kind), TypeOK
    PROVE  dest' \in Content /\ hit' \subseteq FaultKind
BY FaultType DEF CopyOnto, TypeOK, Content

LEMMA StartType ==
    ASSUME StartService, TypeOK
    PROVE  up' \in BOOLEAN /\ held' \in BOOLEAN /\ upgradeRunning' \in BOOLEAN
           /\ revive' \in BOOLEAN
<1>1. CASE Open
  BY <1>1 DEF StartService, TypeOK, service
<1>2. CASE ~Open
  <2>1. /\ up' = (dest \in Works) /\ held' = (dest \in Hangs) /\ upgradeRunning' = FALSE
        /\ revive' \in (IF dest \in Works THEN {FALSE} ELSE BOOLEAN)
    BY <1>2 DEF StartService
  <2>2. revive' \in BOOLEAN
    BY <2>1
  <2>3. up' \in BOOLEAN
    BY <2>1
  <2>4. held' \in BOOLEAN
    BY <2>1
  <2> QED
    BY <2>1, <2>2, <2>3, <2>4
<1> QED
  BY <1>1, <1>2

LEMMA TypeInit == Init => TypeOK
<1> SUFFICES ASSUME Init PROVE TypeOK
  OBVIOUS
<1>1. uploads \in Seq(Program \cup Push) /\ Len(uploads) = 0
  BY DEF Init
<1>2. Len(uploads) <= UPLOAD_KEEP + (IF "remove" \in hit THEN 1 ELSE 0)
  BY <1>1, BoundsAssumption
<1>3. /\ order = None /\ fetched = None /\ dest = First /\ backup = None
      /\ script = "none" /\ hit = {}
  BY DEF Init
<1>4. First \in Content /\ None \in Content
  BY ProgramAssumption DEF Content
<1>5. up \in BOOLEAN /\ held \in BOOLEAN /\ upgradeRunning \in BOOLEAN /\ revive \in BOOLEAN
  BY DEF Init
<1> QED
  BY <1>1, <1>2, <1>3, <1>4, <1>5 DEF TypeOK, Step

LEMMA TypeNext == TypeOK /\ [Next]_vars => TypeOK'
<1> SUFFICES ASSUME TypeOK, [Next]_vars PROVE TypeOK'
  OBVIOUS
<1>0. Len(uploads') <= UPLOAD_KEEP + (IF "remove" \in hit' THEN 1 ELSE 0)
  BY UploadsNext DEF UploadsBound
<1> USE <1>0 DEF TypeOK, Content, Step
<1>1. ASSUME NEW f \in Program \cup Push, Upload(f) PROVE TypeOK'
  <2>1. uploads' \in Seq(Program \cup Push)
    BY <1>1, KeptType, AddType DEF Upload
  <2>2. hit' \subseteq FaultKind
    BY <1>1, FaultType DEF Upload
  <2> QED
    BY <1>1, <2>1, <2>2 DEF Upload, files, service
<1>18. CASE Maintain
  BY <1>18, KeptType DEF Maintain, files, service
<1>2. ASSUME NEW url \in Program \cup {Latest}, Order(url) PROVE TypeOK'
  BY <1>2 DEF Order, files, service
<1>3. CASE StartUpgrade
  <2>1. Latest \notin Uploaded
    BY UploadedType, ProgramAssumption
  <2>2. fetched' \in Program
    BY <1>3, <2>1 DEF StartUpgrade, Accepts
  <2> QED
    BY <1>3, <2>2 DEF StartUpgrade
<1>4. CASE FailUpgrade
  BY <1>4 DEF FailUpgrade, service
<1>5. CASE RefuseUpgrade \/ LoseOrder
  BY <1>5 DEF RefuseUpgrade, LoseOrder, files, service
<1>6. CASE Exit
  BY <1>6 DEF Exit, files
<1>7. CASE Revive
  <2>1. up' \in BOOLEAN /\ held' \in BOOLEAN /\ upgradeRunning' \in BOOLEAN
        /\ revive' \in BOOLEAN
    BY <1>7, StartType DEF Revive
  <2> QED
    BY <1>7, <2>1 DEF Revive
<1>8. CASE KillHung
  BY <1>8 DEF KillHung, files
<1>9. CASE Stop \/ Halt
  BY <1>9 DEF Stop, Halt, StopService, files
<1>10. CASE Clear
  BY <1>10, FaultType DEF Clear, service
<1>11. CASE MoveAway
  BY <1>11, FaultType DEF MoveAway, service
<1>12. CASE Copy
  <2>1. dest' \in Content /\ hit' \subseteq FaultKind
    BY <1>12, CopyType DEF Copy
  <2> QED
    BY <1>12, <2>1 DEF Copy, service
<1>13. CASE Start \/ StartAgain
  BY <1>13, StartType DEF Start, StartAgain, files
<1>14. CASE Query
  BY <1>14 DEF Query, service
<1>15. CASE Restore
  <2>1. dest' \in Content /\ hit' \subseteq FaultKind
    BY <1>15, CopyType DEF Restore
  <2> QED
    BY <1>15, <2>1 DEF Restore, service
<1>16. CASE Power
  BY <1>16, FaultType DEF Power
<1>17. CASE UNCHANGED vars
  BY <1>17 DEF vars, files, service
<1> QED
  BY <1>1, <1>2, <1>3, <1>4, <1>5, <1>6, <1>7, <1>8, <1>9, <1>10, <1>11, <1>12,
     <1>13, <1>14, <1>15, <1>16, <1>17, <1>18 DEF Next, Script

\* Every reachable state has the types of TypeOK; above all, the upload
\* directory holds at most UPLOAD_KEEP files, and one more after a removal that
\* failed.
THEOREM TypeCorrect == Safety => []TypeOK
BY TypeInit, TypeNext, PTL DEF Safety

-----------------------------------------------------------------------------
(* The script.                                                             *)

\* How the service comes out of an attempt to start it.
LEMMA StartRuns ==
    ASSUME StartService, Running, dest' = dest
    PROVE  /\ up' => dest' \in Works
           /\ held' => dest' \in Hangs
           /\ upgradeRunning' => upgradeRunning
           /\ dest \in Works => up'
           /\ dest \notin Hangs => ~held'
           /\ dest \notin Works => ~up'
<1>1. Works \cap Hangs = {}
  BY ProgramAssumption
<1>2. CASE Open
  <2>1. up' = up /\ held' = held /\ upgradeRunning' = upgradeRunning
    BY <1>2 DEF StartService, service
  <2> QED
    BY <1>1, <1>2, <2>1 DEF Running, Open
<1>3. CASE ~Open
  <2>1. /\ up' = (dest \in Works) /\ held' = (dest \in Hangs) /\ upgradeRunning' = FALSE
    BY <1>3 DEF StartService
  <2> QED
    BY <2>1
<1> QED
  BY <1>2, <1>3

\* A copy leaves what runs alone.
LEMMA CopyRuns ==
    ASSUME NEW content, NEW kind, CopyOnto(content, kind), Running,
           up' = up, held' = held
    PROVE  /\ up' => dest' \in Works
           /\ held' => dest' \in Hangs
BY DEF CopyOnto, Open, Running

LEMMA ScriptInit == Init => ScriptInv /\ Unharmed
<1> SUFFICES ASSUME Init PROVE ScriptInv /\ Unharmed
  OBVIOUS
<1>1. dest \in Works /\ backup = None /\ script = "none" /\ held = FALSE
      /\ upgradeRunning = FALSE
  BY ProgramAssumption DEF Init
<1> QED
  BY <1>1 DEF ScriptInv, Running, BeforeMove, BackupWorks, SomethingToRun, Unharmed

LEMMA ScriptNext == TypeOK /\ ScriptInv /\ [Next]_vars => ScriptInv'
<1> SUFFICES ASSUME TypeOK, ScriptInv, [Next]_vars PROVE ScriptInv'
  OBVIOUS
<1> USE DEF ScriptInv, Running, BeforeMove, BackupWorks, SomethingToRun
<1>0. None \notin Works /\ Works \cap Hangs = {}
  BY ProgramAssumption
<1>1. ASSUME NEW f \in Program \cup Push, Upload(f) PROVE ScriptInv'
  BY <1>1 DEF Upload, files, service
<1>17. CASE Maintain
  BY <1>17 DEF Maintain, files, service
<1>2. ASSUME NEW url \in Program \cup {Latest}, Order(url) PROVE ScriptInv'
  BY <1>2 DEF Order, files, service
<1>3. CASE StartUpgrade
  <2>1. up /\ dest \in Works /\ ~held
    BY <1>0, <1>3 DEF StartUpgrade, Accepts
  <2> QED
    BY <1>3, <2>1 DEF StartUpgrade, Accepts
<1>4. CASE FailUpgrade
  BY <1>4 DEF FailUpgrade, service
<1>5. CASE RefuseUpgrade \/ LoseOrder
  BY <1>5 DEF RefuseUpgrade, LoseOrder, files, service
<1>6. CASE Exit
  BY <1>6 DEF Exit, files
<1>7. CASE Revive
  <2>1. /\ up' => dest \in Works
        /\ held' => dest \in Hangs
        /\ upgradeRunning' => upgradeRunning
    BY <1>7, StartRuns DEF Revive
  <2>2. /\ dest' = dest /\ backup' = backup /\ script' = script
        /\ script \notin {"stop", "clear", "move"}
    BY <1>7 DEF Revive
  <2> QED
    BY <2>1, <2>2
<1>8. CASE KillHung
  BY <1>8 DEF KillHung, files
<1>9. CASE Stop \/ Halt
  BY <1>9 DEF Stop, Halt, StopService, files
<1>10. CASE Clear
  BY <1>10 DEF Clear, service
<1>11. CASE MoveAway
  <2>1. dest \in Works /\ ~held /\ ~up /\ ~upgradeRunning
    BY <1>11 DEF MoveAway
  <2>2. up' = up /\ held' = held /\ upgradeRunning' = upgradeRunning
    BY <1>11 DEF MoveAway, service
  <2>3. CASE backup' = dest /\ dest' = None
    BY <1>0, <1>11, <2>1, <2>2, <2>3 DEF MoveAway
  <2>4. CASE dest' = dest /\ backup' = backup
    BY <1>0, <1>11, <2>1, <2>2, <2>4 DEF MoveAway
  <2> QED
    BY <1>11, <2>3, <2>4 DEF MoveAway
<1>12. CASE Copy \/ Restore
  <2>1. /\ script' \in {"halt", "start", "again"} /\ backup' = backup /\ backup \in Works
        /\ up' = up /\ held' = held /\ upgradeRunning' = upgradeRunning
        /\ ~upgradeRunning
    BY <1>12 DEF Copy, Restore, service
  <2>2. (up' => dest' \in Works) /\ (held' => dest' \in Hangs)
    BY <1>12, <2>1, CopyRuns DEF Copy, Restore
  <2> QED
    BY <2>1, <2>2
<1>13. CASE Start \/ StartAgain
  <2>1. dest' = dest /\ backup' = backup /\ script' \in {"query", "none"}
        /\ backup \in Works /\ ~upgradeRunning
    BY <1>13 DEF Start, StartAgain, files
  <2>2. (up' => dest' \in Works) /\ (held' => dest' \in Hangs) /\ ~upgradeRunning'
    BY <1>13, <2>1, StartRuns DEF Start, StartAgain
  <2> QED
    BY <2>1, <2>2
<1>14. CASE Query
  BY <1>14 DEF Query, service
<1>15. CASE Power
  <2>1. /\ backup' = backup /\ script' = "none"
        /\ up' = FALSE /\ held' = FALSE /\ upgradeRunning' = FALSE
    BY <1>15 DEF Power
  <2>2. dest' = dest \/ script \in {"copy", "restore"}
    BY <1>15 DEF Power
  <2> QED
    BY <2>1, <2>2
<1>16. CASE UNCHANGED vars
  BY <1>16 DEF vars, files, service
<1> QED
  BY <1>1, <1>2, <1>3, <1>4, <1>5, <1>6, <1>7, <1>8, <1>9, <1>10, <1>11, <1>12,
     <1>13, <1>14, <1>15, <1>16, <1>17 DEF Next, Script

\* Whatever fails during upgrades, the device has a program that comes up.
THEOREM AlwaysSomethingToRun == Safety => []SomethingToRun
<1>1. TypeOK /\ ScriptInv /\ [Next]_vars => TypeOK' /\ ScriptInv'
  BY TypeNext, ScriptNext
<1>2. Init => TypeOK /\ ScriptInv
  BY TypeInit, ScriptInit
<1>3. ScriptInv => SomethingToRun
  BY DEF ScriptInv
<1> QED
  BY <1>1, <1>2, <1>3, PTL DEF Safety

-----------------------------------------------------------------------------
(* How an upgrade without a fault ends.                                    *)

LEMMA NoFault ==
    ASSUME NEW content, NEW kind, CopyOnto(content, kind), TypeOK, hit' = {}
    PROVE  hit = {} /\ dest' = IF Open THEN dest ELSE content
BY FaultType DEF CopyOnto, TypeOK

LEMMA UnharmedNext == Inv /\ [Next]_vars => Unharmed'
<1> SUFFICES ASSUME Inv, [Next]_vars, hit' = {} PROVE Unharmed'
  BY DEF Unharmed
<1> USE DEF Unharmed
<1>0. TypeOK /\ ScriptInv /\ Running /\ BeforeMove /\ BackupWorks /\ Unharmed
  BY DEF Inv, ScriptInv
<1>1. ASSUME NEW f \in Program \cup Push, Upload(f) PROVE Unharmed'
  <2>1. hit = {}
    BY <1>0, <1>1, FaultType DEF Upload, TypeOK
  <2> QED
    BY <1>0, <1>1, <2>1 DEF Upload, files, service
<1>19. CASE Maintain
  BY <1>0, <1>19 DEF Maintain, files, service
<1>2. ASSUME NEW url \in Program \cup {Latest}, Order(url) PROVE Unharmed'
  BY <1>0, <1>2 DEF Order, files, service
<1>3. CASE StartUpgrade
  BY <1>0, <1>3 DEF StartUpgrade, Accepts
<1>4. CASE FailUpgrade
  BY <1>0, <1>4 DEF FailUpgrade, Accepts
<1>5. CASE RefuseUpgrade \/ LoseOrder
  BY <1>0, <1>5 DEF RefuseUpgrade, LoseOrder, files, service
<1>6. CASE Exit
  BY <1>0, <1>6 DEF Exit, files, Running
<1>7. CASE Revive
  <2>1. /\ dest' = dest /\ backup' = backup /\ script' = script /\ hit' = hit
        /\ script # "none" => fetched' = fetched
    BY <1>7 DEF Revive
  <2>2. up => dest \in Works
    BY <1>0 DEF Running
  <2>3. CASE Open
    <3>1. up' = up
      BY <1>7, <2>3 DEF Revive
    <3> QED
      BY <1>0, <2>1, <3>1
  <2>4. CASE ~Open
    <3>1. dest \in Works => up'
      BY <1>0, <1>7, <2>1, <2>4, StartRuns DEF Revive
    <3> QED
      BY <1>0, <2>1, <3>1
  <2> QED
    BY <2>3, <2>4
<1>8. CASE KillHung
  BY <1>0, <1>8 DEF KillHung, files
<1>9. CASE Stop \/ Halt
  BY <1>0, <1>9 DEF Stop, Halt, StopService, files
<1>10. CASE Clear
  BY <1>0, <1>10 DEF Clear, service
<1>11. CASE MoveAway
  <2>1. hit = {} /\ dest' = None
    BY <1>0, <1>11, FaultType DEF MoveAway, TypeOK
  <2> QED
    BY <1>0, <1>11, <2>1 DEF MoveAway
<1>12. CASE Copy
  <2>1. hit = {} /\ dest' = IF Open THEN dest ELSE fetched
    BY <1>0, <1>12, NoFault DEF Copy
  <2>2. dest = None /\ None \notin Works \cup Hangs
    BY <1>0, <1>12, <2>1, ProgramAssumption DEF Copy
  <2>3. ~Open
    BY <1>0, <2>2 DEF Open, Running
  <2>4. dest' = fetched /\ fetched' = fetched /\ script' \in {"halt", "start"}
        /\ (script' = "halt" => dest' = None)
    BY <1>12, <2>1, <2>3 DEF Copy
  <2> QED
    BY <2>2, <2>4
<1>13. CASE Start
  <2>1. dest' = dest /\ script' = "query" /\ fetched' = fetched /\ hit' = hit
    BY <1>13 DEF Start, files
  <2>2. dest \in Works => up'
    BY <1>0, <1>13, <2>1, StartRuns DEF Start
  <2> QED
    BY <1>0, <1>13, <2>1, <2>2 DEF Start
<1>14. CASE Query
  BY <1>0, <1>14 DEF Query, service
<1>15. CASE Restore
  <2>1. hit = {} /\ dest' = IF Open THEN dest ELSE backup
    BY <1>0, <1>15, NoFault DEF Restore
  <2>2. dest \notin Works
    BY <1>0, <1>15, <2>1 DEF Restore
  <2>3. Open => dest \in Hangs
    BY <1>0, <2>2 DEF Open, Running
  <2>4. script' = "again" /\ backup' = backup /\ fetched' = fetched /\ fetched \notin Works
    BY <1>0, <1>15, <2>1 DEF Restore
  <2>5. dest' = backup \/ dest' \in Hangs
    BY <2>1, <2>3
  <2> QED
    BY <2>4, <2>5
<1>16. CASE StartAgain
  BY <1>0, <1>16 DEF StartAgain, files
<1>17. CASE Power
  BY <1>17, <1>0, FaultType DEF Power, TypeOK
<1>18. CASE UNCHANGED vars
  BY <1>0, <1>18 DEF vars, files, service
<1> QED
  BY <1>1, <1>2, <1>3, <1>4, <1>5, <1>6, <1>7, <1>8, <1>9, <1>10, <1>11, <1>12,
     <1>13, <1>14, <1>15, <1>16, <1>17, <1>18, <1>19 DEF Next, Script

\* The step that ends the script.
LEMMA EndNext ==
    ASSUME Inv, [Next]_vars,
           script \in {"query", "again"}, script' = "none", hit' = {}, dest \notin Hangs
    PROVE  up' /\ dest' = (IF fetched \in Works THEN fetched ELSE backup)
<1>0. TypeOK /\ Running /\ BackupWorks /\ Unharmed
  BY DEF Inv, ScriptInv
<1>1. CASE Query
  <2>1. script = "query" /\ up /\ up' = up /\ dest' = dest /\ hit' = hit
    BY <1>1 DEF Query, service
  <2>2. dest \in Works /\ dest = fetched
    BY <1>0, <2>1 DEF Unharmed, Running
  <2> QED
    BY <2>1, <2>2
<1>2. CASE StartAgain
  <2>1. script = "again" /\ dest' = dest /\ hit' = hit
    BY <1>2 DEF StartAgain, files
  <2>2. dest = backup /\ backup \in Works /\ fetched \notin Works
    BY <1>0, <2>1 DEF Unharmed, BackupWorks
  <2>3. up'
    BY <1>0, <1>2, <2>1, <2>2, StartRuns DEF StartAgain
  <2> QED
    BY <2>1, <2>2, <2>3
<1>3. CASE Power
  BY <1>0, <1>3, FaultType DEF Power, TypeOK
<1>4. Query \/ StartAgain \/ Power
  <2>1. script' # script
    OBVIOUS
  <2>2. ASSUME NEW f \in Program \cup Push, Upload(f) PROVE FALSE
    BY <2>1, <2>2 DEF Upload
  <2>3. ASSUME NEW url \in Program \cup {Latest}, Order(url) PROVE FALSE
    BY <2>1, <2>3 DEF Order
  <2>4. ~StartUpgrade /\ ~FailUpgrade /\ ~RefuseUpgrade /\ ~LoseOrder /\ ~Exit
    BY <2>1 DEF StartUpgrade, FailUpgrade, RefuseUpgrade, LoseOrder, Exit, Accepts
  <2>5. ~Revive /\ ~KillHung
    BY <2>1 DEF Revive, KillHung
  <2>6. ~Stop /\ ~Clear /\ ~MoveAway /\ ~Copy /\ ~Start /\ ~Halt /\ ~Restore
    BY DEF Stop, Clear, MoveAway, Copy, Start, Halt, Restore
  <2>7. ~Maintain /\ ~UNCHANGED vars
    BY <2>1 DEF Maintain, vars
  <2> QED
    BY <2>2, <2>3, <2>4, <2>5, <2>6, <2>7 DEF Next, Script
<1> QED
  BY <1>1, <1>2, <1>3, <1>4

\* If nothing fails the script ends with the service running: with the new
\* program exactly if that is one that comes up, else with the previous one.
THEOREM EndsRight == Safety => EndsAsIntended
<1>1. Init => Inv
  BY TypeInit, ScriptInit DEF Inv
<1>2. Inv /\ [Next]_vars => Inv'
  BY TypeNext, ScriptNext, UnharmedNext DEF Inv
<1>3. Inv /\ [Next]_vars =>
        [(/\ script \in {"query", "again"} /\ script' = "none"
          /\ hit' = {}
          /\ dest \notin Hangs)
              => up' /\ dest' = (IF fetched \in Works THEN fetched ELSE backup)]_vars
  BY EndNext
<1> QED
  BY <1>1, <1>2, <1>3, PTL DEF Safety, EndsAsIntended

-----------------------------------------------------------------------------
(* How an upgrade with a delete or a copy that fails ends: what              *)
(* ServiceReturns rests on, for all programs.                                *)

Mendable == {"remove", "del", "copy"}

\* The script ends with the service running, or with a program that hangs in
\* its place.
EndsRunning ==
    [][(script # "none" /\ script' = "none" /\ hit' \subseteq Mendable)
            => up' \/ dest' \in Hangs]_vars

\* The rollback leaves something behind that comes up or hangs.
Mended == hit \subseteq Mendable /\ script = "again" => dest \in Works \cup Hangs

LEMMA HitGrows == TypeOK /\ [Next]_vars => hit \subseteq hit'
BY DEF TypeOK, Next, Script, Upload, Maintain, Order, StartUpgrade, FailUpgrade, RefuseUpgrade,
       LoseOrder, Exit, Revive, KillHung, Stop, Clear, MoveAway, Copy, Start, Query,
       Halt, Restore, StartAgain, Power, CopyOnto, Fault, vars

LEMMA MendedNext == TypeOK /\ ScriptInv /\ Mended /\ [Next]_vars => Mended'
<1> SUFFICES ASSUME TypeOK, ScriptInv, Mended, [Next]_vars,
                    hit' \subseteq Mendable, script' = "again"
             PROVE  dest' \in Works \cup Hangs
  BY DEF Mended
<1>1. CASE Restore
  <2>1. dest' = IF Open THEN dest ELSE backup
    BY <1>1 DEF Restore, CopyOnto, Fault, Mendable, TypeOK
  <2>2. (Open => dest \in Works \cup Hangs) /\ backup \in Works
    BY <1>1 DEF Restore, Open, ScriptInv, Running, BackupWorks
  <2> QED BY <2>1, <2>2
<1>2. CASE ~Restore
  <2>1. script = "again" /\ dest' = dest
    BY <1>2 DEF Next, Script, Upload, Maintain, Order, StartUpgrade, FailUpgrade, RefuseUpgrade,
           LoseOrder, Exit, Revive, KillHung, Stop, Clear, MoveAway, Copy, Start, Query,
           Halt, StartAgain, Power, vars, files
  <2> QED BY <2>1, HitGrows DEF Mended
<1> QED BY <1>1, <1>2

LEMMA EndsRunningNext ==
    ASSUME TypeOK, ScriptInv, Mended, [Next]_vars,
           script # "none", script' = "none", hit' \subseteq Mendable
    PROVE  up' \/ dest' \in Hangs
<1>1. CASE Query
  BY <1>1 DEF Query, service
<1>2. CASE StartAgain
  <2>1. script = "again" /\ dest' = dest /\ hit' = hit
    BY <1>2 DEF StartAgain, files
  <2>2. dest \in Works \cup Hangs
    BY <2>1 DEF Mended
  <2>3. dest \in Works => up'
    BY <1>2, <2>1, StartRuns DEF StartAgain, ScriptInv
  <2> QED BY <2>1, <2>2, <2>3
<1>3. ~MoveAway
  BY ProgramAssumption DEF MoveAway, Fault, Mendable, ScriptInv, BeforeMove
<1>4. ~Power
  BY DEF Power, Fault, Mendable
<1>5. Query \/ StartAgain \/ MoveAway \/ Power
  BY DEF Next, Script, Upload, Maintain, Order, StartUpgrade, FailUpgrade, RefuseUpgrade,
         LoseOrder, Exit, Revive, KillHung, Stop, Clear, Copy, Start, Halt, Restore,
         Accepts, vars
<1> QED BY <1>1, <1>2, <1>3, <1>4, <1>5

\* A delete or a copy that fails is mended by the rollback: the service runs
\* when the script ends, unless a program that hangs holds the file.
THEOREM EndsUp == Safety => EndsRunning
<1>1. Init => Mended
  BY DEF Init, Mended
<1>2. TypeOK /\ ScriptInv /\ [Next]_vars => TypeOK' /\ ScriptInv'
  BY TypeNext, ScriptNext
<1>3. Init => TypeOK /\ ScriptInv
  BY TypeInit, ScriptInit
<1>4. TypeOK /\ ScriptInv /\ Mended /\ [Next]_vars =>
        [(script # "none" /\ script' = "none" /\ hit' \subseteq Mendable)
            => up' \/ dest' \in Hangs]_vars
  BY EndsRunningNext
<1> QED
  BY <1>1, <1>2, <1>3, <1>4, MendedNext, PTL DEF Safety, EndsRunning
=============================================================================
