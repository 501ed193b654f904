-------------------------- MODULE TaskFlow_proofs --------------------------
(* What TLAPS proves of TaskFlow, for any set of rows, either kind of task,  *)
(* and any bounds on concurrency, cancels and faults.                        *)
EXTENDS TaskFlow, TLAPS

LEMMA VerdictType ==
    ASSUME NEW S
    PROVE  Verdict(S) \in TaskEnd \cup {"none"}
BY DEF Verdict, TaskEnd

-----------------------------------------------------------------------------

\* Every reachable state has its type.
THEOREM TypeCorrect == Safety => []TypeOK
<1>1. Init => TypeOK
  <2>1. Init => missed \in BOOLEAN
    BY DEF Init
  <2> QED
    BY <2>1, BoundsAssumption
       DEF Init, TypeOK, TaskStatus, ResultStatus, TERMINAL_STATUSES, CreatorAt,
           Answer, TaskEnd
<1>2. TypeOK /\ [Next]_vars => TypeOK'
  <2> SUFFICES ASSUME TypeOK, [Next]_vars
               PROVE  TypeOK'
    OBVIOUS
  <2> USE BoundsAssumption
      DEF TypeOK, TaskStatus, ResultStatus, TERMINAL_STATUSES, CreatorAt, Answer,
          TaskEnd, dbVars, createVars, agentVars, handlerVars, cancelVars, pollVars
  <2>1. CASE CreateTask BY <2>1 DEF CreateTask
  <2>2. CASE MarkRunning BY <2>2 DEF MarkRunning
  <2>3. CASE CommitDispatch
    <3>1. result' \in [Row -> ResultStatus]
      BY <2>3 DEF CommitDispatch, rows
    <3> QED BY <2>3, <3>1 DEF CommitDispatch
  <2>4. CASE ConcludeCreate BY <2>4 DEF ConcludeCreate
  <2>5. ASSUME NEW r \in Row, DispatchOffline(r) PROVE TypeOK'
    BY <2>5 DEF DispatchOffline
  <2>6. ASSUME NEW r \in Row, DispatchSend(r) PROVE TypeOK'
    BY <2>6 DEF DispatchSend
  <2>7. ASSUME NEW r \in Row, DispatchReturn(r) PROVE TypeOK'
    BY <2>7 DEF DispatchReturn
  <2>8. ASSUME NEW r \in Row, Agent(r) PROVE TypeOK'
    BY <2>8 DEF Agent, Execute, Disconnect, Orphan, Lost,
                Reconnect, Link!Break, Link!Orphan, Link!Connect
  <2>9. ASSUME NEW r \in Row, StoreAnswer(r) PROVE TypeOK'
    BY <2>9 DEF StoreAnswer
  <2>10. ASSUME NEW r \in Row, Judge(r) PROVE TypeOK'
    BY <2>10, VerdictType DEF Judge
  <2>11. ASSUME NEW r \in Row, SyncParent(r), verdict[r] # "none" PROVE TypeOK'
    BY <2>11 DEF SyncParent
  <2>12. ASSUME NEW r \in Row, SyncParent(r), verdict[r] = "none" PROVE TypeOK'
    BY <2>12 DEF SyncParent
  <2>13. ASSUME NEW r \in Row, StartedAges(r) PROVE TypeOK'
    BY <2>13 DEF StartedAges
  <2>14. CASE AdmitCancel BY <2>14 DEF AdmitCancel
  <2>15. CASE CommitCancel BY <2>15 DEF CommitCancel
  <2>16. CASE PollTask \/ PollRows \/ CommitTimeout
    BY <2>16 DEF PollTask, PollRows, Overdue, CommitTimeout
  <2>17. CASE ServerCrash BY <2>17 DEF ServerCrash, NoSession, Fault, Link!Restart
  <2>18. CASE UNCHANGED vars BY <2>18 DEF vars
  <2>19. ASSUME NEW r \in Row, HandlerRaises(r) PROVE TypeOK'
    BY <2>19 DEF HandlerRaises, Fault
  <2>20. CASE RequestRaises BY <2>20 DEF RequestRaises, NoSession, Fault
  <2> QED BY <2>1, <2>2, <2>3, <2>4, <2>5, <2>6, <2>7, <2>8, <2>9, <2>10, <2>11,
             <2>12, <2>13, <2>14, <2>15, <2>16, <2>17, <2>18, <2>19, <2>20
          DEF Next, Dispatch, Handle
<1> QED BY <1>1, <1>2, PTL DEF Safety

-----------------------------------------------------------------------------
(* At most one answer per row.                                             *)

\* A command is sent once, so that a row is answered once; whatever refers to
\* a row refers to one that exists.
AnswerInv ==
    /\ \A r \in Row :
        /\ mem[r] = "pending" => job[r] = "none" /\ answer[r] = "none"
        /\ mem[r] # "none" => result[r] # "none"
        /\ job[r] # "none" => result[r] # "none" /\ answer[r] = "none"
        /\ r \in due => result[r] # "none"
        /\ handler[r] = "judged" => verdict[r] # "none"
        /\ handler[r] = "stored" => answer[r] # "none"
    /\ creator = "idle" =>
        /\ task = "none" /\ canceller = "idle" /\ poller = "idle"
        /\ \A r \in Row : /\ result[r] = "none" /\ mem[r] = "none" /\ job[r] = "none"
                          /\ answer[r] = "none" /\ handler[r] = "idle"
                          /\ verdict[r] = "none" /\ r \notin due
    /\ \A r \in Row : handler[r] # "judged" => verdict[r] = "none"

LEMMA AnswerInvStep == TypeOK /\ AnswerInv /\ [Next]_vars => AnswerInv'
<1> SUFFICES ASSUME TypeOK, AnswerInv, [Next]_vars
             PROVE  AnswerInv'
  OBVIOUS
<1> USE DEF TypeOK, AnswerInv, ResultStatus, TERMINAL_STATUSES, CreatorAt, Answer,
            dbVars, createVars, agentVars, handlerVars, cancelVars, pollVars
<1>1. CASE CreateTask BY <1>1 DEF CreateTask
<1>2. CASE MarkRunning BY <1>2 DEF MarkRunning
<1>3. CASE CommitDispatch BY <1>3 DEF CommitDispatch, rows
<1>4. CASE ConcludeCreate BY <1>4 DEF ConcludeCreate
<1>5. ASSUME NEW r \in Row, DispatchOffline(r) PROVE AnswerInv'
  BY <1>5 DEF DispatchOffline
<1>6. ASSUME NEW r \in Row, DispatchSend(r) PROVE AnswerInv'
  BY <1>6 DEF DispatchSend
<1>7. ASSUME NEW r \in Row, DispatchReturn(r) PROVE AnswerInv'
  BY <1>7 DEF DispatchReturn
<1>8. ASSUME NEW r \in Row, Agent(r) PROVE AnswerInv'
  BY <1>8 DEF Agent, Execute, Disconnect, Orphan, Reconnect, Lost
<1>9. ASSUME NEW r \in Row, StoreAnswer(r) PROVE AnswerInv'
  BY <1>9 DEF StoreAnswer
<1>10. ASSUME NEW r \in Row, Judge(r) PROVE AnswerInv'
  BY <1>10 DEF Judge
<1>11. ASSUME NEW r \in Row, SyncParent(r) PROVE AnswerInv'
  BY <1>11 DEF SyncParent
<1>12. ASSUME NEW r \in Row, StartedAges(r) PROVE AnswerInv'
  BY <1>12 DEF StartedAges
<1>13. CASE AdmitCancel BY <1>13 DEF AdmitCancel
<1>14. CASE CommitCancel BY <1>14 DEF CommitCancel
<1>15. CASE PollTask BY <1>15 DEF PollTask
<1>16. CASE PollRows BY <1>16 DEF PollRows, Overdue
<1>17. CASE CommitTimeout BY <1>17 DEF CommitTimeout
<1>18. CASE ServerCrash BY <1>18 DEF ServerCrash, NoSession
<1>19. CASE UNCHANGED vars BY <1>19 DEF vars
<1>20. ASSUME NEW r \in Row, HandlerRaises(r) PROVE AnswerInv'
  BY <1>20 DEF HandlerRaises
<1>21. CASE RequestRaises BY <1>21 DEF RequestRaises, NoSession
<1> QED BY <1>1, <1>2, <1>3, <1>4, <1>5, <1>6, <1>7, <1>8, <1>9, <1>10, <1>11,
           <1>12, <1>13, <1>14, <1>15, <1>16, <1>17, <1>18, <1>19, <1>20, <1>21
        DEF Next, Dispatch, Handle
LEMMA AnswerInvAlways == Safety => []AnswerInv
<1>1. Init => AnswerInv
  BY DEF Init, AnswerInv
<1> QED BY <1>1, AnswerInvStep, TypeCorrect, PTL DEF Safety

\* An answer, once recorded, is the row's only one.
LEMMA AnswerStable ==
    ASSUME TypeOK, AnswerInv, [Next]_vars, NEW q \in Row, answer[q] # "none"
    PROVE  answer'[q] = answer[q]
<1> USE DEF TypeOK, AnswerInv, Answer
<1>1. ASSUME NEW r \in Row, StoreAnswer(r) PROVE answer'[q] = answer[q]
  BY <1>1 DEF StoreAnswer
<1>2. CASE UNCHANGED answer
  BY <1>2
<1> QED BY <1>1, <1>2
        DEF Next, Dispatch, Handle, Agent, CreateTask, MarkRunning, CommitDispatch,
            ConcludeCreate, DispatchOffline, DispatchSend, DispatchReturn, Execute,
            Disconnect, Orphan, Reconnect, Judge, SyncParent, StartedAges,
            AdmitCancel, CommitCancel, PollTask, PollRows, CommitTimeout,
            ServerCrash, HandlerRaises, RequestRaises, vars, handlerVars

\* The set of rows is fixed by create_task.
LEMMA RowsStable ==
    ASSUME TypeOK, AnswerInv, [Next]_vars, creator # "idle"
    PROVE  rows' = rows
<1> USE DEF TypeOK, AnswerInv, Answer, rows
<1>1. CASE CommitDispatch BY <1>1 DEF CommitDispatch
<1>2. ASSUME NEW r \in Row, StoreAnswer(r) PROVE rows' = rows
  BY <1>2 DEF StoreAnswer
<1>3. CASE CommitCancel BY <1>3 DEF CommitCancel
<1>4. CASE CommitTimeout BY <1>4 DEF CommitTimeout
<1>5. CASE UNCHANGED result BY <1>5
<1> QED BY <1>1, <1>2, <1>3, <1>4, <1>5
        DEF Next, Dispatch, Handle, Agent, CreateTask, MarkRunning,
            ConcludeCreate, DispatchOffline, DispatchSend, DispatchReturn, Execute,
            Disconnect, Orphan, Reconnect, Judge, SyncParent, StartedAges,
            AdmitCancel, PollTask, PollRows, ServerCrash, HandlerRaises,
            RequestRaises, vars, dbVars

-----------------------------------------------------------------------------
(* Success and COMPLETED are never made up.                                *)

\* No writer of a row other than the handler of its answer writes success.
THEOREM SuccessAnswered == Safety => []SuccessMeansAnswered
<1>1. Init => SuccessMeansAnswered
  BY DEF Init, SuccessMeansAnswered
<1>2. TypeOK /\ AnswerInv /\ SuccessMeansAnswered /\ [Next]_vars
        => SuccessMeansAnswered'
  <2> SUFFICES ASSUME TypeOK, AnswerInv, SuccessMeansAnswered, [Next]_vars,
                      NEW q \in Row, result'[q] = "success"
               PROVE  answer'[q] = "success"
    BY DEF SuccessMeansAnswered
  <2>1. ASSUME NEW r \in Row, StoreAnswer(r) PROVE answer'[q] = "success"
    BY <2>1 DEF StoreAnswer, TypeOK, SuccessMeansAnswered
  <2>2. CASE CreateTask \/ CommitDispatch \/ CommitCancel \/ CommitTimeout
    <3>1. result[q] = "success"
      BY <2>2 DEF CreateTask, CommitDispatch, CommitCancel, CommitTimeout, TypeOK
    <3> QED BY <3>1, AnswerStable DEF SuccessMeansAnswered
  <2>3. CASE UNCHANGED result
    BY <2>3, AnswerStable DEF SuccessMeansAnswered
  <2> QED BY <2>1, <2>2, <2>3
          DEF Next, Dispatch, Handle, Agent, MarkRunning, ConcludeCreate,
              DispatchOffline, DispatchSend, DispatchReturn, Execute, Disconnect,
              Orphan, Reconnect, Judge, SyncParent, StartedAges, AdmitCancel,
              PollTask, PollRows, ServerCrash, HandlerRaises, RequestRaises, vars,
              dbVars
<1> QED BY <1>1, <1>2, TypeCorrect, AnswerInvAlways, PTL DEF Safety

AllAnswered == rows # {} /\ \A q \in rows : answer[q] = "success"

\* A "completed" that a handler has computed and not written yet is already
\* justified, and stays so while other handlers run.
VerdictInv == \A r \in Row : verdict[r] = "completed" => AllAnswered

CompletedInv == VerdictInv /\ CompletedMeansAnswered

LEMMA AllAnsweredStable ==
    ASSUME TypeOK, AnswerInv, [Next]_vars, creator # "idle", AllAnswered
    PROVE  AllAnswered'
BY RowsStable, AnswerStable DEF AllAnswered, rows

\* The verdict is "completed" only over rows that all show success, and then
\* the agents said so.
LEMMA JudgedCompleted ==
    ASSUME SuccessMeansAnswered, NEW r \in Row, Verdict(SeenBy(r)) = "completed"
    PROVE  AllAnswered
<1>1. SeenBy(r) = {"success"}
  BY DEF Verdict
<1>2. rows # {}
  BY <1>1 DEF SeenBy
<1>3. ASSUME NEW q \in rows PROVE answer[q] = "success"
  <2>1. (IF q = r THEN answer[r] ELSE result[q]) = "success"
    BY <1>1 DEF SeenBy
  <2> QED BY <2>1 DEF SuccessMeansAnswered, rows
<1> QED BY <1>2, <1>3 DEF AllAnswered

LEMMA CompletedInvStep ==
    TypeOK /\ AnswerInv /\ SuccessMeansAnswered /\ CompletedInv /\ [Next]_vars
        => CompletedInv'
<1> SUFFICES ASSUME TypeOK, AnswerInv, SuccessMeansAnswered, CompletedInv, [Next]_vars
             PROVE  CompletedInv'
  OBVIOUS
<1>1. CASE creator = "idle"
  <2>1. CASE CreateTask
    BY <1>1, <2>1
       DEF CreateTask, CompletedInv, VerdictInv, CompletedMeansAnswered, AnswerInv,
           handlerVars
  <2>2. CASE ~CreateTask
    <3>1. task' = "none" /\ \A r \in Row : verdict'[r] = "none"
      BY <1>1, <2>2
         DEF AnswerInv, TypeOK, Answer, Next, Dispatch, Handle, Agent, MarkRunning,
             CommitDispatch, ConcludeCreate, DispatchOffline, DispatchSend,
             DispatchReturn, Execute, Disconnect, Orphan, Reconnect, StoreAnswer,
             Judge, SyncParent, StartedAges, AdmitCancel, CommitCancel, PollTask,
             PollRows, CommitTimeout, ServerCrash, HandlerRaises, RequestRaises,
             vars, dbVars, handlerVars
    <3> QED BY <3>1 DEF CompletedInv, VerdictInv, CompletedMeansAnswered
  <2> QED BY <2>1, <2>2
<1>2. CASE creator # "idle"
  <2>1. AllAnswered => AllAnswered'
    BY <1>2, AllAnsweredStable
  <2>2. ASSUME NEW r \in Row, Judge(r) PROVE CompletedInv'
    <3>1. ASSUME NEW q \in Row, verdict'[q] = "completed" PROVE AllAnswered
      <4>1. CASE q = r
        <5>1. Verdict(SeenBy(r)) = "completed"
          BY <2>2, <3>1, <4>1 DEF Judge, TypeOK
        <5> QED BY <5>1, JudgedCompleted
      <4>2. CASE q # r
        BY <2>2, <3>1, <4>2 DEF Judge, TypeOK, CompletedInv, VerdictInv
      <4> QED BY <4>1, <4>2
    <3>2. VerdictInv'
      BY <3>1, <2>1 DEF VerdictInv
    <3>3. CompletedMeansAnswered'
      BY <2>1, <2>2
         DEF Judge, dbVars, CompletedInv, CompletedMeansAnswered, AllAnswered
    <3> QED BY <3>2, <3>3 DEF CompletedInv
  <2>3. ASSUME NEW r \in Row, SyncParent(r) PROVE CompletedInv'
    BY <2>1, <2>3
       DEF SyncParent, TypeOK, CompletedInv, VerdictInv, CompletedMeansAnswered,
           AllAnswered
  <2>4. CASE /\ task' = "completed" => task = "completed"
             /\ \A r \in Row : verdict'[r] \in {verdict[r], "none"}
    BY <2>1, <2>4 DEF CompletedInv, VerdictInv, CompletedMeansAnswered, AllAnswered
  <2>5. ASSUME NEW r \in Row, HandlerRaises(r) PROVE CompletedInv'
    BY <2>4, <2>5 DEF HandlerRaises, TypeOK, dbVars
  <2> QED
    BY <1>2, <2>2, <2>3, <2>4, <2>5
       DEF Next, Dispatch, Handle, Agent, CreateTask, MarkRunning, CommitDispatch,
           ConcludeCreate, DispatchOffline, DispatchSend, DispatchReturn, Execute,
           Disconnect, Orphan, Reconnect, StoreAnswer, StartedAges, AdmitCancel,
           CommitCancel, PollTask, PollRows, CommitTimeout, ServerCrash,
           RequestRaises, vars,
           dbVars, handlerVars
<1> QED BY <1>1, <1>2

LEMMA CompletedInvAlways == Safety => []CompletedInv
<1>1. Init => CompletedInv
  BY DEF Init, CompletedInv, VerdictInv, CompletedMeansAnswered
<1> QED BY <1>1, CompletedInvStep, TypeCorrect, AnswerInvAlways, SuccessAnswered,
           PTL DEF Safety

\* The task is shown COMPLETED only if every agent has reported success.
THEOREM CompletedAnswered == Safety => []CompletedMeansAnswered
BY CompletedInvAlways, PTL DEF CompletedInv

-----------------------------------------------------------------------------
(* What create_task's commit of the outcomes settles.                      *)

\* Nothing reopens a row or a task after that commit.
THEOREM EndedStays == Safety => EndedStaysEnded
<1> DEFINE Keeps == creator \in {"dispatched", "done", "dead"} =>
              /\ task \in TaskEnd => task' \in TaskEnd
              /\ \A r \in Row : result[r] \in TERMINAL_STATUSES
                                  => result'[r] \in TERMINAL_STATUSES
<1>1. TypeOK /\ AnswerInv /\ [Next]_vars => [Keeps]_vars
  <2> SUFFICES ASSUME TypeOK, AnswerInv, [Next]_vars,
                      creator \in {"dispatched", "done", "dead"}
               PROVE  /\ task \in TaskEnd => task' \in TaskEnd
                      /\ \A r \in Row : result[r] \in TERMINAL_STATUSES
                                          => result'[r] \in TERMINAL_STATUSES
    OBVIOUS
  <2> USE DEF TypeOK, TaskEnd, TERMINAL_STATUSES, Answer
  <2>1. CASE ConcludeCreate BY <2>1 DEF ConcludeCreate
  <2>2. ASSUME NEW r \in Row, StoreAnswer(r) PROVE Keeps
    BY <2>2 DEF StoreAnswer
  <2>3. ASSUME NEW r \in Row, SyncParent(r) PROVE Keeps
    BY <2>3 DEF SyncParent, AnswerInv
  <2>4. CASE CommitCancel BY <2>4 DEF CommitCancel
  <2>5. CASE CommitTimeout BY <2>5 DEF CommitTimeout
  <2>6. CASE UNCHANGED <<task, result>> BY <2>6
  <2> QED
    BY <2>1, <2>2, <2>3, <2>4, <2>5, <2>6
       DEF Next, Dispatch, Handle, Agent, CreateTask, MarkRunning, CommitDispatch,
           DispatchOffline, DispatchSend, DispatchReturn, Execute, Disconnect,
           Orphan, Reconnect, Judge, StartedAges, AdmitCancel, PollTask, PollRows,
           ServerCrash, HandlerRaises, RequestRaises, vars, dbVars
<1> QED BY <1>1, TypeCorrect, AnswerInvAlways, PTL DEF Safety, EndedStaysEnded

\* An answer shown after that commit stands against cancels, against other
\* answers and against any timeout that had not read the row before it.
THEOREM AnswerStands == Safety => StoredAnswerStands
<1> DEFINE Keeps == \A r \in Row :
              (/\ creator \in {"dispatched", "done", "dead"}
               /\ answer[r] # "none" /\ result[r] = answer[r] /\ r \notin due)
                  => result'[r] = result[r]
<1>1. TypeOK /\ AnswerInv /\ [Next]_vars => [Keeps]_vars
  <2> SUFFICES ASSUME TypeOK, AnswerInv, [Next]_vars, NEW q \in Row,
                      creator \in {"dispatched", "done", "dead"},
                      answer[q] # "none", result[q] = answer[q], q \notin due
               PROVE  result'[q] = result[q]
    OBVIOUS
  <2> USE DEF TypeOK, Answer
  <2>1. ASSUME NEW r \in Row, StoreAnswer(r) PROVE result'[q] = result[q]
    BY <2>1 DEF StoreAnswer, AnswerInv
  <2>2. CASE CommitCancel BY <2>2 DEF CommitCancel
  <2>3. CASE CommitTimeout BY <2>3 DEF CommitTimeout
  <2>4. CASE UNCHANGED result BY <2>4
  <2> QED
    BY <2>1, <2>2, <2>3, <2>4
       DEF Next, Dispatch, Handle, Agent, CreateTask, MarkRunning, CommitDispatch,
           ConcludeCreate, DispatchOffline, DispatchSend, DispatchReturn, Execute,
           Disconnect, Orphan, Reconnect, Judge, SyncParent, StartedAges,
           AdmitCancel, PollTask, PollRows, ServerCrash, HandlerRaises,
           RequestRaises, vars, dbVars
<1> QED BY <1>1, TypeCorrect, AnswerInvAlways, PTL DEF Safety, StoredAnswerStands

\* create_task leaves no row pending.
THEOREM NoneLeftPending == Safety => []NoRowLeftPending
<1>1. Init => NoRowLeftPending
  BY DEF Init, NoRowLeftPending
<1>2. TypeOK /\ NoRowLeftPending /\ [Next]_vars => NoRowLeftPending'
  <2> SUFFICES ASSUME TypeOK, NoRowLeftPending, [Next]_vars,
                      creator' \in {"dispatched", "done"}, NEW q \in Row
               PROVE  result'[q] # "pending"
    BY DEF NoRowLeftPending
  <2> USE DEF TypeOK, Answer, NoRowLeftPending
  <2>1. CASE CommitDispatch BY <2>1 DEF CommitDispatch, rows
  <2>2. ASSUME NEW r \in Row, StoreAnswer(r) PROVE result'[q] # "pending"
    BY <2>2 DEF StoreAnswer, createVars
  <2>3. CASE CommitCancel BY <2>3 DEF CommitCancel, createVars
  <2>4. CASE CommitTimeout BY <2>4 DEF CommitTimeout, createVars
  <2>5. CASE UNCHANGED result /\ creator \in {"dispatched", "done"} BY <2>5
  <2> QED
    BY <2>1, <2>2, <2>3, <2>4, <2>5
       DEF Next, Dispatch, Handle, Agent, CreateTask, MarkRunning,
           ConcludeCreate, DispatchOffline, DispatchSend, DispatchReturn, Execute,
           Disconnect, Orphan, Reconnect, Judge, SyncParent, StartedAges,
           AdmitCancel, PollTask, PollRows, ServerCrash, HandlerRaises,
           RequestRaises, vars, dbVars, createVars
<1> QED BY <1>1, <1>2, TypeCorrect, PTL DEF Safety

-----------------------------------------------------------------------------
(* TaskFlow implements TaskPromise.                                        *)

\* Before MarkRunning nobody but a cancel has touched the task, and no row
\* has been dispatched; whoever handles an answer has recorded it.
PromiseInv ==
    /\ \A r \in Row : /\ handler[r] # "idle" => answer[r] # "none"
                      /\ answer[r] # "none" => result[r] # "none"
    /\ creator = "created" =>
        /\ poller = "idle" /\ task \in {"pending", "cancelled"}
        /\ \A r \in Row : result[r] # "none" => mem[r] = "pending"
    /\ creator # "idle" => task # "none"

LEMMA PromiseInvStep ==
    TypeOK /\ AnswerInv /\ PromiseInv /\ [Next]_vars => PromiseInv'
<1> SUFFICES ASSUME TypeOK, AnswerInv, PromiseInv, [Next]_vars
             PROVE  PromiseInv'
  OBVIOUS
<1> USE DEF TypeOK, AnswerInv, PromiseInv, ResultStatus, TERMINAL_STATUSES,
            CreatorAt, Answer, dbVars, createVars, agentVars, handlerVars,
            cancelVars, pollVars
<1>1. CASE CreateTask BY <1>1 DEF CreateTask
<1>2. CASE MarkRunning BY <1>2 DEF MarkRunning
<1>3. CASE CommitDispatch BY <1>3 DEF CommitDispatch, rows
<1>4. CASE ConcludeCreate BY <1>4 DEF ConcludeCreate
<1>5. ASSUME NEW r \in Row, DispatchOffline(r) PROVE PromiseInv'
  BY <1>5 DEF DispatchOffline
<1>6. ASSUME NEW r \in Row, DispatchSend(r) PROVE PromiseInv'
  BY <1>6 DEF DispatchSend
<1>7. ASSUME NEW r \in Row, DispatchReturn(r) PROVE PromiseInv'
  BY <1>7 DEF DispatchReturn
<1>8. ASSUME NEW r \in Row, Agent(r) PROVE PromiseInv'
  BY <1>8 DEF Agent, Execute, Disconnect, Orphan, Reconnect, Lost
<1>9. ASSUME NEW r \in Row, StoreAnswer(r) PROVE PromiseInv'
  BY <1>9 DEF StoreAnswer
<1>10. ASSUME NEW r \in Row, Judge(r) PROVE PromiseInv'
  BY <1>10 DEF Judge
<1>11. ASSUME NEW r \in Row, SyncParent(r) PROVE PromiseInv'
  BY <1>11 DEF SyncParent
<1>12. ASSUME NEW r \in Row, StartedAges(r) PROVE PromiseInv'
  BY <1>12 DEF StartedAges
<1>13. CASE AdmitCancel BY <1>13 DEF AdmitCancel
<1>14. CASE CommitCancel BY <1>14 DEF CommitCancel
<1>15. CASE PollTask BY <1>15 DEF PollTask
<1>16. CASE PollRows BY <1>16 DEF PollRows, Overdue
<1>17. CASE CommitTimeout BY <1>17 DEF CommitTimeout
<1>18. CASE ServerCrash BY <1>18 DEF ServerCrash, NoSession
<1>19. CASE UNCHANGED vars BY <1>19 DEF vars
<1>20. ASSUME NEW r \in Row, HandlerRaises(r) PROVE PromiseInv'
  BY <1>20 DEF HandlerRaises
<1>21. CASE RequestRaises BY <1>21 DEF RequestRaises, NoSession
<1> QED BY <1>1, <1>2, <1>3, <1>4, <1>5, <1>6, <1>7, <1>8, <1>9, <1>10, <1>11,
           <1>12, <1>13, <1>14, <1>15, <1>16, <1>17, <1>18, <1>19, <1>20, <1>21
        DEF Next, Dispatch, Handle

LEMMA PromiseInvAlways == Safety => []PromiseInv
<1>1. Init => PromiseInv
  BY DEF Init, PromiseInv
<1> QED BY <1>1, PromiseInvStep, AnswerInvAlways, TypeCorrect, PTL DEF Safety

\* Every step of TaskFlow is a step of TaskPromise or changes nothing of it.
LEMMA PromiseStep ==
    TypeOK /\ AnswerInv /\ PromiseInv /\ CompletedInv /\ [Next]_vars
        => [Promise!Next]_(Promise!vars)
<1> SUFFICES ASSUME TypeOK, AnswerInv, PromiseInv, CompletedInv, [Next]_vars
             PROVE  [Promise!Next]_(Promise!vars)
  OBVIOUS
<1>1. CASE CreateTask
  <2>1. rows' \in SUBSET Row
    BY DEF rows
  <2>2. Promise!Create
    BY <1>1, <2>1 DEF CreateTask, AnswerInv, handlerVars, Promise!Create
  <2> QED BY <2>2 DEF Promise!Next
<1>2. CASE creator = "idle" /\ ~CreateTask
  <2>1. UNCHANGED <<task, result, answer>>
    BY <1>2
       DEF AnswerInv, TypeOK, Answer, Next, Dispatch, Handle, Agent, MarkRunning,
           CommitDispatch, ConcludeCreate, DispatchOffline, DispatchSend,
           DispatchReturn, Execute, Disconnect, Orphan, Reconnect, StoreAnswer,
           Judge, SyncParent, StartedAges, AdmitCancel, CommitCancel, PollTask,
           PollRows, CommitTimeout, ServerCrash, HandlerRaises, RequestRaises,
           vars, dbVars, handlerVars
  <2> QED BY <2>1 DEF rows, Promise!vars
<1>3. CASE creator # "idle"
  <2>1. rows' = rows
    BY <1>3, RowsStable
  <2>2. CASE MarkRunning
    <3>1. \A r \in rows : answer[r] = "none"
      BY <2>2 DEF MarkRunning, PromiseInv, AnswerInv, rows
    <3>2. CASE task = "cancelled"
      <4>1. Promise!Resume
        BY <2>1, <2>2, <3>1, <3>2 DEF MarkRunning, handlerVars, Promise!Resume
      <4> QED BY <4>1 DEF Promise!Next
    <3>3. CASE task = "pending"
      BY <2>1, <2>2, <3>3 DEF MarkRunning, handlerVars, Promise!vars
    <3> QED BY <2>2, <3>2, <3>3 DEF MarkRunning, PromiseInv
  <2>3. ASSUME NEW r \in Row, StoreAnswer(r) PROVE Promise!Next
    <3>1. r \in rows /\ answer[r] = "none" /\ job[r] \in {"success", "failed"}
      BY <2>3 DEF StoreAnswer, AnswerInv, Answer, rows
    <3>2. Promise!Report(r)
      BY <2>1, <2>3, <3>1 DEF StoreAnswer, Promise!Report
    <3> QED BY <3>2 DEF Promise!Next
  <2>4. ASSUME NEW r \in Row, SyncParent(r) PROVE Promise!Next
    <3>1. task # "none" /\ UNCHANGED answer
      BY <1>3, <2>4 DEF SyncParent, PromiseInv
    <3>2. CASE task' = "completed"
      <4>1. AllAnswered
        BY <2>4, <3>2 DEF SyncParent, CompletedInv, VerdictInv
      <4>2. Promise!Complete
        BY <2>1, <3>1, <3>2, <4>1 DEF AllAnswered, Promise!Complete
      <4> QED BY <4>2 DEF Promise!Next
    <3>3. CASE task' \in {"failed", "cancelled"}
      <4>1. Promise!GiveUp
        BY <2>1, <3>1, <3>3 DEF Promise!GiveUp
      <4> QED BY <4>1 DEF Promise!Next
    <3> QED BY <2>4, <3>2, <3>3 DEF SyncParent, AnswerInv, TypeOK, TaskEnd
  <2>5. CASE task' \in {"failed", "cancelled"} /\ UNCHANGED answer
    <3>1. Promise!GiveUp
      BY <1>3, <2>1, <2>5 DEF PromiseInv, Promise!GiveUp
    <3> QED BY <3>1 DEF Promise!Next
  <2>6. CASE UNCHANGED <<task, answer>>
    BY <2>1, <2>6 DEF Promise!vars
  <2> QED
    BY <1>3, <2>2, <2>3, <2>4, <2>5, <2>6
       DEF Next, Dispatch, Handle, Agent, CreateTask, CommitDispatch,
           ConcludeCreate, DispatchOffline, DispatchSend, DispatchReturn, Execute,
           Disconnect, Orphan, Reconnect, Judge, StartedAges, AdmitCancel,
           CommitCancel, PollTask, PollRows, CommitTimeout, ServerCrash,
           HandlerRaises, RequestRaises, vars,
           dbVars, handlerVars
<1> QED BY <1>1, <1>2, <1>3

\* Whatever is cancelled, timed out, lost or overtaken on the way, the task
\* keeps its promise: the detailed specification implements the abstract one.
THEOREM PromiseKept == Safety => KeepsPromise
<1>1. Init => Promise!Init
  BY DEF Init, rows, Promise!Init
<1> QED BY <1>1, PromiseStep, TypeCorrect, AnswerInvAlways, PromiseInvAlways,
           CompletedInvAlways, PTL
        DEF Safety, KeepsPromise, Promise!Spec

-----------------------------------------------------------------------------
(* At rest, an undisturbed task shows what its rows say.                   *)

Calm == creator # "dead" /\ cancels = 0 /\ ~Upgrade

LEMMA CalmBefore == TypeOK /\ [Next]_vars /\ Calm' => Calm
BY BoundsAssumption
   DEF Calm, TypeOK, CreateTask, Next, Dispatch, Handle, Agent, MarkRunning,
       CommitDispatch, ConcludeCreate, DispatchOffline, DispatchSend,
       DispatchReturn, Execute, Disconnect, Orphan, Reconnect, StoreAnswer,
       Judge, SyncParent, StartedAges, AdmitCancel, CommitCancel, PollTask,
       PollRows, CommitTimeout, ServerCrash, HandlerRaises, RequestRaises, vars,
       createVars, cancelVars

\* Without cancels and timeouts a row shows its answer, or else what create_task
\* has committed of its dispatch; the commit itself is the only writer that may
\* replace an answer.
CalmInv ==
    Calm =>
        /\ canceller = "idle" /\ poller = "idle" /\ due = {}
        /\ creator \in {"idle", "created", "dispatching"} =>
            \A r \in Row :
                IF answer[r] = "none" THEN result[r] \in {"none", "pending"}
                                      ELSE result[r] = answer[r]
        /\ creator \in {"dispatched", "done"} =>
            \A r \in rows :
                /\ mem[r] \in {"sent", "failed"}
                /\ answer[r] = "none" => result[r] = mem[r]

LEMMA CalmInvStep ==
    TypeOK /\ AnswerInv /\ PromiseInv /\ CalmInv /\ [Next]_vars
        => CalmInv'
<1> SUFFICES ASSUME TypeOK, AnswerInv, PromiseInv, CalmInv, [Next]_vars,
                    Calm'
             PROVE  CalmInv'
  BY DEF CalmInv
<1>0. Calm
  BY CalmBefore
<1> USE <1>0, BoundsAssumption
    DEF TypeOK, CalmInv, rows, dbVars, createVars, agentVars, handlerVars,
        cancelVars, pollVars, Answer, CreatorAt
<1>1. CASE CreateTask BY <1>1 DEF CreateTask, AnswerInv
<1>2. CASE MarkRunning BY <1>2 DEF MarkRunning
<1>3. CASE CommitDispatch BY <1>3 DEF CommitDispatch
<1>4. CASE ConcludeCreate BY <1>4 DEF ConcludeCreate
<1>5. ASSUME NEW r \in Row, DispatchOffline(r) PROVE CalmInv'
  BY <1>5 DEF DispatchOffline
<1>6. ASSUME NEW r \in Row, DispatchSend(r) PROVE CalmInv'
  BY <1>6 DEF DispatchSend
<1>7. ASSUME NEW r \in Row, DispatchReturn(r) PROVE CalmInv'
  BY <1>7 DEF DispatchReturn, AnswerInv
<1>8. ASSUME NEW r \in Row, Agent(r) PROVE CalmInv'
  BY <1>8 DEF Agent, Execute, Disconnect, Orphan, Reconnect, Lost
<1>9. ASSUME NEW r \in Row, StoreAnswer(r) PROVE CalmInv'
  BY <1>9 DEF StoreAnswer, AnswerInv
<1>10. ASSUME NEW r \in Row,
              Judge(r) \/ SyncParent(r) \/ HandlerRaises(r) \/ StartedAges(r)
       PROVE  CalmInv'
  BY <1>10 DEF Judge, SyncParent, HandlerRaises, StartedAges
<1>11. CASE PollTask \/ PollRows \/ CommitTimeout \/ CommitCancel
  BY <1>11 DEF PollTask, PollRows, CommitTimeout, CommitCancel, Calm
<1>12. CASE AdmitCancel \/ RequestRaises \/ ServerCrash
  BY <1>12 DEF AdmitCancel, RequestRaises, ServerCrash, NoSession, Calm
<1>13. CASE UNCHANGED vars BY <1>13 DEF vars
<1> QED BY <1>1, <1>2, <1>3, <1>4, <1>5, <1>6, <1>7, <1>8, <1>9, <1>10, <1>11,
           <1>12, <1>13
        DEF Next, Dispatch, Handle

LEMMA CalmInvAlways == Safety => []CalmInv
<1>1. Init => CalmInv
  BY DEF Init, CalmInv
<1> QED BY <1>1, CalmInvStep, TypeCorrect, AnswerInvAlways, PromiseInvAlways,
           PTL DEF Safety

\* No answer was overwritten, none came to a command counted as failed.
Undisturbed ==
    /\ Calm
    /\ \A r \in Row : answer[r] # "none" => result[r] = answer[r] /\ mem[r] # "failed"

AllEnded == rows # {} /\ Shown \subseteq TERMINAL_STATUSES

\* Whoever has judged has judged what is shown now; when all rows have ended
\* and no handler has failed to judge, the task already agrees, or a handler is
\* still to judge or to write, or create_task is about to find that it could
\* send nothing.
AgreeInv ==
    Undisturbed =>
        /\ \A r \in Row : handler[r] = "judged" =>
                            AllEnded /\ verdict[r] = Verdict(Shown)
        /\ AllEnded /\ ~missed =>
            \/ task = Verdict(Shown)
            \/ \E r \in Row : handler[r] # "idle"
            \/ creator = "dispatched" /\ \A r \in rows : mem[r] = "failed"

\* Only the commit of the outcomes replaces an answer, and nothing puts it back.
LEMMA UndisturbedBefore ==
    ASSUME TypeOK, AnswerInv, CalmInv, Calm, [Next]_vars, Undisturbed'
    PROVE  Undisturbed
<1> SUFFICES ASSUME NEW q \in Row, answer[q] # "none"
             PROVE  result[q] = answer[q] /\ mem[q] # "failed"
  BY DEF Undisturbed
<1>1. result'[q] = answer[q] /\ mem'[q] # "failed"
  BY AnswerStable DEF Undisturbed
<1>2. mem[q] # "failed"
  <2>1. CASE CreateTask
    BY <2>1 DEF CreateTask, AnswerInv
  <2>2. ASSUME NEW r \in Row, DispatchOffline(r) \/ DispatchSend(r) \/ DispatchReturn(r)
        PROVE  mem[q] # "failed"
    BY <1>1, <2>2 DEF DispatchOffline, DispatchSend, DispatchReturn, TypeOK
  <2>3. CASE RequestRaises \/ ServerCrash
    BY <1>1, <2>3 DEF RequestRaises, ServerCrash, Undisturbed, Calm, AnswerInv,
                      createVars
  <2>4. CASE UNCHANGED mem BY <1>1, <2>4
  <2> QED
    BY <2>1, <2>2, <2>3, <2>4
       DEF Next, Dispatch, Handle, Agent, MarkRunning, CommitDispatch,
           ConcludeCreate,
           Execute, Disconnect, Orphan, Reconnect, StoreAnswer, Judge, SyncParent,
           StartedAges, AdmitCancel, CommitCancel, PollTask, PollRows,
           CommitTimeout,
           HandlerRaises, vars, createVars
<1>3. CASE creator \in {"idle", "created", "dispatching"}
  BY <1>2, <1>3 DEF CalmInv
<1>4. CASE creator \in {"dispatched", "done"}
  <2>1. ASSUME NEW r \in Row, StoreAnswer(r) PROVE result'[q] = result[q]
    BY <2>1 DEF StoreAnswer, AnswerInv, TypeOK, Answer
  <2>2. CASE UNCHANGED result BY <1>1, <1>2, <2>2
  <2> QED
    BY <1>1, <1>2, <1>4, <2>1, <2>2
       DEF CalmInv, TypeOK, Next, Dispatch, Handle, Agent, CreateTask, MarkRunning,
           CommitDispatch, ConcludeCreate, DispatchOffline, DispatchSend,
           DispatchReturn, Execute, Disconnect, Orphan, Reconnect, Judge,
           SyncParent, StartedAges, AdmitCancel, CommitCancel, PollTask, PollRows,
           CommitTimeout, ServerCrash, HandlerRaises, RequestRaises, vars, dbVars
<1> QED BY <1>3, <1>4 DEF Calm, TypeOK, CreatorAt

\* A verdict is given exactly when all rows have ended.
LEMMA VerdictGiven ==
    rows # {} => ((Verdict(Shown) = "none") <=> ~(Shown \subseteq TERMINAL_STATUSES))
<1> SUFFICES ASSUME NEW S, S # {}
             PROVE  (Verdict(S) = "none") <=> ~(S \subseteq TERMINAL_STATUSES)
  BY DEF Shown
<1>1. CASE ~(S \subseteq TERMINAL_STATUSES)
  <2>1. S # {"success"} /\ ~(S \subseteq {"cancelled", "success"})
    BY <1>1 DEF TERMINAL_STATUSES
  <2> QED BY <1>1, <2>1 DEF Verdict
<1>2. CASE S \subseteq TERMINAL_STATUSES
  BY <1>2 DEF Verdict
<1> QED BY <1>1, <1>2

LEMMA AgreeInvStep ==
    TypeOK /\ AnswerInv /\ PromiseInv /\ CalmInv /\ AgreeInv
    /\ [Next]_vars /\ Calm /\ CalmInv' => AgreeInv'
<1> SUFFICES ASSUME TypeOK, AnswerInv, PromiseInv, CalmInv, AgreeInv,
                    [Next]_vars, Calm, CalmInv', Undisturbed'
             PROVE  AgreeInv'
  BY DEF AgreeInv
<1>0. Undisturbed
  BY UndisturbedBefore
<1> USE DEF TypeOK, TERMINAL_STATUSES
<1>1. CASE CreateTask
  <2>1. \A r \in Row : handler'[r] = "idle"
    BY <1>1 DEF CreateTask, AnswerInv, handlerVars
  <2>2. ~AllEnded'
    <3>1. \A r \in Row : result'[r] \in {"none", "pending"}
      BY <1>1 DEF CreateTask
    <3>2. ASSUME NEW r \in rows' PROVE "pending" \in Shown'
      BY <3>1, <3>2 DEF Shown, rows
    <3>3. rows' # {} => "pending" \in Shown'
      BY <3>2
    <3> QED BY <3>3 DEF AllEnded
  <2> QED BY <2>1, <2>2 DEF AgreeInv
<1>2. CASE MarkRunning
  <2>1. \A r \in Row : handler'[r] = "idle"
    BY <1>2 DEF MarkRunning, PromiseInv, AnswerInv, handlerVars
  <2>2. ~AllEnded'
    <3>1. \A r \in rows : result[r] = "pending"
      BY <1>2, <1>0
         DEF MarkRunning, CalmInv, Undisturbed, PromiseInv, AnswerInv, rows
    <3> QED BY <1>2, <3>1 DEF MarkRunning, AllEnded, Shown, rows
  <2> QED BY <2>1, <2>2 DEF AgreeInv
<1>3. CASE CommitDispatch
  <2>1. rows' = rows
    BY <1>3, RowsStable DEF CommitDispatch
  <2>2. \A q \in rows : result'[q] = mem[q] /\ mem[q] \in {"sent", "failed"}
    BY <1>3 DEF CommitDispatch, rows
  <2>3. AllEnded' => \A q \in rows : mem[q] = "failed"
    BY <2>1, <2>2 DEF AllEnded, Shown
  <2>4. ASSUME AllEnded PROVE Shown' = Shown
    <3>1. ASSUME NEW q \in rows PROVE result'[q] = result[q]
      <4>1. result[q] \in TERMINAL_STATUSES
        BY <2>4, <3>1 DEF AllEnded, Shown
      <4>2. answer[q] # "none" /\ result[q] = answer[q] /\ q \in Row
        BY <1>3, <4>1, <1>0, <3>1 DEF CommitDispatch, CalmInv, Undisturbed, rows
      <4> QED BY <4>2, AnswerStable DEF Undisturbed
    <3> QED BY <2>1, <3>1 DEF Shown
  <2>5. ASSUME NEW r \in Row, handler'[r] = "judged"
        PROVE  AllEnded' /\ verdict'[r] = Verdict(Shown')
    <3>1. AllEnded /\ verdict[r] = Verdict(Shown)
      BY <1>3, <2>5, <1>0 DEF CommitDispatch, handlerVars, AgreeInv
    <3> QED BY <1>3, <2>1, <2>4, <3>1 DEF CommitDispatch, handlerVars, AllEnded
  <2>6. (\A r \in rows : mem[r] = "failed") =>
            creator' = "dispatched" /\ \A r \in rows' : mem'[r] = "failed"
    BY <1>3, <2>1 DEF CommitDispatch
  <2> QED BY <2>3, <2>5, <2>6 DEF AgreeInv
<1>4. CASE ConcludeCreate
  <2>1. rows' = rows /\ Shown' = Shown
    BY <1>4 DEF ConcludeCreate, rows, Shown
  <2>2. ASSUME NEW r \in Row, handler'[r] = "judged"
        PROVE  AllEnded' /\ verdict'[r] = Verdict(Shown')
    BY <1>0, <1>4, <2>1, <2>2 DEF ConcludeCreate, handlerVars, AgreeInv, AllEnded
  <2>3. ASSUME AllEnded', \A r \in rows : mem[r] = "failed"
        PROVE  task' = Verdict(Shown')
    <3>1. Shown = {"failed"}
      BY <1>4, <1>0, <2>1, <2>3
         DEF ConcludeCreate, CalmInv, Undisturbed, AllEnded, Shown, rows
    <3>2. task' = "failed"
      BY <1>4, <2>3 DEF ConcludeCreate, AnswerInv, rows
    <3> QED BY <2>1, <3>1, <3>2 DEF Verdict
  <2>4. ASSUME AllEnded', ~missed', ~\A r \in rows : mem[r] = "failed"
        PROVE  task' = Verdict(Shown') \/ \E r \in Row : handler'[r] # "idle"
    <3>1. PICK q \in rows : mem[q] = "sent"
      BY <1>4, <1>0, <2>4 DEF ConcludeCreate, CalmInv, Undisturbed
    <3>2. task' = task
      BY <1>4, <3>1 DEF ConcludeCreate, rows
    <3>3. task = Verdict(Shown) \/ \E r \in Row : handler[r] # "idle"
      BY <1>0, <1>4, <2>1, <2>4 DEF ConcludeCreate, handlerVars, AgreeInv, AllEnded
    <3> QED BY <1>4, <2>1, <3>2, <3>3 DEF ConcludeCreate, handlerVars
  <2> QED BY <2>2, <2>3, <2>4 DEF AgreeInv
<1>5. ASSUME NEW r \in Row, StoreAnswer(r) PROVE AgreeInv'
  <2>1. handler'[r] = "stored"
    BY <1>5 DEF StoreAnswer
  <2>2. \A q \in Row : handler'[q] # "judged"
    <3> SUFFICES ASSUME NEW q \in Row, handler[q] = "judged" PROVE FALSE
      BY <1>5 DEF StoreAnswer
    <3>1. job[r] # "none" /\ answer[r] = "none" /\ r \in rows
      BY <1>5 DEF StoreAnswer, AnswerInv, Answer, rows
    <3>2. result[r] \in TERMINAL_STATUSES
      BY <1>0, <3>1 DEF AgreeInv, AllEnded, Shown
    <3>3. mem'[r] = "failed" /\ answer'[r] # "none"
      BY <1>0, <1>5, <3>1, <3>2
         DEF StoreAnswer, createVars, CalmInv, Undisturbed, Calm, CreatorAt,
             Answer, rows
    <3> QED BY <3>3 DEF Undisturbed
  <2> QED BY <2>1, <2>2 DEF AgreeInv
<1>6. ASSUME NEW r \in Row, Judge(r) PROVE AgreeInv'
  <2>1. r \in rows /\ answer[r] = result[r]
    BY <1>0, <1>6 DEF Judge, PromiseInv, Undisturbed, rows
  <2>2. SeenBy(r) = Shown
    BY <2>1 DEF SeenBy, Shown
  <2>3. rows' = rows /\ Shown' = Shown
    BY <1>6 DEF Judge, dbVars, rows, Shown
  <2>4. CASE Verdict(Shown) = "none"
    <3>1. ~AllEnded /\ ~AllEnded'
      BY <2>1, <2>3, <2>4, VerdictGiven DEF AllEnded
    <3>2. \A q \in Row : handler'[q] # "judged"
      BY <1>0, <1>6, <2>2, <2>4, <3>1 DEF Judge, AgreeInv
    <3> QED BY <3>1, <3>2 DEF AgreeInv
  <2>5. CASE Verdict(Shown) # "none"
    <3>1. AllEnded /\ AllEnded'
      BY <2>1, <2>3, <2>5, VerdictGiven DEF AllEnded
    <3>2. handler'[r] = "judged" /\ verdict'[r] = Verdict(Shown)
      BY <1>6, <2>2, <2>5 DEF Judge
    <3>3. \A q \in Row : handler'[q] = "judged" => verdict'[q] = Verdict(Shown)
      BY <1>0, <1>6, <3>2 DEF Judge, AgreeInv
    <3> QED BY <2>3, <3>1, <3>2, <3>3 DEF AgreeInv
  <2> QED BY <2>4, <2>5
<1>7. ASSUME NEW r \in Row, SyncParent(r) PROVE AgreeInv'
  <2>1. rows' = rows /\ Shown' = Shown
    BY <1>7 DEF SyncParent, rows, Shown
  <2>2. task' = Verdict(Shown)
    BY <1>0, <1>7 DEF SyncParent, AgreeInv
  <2>3. \A q \in Row : handler'[q] = "judged" =>
                          AllEnded /\ verdict'[q] = Verdict(Shown)
    BY <1>0, <1>7 DEF SyncParent, AgreeInv
  <2> QED BY <2>1, <2>2, <2>3 DEF AgreeInv, AllEnded
<1>8. CASE UNCHANGED <<task, result, handler, verdict, missed>>
            /\ (creator = "dispatched" => UNCHANGED <<creator, mem>>)
  <2>1. rows' = rows /\ Shown' = Shown
    BY <1>8 DEF rows, Shown
  <2> QED BY <1>0, <1>8, <2>1 DEF AgreeInv, AllEnded
<1>9. ASSUME NEW r \in Row, DispatchReturn(r) PROVE creator # "dispatched"
  BY <1>0, <1>9 DEF DispatchReturn, CalmInv, Undisturbed, AnswerInv, rows
<1>10. ~(CommitCancel \/ PollTask \/ PollRows \/ CommitTimeout)
  BY <1>0 DEF CommitCancel, PollTask, PollRows, CommitTimeout, CalmInv,
              Undisturbed, Calm
<1>11. ~AdmitCancel
  BY BoundsAssumption DEF AdmitCancel, Undisturbed, Calm
<1>12. ASSUME NEW r \in Row, HandlerRaises(r) PROVE AgreeInv'
  <2>1. rows' = rows /\ Shown' = Shown
    BY <1>12 DEF HandlerRaises, dbVars, rows, Shown
  <2>2. ASSUME NEW q \in Row, handler'[q] = "judged"
        PROVE  AllEnded' /\ verdict'[q] = Verdict(Shown')
    BY <1>0, <1>12, <2>1, <2>2 DEF HandlerRaises, AgreeInv, AllEnded
  <2> QED BY <1>12, <2>2 DEF HandlerRaises, AgreeInv
<1>13. CASE ServerCrash
  <2>1. rows' = rows /\ Shown' = Shown
    BY <1>13 DEF ServerCrash, dbVars, rows, Shown
  <2>2. creator # "dispatched"
    BY <1>13 DEF ServerCrash, Undisturbed, Calm
  <2> QED BY <1>0, <1>13, <2>1, <2>2 DEF ServerCrash, dbVars, AgreeInv, AllEnded
<1>14. CASE RequestRaises
  BY <1>8, <1>14
     DEF RequestRaises, Undisturbed, Calm, dbVars, createVars, handlerVars
<1> QED BY <1>1, <1>2, <1>3, <1>4, <1>5, <1>6, <1>7, <1>8, <1>9, <1>10, <1>11,
           <1>12, <1>13, <1>14
        DEF Next, Dispatch, Handle, Agent, DispatchOffline, DispatchSend,
            DispatchReturn, Execute, Disconnect, Orphan, Reconnect, StartedAges,
            vars, dbVars, createVars, handlerVars

\* At rest the task shows the verdict on its rows, however many agents answered
\* and however their handlers interleaved, if the last handler that the database
\* failed was followed by one that judged.
THEOREM ParentAgreesAlways == Safety => []ParentAgrees
<1>1. Init => AgreeInv
  BY DEF Init, AgreeInv, AllEnded, rows
<1>2. TypeOK /\ AnswerInv /\ PromiseInv /\ CalmInv /\ AgreeInv
        /\ [Next]_vars /\ CalmInv' => AgreeInv'
  BY AgreeInvStep, CalmBefore DEF AgreeInv, Undisturbed
<1>3. AgreeInv => ParentAgrees
  BY DEF AgreeInv, ParentAgrees, Quiescent, Undisturbed, Calm, AllEnded
<1> QED BY <1>1, <1>2, <1>3, TypeCorrect, AnswerInvAlways, PromiseInvAlways,
           CalmInvAlways, PTL DEF Safety

-----------------------------------------------------------------------------
(* No verdict is missed: what EndedRowsEndTask rests on, for every Row and   *)
(* however answers, cancels and timeouts interleave.                         *)

Due == /\ creator \in {"dispatched", "done"} /\ ~missed
       /\ Shown \subseteq TERMINAL_STATUSES /\ task \notin TaskEnd

\* A handler that is still to judge finds all rows ended; one that has judged
\* will write an end.
InHand == \E r \in Row : handler[r] = "stored" \/ verdict[r] \in TaskEnd

NothingSent == creator = "dispatched" /\ \A r \in rows : mem[r] # "sent"

MissInv ==
    /\ Due => InHand \/ NothingSent
    /\ creator = "dispatched" => \A r \in Row : mem[r] # "sending"

\* Once create_task is done and all rows have ended, the task has ended too,
\* or the coroutine that is going to end it exists, or a handler failed between
\* the commit of its answer and that of the task and none has judged since.
NoVerdictMissed ==
    (/\ creator = "done" /\ ~missed
     /\ Shown \subseteq TERMINAL_STATUSES /\ task \notin TaskEnd) => InHand

LEMMA MissInvStep ==
    TypeOK /\ AnswerInv /\ PromiseInv /\ MissInv /\ [Next]_vars => MissInv'
<1> SUFFICES ASSUME TypeOK, AnswerInv, PromiseInv, MissInv, [Next]_vars
             PROVE  MissInv'
  OBVIOUS
<1> USE DEF TypeOK, dbVars, createVars, agentVars, handlerVars, cancelVars, pollVars
<1>1. CASE CreateTask \/ MarkRunning
  BY <1>1 DEF CreateTask, MarkRunning, MissInv, Due
<1>2. CASE CommitDispatch
  <2>1. ASSUME Due' PROVE \A r \in rows' : mem'[r] # "sent"
    <3>1. TAKE r \in rows'
    <3>2. r \in Row /\ mem'[r] = mem[r] /\ result'[r] = IF r \in rows THEN mem[r] ELSE "none"
      BY <1>2, <3>1 DEF CommitDispatch, rows
    <3>3. result'[r] \in TERMINAL_STATUSES
      BY <2>1, <3>1 DEF Due, Shown
    <3> QED BY <3>2, <3>3 DEF TERMINAL_STATUSES
  <2>2. \A r \in Row : mem'[r] # "sending"
    BY <1>2 DEF CommitDispatch, AnswerInv, rows
  <2> QED BY <1>2, <2>1, <2>2 DEF CommitDispatch, MissInv, NothingSent
<1>3. CASE ConcludeCreate
  <2>1. rows' = rows /\ Shown' = Shown
    BY <1>3 DEF ConcludeCreate, rows, Shown
  <2>2. ASSUME Due' PROVE InHand'
    <3>1. ~ \A r \in rows : mem[r] # "sent"
      BY <1>3, <2>2 DEF ConcludeCreate, Due, TaskEnd
    <3>2. Due
      BY <1>3, <2>1, <2>2, <3>1 DEF ConcludeCreate, Due
    <3>3. InHand
      BY <3>1, <3>2 DEF MissInv, NothingSent
    <3> QED BY <1>3, <3>3 DEF ConcludeCreate, InHand
  <2> QED BY <1>3, <2>2 DEF ConcludeCreate, MissInv
<1>4. ASSUME NEW r \in Row, StoreAnswer(r) PROVE MissInv'
  <2>1. InHand'
    BY <1>4 DEF StoreAnswer, InHand
  <2> QED BY <1>4, <2>1 DEF StoreAnswer, MissInv
<1>5. ASSUME NEW r \in Row, Judge(r) PROVE MissInv'
  <2>1. rows' = rows /\ Shown' = Shown
    BY <1>5 DEF Judge, rows, Shown
  <2>2. ASSUME Due' PROVE InHand'
    <3>1. r \in rows /\ answer[r] \in TERMINAL_STATUSES
      BY <1>5 DEF Judge, PromiseInv, rows, Answer, TERMINAL_STATUSES
    <3>2. \A q \in rows : result[q] \in TERMINAL_STATUSES
      BY <2>1, <2>2 DEF Due, Shown
    <3>3. SeenBy(r) # {} /\ SeenBy(r) \subseteq TERMINAL_STATUSES
      BY <3>1, <3>2 DEF SeenBy
    <3>4. Verdict(SeenBy(r)) \in TaskEnd
      BY <3>3 DEF Verdict, TaskEnd
    <3> QED BY <1>5, <3>4 DEF Judge, InHand, TaskEnd
  <2> QED BY <1>5, <2>2 DEF Judge, MissInv
<1>6. ASSUME NEW r \in Row, SyncParent(r) PROVE MissInv'
  <2>1. task' \in TaskEnd
    BY <1>6 DEF SyncParent, AnswerInv
  <2> QED BY <1>6, <2>1 DEF SyncParent, MissInv, Due
<1>7. CASE CommitCancel \/ CommitTimeout
  <2>1. task' \in TaskEnd
    BY <1>7 DEF CommitCancel, CommitTimeout, TaskEnd
  <2> QED BY <1>7, <2>1 DEF CommitCancel, CommitTimeout, MissInv, Due
<1>8. CASE ServerCrash
  <2>1. rows' = rows /\ Shown' = Shown
    BY <1>8 DEF ServerCrash, rows, Shown
  <2>2. ASSUME Due' PROVE FALSE
    <3>1. creator = "done" /\ Due /\ \A r \in Row : handler[r] = "idle"
      BY <1>8, <2>1, <2>2 DEF ServerCrash, Due
    <3>2. ~InHand
      BY <3>1 DEF InHand, AnswerInv, TaskEnd
    <3> QED BY <3>1, <3>2 DEF MissInv, NothingSent
  <2> QED BY <1>8, <2>2 DEF ServerCrash, MissInv
<1>9. ASSUME NEW r \in Row, DispatchOffline(r) \/ DispatchSend(r) \/ DispatchReturn(r)
      PROVE MissInv'
  <2>1. creator # "dispatched" /\ UNCHANGED <<dbVars, creator, handlerVars>>
    BY <1>9 DEF DispatchOffline, DispatchSend, DispatchReturn, MissInv
  <2>2. UNCHANGED <<Due, InHand>>
    BY <2>1 DEF Due, Shown, rows, InHand
  <2> QED BY <2>1, <2>2 DEF MissInv, NothingSent
<1>10. CASE UNCHANGED <<task, result, createVars, handlerVars>>
  <2>1. UNCHANGED <<Due, InHand, NothingSent>>
    BY <1>10 DEF Due, Shown, rows, InHand, NothingSent
  <2> QED BY <1>10, <2>1 DEF MissInv
<1>11. ASSUME NEW r \in Row, HandlerRaises(r) PROVE MissInv'
  BY <1>11 DEF HandlerRaises, MissInv, Due
<1>12. CASE RequestRaises /\ creator' = "dead"
  BY <1>12 DEF MissInv, Due
<1> QED BY <1>1, <1>2, <1>3, <1>4, <1>5, <1>6, <1>7, <1>8, <1>9, <1>10, <1>11, <1>12
        DEF Next, Dispatch, Handle, Agent, Execute, Disconnect, Orphan, Reconnect,
            StartedAges, AdmitCancel, PollTask, PollRows, RequestRaises, vars

\* Of handlers that store their answers at the same time, the last one to
\* judge sees all the others, whatever is cancelled or times out meanwhile: no
\* task stays open with all its rows ended and nobody left to end it, unless the
\* server or its database failed the handler that would have judged.
THEOREM VerdictsNotMissed == Safety => []NoVerdictMissed
<1>1. Init => MissInv
  BY DEF Init, MissInv, Due
<1>2. MissInv => NoVerdictMissed
  BY DEF MissInv, NoVerdictMissed, Due, NothingSent
<1> QED BY <1>1, <1>2, MissInvStep, TypeCorrect, AnswerInvAlways, PromiseInvAlways,
           PTL DEF Safety
=============================================================================
