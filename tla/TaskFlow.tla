------------------------------ MODULE TaskFlow ------------------------------
(***************************************************************************)
(* The life of one task: create_task, get_task and cancel_task of          *)
(* server/api/task_routes.py, the result handling of agent_websocket and   *)
(* _sync_parent_task of server/api/ws_routes.py, and, at the far end of    *)
(* the connection, handleConnection of agent/main.go, which executes a     *)
(* command and answers once, without a retry.                              *)
(*                                                                         *)
(* Each of these runs in a database session of its own.  A session keeps   *)
(* the rows it loaded (expire_on_commit=False) and its commit writes the   *)
(* columns it changed by primary key, whatever other sessions have         *)
(* committed since: the model has one action per read and one per commit.  *)
(* SQLite has one writer at a time, so a commit is atomic.  The task row   *)
(* and its result rows are never deleted.                                  *)
(*                                                                         *)
(* A result row stands for its device: the connection of the row is the    *)
(* device's, and changes as AgentLink says, which AgentChannel implements. *)
(***************************************************************************)
EXTENDS Integers, FiniteSets

CONSTANTS
    Row,            \* the TaskResult rows the request may lead to
    Upgrade,        \* the task_type is UPGRADE: the only kind that times out
    MaxConcurrent,  \* MAX_CONCURRENT_TASKS, the size of _DISPATCH_SEMAPHORE
    MaxCancels,     \* bound on cancel requests admitted
    MaxFaults       \* bound on server crashes and database errors

ASSUME UpgradeAssumption == Upgrade \in BOOLEAN
ASSUME BoundsAssumption ==
    MaxConcurrent \in Nat \ {0} /\ MaxCancels \in Nat /\ MaxFaults \in Nat

VARIABLES
    task,       \* Task.status in the database, "none" before it exists
    result,     \* TaskResult.status in the database
    started,    \* TaskResult.started_at against the cutoff of get_task
    creator,    \* where create_task is
    mem,        \* the status of each row in create_task's session
    conn,       \* the agent's connection: "up", "orphan" (open, but another
                \* handler's disconnect_agent removed the map entry), "down"
    job,        \* the command or the answer on its way or being executed
    handler,    \* where agent_websocket is with the answer for the row
    verdict,    \* what _sync_parent_task has computed and not yet written
    answer,     \* history: what the agent reported for the row
    missed,     \* history: a handler that had stored its answer ended before it
                \* wrote the task, and none has judged or written since
    canceller,  \* where cancel_task is
    cancels,    \* cancel requests admitted so far
    poller,     \* where get_task is
    due,        \* the rows get_task is about to mark "timeout"
    faults      \* server crashes and database errors so far

dbVars == <<task, result, started>>
createVars == <<creator, mem>>
agentVars == <<conn, job>>
handlerVars == <<handler, verdict, answer, missed>>
cancelVars == <<canceller, cancels>>
pollVars == <<poller, due>>
vars == <<dbVars, createVars, agentVars, handlerVars, cancelVars, pollVars, faults>>

Answer == {"success", "failed"}
TERMINAL_STATUSES == {"success", "failed", "cancelled", "timeout"}
ResultStatus == TERMINAL_STATUSES \cup {"none", "pending", "sent"}
TaskEnd == {"completed", "failed", "cancelled"}
TaskStatus == TaskEnd \cup {"none", "pending", "running"}

\* idle, created (rows committed), dispatching (RUNNING committed),
\* dispatched (outcomes committed), done; dead after a crash or an error.
CreatorAt == {"idle", "created", "dispatching", "dispatched", "done", "dead"}

TypeOK ==
    /\ task \in TaskStatus
    /\ result \in [Row -> ResultStatus]
    /\ started \in [Row -> {"null", "recent", "old"}]
    /\ creator \in CreatorAt
    /\ mem \in [Row -> {"none", "pending", "sending", "sent", "failed"}]
    /\ conn \in [Row -> {"up", "orphan", "down"}]
    /\ job \in [Row -> Answer \cup {"none", "command"}]
    /\ handler \in [Row -> {"idle", "stored", "judged"}]
    /\ verdict \in [Row -> TaskEnd \cup {"none"}]
    /\ answer \in [Row -> Answer \cup {"none"}]
    /\ missed \in BOOLEAN
    /\ canceller \in {"idle", "admitted"}
    /\ cancels \in 0..MaxCancels
    /\ poller \in {"idle", "running", "overdue"}
    /\ due \in SUBSET Row
    /\ faults \in 0..MaxFaults

Init ==
    /\ task = "none"
    /\ result = [r \in Row |-> "none"]
    /\ started = [r \in Row |-> "null"]
    /\ creator = "idle"
    /\ mem = [r \in Row |-> "none"]
    /\ conn \in [Row -> {"up", "down"}]
    /\ job = [r \in Row |-> "none"]
    /\ handler = [r \in Row |-> "idle"]
    /\ verdict = [r \in Row |-> "none"]
    /\ answer = [r \in Row |-> "none"]
    /\ missed = FALSE
    /\ canceller = "idle" /\ cancels = 0
    /\ poller = "idle" /\ due = {}
    /\ faults = 0

-----------------------------------------------------------------------------
(* _sync_parent_task.                                                      *)

\* The rows that exist.
rows == {r \in Row : result[r] # "none"}

\* Mutant: one success decides.
Verdict_AnySuccess(statuses) ==
    CASE statuses = {} \/ ~(statuses \subseteq TERMINAL_STATUSES) -> "none"
      [] "success" \in statuses -> "completed"
      [] OTHER -> "failed"

\* The status the parent gets when the rows of a task show the given
\* statuses; "none" when it is left alone.
Verdict(statuses) ==
    CASE statuses = {} \/ ~(statuses \subseteq TERMINAL_STATUSES) -> "none"
      [] statuses = {"success"} -> "completed"
      [] "cancelled" \in statuses /\ statuses \subseteq {"cancelled", "success"}
            -> "cancelled"
      [] OTHER -> "failed"

\* Mutant: the answers of the others are read, the handler's own row is not
\* up to date.
SeenBy_BeforeOwnWrite(r) == {IF q = r THEN "sent" ELSE result[q] : q \in rows}

\* What the session of the handler of r reads: its own row as it set it, the
\* other rows as they are in the database.
SeenBy(r) == {IF q = r THEN answer[r] ELSE result[q] : q \in rows}

-----------------------------------------------------------------------------
(* create_task.                                                            *)

\* The task and a "pending" row for each device id that exists.
CreateTask ==
    /\ creator = "idle"
    /\ \E new \in SUBSET Row :
        /\ result' = [r \in Row |-> IF r \in new THEN "pending" ELSE "none"]
        /\ mem' = [r \in Row |-> IF r \in new THEN "pending" ELSE "none"]
    /\ task' = "pending"
    /\ creator' = "created"
    /\ UNCHANGED <<started, agentVars, handlerVars, cancelVars, pollVars, faults>>

\* An unconditional write: a cancel committed meanwhile is undone.
MarkRunning ==
    /\ creator = "created"
    /\ task' = "running"
    /\ creator' = "dispatching"
    /\ UNCHANGED <<result, started, mem, agentVars, handlerVars, cancelVars,
                   pollVars, faults>>

Sending == {r \in Row : mem[r] = "sending"}

\* send_command finds no connection.
DispatchOffline(r) ==
    /\ creator = "dispatching"
    /\ mem[r] = "pending"
    /\ Cardinality(Sending) < MaxConcurrent
    /\ conn[r] # "up"
    /\ mem' = [mem EXCEPT ![r] = "failed"]
    /\ UNCHANGED <<dbVars, creator, agentVars, handlerVars, cancelVars, pollVars,
                   faults>>

\* send_text hands the bytes over and awaits the transport; from here on the
\* agent may execute and answer.
DispatchSend(r) ==
    /\ creator = "dispatching"
    /\ mem[r] = "pending"
    /\ Cardinality(Sending) < MaxConcurrent
    /\ conn[r] = "up"
    /\ mem' = [mem EXCEPT ![r] = "sending"]
    /\ job' = [job EXCEPT ![r] = "command"]
    /\ UNCHANGED <<dbVars, creator, conn, handlerVars, cancelVars, pollVars,
                   faults>>

\* send_text returns, or raises when its connection broke meanwhile, also if
\* the agent has another one by now.
DispatchReturn(r) ==
    /\ mem[r] = "sending"
    /\ \E s \in {"sent", "failed"} : mem' = [mem EXCEPT ![r] = s]
    /\ UNCHANGED <<dbVars, creator, agentVars, handlerVars, cancelVars, pollVars,
                   faults>>

\* Mutant: only the rows that were sent are written back.
CommitDispatch_SentOnly ==
    /\ creator = "dispatching"
    /\ \A r \in rows : mem[r] \in {"sent", "failed"}
    /\ result' = [r \in Row |-> IF mem[r] = "sent" THEN "sent" ELSE result[r]]
    /\ started' = [r \in Row |-> IF mem[r] = "sent" THEN "recent" ELSE started[r]]
    /\ creator' = "dispatched"
    /\ UNCHANGED <<task, mem, agentVars, handlerVars, cancelVars, pollVars, faults>>

\* Mutant: RUNNING is committed with the outcomes.
CommitDispatch_MarksRunning ==
    /\ creator = "dispatching"
    /\ \A r \in rows : mem[r] \in {"sent", "failed"}
    /\ result' = [r \in Row |-> IF r \in rows THEN mem[r] ELSE "none"]
    /\ started' = [r \in Row |-> IF mem[r] = "sent" THEN "recent" ELSE started[r]]
    /\ task' = "running"
    /\ creator' = "dispatched"
    /\ UNCHANGED <<mem, agentVars, handlerVars, cancelVars, pollVars, faults>>

\* The commit after gather: every row gets the outcome of its dispatch,
\* whatever has been written to it since it was created.
CommitDispatch ==
    /\ creator = "dispatching"
    /\ \A r \in rows : mem[r] \in {"sent", "failed"}
    /\ result' = [r \in Row |-> IF r \in rows THEN mem[r] ELSE "none"]
    /\ started' = [r \in Row |-> IF mem[r] = "sent" THEN "recent" ELSE started[r]]
    /\ creator' = "dispatched"
    /\ UNCHANGED <<task, mem, agentVars, handlerVars, cancelVars, pollVars, faults>>

\* Mutant: a row status where a task status belongs.
ConcludeCreate_RowStatus ==
    /\ creator = "dispatched"
    /\ task' = IF \A r \in rows : mem[r] # "sent" THEN "failed" ELSE "sent"
    /\ creator' = "done"
    /\ UNCHANGED <<result, started, mem, agentVars, handlerVars, cancelVars,
                   pollVars, faults>>

\* Mutant: no test of sent_count.
ConcludeCreate_NothingSent ==
    /\ creator = "dispatched"
    /\ creator' = "done"
    /\ UNCHANGED <<dbVars, mem, agentVars, handlerVars, cancelVars, pollVars, faults>>

\* Mutant: the session writes its RUNNING back.
ConcludeCreate_RewritesRunning ==
    /\ creator = "dispatched"
    /\ task' = IF \A r \in rows : mem[r] # "sent" THEN "failed" ELSE "running"
    /\ creator' = "done"
    /\ UNCHANGED <<result, started, mem, agentVars, handlerVars, cancelVars,
                   pollVars, faults>>

\* sent_count = 0, also when there was nothing to send to.
ConcludeCreate ==
    /\ creator = "dispatched"
    /\ task' = IF \A r \in rows : mem[r] # "sent" THEN "failed" ELSE task
    /\ creator' = "done"
    /\ UNCHANGED <<result, started, mem, agentVars, handlerVars, cancelVars,
                   pollVars, faults>>

-----------------------------------------------------------------------------
(* The agent and its connection.                                           *)

\* The steps of a connection; what they do to a command or an answer on its
\* way is said here.
Link == INSTANCE AgentLink WITH Device <- Row

Execute(r) ==
    /\ job[r] = "command"
    /\ \E s \in Answer : job' = [job EXCEPT ![r] = s]
    /\ UNCHANGED <<dbVars, createVars, conn, handlerVars, cancelVars, pollVars,
                   faults>>

Lost(r) == job' = [job EXCEPT ![r] = "none"]

\* A command not yet read and a result not yet written are lost: the agent
\* does not keep what it failed to write.  An answer that has reached the
\* server is still received; it is lost if it has not, or if the handler
\* ended because it could not store it.
Disconnect(r) ==
    /\ Link!Break(r)
    /\ Lost(r) \/ (job[r] \in Answer /\ UNCHANGED job)
    /\ UNCHANGED <<dbVars, createVars, handlerVars, cancelVars, pollVars, faults>>

\* AgentChannel!Disconnect by the handler of an older connection, which may be
\* the one the command came by: then the answer goes with it.
Orphan(r) ==
    /\ Link!Orphan(r)
    /\ Lost(r) \/ UNCHANGED job
    /\ UNCHANGED <<dbVars, createVars, handlerVars, cancelVars, pollVars, faults>>

\* A new connection while the handler of an orphaned one still receives
\* leaves what that one carries alone.
Reconnect(r) ==
    /\ Link!Connect(r)
    /\ UNCHANGED <<dbVars, createVars, job, handlerVars, cancelVars, pollVars,
                   faults>>

-----------------------------------------------------------------------------
(* agent_websocket, with the answer for a row.                             *)

\* Mutant: the reported status is not looked at.
StoreAnswer_AlwaysSuccess(r) ==
    /\ job[r] \in Answer
    /\ handler[r] = "idle"
    /\ result' = [result EXCEPT ![r] = "success"]
    /\ answer' = [answer EXCEPT ![r] = job[r]]
    /\ job' = [job EXCEPT ![r] = "none"]
    /\ handler' = [handler EXCEPT ![r] = "stored"]
    /\ UNCHANGED <<task, started, createVars, conn, verdict, missed, cancelVars,
                   pollVars, faults>>

\* The status is written whatever the row shows: cancelled, timeout, pending.
StoreAnswer(r) ==
    /\ job[r] \in Answer
    /\ handler[r] = "idle"
    /\ result' = [result EXCEPT ![r] = job[r]]
    /\ answer' = [answer EXCEPT ![r] = job[r]]
    /\ job' = [job EXCEPT ![r] = "none"]
    /\ handler' = [handler EXCEPT ![r] = "stored"]
    /\ UNCHANGED <<task, started, createVars, conn, verdict, missed, cancelVars,
                   pollVars, faults>>

\* The SELECT of _sync_parent_task.
Judge(r) ==
    /\ handler[r] = "stored"
    /\ verdict' = [verdict EXCEPT ![r] = Verdict(SeenBy(r))]
    /\ handler' = [handler EXCEPT
                    ![r] = IF Verdict(SeenBy(r)) = "none" THEN "idle" ELSE "judged"]
    /\ missed' = FALSE
    /\ UNCHANGED <<dbVars, createVars, agentVars, answer, cancelVars, pollVars,
                   faults>>

\* Its UPDATE, whatever the task's status is by now.
SyncParent(r) ==
    /\ handler[r] = "judged"
    /\ task' = verdict[r]
    /\ verdict' = [verdict EXCEPT ![r] = "none"]
    /\ handler' = [handler EXCEPT ![r] = "idle"]
    /\ missed' = FALSE
    /\ UNCHANGED <<result, started, createVars, agentVars, answer, cancelVars,
                   pollVars, faults>>

Fault == faults < MaxFaults /\ faults' = faults + 1

\* With the answer committed, _store_sysinfo_output, the SELECT or the UPDATE
\* raises: "database is locked" while an import holds the write lock longer
\* than the busy timeout.  Nobody tries again.  The finally block that follows
\* is a step of the link (Disconnect, Orphan).
HandlerRaises(r) ==
    /\ Fault
    /\ handler[r] \in {"stored", "judged"}
    /\ handler' = [handler EXCEPT ![r] = "idle"]
    /\ verdict' = [verdict EXCEPT ![r] = "none"]
    /\ missed' = TRUE
    /\ UNCHANGED <<dbVars, createVars, agentVars, answer, cancelVars, pollVars>>

-----------------------------------------------------------------------------
(* cancel_task.                                                            *)

AdmitCancel ==
    /\ canceller = "idle"
    /\ task \in {"pending", "running"}
    /\ cancels < MaxCancels
    /\ canceller' = "admitted"
    /\ cancels' = cancels + 1
    /\ UNCHANGED <<dbVars, createVars, agentVars, handlerVars, pollVars, faults>>

\* Mutant: the rows are not filtered by status.
CommitCancel_EveryRow ==
    /\ canceller = "admitted"
    /\ task' = "cancelled"
    /\ result' = [r \in Row |-> IF r \in rows THEN "cancelled" ELSE "none"]
    /\ canceller' = "idle"
    /\ UNCHANGED <<started, createVars, agentVars, handlerVars, cancels, pollVars,
                   faults>>

\* The SELECT of the open rows flushes the new task status first, so it reads
\* under the write lock that the commit gives up.
CommitCancel ==
    /\ canceller = "admitted"
    /\ task' = "cancelled"
    /\ result' = [r \in Row |->
                    IF result[r] \in {"pending", "sent"} THEN "cancelled" ELSE result[r]]
    /\ canceller' = "idle"
    /\ UNCHANGED <<started, createVars, agentVars, handlerVars, cancels, pollVars,
                   faults>>

-----------------------------------------------------------------------------
(* get_task, which times out the rows of an upgrade.                       *)

StartedAges(r) ==
    /\ started[r] = "recent"
    /\ started' = [started EXCEPT ![r] = "old"]
    /\ UNCHANGED <<task, result, createVars, agentVars, handlerVars, cancelVars,
                   pollVars, faults>>

PollTask ==
    /\ Upgrade
    /\ poller = "idle"
    /\ task = "running"
    /\ poller' = "running"
    /\ UNCHANGED <<dbVars, createVars, agentVars, handlerVars, cancelVars, due,
                   faults>>

Overdue == {r \in Row : result[r] \in {"sent", "pending"} /\ started[r] = "old"}

PollRows ==
    /\ poller = "running"
    /\ due' = Overdue
    /\ poller' = IF Overdue = {} THEN "idle" ELSE "overdue"
    /\ UNCHANGED <<dbVars, createVars, agentVars, handlerVars, cancelVars, faults>>

\* The rows found overdue, whatever they show by now, and the task.
CommitTimeout ==
    /\ poller = "overdue"
    /\ result' = [r \in Row |-> IF r \in due THEN "timeout" ELSE result[r]]
    /\ task' = "failed"
    /\ due' = {}
    /\ poller' = "idle"
    /\ UNCHANGED <<started, createVars, agentVars, handlerVars, cancelVars, faults>>

-----------------------------------------------------------------------------

NoSession == [r \in Row |-> "none"]

\* A SELECT or a commit of create_task, cancel_task or get_task raises: the
\* request ends, and what its session had not committed is gone.
RequestRaises ==
    /\ Fault
    /\ \/ /\ \/ creator \in {"created", "dispatched"}
             \/ creator = "dispatching" /\ \A r \in rows : mem[r] \in {"sent", "failed"}
          /\ creator' = "dead" /\ mem' = NoSession
          /\ UNCHANGED <<cancelVars, pollVars>>
       \/ /\ canceller = "admitted"
          /\ canceller' = "idle"
          /\ UNCHANGED <<createVars, cancels, pollVars>>
       \/ /\ poller # "idle"
          /\ poller' = "idle" /\ due' = {}
          /\ UNCHANGED <<createVars, cancelVars>>
    /\ UNCHANGED <<dbVars, agentVars, handlerVars>>

\* Every coroutine and every connection goes; the database stays.  Nothing
\* at startup looks for tasks that were interrupted.
ServerCrash ==
    /\ Fault
    /\ creator' = IF creator \in {"idle", "done"} THEN creator ELSE "dead"
    /\ mem' = IF creator = "done" THEN mem ELSE NoSession
    /\ Link!Restart
    /\ job' = [r \in Row |-> "none"]
    /\ handler' = [r \in Row |-> "idle"]
    /\ verdict' = [r \in Row |-> "none"]
    /\ missed' = (missed \/ \E r \in Row : handler[r] # "idle")
    /\ canceller' = "idle"
    /\ poller' = "idle"
    /\ due' = {}
    /\ UNCHANGED <<dbVars, answer, cancels>>

Dispatch ==
    \/ MarkRunning \/ CommitDispatch \/ ConcludeCreate
    \/ \E r \in Row : DispatchOffline(r) \/ DispatchSend(r) \/ DispatchReturn(r)

Handle(r) == StoreAnswer(r) \/ Judge(r) \/ SyncParent(r)

Agent(r) == Execute(r) \/ Disconnect(r) \/ Orphan(r) \/ Reconnect(r)

Next ==
    \/ CreateTask \/ Dispatch
    \/ \E r \in Row : Handle(r) \/ HandlerRaises(r) \/ Agent(r) \/ StartedAges(r)
    \/ AdmitCancel \/ CommitCancel
    \/ PollTask \/ PollRows \/ CommitTimeout
    \/ RequestRaises \/ ServerCrash

\* The event loop runs every coroutine that can run.  An agent executes what
\* it has received, time passes, and somebody opens the task again (the console
\* loads a task when it is opened, and only then).  Nobody is obliged to create
\* or cancel a task, to stay connected or to connect again.
Fairness ==
    /\ WF_vars(Dispatch)
    /\ \A r \in Row : WF_vars(Handle(r))
    /\ \A r \in Row : WF_vars(Execute(r)) /\ WF_vars(StartedAges(r))
    /\ WF_vars(CommitCancel)
    /\ WF_vars(PollTask) /\ WF_vars(PollRows \/ CommitTimeout)

Safety == Init /\ [][Next]_vars

Spec == Safety /\ Fairness
-----------------------------------------------------------------------------
(* Properties.                                                             *)

Shown == {result[r] : r \in rows}

\* A task is shown COMPLETED only when the agent of every one of its rows has
\* reported success, whatever was lost, cancelled, timed out or overwritten
\* on the way: _sync_parent_task never takes the absence of an answer for one.
CompletedMeansAnswered ==
    task = "completed" => rows # {} /\ \A r \in rows : answer[r] = "success"

\* A row shows success only if its agent reported success: none of the five
\* writers of the column makes one up.
SuccessMeansAnswered ==
    \A r \in Row : result[r] = "success" => answer[r] = "success"

\* create_task accounts for every row before its commit: once it has passed
\* that point no row is pending, although offline agents, a full semaphore
\* and connections breaking under send_text all come in between.
NoRowLeftPending ==
    creator \in {"dispatched", "done"} =>
        \A r \in Row : result[r] # "pending"

\* After create_task's commit of the outcomes, nothing reopens what has
\* ended, neither a row nor the task: the late writers (answers, timeouts,
\* cancels) replace one end by another.
EndedStaysEnded ==
    [][(creator \in {"dispatched", "done", "dead"}) =>
        /\ task \in TaskEnd => task' \in TaskEnd
        /\ \A r \in Row : result[r] \in TERMINAL_STATUSES
                            => result'[r] \in TERMINAL_STATUSES]_vars

\* After that commit an answer shown stands: a cancel does not touch the row,
\* and only a get_task that had read it before the answer arrived does.
StoredAnswerStands ==
    [][\A r \in Row :
        (/\ creator \in {"dispatched", "done", "dead"}
         /\ answer[r] # "none" /\ result[r] = answer[r] /\ r \notin due)
            => result'[r] = result[r]]_vars

\* TaskPromise, with pending and running both shown as open.
Promise == INSTANCE TaskPromise
    WITH status <- IF task \in {"pending", "running"} THEN "open" ELSE task,
         members <- rows,
         reported <- answer

\* The coroutines together keep the promise: every commit of create_task,
\* cancel_task, get_task and the result handlers is a step the promise allows,
\* or none.  In particular MarkRunning undoes a cancel only before the first
\* command has gone out, no agent is asked twice, and no later writer opens
\* the task again or completes it without all reports.
KeepsPromise == Promise!Spec

Quiescent ==
    /\ creator = "done" /\ canceller = "idle" /\ poller # "overdue"
    /\ \A r \in Row : handler[r] = "idle"

\* When everything has come to rest and every row has ended, the task shows
\* what its rows say, in whatever order the answers came, however the handlers'
\* reads and writes interleaved, and although the database failed some of them
\* or the server crashed, as long as a handler has judged since the last one
\* that could not (~missed).  What is left out can leave a verdict older than
\* the rows: a cancel or a timeout racing the answers, and an answer to a
\* command that create_task counts as failed or whose row its commit has
\* overwritten.
ParentAgrees ==
    (/\ Quiescent /\ ~missed /\ cancels = 0 /\ ~Upgrade
     /\ \A r \in Row : answer[r] # "none" =>
                        result[r] = answer[r] /\ mem[r] # "failed"
     /\ rows # {} /\ Shown \subseteq TERMINAL_STATUSES)
        => task = Verdict(Shown)

\* Once create_task is done and every row has ended, the task ends too: the
\* last handler to store an answer sees all the others.  Only a handler that
\* ended between the commit of its answer and that of the task, by a crash or
\* by an exception of the database, leaves the task open; nobody tries again.
EndedRowsEndTask ==
    (creator = "done" /\ Shown \subseteq TERMINAL_STATUSES)
        ~> (task \in TaskEnd \/ missed)

\* What the project's document says of a task: the agent returns its result
\* and the console shows it.  Here: a row whose answer has been stored does
\* not go back to "sent".
AnswerIsShown ==
    \A r \in Row : answer[r] # "none" => result[r] # "sent"

=============================================================================
