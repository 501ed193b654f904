# Formal models of the batch shutdown assistant

The repository holds a server (Python, FastAPI on one asyncio event loop, SQLite) that manages
Windows machines through an agent (Go) installed on each of them. An administrator selects devices
in a web console (Vue) and creates a task: sysprep, shutdown, reboot, upgrade, push a file, show a
message, collect system information, uninstall. This directory models the parts of it in which
several activities meet, checks small instances with TLC and proves the safety properties with
TLAPS.

## 1. The system

| Part | State | Operations | Talks to |
| --- | --- | --- | --- |
| Connection manager and agent handlers (`server/api/websocket_manager.py`, `ws_routes.py`) | the map `active_connections` (device id to websocket), one asyncio lock, the task subscribers; one coroutine per connection | connect, disconnect, send a command, broadcast a result, receive | agents (WebSocket), the device rows, task dispatch |
| Task dispatch (`server/api/task_routes.py`, `_sync_parent_task`) | `tasks` and `task_results` rows; a semaphore of 10 | create, cancel, show (with the upgrade timeout), store a result, derive the task's status | connection manager, database, console |
| Device registry (`agent_routes.py`, `device_routes.py`, `import_routes.py`, `database.py`) | `devices` rows (id, IP, token, status, last heartbeat, deleted_at); a registration lock | heartbeat (register, refresh, take over), recover, create, edit, soft delete, import, de-duplicate at startup | agents (HTTP), console, connection manager |
| Heartbeat checker (`server/main.py`) | none of its own | every 10 s, OFFLINE for ONLINE rows silent for 15 s | device rows |
| Agent service (`agent/main.go`, `heartbeat.go`, `config.go`) | configuration file, stop channel, recovery flag | heartbeat loop, WebSocket loop, execute commands one after the other, recover after sysprep | server |
| Agent commands (`agent/handler.go`, `sysprep.go`, `sysinfo.go`, `hostmsg.go`) | files left behind by sysprep and pushes | one handler per command | Windows |
| Agent upgrade (`agent/upgrade.go`) | binary, backup, new binary, service state, a flag in memory | download, generated script: stop, swap, start, verify, roll back | service manager |
| Login (`ratelimit.py`, `auth_routes.py`) | failures, lock level and lock time per client address, in memory | check, record failure, record success, change password | console |
| Uploads (`upgrade_routes.py`) | files on disk | upload, download, keep the newest 20 | console, agents |
| Web console (`web/src`) | what a page has loaded | load, create tasks, push channel of a task | server |

What is hard in it:

* Everything on the server runs on one event loop, but every `await` (of a lock, a socket, the
  database) lets other coroutines in. A handler that reads before an `await` and writes after it
  acts on the past.
* Every database session writes the columns it changed by primary key, whatever was committed since
  it read them (`expire_on_commit=False`, no version column).
* An agent reconnects before the server has noticed that its last connection broke, so the
  coroutines of two connections of one device overlap.
* Commands and answers travel over a connection that may break at any moment; nobody repeats them. A
  server restart loses all that is in memory and nothing of the rows.

What would make each part correct: the map never leads a command to a dead handler and loses no live
connection; nothing is shown as done that an agent did not report; a task ends when its rows have
ended; a row that ended is not reopened; a silent device is shown offline; one machine has one live
row; the agent survives a failed upgrade; a lock-out lasts as long as it says.

## 2. Modules

| Module | What it is |
| --- | --- |
| `AgentChannel` | the connection map, its lock, the handler of every connection, the status writes |
| `MCAgentChannel` | its instances for TLC |
| `ChannelPromise` | what whoever sends a command may count on; AgentChannel implements it |
| `AgentLink` | a device's connection as the rest of the server meets it: AgentChannel implements it, TaskFlow takes its steps for its environment |
| `AgentChannel_proofs` | its theorems |
| `TaskFlow` | the life of one task: dispatch, answers, cancel, timeout, crash |
| `MCTaskFlow` | its instances for TLC |
| `TaskFlow_proofs` | its theorems |
| `DeviceRegistry` | the device rows and the identity each machine holds: heartbeats, console, imports, restart |
| `MCDeviceRegistry` | its instances for TLC |
| `DeviceRegistry_proofs` | its theorems |
| `RegistryPromise` | what a machine may count on as long as rows come from heartbeats; DeviceRegistry implements it |
| `TaskPromise` | what a task promises, without coroutines and connections; TaskFlow implements it |
| `TaskPush` | the pages that watch a task and the loops that push results to them |
| `MCTaskPush`, `TaskPush_proofs` | its instance for TLC, its theorems |
| `LoginLimit` | the lock-out of repeated failed logins |
| `MCLoginLimit`, `LoginLimit_proofs` | its instance for TLC, its theorems |
| `UpgradeRollout` | an agent program from the upload to the running service |
| `MCUpgradeRollout`, `UpgradeRollout_proofs` | its instance for TLC, its theorems |

### AgentChannel

A connection is a slot that is reused when its handler has ended; its device is fixed by `DeviceOf`
because the URL names it. `pc` says where the coroutine `agent_websocket` is suspended; an action is
the code between two suspensions. The parts without an `await` are one action, in particular:

* `ConnectAtOnce`: taking the lock, installing the socket and releasing it, when there is no old
  socket to close;
* `Disconnect`: taking the lock, removing the entry, and the test of `is_agent_online` that follows.
  Since nothing can happen in between, the test never finds a connection: the branch is in the model
  as it is in the code, and dead in both.

Awaiting `old.close()` holds the lock (`BeginClose`, `Install`). `link` is what the server can know
of the socket; `Cut` is a break it has not noticed. `Peers` is the number of agent processes with
the identity of one device: 1 normally, more when a configured disk image was cloned, which is what
the tool is used for. The heartbeat endpoint and the checker write the same status column, with
`last_heartbeat` reduced to whether it is fresh. `MarkOnlineRaises`, `LoopRaises` and
`MarkOfflineRaises` are exceptions of the database or of the decoding of a message; the first is
outside the `try` block and leaves the entry behind (`crashed`).

`ChannelPromise` has no handlers, awaits or lock: a route for each device, the phase of each
connection (new, routed, gone) and the set of closed ones. A connection gets its device's route
once in its life, before the server has closed it, and only from nobody or from a connection that
the server has closed. `KeepsPromise` is the refinement, with `active` as the routes and `Phase` of
each connection.

`AgentLink` is where AgentChannel and TaskFlow meet. It has one value for each device: "up" when
`send_command` can write, "orphan" when it cannot and a handler still receives, "down" otherwise.
`LinksAsAssumed` shows that the map and the handlers take no other steps than AgentLink's (`LinkOf`
is the refinement mapping), and `Disconnect`, `Orphan`, `Reconnect` and `ServerCrash` of TaskFlow
are conjoined with AgentLink's actions: whatever TaskFlow's properties say under its environment
they say under the connection manager. The steps of TaskFlow's rows are those of their devices, one
row at a time.

### TaskFlow

One task, because tasks share only the semaphore and the connections. `task`, `result` and `started`
are what the database holds; `mem` is what create_task's session holds until its commit. There is
one action per read and one per commit of `create_task`, `cancel_task`, `get_task` and the result
handler. Two reads are merged with what follows because they carry no information: the handler's
SELECT of its own row (rows are never deleted; an agent reports `success` or `failed`, so the
assignment is always a change), and the SELECT of open rows in `cancel_task` (it first flushes the
new task status, so it reads under SQLite's write lock). `_sync_parent_task` is `Judge` (the SELECT)
and `SyncParent` (the UPDATE); its session still holds the handler's own row as the handler set it
(`SeenBy`). `conn` is the connection of AgentLink, including "orphan", the state `AgentChannel`
shows to be reachable: open, but no longer in the map. Rows have a connection each;
two rows of one device (a device id repeated in the request) are covered, since their connections
may break together or apart. An answer that has reached the server is still received after the
connection broke (`Disconnect` may keep it), and one that came by an older connection may go with it
(`Orphan`). The output text, the system information it may carry and the audit
entries are left out.

`TaskPromise` says the same thing to the person who made the task: `status` (open, completed,
failed, cancelled), the devices it is for and what each agent has reported, with five actions.
`KeepsPromise` is the refinement: `INSTANCE TaskPromise` with the rows' answers as `reported`, and
every step of TaskFlow is a step of it or a stutter. It needs no prophecy, since a verdict only
needs the reports that were made before it.

Faults are crashes and exceptions of the database, which raises "database is locked" while an import
holds the write lock for longer than the busy timeout. `RequestRaises` ends create_task, cancel_task
or get_task at a SELECT or a commit, with what its session had not committed. `HandlerRaises` ends a
result handler after the commit of its answer, in `_store_sysinfo_output` or `_sync_parent_task`:
the row shows the answer, the task is not written, and nobody tries again. The history variable
`missed` says that this, or a crash at the same point, has happened and no handler has judged the
rows since; `ParentAgrees` and `EndedRowsEndTask` are about tasks for which it is false.

### TaskPush

`AgentChannel` and `TaskFlow` leave out the last thing a handler does with a result,
`broadcast_task_update`, and with it the time it takes. A handler serves one connection of an agent
and takes its answers one by one: `waiting` are those in the receive buffer, `now` is the one it is
at, and each is committed (`Store`), followed by `_sync_parent_task` (`Sync`, one step here because
TaskFlow has it in full) and pushed. The loop iterates over the live set of subscribers and awaits a
send in each round; `start` is the set the iterator was made for (with the first send, no await
between), `tried` the pages it has been through, `dead` those whose send raised. A set iterator
raises RuntimeError when the *size* of the set has changed (`Raise`), and then the exception leaves
`agent_websocket`: the agent's connection ends and the answers that waited are lost (`End`). So they
are when the database raises before, at or after the commit (`Fail`). If as many pages came as went,
the loop goes on and may miss some (`Finish`). A page is loaded first (`Load`) and subscribes after,
as `viewTask` of `Tasks.vue` does. A stored result may be overwritten by create_task's commit or by
a timeout (`Replace`); the history variable `replaced` remembers that it was there.

As the console is written its socket is always refused (`Refuse`): `Tasks.vue:204` opens
`/ws/tasks/<id>` without the token that `task_websocket` asks for. Subscribing is in the model for
clients that send one.

### LoginLimit

`entry` is `_state` with times turned into differences: the age of the last failure and what is left
of the lock. `login` looks at the limiter (`Begin`), awaits the user's row, and reports (`Fail`,
`Succeed`, or `Abort` if the database raises); `Attempt` slots of one key overlap freely, each for
at most `MaxFlight` ticks. `Second` ticks make a second because `check_allowed` cuts fractions off:
the last fraction of a lock is not locked (`Locked`). The level is forgotten with the window.
Nothing limits the logins of a key that overlap, so the level a burst of them can bring depends on
their number: `TopLevel` is 3 and one more for every MAX_FAILURES of them.

### UpgradeRollout

`uploads` is the upload directory, newest first, cut back after each upload and once a day
(`Maintain`); `order` is the command on its way (an uploaded file, or `Latest`, the program on the
server itself, which is what the console sends); `fetched`, `dest` and `backup` are the three files
on the device; `script` is the next command of the generated script; `up`, `held` and `revive` are
the service manager's view: running, a program hanging in START_PENDING with its file open, a
restart due. Faults are an old upload that cannot be removed and the ones a script can meet: a
delete, move, copy or rollback that fails, the copies also half-way (`Torn`), and a power cut, each
at most once and `MaxFaults` of them together.

Three things about time are assumed, and stated in the module: the agent's `os.Exit` after 2 seconds
comes before the end of the script's wait of 3; the service manager's restart after 5 seconds comes
after the move; and no second command is accepted while a script runs, because the agent that the
script starts connects after 3 seconds and the script ends 5 seconds after the start. The last one
is narrow, and `upgradeRunning` does not enforce it, for it is gone with the process: if a second
command does arrive in time (a slow query, or a restart by the service manager during a rollback),
the second script overwrites the file of the first, both work on the same three files, and even the
backup may be lost.

### DeviceRegistry

`row` is the table, one record per id; `newer` orders the rows by `last_heartbeat`, which is all
that the code asks of it. `cfg` is the `config.json` of each machine, `addr` the address
`getLocalIP` finds. A `Sender` is a slot for a heartbeat request; `at` says where the request is,
`asks` is its payload and `loaded` the row its session has read. A heartbeat is `Enter` (taking the
registration lock), `FindById`, `FindByIp`, and one of `Refresh`, `Adopt`, `Create`, `Refuse`, which
release it; the two SELECTs and the COMMIT are where the event loop may run others. `Adopt` writes
what the session has changed: a row that was live when it was read stays deleted if it has been
deleted since. The answer reaches the agent in `Answer`, unless the process that asked is gone
(`Deafen`). The installer sends a heartbeat of its own (`Greet`), beside the service it has just
started.

Tokens are numbers: 0 for the random token of a row made in the console or by an import, 1, 2, ...
for those that installers make, -1, -2, ... for those that the deployment page hands out. An install
takes a new one, that of another install (`deploy.bat` gives all its machines the same) or one that
was handed out for a row. A machine that is reinstalled with the token its deleted row already has
stays deleted: `_handle_heartbeat` restores a row by a change of token only. An agent's token is
never empty, so the code's branch for an empty one is not there; neither is its answer "deleted",
which comes after a branch that accepts every deleted row. `create_device` and `delete_device` are
one action each, a batch deletion is several. `update_device` and `recover` read a row and write one
column whatever they have read, so reading and writing are one action. An import is a loop of
`ImportLine` because each line's SELECT is an await; it holds SQLite's write lock (`importing =
"holding"`) from its first flushed INSERT to its commit, and nobody else commits meanwhile
(`MayWrite`). One import runs at a time. `GenerateToken`, of the deployment page, makes the same row
as `CreateDevice` with a token that is told. `Restart` ends all requests and runs `_dedupe_devices`.

`RegistryPromise` has the id each address is known by and the id each machine has saved, and three
actions: an address that is not known gets an id that no other address has, a machine learns the id
of its own address, or it forgets what it had. An address is never given another id. `KeepsPromise`
is the refinement, with `KnownAs` of the addresses and the ids in the configurations.

Not in this module: the status column (AgentChannel), host names and hardware data, machines cloned
from one disk image, an installer that overwrites the configuration while the old service is still
running.

## 3. What is checked

| Run | Instance | Shows |
| --- | --- | --- |
| `channel_safety` | 3 connections of d1, 1 of d2, 2 agents per identity, 1 fault, no heartbeats | `TypeOK`, `EntryIsServed`, `ReplacementIsExclusive`, `OnlineHasWriter`, `ReplacedIsClosed`, `KeepsPromise`, `LinksAsAssumed` |
| `channel_liveness` | 2 connections of d1, 1 of d2, one agent per identity, 1 fault, heartbeats of d1 | `LockIsGranted`, `DeadConnectionRemoved`, `SilentDeviceGoesOffline` |
| `channel_reconnect` | 1 agent, no fault | *violated*: `OfflineOnlyWithoutConnection` |
| `task_upgrade` | up to 2 rows, an upgrade, 2 slots, 1 cancel, 1 crash or exception of the database | `TypeOK`, `CompletedMeansAnswered`, `SuccessMeansAnswered`, `NoRowLeftPending`, `EndedStaysEnded`, `StoredAnswerStands`, `KeepsPromise` |
| `task_answers` | up to 2 rows, not an upgrade, 1 slot, 1 cancel, 1 crash or exception of the database | `ParentAgrees`, `EndedRowsEndTask` |
| `task_lost_answer` | up to 2 rows, not an upgrade | *violated*: `AnswerIsShown` |
| `registry_static` | 2 machines with addresses of their own, 2 request slots and 1, 2 ids, 2 installs, 2 deletions, 1 fault | `TypeOK`, `OneRowPerAddress`, `DistinctIdentities`, `RestoredOnlyByReinstall`, `KeepsPromise` |
| `registry_console` | 2 machines that start with one address, one of them without the secret; 1 install, 1 move, 2 edits, 1 deletion, 1 fault; imports of up to 2 lines; 3 ids | `RestartKeepsOneRow` |
| `registry_liveness` | 1 machine, 2 request slots, 2 installs, 1 edit, 1 fault, 2 ids | `AgentIsRecognised` |
| `login_limit` | 4 logins of one key, locked after 3 failures; window, locks and their limit in the proportions of 900, 300 and 3600 s, 2 ticks a second; 1 restart | `TypeOK`, `LongestLock`, `LockStands`, `LockEnds` |
| `push` | 2 rows, 2 agent connections, 2 pages | `TypeOK`, `ShownWasStored`, `GonePagesForgotten`, `PushEnds`, `AnswersAreTaken`, `PushReachesAll` |
| `rollout` | 4 programs: the installed one, one that works, one that ends at once, one that hangs; 1 pushed file; 2 files kept; any 2 of 6 faults | `TypeOK`, `SomethingToRun`, `EndsAsIntended`, `ServiceReturns` |

**Bounds.** The races of the map need one handler that owns the entry, one that is replacing it and
one that arrives meanwhile: three connections of a device; the device d2 shares nothing with them
but the lock. The slots are reused without limit, so the number of reconnects is not bounded. In a
task every race is between create_task, cancel, poll and the handlers of two rows: the one that
judges first, and the one that must not be overlooked. One fault is enough to reach every state a
fault leaves behind, since what follows it is not bounded. Symmetry is used in the safety runs only,
over connections of the same device and over rows. In the registry two requests of one machine and
one of another are what it takes to overlap service, installer and a stranger; a duplicate needs two
rows, and a start of the server that has to choose needs three. What happens outside the machines
(installs, moves, edits, deletions, faults) is counted by `Bound`; heartbeats are not bounded. The
registry's runs do not check for deadlock: a machine may be uninstalled for good. Nor does `push`,
where everything may have been answered and closed. Keys do not interact in the limiter; three
logins are as many as it takes to lock, and a fourth that has passed the check before the first one
reports is what brings a level that logins one after the other do not reach. Two answers are what it
takes for one to wait behind the other; two connections and two pages, for one loop to change the
set under the other and for one page to go as another comes. Two files kept are enough for a
retention that has to choose; two faults for a fault in the rollback of a fault. `rollout` runs any
number of upgrades one after the other, so it needs no bound on them: faults are counted over all of
them.

**Fairness.** The event loop runs what can run: weak fairness of each coroutine in TaskFlow, strong
fairness of each handler in AgentChannel, because `asyncio.Lock` serves its waiters in order, so
that a handler that finds it free again and again gets it. The checker has a period of its own.
`EndedRowsEndTask` asks for no more; TaskFlow also assumes that a started row grows old and that
somebody opens the task again. In DeviceRegistry: strong fairness of the handling of each request,
for the same reason, weak fairness of an agent's heartbeats, which its ticker sends every 5 seconds,
of the delivery of their answers and of a running import, which lets the write lock go in the end.
In TaskPush weak fairness of the handlers of agents and of pages (no answer and no page has to
come): a send to a page that does not read ends because the web server's keepalive closes its
connection. In LoginLimit time passes and a login ends. In UpgradeRollout only the command
interpreter has to go on with its script. Nothing is assumed of agents, networks, users or failures.

**Two disagreements** between the code and what is said of it are kept as runs that end in a
violation:

1. *A reconnect is taken for a disconnect* (`channel_reconnect`). An agent's connection breaks; it
   reconnects; connect_agent closes the old socket and installs the new one; the old handler's
   `finally` removes the entry, which is the new one, and marks the device OFFLINE, against the
   comment at `server/api/ws_routes.py:147`. The next heartbeat shows the device ONLINE again, yet
   until the new connection breaks too every command to it fails with "Agent offline".
2. *An answer is lost* (`task_lost_answer`). An agent that answers before create_task has committed
   its outcomes, which it does after the slowest dispatch (one device is enough), has its answer
   overwritten with `sent` by the commit at `server/api/task_routes.py:117`. The task then shows a
   row `sent` and is either RUNNING for ever or already COMPLETED.

The models also have these behaviours, for which no run is kept:

* *Only the first overdue row times out*: the task is FAILED from then on and `get_task` looks at
  RUNNING tasks only, against the comment at `server/api/task_routes.py:208`. Nobody polls either:
  the console loads a task when it is opened.
* *The wrong row survives a start*: a row made in the console has the time it was made for a
  heartbeat, and displaces for good the row that an agent does report to, against the docstring at
  `server/database.py:70`.
* *A known address breaks the import*: an address that two rows have, which the console allows,
  raises in `scalar_one_or_none`, against `server/tests/test_features.py:27`.
* A machine that is installed after another one left the address it now has is taken for a reinstall
  of that one, and the two then take the row from each other at every heartbeat
  (`DistinctIdentities` needs constant addresses).
* An answer that arrives after a cancel or a timeout replaces it and may turn the task from
  CANCELLED or FAILED to COMPLETED; a cancel between the first two commits of create_task is
  overwritten with RUNNING; a verdict computed before a cancel can be written after a newer one; a
  crash in the middle of a dispatch leaves rows `pending` and the task RUNNING for ever.
* An exception of the database between the commit of an answer and that of the task
  (`server/api/ws_routes.py:126-130`) leaves the task open although all its rows have ended, until
  another answer for it comes; after the last one none does (`missed`).
* A page that subscribes or leaves while a result is being pushed ends the agent's connection
  (`Raise`), and with it, as in disagreement 1, the device may be marked OFFLINE; answers of that
  agent to other commands that have not been taken yet are lost. A page that reads slowly delays
  them. A result that comes between loading a page and its subscription is not shown there, and one
  that was shown may be gone when the page is loaded again, because `sent` or `timeout` was written
  over it. A page counts the task as over only if no row is `timeout`.
* MAX_LOCK_SECONDS is never reached by logins that do not overlap: a lock of level 3 (1200 s)
  outlasts the window of 900 s, so the failure after it starts again at level 1 (`LongestLock`). The
  level rises further only within a burst of logins that were admitted together, once for every
  MAX_FAILURES of them: with 5 it takes 11 at a time to come to the maximum. A failure that is
  reported while a lock runs renews the window, and may start a longer lock.
* The rollback fails when the new program hangs in START_PENDING, for it holds the file that is to
  be replaced (`agent/upgrade.go:113` promises a rollback when the new service does not start);
  `ServiceReturns` excuses it. A move that fails with no older backup ends the script with the
  service stopped; with an older one it goes on, installs over the file in place, and a rollback
  then restores the older program. The copy is tested only for the existence of its result.
* A pushed file that retention removed before the download is answered 404, and `file_push` saves
  the answer's body and reports success, as it does not look at the HTTP status
  (`agent/handler.go:225`); `downloadUpgrade` does.

## 4. What is proved

For any constants that satisfy the named assumptions of the modules, that is for any number of
devices, connections, rows, slots and faults:

* `AgentChannel_proofs`: `TypeCorrect`; `EntryServed` and `ReplacementExclusive` from `MapInv`,
  their conjunction, which is inductive because a handler at a place outside the map's life is not
  in the map (`NotInMap`) and because the lock's holder is unique (a handler holds the lock just
  when it awaits `old.close()`, so the lock is never left behind); `ReplacedClosed`, an action
  property, from the same invariant; `OnlineWriter`, inductive by itself given the types.
  `ChannelPromiseKept`, that AgentChannel implements ChannelPromise, from `MapInv` and `SocketInv`
  (no handler that has yet to take its place in the map has had its socket closed).
  `LinksAssumedHold`, that it implements AgentLink: a step touches the connections of one device
  (`EntryServed` again: the socket that `BeginClose` closes is that device's), and whoever is heard
  without being in the map was in it.
* `TaskFlow_proofs`: `TypeCorrect`; `AnswerInv` (a command goes out once, so a row has one answer,
  and whatever refers to a row refers to one that exists), on which the rest depends;
  `SuccessAnswered`; `CompletedAnswered`, by the strengthening `VerdictInv`: a "completed" that has
  been computed but not written yet is already justified, and stays so (`AnswerStable`,
  `RowsStable`) while others run; `EndedStays` and `AnswerStands` (action properties);
  `NoneLeftPending`.
* `TaskFlow_proofs`, continued: `PromiseKept`, that TaskFlow implements TaskPromise, one step of
  TaskFlow at a time, from `PromiseInv` (before `MarkRunning` nobody but a cancel has touched the
  task, and no row is dispatched). `ParentAgreesAlways`, from `AgreeInv`: when all rows have ended
  and no handler failed since one judged last (`missed`), the task already agrees, or a handler is
  still to judge or to write, or create_task is about to find that it could send nothing; and
  whoever has judged has judged what is shown now. `CalmInv` says why a row's status does not change
  behind a handler's back. Crashes and exceptions of the database are among the steps.
* `TaskFlow_proofs`, at last: `VerdictsNotMissed`, the safety half of `EndedRowsEndTask`, with
  cancels, timeouts, overwritten answers and failing handlers: when create_task is done and all rows
  have ended, the task has ended, or a handler is in hand that will end it, or the last one failed
  between its two commits and none has judged since (`missed`). `MissInv` says it from the commit of
  the outcomes on, with "nothing was sent" as the other way for the task to end: a handler whose
  verdict was "none" saw a row that has not ended, and every later end of that row brings a judge of
  its own or ends the task itself.
* `DeviceRegistry_proofs`: `TypeCorrect`; `RestoredByReinstall`, for everything the console, imports
  and restarts may do, from `TokenInv`: whoever looks for a row holds the registration lock
  (`LockInv`), and a token that was read is still the row's token (`SeenInv`), since tokens are
  written under the lock only; `OneRow` and `Distinct`, assuming that nobody edits rows and no
  address changes (`HeartbeatsOnly`, the conditions of `registry_static`), and `Distinct` also that
  the addresses differ. Their invariant `StaticInv` says that whatever refers to a row (a saved id,
  a payload, a request that has found it) refers to one that is in the table with the address in
  question (`Saved`, `Asked`, `Found`), and that what a request did not find is still absent
  (`Absent`).
* `DeviceRegistry_proofs`, continued: `OneRowKept`, for any edits, imports, moves and faults, from
  `OrderInv`: `newer` is asymmetric and every set of rows has a first one in it, which touching a
  row and removing rows both keep (`OrderTouched`, `OrderWithout`), so a start always has one row to
  keep and no second. `RegistryPromiseKept`, that DeviceRegistry implements RegistryPromise, from
  `StaticInv` and its conditions. `LockNotKept`, the safety half of `AgentIsRecognised`: the
  registration lock is with a request that is being worked on (`Held`), and that request has a next
  step, because its query has a first row (`OrderInv`) and the row it found is still in the table
  (`TokenInv`).
* `LoginLimit_proofs`: `TypeCorrect`; `LocksStand`, from `LockInv`: a lock is no longer than its
  level gives it, and a login that was admitted before the lock has been under way for longer than
  the last failure is old, so that its report finds the failures it overlapped with still in the
  window and does not start a new entry (`FlightAssumption`); `NoLongerLock`, for any number of
  overlapping logins, from `TopInv`: from level 3 on, while a lock stands, the levels above 3, the
  failures counted and the logins still to report add up to no more than one burst (`Burst`, with
  `InReach` for the level itself), and when the lock is over the last failure is out of the window
  (`OverAfterWindow`, from `WindowAssumption`), so that the next burst starts again at level 1.
* `TaskPush_proofs`: `TypeCorrect`; `PagesShowStored`, a page shows a result only after its commit
  (a handler that pushes has committed the row it is at, and what was once committed is stored or
  was replaced); `GoneForgotten`; `PushesReachAll` (a page the loop has been through was shown the
  result, or is not open).
* `UpgradeRollout_proofs`: `TypeCorrect`, with the limit on the uploads (`UploadsBound`: one more
  only after a removal that failed); `AlwaysSomethingToRun`, by the strengthening `ScriptInv`: what
  runs is the installed file, the file that is moved away is the one that accepted the upgrade, and
  the backup stays a working program to the end of the script; `EndsRight`, that a script without a
  fault leaves the new program running exactly if it is one that comes up and the backup if it ends
  at once, from `Unharmed`, which says where such a script has come to at each of its commands;
  `EndsUp`, the safety half of `ServiceReturns`: after a delete or a copy that failed the rollback
  leaves behind something that comes up or hangs (`Mended`).

Only model-checked: the liveness properties (`LockIsGranted`, `DeadConnectionRemoved`,
`SilentDeviceGoesOffline`, `EndedRowsEndTask`, `AgentIsRecognised`, `LockEnds`, `PushEnds`,
`AnswersAreTaken`, `ServiceReturns`), which need fairness and ENABLED and are out of the prover's
reach. For most of them the part that is not about fairness is proved: nobody is left with a lock, a
verdict or an entry in the map that he would have to act on (`ReplacementExclusive`, `LockNotKept`,
`VerdictsNotMissed`, `EntryServed`, `OnlineWriter`, `NoLongerLock`, `EndsUp`). No theorem is stated
about recursive definitions; there are none.

## 5. Plan, and what is not modelled

Next: a module for the files of the agent (`config.json` written in place, the recovery flag around
sysprep, pushed files), and abstract specifications of UpgradeRollout and LoginLimit.

Not modelled, and why:

* `change_password`: one read, one check, one write of one user's row. Hashing, signing and password
  rules: pure functions.
* The audit log: rows that are appended and purged by age; no other part reads them.
* The deployment package and the program the server serves itself (`/latest`, `/latest-download`
  beyond its content): one request builds or reads one file.
* sysprep, sysinfo and hostmsg beyond their place in the agent's serial loop, and the migration of
  old data: calls of Windows.
* Installers, build scripts, and the pages of the console that only display what they load.
