--------------------------- MODULE DeviceRegistry ---------------------------
(***************************************************************************)
(* Who a machine is to the server: the rows of the table devices, the      *)
(* identity an agent keeps in its config.json, and everything that relates *)
(* the two.                                                                *)
(*                                                                         *)
(*   server/api/agent_routes.py   heartbeat (under the registration lock)  *)
(*                                and recover (outside it)                 *)
(*   server/api/device_routes.py  create, edit, soft delete                *)
(*   server/api/deploy_routes.py  create, with a token to hand out         *)
(*   server/api/import_routes.py  CSV and IP-range import                  *)
(*   server/database.py           _dedupe_devices, at every start          *)
(*   agent/heartbeat.go, main.go  sending, saving the answer, installing   *)
(*                                                                         *)
(* Of a row the model keeps what identifies a machine: its id, address,    *)
(* token, whether it is soft-deleted, and the order of last_heartbeat.     *)
(* The status column is the subject of AgentChannel.                       *)
(*                                                                         *)
(* A step is the code between two awaits.  SQLite has one writer at a time *)
(* and a session sees only what others have committed.                     *)
(***************************************************************************)
EXTENDS Integers, Sequences, FiniteSets

CONSTANTS
    Machine,    \* computers an agent may be installed on
    Sender,     \* slots for heartbeat requests
    MachineOf,  \* the machine a slot belongs to
    Enrolled,   \* the machines whose configuration has the right enroll_secret
    Address,    \* IP addresses
    Home,       \* the address a machine has at first
    Id,         \* uuids of device rows; none is used twice
    NoId,       \* the empty device_id of a fresh config.json
    NoSender,   \* the registration lock is free
    MaxListed,  \* bound on the lines of an import
    Bound       \* bounds on installs, moves, edits, deletes and faults

Counted == {"installs", "moves", "edits", "deletes", "faults"}

ASSUME MachineOfAssumption == MachineOf \in [Sender -> Machine]
ASSUME HomeAssumption == Home \in [Machine -> Address] /\ Machine # {}
ASSUME EnrolledAssumption == Enrolled \subseteq Machine
ASSUME IdAssumption == NoId \notin Id /\ Id # {}
ASSUME NoSenderAssumption == NoSender \notin Sender
ASSUME BoundAssumption == MaxListed \in Nat /\ Bound \in [Counted -> Nat]

VARIABLES
    row,        \* the table devices
    newer,      \* <<i, j>>: last_heartbeat of row i is after that of row j
    cfg,        \* config.json of each machine
    addr,       \* the address getLocalIP finds on each machine
    lock,       \* the request that holds the registration lock
    at,         \* where the request of each slot is
    asks,       \* the payload of each request
    loaded,     \* the row a request has read, as it was then
    list,       \* the lines the running import has still to look at
    importing,  \* the state of the import session
    count       \* what has been used up of each bound

vars == <<row, newer, cfg, addr, lock, at, asks, loaded, list, importing, count>>

serverVars == <<lock, at, asks, loaded>>
agentVars == <<cfg, addr>>
importVars == <<list, importing>>

(***************************************************************************)
(* unused   no row has this id yet                                         *)
(* added    INSERTed or to be INSERTed by an import not committed yet:     *)
(*          visible to that import alone                                   *)
(* live     in the table, deleted_at IS NULL                               *)
(* deleted  in the table, deleted_at set                                   *)
(* purged   DELETEd by _dedupe_devices                                     *)
(***************************************************************************)
Life == {"unused", "added", "live", "deleted", "purged"}

\* Token 0 stands for the uuid4 of a row that no agent has reported for and that
\* nobody was told.  Those that installers make are numbered 1, 2, ..., and those
\* that the console hands out -1, -2, ...
Row == [life : Life, ip : Address, token : Int]

\* idle, then: waiting for the lock; about to SELECT by id; about to SELECT
\* by IP; a row was found; none was found; answered, the agent to hear of it.
Stage == {"idle", "waiting", "byId", "byIp", "found", "unknown", "answered"}

Config == [on : BOOLEAN, token : Int, id : Id \cup {NoId}, greet : BOOLEAN]
Payload == [ip : Address, token : Int, id : Id \cup {NoId}, heard : BOOLEAN]
Loaded == [id : Id \cup {NoId}, life : Life, ip : Address, token : Int]

\* holding: the import has INSERTed and so holds SQLite's write lock.
\* raised: scalar_one_or_none met two rows and the request ended with HTTP 500.
Import == {"none", "reading", "holding", "raised"}

TypeOK ==
    /\ row \in [Id -> Row]
    /\ newer \subseteq Id \X Id
    /\ cfg \in [Machine -> Config]
    /\ addr \in [Machine -> Address]
    /\ lock \in Sender \cup {NoSender}
    /\ at \in [Sender -> Stage]
    /\ asks \in [Sender -> Payload]
    /\ \A s \in Sender : at[s] = "byId" => asks[s].id \in Id
    /\ loaded \in [Sender -> Loaded]
    /\ \A s \in Sender : at[s] \in {"found", "answered"} => loaded[s].id \in Id
    /\ list \in Seq(Address)
    /\ importing \in Import
    /\ count \in [Counted -> Nat]

Nowhere == Home[CHOOSE m \in Machine : TRUE]
NotInstalled == [on |-> FALSE, token |-> 0, id |-> NoId, greet |-> FALSE]
BlankRow == [life |-> "unused", ip |-> Nowhere, token |-> 0]
BlankPayload == [ip |-> Nowhere, token |-> 0, id |-> NoId, heard |-> FALSE]
BlankLoaded == [id |-> NoId, life |-> "unused", ip |-> Nowhere, token |-> 0]

Init ==
    /\ row = [i \in Id |-> BlankRow]
    /\ newer = {}
    /\ cfg = [m \in Machine |-> NotInstalled]
    /\ addr = Home
    /\ lock = NoSender
    /\ at = [s \in Sender |-> "idle"]
    /\ asks = [s \in Sender |-> BlankPayload]
    /\ loaded = [s \in Sender |-> BlankLoaded]
    /\ list = <<>>
    /\ importing = "none"
    /\ count = [k \in Counted |-> 0]

-----------------------------------------------------------------------------
(* Helpers.                                                                *)

InTable(i) == row[i].life \in {"live", "deleted"}

HandedOut == {row[i].token : i \in {j \in Id : InTable(j) /\ row[j].token < 0}}

\* Mutant: the WHERE clause is lost.
AtAddress_AnyRow(a) == {i \in Id : InTable(i)}

\* Mutant: the query looks for rows that are not deleted.
AtAddress_LiveOnly(a) == {i \in Id : row[i].life = "live" /\ row[i].ip = a}

\* SELECT ... WHERE ip = :ip, which does not look at deleted_at.
AtAddress(a) == {i \in Id : InTable(i) /\ row[i].ip = a}

\* ORDER BY last_heartbeat DESC: i comes first among the rows of S.
Latest(i, S) == i \in S /\ \A j \in S \ {i} : <<i, j>> \in newer

\* last_heartbeat = now_bjt() on row i.
Touch(i) ==
    newer' = {p \in newer : i \notin {p[1], p[2]}} \cup
             {<<i, j>> : j \in {k \in Id \ {i} : row[k].life \notin {"unused", "purged"}}}

\* COMMIT of a write takes SQLite's write lock, which an import may hold.
MayWrite == importing # "holding"

Spend(k) == /\ count[k] < Bound[k]
            /\ count' = [count EXCEPT ![k] = @ + 1]

Identity(i) == [id |-> i, life |-> row[i].life, ip |-> row[i].ip, token |-> row[i].token]

\* The agent process that sent the requests of m is gone: nobody waits for
\* their answers, while the server may still be working on them.
Deafen(m) == asks' = [s \in Sender |->
                IF MachineOf[s] = m THEN [asks[s] EXCEPT !.heard = FALSE] ELSE asks[s]]

-----------------------------------------------------------------------------
(* The agent.                                                              *)

\* installService: a new config.json without device_id; the running service, if
\* any, is stopped and the new one started.  The token is a new one, unless the
\* installer is given one: that of another install, for deploy.bat gives all its
\* machines the same, or one that the console has handed out for a row.
Install(m) ==
    /\ Spend("installs")
    /\ \E t \in 1..count'["installs"] \cup HandedOut :
          cfg' = [cfg EXCEPT ![m] = [on |-> TRUE, token |-> t, id |-> NoId,
                                     greet |-> TRUE]]
    /\ Deafen(m)
    /\ UNCHANGED <<row, newer, addr, lock, at, loaded, importVars>>

\* uninstallService, by hand or by the command delete_device sends.
Uninstall(m) ==
    /\ cfg[m].on
    /\ cfg' = [cfg EXCEPT ![m] = NotInstalled]
    /\ Deafen(m)
    /\ UNCHANGED <<row, newer, addr, lock, at, loaded, importVars, count>>

\* The machine restarts, with an address that is free now (DHCP).
Move(m, a) ==
    /\ Spend("moves")
    /\ \A n \in Machine \ {m} : addr[n] # a
    /\ addr' = [addr EXCEPT ![m] = a]
    /\ Deafen(m)
    /\ UNCHANGED <<row, newer, cfg, lock, at, loaded, importVars>>

Submit(s, id, heard) ==
    /\ at[s] = "idle"
    /\ at' = [at EXCEPT ![s] = "waiting"]
    /\ asks' = [asks EXCEPT ![s] = [ip |-> addr[MachineOf[s]],
                                    token |-> cfg[MachineOf[s]].token,
                                    id |-> id, heard |-> heard]]
    /\ UNCHANGED <<row, newer, addr, lock, loaded, importVars, count>>

\* sendHeartbeat from startHeartbeat, which waits for one answer before it
\* sends again.
Beat(s) ==
    /\ cfg[MachineOf[s]].on
    /\ \A r \in Sender : MachineOf[r] = MachineOf[s] => at[r] = "idle" \/ ~asks[r].heard
    /\ Submit(s, cfg[MachineOf[s]].id, TRUE)
    /\ UNCHANGED cfg

\* sendHeartbeat of the installer itself, beside the service it has just
\* started: without device_id, and what it saves is not the service's file.
Greet(s) ==
    /\ cfg[MachineOf[s]].greet
    /\ cfg' = [cfg EXCEPT ![MachineOf[s]].greet = FALSE]
    /\ Submit(s, NoId, FALSE)

Goto(s, stage) == at' = [at EXCEPT ![s] = stage]

\* The request is over: the payload and what was read of it are dropped.
Drop(s) == /\ Goto(s, "idle")
           /\ asks' = [asks EXCEPT ![s] = BlankPayload]
           /\ loaded' = [loaded EXCEPT ![s] = BlankLoaded]

\* The answer arrives: sendHeartbeat saves a device_id that differs.
Answer(s) ==
    /\ at[s] = "answered"
    /\ cfg' = IF asks[s].heard
                 THEN [cfg EXCEPT ![MachineOf[s]].id = loaded[s].id]
                 ELSE cfg
    /\ Drop(s)
    /\ UNCHANGED <<row, newer, addr, lock, importVars, count>>

-----------------------------------------------------------------------------
(* POST /api/agents/heartbeat.                                             *)

\* Mutant: the handler runs without the registration lock.
Enter_WithoutLock(s) ==
    /\ at[s] = "waiting"
    /\ lock' = s
    /\ Goto(s, IF asks[s].id = NoId THEN "byIp" ELSE "byId")
    /\ UNCHANGED <<row, newer, agentVars, asks, loaded, importVars, count>>

\* async with _get_registration_lock()
Enter(s) ==
    /\ at[s] = "waiting"
    /\ lock = NoSender
    /\ lock' = s
    /\ Goto(s, IF asks[s].id = NoId THEN "byIp" ELSE "byId")
    /\ UNCHANGED <<row, newer, agentVars, asks, loaded, importVars, count>>

FindById(s) ==
    /\ at[s] = "byId"
    /\ IF InTable(asks[s].id)
          THEN /\ Goto(s, "found")
               /\ loaded' = [loaded EXCEPT ![s] = Identity(asks[s].id)]
          ELSE /\ Goto(s, "byIp")
               /\ UNCHANGED loaded
    /\ UNCHANGED <<row, newer, agentVars, lock, asks, importVars, count>>

\* Mutant: no test for None after scalars().first().
FindByIp_NoneIsFound(s) ==
    /\ at[s] = "byIp"
    /\ Goto(s, "found")
    /\ loaded' = [loaded EXCEPT ![s] =
                     IF AtAddress(asks[s].ip) = {} THEN BlankLoaded
                     ELSE Identity(CHOOSE i \in Id : Latest(i, AtAddress(asks[s].ip)))]
    /\ UNCHANGED <<row, newer, agentVars, lock, asks, importVars, count>>

FindByIp(s) ==
    /\ at[s] = "byIp"
    /\ \/ /\ AtAddress(asks[s].ip) = {}
          /\ Goto(s, "unknown")
          /\ UNCHANGED loaded
       \/ \E i \in AtAddress(asks[s].ip) :
             /\ Latest(i, AtAddress(asks[s].ip))
             /\ Goto(s, "found")
             /\ loaded' = [loaded EXCEPT ![s] = Identity(i)]
    /\ UNCHANGED <<row, newer, agentVars, lock, asks, importVars, count>>

\* Mutant: deleted_at is tested before the token.
TokenMatches_LiveOnly(s) == loaded[s].life = "live" /\ asks[s].token = loaded[s].token
TokenMatches(s) == asks[s].token = loaded[s].token

Trusted(s) == MachineOf[s] \in Enrolled

\* Mutant: the secret does not help a machine that was reinstalled.
MayAdopt_DeletedOnly(s) == loaded[s].life = "deleted"

\* A token that differs is accepted from who knows the secret, and for a row
\* that is deleted from anyone.
MayAdopt(s) == loaded[s].life = "deleted" \/ Trusted(s)

\* The tokens agree: only run-time columns are written, not ip or deleted_at.
Refresh(s) ==
    /\ at[s] = "found"
    /\ TokenMatches(s)
    /\ MayWrite
    /\ Touch(loaded[s].id)
    /\ lock' = NoSender
    /\ Goto(s, "answered")
    /\ UNCHANGED <<row, agentVars, asks, loaded, importVars, count>>

\* _adopt_device: a reinstalled agent takes the row over.  The session writes
\* the columns it has changed since it read them: deleted_at only if it was
\* set then, ip only if it differed then.
Adopt(s) ==
    LET seen == loaded[s]
    IN  /\ at[s] = "found"
        /\ ~TokenMatches(s)
        /\ MayAdopt(s)
        /\ MayWrite
        /\ row' = [row EXCEPT ![seen.id] =
                      [life |-> IF seen.life = "deleted" THEN "live" ELSE @.life,
                       ip |-> IF seen.ip # asks[s].ip THEN asks[s].ip ELSE @.ip,
                       token |-> asks[s].token]]
        /\ Touch(seen.id)
        /\ lock' = NoSender
        /\ Goto(s, "answered")
        /\ UNCHANGED <<agentVars, asks, loaded, importVars, count>>

\* A row nobody has had so far.
Create(s) ==
    /\ at[s] = "unknown"
    /\ Trusted(s)
    /\ MayWrite
    /\ \E i \in Id :
          /\ row[i].life = "unused"
          /\ row' = [row EXCEPT ![i] = [life |-> "live", ip |-> asks[s].ip,
                                        token |-> asks[s].token]]
          /\ Touch(i)
          /\ loaded' = [loaded EXCEPT ![s] = [id |-> i, life |-> "live",
                                              ip |-> asks[s].ip, token |-> asks[s].token]]
    /\ lock' = NoSender
    /\ Goto(s, "answered")
    /\ UNCHANGED <<agentVars, asks, importVars, count>>

\* HTTP 401.  The branch that answers "deleted" comes after the one that
\* accepts every deleted row, so no request reaches it.
Refuse(s) ==
    /\ \/ at[s] = "unknown" /\ ~Trusted(s)
       \/ at[s] = "found" /\ ~TokenMatches(s) /\ ~MayAdopt(s)
    /\ lock' = NoSender
    /\ Drop(s)
    /\ UNCHANGED <<row, newer, agentVars, importVars, count>>

\* The request or its answer is lost, or the server's handler raises (as it
\* does when the write lock is not free for 5 seconds).
Lose(s) ==
    /\ at[s] # "idle"
    /\ Spend("faults")
    /\ lock' = IF lock = s THEN NoSender ELSE lock
    /\ Drop(s)
    /\ UNCHANGED <<row, newer, agentVars, importVars>>

\* POST /api/agents/recover after sysprep, and the two writes of
\* agent_websocket: the status, which is not modelled here, and last_heartbeat
\* of a row that an agent holds the token of.
TouchedOtherwise(i) ==
    /\ InTable(i)
    /\ row[i].token # 0
    /\ MayWrite
    /\ Touch(i)
    /\ UNCHANGED <<row, serverVars, agentVars, importVars, count>>

-----------------------------------------------------------------------------
(* The console.                                                            *)

Insert(a, token) ==
    /\ Spend("edits")
    /\ MayWrite
    /\ \E i \in Id :
          /\ row[i].life = "unused"
          /\ row' = [row EXCEPT ![i] = [life |-> "live", ip |-> a, token |-> token]]
          /\ Touch(i)
    /\ UNCHANGED <<serverVars, agentVars, importVars>>

\* create_device: does not look for the address.
CreateDevice(a) == Insert(a, 0)

\* generate_device_token: the same row, but its token is told.
GenerateToken(a) == Insert(a, 0 - count'["edits"])

\* update_device, of which only the address matters here.
EditAddress(i, a) ==
    /\ Spend("edits")
    /\ InTable(i)
    /\ MayWrite
    /\ row' = [row EXCEPT ![i].ip = a]
    /\ UNCHANGED <<newer, serverVars, agentVars, importVars>>

\* delete_device and batch_delete_devices, which is as many of these; that
\* an online agent is also told to go is Uninstall.
DeleteDevice(i) ==
    /\ Spend("deletes")
    /\ InTable(i)
    /\ MayWrite
    /\ row' = [row EXCEPT ![i].life = "deleted"]
    /\ UNCHANGED <<newer, serverVars, agentVars, importVars>>

Added == {i \in Id : row[i].life = "added"}

\* import_csv or import_ip_range begins; one import runs at a time.
ImportStart ==
    /\ importing \in {"none", "raised"}
    /\ Spend("edits")
    /\ list' \in UNION {[1..n -> Address] : n \in 1..MaxListed}
    /\ importing' = "reading"
    /\ UNCHANGED <<row, newer, serverVars, agentVars>>

\* One line: the SELECT first flushes what was added before, then
\* scalar_one_or_none decides: none, add; one, skip; more, it raises and the
\* session is rolled back.
ImportLine ==
    /\ importing \in {"reading", "holding"}
    /\ list # <<>>
    /\ LET a == Head(list)
           hits == AtAddress(a) \cup {i \in Added : row[i].ip = a}
           holds == IF Added # {} THEN "holding" ELSE importing
       IN  \/ /\ hits = {}
              /\ \E i \in Id :
                    /\ row[i].life = "unused"
                    /\ row' = [row EXCEPT ![i] = [life |-> "added", ip |-> a, token |-> 0]]
                    /\ Touch(i)
              /\ list' = Tail(list)
              /\ importing' = holds
           \/ /\ Cardinality(hits) = 1
              /\ list' = Tail(list)
              /\ importing' = holds
              /\ UNCHANGED <<row, newer>>
           \/ /\ Cardinality(hits) > 1
              /\ row' = [i \in Id |-> IF i \in Added THEN BlankRow ELSE row[i]]
              /\ newer' = {p \in newer : Added \cap {p[1], p[2]} = {}}
              /\ list' = <<>>
              /\ importing' = "raised"
    /\ UNCHANGED <<serverVars, agentVars, count>>

ImportCommit ==
    /\ importing \in {"reading", "holding"}
    /\ list = <<>>
    /\ row' = [i \in Id |-> IF i \in Added THEN [row[i] EXCEPT !.life = "live"] ELSE row[i]]
    /\ importing' = "none"
    /\ UNCHANGED <<newer, list, serverVars, agentVars, count>>

-----------------------------------------------------------------------------
(* A start of the server.                                                  *)

\* Mutant: the loop takes all ids of the address, not ids[1:].
Superseded_AllOfThem(i) == /\ row[i].life = "live"
                           /\ \E j \in Id \ {i} : /\ row[j].life = "live"
                                                  /\ row[j].ip = row[i].ip

\* _dedupe_devices: of the live rows of an address all but the first by
\* last_heartbeat are deleted for good.
Superseded(i) == /\ row[i].life = "live"
                 /\ \E j \in Id : /\ row[j].life = "live"
                                  /\ row[j].ip = row[i].ip
                                  /\ <<j, i>> \in newer

Purge == {i \in Id : Superseded(i)}

\* The server goes down, with every request it was working on, and comes up.
Restart ==
    /\ Spend("faults")
    /\ row' = [i \in Id |-> CASE i \in Purge -> [BlankRow EXCEPT !.life = "purged"]
                              [] i \in Added -> BlankRow
                              [] OTHER -> row[i]]
    /\ newer' = {p \in newer : (Purge \cup Added) \cap {p[1], p[2]} = {}}
    /\ lock' = NoSender
    /\ at' = [s \in Sender |-> "idle"]
    /\ asks' = [s \in Sender |-> BlankPayload]
    /\ loaded' = [s \in Sender |-> BlankLoaded]
    /\ list' = <<>>
    /\ importing' = "none"
    /\ UNCHANGED agentVars

-----------------------------------------------------------------------------
(* What the server does with a request it has, once it gets to it.         *)
Handle(s) == \/ Enter(s) \/ FindById(s) \/ FindByIp(s)
             \/ Refresh(s) \/ Adopt(s) \/ Create(s) \/ Refuse(s)

Agent(m) == \/ Install(m)
            \/ Uninstall(m)
            \/ \E a \in Address : Move(m, a)

Slot(s) == Beat(s) \/ Greet(s) \/ Answer(s) \/ Handle(s) \/ Lose(s)

Console == \/ \E a \in Address : CreateDevice(a) \/ GenerateToken(a)
           \/ \E i \in Id, a \in Address : EditAddress(i, a)
           \/ \E i \in Id : DeleteDevice(i)
           \/ ImportStart \/ ImportLine \/ ImportCommit

Next == \/ \E m \in Machine : Agent(m)
        \/ \E s \in Sender : Slot(s)
        \/ \E i \in Id : TouchedOtherwise(i)
        \/ Console
        \/ Restart

\* The event loop runs what can run and asyncio.Lock is first come, first
\* served; the ticker of an agent fires every 5 seconds.
Fairness ==
    /\ \A s \in Sender : SF_vars(Handle(s)) /\ WF_vars(Answer(s))
    /\ \A m \in Machine : WF_vars(\E s \in Sender : MachineOf[s] = m /\ Beat(s))
    /\ WF_vars(ImportLine \/ ImportCommit)

Safety == Init /\ [][Next]_vars
Spec == Safety /\ Fairness

-----------------------------------------------------------------------------
(* Properties.                                                             *)

\* As long as rows come from heartbeats alone and machines keep their
\* addresses, no two rows, deleted or not, have one address, however requests
\* of the service, its installer and other machines overlap: the lock makes
\* looking for a row and creating it one step (agent_routes.py:74).
OneRowPerAddress ==
    \A i, j \in Id : i # j /\ InTable(i) /\ InTable(j) => row[i].ip # row[j].ip

\* Two installed machines never believe to be the same device.  It holds as
\* long as nobody's address changes and nobody edits rows; otherwise the match
\* by address, meant for reinstalls, hands one machine's row to another.
DistinctIdentities ==
    \A m, n \in Machine :
        m # n /\ cfg[m].on /\ cfg[n].on /\ cfg[m].id # NoId => cfg[m].id # cfg[n].id

\* The id an address is registered under, live or deleted.
KnownAs(a) == IF \E i \in Id : InTable(i) /\ row[i].ip = a
                 THEN CHOOSE i \in Id : InTable(i) /\ row[i].ip = a
                 ELSE NoId

Promise == INSTANCE RegistryPromise WITH
              known <- [a \in Address |-> KnownAs(a)],
              saved <- [m \in Machine |-> cfg[m].id]

\* Under the conditions of OneRowPerAddress a heartbeat is as good as atomic:
\* an address keeps the id it got first, through deletions, restorations,
\* reinstalls and restarts, and no answer, however late, tells an agent another.
KeepsPromise == Promise!Spec

\* A soft-deleted device comes back only with a new token, that is when an
\* agent was reinstalled; the agent that was deleted with it never brings it
\* back, not even by a request that was under way when it was deleted.
RestoredOnlyByReinstall ==
    [][\A i \in Id : row[i].life = "deleted" /\ row'[i].life = "live"
                        => row'[i].token # row[i].token]_vars

\* After a start every address that had live rows has one; deleted rows stay.
RestartKeepsOneRow ==
    [][Restart => \A a \in Address :
          LET was(life) == {i \in Id : row[i].life = life /\ row[i].ip = a}
              is(life) == {i \in Id : row'[i].life = life /\ row'[i].ip = a}
          IN  /\ was("live") # {} => Cardinality(is("live")) = 1
              /\ is("live") \subseteq was("live")
              /\ is("deleted") = was("deleted")]_vars

\* An agent that holds the enrolment secret and keeps beating gets to be known:
\* it has saved the id of a row that has its token, unless it is uninstalled.
AgentIsRecognised ==
    \A m \in Enrolled :
        cfg[m].on ~> \/ ~cfg[m].on
                     \/ /\ cfg[m].id # NoId
                        /\ InTable(cfg[m].id)
                        /\ row[cfg[m].id].token = cfg[m].token
=============================================================================
