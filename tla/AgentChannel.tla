---------------------------- MODULE AgentChannel ----------------------------
(***************************************************************************)
(* The WebSocket channel between the server and the agents:                *)
(* server/api/websocket_manager.py (ConnectionManager: the map             *)
(* active_connections and the one asyncio lock that guards it) and the     *)
(* coroutine agent_websocket of server/api/ws_routes.py, one instance of   *)
(* which serves each connection from its handshake to the OFFLINE write of *)
(* its finally block.                                                      *)
(*                                                                         *)
(* A step of a handler is the code it runs between two suspension points   *)
(* (await of the lock, of a socket, of the database); between two steps    *)
(* any other coroutine may run.  What a handler does with the messages it  *)
(* receives is the subject of TaskFlow; here receiving changes nothing.    *)
(*                                                                         *)
(* Beside the handlers, two other parts of the program write a device row: *)
(* the heartbeat endpoint (its refresh path) and heartbeat_timeout_checker.*)
(* The age of last_heartbeat is reduced to one bit, whether it is within   *)
(* HEARTBEAT_TIMEOUT_SECONDS.                                              *)
(***************************************************************************)
EXTENDS Integers, FiniteSets

CONSTANTS
    Device,     \* ids of the registered devices
    Conn,       \* connection slots; a slot is reused once its handler ended
    DeviceOf,   \* the device id in the URL a connection is opened with
    NoConn,     \* "no websocket": an absent key of the map, a free lock
    Peers,      \* how many agent processes hold the identity of one device
    Beating,    \* the devices whose agent sends HTTP heartbeats
    MaxFaults   \* bound on handler exceptions and server restarts

ASSUME DeviceOfAssumption == DeviceOf \in [Conn -> Device]
ASSUME NoConnAssumption == NoConn \notin Conn
ASSUME BoundsAssumption == Peers \in Nat /\ MaxFaults \in Nat

VARIABLES
    active,     \* active_connections: the websocket commands are sent on
    lock,       \* the handler that holds _lock across an await
    pc,         \* where the handler of each connection is
    link,       \* the socket, as the server can know it
    status,     \* the status column of the device row
    fresh,      \* last_heartbeat is younger than HEARTBEAT_TIMEOUT_SECONDS
    faults      \* exceptions and restarts so far

vars == <<active, lock, pc, link, status, fresh, faults>>

(***************************************************************************)
(* idle       no request on this slot                                      *)
(* auth       handshake received, device row not read yet                  *)
(* waiting    accepted, about to take the lock in connect_agent            *)
(* closing    holds the lock, awaiting old.close()                         *)
(* installed  in the map, ONLINE not written yet                           *)
(* receiving  in the receive loop                                          *)
(* leaving    in the finally block, about to take the lock                 *)
(* offlining  has decided to write OFFLINE                                 *)
(* crashed    the ONLINE write raised before the try: handler gone, the    *)
(*            entry it made is still in the map                            *)
(***************************************************************************)
Location == {"idle", "auth", "waiting", "closing", "installed", "receiving",
             "leaving", "offlining", "crashed"}

\* "cut": the agent or the network dropped it and the server has yet to see
\* that; "closed": the server closed it, or knows that it is gone.
Socket == {"none", "up", "cut", "closed"}

TypeOK ==
    /\ active \in [Device -> Conn \cup {NoConn}]
    /\ lock \in Conn \cup {NoConn}
    /\ pc \in [Conn -> Location]
    /\ link \in [Conn -> Socket]
    /\ status \in [Device -> {"ONLINE", "OFFLINE"}]
    /\ fresh \in [Device -> BOOLEAN]
    /\ faults \in 0..MaxFaults

Init ==
    /\ active = [d \in Device |-> NoConn]
    /\ lock = NoConn
    /\ pc = [c \in Conn |-> "idle"]
    /\ link = [c \in Conn |-> "none"]
    /\ status = [d \in Device |-> "OFFLINE"]
    /\ fresh = [d \in Device |-> FALSE]
    /\ faults = 0

-----------------------------------------------------------------------------
(* Helpers.                                                                *)

IsAgentOnline(d) == active[d] # NoConn

\* The sockets of d that its agents believe open.  An agent process opens
\* the next one only when the previous one has broken.
OpenAtAgent(d) == {c \in Conn : DeviceOf[c] = d /\ link[c] = "up"}

Goto(c, l) == pc' = [pc EXCEPT ![c] = l]

\* The handler returns and the ASGI server drops the socket.
End(c) == /\ Goto(c, "idle")
          /\ link' = [link EXCEPT ![c] = "none"]

Fault == faults < MaxFaults /\ faults' = faults + 1

-----------------------------------------------------------------------------
(* The agent and the network.                                              *)

Dial(c) ==
    /\ pc[c] = "idle"
    /\ Cardinality(OpenAtAgent(DeviceOf[c])) < Peers
    /\ Goto(c, "auth")
    /\ link' = [link EXCEPT ![c] = "up"]
    /\ UNCHANGED <<active, lock, status, fresh, faults>>

Cut(c) ==
    /\ link[c] = "up"
    /\ link' = [link EXCEPT ![c] = "cut"]
    /\ UNCHANGED <<active, lock, pc, status, fresh, faults>>

\* The refresh path of _handle_heartbeat for a payload with status "online".
Heartbeat(d) ==
    /\ d \in Beating
    /\ status' = [status EXCEPT ![d] = "ONLINE"]
    /\ fresh' = [fresh EXCEPT ![d] = TRUE]
    /\ UNCHANGED <<active, lock, pc, link, faults>>

HeartbeatExpires(d) ==
    /\ fresh[d]
    /\ fresh' = [fresh EXCEPT ![d] = FALSE]
    /\ UNCHANGED <<active, lock, pc, link, status, faults>>

-----------------------------------------------------------------------------
(* agent_websocket: handshake and connect_agent.                           *)

\* Unknown device, wrong token, or accept() raises on a socket already cut.
Reject(c) ==
    /\ pc[c] = "auth"
    /\ End(c)
    /\ UNCHANGED <<active, lock, status, fresh, faults>>

Accept(c) ==
    /\ pc[c] = "auth"
    /\ Goto(c, "waiting")
    /\ UNCHANGED <<active, lock, link, status, fresh, faults>>

\* old.close() on a websocket already closed raises without suspending and
\* the exception is swallowed.
NothingToAwait(d) == active[d] \notin {c \in Conn : link[c] # "closed"}

\* Mutant: a connect that finds nothing to await skips the lock.
ConnectAtOnce_WithoutLock(c) ==
    /\ pc[c] = "waiting"
    /\ NothingToAwait(DeviceOf[c])
    /\ active' = [active EXCEPT ![DeviceOf[c]] = c]
    /\ Goto(c, "installed")
    /\ UNCHANGED <<lock, link, status, fresh, faults>>

\* Mutant: an entry that is there is left in place.
ConnectAtOnce_SetDefault(c) ==
    /\ pc[c] = "waiting"
    /\ lock = NoConn
    /\ NothingToAwait(DeviceOf[c])
    /\ active' = [active EXCEPT ![DeviceOf[c]] = IF @ = NoConn THEN c ELSE @]
    /\ Goto(c, "installed")
    /\ UNCHANGED <<lock, link, status, fresh, faults>>

\* The lock is free and no await separates taking it from releasing it.
ConnectAtOnce(c) ==
    /\ pc[c] = "waiting"
    /\ lock = NoConn
    /\ NothingToAwait(DeviceOf[c])
    /\ active' = [active EXCEPT ![DeviceOf[c]] = c]
    /\ Goto(c, "installed")
    /\ UNCHANGED <<lock, link, status, fresh, faults>>

\* Mutant: the old socket is closed before the lock is taken.
BeginClose_Unlocked(c) ==
    /\ pc[c] = "waiting"
    /\ lock = NoConn
    /\ ~NothingToAwait(DeviceOf[c])
    /\ link' = [link EXCEPT ![active[DeviceOf[c]]] = "closed"]
    /\ Goto(c, "closing")
    /\ UNCHANGED <<active, lock, status, fresh, faults>>

\* The old socket counts as closed from the moment close() is called; the
\* close handshake is awaited with the lock held.
BeginClose(c) ==
    /\ pc[c] = "waiting"
    /\ lock = NoConn
    /\ ~NothingToAwait(DeviceOf[c])
    /\ lock' = c
    /\ link' = [link EXCEPT ![active[DeviceOf[c]]] = "closed"]
    /\ Goto(c, "closing")
    /\ UNCHANGED <<active, status, fresh, faults>>

\* Mutant: the lock is not released after the old socket is replaced.
Install_KeepsLock(c) ==
    /\ pc[c] = "closing"
    /\ active' = [active EXCEPT ![DeviceOf[c]] = c]
    /\ Goto(c, "installed")
    /\ UNCHANGED <<lock, link, status, fresh, faults>>

Install(c) ==
    /\ pc[c] = "closing"
    /\ active' = [active EXCEPT ![DeviceOf[c]] = c]
    /\ lock' = NoConn
    /\ Goto(c, "installed")
    /\ UNCHANGED <<link, status, fresh, faults>>

MarkOnline(c) ==
    /\ pc[c] = "installed"
    /\ status' = [status EXCEPT ![DeviceOf[c]] = "ONLINE"]
    /\ fresh' = [fresh EXCEPT ![DeviceOf[c]] = TRUE]
    /\ Goto(c, "receiving")
    /\ UNCHANGED <<active, lock, link, faults>>

\* The write is outside the try block: no finally runs, the entry stays.
MarkOnlineRaises(c) ==
    /\ pc[c] = "installed"
    /\ Fault
    /\ link' = [link EXCEPT ![c] = "closed"]
    /\ Goto(c, "crashed")
    /\ UNCHANGED <<active, lock, status, fresh>>

-----------------------------------------------------------------------------
(* agent_websocket: the receive loop and the finally block.                *)

\* Mutant: only a close by the server is noticed, not a dropped peer.
Leave_OnlyOnClose(c) ==
    /\ pc[c] = "receiving"
    /\ link[c] = "closed"
    /\ Goto(c, "leaving")
    /\ UNCHANGED <<active, lock, link, status, fresh, faults>>

\* receive_text raises once the socket is cut or was closed by BeginClose.
Leave(c) ==
    /\ pc[c] = "receiving"
    /\ link[c] # "up"
    /\ Goto(c, "leaving")
    /\ UNCHANGED <<active, lock, link, status, fresh, faults>>

\* A malformed message or a failed database call: not caught, but finally
\* runs.
LoopRaises(c) ==
    /\ pc[c] = "receiving"
    /\ Fault
    /\ Goto(c, "leaving")
    /\ UNCHANGED <<active, lock, link, status, fresh>>

\* Mutant: the handler ends without removing the entry.
Disconnect_KeepsEntry(c) ==
    /\ pc[c] = "leaving"
    /\ lock = NoConn
    /\ IF IsAgentOnline(DeviceOf[c])
         THEN End(c)
         ELSE Goto(c, "offlining") /\ UNCHANGED link
    /\ UNCHANGED <<active, lock, status, fresh, faults>>

\* Mutant: the entry is removed without taking the lock.
Disconnect_WithoutLock(c) ==
    /\ pc[c] = "leaving"
    /\ active' = [active EXCEPT ![DeviceOf[c]] = NoConn]
    /\ Goto(c, "offlining")
    /\ UNCHANGED <<lock, link, status, fresh, faults>>

\* Mutant: is_agent_online is tested before the entry is removed.
Disconnect_TestsFirst(c) ==
    /\ pc[c] = "leaving"
    /\ lock = NoConn
    /\ active' = [active EXCEPT ![DeviceOf[c]] = NoConn]
    /\ IF IsAgentOnline(DeviceOf[c])
         THEN End(c)
         ELSE Goto(c, "offlining") /\ UNCHANGED link
    /\ UNCHANGED <<lock, status, fresh, faults>>

\* disconnect_agent removes whatever entry the device has, and nothing is
\* awaited between that and the test of is_agent_online.
Disconnect(c) ==
    /\ pc[c] = "leaving"
    /\ lock = NoConn
    /\ active' = [active EXCEPT ![DeviceOf[c]] = NoConn]
    /\ IF IsAgentOnline(DeviceOf[c])'
         THEN End(c)
         ELSE Goto(c, "offlining") /\ UNCHANGED link
    /\ UNCHANGED <<lock, status, fresh, faults>>

MarkOffline(c) ==
    /\ pc[c] = "offlining"
    /\ status' = [status EXCEPT ![DeviceOf[c]] = "OFFLINE"]
    /\ fresh' = [fresh EXCEPT ![DeviceOf[c]] = TRUE]
    /\ End(c)
    /\ UNCHANGED <<active, lock, faults>>

MarkOfflineRaises(c) ==
    /\ pc[c] = "offlining"
    /\ Fault
    /\ End(c)
    /\ UNCHANGED <<active, lock, status, fresh>>

\* The slot of a crashed handler can be used again when nothing refers to it.
Forget(c) ==
    /\ pc[c] = "crashed"
    /\ active[DeviceOf[c]] # c
    /\ End(c)
    /\ UNCHANGED <<active, lock, status, fresh, faults>>

-----------------------------------------------------------------------------
(* The rest of the server.                                                 *)

\* Mutant: the value of the Enum member instead of the name the column holds.
MarkStale_LowerCase(d) ==
    /\ status[d] = "ONLINE"
    /\ ~fresh[d]
    /\ status' = [status EXCEPT ![d] = "offline"]
    /\ UNCHANGED <<active, lock, pc, link, fresh, faults>>

\* Mutant: the comparison with the cutoff is the wrong way round.
MarkStale_Reversed(d) ==
    /\ status[d] = "ONLINE"
    /\ fresh[d]
    /\ status' = [status EXCEPT ![d] = "OFFLINE"]
    /\ UNCHANGED <<active, lock, pc, link, fresh, faults>>

\* heartbeat_timeout_checker, one row of its UPDATE.
MarkStale(d) ==
    /\ status[d] = "ONLINE"
    /\ ~fresh[d]
    /\ status' = [status EXCEPT ![d] = "OFFLINE"]
    /\ UNCHANGED <<active, lock, pc, link, fresh, faults>>

\* The map, the lock and the handlers live in memory; the rows do not.
ServerRestart ==
    /\ Fault
    /\ active' = [d \in Device |-> NoConn]
    /\ lock' = NoConn
    /\ pc' = [c \in Conn |-> "idle"]
    /\ link' = [c \in Conn |-> "none"]
    /\ UNCHANGED <<status, fresh>>

\* The steps the event loop runs by itself, however the others behave.
Handler(c) ==
    \/ Accept(c) \/ Reject(c)
    \/ ConnectAtOnce(c) \/ BeginClose(c) \/ Install(c)
    \/ MarkOnline(c)
    \/ Leave(c) \/ Disconnect(c) \/ MarkOffline(c)

Failure(c) == MarkOnlineRaises(c) \/ LoopRaises(c) \/ MarkOfflineRaises(c)

Next ==
    \/ \E c \in Conn : Handler(c) \/ Failure(c) \/ Dial(c) \/ Cut(c) \/ Forget(c)
    \/ \E d \in Device : Heartbeat(d) \/ HeartbeatExpires(d) \/ MarkStale(d)
    \/ ServerRestart

\* asyncio.Lock wakes its waiters first come, first served, so a handler that
\* can take the lock again and again takes it at last: strong fairness.  The
\* checker wakes up every ten seconds.  Nothing is assumed of agents, of the
\* network or of failures.
Fairness ==
    /\ \A c \in Conn : SF_vars(Handler(c))
    /\ \A d \in Device : WF_vars(MarkStale(d))

Safety == Init /\ [][Next]_vars

Spec == Safety /\ Fairness

-----------------------------------------------------------------------------
(* Properties.                                                             *)

\* send_command only ever finds the socket of a handler that has taken the
\* map entry and has not run its disconnect_agent (or crashed in between):
\* the entry of a finished handler never lingers, in whatever order the
\* handlers of a device take the lock.
EntryIsServed ==
    \A d \in Device : active[d] # NoConn =>
        /\ DeviceOf[active[d]] = d
        /\ pc[active[d]] \in {"installed", "receiving", "leaving", "crashed"}

\* While connect_agent awaits old.close(), nobody else replaces or removes
\* the entry it read before the await: the handler it is closing is still
\* the one in the map when the await returns.  And nobody else holds the
\* lock: it is never left with a handler that does not give it back.
ReplacementIsExclusive ==
    \A c \in Conn :
        /\ pc[c] = "closing" <=> lock = c
        /\ pc[c] = "closing" => /\ active[DeviceOf[c]] # NoConn
                                /\ link[active[DeviceOf[c]]] = "closed"

\* A connection that loses its entry to a newer one has been closed, so its
\* agent learns of it: connect_agent never forgets an open socket.
ReplacedIsClosed ==
    [][\A d \in Device :
        (active[d] # NoConn /\ active'[d] \notin {NoConn, active[d]})
            => link'[active[d]] = "closed"]_vars

\* AgentChannel seen from a command: a connection has the route while it is
\* in the map; before its handler has taken the lock it has yet to get it.
Phase(c) ==
    CASE pc[c] = "idle" -> "none"
      [] pc[c] \in {"auth", "waiting", "closing"} -> "new"
      [] OTHER -> IF active[DeviceOf[c]] = c THEN "routed" ELSE "gone"

Promise == INSTANCE ChannelPromise WITH
              route <- active,
              phase <- [c \in Conn |-> Phase(c)],
              closed <- {c \in Conn : link[c] = "closed"}

\* In whatever order the handlers of a device connect, are replaced, fail and
\* leave: each is in the map once, and does not come back after it was
\* replaced or removed; it gets there open, and only a handler whose socket
\* was closed makes way for it (websocket_manager.py:18).
KeepsPromise == Promise!Spec

\* The connections of d that send_command can write to, and those whose
\* handler receives what the agent sends.
Writable(d) == {c \in {active[d]} \ {NoConn} : link[c] # "closed"}
Heard(d) == {c \in Conn : /\ DeviceOf[c] = d
                          /\ pc[c] \in {"installed", "receiving"}
                          /\ link[c] = "up"}

LinkOf(d) ==
    IF Writable(d) # {} THEN "up" ELSE IF Heard(d) # {} THEN "orphan" ELSE "down"

Link == INSTANCE AgentLink WITH conn <- [d \in Device |-> LinkOf(d)]

\* What TaskFlow assumes of connections is true of the map and the handlers:
\* one device is connected, orphaned or disconnected at a time, and an agent
\* that is heard although commands do not reach it has been in the map, in
\* whatever order its handlers were replaced, failed and left.
LinksAsAssumed == Link!Spec

\* The writes of overlapping handlers of one device end well: a row that the
\* handlers left ONLINE belongs to a device with a handler that still owes
\* its OFFLINE write.  (A heartbeat may set ONLINE with no handler at all,
\* and a fault may skip the OFFLINE write: then the checker's turn comes.)
OnlineHasWriter ==
    \A d \in Device \ Beating : (status[d] = "ONLINE" /\ faults = 0) =>
        \E c \in Conn : /\ DeviceOf[c] = d
                        /\ pc[c] \in {"receiving", "leaving", "offlining"}

\* Every accepted connection gets past the lock that all devices share, even
\* though other handlers await slow peers while they hold it.
LockIsGranted ==
    \A c \in Conn : pc[c] = "waiting" ~> pc[c] # "waiting"

\* A connection that broke does not keep receiving commands: its handler
\* takes it out of the map, or a newer connection replaces it.  The entry of
\* a handler that crashed before the try block is the exception.
DeadConnectionRemoved ==
    \A c \in Conn :
        (active[DeviceOf[c]] = c /\ link[c] # "up")
            ~> (active[DeviceOf[c]] # c \/ pc[c] = "crashed")

\* A device that has stopped talking (no handler and no recent heartbeat) is
\* shown OFFLINE in the end, whatever races or faults came before.
SilentDeviceGoesOffline ==
    \A d \in Device :
        <>[](~fresh[d] /\ \A c \in Conn : DeviceOf[c] = d => pc[c] = "idle")
            => <>[](status[d] = "OFFLINE")

\* What the comment over the test in the finally block claims: a handler
\* decides to mark its device offline only when the device has no other live
\* connection.
OfflineOnlyWithoutConnection ==
    [][\A c \in Conn : (pc[c] = "leaving" /\ pc'[c] = "offlining") =>
        ~ \E e \in Conn \ {c} : /\ DeviceOf[e] = DeviceOf[c]
                               /\ pc[e] = "receiving"
                               /\ link[e] = "up"]_vars
=============================================================================
