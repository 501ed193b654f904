------------------------ MODULE AgentChannel_proofs ------------------------
(* What TLAPS proves of AgentChannel, for any devices, connections, number   *)
(* of agents per identity and number of faults.                              *)
EXTENDS AgentChannel, TLAPS

\* The actions one connection can take part in.
ConnStep(c) == Handler(c) \/ Failure(c) \/ Dial(c) \/ Cut(c) \/ Forget(c)

\* The actions that only touch the row of a device.
RowStep(d) == Heartbeat(d) \/ HeartbeatExpires(d) \/ MarkStale(d)

-----------------------------------------------------------------------------

\* Every reachable state has its type: in particular a handler is at one of
\* the nine places where agent_websocket can be suspended.
THEOREM TypeCorrect == Safety => []TypeOK
<1>1. Init => TypeOK
  BY NoConnAssumption, BoundsAssumption DEF Init, TypeOK, Location, Socket
<1>2. TypeOK /\ [Next]_vars => TypeOK'
  <2> SUFFICES ASSUME TypeOK, [Next]_vars
               PROVE  TypeOK'
    OBVIOUS
  <2> USE DeviceOfAssumption, NoConnAssumption, BoundsAssumption
      DEF TypeOK, Location, Socket, Goto, End, Fault
  <2>1. ASSUME NEW c \in Conn, Handler(c) PROVE TypeOK'
    <3>1. CASE Accept(c) BY <3>1 DEF Accept
    <3>2. CASE Reject(c) BY <3>2 DEF Reject
    <3>3. CASE ConnectAtOnce(c) BY <3>3 DEF ConnectAtOnce
    <3>4. CASE BeginClose(c) BY <3>4 DEF BeginClose
    <3>5. CASE Install(c) BY <3>5 DEF Install
    <3>6. CASE MarkOnline(c) BY <3>6 DEF MarkOnline
    <3>7. CASE Leave(c) BY <3>7 DEF Leave
    <3>8. CASE Disconnect(c) BY <3>8 DEF Disconnect
    <3>9. CASE MarkOffline(c) BY <3>9 DEF MarkOffline
    <3> QED BY <2>1, <3>1, <3>2, <3>3, <3>4, <3>5, <3>6, <3>7, <3>8, <3>9
            DEF Handler
  <2>2. ASSUME NEW c \in Conn, Failure(c) PROVE TypeOK'
    <3>1. CASE MarkOnlineRaises(c) BY <3>1 DEF MarkOnlineRaises
    <3>2. CASE LoopRaises(c) BY <3>2 DEF LoopRaises
    <3>3. CASE MarkOfflineRaises(c) BY <3>3 DEF MarkOfflineRaises
    <3> QED BY <2>2, <3>1, <3>2, <3>3 DEF Failure
  <2>3. ASSUME NEW c \in Conn, Dial(c) PROVE TypeOK' BY <2>3 DEF Dial
  <2>4. ASSUME NEW c \in Conn, Cut(c) PROVE TypeOK' BY <2>4 DEF Cut
  <2>5. ASSUME NEW c \in Conn, Forget(c) PROVE TypeOK' BY <2>5 DEF Forget
  <2>6. ASSUME NEW d \in Device, RowStep(d) PROVE TypeOK'
    BY <2>6 DEF RowStep, Heartbeat, HeartbeatExpires, MarkStale
  <2>7. CASE ServerRestart BY <2>7 DEF ServerRestart
  <2>8. CASE UNCHANGED vars BY <2>8 DEF vars
  <2> QED BY <2>1, <2>2, <2>3, <2>4, <2>5, <2>6, <2>7, <2>8 DEF Next, RowStep
<1> QED BY <1>1, <1>2, PTL DEF Safety

-----------------------------------------------------------------------------
(* The map and the lock.                                                   *)

MapInv == EntryIsServed /\ ReplacementIsExclusive

\* A slot that has no handler, or one that has not reached the map yet or has
\* left it, is not in the map: a new request may take it, and its socket can
\* change without a replacement noticing.
LEMMA NotInMap ==
    ASSUME MapInv, NEW c \in Conn, NEW d \in Device,
           pc[c] \in {"idle", "auth", "waiting", "closing", "offlining"}
    PROVE  active[d] # c
BY NoConnAssumption DEF MapInv, EntryIsServed

LEMMA MapInvStep == TypeOK /\ MapInv /\ [Next]_vars => MapInv'
<1> SUFFICES ASSUME TypeOK, MapInv, [Next]_vars
             PROVE  MapInv'
  OBVIOUS
<1> USE DeviceOfAssumption, NoConnAssumption
    DEF TypeOK, MapInv, EntryIsServed, ReplacementIsExclusive, Goto, End
<1>1. ASSUME NEW c \in Conn, Accept(c) PROVE MapInv'
  BY <1>1 DEF Accept
<1>2. ASSUME NEW c \in Conn, Reject(c) PROVE MapInv'
  BY <1>2, NotInMap DEF Reject
<1>3. ASSUME NEW c \in Conn, ConnectAtOnce(c) PROVE MapInv'
  BY <1>3 DEF ConnectAtOnce
<1>4. ASSUME NEW c \in Conn, BeginClose(c) PROVE MapInv'
  BY <1>4 DEF BeginClose, NothingToAwait
<1>5. ASSUME NEW c \in Conn, Install(c) PROVE MapInv'
  BY <1>5 DEF Install
<1>6. ASSUME NEW c \in Conn, MarkOnline(c) PROVE MapInv'
  BY <1>6 DEF MarkOnline
<1>7. ASSUME NEW c \in Conn, Leave(c) PROVE MapInv'
  BY <1>7 DEF Leave
<1>8. ASSUME NEW c \in Conn, Disconnect(c) PROVE MapInv'
  <2>1. EntryIsServed'
    BY <1>8 DEF Disconnect
  <2>2. ReplacementIsExclusive'
    BY <1>8 DEF Disconnect
  <2> QED BY <2>1, <2>2
<1>9. ASSUME NEW c \in Conn, MarkOffline(c) PROVE MapInv'
  BY <1>9, NotInMap DEF MarkOffline
<1>10. ASSUME NEW c \in Conn, Failure(c) PROVE MapInv'
  BY <1>10, NotInMap DEF Failure, MarkOnlineRaises, LoopRaises, MarkOfflineRaises
<1>11. ASSUME NEW c \in Conn, Dial(c) PROVE MapInv'
  BY <1>11, NotInMap DEF Dial
<1>12. ASSUME NEW c \in Conn, Cut(c) PROVE MapInv'
  BY <1>12 DEF Cut
<1>13. ASSUME NEW c \in Conn, Forget(c) PROVE MapInv'
  BY <1>13 DEF Forget
<1>14. ASSUME NEW d \in Device, RowStep(d) PROVE MapInv'
  BY <1>14 DEF RowStep, Heartbeat, HeartbeatExpires, MarkStale
<1>15. CASE ServerRestart
  BY <1>15 DEF ServerRestart
<1>16. CASE UNCHANGED vars
  BY <1>16 DEF vars
<1> QED BY <1>1, <1>2, <1>3, <1>4, <1>5, <1>6, <1>7, <1>8, <1>9, <1>10, <1>11,
           <1>12, <1>13, <1>14, <1>15, <1>16 DEF Next, Handler, RowStep

LEMMA MapInvAlways == Safety => []MapInv
<1>1. Init => MapInv
  BY NoConnAssumption DEF Init, MapInv, EntryIsServed, ReplacementIsExclusive
<1> QED BY <1>1, MapInvStep, TypeCorrect, PTL DEF Safety

\* send_command never finds the socket of a handler that has finished or that
\* belongs to another device.
THEOREM EntryServed == Safety => []EntryIsServed
BY MapInvAlways, PTL DEF MapInv

\* What connect_agent read from the map before it awaited old.close() is
\* still there, closed, when the await returns.
THEOREM ReplacementExclusive == Safety => []ReplacementIsExclusive
BY MapInvAlways, PTL DEF MapInv

\* A newer connection takes the entry only of a socket that has been closed.
THEOREM ReplacedClosed == Safety => ReplacedIsClosed
<1> DEFINE Keeps == \A d \in Device :
              (active[d] # NoConn /\ active'[d] \notin {NoConn, active[d]})
                  => link'[active[d]] = "closed"
<1>1. TypeOK /\ MapInv /\ [Next]_vars => Keeps
  <2> SUFFICES ASSUME TypeOK, MapInv, [Next]_vars, NEW d \in Device,
                      active[d] # NoConn, active'[d] # NoConn, active'[d] # active[d]
               PROVE  link'[active[d]] = "closed"
    OBVIOUS
  <2> USE DeviceOfAssumption, NoConnAssumption DEF TypeOK, Goto, End
  <2>1. ASSUME NEW c \in Conn, ConnectAtOnce(c) PROVE link'[active[d]] = "closed"
    BY <2>1 DEF ConnectAtOnce, NothingToAwait
  <2>2. ASSUME NEW c \in Conn, Install(c) PROVE link'[active[d]] = "closed"
    BY <2>2 DEF Install, MapInv, ReplacementIsExclusive
  <2>3. ASSUME NEW c \in Conn, Disconnect(c) PROVE FALSE
    BY <2>3 DEF Disconnect
  <2>4. CASE ServerRestart
    BY <2>4 DEF ServerRestart
  <2>5. CASE UNCHANGED active
    BY <2>5
  <2>6. ASSUME NEW c \in Conn,
               ConnStep(c), ~ConnectAtOnce(c), ~Install(c), ~Disconnect(c)
        PROVE  UNCHANGED active
    BY <2>6 DEF ConnStep, Handler, Failure, Dial, Cut, Forget, Accept, Reject,
                BeginClose, MarkOnline, Leave, MarkOffline, MarkOnlineRaises,
                LoopRaises, MarkOfflineRaises
  <2>7. ASSUME NEW e \in Device, RowStep(e) PROVE UNCHANGED active
    BY <2>7 DEF RowStep, Heartbeat, HeartbeatExpires, MarkStale
  <2> QED BY <2>1, <2>2, <2>3, <2>4, <2>5, <2>6, <2>7
          DEF Next, ConnStep, RowStep, vars
<1>2. TypeOK /\ MapInv /\ [Next]_vars => [Keeps]_vars
  BY <1>1
<1> QED BY <1>2, TypeCorrect, MapInvAlways, PTL DEF Safety, ReplacedIsClosed
-----------------------------------------------------------------------------

\* Without a fault, a row the handlers left ONLINE has a handler that still
\* owes its OFFLINE write, however the handlers of the device overlap.
THEOREM OnlineWriter == Safety => []OnlineHasWriter
<1>1. Init => OnlineHasWriter
  BY DEF Init, OnlineHasWriter
<1>2. TypeOK /\ OnlineHasWriter /\ [Next]_vars => OnlineHasWriter'
  <2> SUFFICES ASSUME TypeOK, OnlineHasWriter, [Next]_vars,
                      NEW d \in Device \ Beating, status'[d] = "ONLINE", faults' = 0
               PROVE  \E c \in Conn : /\ DeviceOf[c] = d
                                      /\ pc'[c] \in {"receiving", "leaving", "offlining"}
    BY DEF OnlineHasWriter
  <2> DEFINE Owes(c) == /\ DeviceOf[c] = d
                        /\ pc'[c] \in {"receiving", "leaving", "offlining"}
  <2> USE DeviceOfAssumption, NoConnAssumption, BoundsAssumption
      DEF TypeOK, Goto, End, Fault
  <2>1. faults = 0
    <3>1. faults' = faults \/ faults' = faults + 1
      BY DEF Next, Handler, Failure, Dial, Cut, Forget, Accept, Reject,
             ConnectAtOnce, BeginClose, Install, MarkOnline, Leave, Disconnect,
             MarkOffline, MarkOnlineRaises, LoopRaises, MarkOfflineRaises,
             Heartbeat, HeartbeatExpires, MarkStale, ServerRestart, vars
    <3> QED BY <3>1
  <2>2. ASSUME NEW c \in Conn, MarkOnline(c) PROVE \E e \in Conn : Owes(e)
    <3>1. CASE DeviceOf[c] = d
      BY <2>2, <3>1 DEF MarkOnline
    <3>2. CASE DeviceOf[c] # d
      BY <2>1, <2>2, <3>2 DEF MarkOnline, OnlineHasWriter
    <3> QED BY <3>1, <3>2
  <2>3. ASSUME NEW c \in Conn, MarkOffline(c) PROVE \E e \in Conn : Owes(e)
    BY <2>1, <2>3 DEF MarkOffline, OnlineHasWriter
  <2>4. ASSUME NEW c \in Conn, Leave(c) PROVE \E e \in Conn : Owes(e)
    BY <2>1, <2>4 DEF Leave, OnlineHasWriter
  <2>5. ASSUME NEW c \in Conn, Disconnect(c) PROVE \E e \in Conn : Owes(e)
    \* The entry has just been removed, so the test finds none.
    <3>1. pc' = [pc EXCEPT ![c] = "offlining"]
      BY <2>5 DEF Disconnect, IsAgentOnline
    <3> QED BY <2>1, <2>5, <3>1 DEF Disconnect, OnlineHasWriter
  <2>6. ASSUME NEW c \in Conn,
               Accept(c) \/ Reject(c) \/ ConnectAtOnce(c) \/ BeginClose(c)
                 \/ Install(c) \/ Dial(c) \/ Cut(c) \/ Forget(c)
        PROVE  \E e \in Conn : Owes(e)
    BY <2>1, <2>6 DEF Accept, Reject, ConnectAtOnce, BeginClose, Install, Dial,
                      Cut, Forget, OnlineHasWriter
  <2>7. ASSUME NEW e \in Device, RowStep(e) PROVE \E c \in Conn : Owes(c)
    BY <2>1, <2>7 DEF RowStep, Heartbeat, HeartbeatExpires, MarkStale, OnlineHasWriter
  <2>8. ASSUME NEW c \in Conn, Failure(c) PROVE FALSE
    BY <2>1, <2>8 DEF Failure, MarkOnlineRaises, LoopRaises, MarkOfflineRaises
  <2>9. ~ServerRestart
    BY <2>1 DEF ServerRestart
  <2>10. CASE UNCHANGED vars
    BY <2>1, <2>10 DEF vars, OnlineHasWriter
  <2> QED BY <2>2, <2>3, <2>4, <2>5, <2>6, <2>7, <2>8, <2>9, <2>10
          DEF Next, Handler, RowStep
<1> QED BY <1>1, <1>2, TypeCorrect, PTL DEF Safety

-----------------------------------------------------------------------------
(* AgentChannel implements ChannelPromise.                                 *)

\* A slot without handler has no socket, and the server has not closed the
\* socket of a handler that has yet to take its place in the map.
SocketInv ==
    \A c \in Conn : /\ pc[c] = "idle" => link[c] = "none"
                    /\ pc[c] \in {"auth", "waiting", "closing"} => link[c] # "closed"

LEMMA SocketInvStep == TypeOK /\ MapInv /\ SocketInv /\ [Next]_vars => SocketInv'
<1> SUFFICES ASSUME TypeOK, MapInv, SocketInv, [Next]_vars
             PROVE  SocketInv'
  OBVIOUS
<1> USE DeviceOfAssumption, NoConnAssumption DEF TypeOK, SocketInv, Goto, End
<1>1. ASSUME NEW c \in Conn, BeginClose(c) PROVE SocketInv'
  <2>1. active[DeviceOf[c]] \in Conn
    BY <1>1 DEF BeginClose, NothingToAwait
  <2>2. pc[active[DeviceOf[c]]] \in {"installed", "receiving", "leaving", "crashed"}
    BY <2>1 DEF MapInv, EntryIsServed
  <2> QED BY <1>1, <2>1, <2>2 DEF BeginClose
<1>2. ASSUME NEW c \in Conn, ConnStep(c), ~BeginClose(c) PROVE SocketInv'
  BY <1>2 DEF ConnStep, Handler, Failure, Dial, Cut, Forget, Accept, Reject,
              ConnectAtOnce, Install, MarkOnline, Leave, Disconnect, MarkOffline,
              MarkOnlineRaises, LoopRaises, MarkOfflineRaises
<1>3. ASSUME NEW d \in Device, RowStep(d) PROVE SocketInv'
  BY <1>3 DEF RowStep, Heartbeat, HeartbeatExpires, MarkStale
<1>4. CASE ServerRestart BY <1>4 DEF ServerRestart
<1>5. CASE UNCHANGED vars BY <1>5 DEF vars
<1> QED BY <1>1, <1>2, <1>3, <1>4, <1>5 DEF Next, ConnStep, RowStep

LEMMA SocketInvAlways == Safety => []SocketInv
<1>1. Init => SocketInv
  BY DEF Init, SocketInv
<1> QED BY <1>1, SocketInvStep, TypeCorrect, MapInvAlways, PTL DEF Safety

Closed == {c \in Conn : link[c] = "closed"}

\* A step that changes neither the map nor a socket to or from "closed", and
\* keeps every handler in the phase it was in.
LEMMA Stutter ==
    ASSUME UNCHANGED active, Closed' = Closed, \A c \in Conn : Phase(c)' = Phase(c)
    PROVE  UNCHANGED Promise!vars
BY DEF Promise!vars, Closed

LEMMA ChannelPromiseStep ==
    TypeOK /\ MapInv /\ SocketInv /\ [Next]_vars => [Promise!Next]_(Promise!vars)
<1> SUFFICES ASSUME TypeOK, MapInv, SocketInv, [Next]_vars
             PROVE  [Promise!Next]_(Promise!vars)
  OBVIOUS
<1> USE DeviceOfAssumption, NoConnAssumption DEF TypeOK, Goto, End
<1>1. ASSUME NEW c \in Conn, Dial(c) PROVE Promise!Open(c)
  <2>1. pc[c] = "idle" /\ link[c] = "none"
    <3>1. pc[c] = "idle"
      BY <1>1 DEF Dial
    <3> QED BY <1>1, <3>1 DEF SocketInv
  <2>2. Closed' = Closed
    BY <1>1, <2>1 DEF Dial, Closed
  <2>3. Phase(c) = "none" /\ Phase(c)' = "new"
    BY <1>1 DEF Dial, Phase
  <2>4. \A e \in Conn \ {c} : Phase(e)' = Phase(e)
    BY <1>1 DEF Dial, Phase
  <2> QED BY <1>1, <2>2, <2>3, <2>4 DEF Dial, Closed, Promise!Open
<1>2. ASSUME NEW c \in Conn, ConnectAtOnce(c) \/ Install(c) PROVE Promise!Route(c)
  <2> DEFINE d == DeviceOf[c]
  <2>1. /\ pc[c] \in {"waiting", "closing"} /\ pc' = [pc EXCEPT ![c] = "installed"]
        /\ active' = [active EXCEPT ![d] = c] /\ UNCHANGED link
    BY <1>2 DEF ConnectAtOnce, Install
  <2>2. active[d] \in Closed \cup {NoConn} /\ c \notin Closed
    BY <1>2, <2>1 DEF ConnectAtOnce, Install, NothingToAwait, Closed, MapInv,
                      ReplacementIsExclusive, SocketInv
  <2>3. Phase(c) = "new" /\ Phase(c)' = "routed"
    BY <2>1 DEF Phase
  <2>4. ASSUME NEW e \in Conn \ {c}
        PROVE  Phase(e)' = IF e = active[d] THEN "gone" ELSE Phase(e)
    <3>1. CASE e = active[d]
      BY <2>1, <3>1 DEF Phase, MapInv, EntryIsServed
    <3>2. CASE e # active[d]
      BY <2>1, <3>2 DEF Phase
    <3> QED BY <3>1, <3>2
  <2> QED BY <2>1, <2>2, <2>3, <2>4 DEF Closed, Promise!Route
<1>3. ASSUME NEW c \in Conn, Disconnect(c), NEW a \in Conn, active[DeviceOf[c]] = a
      PROVE  Promise!Drop(DeviceOf[c])
  <2> DEFINE d == DeviceOf[c]
  <2>1. /\ pc[c] = "leaving" /\ pc' = [pc EXCEPT ![c] = "offlining"]
        /\ active' = [active EXCEPT ![d] = NoConn] /\ UNCHANGED link
    BY <1>3 DEF Disconnect, IsAgentOnline
  <2>2. DeviceOf[a] = d
    BY <1>3 DEF MapInv, EntryIsServed
  <2>3. Phase(a)' = "gone"
    <3>1. pc'[a] \in {"installed", "receiving", "leaving", "crashed", "offlining"}
      BY <1>3, <2>1, <2>2 DEF MapInv, EntryIsServed
    <3>2. active'[DeviceOf[a]] # a
      BY <2>1, <2>2
    <3> QED BY <3>1, <3>2 DEF Phase
  <2>4. ASSUME NEW e \in Conn \ {a} PROVE Phase(e)' = Phase(e)
    BY <1>3, <2>1, <2>2, <2>4 DEF Phase
  <2>5. [e \in Conn |-> Phase(e)'] = [[e \in Conn |-> Phase(e)] EXCEPT ![a] = "gone"]
    BY <2>2, <2>3, <2>4
  <2> QED BY <1>3, <2>1, <2>5 DEF Promise!Drop
<1>4. ASSUME NEW c \in Conn, Disconnect(c), active[DeviceOf[c]] = NoConn
      PROVE  UNCHANGED Promise!vars
  <2>1. /\ pc[c] = "leaving" /\ pc' = [pc EXCEPT ![c] = "offlining"]
        /\ UNCHANGED <<active, link>>
    BY <1>4 DEF Disconnect, IsAgentOnline
  <2> QED BY <2>1, Stutter DEF Phase, Closed
<1>5. ASSUME NEW c \in Conn, BeginClose(c), NEW a \in Conn, active[DeviceOf[c]] = a
      PROVE  Promise!Close(a)
  <2>1. /\ a # c /\ DeviceOf[a] = DeviceOf[c]
        /\ pc[a] \in {"installed", "receiving", "leaving", "crashed"}
    BY <1>5 DEF BeginClose, NothingToAwait, MapInv, EntryIsServed
  <2>2. Closed' = Closed \cup {a}
    BY <1>5, <2>1 DEF BeginClose, Closed
  <2>3. Phase(a) = "routed"
    BY <1>5, <2>1 DEF Phase
  <2>4. \A e \in Conn : Phase(e)' = Phase(e)
    BY <1>5 DEF BeginClose, Phase
  <2> QED BY <1>5, <2>1, <2>2, <2>3, <2>4 DEF BeginClose, Closed, Promise!Close
<1>6. ASSUME NEW c \in Conn, MarkOnlineRaises(c) PROVE Promise!Close(c)
  <2>1. Closed' = Closed \cup {c}
    BY <1>6 DEF MarkOnlineRaises, Closed
  <2>2. Phase(c) \in {"routed", "gone"} /\ \A e \in Conn : Phase(e)' = Phase(e)
    BY <1>6 DEF MarkOnlineRaises, Phase
  <2> QED BY <1>6, <2>1, <2>2 DEF MarkOnlineRaises, Closed, Promise!Close
<1>7. ASSUME NEW c \in Conn,
             Reject(c) \/ MarkOffline(c) \/ MarkOfflineRaises(c) \/ Forget(c)
      PROVE  Promise!End(c)
  <2>1. /\ pc[c] \in {"auth", "offlining", "crashed"} /\ pc' = [pc EXCEPT ![c] = "idle"]
        /\ link' = [link EXCEPT ![c] = "none"] /\ UNCHANGED active
        /\ pc[c] = "crashed" => active[DeviceOf[c]] # c
    BY <1>7 DEF Reject, MarkOffline, MarkOfflineRaises, Forget
  <2>2. Phase(c) \in {"new", "gone"} /\ Phase(c)' = "none"
    BY <2>1, NotInMap DEF Phase
  <2>3. \A e \in Conn \ {c} : Phase(e)' = Phase(e)
    BY <2>1 DEF Phase
  <2>4. Closed' = Closed \ {c}
    BY <2>1 DEF Closed
  <2> QED BY <2>1, <2>2, <2>3, <2>4 DEF Closed, Promise!End
<1>8. ASSUME NEW c \in Conn,
             Cut(c) \/ Accept(c) \/ MarkOnline(c) \/ Leave(c) \/ LoopRaises(c)
      PROVE  UNCHANGED Promise!vars
  <2>1. UNCHANGED active /\ Closed' = Closed
    BY <1>8 DEF Cut, Accept, MarkOnline, Leave, LoopRaises, Closed
  <2>2. \A e \in Conn : Phase(e)' = Phase(e)
    BY <1>8 DEF Cut, Accept, MarkOnline, Leave, LoopRaises, Phase
  <2> QED BY <2>1, <2>2, Stutter
<1>9. ASSUME NEW d \in Device, RowStep(d) PROVE UNCHANGED Promise!vars
  <2>1. UNCHANGED <<active, pc, link>>
    BY <1>9 DEF RowStep, Heartbeat, HeartbeatExpires, MarkStale
  <2> QED BY <2>1, Stutter DEF Phase, Closed
<1>10. CASE ServerRestart
  <2>1. Closed' = {} /\ \A c \in Conn : Phase(c)' = "none"
    BY <1>10 DEF ServerRestart, Closed, Phase
  <2>2. Promise!Restart
    BY <1>10, <2>1 DEF ServerRestart, Closed, Promise!Restart
  <2> QED BY <2>2 DEF Promise!Next
<1>11. CASE UNCHANGED vars
  <2>1. UNCHANGED <<active, pc, link>>
    BY <1>11 DEF vars
  <2> QED BY <2>1, Stutter DEF Phase, Closed
<1>12. ASSUME NEW c \in Conn, ConnStep(c) PROVE Promise!Next \/ UNCHANGED Promise!vars
  <2>1. CASE \/ Dial(c) \/ ConnectAtOnce(c) \/ Install(c) \/ MarkOnlineRaises(c)
             \/ Reject(c) \/ MarkOffline(c) \/ MarkOfflineRaises(c) \/ Forget(c)
    <3>1. Promise!Open(c) \/ Promise!Route(c) \/ Promise!Close(c) \/ Promise!End(c)
      BY <1>1, <1>2, <1>6, <1>7, <2>1
    <3> QED BY <3>1 DEF Promise!Next
  <2>2. CASE BeginClose(c)
    <3>1. active[DeviceOf[c]] \in Conn
      BY <2>2 DEF BeginClose, NothingToAwait
    <3> QED BY <1>5, <1>12, <2>2, <3>1 DEF Promise!Next
  <2>3. CASE Disconnect(c)
    <3>1. DeviceOf[c] \in Device /\ active[DeviceOf[c]] \in Conn \cup {NoConn}
      OBVIOUS
    <3> QED BY <1>3, <1>4, <2>3, <3>1 DEF Promise!Next
  <2> QED BY <1>8, <1>12, <2>1, <2>2, <2>3 DEF ConnStep, Handler, Failure
<1> QED BY <1>9, <1>10, <1>11, <1>12 DEF Next, ConnStep, RowStep

\* Every step of the handlers is a step of ChannelPromise or none: a sender
\* need not know of the lock, the awaits or the order of the handlers.
THEOREM ChannelPromiseKept == Safety => KeepsPromise
<1>1. Init => Promise!Init
  BY DEF Init, Phase, Promise!Init
<1> QED BY <1>1, ChannelPromiseStep, TypeCorrect, MapInvAlways, SocketInvAlways, PTL
        DEF Safety, KeepsPromise, Promise!Spec

-----------------------------------------------------------------------------
(* AgentChannel implements AgentLink.                                      *)

Links == [d \in Device |-> LinkOf(d)]

\* What a device's link depends on.
LEMMA SameLink ==
    ASSUME NEW d \in Device, TypeOK, EntryIsServed,
           active'[d] = active[d],
           \A e \in Conn : DeviceOf[e] = d => pc'[e] = pc[e] /\ link'[e] = link[e]
    PROVE  LinkOf(d)' = LinkOf(d)
<1>1. Writable(d)' = Writable(d)
  BY DEF Writable, TypeOK, EntryIsServed
<1>2. Heard(d)' = Heard(d)
  BY DEF Heard
<1> QED BY <1>1, <1>2 DEF LinkOf

\* A step in which one link changes, and not from down to orphan, is a step
\* of AgentLink.
LEMMA OneLink ==
    ASSUME NEW d \in Device,
           \A e \in Device \ {d} : LinkOf(e)' = LinkOf(e),
           LinkOf(d) = "down" => LinkOf(d)' # "orphan"
    PROVE  Link!Next \/ Links' = Links
<1>1. LinkOf(d) \in {"up", "orphan", "down"} /\ LinkOf(d)' \in {"up", "orphan", "down"}
  BY DEF LinkOf
<1>2. Links' = [Links EXCEPT ![d] = LinkOf(d)'] /\ Links[d] = LinkOf(d)
  BY DEF Links
<1>3. CASE LinkOf(d)' = LinkOf(d) BY <1>2, <1>3 DEF Links
<1>4. CASE LinkOf(d)' = "up" /\ LinkOf(d) # "up"
  BY <1>2, <1>4 DEF Links, Link!Next, Link!Connect
<1>5. CASE LinkOf(d)' = "down" /\ LinkOf(d) # "down"
  BY <1>2, <1>5 DEF Links, Link!Next, Link!Break
<1>6. CASE LinkOf(d)' = "orphan" /\ LinkOf(d) = "up"
  BY <1>2, <1>6 DEF Links, Link!Next, Link!Orphan
<1> QED BY <1>1, <1>3, <1>4, <1>5, <1>6

LEMMA LinkStep == TypeOK /\ MapInv /\ [Next]_vars => [Link!Next]_Links
<1> SUFFICES ASSUME TypeOK, MapInv, [Next]_vars PROVE Link!Next \/ Links' = Links
  OBVIOUS
<1> USE DeviceOfAssumption, NoConnAssumption
<1>1. ASSUME NEW c \in Conn, ConnStep(c) PROVE Link!Next \/ Links' = Links
  <2> DEFINE d == DeviceOf[c]
  <2>1. d \in Device /\ TypeOK /\ EntryIsServed
    BY DEF MapInv
  <2>2. /\ \A e \in Device \ {d} : active'[e] = active[e]
        /\ \A e \in Conn : DeviceOf[e] # d => pc'[e] = pc[e] /\ link'[e] = link[e]
    <3>1. CASE BeginClose(c)
      BY <2>1, <3>1 DEF BeginClose, NothingToAwait, EntryIsServed, Goto, TypeOK
    <3>2. CASE ~BeginClose(c)
      BY <1>1, <3>2 DEF ConnStep, Handler, Failure, Dial, Cut, Forget, Accept, Reject,
          ConnectAtOnce, Install, MarkOnline, Leave, Disconnect, MarkOffline,
          MarkOnlineRaises, LoopRaises, MarkOfflineRaises, Goto, End, TypeOK
    <3> QED BY <3>1, <3>2
  <2>3. \A e \in Device \ {d} : LinkOf(e)' = LinkOf(e)
    BY <2>1, <2>2, SameLink
  <2>4. ASSUME LinkOf(d) = "down", LinkOf(d)' = "orphan" PROVE FALSE
    <3>1. Heard(d) = {} /\ Writable(d)' = {}
      BY <2>4 DEF LinkOf
    <3>2. PICK e \in Conn : e \in Heard(d)'
      BY <2>4 DEF LinkOf, Heard
    <3>3. DeviceOf[e] = d /\ pc'[e] \in {"installed", "receiving"} /\ link'[e] = "up"
      BY <3>2 DEF Heard
    <3>4. CASE (ConnectAtOnce(c) \/ Install(c)) /\ e = c
      <4>1. active'[d] = c /\ c # NoConn
        BY <2>1, <3>4 DEF ConnectAtOnce, Install, TypeOK
      <4> QED BY <3>1, <3>3, <3>4, <4>1 DEF Writable
    <3>5. CASE ~((ConnectAtOnce(c) \/ Install(c)) /\ e = c)
      <4>1. pc[e] \in {"installed", "receiving"} /\ link[e] = "up"
        BY <1>1, <3>3, <3>5 DEF ConnStep, Handler, Failure, Dial, Cut, Forget, Accept,
            Reject, ConnectAtOnce, BeginClose, Install, MarkOnline, Leave, Disconnect,
            MarkOffline, MarkOnlineRaises, LoopRaises, MarkOfflineRaises, Goto, End,
            TypeOK
      <4> QED BY <3>1, <3>3, <4>1 DEF Heard
    <3> QED BY <3>4, <3>5
  <2> QED BY <2>1, <2>3, <2>4, OneLink
<1>2. CASE ServerRestart
  <2>1. \A d \in Device : LinkOf(d)' = "down"
    BY <1>2 DEF ServerRestart, LinkOf, Writable, Heard
  <2> QED BY <2>1 DEF Links, Link!Next, Link!Restart
<1>3. CASE \/ \E d \in Device : RowStep(d)
           \/ UNCHANGED vars
  <2>1. UNCHANGED <<active, pc, link>>
    BY <1>3 DEF RowStep, Heartbeat, HeartbeatExpires, MarkStale, vars
  <2> QED BY <2>1 DEF Links, LinkOf, Writable, Heard
<1> QED BY <1>1, <1>2, <1>3 DEF Next, ConnStep, RowStep

\* What TaskFlow assumes of the connections that its commands and answers
\* travel on is what the map, its lock and the handlers provide.
THEOREM LinksAssumedHold == Safety => LinksAsAssumed
<1>1. Init => Link!Init
  BY DEF Init, Link!Init, LinkOf, Writable, Heard
<1> QED BY <1>1, LinkStep, TypeCorrect, MapInvAlways, PTL
        DEF Safety, LinksAsAssumed, Link!Spec, Links
=============================================================================
