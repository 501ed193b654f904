--------------------------- MODULE ChannelPromise ---------------------------
(***************************************************************************)
(* What the connection manager promises whoever sends a command to a       *)
(* device, without the handlers, awaits and the lock that AgentChannel     *)
(* keeps the promise with.  AgentChannel implements it                     *)
(* (AgentChannel!KeepsPromise).                                            *)
(*                                                                         *)
(* Commands for a device go by its route.  A connection gets the route of  *)
(* its own device once in its life, while it is open as far as the server  *)
(* knows, and takes it from nobody but a connection that the server has    *)
(* closed.  A route may be dropped at any time, but it never leads to a    *)
(* connection that has ended.                                              *)
(***************************************************************************)
CONSTANTS Device, Conn, DeviceOf, NoConn

VARIABLES
    route,      \* the connection that commands for a device are sent on
    phase,      \* whether a connection has yet to get the route, has it, had it
    closed      \* the connections the server has closed

vars == <<route, phase, closed>>

Init ==
    /\ route = [d \in Device |-> NoConn]
    /\ phase = [c \in Conn |-> "none"]
    /\ closed = {}

Open(c) ==
    /\ phase[c] = "none"
    /\ phase' = [phase EXCEPT ![c] = "new"]
    /\ UNCHANGED <<route, closed>>

Route(c) ==
    LET d == DeviceOf[c]
    IN  /\ phase[c] = "new" /\ c \notin closed
        /\ route[d] \in closed \cup {NoConn}
        /\ route' = [route EXCEPT ![d] = c]
        /\ phase' = [e \in Conn |-> IF e = c THEN "routed"
                                    ELSE IF e = route[d] THEN "gone" ELSE phase[e]]
        /\ UNCHANGED closed

Drop(d) ==
    /\ route[d] # NoConn
    /\ route' = [route EXCEPT ![d] = NoConn]
    /\ phase' = [phase EXCEPT ![route[d]] = "gone"]
    /\ UNCHANGED closed

\* The server closes no connection that has yet to get the route.
Close(c) ==
    /\ phase[c] \in {"routed", "gone"}
    /\ closed' = closed \cup {c}
    /\ UNCHANGED <<route, phase>>

End(c) ==
    /\ phase[c] \in {"new", "gone"}
    /\ phase' = [phase EXCEPT ![c] = "none"]
    /\ closed' = closed \ {c}
    /\ UNCHANGED route

Restart ==
    /\ route' = [d \in Device |-> NoConn]
    /\ phase' = [c \in Conn |-> "none"]
    /\ closed' = {}

Next ==
    \/ \E c \in Conn : Open(c) \/ Route(c) \/ Close(c) \/ End(c)
    \/ \E d \in Device : Drop(d)
    \/ Restart

Spec == Init /\ [][Next]_vars
=============================================================================
