----------------------------- MODULE AgentLink ------------------------------
(***************************************************************************)
(* A device's connection as the rest of the server meets it:               *)
(*   up       send_command finds a socket that it can write to             *)
(*   orphan   it does not, and yet a handler still receives what the agent *)
(*            sends: another handler has removed the entry from the map    *)
(*   down     neither                                                      *)
(* TaskFlow takes these steps as its environment; AgentChannel, with the   *)
(* map and the handlers, takes no others (AgentChannel!LinksAsAssumed).    *)
(* A connection is orphaned only out of the map: one that was never there, *)
(* or a device without any, does not get to that state.                    *)
(***************************************************************************)
CONSTANT Device

VARIABLE conn

Init == conn \in [Device -> {"up", "down"}]

Connect(d) ==
    /\ conn[d] # "up"
    /\ conn' = [conn EXCEPT ![d] = "up"]

Orphan(d) ==
    /\ conn[d] = "up"
    /\ conn' = [conn EXCEPT ![d] = "orphan"]

Break(d) ==
    /\ conn[d] # "down"
    /\ conn' = [conn EXCEPT ![d] = "down"]

Restart == conn' = [d \in Device |-> "down"]

Next == Restart \/ \E d \in Device : Connect(d) \/ Orphan(d) \/ Break(d)

Spec == Init /\ [][Next]_conn
=============================================================================
