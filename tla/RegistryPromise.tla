--------------------------- MODULE RegistryPromise ---------------------------
(***************************************************************************)
(* What the registry promises machines that keep their addresses, as long  *)
(* as nobody edits rows: an address is registered once, for good, however  *)
(* many agents report from it at a time, and whoever reports from it is    *)
(* told the same id.  Looking for a device and creating it are one step    *)
(* here; DeviceRegistry, with requests that overlap, are lost or are cut   *)
(* off by a restart, implements it under these conditions                  *)
(* (DeviceRegistry!KeepsPromise).                                          *)
(*                                                                         *)
(* A device that is deleted stays registered: its agent, or the next agent *)
(* at its address, gets the same id again.                                 *)
(***************************************************************************)
CONSTANTS Machine, Address, Home, Id, NoId

VARIABLES
    known,      \* the id an address is registered under
    saved       \* the id the agent of a machine holds

vars == <<known, saved>>

Init ==
    /\ known = [a \in Address |-> NoId]
    /\ saved = [m \in Machine |-> NoId]

Register(a) ==
    /\ known[a] = NoId
    /\ \E i \in Id \ {known[b] : b \in Address} : known' = [known EXCEPT ![a] = i]
    /\ UNCHANGED saved

Learn(m) ==
    /\ known[Home[m]] # NoId
    /\ saved' = [saved EXCEPT ![m] = known[Home[m]]]
    /\ UNCHANGED known

\* The agent is installed anew, or uninstalled.
Forget(m) ==
    /\ saved' = [saved EXCEPT ![m] = NoId]
    /\ UNCHANGED known

Next ==
    \/ \E a \in Address : Register(a)
    \/ \E m \in Machine : Learn(m) \/ Forget(m)

Spec == Init /\ [][Next]_vars
=============================================================================
