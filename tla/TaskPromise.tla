----------------------------- MODULE TaskPromise -----------------------------
(***************************************************************************)
(* What a task promises the person who created it, without the coroutines, *)
(* sessions and connections that TaskFlow keeps the promise with.  TaskFlow *)
(* implements it (TaskFlow!KeepsPromise).                                  *)
(*                                                                         *)
(* A task is created once, over devices that do not change.  The agent of  *)
(* each device reports at most once.  The task is shown completed only     *)
(* when every one of them has reported success.  It may be given up at any *)
(* time, and its end may then be replaced by another end; it is opened     *)
(* again only from a cancel that came before any device was at work.       *)
(***************************************************************************)
CONSTANT Row

VARIABLES
    status,     \* what is shown of the task
    members,    \* the devices it is for
    reported    \* what the agent of each has reported

vars == <<status, members, reported>>

Init ==
    /\ status = "none"
    /\ members = {}
    /\ reported = [r \in Row |-> "none"]

Create ==
    /\ status = "none"
    /\ status' = "open"
    /\ members' \in SUBSET Row
    /\ UNCHANGED reported

Report(r) ==
    /\ r \in members
    /\ reported[r] = "none"
    /\ \E s \in {"success", "failed"} : reported' = [reported EXCEPT ![r] = s]
    /\ UNCHANGED <<status, members>>

Complete ==
    /\ members # {}
    /\ \A r \in members : reported[r] = "success"
    /\ status' = "completed"
    /\ UNCHANGED <<members, reported>>

GiveUp ==
    /\ status # "none"
    /\ status' \in {"failed", "cancelled"}
    /\ UNCHANGED <<members, reported>>

Resume ==
    /\ status = "cancelled"
    /\ \A r \in members : reported[r] = "none"
    /\ status' = "open"
    /\ UNCHANGED <<members, reported>>

Next == Create \/ (\E r \in Row : Report(r)) \/ Complete \/ GiveUp \/ Resume

Spec == Init /\ [][Next]_vars
=============================================================================
