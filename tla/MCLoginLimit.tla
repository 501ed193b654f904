---------------------------- MODULE MCLoginLimit ----------------------------
(* An instance of LoginLimit for TLC: four logins of one client, which is one *)
(* more than it takes to lock it, so that a burst brings level 4.  The times *)
(* have the proportions of the program's (300, 900 and 3600 seconds).        *)
EXTENDS LoginLimit

CONSTANTS k1, a1, a2, a3, a4

SameKey == [a \in Attempt |-> k1]
=============================================================================
