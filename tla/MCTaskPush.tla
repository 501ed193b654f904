----------------------------- MODULE MCTaskPush -----------------------------
(* An instance of TaskPush for TLC, with one task, so that all loops iterate *)
(* over one set: two answers come on one connection, the second waiting      *)
(* behind the first, or on two, where one handler can discard a page that    *)
(* the other sends to; and one page can leave as the other comes.            *)
EXTENDS TaskPush

CONSTANTS r1, r2, p1, p2, c1, c2, t1

OneTask == [x \in Row \cup Page |-> t1]
=============================================================================
