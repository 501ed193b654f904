------------------------------ MODULE TaskPush ------------------------------
(***************************************************************************)
(* The live view of a task: subscribe_task, unsubscribe_task and           *)
(* broadcast_task_update of server/api/websocket_manager.py, the handler   *)
(* task_websocket that serves a page, and the loop of agent_websocket      *)
(* (server/api/ws_routes.py) that takes the answers of an agent one by one *)
(* and pushes each to the pages.                                           *)
(*                                                                         *)
(* broadcast_task_update iterates over the live set of pages and awaits a  *)
(* send in each round.  Meanwhile pages come and go, and other handlers    *)
(* discard the dead ones.  An iterator over a set whose size has changed   *)
(* raises RuntimeError, in the handler that serves the agent, whose other  *)
(* answers wait all the while and are lost with it.                        *)
(*                                                                         *)
(* A row is answered once, on some connection of its device.  A connection *)
(* carries answers for several tasks and is used up when its handler ends; *)
(* a page is opened once.  What _sync_parent_task does to the task is the  *)
(* subject of TaskFlow.                                                    *)
(***************************************************************************)
EXTENDS FiniteSets

CONSTANTS
    Row,        \* the result rows
    Page,       \* pages that show a task
    Conn,       \* connections of agents, each with its handler
    TaskOf,     \* the task of a row; the task a page shows
    None        \* "no row is handled", "no send is awaited"

ASSUME NoneAssumption == None \notin Row /\ None \notin Page
ASSUME PageAssumption == IsFiniteSet(Page)

VARIABLES
    stored,     \* the rows that show their result in the database
    replaced,   \* history: those that have shown it and do not any more
    arrived,    \* the rows whose answer has reached the server
    waiting,    \* the answers in the receive buffer of each connection
    handler,    \* where its handler is
    now,        \* with the answer for which row
    start,      \* the set of pages when its loop began, {} before that
    tried,      \* the pages the loop has been through
    sending,    \* the page whose send is awaited
    dead,       \* the pages whose send raised
    subs,       \* task_subscribers, of all tasks
    page,       \* where each page is
    shown       \* the rows it shows with their result

rowVars == <<stored, replaced, arrived>>
loopVars == <<start, tried, sending, dead>>
pageVars == <<page, shown>>
vars == <<rowVars, waiting, handler, now, loopVars, subs, pageVars>>

(***************************************************************************)
(* "gone": the handler has ended, and with it the connection.  "cut": the  *)
(* page was closed and the server has yet to see that.                     *)
(***************************************************************************)
Stage == {"receiving", "syncing", "pushing", "gone"}
PageState == {"unopened", "loaded", "open", "cut", "closed"}

TypeOK ==
    /\ stored \subseteq Row /\ replaced \subseteq Row /\ arrived \subseteq Row
    /\ waiting \in [Conn -> SUBSET Row]
    /\ handler \in [Conn -> Stage]
    /\ now \in [Conn -> Row \cup {None}]
    /\ start \in [Conn -> SUBSET Page]
    /\ tried \in [Conn -> SUBSET Page]
    /\ sending \in [Conn -> Page \cup {None}]
    /\ dead \in [Conn -> SUBSET Page]
    /\ subs \subseteq Page
    /\ page \in [Page -> PageState]
    /\ shown \in [Page -> SUBSET Row]

Init ==
    /\ stored = {} /\ replaced = {} /\ arrived = {}
    /\ waiting = [c \in Conn |-> {}]
    /\ handler = [c \in Conn |-> "receiving"]
    /\ now = [c \in Conn |-> None]
    /\ start = [c \in Conn |-> {}]
    /\ tried = [c \in Conn |-> {}]
    /\ sending = [c \in Conn |-> None]
    /\ dead = [c \in Conn |-> {}]
    /\ subs = {}
    /\ page = [p \in Page |-> "unopened"]
    /\ shown = [p \in Page |-> {}]

-----------------------------------------------------------------------------
(* agent_websocket and broadcast_task_update.                              *)

\* The agent's answer for r reaches the receive buffer.
Arrive(r, c) ==
    /\ r \notin arrived
    /\ handler[c] # "gone"
    /\ arrived' = arrived \cup {r}
    /\ waiting' = [waiting EXCEPT ![c] = @ \cup {r}]
    /\ UNCHANGED <<stored, replaced, handler, now, loopVars, subs, pageVars>>

\* Mutant: the receive loop is left with the first answer.
After_Returns(stage) ==
    CASE stage = "receiving" -> "syncing"
      [] stage = "syncing" -> "pushing"
      [] stage = "pushing" -> "returned"

\* What the handler does after each step of an answer.
After(stage) ==
    CASE stage = "receiving" -> "syncing"
      [] stage = "syncing" -> "pushing"
      [] stage = "pushing" -> "receiving"

Proceed(c) == handler' = [handler EXCEPT ![c] = After(@)]

\* The handler ends, by an exception or with its connection; the answers it
\* has not taken are lost.
End(c) ==
    /\ handler' = [handler EXCEPT ![c] = "gone"]
    /\ waiting' = [waiting EXCEPT ![c] = {}]
    /\ now' = [now EXCEPT ![c] = None]

\* Mutant: the row is changed but not committed.
Store_Uncommitted(r, c) ==
    /\ handler[c] = "receiving" /\ r \in waiting[c]
    /\ waiting' = [waiting EXCEPT ![c] = @ \ {r}]
    /\ now' = [now EXCEPT ![c] = r]
    /\ Proceed(c)
    /\ UNCHANGED <<rowVars, loopVars, subs, pageVars>>

\* An answer is taken and committed.  (The order in which they arrived plays no
\* role here.)
Store(r, c) ==
    /\ handler[c] = "receiving" /\ r \in waiting[c]
    /\ waiting' = [waiting EXCEPT ![c] = @ \ {r}]
    /\ stored' = stored \cup {r}
    /\ now' = [now EXCEPT ![c] = r]
    /\ Proceed(c)
    /\ UNCHANGED <<replaced, arrived, loopVars, subs, pageVars>>

\* _sync_parent_task has returned.
Sync(c) ==
    /\ handler[c] = "syncing"
    /\ Proceed(c)
    /\ UNCHANGED <<rowVars, waiting, now, loopVars, subs, pageVars>>

\* The connection closes, or the database raises: at the commit of an answer,
\* or after it in _store_sysinfo_output and _sync_parent_task.  (A connection
\* that closes with nothing to be received is one that brings nothing more.)
Fail(c) ==
    /\ handler[c] = "syncing" \/ (handler[c] = "receiving" /\ waiting[c] # {})
    /\ End(c)
    /\ UNCHANGED <<rowVars, loopVars, subs, pageVars>>

InLoop(c) == handler[c] = "pushing" /\ sending[c] = None

\* task_subscribers of the task whose result the handler pushes.
Viewers(c) == {p \in subs : TaskOf[p] = TaskOf[now[c]]}

\* What the iterator was made for: the loop makes it with its first send, with
\* no await between.
Iterated(c) == IF start[c] = {} THEN Viewers(c) ELSE start[c]
SameSize(c) == Cardinality(Viewers(c)) = Cardinality(Iterated(c))

\* The loop's variables are gone with it.
Leave(c) ==
    /\ start' = [start EXCEPT ![c] = {}]
    /\ tried' = [tried EXCEPT ![c] = {}]
    /\ dead' = [dead EXCEPT ![c] = {}]
    /\ UNCHANGED sending

\* The iterator finds another size than it began with, be it for its last look.
Raise(c) ==
    /\ InLoop(c)
    /\ ~SameSize(c)
    /\ End(c)
    /\ Leave(c)
    /\ UNCHANGED <<rowVars, subs, pageVars>>

Send(c, p) ==
    /\ InLoop(c)
    /\ SameSize(c)
    /\ p \in Viewers(c) \ tried[c]
    /\ start' = [start EXCEPT ![c] = Iterated(c)]
    /\ sending' = [sending EXCEPT ![c] = p]
    /\ UNCHANGED <<rowVars, waiting, handler, now, tried, dead, subs, pageVars>>

\* Mutant: a send to a page that is not there any more is awaited for ever.
Done_OnlyOpen(c, p) ==
    /\ handler[c] = "pushing" /\ sending[c] = p
    /\ page[p] = "open"
    /\ sending' = [sending EXCEPT ![c] = None]
    /\ tried' = [tried EXCEPT ![c] = @ \cup {p}]

\* The send of round p is over.
Done(c, p) ==
    /\ handler[c] = "pushing" /\ sending[c] = p
    /\ sending' = [sending EXCEPT ![c] = None]
    /\ tried' = [tried EXCEPT ![c] = @ \cup {p}]

\* What is sent to a page that was just closed may be lost without an error.
Sent(c, p) ==
    /\ Done(c, p)
    /\ page[p] \in {"open", "cut"}
    /\ shown' = IF page[p] = "open" THEN [shown EXCEPT ![p] = @ \cup {now[c]}] ELSE shown
    /\ UNCHANGED <<rowVars, waiting, handler, now, start, dead, subs, page>>

\* Mutant: the try encloses the loop and not the send.
SendRaises_EndsLoop(c, p) ==
    /\ Done(c, p)
    /\ page[p] # "open"
    /\ dead' = [dead EXCEPT ![c] = @ \cup {p}]
    /\ handler' = [handler EXCEPT ![c] = After("pushing")]
    /\ UNCHANGED <<rowVars, waiting, now, start, subs, pageVars>>

SendRaises(c, p) ==
    /\ Done(c, p)
    /\ page[p] # "open"
    /\ dead' = [dead EXCEPT ![c] = @ \cup {p}]
    /\ UNCHANGED <<rowVars, waiting, handler, now, start, subs, pageVars>>

\* The iterator is exhausted; the dead pages are dropped.  Once the members
\* have changed under it, as many coming as going, it may end early: a table
\* that is rebuilt moves what it has yet to visit.
Finish(c) ==
    /\ InLoop(c)
    /\ SameSize(c)
    /\ Viewers(c) = Iterated(c) => Viewers(c) \subseteq tried[c]
    /\ subs' = subs \ dead[c]
    /\ now' = [now EXCEPT ![c] = None]
    /\ Proceed(c)
    /\ Leave(c)
    /\ UNCHANGED <<rowVars, waiting, pageVars>>

-----------------------------------------------------------------------------
(* The other writers of the rows.                                          *)

\* create_task's commit of its outcomes, or the timeout of a get_task that had
\* read the row before the answer came (TaskFlow!CommitDispatch, CommitTimeout).
Replace(r) ==
    /\ r \in stored
    /\ stored' = stored \ {r}
    /\ replaced' = replaced \cup {r}
    /\ UNCHANGED <<arrived, waiting, handler, now, loopVars, subs, pageVars>>

-----------------------------------------------------------------------------
(* The page (web/src/views/Tasks.vue) and task_websocket.                  *)

\* viewTask loads the task, and opens the socket after.
Load(p) ==
    /\ page[p] = "unopened"
    /\ page' = [page EXCEPT ![p] = "loaded"]
    /\ shown' = [shown EXCEPT ![p] = {r \in stored : TaskOf[r] = TaskOf[p]}]
    /\ UNCHANGED <<rowVars, waiting, handler, now, loopVars, subs>>

Close(p) ==
    /\ page' = [page EXCEPT ![p] = "closed"]
    /\ shown' = [shown EXCEPT ![p] = {}]

\* decode_token finds no token, as in the URL that viewTask builds, or an
\* expired one.
Refuse(p) ==
    /\ page[p] = "loaded"
    /\ Close(p)
    /\ UNCHANGED <<rowVars, waiting, handler, now, loopVars, subs>>

\* From accept() on; subscribe_task awaits nothing.
Subscribe(p) ==
    /\ page[p] = "loaded"
    /\ page' = [page EXCEPT ![p] = "open"]
    /\ subs' = subs \cup {p}
    /\ UNCHANGED <<rowVars, waiting, handler, now, loopVars, shown>>

\* The dialog is closed, or the browser, or the network.
Cut(p) ==
    /\ page[p] = "open"
    /\ page' = [page EXCEPT ![p] = "cut"]
    /\ shown' = [shown EXCEPT ![p] = {}]
    /\ UNCHANGED <<rowVars, waiting, handler, now, loopVars, subs>>

\* Mutant: the handler ends without its finally block.
Unsubscribe_Forgotten(p) ==
    /\ page[p] = "cut"
    /\ Close(p)
    /\ UNCHANGED <<rowVars, waiting, handler, now, loopVars, subs>>

\* receive_text raises, and finally unsubscribes.
Unsubscribe(p) ==
    /\ page[p] = "cut"
    /\ Close(p)
    /\ subs' = subs \ {p}
    /\ UNCHANGED <<rowVars, waiting, handler, now, loopVars>>

-----------------------------------------------------------------------------

Handle(c) ==
    \/ (\E r \in Row : Store(r, c)) \/ Sync(c) \/ Raise(c) \/ Finish(c)
    \/ \E p \in Page : Send(c, p) \/ Sent(c, p) \/ SendRaises(c, p)

Next ==
    \/ \E c \in Conn : Handle(c) \/ Fail(c) \/ \E r \in Row : Arrive(r, c)
    \/ \E r \in Row : Replace(r)
    \/ \E p \in Page : Load(p) \/ Refuse(p) \/ Subscribe(p) \/ Cut(p) \/ Unsubscribe(p)

Safety == Init /\ [][Next]_vars

\* The event loop goes on with every handler; a send ends, for the keepalive
\* pings of the web server close a connection whose other end does not read.
Fairness ==
    /\ \A c \in Conn : WF_vars(Handle(c))
    /\ \A p \in Page : WF_vars(Unsubscribe(p))

Spec == Safety /\ Fairness

-----------------------------------------------------------------------------
(* Properties.                                                             *)

\* A page shows a result only once it is committed, so that whoever loads the
\* task again sees it too, unless create_task or get_task has written over the
\* row since: a push never runs ahead of the database, whatever handlers fail
\* and however a page's load falls between the commits and the pushes.
ShownWasStored ==
    \A p \in Page : shown[p] \subseteq stored \cup replaced

\* A handler that is pushing gets back to its agent, or ends: no page holds it
\* for good, though it awaits them one by one.
PushEnds ==
    \A c \in Conn : handler[c] = "pushing" ~> handler[c] # "pushing"

\* An answer that waits behind another one of the same agent is taken in the
\* end, or lost with its handler: the pages of one task delay the results of
\* the others, and may end their handler, but cannot hold it up for ever.
AnswersAreTaken ==
    LET Waiting == UNION {waiting[c] : c \in Conn}
    IN  \A r \in Row : r \in Waiting ~> r \notin Waiting

\* A loop that ends over the pages it began with has reached every one that
\* is still open, also those after a page whose send raised.
PushReachesAll ==
    [][\A c \in Conn :
        (handler[c] = "pushing" /\ handler'[c] = "receiving" /\ Viewers(c) = start[c])
            => \A p \in start[c] : page[p] = "open" => now[c] \in shown[p]]_vars

\* A page whose handler has ended is not kept among the subscribers, whether
\* or not another result ever comes to find its socket dead.
GonePagesForgotten ==
    \A p \in subs : page[p] \in {"open", "cut"}
=============================================================================
