-------------------------- MODULE TaskPush_proofs ---------------------------
(* What TLAPS proves of TaskPush, for any rows, tasks and connections and    *)
(* any finite set of pages.                                                  *)
EXTENDS TaskPush, TLAPS

\* A handler that is past its commit has a row.
NowInv == \A c \in Conn : handler[c] \in {"syncing", "pushing"} => now[c] \in Row

LEMMA NowInvStep == TypeOK /\ NowInv /\ [Next]_vars => NowInv'
<1> SUFFICES ASSUME TypeOK, NowInv, [Next]_vars
             PROVE  NowInv'
  OBVIOUS
<1> USE DEF TypeOK, NowInv, Stage
<1>1. ASSUME NEW c \in Conn, NEW r \in Row, Store(r, c) PROVE NowInv'
  BY <1>1 DEF Store, Proceed
<1>2. ASSUME NEW c \in Conn, Sync(c) PROVE NowInv'
  BY <1>2 DEF Sync, Proceed
<1>3. ASSUME NEW c \in Conn, Fail(c) \/ Raise(c) PROVE NowInv'
  BY <1>3 DEF Fail, Raise, End
<1>4. ASSUME NEW c \in Conn, Finish(c) PROVE NowInv'
  BY <1>4 DEF Finish, InLoop, Proceed, After
<1>5. CASE UNCHANGED <<handler, now>>
  BY <1>5
<1> QED BY <1>1, <1>2, <1>3, <1>4, <1>5
        DEF Next, Handle, Arrive, Send, Sent, SendRaises, Replace, Load, Refuse,
            Subscribe, Cut, Unsubscribe, vars

\* Every reachable state has its type.
THEOREM TypeCorrect == Safety => []TypeOK
<1>1. Init => TypeOK /\ NowInv
  BY DEF Init, TypeOK, Stage, PageState, NowInv
<1>2. TypeOK /\ NowInv /\ [Next]_vars => TypeOK'
  <2> SUFFICES ASSUME TypeOK, NowInv, [Next]_vars
               PROVE  TypeOK'
    OBVIOUS
  <2> USE DEF TypeOK, Stage, PageState, rowVars, loopVars, pageVars
  <2>1. ASSUME NEW c \in Conn, Proceed(c), handler[c] # "gone"
        PROVE  handler' \in [Conn -> Stage]
    <3>1. After(handler[c]) \in Stage
      BY <2>1 DEF After
    <3> QED BY <2>1, <3>1 DEF Proceed
  <2>2. ASSUME NEW c \in Conn, NEW r \in Row, Arrive(r, c) PROVE TypeOK'
    BY <2>2 DEF Arrive
  <2>3. ASSUME NEW c \in Conn, NEW r \in Row, Store(r, c) PROVE TypeOK'
    BY <2>1, <2>3 DEF Store
  <2>4. ASSUME NEW c \in Conn, Sync(c) PROVE TypeOK'
    BY <2>1, <2>4 DEF Sync
  <2>5. ASSUME NEW c \in Conn, Fail(c) PROVE TypeOK'
    BY <2>5 DEF Fail, End
  <2>6. ASSUME NEW c \in Conn, Raise(c) PROVE TypeOK'
    BY <2>6 DEF Raise, Leave, End
  <2>7. ASSUME NEW c \in Conn, Finish(c) PROVE TypeOK'
    BY <2>1, <2>7 DEF Finish, InLoop, Leave
  <2>8. ASSUME NEW c \in Conn, NEW p \in Page, Send(c, p) PROVE TypeOK'
    BY <2>8 DEF Send, Iterated, Viewers
  <2>9. ASSUME NEW c \in Conn, NEW p \in Page, Sent(c, p) PROVE TypeOK'
    BY <2>9 DEF Sent, Done, NowInv
  <2>10. ASSUME NEW c \in Conn, NEW p \in Page, SendRaises(c, p) PROVE TypeOK'
    BY <2>10 DEF SendRaises, Done
  <2>11. ASSUME NEW r \in Row, Replace(r) PROVE TypeOK'
    BY <2>11 DEF Replace
  <2>12. ASSUME NEW p \in Page, Load(p) \/ Subscribe(p) PROVE TypeOK'
    BY <2>12 DEF Load, Subscribe
  <2>13. ASSUME NEW p \in Page, Refuse(p) \/ Cut(p) \/ Unsubscribe(p) PROVE TypeOK'
    BY <2>13 DEF Refuse, Cut, Unsubscribe, Close
  <2>14. CASE UNCHANGED vars
    BY <2>14 DEF vars
  <2> QED BY <2>2, <2>3, <2>4, <2>5, <2>6, <2>7, <2>8, <2>9, <2>10, <2>11, <2>12,
             <2>13, <2>14
          DEF Next, Handle
<1> QED BY <1>1, <1>2, NowInvStep, PTL DEF Safety

-----------------------------------------------------------------------------

\* What the loops know.  A row whose handler is past its commit has been stored.
\* A page a loop has been through was told if it is still open, for a page that
\* is open has been so since it subscribed.
PushInv ==
    /\ \A c \in Conn : handler[c] \in {"syncing", "pushing"} =>
           now[c] \in stored \cup replaced
    /\ \A c \in Conn : handler[c] # "pushing" => tried[c] = {} /\ dead[c] = {}
    /\ \A c \in Conn : sending[c] # None => page[sending[c]] \in {"open", "cut", "closed"}
    /\ \A c \in Conn : \A p \in tried[c] :
           page[p] \in {"open", "cut", "closed"} /\ (page[p] = "open" => now[c] \in shown[p])
    /\ \A c \in Conn : \A p \in dead[c] : page[p] \in {"cut", "closed"}
    /\ \A p \in subs : page[p] \in {"open", "cut"}
    /\ \A p \in Page : shown[p] \subseteq stored \cup replaced

LEMMA PushInvStep == TypeOK /\ PushInv /\ [Next]_vars => PushInv'
<1> SUFFICES ASSUME TypeOK, PushInv, [Next]_vars
             PROVE  PushInv'
  OBVIOUS
<1> USE DEF TypeOK, PushInv, Stage, PageState, rowVars, loopVars, pageVars
<1>1. ASSUME NEW c \in Conn, Proceed(c)
      PROVE  /\ handler'[c] = After(handler[c])
             /\ \A d \in Conn \ {c} : handler'[d] = handler[d]
  BY <1>1 DEF Proceed
<1>2. ASSUME NEW c \in Conn, NEW r \in Row, Arrive(r, c) PROVE PushInv'
  BY <1>2 DEF Arrive
<1>3. ASSUME NEW c \in Conn, NEW r \in Row, Store(r, c) PROVE PushInv'
  BY <1>1, <1>3 DEF Store, After
<1>4. ASSUME NEW c \in Conn, Sync(c) PROVE PushInv'
  BY <1>1, <1>4 DEF Sync, After
<1>5. ASSUME NEW c \in Conn, Fail(c) PROVE PushInv'
  BY <1>5 DEF Fail, End
<1>6. ASSUME NEW c \in Conn, Raise(c) PROVE PushInv'
  BY <1>6 DEF Raise, Leave, InLoop, End
<1>7. ASSUME NEW c \in Conn, Finish(c) PROVE PushInv'
  <2>1. handler[c] = "pushing" /\ handler'[c] = "receiving"
    BY <1>1, <1>7 DEF Finish, InLoop, After
  <2> QED BY <1>1, <1>7, <2>1 DEF Finish, Leave
<1>8. ASSUME NEW c \in Conn, NEW p \in Page, Send(c, p) PROVE PushInv'
  BY <1>8, NoneAssumption DEF Send, Viewers
<1>9. ASSUME NEW c \in Conn, NEW p \in Page, Sent(c, p) PROVE PushInv'
  BY <1>9 DEF Sent, Done
<1>10. ASSUME NEW c \in Conn, NEW p \in Page, SendRaises(c, p) PROVE PushInv'
  BY <1>10, NoneAssumption DEF SendRaises, Done
<1>11. ASSUME NEW r \in Row, Replace(r) PROVE PushInv'
  BY <1>11 DEF Replace
<1>12. ASSUME NEW p \in Page, Load(p) PROVE PushInv'
  BY <1>12 DEF Load
<1>13. ASSUME NEW p \in Page, Subscribe(p) PROVE PushInv'
  BY <1>13 DEF Subscribe
<1>14. ASSUME NEW p \in Page, Refuse(p) PROVE PushInv'
  BY <1>14 DEF Refuse, Close
<1>15. ASSUME NEW p \in Page, Cut(p) PROVE PushInv'
  BY <1>15 DEF Cut
<1>16. ASSUME NEW p \in Page, Unsubscribe(p) PROVE PushInv'
  BY <1>16 DEF Unsubscribe, Close
<1>17. CASE UNCHANGED vars
  BY <1>17 DEF vars
<1> QED BY <1>2, <1>3, <1>4, <1>5, <1>6, <1>7, <1>8, <1>9, <1>10, <1>11, <1>12,
           <1>13, <1>14, <1>15, <1>16, <1>17 DEF Next, Handle

LEMMA PushInvAlways == Safety => [](TypeOK /\ PushInv)
<1>1. Init => PushInv
  BY DEF Init, PushInv
<1>2. TypeOK /\ PushInv /\ [Next]_vars => PushInv'
  BY PushInvStep
<1> QED BY <1>1, <1>2, TypeCorrect, PTL DEF Safety

\* A page shows a result only once it is committed; what it shows is in the
\* database unless create_task or get_task has written over it since.
THEOREM PagesShowStored == Safety => []ShownWasStored
<1>1. PushInv => ShownWasStored
  BY DEF PushInv, ShownWasStored
<1> QED BY <1>1, PushInvAlways, PTL

\* A page whose handler has ended is not among the subscribers.
THEOREM GoneForgotten == Safety => []GonePagesForgotten
<1>1. PushInv => GonePagesForgotten
  BY DEF PushInv, GonePagesForgotten
<1> QED BY <1>1, PushInvAlways, PTL

\* A loop over the pages it began with reaches every one that is still open.
THEOREM PushesReachAll == Safety => PushReachesAll
<1> DEFINE Reaches == \A c \in Conn :
        (handler[c] = "pushing" /\ handler'[c] = "receiving" /\ Viewers(c) = start[c])
            => \A p \in start[c] : page[p] = "open" => now[c] \in shown[p]
<1>1. TypeOK /\ PushInv /\ [Next]_vars => [Reaches]_vars
  <2> SUFFICES ASSUME TypeOK, PushInv, [Next]_vars,
                      NEW c \in Conn, handler[c] = "pushing", handler'[c] = "receiving",
                      Viewers(c) = start[c], NEW p \in start[c], page[p] = "open"
               PROVE  now[c] \in shown[p]
    OBVIOUS
  <2>1. ASSUME NEW d \in Conn, NEW r \in Row, Store(r, d) PROVE FALSE
    BY <2>1 DEF Store, Proceed, TypeOK, After
  <2>2. ASSUME NEW d \in Conn, Sync(d) PROVE FALSE
    BY <2>2 DEF Sync, Proceed, TypeOK, After
  <2>3. ASSUME NEW d \in Conn, Raise(d) \/ Fail(d) PROVE FALSE
    BY <2>3 DEF Raise, Fail, End, InLoop, TypeOK
  <2>4. ASSUME NEW d \in Conn, Finish(d) PROVE d = c
    BY <2>4 DEF Finish, Proceed, TypeOK
  <2>5. Finish(c)
    BY <2>1, <2>2, <2>3, <2>4
       DEF Next, Handle, Arrive, Send, Sent, SendRaises, Replace, Load, Refuse, Subscribe,
           Cut, Unsubscribe, vars
  <2>6. p \in tried[c]
    BY <2>5 DEF Finish, Iterated
  <2> QED BY <2>6 DEF PushInv
<1> QED BY <1>1, PushInvAlways, PTL DEF Safety, PushReachesAll
=============================================================================
