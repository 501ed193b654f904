------------------------ MODULE DeviceRegistry_proofs ------------------------
(***************************************************************************)
(* Theorems about DeviceRegistry, for any machines, requests, addresses,   *)
(* ids and bounds.                                                         *)
(***************************************************************************)
EXTENDS DeviceRegistry, FiniteSetTheorems, TLAPS

\* A row the console makes, with a token that is told or not.
Inserts(a) == \E t \in {0, 0 - count'["edits"]} : Insert(a, t)

\* Besides Answer and the steps of Handle, a slot has these.
LEMMA NextSplit ==
    ASSUME Next
    PROVE  \/ \E m \in Machine : Install(m) \/ Uninstall(m) \/ \E a \in Address : Move(m, a)
           \/ \E s \in Sender : \/ Beat(s) \/ Greet(s) \/ Answer(s) \/ Lose(s)
                                \/ Enter(s) \/ FindById(s) \/ FindByIp(s)
                                \/ Refresh(s) \/ Adopt(s) \/ Create(s) \/ Refuse(s)
           \/ \E i \in Id : TouchedOtherwise(i) \/ DeleteDevice(i)
           \/ \E a \in Address : Inserts(a) \/ \E i \in Id : EditAddress(i, a)
           \/ ImportStart \/ ImportLine \/ ImportCommit
           \/ Restart
  BY Zenon DEF Next, Agent, Slot, Handle, Console, CreateDevice, GenerateToken, Inserts

\* The row a machine without agent, a request not made and a row not made yet
\* look like are of the right types.
LEMMA BlankTypes ==
    /\ Nowhere \in Address
    /\ BlankRow \in Row
    /\ [BlankRow EXCEPT !.life = "purged"] \in Row
    /\ BlankPayload \in Payload
    /\ BlankLoaded \in Loaded
    /\ NotInstalled \in Config
<1>1. Nowhere \in Address
  BY HomeAssumption DEF Nowhere
<1>2. QED
  BY <1>1 DEF BlankRow, Row, Life, BlankPayload, Payload, BlankLoaded, Loaded, NotInstalled, Config

LEMMA TouchType ==
    ASSUME NEW i \in Id, newer \subseteq Id \X Id, Touch(i)
    PROVE  newer' \subseteq Id \X Id
  BY DEF Touch

LEMMA IdentityType ==
    ASSUME TypeOK, NEW i \in Id
    PROVE  Identity(i) \in Loaded /\ Identity(i).id = i
  BY DEF TypeOK, Identity, Loaded, Row

LEMMA SpendType ==
    ASSUME TypeOK, NEW k \in Counted, Spend(k)
    PROVE  count' \in [Counted -> Nat] /\ count'[k] = count[k] + 1
  BY DEF TypeOK, Spend

LEMMA DeafenType ==
    ASSUME TypeOK, NEW m \in Machine, Deafen(m)
    PROVE  /\ asks' \in [Sender -> Payload]
           /\ \A s \in Sender : asks'[s].id = asks[s].id
<1>1. \A s \in Sender : asks[s] \in Payload
  BY DEF TypeOK
<1>2. \A p \in Payload : /\ [p EXCEPT !.heard = FALSE] \in Payload
                         /\ [p EXCEPT !.heard = FALSE].id = p.id
  BY DEF Payload
<1>3. QED
  BY <1>1, <1>2 DEF Deafen

LEMMA TypeInit == Init => TypeOK
<1>1. <<>> \in Seq(Address)
  OBVIOUS
<1>2. QED
  BY <1>1, BlankTypes, HomeAssumption DEF Init, TypeOK, Import, Stage

LEMMA TypeStep == TypeOK /\ [Next]_vars => TypeOK'
<1> SUFFICES ASSUME TypeOK, [Next]_vars PROVE TypeOK'
  OBVIOUS
<1> USE DEF TypeOK
<1>1. ASSUME NEW m \in Machine, Install(m) PROVE TypeOK'
  <2>1. "installs" \in Counted
    BY DEF Counted
  <2>2. count' \in [Counted -> Nat] /\ count'["installs"] \in Nat
    BY <1>1, <2>1, SpendType DEF Install
  <2>3. cfg' \in [Machine -> Config]
    <3>1. HandedOut \subseteq Int
      BY DEF HandedOut, Row
    <3>2. PICK t \in 1..count'["installs"] \cup HandedOut :
              cfg' = [cfg EXCEPT ![m] = [on |-> TRUE, token |-> t, id |-> NoId,
                                         greet |-> TRUE]]
      BY <1>1 DEF Install
    <3>3. t \in Int
      BY <2>2, <3>1
    <3> QED
      BY <3>2, <3>3 DEF Config
  <2>4. QED
    BY <1>1, <2>2, <2>3, DeafenType DEF Install, importVars
<1>2. ASSUME NEW m \in Machine, Uninstall(m) PROVE TypeOK'
  BY <1>2, BlankTypes, DeafenType DEF Uninstall, importVars
<1>3. ASSUME NEW m \in Machine, NEW a \in Address, Move(m, a) PROVE TypeOK'
  <2>1. "moves" \in Counted
    BY DEF Counted
  <2>2. QED
    BY <1>3, <2>1, DeafenType, SpendType DEF Move, importVars
<1>4. ASSUME NEW s \in Sender, Beat(s) PROVE TypeOK'
  BY <1>4, MachineOfAssumption DEF Beat, Submit, Config, Payload, Stage, importVars
<1>5. ASSUME NEW s \in Sender, Greet(s) PROVE TypeOK'
  <2>1. \A c \in Config : [c EXCEPT !.greet = FALSE] \in Config
    BY DEF Config
  <2>2. MachineOf[s] \in Machine /\ cfg[MachineOf[s]] \in Config
    BY MachineOfAssumption
  <2>3. cfg' \in [Machine -> Config]
    BY <1>5, <2>1, <2>2 DEF Greet
  <2>4. asks' \in [Sender -> Payload]
    BY <1>5, <2>2 DEF Greet, Submit, Payload, Config
  <2>5. QED
    BY <1>5, <2>3, <2>4 DEF Greet, Submit, Stage, importVars
<1>6. ASSUME NEW s \in Sender, Answer(s) PROVE TypeOK'
  BY <1>6, BlankTypes, MachineOfAssumption
     DEF Answer, Drop, Goto, Config, Payload, Loaded, Stage, importVars
<1>7. ASSUME NEW s \in Sender, Lose(s) PROVE TypeOK'
  BY <1>7, BlankTypes DEF Lose, Drop, Goto, Spend, Stage, agentVars, importVars, Counted
<1>8. ASSUME NEW s \in Sender, Enter(s) PROVE TypeOK'
  BY <1>8 DEF Enter, Goto, Stage, Payload, agentVars, importVars
<1>9. ASSUME NEW s \in Sender, FindById(s) PROVE TypeOK'
  <2>1. asks[s].id \in Id
    BY <1>9 DEF FindById
  <2>2. Identity(asks[s].id) \in Loaded /\ Identity(asks[s].id).id \in Id
    BY <2>1, IdentityType
  <2>3. at' \in [Sender -> Stage] /\ \A r \in Sender : at'[r] = "byId" => at[r] = "byId"
    BY <1>9 DEF FindById, Goto, Stage
  <2>4. /\ loaded' \in [Sender -> Loaded]
        /\ \A r \in Sender : at'[r] \in {"found", "answered"} => loaded'[r].id \in Id
    BY <1>9, <2>2 DEF FindById, Goto
  <2>5. QED
    BY <1>9, <2>3, <2>4 DEF FindById, agentVars, importVars
<1>10. ASSUME NEW s \in Sender, FindByIp(s) PROVE TypeOK'
  <2>1. \A i \in Id : Identity(i) \in Loaded /\ Identity(i).id \in Id
    BY IdentityType
  <2>2. at' \in [Sender -> Stage] /\ \A r \in Sender : at'[r] = "byId" => at[r] = "byId"
    BY <1>10 DEF FindByIp, Goto, Stage
  <2>3. /\ loaded' \in [Sender -> Loaded]
        /\ \A r \in Sender : at'[r] \in {"found", "answered"} => loaded'[r].id \in Id
    <3>1. CASE loaded' = loaded /\ Goto(s, "unknown")
      BY <3>1 DEF Goto
    <3>2. ASSUME NEW i \in Id, Goto(s, "found"), loaded' = [loaded EXCEPT ![s] = Identity(i)]
          PROVE  <2>3
      BY <2>1, <3>2 DEF Goto
    <3>3. QED
      BY <1>10, <3>1, <3>2 DEF FindByIp, AtAddress
  <2>4. QED
    BY <1>10, <2>2, <2>3 DEF FindByIp, agentVars, importVars
<1>11. ASSUME NEW s \in Sender, Refresh(s) PROVE TypeOK'
  BY <1>11, TouchType DEF Refresh, Goto, Stage, agentVars, importVars
<1>12. ASSUME NEW s \in Sender, Adopt(s) PROVE TypeOK'
  <2> DEFINE r == loaded[s].id
  <2>1. r \in Id
    BY <1>12 DEF Adopt
  <2>2. newer' \subseteq Id \X Id
    BY <1>12, <2>1, TouchType DEF Adopt
  <2>3. row' \in [Id -> Row]
    BY <1>12, <2>1 DEF Adopt, Row, Payload, Loaded, Life
  <2>4. QED
    BY <1>12, <2>2, <2>3 DEF Adopt, Goto, Stage, agentVars, importVars
<1>13. ASSUME NEW s \in Sender, Create(s) PROVE TypeOK'
  <2>1. PICK i \in Id : /\ row' = [row EXCEPT ![i] = [life |-> "live", ip |-> asks[s].ip,
                                                      token |-> asks[s].token]]
                        /\ Touch(i)
                        /\ loaded' = [loaded EXCEPT ![s] =
                              [id |-> i, life |-> "live", ip |-> asks[s].ip,
                               token |-> asks[s].token]]
    BY <1>13 DEF Create
  <2>2. newer' \subseteq Id \X Id
    BY <2>1, TouchType
  <2>3. row' \in [Id -> Row] /\ loaded' \in [Sender -> Loaded] /\ loaded'[s].id \in Id
    BY <2>1 DEF Row, Payload, Loaded, Life
  <2>4. QED
    BY <1>13, <2>1, <2>2, <2>3 DEF Create, Goto, Stage, agentVars, importVars
<1>14. ASSUME NEW s \in Sender, Refuse(s) PROVE TypeOK'
  BY <1>14, BlankTypes DEF Refuse, Drop, Goto, Stage, agentVars, importVars
<1>15. ASSUME NEW i \in Id, TouchedOtherwise(i) PROVE TypeOK'
  BY <1>15, TouchType DEF TouchedOtherwise, serverVars, agentVars, importVars
<1>16. ASSUME NEW i \in Id, DeleteDevice(i) PROVE TypeOK'
  <2>1. row[i] \in Row /\ \A r \in Row : [r EXCEPT !.life = "deleted"] \in Row
    BY DEF Row, Life
  <2>2. row' \in [Id -> Row]
    BY <1>16, <2>1 DEF DeleteDevice
  <2>3. QED
    BY <1>16, <2>2 DEF DeleteDevice, Spend, serverVars, agentVars, importVars, Counted
<1>17. ASSUME NEW a \in Address, Inserts(a) PROVE TypeOK'
  <2>0. count' \in [Counted -> Nat]
    BY <1>17, SpendType DEF Inserts, Insert, Counted
  <2>1. PICK i \in Id, t \in {0, 0 - count'["edits"]} :
            /\ row' = [row EXCEPT ![i] = [life |-> "live", ip |-> a, token |-> t]]
            /\ Touch(i)
    BY <1>17 DEF Inserts, Insert
  <2>2. newer' \subseteq Id \X Id
    BY <2>1, TouchType
  <2>3. row' \in [Id -> Row]
    <3>1. t \in Int
      BY <2>0 DEF Counted
    <3> QED
      BY <2>1, <3>1 DEF Row, Life
  <2>4. QED
    BY <1>17, <2>2, <2>3 DEF Inserts, Insert, Spend, serverVars, agentVars, importVars, Counted
<1>18. ASSUME NEW a \in Address, NEW i \in Id, EditAddress(i, a) PROVE TypeOK'
  <2>1. row[i] \in Row /\ \A r \in Row : [r EXCEPT !.ip = a] \in Row
    BY DEF Row
  <2>2. row' \in [Id -> Row]
    BY <1>18, <2>1 DEF EditAddress
  <2>3. QED
    BY <1>18, <2>2 DEF EditAddress, Spend, serverVars, agentVars, importVars, Counted
<1>19. ASSUME ImportStart PROVE TypeOK'
  <2>1. list' \in Seq(Address)
    BY <1>19, BoundAssumption DEF ImportStart
  <2>2. QED
    BY <1>19, <2>1 DEF ImportStart, Spend, Import, serverVars, agentVars, Counted
<1>20. ASSUME ImportLine PROVE TypeOK'
  <2> DEFINE a == Head(list)
  <2>0. a \in Address /\ list \in Seq(Address) /\ list # <<>>
    BY <1>20 DEF ImportLine
  <2>1. list' \in Seq(Address)
    <3>1. list' \in {Tail(list), <<>>}
      BY <1>20 DEF ImportLine
    <3>2. Tail(list) \in Seq(Address) /\ <<>> \in Seq(Address)
      BY <2>0
    <3>3. QED
      BY <3>1, <3>2
  <2>2. newer' \subseteq Id \X Id
    BY <1>20, TouchType DEF ImportLine
  <2>3. row' \in [Id -> Row]
    <3>1. [life |-> "added", ip |-> a, token |-> 0] \in Row
      BY <2>0 DEF Row, Life
    <3>2. \/ \E i \in Id : row' = [row EXCEPT ![i] = [life |-> "added", ip |-> a, token |-> 0]]
          \/ row' = row
          \/ row' = [i \in Id |-> IF i \in Added THEN BlankRow ELSE row[i]]
      BY <1>20 DEF ImportLine
    <3>3. QED
      BY <3>1, <3>2, BlankTypes
  <2>4. importing' \in Import
    BY <1>20 DEF ImportLine, Import
  <2>5. QED
    BY <1>20, <2>1, <2>2, <2>3, <2>4 DEF ImportLine, serverVars, agentVars
<1>21. ASSUME ImportCommit PROVE TypeOK'
  BY <1>21 DEF ImportCommit, Row, Life, Import, serverVars, agentVars
<1>22. ASSUME Restart PROVE TypeOK'
  <2>1. row' \in [Id -> Row]
    BY <1>22, BlankTypes DEF Restart
  <2>2. <<>> \in Seq(Address)
    OBVIOUS
  <2>3. QED
    BY <1>22, <2>1, <2>2, BlankTypes DEF Restart, Spend, Import, Stage, agentVars, Counted
<1>23. CASE UNCHANGED vars
  BY <1>23 DEF vars
<1>24. QED
  BY <1>1, <1>2, <1>3, <1>4, <1>5, <1>6, <1>7, <1>8, <1>9, <1>10, <1>11, <1>12, <1>13,
     <1>14, <1>15, <1>16, <1>17, <1>18, <1>19, <1>20, <1>21, <1>22, <1>23, NextSplit

\* Every state of the registry is well typed: what a request has found is a
\* row, what it looks for is an id.
THEOREM TypeCorrect == Safety => []TypeOK
  BY TypeInit, TypeStep, PTL DEF Safety

-----------------------------------------------------------------------------
(* A row comes back only with a new token.                                 *)

\* Whoever looks for a row, or has found one and not written yet, holds the
\* registration lock, so there is one such request.
Inside == {"byId", "byIp", "found", "unknown"}
LockInv == \A s \in Sender : at[s] \in Inside => lock = s

\* The token a request has read is still the token of that row: tokens are
\* written under the lock only.
SeenInv == \A s \in Sender : at[s] = "found" =>
              /\ InTable(loaded[s].id)
              /\ row[loaded[s].id].token = loaded[s].token

TokenInv == TypeOK /\ LockInv /\ SeenInv

LEMMA TokenInit == Init => TokenInv
  BY TypeInit DEF Init, TokenInv, LockInv, Inside, SeenInv

\* Steps that leave the requests inside the lock as they are, and keep the
\* rows that are in the table there with their tokens.
LEMMA TokenKept ==
    ASSUME TokenInv, TypeOK', lock' = lock,
           \A s \in Sender : at'[s] \in Inside => at'[s] = at[s] /\ loaded'[s] = loaded[s],
           \A i \in Id : InTable(i) => InTable(i)' /\ row'[i].token = row[i].token
    PROVE  TokenInv'
<1>1. LockInv'
  BY DEF TokenInv, LockInv
<1>2. SeenInv'
  BY DEF TokenInv, SeenInv, Inside, TypeOK
<1>3. QED
  BY <1>1, <1>2 DEF TokenInv

LEMMA TokenStep == TokenInv /\ [Next]_vars => TokenInv'
<1> SUFFICES ASSUME TokenInv, [Next]_vars PROVE TokenInv'
  OBVIOUS
<1> TypeOK /\ TypeOK'
  BY TypeStep DEF TokenInv
<1>1. ASSUME NEW m \in Machine, Install(m) \/ Uninstall(m) \/ \E a \in Address : Move(m, a)
      PROVE  TokenInv'
  <2>1. UNCHANGED <<row, lock, at, loaded>>
    BY <1>1 DEF Install, Uninstall, Move
  <2>2. QED
    BY <2>1, TokenKept DEF InTable
<1>2. ASSUME NEW s \in Sender, Beat(s) \/ Greet(s) \/ Answer(s) PROVE TokenInv'
  <2>1. UNCHANGED <<row, lock>>
    BY <1>2 DEF Beat, Greet, Answer, Submit
  <2>2. \A r \in Sender : at'[r] \in Inside => at'[r] = at[r] /\ loaded'[r] = loaded[r]
    BY <1>2 DEF Beat, Greet, Answer, Submit, Drop, Goto, TypeOK, Inside
  <2>3. QED
    BY <2>1, <2>2, TokenKept DEF InTable
<1>3. ASSUME NEW s \in Sender, Lose(s) \/ Refuse(s) PROVE TokenInv'
  <2>1. /\ row' = row
        /\ at' = [at EXCEPT ![s] = "idle"]
        /\ loaded' = [loaded EXCEPT ![s] = BlankLoaded]
        /\ \A r \in Sender \ {s} : lock = r => lock' = r \/ at[s] \in Inside
    BY <1>3 DEF Lose, Refuse, Drop, Goto, Inside
  <2>2. LockInv'
    BY <1>3, <2>1 DEF TokenInv, LockInv, Inside, TypeOK
  <2>3. SeenInv'
    BY <2>1 DEF TokenInv, SeenInv, TypeOK, InTable
  <2>4. QED
    BY <2>2, <2>3 DEF TokenInv
<1>4. ASSUME NEW s \in Sender, Enter(s) PROVE TokenInv'
  <2>1. \A r \in Sender : at[r] \notin Inside
    BY <1>4, NoSenderAssumption DEF Enter, TokenInv, LockInv
  <2>2. LockInv'
    BY <1>4, <2>1 DEF Enter, Goto, LockInv, Inside, TypeOK
  <2>3. SeenInv'
    BY <1>4, <2>1 DEF Enter, Goto, SeenInv, Inside, TypeOK
  <2>4. QED
    BY <2>2, <2>3 DEF TokenInv
<1>5. ASSUME NEW s \in Sender, FindById(s) \/ FindByIp(s) PROVE TokenInv'
  <2>1. UNCHANGED <<row, lock>> /\ lock = s
    BY <1>5 DEF FindById, FindByIp, TokenInv, LockInv, Inside
  <2>2. LockInv'
    BY <1>5, <2>1 DEF FindById, FindByIp, Goto, TokenInv, LockInv, Inside, TypeOK
  <2>3. SeenInv'
    <3>1. \/ at'[s] # "found" /\ loaded' = loaded
          \/ \E i \in Id : InTable(i) /\ loaded' = [loaded EXCEPT ![s] = Identity(i)]
      BY <1>5 DEF FindById, FindByIp, AtAddress, Goto, TypeOK
    <3>2. \A i \in Id : Identity(i).id = i /\ Identity(i).token = row[i].token
      BY DEF Identity
    <3>3. \A r \in Sender \ {s} : at'[r] = at[r] /\ loaded'[r] = loaded[r]
      BY <1>5, <3>1 DEF FindById, FindByIp, Goto, TypeOK
    <3>4. at'[s] = "found" =>
            /\ InTable(loaded'[s].id)
            /\ row[loaded'[s].id].token = loaded'[s].token
      BY <3>1, <3>2 DEF TypeOK
    <3>5. QED
      BY <2>1, <3>3, <3>4 DEF TokenInv, SeenInv, InTable
  <2>4. QED
    BY <2>2, <2>3 DEF TokenInv
<1>6. ASSUME NEW s \in Sender, Refresh(s) \/ Adopt(s) \/ Create(s) PROVE TokenInv'
  <2>1. at[s] \in Inside /\ at' = [at EXCEPT ![s] = "answered"] /\ lock = s
    BY <1>6 DEF Refresh, Adopt, Create, Goto, TokenInv, LockInv, Inside
  <2>2. \A r \in Sender : at'[r] \notin Inside
    BY <2>1 DEF TokenInv, LockInv, Inside, TypeOK
  <2>3. QED
    BY <2>2 DEF TokenInv, LockInv, SeenInv, Inside
<1>7. ASSUME NEW i \in Id, TouchedOtherwise(i) \/ DeleteDevice(i) PROVE TokenInv'
  <2>1. UNCHANGED serverVars
    BY <1>7 DEF TouchedOtherwise, DeleteDevice
  <2>2. \A j \in Id : InTable(j) => InTable(j)' /\ row'[j].token = row[j].token
    BY <1>7 DEF TouchedOtherwise, DeleteDevice, InTable, TypeOK, Row
  <2>3. QED
    BY <2>1, <2>2, TokenKept DEF serverVars
<1>8. ASSUME NEW a \in Address, Inserts(a) \/ \E i \in Id : EditAddress(i, a) PROVE TokenInv'
  <2>1. UNCHANGED serverVars
    BY <1>8 DEF Inserts, Insert, EditAddress
  <2>2. \A j \in Id : InTable(j) => InTable(j)' /\ row'[j].token = row[j].token
    <3>1. ASSUME NEW i \in Id, row[i].life = "unused", NEW r,
                 row' = [row EXCEPT ![i] = r]
          PROVE  \A j \in Id : InTable(j) => InTable(j)' /\ row'[j].token = row[j].token
      BY <3>1 DEF InTable, TypeOK
    <3>2. ASSUME NEW i \in Id, EditAddress(i, a)
          PROVE  \A j \in Id : InTable(j) => InTable(j)' /\ row'[j].token = row[j].token
      BY <3>2 DEF EditAddress, InTable, TypeOK, Row
    <3>3. QED
      BY <1>8, <3>1, <3>2 DEF Inserts, Insert
  <2>3. QED
    BY <2>1, <2>2, TokenKept DEF serverVars
<1>9. ASSUME ImportStart \/ ImportLine \/ ImportCommit PROVE TokenInv'
  <2>1. UNCHANGED serverVars
    BY <1>9 DEF ImportStart, ImportLine, ImportCommit
  <2>2. \A j \in Id : InTable(j) => InTable(j)' /\ row'[j].token = row[j].token
    BY <1>9 DEF ImportStart, ImportLine, ImportCommit, Added, InTable, TypeOK, Row
  <2>3. QED
    BY <2>1, <2>2, TokenKept DEF serverVars
<1>10. ASSUME Restart PROVE TokenInv'
  BY <1>10 DEF Restart, TokenInv, LockInv, SeenInv, Inside
<1>11. CASE UNCHANGED vars
  BY <1>11, TokenKept DEF vars, InTable
<1>12. QED
  BY <1>1, <1>2, <1>3, <1>4, <1>5, <1>6, <1>7, <1>8, <1>9, <1>10, <1>11, NextSplit

LEMMA RestoreStep ==
    ASSUME TokenInv, [Next]_vars, NEW i \in Id, row[i].life = "deleted", row'[i].life = "live"
    PROVE  row'[i].token # row[i].token
<1> TypeOK
  BY DEF TokenInv
<1>1. PICK s \in Sender : Adopt(s) /\ loaded[s].id = i
  <2>1. ASSUME NEW s \in Sender, Adopt(s) PROVE loaded[s].id = i
    BY <2>1 DEF Adopt, TypeOK
  <2>2. ASSUME NEW s \in Sender, Create(s) PROVE FALSE
    BY <2>2 DEF Create, TypeOK
  <2>3. ASSUME NEW j \in Id, TouchedOtherwise(j) \/ DeleteDevice(j) PROVE FALSE
    BY <2>3 DEF TouchedOtherwise, DeleteDevice, TypeOK, Row
  <2>4. ASSUME NEW a \in Address, Inserts(a) \/ \E j \in Id : EditAddress(j, a) PROVE FALSE
    <3>1. CASE Inserts(a)
      BY <3>1 DEF Inserts, Insert, TypeOK
    <3>2. ASSUME NEW j \in Id, EditAddress(j, a) PROVE FALSE
      BY <3>2 DEF EditAddress, TypeOK, Row
    <3>3. QED
      BY <2>4, <3>1, <3>2
  <2>5. ASSUME ImportStart \/ ImportLine \/ ImportCommit PROVE FALSE
    BY <2>5 DEF ImportStart, ImportLine, ImportCommit, Added, TypeOK, BlankRow
  <2>6. ASSUME Restart PROVE FALSE
    <3>1. i \notin Purge /\ i \notin Added
      BY DEF Purge, Superseded, Added
    <3>2. row'[i] = row[i]
      BY <2>6, <3>1 DEF Restart
    <3>3. QED
      BY <3>2
  <2>7. row' # row
    OBVIOUS
  <2>8. ASSUME NEW m \in Machine, Install(m) \/ Uninstall(m) \/ \E a \in Address : Move(m, a)
        PROVE  FALSE
    BY <2>7, <2>8 DEF Install, Uninstall, Move
  <2>9. ASSUME NEW s \in Sender,
               \/ Beat(s) \/ Greet(s) \/ Answer(s) \/ Lose(s) \/ Enter(s)
               \/ FindById(s) \/ FindByIp(s) \/ Refresh(s) \/ Refuse(s)
        PROVE  FALSE
    BY <2>7, <2>9
       DEF Beat, Greet, Answer, Lose, Enter, FindById, FindByIp, Refresh, Refuse, Submit
  <2>10. Next
    BY <2>7 DEF vars
  <2>11. QED
    BY <2>1, <2>2, <2>3, <2>4, <2>5, <2>6, <2>8, <2>9, <2>10, NextSplit
<1>2. row'[i].token = asks[s].token
  BY <1>1 DEF Adopt, TypeOK
<1>3. loaded[s].token # asks[s].token
  BY <1>1 DEF Adopt, TokenMatches
<1>4. row[i].token = loaded[s].token
  BY <1>1 DEF Adopt, TokenInv, SeenInv
<1>5. QED
  BY <1>2, <1>3, <1>4

\* A soft-deleted device comes back only with a token it did not have: by the
\* lock no two requests can restore it from one reading.
THEOREM RestoredByReinstall == Safety => RestoredOnlyByReinstall
<1> DEFINE Restored == \A i \in Id : row[i].life = "deleted" /\ row'[i].life = "live"
                                        => row'[i].token # row[i].token
<1>1. TokenInv /\ [Next]_vars => [Restored]_vars
  BY RestoreStep
<1>2. QED
  BY <1>1, TokenInit, TokenStep, PTL DEF Safety, RestoredOnlyByReinstall

-----------------------------------------------------------------------------
(* One row per address, when rows come from heartbeats alone and machines  *)
(* keep their addresses.                                                   *)

HeartbeatsOnly == Bound["edits"] = 0 /\ Bound["moves"] = 0

\* Nothing but the row of an unknown machine is ever added to the table,
\* nothing is purged, and nobody moves.
Quiet == /\ count["edits"] = 0 /\ count["moves"] = 0
         /\ importing = "none"
         /\ addr = Home
         /\ \A i \in Id : row[i].life \in {"unused", "live", "deleted"}
         /\ \A p \in newer : p[1] # p[2]

\* Whoever refers to a row refers to one in the table that has the address of
\* the machine in question.
RowOf(i, a) == InTable(i) /\ row[i].ip = a

Saved == \A m \in Machine : cfg[m].id # NoId => RowOf(cfg[m].id, addr[m])

Asked == \A s \in Sender : at[s] # "idle" =>
            /\ asks[s].ip = addr[MachineOf[s]]
            /\ asks[s].id # NoId => RowOf(asks[s].id, asks[s].ip)

Found == \A s \in Sender : at[s] \in {"found", "answered"} => RowOf(loaded[s].id, asks[s].ip)

\* What a request did not find nobody adds before it does.
Absent == \A s \in Sender : at[s] = "unknown" => AtAddress(asks[s].ip) = {}

StaticInv == /\ TokenInv
             /\ Quiet
             /\ Saved
             /\ Asked
             /\ Found
             /\ Absent
             /\ OneRowPerAddress

LEMMA StaticInit == HeartbeatsOnly /\ Init => StaticInv
<1> SUFFICES ASSUME Init PROVE StaticInv
  OBVIOUS
<1>1. TokenInv
  BY TokenInit
<1>2. \A i \in Id : ~InTable(i)
  BY DEF Init, InTable, BlankRow
<1>3. Quiet
  BY DEF Init, Quiet, BlankRow, Counted
<1>4. Saved /\ Asked /\ Found /\ Absent
  BY DEF Init, Saved, Asked, Found, Absent, NotInstalled
<1>5. QED
  BY <1>1, <1>2, <1>3, <1>4 DEF StaticInv, OneRowPerAddress

\* Steps that change neither which rows are in the table nor their addresses.
SameTable == \A i \in Id : (InTable(i)' <=> InTable(i)) /\ row'[i].ip = row[i].ip

LEMMA SameTableKept ==
    ASSUME SameTable
    PROVE  /\ \A i \in Id, a \in Address : RowOf(i, a) => InTable(i)' /\ row'[i].ip = a
           /\ \A a \in Address : AtAddress(a) = {} =>
                 \A i \in Id : ~(InTable(i)' /\ row'[i].ip = a)
           /\ OneRowPerAddress => OneRowPerAddress'
  BY DEF SameTable, RowOf, AtAddress, OneRowPerAddress

LEMMA RefTypes ==
    ASSUME TypeOK
    PROVE  /\ \A m \in Machine : cfg[m].id \in Id \cup {NoId}
           /\ \A s \in Sender : asks[s].id \in Id \cup {NoId} /\ asks[s].ip \in Address
           /\ \A s \in Sender : at[s] \in {"found", "answered"} => loaded[s].id \in Id
  BY DEF TypeOK, Config, Payload

\* While rows stay in the table with their addresses, what refers to one of
\* them still does.
LEMMA SavedKept ==
    ASSUME TypeOK, Saved, addr' = addr,
           \A i \in Id : InTable(i) => InTable(i)' /\ row'[i].ip = row[i].ip,
           \A m \in Machine : cfg'[m].id \in {cfg[m].id, NoId}
    PROVE  Saved'
<1>1. ASSUME NEW m \in Machine, cfg'[m].id # NoId PROVE RowOf(cfg[m].id, addr[m])'
  <2>1. cfg'[m].id = cfg[m].id /\ cfg[m].id \in Id /\ RowOf(cfg[m].id, addr[m])
    BY <1>1, RefTypes DEF Saved
  <2>2. InTable(cfg[m].id)' /\ row'[cfg'[m].id].ip = addr'[m]
    BY <2>1 DEF RowOf, InTable
  <2>3. QED
    BY <2>2 DEF RowOf
<1>2. QED
  BY <1>1 DEF Saved

LEMMA AskedKept ==
    ASSUME TypeOK, Asked, addr' = addr,
           \A i \in Id : InTable(i) => InTable(i)' /\ row'[i].ip = row[i].ip,
           \A s \in Sender : at'[s] # "idle" =>
              at[s] # "idle" /\ asks'[s].ip = asks[s].ip /\ asks'[s].id = asks[s].id
    PROVE  Asked'
<1>1. ASSUME NEW s \in Sender, at'[s] # "idle"
      PROVE  /\ asks'[s].ip = addr'[MachineOf[s]]
             /\ asks'[s].id # NoId => RowOf(asks[s].id, asks[s].ip)'
  <2>1. /\ at[s] # "idle" /\ asks'[s].ip = asks[s].ip /\ asks'[s].id = asks[s].id
        /\ asks[s].ip = addr[MachineOf[s]]
        /\ asks[s].id # NoId => asks[s].id \in Id /\ RowOf(asks[s].id, asks[s].ip)
    BY <1>1, RefTypes DEF Asked
  <2>2. QED
    BY <2>1 DEF RowOf, InTable
<1>2. QED
  BY <1>1 DEF Asked

LEMMA FoundKept ==
    ASSUME TypeOK, Found,
           \A i \in Id : InTable(i) => InTable(i)' /\ row'[i].ip = row[i].ip,
           NEW s \in Sender, at[s] \in {"found", "answered"},
           loaded'[s].id = loaded[s].id, asks'[s].ip = asks[s].ip
    PROVE  RowOf(loaded[s].id, asks[s].ip)'
<1>1. loaded[s].id \in Id /\ RowOf(loaded[s].id, asks[s].ip)
  BY RefTypes DEF Found
<1>2. QED
  BY <1>1 DEF RowOf, InTable

\* The requests are as they were, or are given up; the configurations are as
\* they were, or are fresh.
LEMMA StaticKept ==
    ASSUME StaticInv, TokenInv', Quiet', SameTable,
           \A s \in Sender : at'[s] # "idle" =>
              at'[s] = at[s] /\ loaded'[s] = loaded[s]
              /\ asks'[s].ip = asks[s].ip /\ asks'[s].id = asks[s].id,
           \A m \in Machine : cfg'[m].id \in {cfg[m].id, NoId}
    PROVE  StaticInv'
<1> TypeOK /\ TypeOK' /\ addr' = addr /\ addr \in [Machine -> Address]
  BY DEF StaticInv, TokenInv, TypeOK, Quiet
<1>0. \A i \in Id : InTable(i) => InTable(i)' /\ row'[i].ip = row[i].ip
  BY DEF SameTable
<1>1. Saved'
  BY <1>0, SavedKept DEF StaticInv
<1>2. Asked'
  BY <1>0, AskedKept DEF StaticInv
<1>3. Found'
  BY <1>0, FoundKept DEF StaticInv, Found
<1>4. Absent'
  <2>1. ASSUME NEW s \in Sender, at'[s] = "unknown" PROVE (AtAddress(asks[s].ip) = {})'
    <3>1. AtAddress(asks[s].ip) = {} /\ asks'[s].ip = asks[s].ip /\ asks[s].ip \in Address
      BY <2>1 DEF StaticInv, Absent, TypeOK, Payload
    <3>2. QED
      BY <3>1, SameTableKept DEF AtAddress
  <2>2. QED
    BY <2>1 DEF Absent
<1>5. OneRowPerAddress'
  BY SameTableKept DEF StaticInv
<1>6. QED
  BY <1>1, <1>2, <1>3, <1>4, <1>5 DEF StaticInv

LEMMA TouchQuiet ==
    ASSUME NEW i \in Id, Touch(i), \A p \in newer : p[1] # p[2]
    PROVE  \A p \in newer' : p[1] # p[2]
  BY DEF Touch

\* Nothing is purged, since no two rows have one address.
LEMMA NothingPurged ==
    ASSUME StaticInv
    PROVE  Purge = {} /\ Added = {}
<1>1. \A i \in Id : ~Superseded(i)
  <2> SUFFICES ASSUME NEW i \in Id, NEW j \in Id, row[i].life = "live", row[j].life = "live",
                      row[j].ip = row[i].ip, <<j, i>> \in newer
               PROVE  FALSE
    BY DEF Superseded
  <2>1. j # i
    BY DEF StaticInv, Quiet
  <2>2. QED
    BY <2>1 DEF StaticInv, OneRowPerAddress, InTable
<1>2. QED
  BY <1>1 DEF Purge, Added, StaticInv, Quiet

LEMMA StaticStep ==
    ASSUME HeartbeatsOnly, StaticInv, [Next]_vars
    PROVE  StaticInv'
<1> TypeOK /\ TypeOK' /\ TokenInv /\ TokenInv'
  BY TokenStep DEF StaticInv, TokenInv
<1> DEFINE SameCount == count'["edits"] = count["edits"] /\ count'["moves"] = count["moves"]
<1>1. ASSUME NEW k \in Counted \ {"edits", "moves"}, Spend(k) PROVE SameCount
  BY <1>1 DEF Spend, TypeOK, Counted
<1>2. ~Spend("edits") /\ ~Spend("moves")
  BY DEF HeartbeatsOnly, Spend, StaticInv, Quiet
<1>3. ASSUME NEW m \in Machine, Install(m) \/ Uninstall(m) \/ \E a \in Address : Move(m, a)
      PROVE  StaticInv'
  <2>1. ~ \E a \in Address : Move(m, a)
    BY <1>2 DEF Move
  <2>2. UNCHANGED <<row, newer, addr, importing, at, loaded>> /\ Deafen(m) /\ SameCount
    BY <1>1, <1>3, <2>1 DEF Install, Uninstall, importVars, Counted
  <2>3. \A s \in Sender : asks'[s].ip = asks[s].ip /\ asks'[s].id = asks[s].id
    BY <2>2 DEF Deafen, TypeOK, Payload
  <2>4. \A n \in Machine : cfg'[n].id \in {cfg[n].id, NoId}
    <3>1. CASE Install(m)
      <4>1. PICK t : cfg' = [cfg EXCEPT ![m] = [on |-> TRUE, token |-> t, id |-> NoId,
                                                greet |-> TRUE]]
        BY <3>1 DEF Install
      <4> QED
        BY <4>1 DEF TypeOK
    <3>2. CASE Uninstall(m)
      BY <3>2 DEF Uninstall, NotInstalled, TypeOK
    <3> QED
      BY <1>3, <2>1, <3>1, <3>2
  <2>5. Quiet' /\ SameTable
    BY <2>2 DEF StaticInv, Quiet, SameTable, InTable
  <2>6. QED
    BY <2>2, <2>3, <2>4, <2>5, StaticKept
<1>4. ASSUME NEW s \in Sender, Beat(s) \/ Greet(s) PROVE StaticInv'
  <2> DEFINE m == MachineOf[s]
  <2>1. /\ m \in Machine /\ UNCHANGED <<row, newer, addr, importing, loaded, count>>
        /\ at' = [at EXCEPT ![s] = "waiting"]
    BY <1>4, MachineOfAssumption DEF Beat, Greet, Submit, importVars
  <2>2. /\ asks'[s].ip = addr[m] /\ asks'[s].id \in {cfg[m].id, NoId}
        /\ \A r \in Sender \ {s} : asks'[r] = asks[r]
    BY <1>4 DEF Beat, Greet, Submit, TypeOK
  <2>3. \A n \in Machine : cfg'[n].id = cfg[n].id
    <3>1. \A c \in Config : [c EXCEPT !.greet = FALSE].id = c.id
      BY DEF Config
    <3>2. cfg[m] \in Config /\ [cfg[m] EXCEPT !.greet = FALSE].id = cfg[m].id
      BY <2>1, <3>1 DEF TypeOK
    <3>3. CASE cfg' = [cfg EXCEPT ![m] = [cfg[m] EXCEPT !.greet = FALSE]]
      BY <3>2, <3>3 DEF TypeOK
    <3>4. CASE cfg' = cfg
      BY <3>4
    <3>5. QED
      BY <1>4, <3>3, <3>4 DEF Beat, Greet
  <2>4. Quiet' /\ OneRowPerAddress'
    BY <2>1 DEF StaticInv, Quiet, OneRowPerAddress, InTable
  <2>5. Saved'
    BY <2>1, <2>3 DEF StaticInv, Saved, RowOf, InTable
  <2>6. Asked'
    BY <2>1, <2>2 DEF StaticInv, Asked, Saved, RowOf, InTable, TypeOK
  <2>7. Found' /\ Absent'
    BY <2>1, <2>2 DEF StaticInv, Found, Absent, RowOf, InTable, AtAddress, TypeOK
  <2>8. QED
    BY <2>4, <2>5, <2>6, <2>7 DEF StaticInv
<1>5. ASSUME NEW s \in Sender, Answer(s) PROVE StaticInv'
  <2> DEFINE m == MachineOf[s]
  <2>1. /\ m \in Machine /\ UNCHANGED <<row, newer, addr, importing, count>>
        /\ at[s] = "answered" /\ at' = [at EXCEPT ![s] = "idle"]
        /\ asks' = [asks EXCEPT ![s] = BlankPayload]
        /\ loaded' = [loaded EXCEPT ![s] = BlankLoaded]
    BY <1>5, MachineOfAssumption DEF Answer, Drop, Goto, importVars
  <2>2. RowOf(loaded[s].id, addr[m])
    BY <2>1 DEF StaticInv, Found, Asked
  <2>3. Saved'
    <3>1. \A c \in Config : [c EXCEPT !.id = loaded[s].id].id = loaded[s].id
      BY DEF Config
    <3>2. cfg' = cfg \/ cfg' = [cfg EXCEPT ![m] = [cfg[m] EXCEPT !.id = loaded[s].id]]
      BY <1>5 DEF Answer
    <3>3. \A n \in Machine : cfg'[n].id = cfg[n].id \/ (n = m /\ cfg'[n].id = loaded[s].id)
      <4>1. cfg \in [Machine -> Config] /\ cfg[m] \in Config
        BY <2>1 DEF TypeOK
      <4>2. [cfg[m] EXCEPT !.id = loaded[s].id].id = loaded[s].id
        BY <3>1, <4>1
      <4>3. ASSUME NEW c, c.id = loaded[s].id, cfg' = [cfg EXCEPT ![m] = c],
                   NEW n \in Machine
            PROVE  cfg'[n].id = cfg[n].id \/ (n = m /\ cfg'[n].id = loaded[s].id)
        BY <2>1, <4>1, <4>3
      <4>4. CASE cfg' = cfg
        BY <4>4
      <4>5. CASE cfg' = [cfg EXCEPT ![m] = [cfg[m] EXCEPT !.id = loaded[s].id]]
        BY <4>2, <4>3, <4>5
      <4>6. QED
        BY <3>2, <4>4, <4>5
    <3>4. QED
      BY <2>1, <2>2, <3>3 DEF StaticInv, Saved, RowOf, InTable
  <2>4. Quiet' /\ OneRowPerAddress'
    BY <2>1 DEF StaticInv, Quiet, OneRowPerAddress, InTable
  <2>5. Asked' /\ Found' /\ Absent'
    BY <2>1 DEF StaticInv, Asked, Found, Absent, RowOf, InTable, AtAddress, TypeOK
  <2>6. QED
    BY <2>3, <2>4, <2>5 DEF StaticInv
<1>6. ASSUME NEW s \in Sender, Lose(s) \/ Refuse(s) PROVE StaticInv'
  <2>1. UNCHANGED <<row, newer, cfg, addr, importing>> /\ SameCount
    BY <1>1, <1>6 DEF Lose, Refuse, agentVars, importVars, Counted
  <2>2. Drop(s)
    BY <1>6 DEF Lose, Refuse
  <2>3. Quiet' /\ SameTable
    BY <2>1 DEF StaticInv, Quiet, SameTable, InTable
  <2>4. \A r \in Sender : at'[r] # "idle" => at'[r] = at[r] /\ loaded'[r] = loaded[r] /\ asks'[r] = asks[r]
    BY <2>2 DEF Drop, Goto, TypeOK
  <2>5. QED
    BY <2>1, <2>3, <2>4, StaticKept
<1>7. ASSUME NEW s \in Sender, Enter(s) \/ FindById(s) \/ FindByIp(s) PROVE StaticInv'
  <2>1. /\ UNCHANGED <<row, newer, cfg, addr, importing, asks, count>>
        /\ at[s] # "idle" /\ \E l \in Stage \ {"idle"} : at' = [at EXCEPT ![s] = l]
    BY <1>7 DEF Enter, FindById, FindByIp, Goto, agentVars, importVars, Stage
  <2>2. \A r \in Sender \ {s} : at'[r] = at[r] /\ loaded'[r] = loaded[r]
    BY <1>7, <2>1 DEF Enter, FindById, FindByIp, TypeOK
  <2>3. Quiet' /\ OneRowPerAddress' /\ Saved' /\ Asked'
    BY <2>1 DEF StaticInv, Quiet, OneRowPerAddress, Saved, Asked, RowOf, InTable, TypeOK
  <2>4. at'[s] \in {"found", "answered"} =>
           \E i \in Id : RowOf(i, asks[s].ip) /\ loaded'[s].id = i
    <3>1. CASE Enter(s)
      BY <3>1 DEF Enter, Goto, TypeOK
    <3>2. CASE FindById(s)
      <4>1. asks[s].id \in Id /\ asks[s].id # NoId
        BY <3>2, IdAssumption DEF FindById, TypeOK
      <4>2. RowOf(asks[s].id, asks[s].ip)
        BY <2>1, <4>1 DEF StaticInv, Asked
      <4>3. at'[s] = "found" => loaded'[s] = Identity(asks[s].id)
        BY <3>2 DEF FindById, Goto, TypeOK
      <4>4. at'[s] # "answered"
        BY <3>2 DEF FindById, Goto, TypeOK
      <4>5. QED
        BY <4>1, <4>2, <4>3, <4>4 DEF Identity
    <3>3. CASE FindByIp(s)
      <4>1. CASE Goto(s, "unknown")
        BY <4>1 DEF Goto, TypeOK
      <4>2. ASSUME NEW i \in AtAddress(asks[s].ip), loaded' = [loaded EXCEPT ![s] = Identity(i)]
            PROVE  RowOf(i, asks[s].ip) /\ loaded'[s].id = i
        BY <4>2 DEF AtAddress, RowOf, Identity, TypeOK
      <4>3. QED
        BY <3>3, <4>1, <4>2 DEF FindByIp, AtAddress
    <3>4. QED
      BY <1>7, <3>1, <3>2, <3>3
  <2>5. Found'
    BY <2>1, <2>2, <2>4 DEF StaticInv, Found, RowOf, InTable
  <2>6. at'[s] = "unknown" => AtAddress(asks[s].ip) = {}
    BY <1>7 DEF Enter, FindById, FindByIp, Goto, TypeOK
  <2>7. Absent'
    BY <2>1, <2>2, <2>6 DEF StaticInv, Absent, AtAddress, InTable
  <2>8. QED
    BY <2>3, <2>5, <2>7 DEF StaticInv
<1>8. ASSUME NEW s \in Sender, Refresh(s) \/ Adopt(s) PROVE StaticInv'
  <2> DEFINE r == loaded[s].id
  <2>1. /\ UNCHANGED <<cfg, addr, importing, asks, loaded, count>>
        /\ at[s] = "found" /\ at' = [at EXCEPT ![s] = "answered"] /\ Touch(r)
    BY <1>8 DEF Refresh, Adopt, Goto, agentVars, importVars
  <2>2. r \in Id /\ RowOf(r, asks[s].ip)
    BY <2>1 DEF StaticInv, Found, TypeOK
  <2>3. SameTable /\ \A i \in Id : row'[i].life \in {"unused", "live", "deleted"}
    <3>1. CASE Refresh(s)
      BY <3>1 DEF Refresh, StaticInv, Quiet, SameTable, InTable
    <3>2. CASE Adopt(s)
      <4>1. /\ row'[r].ip = asks[s].ip
            /\ row'[r].life \in {"live", row[r].life}
            /\ \A i \in Id \ {r} : row'[i] = row[i]
        BY <2>2, <3>2 DEF Adopt, RowOf, TypeOK
      <4>2. QED
        BY <2>2, <4>1 DEF StaticInv, Quiet, SameTable, RowOf, InTable
    <3>3. QED
      BY <1>8, <3>1, <3>2
  <2>4. Quiet'
    BY <2>1, <2>2, <2>3, TouchQuiet DEF StaticInv, Quiet
  <2>5. Saved' /\ Asked' /\ OneRowPerAddress'
    <3>1. \A i \in Id : InTable(i) => InTable(i)' /\ row'[i].ip = row[i].ip
      BY <2>3 DEF SameTable
    <3>2. \A q \in Sender : at'[q] # "idle" => at[q] # "idle"
      BY <2>1 DEF TypeOK
    <3>3. Saved' /\ Asked'
      BY <2>1, <3>1, <3>2, SavedKept, AskedKept DEF StaticInv
    <3>4. QED
      BY <2>3, <3>3, SameTableKept DEF StaticInv
  <2>6. Found'
    <3>1. \A i \in Id : InTable(i) => InTable(i)' /\ row'[i].ip = row[i].ip
      BY <2>3 DEF SameTable
    <3>2. \A q \in Sender : at'[q] \in {"found", "answered"} => at[q] \in {"found", "answered"}
      BY <2>1 DEF TypeOK
    <3>3. QED
      BY <2>1, <3>1, <3>2, FoundKept DEF StaticInv, Found
  <2>7. Absent'
    BY <2>1 DEF TokenInv, LockInv, Inside, Absent, TypeOK
  <2>8. QED
    BY <2>4, <2>5, <2>6, <2>7 DEF StaticInv
<1>9. ASSUME NEW s \in Sender, Create(s) PROVE StaticInv'
  <2>1. /\ UNCHANGED <<cfg, addr, importing, asks, count>>
        /\ at[s] = "unknown" /\ at' = [at EXCEPT ![s] = "answered"]
    BY <1>9 DEF Create, Goto, agentVars, importVars
  <2>2. PICK i \in Id : /\ row[i].life = "unused" /\ Touch(i)
                        /\ row' = [row EXCEPT ![i] = [life |-> "live", ip |-> asks[s].ip,
                                                      token |-> asks[s].token]]
                        /\ loaded' = [loaded EXCEPT ![s] = [id |-> i, life |-> "live",
                                         ip |-> asks[s].ip, token |-> asks[s].token]]
    BY <1>9 DEF Create
  <2>3. \A r \in Sender \ {s} : at'[r] = at[r] /\ loaded'[r] = loaded[r]
    BY <1>9, <2>1 DEF Create, TypeOK
  <2>4. /\ \A j \in Id \ {i} : row'[j] = row[j]
        /\ row'[i].life = "live" /\ row'[i].ip = asks[s].ip
    BY <2>2 DEF TypeOK
  <2>5. Quiet'
    BY <2>1, <2>2, <2>4, TouchQuiet DEF StaticInv, Quiet
  <2>6. \A j \in Id : InTable(j) => InTable(j)' /\ row'[j].ip = row[j].ip
    BY <2>2, <2>4 DEF InTable
  <2>7. Saved' /\ Asked'
    <3>1. \A q \in Sender : at'[q] # "idle" => at[q] # "idle"
      BY <2>1 DEF TypeOK
    <3>2. QED
      BY <2>1, <2>6, <3>1, SavedKept, AskedKept DEF StaticInv
  <2>8. Found'
    <3>1. loaded'[s].id = i /\ InTable(i)' /\ row'[i].ip = asks'[s].ip
      BY <2>1, <2>2, <2>4 DEF InTable, TypeOK
    <3>2. RowOf(loaded[s].id, asks[s].ip)'
      BY <3>1 DEF RowOf, InTable
    <3>3. \A q \in Sender \ {s} : at'[q] \in {"found", "answered"} =>
             RowOf(loaded[q].id, asks[q].ip)'
      BY <2>1, <2>3, <2>6, FoundKept DEF StaticInv
    <3>4. QED
      BY <3>2, <3>3 DEF Found
  <2>9. Absent'
    BY <2>1 DEF TokenInv, LockInv, Inside, Absent, TypeOK
  <2>10. OneRowPerAddress'
    <3>1. \A j \in Id : ~(InTable(j) /\ row[j].ip = asks[s].ip)
      BY <2>1 DEF StaticInv, Absent, AtAddress
    <3>2. QED
      BY <2>4, <3>1 DEF StaticInv, OneRowPerAddress, InTable
  <2>11. QED
    BY <2>5, <2>7, <2>8, <2>9, <2>10 DEF StaticInv
<1>10. ASSUME NEW i \in Id, TouchedOtherwise(i) \/ DeleteDevice(i) PROVE StaticInv'
  <2>1. UNCHANGED <<cfg, addr, importing, at, asks, loaded>> /\ SameCount
    BY <1>1, <1>10 DEF TouchedOtherwise, DeleteDevice, serverVars, agentVars, importVars, Counted
  <2>2. SameTable /\ \A j \in Id : row'[j].life \in {"unused", "live", "deleted"}
    <3>1. CASE row' = row
      BY <3>1 DEF StaticInv, Quiet, SameTable, InTable
    <3>2. CASE InTable(i) /\ row' = [row EXCEPT ![i] = [row[i] EXCEPT !.life = "deleted"]]
      <4>1. \A r \in Row : /\ [r EXCEPT !.life = "deleted"].life = "deleted"
                            /\ [r EXCEPT !.life = "deleted"].ip = r.ip
        BY DEF Row
      <4>2. /\ row'[i].life = "deleted" /\ row'[i].ip = row[i].ip
            /\ \A j \in Id \ {i} : row'[j] = row[j]
        BY <3>2, <4>1 DEF TypeOK
      <4>3. QED
        BY <3>2, <4>2 DEF StaticInv, Quiet, SameTable, InTable
    <3>3. QED
      BY <1>10, <3>1, <3>2 DEF TouchedOtherwise, DeleteDevice
  <2>3. \A p \in newer' : p[1] # p[2]
    BY <1>10, TouchQuiet DEF TouchedOtherwise, DeleteDevice, StaticInv, Quiet
  <2>4. Quiet'
    BY <2>1, <2>2, <2>3 DEF StaticInv, Quiet
  <2>5. QED
    BY <2>1, <2>2, <2>4, StaticKept
<1>11. ASSUME NEW a \in Address, Inserts(a) \/ \E i \in Id : EditAddress(i, a) PROVE FALSE
  BY <1>2, <1>11 DEF Inserts, Insert, EditAddress
<1>12. ASSUME ImportStart \/ ImportLine \/ ImportCommit PROVE FALSE
  BY <1>2, <1>12 DEF ImportStart, ImportLine, ImportCommit, StaticInv, Quiet
<1>13. ASSUME Restart PROVE StaticInv'
  <2>1. UNCHANGED <<cfg, addr>> /\ importing' = "none" /\ SameCount
    BY <1>1, <1>13 DEF Restart, agentVars, Counted
  <2>2. \A i \in Id : row'[i] = row[i]
    BY <1>13, NothingPurged DEF Restart
  <2>3. newer' \subseteq newer /\ \A s \in Sender : at'[s] = "idle"
    BY <1>13 DEF Restart
  <2>4. Quiet' /\ SameTable
    BY <2>1, <2>2, <2>3 DEF StaticInv, Quiet, SameTable, InTable
  <2>5. QED
    BY <2>1, <2>3, <2>4, StaticKept
<1>14. CASE UNCHANGED vars
  <2>1. Quiet' /\ SameTable
    BY <1>14 DEF vars, StaticInv, Quiet, SameTable, InTable
  <2>2. QED
    BY <1>14, <2>1, StaticKept DEF vars
<1>15. QED
  BY <1>3, <1>4, <1>5, <1>6, <1>7, <1>8, <1>9, <1>10, <1>11, <1>12, <1>13, <1>14, NextSplit

\* As long as rows come from heartbeats alone and machines keep their addresses
\* no two rows have one address, however many requests overlap, are lost or are
\* cut off by a restart, and whatever is deleted meanwhile.
THEOREM OneRow ==
    ASSUME HeartbeatsOnly
    PROVE  Safety => []OneRowPerAddress
<1>1. StaticInv /\ [Next]_vars => StaticInv'
  BY StaticStep
<1>2. Init => StaticInv
  BY StaticInit
<1>3. StaticInv => OneRowPerAddress
  BY DEF StaticInv
<1>4. QED
  BY <1>1, <1>2, <1>3, PTL DEF Safety

\* Under the same conditions, machines that differ in address never save the
\* id of one row.
THEOREM Distinct ==
    ASSUME HeartbeatsOnly, \A m, n \in Machine : m # n => Home[m] # Home[n]
    PROVE  Safety => []DistinctIdentities
<1>1. StaticInv /\ [Next]_vars => StaticInv'
  BY StaticStep
<1>2. Init => StaticInv
  BY StaticInit
<1>3. StaticInv => DistinctIdentities
  BY DEF StaticInv, Saved, RowOf, Quiet, DistinctIdentities
<1>4. QED
  BY <1>1, <1>2, <1>3, PTL DEF Safety

-----------------------------------------------------------------------------
(* ORDER BY last_heartbeat always has a first row, and a start keeps it.   *)

Used == {i \in Id : row[i].life \notin {"unused", "purged"}}

\* newer is a strict order in which every set of rows has a first one.
OrderInv ==
    /\ \A i, j \in Id : <<i, j>> \in newer => <<j, i>> \notin newer
    /\ \A S \in SUBSET Used : S # {} => \E i \in Id : Latest(i, S)

\* A row that is touched comes first in every set it belongs to.
LEMMA OrderTouched ==
    ASSUME OrderInv, NEW i \in Id, Touch(i), Used' \subseteq Used \cup {i}
    PROVE  OrderInv'
<1>1. /\ \A j \in Used \ {i} : <<i, j>> \in newer'
      /\ \A j, k \in Id \ {i} : <<j, k>> \in newer' <=> <<j, k>> \in newer
      /\ \A j \in Id : <<j, i>> \notin newer'
  BY DEF Touch, Used
<1>2. \A j, k \in Id : <<j, k>> \in newer' => <<k, j>> \notin newer'
  BY <1>1 DEF OrderInv
<1>3. ASSUME NEW S \in SUBSET Used', S # {}
      PROVE  \E j \in Id : Latest(j, S)'
  <2>1. CASE i \in S
    BY <1>1, <2>1 DEF Latest
  <2>2. CASE i \notin S
    <3>1. S \in SUBSET Used
      BY <2>2
    <3>2. PICK j \in Id : Latest(j, S)
      BY <1>3, <3>1 DEF OrderInv
    <3>3. Latest(j, S)'
      BY <1>1, <2>2, <3>1, <3>2 DEF Latest, Used
    <3>4. QED
      BY <3>3
  <2>3. QED
    BY <2>1, <2>2
<1>4. QED
  BY <1>2, <1>3 DEF OrderInv

\* Rows that go take their place in the order with them.
LEMMA OrderWithout ==
    ASSUME OrderInv, NEW G, newer' = {p \in newer : G \cap {p[1], p[2]} = {}},
           Used' \subseteq Used \ G
    PROVE  OrderInv'
<1>1. \A j, k \in Id : <<j, k>> \in newer' <=> <<j, k>> \in newer /\ j \notin G /\ k \notin G
  OBVIOUS
<1>2. \A j, k \in Id : <<j, k>> \in newer' => <<k, j>> \notin newer'
  BY <1>1 DEF OrderInv
<1>3. ASSUME NEW S \in SUBSET Used', S # {}
      PROVE  \E j \in Id : Latest(j, S)'
  <2>1. PICK j \in Id : Latest(j, S)
    BY <1>3 DEF OrderInv
  <2>2. Latest(j, S)'
    BY <1>1, <2>1 DEF Latest, Used
  <2>3. QED
    BY <2>2
<1>4. QED
  BY <1>2, <1>3 DEF OrderInv

LEMMA OrderSame ==
    ASSUME OrderInv, newer' = newer, Used' \subseteq Used
    PROVE  OrderInv'
<1>1. \A i, S : Latest(i, S)' <=> Latest(i, S)
  BY DEF Latest
<1>2. QED
  BY <1>1 DEF OrderInv

LEMMA OrderStep == TypeOK /\ OrderInv /\ [Next]_vars => OrderInv'
<1> SUFFICES ASSUME TypeOK, OrderInv, [Next]_vars PROVE OrderInv'
  OBVIOUS
<1>1. ASSUME UNCHANGED <<row, newer>> PROVE OrderInv'
  BY <1>1, OrderSame DEF Used
<1>2. ASSUME NEW s \in Sender, Refresh(s) \/ Adopt(s) PROVE OrderInv'
  <2> DEFINE i == loaded[s].id
  <2>1. i \in Id /\ Touch(i)
    BY <1>2 DEF TypeOK, Refresh, Adopt
  <2>2. \A j \in Id \ {i} : row'[j] = row[j]
    BY <1>2 DEF TypeOK, Refresh, Adopt
  <2>3. Used' \subseteq Used \cup {i}
    BY <2>2 DEF Used
  <2>4. QED
    BY <2>1, <2>3, OrderTouched
<1>3. ASSUME NEW s \in Sender, Create(s) PROVE OrderInv'
  <2>1. PICK i \in Id : /\ Touch(i)
                        /\ row' = [row EXCEPT ![i] = [life |-> "live", ip |-> asks[s].ip,
                                                      token |-> asks[s].token]]
    BY <1>3 DEF Create
  <2>2. Used' \subseteq Used \cup {i}
    BY <2>1 DEF Used, TypeOK
  <2>3. QED
    BY <2>1, <2>2, OrderTouched
<1>4. ASSUME NEW i \in Id, TouchedOtherwise(i) PROVE OrderInv'
  BY <1>4, OrderTouched DEF TouchedOtherwise, Used
<1>5. ASSUME NEW i \in Id, DeleteDevice(i) PROVE OrderInv'
  <2>1. InTable(i) /\ \A j \in Id \ {i} : row'[j] = row[j]
    BY <1>5 DEF DeleteDevice, TypeOK
  <2>2. newer' = newer /\ Used' \subseteq Used
    BY <1>5, <2>1 DEF DeleteDevice, Used, InTable
  <2>3. QED
    BY <2>2, OrderSame
<1>6. ASSUME NEW a \in Address, Inserts(a) PROVE OrderInv'
  <2>1. PICK i \in Id, t \in {0, 0 - count'["edits"]} :
            /\ Touch(i)
            /\ row' = [row EXCEPT ![i] = [life |-> "live", ip |-> a, token |-> t]]
    BY <1>6 DEF Inserts, Insert
  <2>2. Used' \subseteq Used \cup {i}
    BY <2>1 DEF Used, TypeOK
  <2>3. QED
    BY <2>1, <2>2, OrderTouched
<1>7. ASSUME NEW a \in Address, NEW i \in Id, EditAddress(i, a) PROVE OrderInv'
  <2>1. InTable(i) /\ \A j \in Id \ {i} : row'[j] = row[j]
    BY <1>7 DEF EditAddress, TypeOK
  <2>2. newer' = newer /\ Used' \subseteq Used
    BY <1>7, <2>1 DEF EditAddress, Used, InTable
  <2>3. QED
    BY <2>2, OrderSame
<1>8. CASE ImportLine
  <2>1. ASSUME NEW i \in Id, Touch(i),
               row' = [row EXCEPT ![i] = [life |-> "added", ip |-> Head(list), token |-> 0]]
        PROVE  OrderInv'
    <3>1. Used' \subseteq Used \cup {i}
      BY <2>1 DEF Used, TypeOK
    <3>2. QED
      BY <2>1, <3>1, OrderTouched
  <2>2. ASSUME row' = [i \in Id |-> IF i \in Added THEN BlankRow ELSE row[i]],
               newer' = {p \in newer : Added \cap {p[1], p[2]} = {}}
        PROVE  OrderInv'
    <3>1. Used' \subseteq Used \ Added
      BY <2>2 DEF Used, BlankRow
    <3>2. QED
      BY <2>2, <3>1, OrderWithout
  <2>3. QED
    BY <1>1, <1>8, <2>1, <2>2 DEF ImportLine
<1>9. CASE ImportCommit
  <2>1. Used' \subseteq Used
    BY <1>9 DEF ImportCommit, Used, Added
  <2>2. QED
    BY <1>9, <2>1, OrderSame DEF ImportCommit
<1>10. CASE Restart
  <2>1. Used' \subseteq Used \ (Purge \cup Added)
    BY <1>10 DEF Restart, Used, BlankRow
  <2>2. QED
    BY <1>10, <2>1, OrderWithout DEF Restart
<1>11. QED
  BY <1>1, <1>2, <1>3, <1>4, <1>5, <1>6, <1>7, <1>8, <1>9, <1>10, NextSplit
     DEF Install, Uninstall, Move, Beat, Greet, Submit, Answer, Lose, Enter, FindById,
         FindByIp, Refuse, ImportStart, vars

LEMMA OrderAlways == Safety => []OrderInv
<1>1. Init => OrderInv
  BY DEF Init, OrderInv, Used, BlankRow
<1>2. QED
  BY <1>1, OrderStep, TypeCorrect, PTL DEF Safety

\* The row that a start keeps of the live rows of an address is the one that
\* ORDER BY puts first: it is not superseded, and every other one is.
LEMMA FirstIsKept ==
    ASSUME TypeOK, OrderInv, NEW a \in Address,
           {i \in Id : row[i].life = "live" /\ row[i].ip = a} # {}
    PROVE  \E k \in Id : {i \in Id : row[i].life = "live" /\ row[i].ip = a} \ Purge = {k}
<1> DEFINE S == {i \in Id : row[i].life = "live" /\ row[i].ip = a}
<1>1. S \in SUBSET Used
  BY DEF Used
<1>2. PICK k \in Id : Latest(k, S)
  BY <1>1 DEF OrderInv
<1>3. k \in S \ Purge
  <2>1. ASSUME NEW j \in Id, row[j].life = "live", row[j].ip = row[k].ip, <<j, k>> \in newer
        PROVE  FALSE
    BY <1>2, <2>1 DEF Latest, OrderInv
  <2>2. QED
    BY <1>2, <2>1 DEF Latest, Purge, Superseded
<1>4. \A j \in S \ {k} : j \in Purge
  BY <1>2 DEF Latest, Purge, Superseded
<1>5. QED
  BY <1>3, <1>4

\* Whatever rows the console, imports and heartbeats have made, after a start
\* an address that had live rows has exactly one of them, and the deleted rows
\* are as they were.
THEOREM OneRowKept == Safety => RestartKeepsOneRow
<1> DEFINE Was(life, a) == {i \in Id : row[i].life = life /\ row[i].ip = a}
           Is(life, a) == {i \in Id : row'[i].life = life /\ row'[i].ip = a}
           Keeps == Restart => \A a \in Address :
                       /\ Was("live", a) # {} => Cardinality(Is("live", a)) = 1
                       /\ Is("live", a) \subseteq Was("live", a)
                       /\ Is("deleted", a) = Was("deleted", a)
<1>1. TypeOK /\ OrderInv /\ [Next]_vars => Keeps
  <2> SUFFICES ASSUME TypeOK, OrderInv, Restart, NEW a \in Address
               PROVE  /\ Was("live", a) # {} => Cardinality(Is("live", a)) = 1
                      /\ Is("live", a) \subseteq Was("live", a)
                      /\ Is("deleted", a) = Was("deleted", a)
    OBVIOUS
  <2>1. \A i \in Id : \/ i \in Purge \cup Added /\ row'[i].life \in {"unused", "purged"}
                      \/ i \notin Purge \cup Added /\ row'[i] = row[i]
    BY DEF Restart, BlankRow
  <2>2. \A i \in Purge : row[i].life = "live"
    BY DEF Purge, Superseded
  <2>3. \A i \in Added : row[i].life = "added"
    BY DEF Added
  <2>4. Is("live", a) = Was("live", a) \ Purge
    BY <2>1, <2>3
  <2>5. Is("deleted", a) = Was("deleted", a)
    BY <2>1, <2>2, <2>3
  <2>6. ASSUME Was("live", a) # {} PROVE Cardinality(Is("live", a)) = 1
    <3>1. PICK k \in Id : Is("live", a) = {k}
      BY <2>4, <2>6, FirstIsKept
    <3>2. Cardinality({k}) = 1
      BY FS_Singleton
    <3>3. QED
      BY <3>1, <3>2
  <2>7. QED
    BY <2>4, <2>5, <2>6
<1>2. TypeOK /\ OrderInv /\ [Next]_vars => [Keeps]_vars
  BY <1>1
<1>3. QED
  BY <1>2, TypeCorrect, OrderAlways, PTL DEF Safety, RestartKeepsOneRow

-----------------------------------------------------------------------------
(* DeviceRegistry implements RegistryPromise.                              *)

LEMMA KnownIs ==
    ASSUME OneRowPerAddress, NEW a \in Address, NEW i \in Id, RowOf(i, a)
    PROVE  KnownAs(a) = i
<1>1. \A j \in Id : InTable(j) /\ row[j].ip = a => j = i
  BY DEF OneRowPerAddress, RowOf
<1>2. InTable(i) /\ row[i].ip = a
  BY DEF RowOf
<1>3. QED
  BY <1>1, <1>2 DEF KnownAs

LEMMA KnownIsAfter ==
    ASSUME OneRowPerAddress', NEW a \in Address, NEW i \in Id, RowOf(i, a)'
    PROVE  KnownAs(a)' = i
<1>1. \A j \in Id : InTable(j)' /\ row'[j].ip = a => j = i
  BY DEF OneRowPerAddress, RowOf
<1>2. InTable(i)' /\ row'[i].ip = a
  BY DEF RowOf
<1>3. QED
  BY <1>1, <1>2 DEF KnownAs

LEMMA KnownKept ==
    ASSUME OneRowPerAddress, OneRowPerAddress', NEW a \in Address,
           \A i \in Id : RowOf(i, a)' <=> RowOf(i, a)
    PROVE  KnownAs(a)' = KnownAs(a)
<1>1. CASE \E i \in Id : RowOf(i, a)
  BY <1>1, KnownIs, KnownIsAfter
<1>2. CASE ~ \E i \in Id : RowOf(i, a)
  <2>1. ~ \E i \in Id : RowOf(i, a)'
    BY <1>2
  <2>2. QED
    BY <1>2, <2>1 DEF KnownAs, RowOf, InTable
<1>3. QED
  BY <1>1, <1>2

\* What the promise does not see: no row enters or leaves the table or changes
\* its address, and no agent learns or forgets an id.
LEMMA PromiseStutter ==
    ASSUME OneRowPerAddress, OneRowPerAddress',
           \A i \in Id : (InTable(i)' <=> InTable(i)) /\ row'[i].ip = row[i].ip,
           \A m \in Machine : cfg'[m].id = cfg[m].id
    PROVE  UNCHANGED Promise!vars
<1>1. \A a \in Address, i \in Id : RowOf(i, a)' <=> RowOf(i, a)
  BY DEF RowOf, InTable
<1>2. \A a \in Address : KnownAs(a)' = KnownAs(a)
  BY <1>1, KnownKept
<1>3. QED
  BY <1>2 DEF Promise!vars

LEMMA RegistryPromiseStep ==
    ASSUME HeartbeatsOnly, StaticInv, [Next]_vars
    PROVE  [Promise!Next]_(Promise!vars)
<1> /\ TypeOK /\ TypeOK' /\ addr = Home
    /\ OneRowPerAddress /\ OneRowPerAddress' /\ StaticInv'
  BY TypeStep, StaticStep DEF StaticInv, TokenInv, Quiet
<1>1. ~Spend("edits") /\ ~Spend("moves")
  BY DEF HeartbeatsOnly, Spend, StaticInv, Quiet
<1>2. ASSUME UNCHANGED row PROVE \A i \in Id : (InTable(i)' <=> InTable(i)) /\ row'[i].ip = row[i].ip
  BY <1>2 DEF InTable
<1>3. ASSUME UNCHANGED row PROVE \A a \in Address : KnownAs(a)' = KnownAs(a)
  BY <1>3 DEF KnownAs, InTable
<1>4. ASSUME NEW m \in Machine, Install(m) \/ Uninstall(m) PROVE Promise!Forget(m)
  <2>1. UNCHANGED row /\ \E c \in {d \in Config : d.id = NoId} : cfg' = [cfg EXCEPT ![m] = c]
    <3>1. CASE Install(m)
      <4>1. cfg'[m] \in Config /\ cfg'[m].id = NoId /\ cfg' = [cfg EXCEPT ![m] = cfg'[m]]
        BY <3>1 DEF Install, TypeOK
      <4>2. QED
        BY <3>1, <4>1 DEF Install
    <3>2. CASE Uninstall(m)
      BY <3>2, BlankTypes DEF Uninstall, NotInstalled
    <3>3. QED
      BY <1>4, <3>1, <3>2
  <2>2. cfg'[m].id = NoId /\ \A n \in Machine \ {m} : cfg'[n].id = cfg[n].id
    BY <2>1 DEF TypeOK
  <2>3. QED
    BY <1>3, <2>1, <2>2 DEF Promise!Forget
<1>5. ASSUME NEW m \in Machine, NEW a \in Address, Move(m, a) PROVE FALSE
  BY <1>1, <1>5 DEF Move
<1>6. ASSUME NEW s \in Sender, Answer(s) PROVE Promise!Next \/ UNCHANGED Promise!vars
  <2>1. PICK m \in Machine : m = MachineOf[s]
    BY MachineOfAssumption
  <2>2. PICK i \in Id : i = loaded[s].id /\ RowOf(i, Home[m])
    BY <1>6, <2>1 DEF Answer, StaticInv, Found, Asked, TypeOK
  <2>3. KnownAs(Home[m]) = i /\ Home[m] \in Address
    BY <2>2, KnownIs, HomeAssumption
  <2>4. UNCHANGED row
    BY <1>6 DEF Answer
  <2>5. CASE cfg' = cfg
    BY <1>3, <2>4, <2>5 DEF Promise!vars
  <2>6. CASE cfg' = [cfg EXCEPT ![m].id = i]
    <3>1. cfg'[m].id = i /\ \A n \in Machine \ {m} : cfg'[n].id = cfg[n].id
      BY <2>6 DEF TypeOK, Config
    <3>2. Promise!Learn(m)
      BY <1>3, <2>3, <2>4, <3>1, IdAssumption DEF Promise!Learn
    <3>3. QED
      BY <3>2 DEF Promise!Next
  <2>7. QED
    BY <1>6, <2>1, <2>2, <2>5, <2>6 DEF Answer
<1>7. ASSUME NEW s \in Sender, Create(s) PROVE Promise!Next
  <2>1. PICK a \in Address : a = asks[s].ip
    BY RefTypes
  <2>2. PICK i \in Id : /\ row[i].life = "unused"
                        /\ row' = [row EXCEPT ![i] = [life |-> "live", ip |-> a,
                                                      token |-> asks[s].token]]
    BY <1>7, <2>1 DEF Create
  <2>3. /\ \A j \in Id \ {i} : row'[j] = row[j]
        /\ row'[i].life = "live" /\ row'[i].ip = a
    BY <2>2 DEF TypeOK
  <2>4. KnownAs(a)' = i
    BY <2>3, KnownIsAfter DEF RowOf, InTable
  <2>5. KnownAs(a) = NoId
    BY <1>7, <2>1 DEF Create, StaticInv, Absent, AtAddress, KnownAs
  <2>6. ASSUME NEW b \in Address \ {a} PROVE KnownAs(b)' = KnownAs(b)
    <3>1. \A j \in Id : RowOf(j, b)' <=> RowOf(j, b)
      BY <2>2, <2>3 DEF RowOf, InTable
    <3>2. QED
      BY <3>1, KnownKept
  <2>7. ASSUME NEW b \in Address, KnownAs(b) = i PROVE FALSE
    <3>1. ~InTable(i)
      BY <2>2 DEF InTable
    <3>2. CASE \E j \in Id : RowOf(j, b)
      BY <2>7, <3>1, <3>2, KnownIs DEF RowOf
    <3>3. CASE ~ \E j \in Id : RowOf(j, b)
      BY <2>7, <3>3, IdAssumption DEF KnownAs, RowOf
    <3>4. QED
      BY <3>2, <3>3
  <2>8. Promise!Register(a)
    <3>1. i \in Id \ {KnownAs(b) : b \in Address}
      BY <2>7
    <3>2. [b \in Address |-> KnownAs(b)'] = [[b \in Address |-> KnownAs(b)] EXCEPT ![a] = i]
      BY <2>4, <2>6
    <3>3. UNCHANGED cfg
      BY <1>7 DEF Create, agentVars
    <3>4. \A b \in Address : [c \in Address |-> KnownAs(c)][b] = KnownAs(b)
      OBVIOUS
    <3>5. QED
      BY <2>5, <3>1, <3>2, <3>3, <3>4 DEF Promise!Register
  <2>9. QED
    BY <2>8 DEF Promise!Next
<1>8. ASSUME NEW s \in Sender, Adopt(s) PROVE UNCHANGED Promise!vars
  <2>1. PICK i \in Id : i = loaded[s].id /\ RowOf(i, asks[s].ip)
    BY <1>8 DEF Adopt, StaticInv, Found, TypeOK
  <2>2. /\ row'[i].ip = row[i].ip /\ row'[i].life \in {"live", row[i].life}
        /\ \A j \in Id \ {i} : row'[j] = row[j]
    BY <1>8, <2>1 DEF Adopt, RowOf, TypeOK
  <2>3. \A j \in Id : (InTable(j)' <=> InTable(j)) /\ row'[j].ip = row[j].ip
    BY <2>1, <2>2 DEF RowOf, InTable
  <2>4. QED
    BY <1>8, <2>3, PromiseStutter DEF Adopt, agentVars
<1>9. ASSUME NEW i \in Id, DeleteDevice(i) PROVE UNCHANGED Promise!vars
  <2>1. \A r \in Row : [r EXCEPT !.life = "deleted"].ip = r.ip
                       /\ [r EXCEPT !.life = "deleted"].life = "deleted"
    BY DEF Row
  <2>2. /\ row'[i].ip = row[i].ip /\ row'[i].life = "deleted" /\ InTable(i)
        /\ \A j \in Id \ {i} : row'[j] = row[j]
    BY <1>9, <2>1 DEF DeleteDevice, TypeOK
  <2>3. \A j \in Id : (InTable(j)' <=> InTable(j)) /\ row'[j].ip = row[j].ip
    BY <2>2 DEF InTable
  <2>4. QED
    BY <1>9, <2>3, PromiseStutter DEF DeleteDevice, agentVars
<1>10. ASSUME UNCHANGED row, \A m \in Machine : cfg'[m].id = cfg[m].id
       PROVE  UNCHANGED Promise!vars
  BY <1>2, <1>10, PromiseStutter
<1>11. ASSUME NEW s \in Sender, Greet(s) PROVE UNCHANGED Promise!vars
  <2>1. \A c \in Config : [c EXCEPT !.greet = FALSE].id = c.id
    BY DEF Config
  <2>2. \A m \in Machine : cfg'[m].id = cfg[m].id
    BY <1>11, <2>1 DEF Greet, TypeOK
  <2>3. QED
    BY <1>10, <1>11, <2>2 DEF Greet, Submit
<1>12. ASSUME NEW s \in Sender,
              \/ Beat(s) \/ Lose(s) \/ Enter(s) \/ FindById(s) \/ FindByIp(s)
              \/ Refresh(s) \/ Refuse(s)
       PROVE  UNCHANGED Promise!vars
  <2>1. UNCHANGED <<row, cfg>>
    BY <1>12 DEF Beat, Submit, Lose, Enter, FindById, FindByIp, Refresh, Refuse, agentVars
  <2>2. QED
    BY <1>10, <2>1
<1>13. ASSUME NEW i \in Id, TouchedOtherwise(i) PROVE UNCHANGED Promise!vars
  BY <1>10, <1>13 DEF TouchedOtherwise, agentVars
<1>14. ASSUME NEW a \in Address, Inserts(a) \/ \E i \in Id : EditAddress(i, a) PROVE FALSE
  BY <1>1, <1>14 DEF Inserts, Insert, EditAddress
<1>15. ASSUME ImportStart \/ ImportLine \/ ImportCommit PROVE FALSE
  BY <1>1, <1>15 DEF ImportStart, ImportLine, ImportCommit, StaticInv, Quiet
<1>16. CASE Restart
  <2>1. \A i \in Id : row'[i] = row[i]
    BY <1>16, NothingPurged DEF Restart
  <2>2. \A i \in Id : (InTable(i)' <=> InTable(i)) /\ row'[i].ip = row[i].ip
    BY <2>1 DEF InTable
  <2>3. QED
    BY <1>16, <2>2, PromiseStutter DEF Restart, agentVars
<1>17. CASE UNCHANGED vars
  BY <1>10, <1>17 DEF vars
<1>18. QED
  <2>1. ASSUME NEW m \in Machine, Install(m) \/ Uninstall(m) PROVE Promise!Next
    BY <1>4, <2>1 DEF Promise!Next
  <2>2. QED
    BY <1>5, <1>6, <1>7, <1>8, <1>9, <1>11, <1>12, <1>13, <1>14, <1>15, <1>16, <1>17,
       <2>1, NextSplit

\* With rows that come from heartbeats alone and machines that keep their
\* addresses, registration is as good as atomic: an address has one id, for
\* good, and its agents are told no other.
THEOREM RegistryPromiseKept ==
    ASSUME HeartbeatsOnly
    PROVE  Safety => KeepsPromise
<1>1. StaticInv /\ [Next]_vars => StaticInv' /\ [Promise!Next]_(Promise!vars)
  BY StaticStep, RegistryPromiseStep
<1>2. Init => StaticInv
  BY StaticInit
<1>3. Init => Promise!Init
  <2>1. Init => \A i \in Id : ~InTable(i)
    BY DEF Init, InTable, BlankRow
  <2>2. QED
    BY <2>1 DEF Init, KnownAs, NotInstalled, Promise!Init
<1>4. QED
  BY <1>1, <1>2, <1>3, PTL DEF Safety, KeepsPromise, Promise!Spec

-----------------------------------------------------------------------------
(* The registration lock comes free: what AgentIsRecognised rests on, for    *)
(* any number of rows and requests.                                          *)

\* The lock is with a request that is being worked on, and no other request is.
Held == /\ LockInv
        /\ lock # NoSender => at[lock] \in Inside

\* What the handler of a request does next, wherever it has come to: its
\* query by address has a first row or none, and a row that it found can be
\* refreshed, taken over or refused.
Goes(s) ==
    CASE at[s] = "byIp" -> \/ AtAddress(asks[s].ip) = {}
                           \/ \E i \in Id : Latest(i, AtAddress(asks[s].ip))
      [] at[s] = "found" -> InTable(loaded[s].id)
      [] OTHER -> TRUE

\* Only a request that is being worked on holds the registration lock, and
\* nothing that was edited, imported or deleted meanwhile leaves its handler
\* without a next step.
LockComesFree == lock # NoSender => at[lock] \in Inside /\ Goes(lock)

LEMMA HeldStep == TypeOK /\ Held /\ [Next]_vars => Held'
<1> SUFFICES ASSUME TypeOK, Held, [Next]_vars PROVE Held'
  OBVIOUS
<1> USE NoSenderAssumption DEF Held, LockInv, Inside, TypeOK, Goto, Drop
<1>1. ASSUME NEW m \in Machine, Install(m) \/ Uninstall(m) \/ \E a \in Address : Move(m, a)
      PROVE  Held'
  BY <1>1 DEF Install, Uninstall, Move
<1>2. ASSUME NEW s \in Sender, Beat(s) \/ Greet(s) \/ Answer(s) PROVE Held'
  BY <1>2 DEF Beat, Greet, Answer, Submit
<1>3. ASSUME NEW s \in Sender, Lose(s) \/ Refuse(s) PROVE Held'
  BY <1>3 DEF Lose, Refuse
<1>4. ASSUME NEW s \in Sender, Enter(s) PROVE Held'
  BY <1>4 DEF Enter
<1>5. ASSUME NEW s \in Sender, FindById(s) \/ FindByIp(s) PROVE Held'
  BY <1>5 DEF FindById, FindByIp
<1>6. ASSUME NEW s \in Sender, Refresh(s) \/ Adopt(s) \/ Create(s) PROVE Held'
  BY <1>6 DEF Refresh, Adopt, Create
<1>7. ASSUME NEW i \in Id, TouchedOtherwise(i) \/ DeleteDevice(i) PROVE Held'
  BY <1>7 DEF TouchedOtherwise, DeleteDevice, serverVars
<1>8. ASSUME NEW a \in Address, Inserts(a) \/ \E i \in Id : EditAddress(i, a) PROVE Held'
  BY <1>8 DEF Inserts, Insert, EditAddress, serverVars
<1>9. ASSUME ImportStart \/ ImportLine \/ ImportCommit PROVE Held'
  BY <1>9 DEF ImportStart, ImportLine, ImportCommit, serverVars
<1>10. ASSUME Restart PROVE Held'
  BY <1>10 DEF Restart
<1>11. CASE UNCHANGED vars
  BY <1>11 DEF vars, serverVars
<1> QED
  BY <1>1, <1>2, <1>3, <1>4, <1>5, <1>6, <1>7, <1>8, <1>9, <1>10, <1>11, NextSplit

\* No request dies with the lock, and none is stuck with it: not even one whose
\* row was edited, deleted or joined by others after it was looked up.
THEOREM LockNotKept == Safety => []LockComesFree
<1>1. Init => Held
  BY DEF Init, Held, LockInv, Inside
<1>2. TypeOK /\ Held /\ TokenInv /\ OrderInv => LockComesFree
  <2> SUFFICES ASSUME TypeOK, Held, TokenInv, OrderInv, NEW s \in Sender, lock = s
               PROVE  at[s] \in Inside /\ Goes(s)
    BY DEF LockComesFree, TypeOK
  <2>1. at[s] \in Inside
    BY NoSenderAssumption DEF Held
  <2>2. ASSUME at[s] = "byIp", AtAddress(asks[s].ip) # {}
        PROVE  \E i \in Id : Latest(i, AtAddress(asks[s].ip))
    <3>1. AtAddress(asks[s].ip) \in SUBSET Used
      BY DEF AtAddress, Used, InTable
    <3> QED BY <2>2, <3>1 DEF OrderInv
  <2>3. at[s] = "found" => InTable(loaded[s].id)
    BY DEF TokenInv, SeenInv
  <2> QED BY <2>1, <2>2, <2>3 DEF Goes
<1>3. Init => TokenInv
  BY TokenInit
<1> QED BY <1>1, <1>2, <1>3, HeldStep, TokenStep, OrderAlways, TypeCorrect, PTL DEF Safety
=============================================================================
