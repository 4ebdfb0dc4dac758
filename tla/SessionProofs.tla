--------------------------- MODULE SessionProofs ---------------------------
(***************************************************************************)
(* For any number of databases and of changes: no statement runs on        *)
(* objects that were deleted or that belong to another database, and a     *)
(* database that is left is saved.                                         *)
(***************************************************************************)
EXTENDS Session, TLAPS

\* What makes the properties inductive: an open database has a pool; between
\* the two halves of USE the executor is bound to nothing; a statement that
\* changes was read with room for the change.
OpenHasPool == is_open => HasPool
OpeningIsUnbound == statement.kind = "open" => executor = "unbound"
RoomForChange == statement.kind = "change" /\ HasPool => pool.changes < MaxChanges

\* Only a failure leaves a pool nothing knows of.
PoolIsKnown ==
  ~failed => /\ HasPool => is_open
             /\ statement.kind = "open" => ~HasPool

Inv ==
  /\ TypeOK /\ OpenHasPool /\ OpeningIsUnbound /\ RoomForChange
  /\ PoolIsKnown /\ BoundToWhatIsOpen /\ EngineIsThere

PoolType == [db : Db, changes : 0 .. MaxChanges, unsaved : BOOLEAN, attached : BOOLEAN]

LEMMA PoolFacts ==
  ASSUME TypeOK
  PROVE  /\ HasPool <=> pool \in PoolType
         /\ ~HasPool => pool.db \notin Db
<1>1. \A p \in PoolType : p.db \in Db
  BY DEF PoolType
<1>2. NoPool.db = "none"
  BY DEF NoPool
<1>3. NoPool \notin PoolType
  BY <1>1, <1>2, SessionAssumption
<1> QED BY <1>2, <1>3, SessionAssumption DEF TypeOK, HasPool, PoolType

LEMMA StatementFacts ==
  ASSUME TypeOK
  PROVE  /\ statement.kind \in {"use", "create", "drop", "open"} => statement.db \in Db
         /\ statement = Prompt <=> statement.kind = "prompt"
<1>1. \A d \in [kind : {"use", "create", "drop"}, db : Db] : d.kind # "prompt" /\ d.db \in Db
  OBVIOUS
<1>2. \A d \in [kind : {"open"}, db : Db] : d.kind = "open" /\ d.db \in Db
  OBVIOUS
<1>3. \A d \in [kind : {"change", "report", "exit"}] :
        d.kind \in {"change", "report", "exit"}
  OBVIOUS
<1>4. Prompt.kind = "prompt"
  BY DEF Prompt
<1> QED BY <1>1, <1>2, <1>3, <1>4 DEF TypeOK, Statement

LEMMA PoolOnType ==
  ASSUME TypeOK, NEW d \in Db
  PROVE  /\ PoolOn(d) \in PoolType /\ PoolOn(d).db = d /\ PoolOn(d) # NoPool
         /\ ~PoolOn(d).unsaved
<1>1. PoolOn(d) \in PoolType /\ PoolOn(d).db = d /\ ~PoolOn(d).unsaved
  BY DEF TypeOK, PoolOn, PoolType
<1>2. NoPool.db # d
  BY SessionAssumption DEF NoPool
<1> QED BY <1>1, <1>2

\* Writing the pages of a pool back leaves files and counts as they should be,
\* and stores the changes of an attached pool whose file is whole.
LEMMA FlushFacts ==
  ASSUME TypeOK, HasPool, FlushAllPages
  PROVE  /\ file' \in [Db -> {"none", "empty", "whole", "torn"}]
         /\ stored' \in [Db -> 0 .. MaxChanges]
         /\ pool.unsaved /\ pool.attached /\ file[pool.db] = "whole"
              => stored'[pool.db] = pool.changes
<1>1. pool \in PoolType
  BY PoolFacts
<1>2. pool.db \in Db /\ pool.changes \in 0 .. MaxChanges
  BY <1>1 DEF PoolType
<1> QED BY <1>2 DEF FlushAllPages, TypeOK

LEMMA CloseStep ==
  ASSUME Inv, is_open, Close
  PROVE  /\ file' \in [Db -> {"none", "empty", "whole", "torn"}]
         /\ stored' \in [Db -> 0 .. MaxChanges]
         /\ failed' \in BOOLEAN
         /\ \/ pool' = NoPool /\ ~is_open' /\ executor' = "null" /\ failed' = failed
            \/ pool' = pool /\ is_open' /\ executor' = executor /\ failed'
<1>1. HasPool /\ TypeOK
  BY DEF Inv, OpenHasPool
<1>2. CASE FlushAllPages /\ Cleanup /\ UNCHANGED failed
  BY <1>1, <1>2, FlushFacts DEF Cleanup, TypeOK
<1>3. CASE failed' = TRUE /\ UNCHANGED <<files, pool, is_open, executor>>
  BY <1>1, <1>3 DEF TypeOK, files
<1> QED BY <1>2, <1>3 DEF Close

\* So does replacing or unlinking a file.
LEMMA ReplaceFacts ==
  ASSUME TypeOK, NEW d \in Db, NEW f \in {"none", "empty"},
         file' = [file EXCEPT ![d] = f], stored' = [stored EXCEPT ![d] = 0]
  PROVE  /\ file' \in [Db -> {"none", "empty", "whole", "torn"}]
         /\ stored' \in [Db -> 0 .. MaxChanges]
<1>1. 0 \in 0 .. MaxChanges
  BY SessionAssumption
<1> QED BY <1>1 DEF TypeOK

LEMMA InitInv == Init => Inv
<1> SUFFICES ASSUME Init PROVE Inv
  OBVIOUS
<1>1. TypeOK
  <2>1. file \in [Db -> {"none", "empty", "whole", "torn"}]
    BY DEF Init
  <2>2. stored \in [Db -> 0 .. MaxChanges]
    BY SessionAssumption DEF Init
  <2> QED BY <2>1, <2>2, Zenon DEF Init, TypeOK
<1> QED BY <1>1, SessionAssumption
        DEF Init, Inv, OpenHasPool, OpeningIsUnbound, RoomForChange, PoolIsKnown,
            BoundToWhatIsOpen, EngineIsThere, HasPool, Prompt

LEMMA NextInv == Inv /\ [Next]_vars => Inv'
<1> SUFFICES ASSUME Inv, [Next]_vars PROVE Inv'
  OBVIOUS
<1> USE DEF Inv, OpenHasPool, OpeningIsUnbound, RoomForChange, PoolIsKnown,
            BoundToWhatIsOpen, EngineIsThere, HasPool
<1>0. TypeOK
  OBVIOUS
<1>f. /\ HasPool <=> pool \in PoolType
      /\ ~HasPool => pool.db \notin Db
      /\ statement.kind \in {"use", "create", "drop", "open"} => statement.db \in Db
      /\ statement = Prompt <=> statement.kind = "prompt"
  BY <1>0, PoolFacts, StatementFacts
<1>p. Prompt.kind = "prompt"
  BY DEF Prompt
<1>1. CASE ReadPart
  BY <1>1 DEF ReadPart, files, objects, TypeOK
<1>2. ASSUME NEW s \in Statement, ReadStatement(s) PROVE Inv'
  <2>1. s.kind # "open"
    BY DEF Statement
  <2>2. UNCHANGED <<pool, is_open, executor, network, open, process, failed>>
    BY <1>2 DEF ReadStatement, files, objects, repl
  <2>3. TypeOK'
    BY <1>2 DEF ReadStatement, files, objects, repl, TypeOK
  <2> QED BY <1>2, <2>1, <2>2, <2>3 DEF ReadStatement
<1>3. CASE EndOfInput
  <2>1. TypeOK'
    BY <1>3 DEF EndOfInput, files, objects, TypeOK
  <2>2. ~open' /\ UNCHANGED <<pool, is_open, executor, statement, failed>>
    BY <1>3 DEF EndOfInput, objects
  <2> QED BY <2>1, <2>2
<1>4. CASE NoExecutor
  BY <1>4 DEF NoExecutor, files, objects, repl, TypeOK
<1>5. CASE LeaveDatabase
  <2>1. statement.db \in Db /\ statement'.kind = "open"
        /\ statement' \in [kind : {"open"}, db : Db]
    BY <1>5, <1>f DEF LeaveDatabase, Executing
  <2>2. executor' = "unbound" /\ network' = "other"
    BY <1>5 DEF LeaveDatabase, InitializeExecutor
  <2>3. /\ file' \in [Db -> {"none", "empty", "whole", "torn"}]
        /\ stored' \in [Db -> 0 .. MaxChanges]
        /\ failed' \in BOOLEAN
        /\ \/ pool' = NoPool /\ ~is_open' /\ is_open' \in BOOLEAN
           \/ pool' = pool /\ is_open' = is_open /\ failed'
    BY <1>5, <1>0, FlushFacts DEF LeaveDatabase, TypeOK, files
  <2>4. TypeOK'
    BY <1>5, <2>1, <2>2, <2>3 DEF LeaveDatabase, TypeOK, repl
  <2> QED BY <2>1, <2>2, <2>3, <2>4, SessionAssumption
<1>6. CASE OpenNoFile
  BY <1>6, <1>p DEF OpenNoFile, Answer, files, objects, TypeOK
<1>7. CASE OpenFails
  <2>1. statement.db \in Db
    BY <1>7, <1>f DEF OpenFails, Opening, Executing
  <2>2. pool' = PoolOn(statement.db) /\ pool' \in PoolType /\ pool' # NoPool
    BY <1>0, <1>7, <2>1, PoolOnType DEF OpenFails
  <2>3. executor \notin Db
    BY <1>7, SessionAssumption DEF OpenFails, Opening, Executing
  <2>4. TypeOK'
    BY <1>7, <2>2 DEF OpenFails, Answer, files, TypeOK, PoolType
  <2> QED BY <1>7, <1>p, <2>2, <2>3, <2>4 DEF OpenFails, Answer
<1>8. CASE OpenDatabase
  <2>1. statement.db \in Db
    BY <1>8, <1>f DEF OpenDatabase, Opening, Executing
  <2>2. pool' = PoolOn(statement.db) /\ pool' \in PoolType /\ pool' # NoPool
        /\ pool'.db = statement.db
    BY <1>0, <1>8, <2>1, PoolOnType DEF OpenDatabase
  <2>3. executor' = statement.db /\ is_open' = TRUE
    BY <1>8 DEF OpenDatabase
  <2>4. TypeOK'
    BY <1>8, <2>1, <2>2, <2>3 DEF OpenDatabase, Answer, TypeOK, PoolType
  <2> QED BY <1>8, <1>p, <2>1, <2>2, <2>3, <2>4, SessionAssumption DEF OpenDatabase, Answer
<1>9. CASE Exit
  <2>1. /\ file' \in [Db -> {"none", "empty", "whole", "torn"}]
        /\ stored' \in [Db -> 0 .. MaxChanges]
        /\ failed' \in BOOLEAN
        /\ \/ pool' = NoPool /\ ~is_open' /\ is_open' \in BOOLEAN
              /\ executor' = "null" /\ failed' = failed
           \/ pool' = pool /\ is_open' = is_open /\ executor' = executor
              /\ (failed' = failed \/ failed')
    <3>1. CASE is_open
      BY <1>9, <3>1, CloseStep DEF Exit, TypeOK, Close, Cleanup
    <3>2. CASE ~is_open
      BY <1>9, <3>2 DEF Exit, TypeOK, files
    <3> QED BY <3>1, <3>2
  <2>2. TypeOK'
    BY <1>9, <2>1 DEF Exit, Answer, TypeOK
  <2> QED BY <1>9, <1>p, <2>1, <2>2, SessionAssumption DEF Exit, Answer, Executing
<1>10. CASE Change
  <2>1. CASE executor = "unbound"
    BY <1>10, <1>p, <2>1 DEF Change, Answer, files, TypeOK
  <2>2. CASE executor # "unbound"
    <3>1. executor \in Db
      BY <1>10, <2>2 DEF Change, Executing, TypeOK
    <3>2. pool \in PoolType /\ pool.changes < MaxChanges
      BY <1>10, <1>f, <3>1 DEF Change, Executing
    <3>3. pool' \in PoolType /\ pool'.db = pool.db
      <4>1. pool' = [pool EXCEPT !.changes = pool.changes + 1, !.unsaved = TRUE]
        BY <1>10, <2>2 DEF Change
      <4>2. pool.changes + 1 \in 0 .. MaxChanges
        BY <3>2, SessionAssumption DEF PoolType
      <4> HIDE DEF Inv, HasPool
      <4> QED BY <3>2, <4>1, <4>2 DEF PoolType
    <3>4. TypeOK'
      BY <1>10, <3>3 DEF Change, Answer, files, TypeOK, PoolType
    <3>5. pool' # NoPool
      BY <3>3, <3>2, <1>f, SessionAssumption DEF PoolType, NoPool
    <3> QED BY <1>10, <1>p, <3>1, <3>2, <3>3, <3>4, <3>5 DEF Change, Answer
  <2> QED BY <2>1, <2>2
<1>11. CASE Report
  BY <1>11, <1>p DEF Report, Answer, files, objects, TypeOK
<1>12. CASE CreateDatabase
  <2>0. /\ file' \in [Db -> {"none", "empty", "whole", "torn"}]
        /\ stored' \in [Db -> 0 .. MaxChanges]
    BY <1>0, <1>f, <1>12, ReplaceFacts DEF CreateDatabase, Executing
  <2>2. UNCHANGED <<pool, is_open, executor, network, open, process, failed>>
        /\ statement' = Prompt /\ pending' = FALSE
    BY <1>12 DEF CreateDatabase, Answer, objects
  <2>1. TypeOK'
    BY <1>0, <2>0, <2>2 DEF TypeOK
  <2> QED BY <1>p, <2>1, <2>2
<1>13. CASE DropDatabase
  <2>1. statement.db \in Db
    BY <1>13, <1>f DEF DropDatabase, Executing
  <2>2. \/ pool' = pool
        \/ /\ pool \in PoolType /\ pool' \in PoolType /\ pool'.db = pool.db
           /\ pool' # NoPool /\ pool'.changes = pool.changes
    <3>1. CASE pool.db = statement.db
      <4>1. pool \in PoolType
        BY <1>f, <2>1, <3>1
      <4>2. pool' = [pool EXCEPT !.attached = FALSE]
        BY <1>13, <3>1 DEF DropDatabase
      <4>3. pool' \in PoolType /\ pool'.db = pool.db /\ pool'.changes = pool.changes
        BY <4>1, <4>2 DEF PoolType
      <4> QED BY <4>1, <4>3, SessionAssumption DEF PoolType, NoPool
    <3> QED BY <1>13, <3>1 DEF DropDatabase
  <2>0. /\ file' \in [Db -> {"none", "empty", "whole", "torn"}]
        /\ stored' \in [Db -> 0 .. MaxChanges]
    BY <1>0, <2>1, <1>13, ReplaceFacts DEF DropDatabase
  <2>4. UNCHANGED <<is_open, executor, network, open, process, failed>>
        /\ statement' = Prompt /\ pending' = FALSE
    BY <1>13 DEF DropDatabase, Answer
  <2>3. TypeOK'
    BY <1>0, <2>0, <2>2, <2>4 DEF TypeOK, PoolType
  <2>5. pool' # NoPool <=> pool # NoPool
    BY <1>f, <2>2
  <2> QED BY <1>p, <2>2, <2>3, <2>4, <2>5
<1>14. CASE Destroy
  <2>1. /\ file' \in [Db -> {"none", "empty", "whole", "torn"}]
        /\ stored' \in [Db -> 0 .. MaxChanges]
        /\ failed' \in BOOLEAN
        /\ \/ pool' = NoPool /\ ~is_open' /\ is_open' \in BOOLEAN
              /\ executor' = "null" /\ failed' = failed
           \/ pool' = pool /\ is_open' = is_open /\ executor' = executor
              /\ (failed' = failed \/ failed')
    <3>1. CASE is_open
      BY <1>14, <3>1, CloseStep DEF Destroy, TypeOK, Close, Cleanup
    <3>2. CASE ~is_open
      BY <1>14, <3>2 DEF Destroy, TypeOK, files
    <3> QED BY <3>1, <3>2
  <2>2. TypeOK'
    BY <1>14, <2>1 DEF Destroy, TypeOK, repl
  <2> QED BY <1>14, <1>f, <1>p, <2>1, <2>2, SessionAssumption DEF Destroy, repl
<1>15. CASE Kill
  BY <1>15 DEF Kill, files, objects, repl, TypeOK
<1>16. CASE Restart
  <2>1. TypeOK'
    BY <1>16 DEF Restart, files, TypeOK
  <2> QED BY <1>16, <1>p, <2>1, SessionAssumption DEF Restart
<1>17. CASE UNCHANGED vars
  BY <1>17 DEF vars, files, objects, repl, TypeOK
<1> QED BY <1>1, <1>2, <1>3, <1>4, <1>5, <1>6, <1>7, <1>8, <1>9, <1>10, <1>11,
           <1>12, <1>13, <1>14, <1>15, <1>16, <1>17 DEF Next, Execute

LEMMA InvHolds == Spec => []Inv
  BY InitInv, NextInv, PTL DEF Spec

\* Every variable of a session keeps its type, for any databases and bound.
THEOREM TypeCorrect == Spec => []TypeOK
<1>1. Inv => TypeOK
  BY DEF Inv
<1> QED BY <1>1, InvHolds, PTL

\* No order of USE, EXIT, CREATE and DROP DATABASE, failed closes and failed
\* opens runs a statement on deleted objects or on another database's.
THEOREM StatementsUseTheOpenDatabase == Spec => []BoundToWhatIsOpen
<1>1. Inv => BoundToWhatIsOpen
  BY DEF Inv
<1> QED BY <1>1, InvHolds, PTL

\* The prompt is left without an engine only by EXIT after a switch.
THEOREM PromptHasEngine == Spec => []EngineIsThere
<1>1. Inv => EngineIsThere
  BY DEF Inv
<1> QED BY <1>1, InvHolds, PTL

\* Closing a database that has unsaved changes stores them all.
LEMMA CloseSaves ==
  ASSUME Inv, InMemoryOnly, pool.attached, file[pool.db] = "whole",
         FlushAllPages
  PROVE  stored'[pool.db] = pool.changes
  BY FlushFacts DEF Inv, InMemoryOnly

LEMMA LeavingStep ==
  ASSUME Inv, [Next]_vars
  PROVE  [( /\ process = "up" /\ process' # "dead" /\ ~failed
            /\ InMemoryOnly /\ ~InMemoryOnly'
            /\ pool.attached /\ file[pool.db] = "whole" )
          => stored'[pool.db] = pool.changes]_vars
<1> SUFFICES ASSUME Next, process = "up", process' # "dead", ~failed,
                    InMemoryOnly, ~InMemoryOnly',
                    pool.attached, file[pool.db] = "whole"
             PROVE  stored'[pool.db] = pool.changes
  BY DEF vars, files, objects, InMemoryOnly, HasPool
<1>1. pool' # pool
  BY DEF InMemoryOnly, HasPool
<1>2. HasPool /\ is_open /\ statement.kind # "open"
  BY DEF InMemoryOnly, Inv, PoolIsKnown
<1>3. pool \in PoolType
  BY <1>2, PoolFacts DEF Inv
<1>4. CASE LeaveDatabase
  BY <1>1, <1>4, CloseSaves DEF LeaveDatabase
<1>5. CASE Exit \/ Destroy
  BY <1>1, <1>2, <1>5, CloseSaves DEF Exit, Destroy, Close
<1>6. CASE OpenFails \/ OpenDatabase
  BY <1>2, <1>6 DEF OpenFails, OpenDatabase, Opening, Executing
<1>7. CASE Change
  <2>1. pool' = [pool EXCEPT !.changes = @ + 1, !.unsaved = TRUE]
    BY <1>1, <1>7 DEF Change
  <2>2. pool'.unsaved /\ pool'.db = pool.db /\ pool.db \in Db
    BY <1>3, <2>1, Zenon DEF PoolType
  <2>3. pool' # NoPool
    BY <2>2, SessionAssumption DEF NoPool
  <2> QED BY <2>2, <2>3 DEF InMemoryOnly, HasPool
<1>8. CASE DropDatabase
  <2>1. pool' = [pool EXCEPT !.attached = FALSE]
    BY <1>1, <1>8 DEF DropDatabase
  <2>2. pool' \in PoolType /\ pool'.unsaved = pool.unsaved
    BY <1>3, <2>1 DEF PoolType
  <2>3. pool' # NoPool
    BY <2>2, SessionAssumption DEF NoPool, PoolType
  <2> QED BY <2>2, <2>3 DEF InMemoryOnly, HasPool
<1>9. ASSUME ReadPart \/ (\E s \in Statement : ReadStatement(s)) \/ EndOfInput
             \/ NoExecutor \/ OpenNoFile \/ Report \/ CreateDatabase \/ Kill
      PROVE  FALSE
  BY <1>1, <1>9 DEF ReadPart, ReadStatement, EndOfInput, NoExecutor, OpenNoFile,
     Report, CreateDatabase, Kill, objects
<1>10. ~Restart
  BY DEF Restart
<1> QED BY <1>4, <1>5, <1>6, <1>7, <1>8, <1>9, <1>10 DEF Next, Execute

\* A database left by USE, EXIT or the end of input keeps every change, unless
\* a write failed or its file was replaced meanwhile.
THEOREM LeavingADatabaseSaves == Spec => LeavingSaves
<1>1. Spec => [][Next]_vars
  BY PTL DEF Spec
<1>2. Inv /\ [Next]_vars =>
        [( /\ process = "up" /\ process' # "dead" /\ ~failed
           /\ InMemoryOnly /\ ~InMemoryOnly'
           /\ pool.attached /\ file[pool.db] = "whole" )
         => stored'[pool.db] = pool.changes]_vars
  BY LeavingStep
<1> QED BY <1>1, <1>2, InvHolds, PTL DEF LeavingSaves
=============================================================================
