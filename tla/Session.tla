------------------------------ MODULE Session ------------------------------
(***************************************************************************)
(* A session: the REPL of src/network/network.cpp, the dispatch of         *)
(* src/engine/execution_engine.cpp, the life cycle of                      *)
(* src/database/database_manager.cpp and the statements on database files  *)
(* of DatabaseOpExecutor.                                                  *)
(*                                                                         *)
(* A database is the number of changes made to it; every change leaves a   *)
(* page that only closing the database is sure to write (TableHeap and     *)
(* Catalog tell which).                                                    *)
(***************************************************************************)
EXTENDS Integers

CONSTANTS
  Db,            \* names of databases
  WriteMayFail,  \* the operating system may refuse a write
  MaxChanges     \* bound: changes a database takes

ASSUME SessionAssumption ==
  /\ WriteMayFail \in BOOLEAN /\ MaxChanges \in Nat
  /\ "none" \notin Db /\ "null" \notin Db /\ "unbound" \notin Db

VARIABLES
  file,       \* "none", "empty", "whole" or "torn" for each database
  stored,     \* changes that are in the file
  pool,       \* disk_manager_, bpm_ and catalog_ of one database, or NoPool
  is_open,    \* is_open_
  executor,   \* executor_: "null", "unbound" or the database it is bound to
  network,    \* network_: "running", the object whose Start runs, or "other"
  open,       \* open_ of the running NetworkManager
  pending,    \* accumulated_input is not empty
  statement,  \* the statement Execute is at, or Prompt
  process,    \* "up", "ended" or "dead"
  failed      \* ghost: a write failed in this process

files == <<file, stored>>
objects == <<pool, is_open, executor, network>>
repl == <<open, pending>>
vars == <<files, objects, repl, statement, process, failed>>

Prompt == [kind |-> "prompt"]
Statement ==
  [kind : {"use", "create", "drop"}, db : Db] \cup [kind : {"change", "report", "exit"}]

NoPool == [db |-> "none"]
HasPool == pool # NoPool   \* bpm_ is not null

\* Mutation: the file is taken for a page longer than it is.
PoolBeyond(d) ==
  [db |-> d, changes |-> stored[d] + 1, unsaved |-> FALSE, attached |-> TRUE]

\* A pool on the file of d; `attached' until the directory entry is another.
PoolOn(d) ==
  [db |-> d, changes |-> stored[d], unsaved |-> FALSE, attached |-> TRUE]

Init ==
  /\ file = [d \in Db |-> "none"]
  /\ stored = [d \in Db |-> 0]
  /\ pool = NoPool
  /\ is_open = FALSE
  /\ executor = "unbound"
  /\ network = "running"
  /\ open = TRUE
  /\ pending = FALSE
  /\ statement = Prompt
  /\ process = "up"
  /\ failed = FALSE

-----------------------------------------------------------------------------
(* NetworkManager::Start and HandleInput.                                  *)

AtPrompt == process = "up" /\ open /\ statement = Prompt

\* A line that does not end in a semicolon is kept; an empty one only if there
\* is something before it.
ReadPart ==
  /\ AtPrompt
  /\ pending' = TRUE
  /\ UNCHANGED <<files, objects, open, statement, process, failed>>

\* What was kept is put in front; the statement s is what both amount to.
ReadStatement(s) ==
  /\ AtPrompt
  /\ s.kind = "change" /\ HasPool => pool.changes < MaxChanges   \* bound
  /\ statement' = s
  /\ UNCHANGED <<files, objects, repl, process, failed>>

\* The answer is printed, and the line buffer cleared.
Answer == statement' = Prompt /\ pending' = FALSE /\ UNCHANGED process

Executing(kind) ==
  process = "up" /\ statement.kind = kind /\ executor # "null"

\* The network's callback calls Execute through a null pointer.
NoExecutor ==
  /\ process = "up" /\ statement # Prompt /\ executor = "null"
  /\ process' = "dead"
  /\ UNCHANGED <<files, objects, repl, statement, failed>>

-----------------------------------------------------------------------------
(* DatabaseManager::Close: FlushAllPages, then Cleanup.                    *)

\* Mutation: nothing is written.
FlushNoPage == UNCHANGED files

\* Pages written into a file that was emptied behind the pool's back lie
\* among holes; those written into a file without a name are gone.
FlushAllPages ==
  LET d == pool.db
      reaches == pool.unsaved /\ pool.attached
  IN  /\ stored' = IF reaches /\ file[d] = "whole"
                   THEN [stored EXCEPT ![d] = pool.changes] ELSE stored
      /\ file' = IF reaches /\ file[d] = "empty"
                 THEN [file EXCEPT ![d] = "torn"] ELSE file

\* The engine whose Execute is running is deleted with the rest.
Cleanup ==
  /\ executor' = "null"
  /\ pool' = NoPool
  /\ is_open' = FALSE

\* The exception of a failed write is caught: nothing is deleted, and is_open_
\* stays set.
Close ==
  \/ FlushAllPages /\ Cleanup /\ UNCHANGED failed
  \/ /\ WriteMayFail /\ pool.unsaved
     /\ failed' = TRUE
     /\ UNCHANGED <<files, pool, is_open, executor>>

-----------------------------------------------------------------------------
(* USE: DatabaseManager::Initialize.                                       *)

\* Mutation: the executor stays with the database that was left.
KeepExecutor == UNCHANGED executor /\ network' = "other"

InitializeExecutor == executor' = "unbound" /\ network' = "other"

\* Leaves the open database; whether Close succeeded is not looked at.
LeaveDatabase ==
  /\ Executing("use") /\ is_open
  /\ \/ FlushAllPages /\ pool' = NoPool /\ is_open' = FALSE /\ UNCHANGED failed
     \/ /\ WriteMayFail /\ pool.unsaved
        /\ failed' = TRUE
        /\ UNCHANGED <<files, pool, is_open>>
  /\ InitializeExecutor
  /\ statement' = [kind |-> "open", db |-> statement.db]
  /\ UNCHANGED <<repl, process>>

Opening == Executing("open") \/ (Executing("use") /\ ~is_open)

\* DiskManager throws if there is no file.
OpenNoFile ==
  /\ Opening
  /\ file[statement.db] = "none"
  /\ Answer
  /\ UNCHANGED <<files, objects, open, failed>>

\* The catalog throws when it cannot write an empty file's system tables: the
\* pool is there, and nothing else knows.
OpenFails ==
  /\ Opening
  /\ WriteMayFail /\ file[statement.db] = "empty"
  /\ pool' = PoolOn(statement.db)
  /\ failed' = TRUE
  /\ Answer
  /\ UNCHANGED <<files, is_open, executor, network, open>>

\* A pool left by a Close that failed is replaced with what it did not write.
OpenDatabase ==
  /\ Opening
  /\ file[statement.db] # "none"
  /\ file' = [file EXCEPT ![statement.db] = IF @ = "empty" THEN "whole" ELSE @]
  /\ pool' = PoolOn(statement.db)
  /\ executor' = statement.db
  /\ is_open' = TRUE
  /\ Answer
  /\ UNCHANGED <<stored, network, open, failed>>

-----------------------------------------------------------------------------
(* EXIT: the stop callback.                                                *)

\* Mutation: the network is not stopped.
ExitStays ==
  /\ Executing("exit")
  /\ IF is_open THEN Close
     ELSE UNCHANGED <<files, pool, is_open, executor, failed>>
  /\ Answer
  /\ UNCHANGED <<network, open>>

Exit ==
  /\ Executing("exit")
  /\ IF is_open THEN Close
     ELSE UNCHANGED <<files, pool, is_open, executor, failed>>
  /\ open' = (network = "other" /\ open)
  /\ Answer
  /\ UNCHANGED network

-----------------------------------------------------------------------------
(* Statements that reach the executor.                                     *)

\* The binder refuses without a database.
Change ==
  /\ Executing("change")
  /\ IF executor = "unbound" THEN UNCHANGED pool
     ELSE pool' = [pool EXCEPT !.changes = @ + 1, !.unsaved = TRUE]
  /\ Answer
  /\ UNCHANGED <<files, is_open, executor, network, open, failed>>

\* HELP and SHOW DATABASES only print.
Report ==
  /\ Executing("report")
  /\ Answer
  /\ UNCHANGED <<files, objects, open, failed>>

\* CREATE DATABASE truncates a file that is there, in use or not.
CreateDatabase ==
  /\ Executing("create")
  /\ file' = [file EXCEPT ![statement.db] = "empty"]
  /\ stored' = [stored EXCEPT ![statement.db] = 0]
  /\ Answer
  /\ UNCHANGED <<objects, open, failed>>

\* DROP DATABASE unlinks the file, in use or not.
DropDatabase ==
  /\ Executing("drop")
  /\ file' = [file EXCEPT ![statement.db] = "none"]
  /\ stored' = [stored EXCEPT ![statement.db] = 0]
  /\ pool' = IF pool.db = statement.db THEN [pool EXCEPT !.attached = FALSE]
             ELSE pool
  /\ Answer
  /\ UNCHANGED <<is_open, executor, network, open, failed>>

-----------------------------------------------------------------------------
(* The end: Start returns and the DatabaseManager is destroyed.            *)

EndOfInput ==
  /\ AtPrompt
  /\ open' = FALSE
  /\ UNCHANGED <<files, objects, pending, statement, process, failed>>

Destroy ==
  /\ process = "up" /\ ~open /\ statement = Prompt
  /\ IF is_open THEN Close
     ELSE UNCHANGED <<files, pool, is_open, executor, failed>>
  /\ process' = "ended"
  /\ UNCHANGED <<network, repl, statement>>

Kill ==
  /\ process = "up"
  /\ process' = "dead"
  /\ UNCHANGED <<files, objects, repl, statement, failed>>

Restart ==
  /\ process # "up"
  /\ pool' = NoPool
  /\ is_open' = FALSE
  /\ executor' = "unbound"
  /\ network' = "running"
  /\ open' = TRUE
  /\ pending' = FALSE
  /\ statement' = Prompt
  /\ process' = "up"
  /\ failed' = FALSE
  /\ UNCHANGED files

-----------------------------------------------------------------------------
Execute ==
  \/ NoExecutor
  \/ LeaveDatabase
  \/ OpenNoFile
  \/ OpenFails
  \/ OpenDatabase
  \/ Exit
  \/ Change
  \/ Report
  \/ CreateDatabase
  \/ DropDatabase
  \/ Destroy

Next ==
  \/ ReadPart
  \/ \E s \in Statement : ReadStatement(s)
  \/ EndOfInput
  \/ Execute
  \/ Kill
  \/ Restart

Spec == Init /\ [][Next]_vars

\* What the user types is not fair; what the process does with it is.
FairSpec == Spec /\ WF_vars(Execute)

-----------------------------------------------------------------------------
(* Properties                                                              *)

\* The type invariant.
TypeOK ==
  /\ file \in [Db -> {"none", "empty", "whole", "torn"}]
  /\ stored \in [Db -> 0 .. MaxChanges]
  /\ \/ pool = NoPool
     \/ pool \in [db : Db, changes : 0 .. MaxChanges,
                  unsaved : BOOLEAN, attached : BOOLEAN]
  /\ is_open \in BOOLEAN /\ open \in BOOLEAN /\ pending \in BOOLEAN
  /\ executor \in Db \cup {"null", "unbound"}
  /\ network \in {"running", "other"}
  /\ statement \in Statement \cup {Prompt} \cup [kind : {"open"}, db : Db]
  /\ process \in {"up", "ended", "dead"}
  /\ failed \in BOOLEAN

\* No statement runs on objects that were deleted, or on those of another
\* database than the one last used, through every order of switches, failed
\* closes and failed opens.
BoundToWhatIsOpen ==
  executor \in Db => is_open /\ HasPool /\ pool.db = executor

\* Only an EXIT in a session that switched databases leaves the prompt without
\* an engine behind it.
EngineIsThere ==
  process = "up" /\ open /\ executor = "null" => network = "other"

\* Changes that are only in memory leave it for the file, when a database is
\* left by USE, EXIT or the end of input: a session without write errors loses
\* none, unless the file was dropped or created anew meanwhile.
InMemoryOnly == HasPool /\ pool.unsaved
LeavingSaves ==
  [][( /\ process = "up" /\ process' # "dead" /\ ~failed
       /\ InMemoryOnly /\ ~InMemoryOnly'
       /\ pool.attached /\ file[pool.db] = "whole" )
     => stored'[pool.db] = pool.changes]_vars

\* EXIT ends the process, in a session that did not switch databases.
ExitEnds ==
  statement.kind = "exit" /\ network = "running" ~> process # "up"

\* planner.h:52: EXIT is to "Exit the shell".
ExitEndsAlways == statement.kind = "exit" ~> process # "up"
=============================================================================
