------------------------------ MODULE RowHeap ------------------------------
(***************************************************************************)
(* What the table heap promises to the operators that insert and scan:     *)
(* every table is a set of rows that only grows, one row at a time, until  *)
(* the process dies.  `contents' is what a scan finds and `stable' what    *)
(* the next process would find; pages, chains, frames and the order in     *)
(* which they reach the file do not show.                                  *)
(***************************************************************************)
CONSTANTS
  Heap         \* tables

VARIABLES
  contents,    \* the rows of every table, with the `page' and `slot' of each
  stable,
  status,      \* "up", "closed" or "crashed"
  faulty       \* a write was refused since the last crash

vars == <<contents, stable, status, faulty>>

Init ==
  /\ contents = [h \in Heap |-> {}]
  /\ stable = [h \in Heap |-> {}]
  /\ status = "up"
  /\ faulty = FALSE

SamePlace(r, s) == r.page = s.page /\ r.slot = s.slot

\* A row gets a place that no row of any table has.
Add(h) ==
  /\ status = "up"
  /\ contents'[h] # contents[h]
  /\ \E r \in contents'[h] :
       /\ \A g \in Heap : \A s \in contents[g] : ~SamePlace(r, s)
       /\ contents' = [contents EXCEPT ![h] = @ \cup {r}]
  /\ UNCHANGED <<stable, status, faulty>>

\* Rows become stable in any order, and stay it.
Persist ==
  /\ status = "up"
  /\ UNCHANGED <<contents, status, faulty>>
  /\ \A h \in Heap : LET now == stable'[h]
                    IN  stable[h] \subseteq now /\ now \subseteq contents[h]

\* A refused write may take rows back that were not stable.
Discard ==
  /\ status = "up"
  /\ faulty'
  /\ UNCHANGED <<stable, status>>
  /\ \A h \in Heap : LET now == contents'[h]
                    IN  stable[h] \subseteq now /\ now \subseteq contents[h]

\* An orderly close has made every row stable.
Close ==
  /\ status = "up"
  /\ status' = "closed"
  /\ contents = stable
  /\ UNCHANGED <<contents, stable, faulty>>

Crash ==
  /\ status = "up"
  /\ status' = "crashed"
  /\ faulty' = FALSE
  /\ contents' = stable
  /\ UNCHANGED stable

Open ==
  /\ status # "up"
  /\ status' = "up"
  /\ UNCHANGED <<contents, stable, faulty>>

Next ==
  \/ Persist
  \/ \E h \in Heap : Add(h)
  \/ Discard
  \/ Close
  \/ Crash
  \/ Open

Spec == Init /\ [][Next]_vars
=============================================================================
