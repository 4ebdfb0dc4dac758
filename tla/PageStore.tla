----------------------------- MODULE PageStore -----------------------------
(***************************************************************************)
(* What the storage layer promises to the table heap and the catalog: a    *)
(* page behaves as if there were no cache at all.  `store' is what a       *)
(* reader of the running process sees and `stable' is what a crash leaves. *)
(* Caching, eviction and flushing may only copy store to stable.           *)
(***************************************************************************)
EXTENDS Integers

CONSTANTS
  Page,        \* page ids
  Data,        \* contents callers write
  Fresh,       \* a formatted page without tuples
  Void,        \* a page nobody formatted
  MayDiscard   \* single pages may lose what was not persisted

VARIABLES store, stable, status

vars == <<store, stable, status>>

Init ==
  /\ store = [p \in Page |-> Void]
  /\ stable = [p \in Page |-> Void]
  /\ status = "up"

Persisted(S) == [p \in Page |-> IF p \in S THEN store[p] ELSE stable[p]]

Write(p, d) ==
  /\ status = "up"
  /\ store' = [store EXCEPT ![p] = d]
  /\ UNCHANGED <<stable, status>>

\* A page of the heap is durable as soon as it has an id.
Allocate(p) ==
  /\ status = "up"
  /\ store[p] = Void
  /\ stable[p] = Void
  /\ store' = [store EXCEPT ![p] = Fresh]
  /\ stable' = [stable EXCEPT ![p] = Fresh]
  /\ UNCHANGED status

\* A system page is formatted in memory only; making room may persist others.
Format(p, S) ==
  /\ status = "up"
  /\ store[p] = Void
  /\ store' = [store EXCEPT ![p] = Fresh]
  /\ stable' = Persisted(S)
  /\ UNCHANGED status

Persist(S) ==
  /\ status = "up"
  /\ stable' = Persisted(S)
  /\ UNCHANGED <<store, status>>

Discard(p) ==
  /\ status = "up"
  /\ MayDiscard
  /\ store' = [store EXCEPT ![p] = stable[p]]
  /\ UNCHANGED <<stable, status>>

\* An orderly close has persisted everything first.
Close ==
  /\ status = "up"
  /\ store = stable
  /\ status' = "closed"
  /\ UNCHANGED <<store, stable>>

Crash ==
  /\ status = "up"
  /\ store' = stable
  /\ status' = "crashed"
  /\ UNCHANGED stable

Open ==
  /\ status # "up"
  /\ status' = "up"
  /\ UNCHANGED <<store, stable>>

Next ==
  \/ \E p \in Page, d \in Data : Write(p, d)
  \/ \E p \in Page : Allocate(p) \/ Discard(p)
  \/ \E p \in Page, S \in SUBSET Page : Format(p, S)
  \/ \E S \in SUBSET Page : Persist(S)
  \/ Close
  \/ Crash
  \/ Open

Spec == Init /\ [][Next]_vars
=============================================================================
