------------------------------ MODULE WorkQueue ------------------------------
(***************************************************************************)
(* What SynchronizedQueue promises its callers (synchronized_queue.h:9-16) *)
(* with no threads, no mutex and no condition variable: elements are added *)
(* at the end, each is handed over exactly once and in the order in which  *)
(* it was added, and whatever was added is eventually handed over.         *)
(***************************************************************************)
EXTENDS Sequences, Naturals

CONSTANT Items          \* the elements, each added at most once

VARIABLES
  added,                \* the elements, in the order in which they were added
  handed                \* the elements, in the order in which they were handed over

vars == <<added, handed>>

Init == added = <<>> /\ handed = <<>>

Add(e) ==
  /\ \A k \in DOMAIN added : added[k] # e
  /\ added' = Append(added, e)
  /\ UNCHANGED handed

HandOver ==
  /\ Len(handed) < Len(added)
  /\ handed' = Append(handed, added[Len(handed) + 1])
  /\ UNCHANGED added

Next == HandOver \/ \E e \in Items : Add(e)

Spec == Init /\ [][Next]_vars /\ WF_vars(HandOver)
=============================================================================
