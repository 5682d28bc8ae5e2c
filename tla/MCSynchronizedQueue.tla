------------------------- MODULE MCSynchronizedQueue -------------------------
(***************************************************************************)
(* Small instances of SynchronizedQueue for TLC.  Two producers and two    *)
(* consumers, so that a notification can go to one consumer while another  *)
(* takes the element it was sent for; more elements than consumers, so     *)
(* that elements wait.  No symmetry: liveness is checked as well.          *)
(***************************************************************************)
EXTENDS SynchronizedQueue

TwoProducers == {"main", "other"}
TwoConsumers == {"worker1", "worker2"}
ThreeItems == {"x", "y", "z"}
=============================================================================
