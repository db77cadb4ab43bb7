-------------------------- MODULE MCSyncParameters --------------------------
(* SyncParameters with clocks that agree. *)
EXTENDS SyncParameters

Clocks == [n \in Node |-> 1]
=============================================================================
