----------------------------- MODULE MCSyncQueue -----------------------------
(***************************************************************************)
(* Small instances of SyncQueue for TLC.                                   *)
(***************************************************************************)
EXTENDS SyncQueue, TLC

Symmetry == Permutations(Item) \cup Permutations(Loop)
=============================================================================
