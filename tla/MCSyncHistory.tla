--------------------------- MODULE MCSyncHistory ---------------------------
(* Model values and symmetry for checking SyncHistory with TLC.            *)
EXTENDS SyncHistory, TLC

Symmetry == Permutations(Tabs) \cup Permutations(Slots)
=============================================================================
