-------------------------- MODULE MCDraftDispatch --------------------------
(* Model values and symmetry for checking DraftDispatch with TLC.          *)
EXTENDS DraftDispatch, TLC

Symmetry == Permutations(Tabs) \cup Permutations(Workers)
=============================================================================
