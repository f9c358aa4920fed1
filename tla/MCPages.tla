------------------------------ MODULE MCPages ------------------------------
(* Checking Pages with TLC: the bounds are in the configuration.           *)
EXTENDS Pages
=============================================================================
