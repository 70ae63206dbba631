------------------------------ MODULE MCDbPool ------------------------------
(***************************************************************************)
(* Instances of DbPool for TLC.                                            *)
(***************************************************************************)
EXTENDS DbPool

CONSTANTS b1, b2, k1, k2
=============================================================================
