---------------------------- MODULE MCZincLogin ----------------------------
(***************************************************************************)
(* Model-checking instances of ZincLogin: all of its constants are given   *)
(* in the configurations.                                                  *)
(***************************************************************************)
EXTENDS ZincLogin
============================================================================
