---------------------------- MODULE MCAccessControl ----------------------------
(***************************************************************************)
(* AccessControl for TLC; the constants are given in access_control.cfg.   *)
(***************************************************************************)
EXTENDS AccessControl
================================================================================
