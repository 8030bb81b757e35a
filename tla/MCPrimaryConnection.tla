-------------------------- MODULE MCPrimaryConnection --------------------------
(***************************************************************************)
(* The instances of PrimaryConnection that TLC checks.  Every constant is  *)
(* a number or a set of strings, given in the .cfg of each run; no state   *)
(* constraint is needed, the bounds are in the guards.                     *)
(***************************************************************************)
EXTENDS PrimaryConnection
===============================================================================
