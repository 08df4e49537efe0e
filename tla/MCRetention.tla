---------------------------- MODULE MCRetention ----------------------------
(***************************************************************************)
(* An instance of Retention for TLC: two applications, one of which calls  *)
(* reopen, run and end again.                                              *)
(***************************************************************************)
EXTENDS Retention, TLC

CONSTANTS a1, a2

TheApps == {a1, a2}
Twice == (a1 :> 2) @@ (a2 :> 0)
=============================================================================
