------------------------ MODULE MCPrecedentWriteback ------------------------
(***************************************************************************)
(* Small instances of PrecedentWriteback for TLC.                          *)
(***************************************************************************)
EXTENDS PrecedentWriteback

\* A revocation, and a reviewer who supersedes what was revoked.
RevokeThenSupersede ==
  [i \in {1, 2} |-> IF i = 1 THEN [expected |-> "active", target |-> "revoked"]
                    ELSE [expected |-> "revoked", target |-> "superseded"]]
=============================================================================
