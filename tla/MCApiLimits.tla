---------------------------- MODULE MCApiLimits ----------------------------
(***************************************************************************)
(* A small instance of ApiLimits for TLC: three uploads of one subject,    *)
(* whose quota is one per window and of which one may be inside, a reveal  *)
(* that purges their leases under another lock, and a health check.        *)
(***************************************************************************)
EXTENDS ApiLimits, TLC

CONSTANTS u1, u2, u3, v1, h1

Uploads == {u1, u2, u3}
FiveRequests == Uploads \cup {v1, h1}
OneSubject == [r \in FiveRequests |-> "subject"]
FiveRoutes ==
  [r \in FiveRequests |-> IF r \in Uploads THEN "POST intake-jobs"
                          ELSE IF r = v1 THEN "reveal" ELSE "health"]

SmallLimits ==
  [c \in Categories |->
     [requests |-> 1, window_seconds |-> 2, max_concurrent |-> 1, concurrency_lease_seconds |-> 2]]

UploadSymmetry == Permutations(Uploads)
=============================================================================
