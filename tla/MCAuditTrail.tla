----------------------------- MODULE MCAuditTrail -----------------------------
(* An instance of AuditTrail for TLC. *)
EXTENDS AuditTrailProps, TLC

CONSTANTS j1, j2, all, one, r1, r2

\* run-all over two jobs, and a forced `run` of the second one
Lists == all :> <<j1, j2>> @@ one :> <<j2>>
===============================================================================
