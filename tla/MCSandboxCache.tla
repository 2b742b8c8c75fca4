-------------------------- MODULE MCSandboxCache ---------------------------
(***************************************************************************)
(* Instances of SandboxCache for TLC.                                      *)
(***************************************************************************)
EXTENDS SandboxCache
CONSTANTS t1, t2, r1, r2

\* The tenants are alike, so the first request names the first.
MCWants == [r \in Request |-> IF r = r1 THEN {t1} ELSE Tenant]
=============================================================================
