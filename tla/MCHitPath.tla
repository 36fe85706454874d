----------------------------- MODULE MCHitPath -----------------------------
(***************************************************************************)
(* TLC instance of HitPath: the thresholds of policy.DefaultConfig and the *)
(* minimum severity of EmailFromEnv, with fewer hits asked for (1 and 2    *)
(* for 2 and 3), so that two hits suffice for two bans to meet in the    *)
(* fleet store and for an address to reach the cloud tier.                 *)
(***************************************************************************)
EXTENDS HitPath

CONSTANTS scanner, spray  \* addresses

\* Severities of fingerprint.FromHTTP: an injection, a probe that is not
\* mailed, and a vulnerability scanner.
SomeVisits == {[ip |-> scanner, sev |-> 80], [ip |-> scanner, sev |-> 30], [ip |-> spray, sev |-> 55]}
=============================================================================
