--------------------------- MODULE IncidentStore ---------------------------
(***************************************************************************)
(* What the catch ledger (src/internal/catch) promises its readers,        *)
(* whatever the interleaving of the goroutines that record into it.        *)
(*                                                                         *)
(* There is one audit trail and one summary (the dossier) per address.  A  *)
(* record enters the trail first and the summary of its address later, one *)
(* record at a time; a summary never loses a record except in a step where *)
(* the operating system failed, which faults counts; and an operator is    *)
(* told only of records the trail holds.                                   *)
(***************************************************************************)
EXTENDS Naturals

CONSTANTS Record,  \* the records that can be made; a record r has an address r.ip
          IPs      \* the addresses

VARIABLES audit,    \* the set of records in the audit trail
          summary,  \* summary[ip]: the records the dossier of ip accounts for
          told,     \* the records an operator was notified of
          faults    \* how many operating-system failures (or crashes) happened

vars == <<audit, summary, told, faults>>

OfAddress(S, ip) == {r \in S : r.ip = ip}

Init ==
    /\ audit = {}
    /\ summary = [ip \in IPs |-> {}]
    /\ told = {}
    /\ faults = 0

\* A record reaches the trail.
Log(r) ==
    /\ r \notin audit
    /\ audit' = audit \cup {r}
    /\ UNCHANGED <<summary, told, faults>>

\* A logged record is folded into the dossier of its address.
Summarise(r) ==
    /\ r \in audit
    /\ summary' = [summary EXCEPT ![r.ip] = @ \cup {r}]
    /\ UNCHANGED <<audit, told, faults>>

\* An operator is notified of a logged record.
Tell(r) ==
    /\ r \in audit
    /\ told' = told \cup {r}
    /\ UNCHANGED <<audit, summary, faults>>

\* The operating system fails.  Only then may a dossier account for fewer
\* records than it did, and never for a record of another address or for one
\* the trail does not hold.
Damage ==
    /\ faults' = faults + 1
    /\ summary' \in [IPs -> SUBSET audit]
    /\ \A ip \in IPs : summary'[ip] \subseteq OfAddress(audit, ip)
    /\ UNCHANGED <<audit, told>>

Next ==
    \/ \E r \in Record : Log(r) \/ Summarise(r) \/ Tell(r)
    \/ Damage

Spec == Init /\ [][Next]_vars
=============================================================================
