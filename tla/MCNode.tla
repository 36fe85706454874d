------------------------------- MODULE MCNode -------------------------------
(***************************************************************************)
(* A small node: one mode at a time, so that its services run beside each  *)
(* other only on a catch node; and a process that may start without a bus. *)
(***************************************************************************)
EXTENDS Node

CONSTANTS
    scanner, \* an address that scans
    spray,   \* an address that is only ever claimed
    inside   \* a private address, and a trusted proxy

Plain == [production |-> FALSE, live |-> FALSE, localFirewall |-> TRUE,
          envLive |-> FALSE, envDryRun |-> FALSE,
          envLocalFirewall |-> "unset", envNatsOptional |-> FALSE]

Real == [Plain EXCEPT !.live = TRUE]

SomeStarts ==
    {<<"deception", Real>>, <<"ct", Plain>>, <<"honeypot", Plain>>, <<"tarpit", Plain>>,
     <<"catch-node", Plain>>, <<"extract", [Plain EXCEPT !.envNatsOptional = TRUE]>>}

SomeWork == [m \in Modes |-> IF m = "honeypot" THEN 4 ELSE 2]

Probe == [peer |-> scanner, claim |-> NoClaim, probe |-> TRUE, tool |-> FALSE]

\* Mode deception bans for real: besides a probe, one through the trusted proxy.
\* A catch node has the scanner's name under another's address instead.
SomeAsks ==
    [m \in Modes |->
        IF m = "deception" THEN {Probe, [Probe EXCEPT !.peer = inside, !.claim = spray]}
        ELSE {Probe, [Probe EXCEPT !.claim = spray, !.probe = FALSE, !.tool = TRUE]}]

\* A benign domain, one with a rule, and one that only adds up.
SomeCertificates ==
    {<< {"keyword"}, {"brand", "keyword"} >>, << {"brand", "deep", "entropy"} >>}

\* Mode tarpit runs what mode honeypot runs: here the one takes guesses only.
SomeCalls ==
    [m \in Modes |->
        {[from |-> scanner, kind |-> k, form |-> "/login"] :
            k \in CASE m = "honeypot" -> {"sqli"}
                    [] m = "tarpit" -> {"tarpit", "default", "otp", "page"}
                    [] OTHER -> {"mysql"}} \cup
        {[from |-> a, kind |-> "page", form |-> "/login"] :
            a \in IF m = "tarpit" THEN {NoAddress, PortOnly} ELSE {}}]
=============================================================================
