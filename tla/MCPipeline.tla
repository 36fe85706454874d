----------------------------- MODULE MCPipeline -----------------------------
(***************************************************************************)
(* TLC instances of Pipeline: three of the modes cmd/atde/main.go starts a *)
(* node in, and what reaches such a node from the rest of the bus.         *)
(***************************************************************************)
EXTENDS Pipeline

CONSTANTS n1, n2  \* nodes

\* -mode active: baits and extraction run on other nodes.
Active ==
    [consumers |-> {"ACTIVE_EXTRACT", "ACTIVE_HP", "ACTIVE_EDGE"}, sources |-> {"honeypot", "extracted"}]

\* -mode extract.
Extract == [consumers |-> {"EXTRACT_CT", "EXTRACT_HP"}, sources |-> {"ct", "honeypot"}]

\* -mode enrich.
Enrich == [consumers |-> {"ENRICH_ART"}, sources |-> {"extracted"}]

\* -mode dispatch, sinkhole, publish.
Dispatch == [consumers |-> {"TAKEDOWN_DISPATCHER"}, sources |-> {"takedown"}]

AllModes == {Active, Extract, Enrich, Dispatch}

EnrichOnly == {Enrich}

ActiveOnly == {Active}

\* An artifact with a source address and a channel, one with a domain and
\* no address, and one below the minimum confidence.
SomeArtifacts ==
    {[confident |-> TRUE, ips |-> 1, channels |-> 1, domains |-> FALSE],
     [confident |-> TRUE, ips |-> 0, channels |-> 0, domains |-> TRUE],
     [confident |-> FALSE, ips |-> 1, channels |-> 0, domains |-> TRUE]}

\* One shutdown, but none in the mode whose handlers publish most.
Stops == [m \in Modes |-> IF m = Active THEN 0 ELSE 1]
=============================================================================
