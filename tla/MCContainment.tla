--------------------------- MODULE MCContainment ---------------------------
(***************************************************************************)
(* TLC instances of Containment: the wiring of cmd/atde/main.go, where the *)
(* policy goroutines share one Blocker and the consumer of disrupt events  *)
(* has one of its own, and the node's configurations.                      *)
(***************************************************************************)
EXTENDS Containment

CONSTANTS hit1, hit2, consumer,  \* two policy goroutines and the consumer
          main, own,             \* Blocker values
          cloudflare, aws,       \* providers
          public, private        \* addresses

Wiring == [c \in Callers |-> IF c \in Policies THEN main ELSE own]

\* A live node with one cloud provider.
LiveNode == [local |-> TRUE, dry |-> FALSE, catch |-> FALSE, cloud |-> {cloudflare}]

\* A live node with every provider and the local firewall turned off.
CloudNode == [LiveNode EXCEPT !.local = FALSE, !.cloud = Providers]

\* A catch-node started with ATDE_DRY_RUN=1 and configs/config.yaml.
DryNode == [LiveNode EXCEPT !.dry = TRUE, !.catch = TRUE]

NodeConfigs == {LiveNode, CloudNode, DryNode}

LiveOnly == {LiveNode}

DryOnly == {DryNode}
=============================================================================
