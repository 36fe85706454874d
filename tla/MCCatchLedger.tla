--------------------------- MODULE MCCatchLedger ---------------------------
(***************************************************************************)
(* TLC instances of CatchLedger.                                           *)
(*                                                                         *)
(* The goroutines of a catch-node: one serves a bait (the shared Ledger    *)
(* value main gave the notifiers to, cmd/atde/main.go:161,191), one runs   *)
(* the policy engine, which main hands the same value, and one runs the    *)
(* active-defense controller, which opens a value of its own               *)
(* (disrupt/active/controller.go:41).                                      *)
(***************************************************************************)
EXTENDS CatchLedger

CONSTANTS bait, policy, active,  \* callers
          shared, own            \* Ledger values

\* A bait records hits, the policy engine the bans it applied, the controller
\* attempts that may have failed.
FlagsOfCaller ==
    [c \in Callers |-> IF c = bait THEN {FALSE} ELSE IF c = policy THEN {TRUE} ELSE BOOLEAN]

\* Every caller uses the shared value.
OneLedger == [c \in Callers |-> shared]

\* The wiring of main: the controller records through a value of its own.
WiredLedgers == [c \in Callers |-> IF c = active THEN own ELSE shared]
=============================================================================
