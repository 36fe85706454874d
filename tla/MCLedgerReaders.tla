--------------------------- MODULE MCLedgerReaders ---------------------------
(***************************************************************************)
(* Two addresses, two callers of one Ledger, and beside them a watch, a    *)
(* summary, or two abuse packs.                                            *)
(***************************************************************************)
EXTENDS LedgerReaders, TLC

CONSTANTS bait, policy,  \* callers
          shared         \* the Ledger value

OneLedger == [c \in Callers |-> shared]

\* The records are about different paths.
Probed == [i \in Calls |-> IF i = 2 THEN "/.env" ELSE "/login"]

\* The first is the most severe.
Graded == [i \in Calls |-> IF i = 1 THEN 90 ELSE 40]

\* What a record says of a ban is of no concern here.
NoFlag == [c \in Callers |-> {FALSE}]

\* Neither the callers of one Ledger nor the packs are told apart.
Alike == Permutations(Callers) \cup Permutations(Exports)
=============================================================================
