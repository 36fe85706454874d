---------------------------- MODULE CatchLedger ----------------------------
(***************************************************************************)
(* The catch ledger: src/internal/catch/ledger.go.                         *)
(*                                                                         *)
(* Every bait, the policy engine, the active-defense controller, the       *)
(* deception recorder and the enrichment worker call Ledger.Record from    *)
(* goroutines of their own.  A call appends one line to events.jsonl (the  *)
(* audit trail), one to the daily shard, and then rewrites the dossier     *)
(* file of the record's address: read it, add the record, truncate it,     *)
(* write it.  A Ledger value serialises its own callers with its mutex.    *)
(* All Ledger values of a node share the directory, but each has a mutex   *)
(* of its own: LedgerOf says which Ledger value a caller uses.             *)
(*                                                                         *)
(* Data abstraction.  A dossier is a fold over records: HitCount counts    *)
(* them, Blocked is the disjunction of their blocked flags, MaxSeverity    *)
(* their maximum.  The model keeps the set of records folded into the file *)
(* and derives the hit count from it.  A missing, empty or unparsable file *)
(* reads as no dossier at all (json.Unmarshal leaves the zero Dossier and  *)
(* its error is dropped): all three fold no record, whereas a dossier that *)
(* was written folds at least one.                                         *)
(***************************************************************************)
EXTENDS Naturals, FiniteSets

CONSTANTS
    Callers,     \* the goroutines that call Record
    Ledgers,     \* the Ledger values opened on the directory
    LedgerOf,    \* LedgerOf[c]: the Ledger value caller c uses
    Flags,       \* Flags[c]: the values of Blocked in the records of caller c
    Hooked,      \* the Ledger values WithHook gave a notifier to
    IPs,         \* the addresses (dossier files)
    Free,        \* the value of a mutex nobody holds
    MaxRecords,  \* bound: Record calls in a behaviour
    MaxFaults    \* bound: operating-system failures and crashes in a behaviour

ASSUME LedgerAssumption ==
    /\ LedgerOf \in [Callers -> Ledgers]
    /\ Flags \in [Callers -> SUBSET BOOLEAN]
    /\ Hooked \subseteq Ledgers
    /\ Free \notin Callers
    /\ IPs # {}
    /\ MaxRecords \in Nat
    /\ MaxFaults \in Nat

VARIABLES
    pc,       \* where caller c is inside Record
    call,     \* the record caller c is recording
    buf,      \* the dossier caller c has in memory, its own record folded in
    mu,       \* Ledger.mu: the caller that holds it, or Free
    events,   \* events.jsonl
    shard,    \* caught-<day>.jsonl
    dossier,  \* dossier[ip]: dossier_<ip>.json
    hooks,    \* records whose hook goroutine was started and has not run
    told,     \* records the hook ran for
    acked,    \* records whose Record call returned nil
    nextId,   \* number of the next call (its CaughtAt and ID)
    faults    \* failures and crashes so far

vars == <<pc, call, buf, mu, events, shard, dossier, hooks, told, acked, nextId, faults>>

Record == [id : 0 .. MaxRecords, ip : IPs, blocked : BOOLEAN]

\* What an idle caller's local variables hold.
NoCall == [id |-> 0, ip |-> CHOOSE ip \in IPs : TRUE, blocked |-> FALSE]

Steps == {"idle", "lock", "append", "shard", "read", "truncate", "write", "hook", "return"}

\* The steps taken with Ledger.mu held.
Critical == {"append", "shard", "read", "truncate", "write", "hook", "return"}

-----------------------------------------------------------------------------
\* JSON-lines files.  lines: the records written whole; glued: those of them
\* that share a line with the debris of a short write, and so do not parse;
\* open: the file ends in such debris, without a newline.

EmptyFile == [lines |-> {}, glued |-> {}, open |-> FALSE]

File == [lines : SUBSET Record, glued : SUBSET Record, open : BOOLEAN]

\* Mutant: an append does not end the debris before it with its newline.
AppendLineStaysOpen(f, r) ==
    [lines |-> f.lines \cup {r},
     glued |-> IF f.open THEN f.glued \cup {r} ELSE f.glued,
     open  |-> f.open]

AppendLine(f, r) ==
    [lines |-> f.lines \cup {r},
     glued |-> IF f.open THEN f.glued \cup {r} ELSE f.glued,
     open  |-> FALSE]

\* An append that returned an error wrote nothing, or part of the line.
FailedAppend(f) == {f, [f EXCEPT !.open = TRUE]}

\* The records a reader gets back: unparsable lines are skipped.
ReadJSONL(f) == f.lines \ f.glued

\* Dossier files.  folded: the records the parsed file accounts for, none if
\* it does not parse; text: the file has bytes in it.

EmptyDossier == [folded |-> {}, text |-> FALSE]

DossierFile == [folded : SUBSET Record, text : BOOLEAN]

\* Writing a whole dossier at offset 0.  If another Ledger value wrote after
\* this caller truncated, a longer old text keeps its tail and nothing parses.
Overwrite(old, new) ==
    {[folded |-> new, text |-> TRUE]}
        \cup IF old.text THEN {[folded |-> {}, text |-> TRUE]} ELSE {}

\* A write that failed wrote nothing, or part of the text.
FailedWrite(old) == {old, [folded |-> {}, text |-> TRUE]}

OfAddress(S, ip) == {r \in S : r.ip = ip}

HitCount(ip) == Cardinality(dossier[ip].folded)

-----------------------------------------------------------------------------
Init ==
    /\ pc = [c \in Callers |-> "idle"]
    /\ call = [c \in Callers |-> NoCall]
    /\ buf = [c \in Callers |-> {}]
    /\ mu = [l \in Ledgers |-> Free]
    /\ events = EmptyFile
    /\ shard = EmptyFile
    /\ dossier = [ip \in IPs |-> EmptyDossier]
    /\ hooks = {}
    /\ told = {}
    /\ acked = {}
    /\ nextId = 1
    /\ faults = 0

Goto(c, from, to) == pc[c] = from /\ pc' = [pc EXCEPT ![c] = to]

\* The deferred Unlock and the return: the caller's locals are gone.
Leave(c, from) ==
    /\ Goto(c, from, "idle")
    /\ call' = [call EXCEPT ![c] = NoCall]
    /\ buf' = [buf EXCEPT ![c] = {}]
    /\ mu' = [mu EXCEPT ![LedgerOf[c]] = Free]

Fault == faults < MaxFaults /\ faults' = faults + 1

\* Mutant: Record goes on with a record whose address is missing.
CallWithoutAddress(c) ==
    /\ nextId <= MaxRecords
    /\ Goto(c, "idle", "lock")
    /\ call' = [call EXCEPT ![c] = [id |-> nextId, ip |-> "", blocked |-> FALSE]]
    /\ nextId' = nextId + 1
    /\ UNCHANGED <<buf, mu, events, shard, dossier, hooks, told, acked, faults>>

\* Record is called with an address; CaughtAt and ID are set before the lock.
Call(c) ==
    /\ nextId <= MaxRecords
    /\ Goto(c, "idle", "lock")
    /\ \E ip \in IPs, b \in Flags[c] :
          call' = [call EXCEPT ![c] = [id |-> nextId, ip |-> ip, blocked |-> b]]
    /\ nextId' = nextId + 1
    /\ UNCHANGED <<buf, mu, events, shard, dossier, hooks, told, acked, faults>>

\* Mutant: Record without Ledger.mu.
LockNothing(c) ==
    /\ Goto(c, "lock", "append")
    /\ mu' = [mu EXCEPT ![LedgerOf[c]] = c]
    /\ UNCHANGED <<call, buf, events, shard, dossier, hooks, told, acked, nextId, faults>>

Lock(c) ==
    /\ mu[LedgerOf[c]] = Free
    /\ Goto(c, "lock", "append")
    /\ mu' = [mu EXCEPT ![LedgerOf[c]] = c]
    /\ UNCHANGED <<call, buf, events, shard, dossier, hooks, told, acked, nextId, faults>>

AppendEvent(c) ==
    /\ Goto(c, "append", "shard")
    /\ events' = AppendLine(events, call[c])
    /\ UNCHANGED <<call, buf, mu, shard, dossier, hooks, told, acked, nextId, faults>>

\* Mutant: the error of the audit append is dropped, like the shard's.
AppendFailsIgnored(c) ==
    /\ Goto(c, "append", "shard")
    /\ Fault
    /\ events' \in FailedAppend(events)
    /\ UNCHANGED <<call, buf, mu, shard, dossier, hooks, told, acked, nextId>>

\* MkdirAll, the open or the write of events.jsonl fails: Record returns the error.
AppendFails(c) ==
    /\ Leave(c, "append")
    /\ Fault
    /\ events' \in FailedAppend(events)
    /\ UNCHANGED <<shard, dossier, hooks, told, acked, nextId>>

\* Mutant: the append waits for a shard that does not end in debris.
AppendShardWaits(c) ==
    \/ pc[c] = "shard" /\ shard.open /\ UNCHANGED vars
    \/ /\ Goto(c, "shard", "read") /\ ~shard.open
       /\ shard' = AppendLine(shard, call[c])
       /\ UNCHANGED <<call, buf, mu, events, dossier, hooks, told, acked, nextId, faults>>

\* Mutant: the hook is started before upsertDossier.
AppendShardHooked(c) ==
    /\ Goto(c, "shard", "read")
    /\ shard' = AppendLine(shard, call[c])
    /\ hooks' = hooks \cup {call[c]}
    /\ UNCHANGED <<call, buf, mu, events, dossier, told, acked, nextId, faults>>

AppendShard(c) ==
    /\ Goto(c, "shard", "read")
    /\ shard' = AppendLine(shard, call[c])
    /\ UNCHANGED <<call, buf, mu, events, dossier, hooks, told, acked, nextId, faults>>

\* The shard's error is dropped: the call goes on.
ShardFails(c) ==
    /\ Goto(c, "shard", "read")
    /\ Fault
    /\ shard' \in FailedAppend(shard)
    /\ UNCHANGED <<call, buf, mu, events, dossier, hooks, told, acked, nextId>>

\* Mutant: the dossier is built from the record alone.
ReadNothing(c) ==
    /\ Goto(c, "read", "truncate")
    /\ buf' = [buf EXCEPT ![c] = {call[c]}]
    /\ UNCHANGED <<call, mu, events, shard, dossier, hooks, told, acked, nextId, faults>>

ReadDossier(c) ==
    /\ Goto(c, "read", "truncate")
    /\ buf' = [buf EXCEPT ![c] = dossier[call[c].ip].folded \cup {call[c]}]
    /\ UNCHANGED <<call, mu, events, shard, dossier, hooks, told, acked, nextId, faults>>

\* ReadFile fails on a dossier that exists: upsertDossier takes it for a new
\* address and starts the dossier over.
ReadFails(c) ==
    /\ Goto(c, "read", "truncate")
    /\ Fault
    /\ buf' = [buf EXCEPT ![c] = {call[c]}]
    /\ UNCHANGED <<call, mu, events, shard, dossier, hooks, told, acked, nextId>>

\* os.WriteFile opens with O_TRUNC ...
TruncateDossier(c) ==
    /\ Goto(c, "truncate", "write")
    /\ dossier' = [dossier EXCEPT ![call[c].ip] = EmptyDossier]
    /\ UNCHANGED <<call, buf, mu, events, shard, hooks, told, acked, nextId, faults>>

\* ... or fails to open: the dossier stays as it was, and the event stays logged.
OpenFails(c) ==
    /\ Leave(c, "truncate")
    /\ Fault
    /\ UNCHANGED <<events, shard, dossier, hooks, told, acked, nextId>>

\* ... and then writes.
WriteDossier(c) ==
    /\ Goto(c, "write", "hook")
    /\ \E d \in Overwrite(dossier[call[c].ip], buf[c]) :
          dossier' = [dossier EXCEPT ![call[c].ip] = d]
    /\ UNCHANGED <<call, buf, mu, events, shard, hooks, told, acked, nextId, faults>>

\* A short write leaves a file that does not parse.
WriteFails(c) ==
    /\ Leave(c, "write")
    /\ Fault
    /\ \E d \in FailedWrite(dossier[call[c].ip]) :
          dossier' = [dossier EXCEPT ![call[c].ip] = d]
    /\ UNCHANGED <<events, shard, hooks, told, acked, nextId>>

\* Start the hook's goroutine if there is one, with the lock still held: the
\* hook may run before Record has returned.
StartHook(c) ==
    /\ Goto(c, "hook", "return")
    /\ hooks' = IF LedgerOf[c] \in Hooked THEN hooks \cup {call[c]} ELSE hooks
    /\ UNCHANGED <<call, buf, mu, events, shard, dossier, told, acked, nextId, faults>>

\* The deferred Unlock, and return nil.
Return(c) ==
    /\ Leave(c, "return")
    /\ acked' = acked \cup {call[c]}
    /\ UNCHANGED <<events, shard, dossier, hooks, told, nextId, faults>>

\* A hook goroutine runs, in any order relative to the others.
RunHook ==
    /\ \E r \in hooks : hooks' = hooks \ {r} /\ told' = told \cup {r}
    /\ UNCHANGED <<pc, call, buf, mu, events, shard, dossier, acked, nextId, faults>>

\* The process dies and is started again: files survive, goroutines do not.
\* Nothing replays the audit trail into the dossiers.
Crash ==
    /\ Fault
    /\ pc' = [c \in Callers |-> "idle"]
    /\ call' = [c \in Callers |-> NoCall]
    /\ buf' = [c \in Callers |-> {}]
    /\ mu' = [l \in Ledgers |-> Free]
    /\ hooks' = {}
    /\ UNCHANGED <<events, shard, dossier, told, acked, nextId>>

\* What Record does once it holds the lock, and how its calls to the system fail.
Advance(c) ==
    \/ AppendEvent(c) \/ AppendShard(c) \/ ReadDossier(c)
    \/ TruncateDossier(c) \/ WriteDossier(c) \/ StartHook(c) \/ Return(c)

Fails(c) ==
    \/ AppendFails(c) \/ ShardFails(c) \/ ReadFails(c)
    \/ OpenFails(c) \/ WriteFails(c)

\* Every call the bound allows was made and has returned.
Finished ==
    /\ nextId > MaxRecords /\ hooks = {} /\ \A c \in Callers : pc[c] = "idle"
    /\ UNCHANGED vars

Next ==
    \/ \E c \in Callers : Call(c) \/ Lock(c) \/ Advance(c) \/ Fails(c)
    \/ RunHook
    \/ Crash
    \/ Finished

Spec == Init /\ [][Next]_vars

\* The Go scheduler runs every runnable goroutine, and sync.Mutex hands the
\* lock to a waiter that starved for a millisecond.
Fairness ==
    /\ \A c \in Callers : SF_vars(Lock(c)) /\ WF_vars(Advance(c))
    /\ WF_vars(RunHook)

FairSpec == Spec /\ Fairness
-----------------------------------------------------------------------------
TypeOK ==
    /\ pc \in [Callers -> Steps]
    /\ call \in [Callers -> Record]
    /\ buf \in [Callers -> SUBSET Record]
    /\ mu \in [Ledgers -> Callers \cup {Free}]
    /\ events \in File
    /\ shard \in File
    /\ dossier \in [IPs -> DossierFile]
    /\ hooks \subseteq Record
    /\ told \subseteq Record
    /\ acked \subseteq Record
    /\ nextId \in Nat
    /\ faults \in Nat

\* The audit trail is primary (ledger.go: "Append-only audit trail (primary)"):
\* whatever the interleaving, the Ledger values, the failures and the crashes,
\* nothing derived - a daily shard, a dossier, a notification, a successful
\* return - ever mentions an event that events.jsonl does not hold, and no
\* dossier mentions an event of another address.
AuditIsPrimary ==
    /\ shard.lines \cup hooks \cup told \cup acked \subseteq events.lines
    /\ \A ip \in IPs : dossier[ip].folded \subseteq OfAddress(events.lines, ip)

\* An event whose Record returned nil can be read back, unless its line was
\* appended to the debris of a short write; each failure costs at most one
\* acknowledged event.
AuditLossBounded == Cardinality(acked \ ReadJSONL(events)) <= faults

\* Nobody is recording for ip.
Quiet(ip) == \A c \in Callers : pc[c] \in Critical => call[c].ip # ip

\* "Record writes an append-only audit event and updates the per-IP dossier":
\* as long as no system call failed, the hit count of a dossier nobody is
\* updating is the number of events of its address in the audit trail.
HitCountExact ==
    faults = 0 =>
        \A ip \in IPs : Quiet(ip) => HitCount(ip) = Cardinality(OfAddress(events.lines, ip))

\* Record comes back to every caller, whatever failed in the calls before it
\* (an error path that kept the mutex would stop every bait of the node).
EveryCallReturns == \A c \in Callers : pc[c] = "lock" ~> pc[c] = "idle"

\* The callers about to truncate, or to write, the dossier of ip.
At(step, ip) == {c \in Callers : pc[c] = step /\ call[c].ip = ip}

\* The records the dossier of ip accounts for, were the update in progress
\* undone (before the truncation) or finished (after it).
Committed(ip) ==
    {r \in events.lines :
        \/ \E c \in At("write", ip) : r \in buf[c]
        \/ \E c \in At("truncate", ip) : r \in buf[c] \ {call[c]}
        \/ At("truncate", ip) = {} /\ r \in dossier[ip].folded}

\* "OnRecord is invoked after a successful ledger write": a hook that is waiting
\* to run belongs to a call that has returned nil or is about to.  And as long as
\* nothing failed, whoever is told of a record finds it in the dossier of its
\* address, whichever Records have rewritten that since, or will when the rewrite
\* in progress is over.
HookAfterSuccess ==
    /\ \A r \in hooks : r \in acked \/ \E c \in Callers : pc[c] = "return" /\ call[c] = r
    /\ faults = 0 =>
           \A r \in hooks \cup told :
               r \in dossier[r.ip].folded \/ \E c \in At("write", r.ip) : r \in buf[c]

Store == INSTANCE IncidentStore
            WITH audit <- events.lines, summary <- [ip \in IPs |-> Committed(ip)]

\* Callers that share one Ledger value implement the abstract store: their
\* updates of a dossier never undo each other, and only a failed system call
\* can make a dossier forget.
ImplementsStore == Store!Spec
=============================================================================
