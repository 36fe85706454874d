---------------------------- MODULE Containment ----------------------------
(***************************************************************************)
(* Containment: src/internal/disrupt/edge (Blocker.EnforceContainment and  *)
(* the local firewall) and its two kinds of callers.                       *)
(*                                                                         *)
(* A policy goroutine (policy/engine.go, Enforce, one per hit) bans an     *)
(* address once, or twice for the cloud tier, never as a dry run, under a  *)
(* context of its own that is cancelled when it is done.  The consumer     *)
(* (active/controller.go, onDisrupt) takes one event at a time and passes  *)
(* on whether the node or the event is a dry run; its context never ends.  *)
(*                                                                         *)
(* EnforceContainment tries the operating system's firewall first, then    *)
(* starts one goroutine per cloud provider and waits for them, for twelve  *)
(* seconds at most.  The firewall is shared by the whole host; the         *)
(* LocalFirewall value (DryRun, ready, useSet, mu) belongs to a Blocker,   *)
(* and main and the controller each make one (cmd/atde/main.go:195,        *)
(* active/controller.go:39).                                               *)
(*                                                                         *)
(* Left out: the score guard (every caller passes at least 0.9), the       *)
(* Windows backend, the expiry of ipset entries after a day, and which of  *)
(* nft and iptables made a per-address rule.                               *)
(***************************************************************************)
EXTENDS Naturals, FiniteSets

CONSTANTS
    Policies,    \* policy goroutines
    Consumers,   \* consumers of disrupt events
    Blockers,    \* Blocker values; each is also its warm-up goroutine
    BlockerOf,   \* BlockerOf[c]: the Blocker caller c uses
    IPs,         \* addresses
    Public,      \* those that are neither private, local, TEST-NET nor invalid
    Providers,   \* cloud providers
    Configs,     \* configurations the node may run with
    Free,        \* the value of a mutex nobody holds
    MaxCalls,    \* bound: EnforceContainment calls in a behaviour
    MaxFaults    \* bound: failed commands, expired contexts and restarts

Callers == Policies \cup Consumers

\* A goroutine that may prepare the firewall: a caller or a warm-up.
Procs == Callers \cup Blockers

Ids == 1 .. MaxCalls

\* local: EdgeConfig.LocalFirewall; dry: the node's dry run, which the
\* configuration cascades to EdgeConfig.DryRun and to the controller; catch:
\* the catch-node mode; cloud: the providers with credentials.
Config == [local : BOOLEAN, dry : BOOLEAN, catch : BOOLEAN, cloud : SUBSET Providers]

ASSUME ContainmentAssumption ==
    /\ BlockerOf \in [Callers -> Blockers]
    /\ Policies \cap Consumers = {} /\ Callers \cap Blockers = {}
    /\ IsFiniteSet(Blockers) /\ IsFiniteSet(Providers)
    /\ IPs # {} /\ Public \subseteq IPs
    /\ Configs \subseteq Config
    /\ Free \notin Procs
    /\ MaxCalls \in Nat /\ MaxFaults \in Nat

\* Only policy goroutines share a Blocker: main makes one for the policy engine
\* and the controller one for its consumer.
ASSUME WiringAssumption ==
    \A c, d \in Callers : BlockerOf[c] = BlockerOf[d] => c = d \/ {c, d} \subseteq Policies

VARIABLES
    conf,     \* the node's configuration
    pc,       \* where each process is
    call,     \* call[c]: the call caller c is in
    localOK,  \* localOK[c]: Result.LocalOK of that call
    tried,    \* tried[c]: CloudTried in the memory of that call
    errors,   \* errors[c]: CloudErrors in the memory of that call
    seen,     \* seen[c]: CloudTried as EnforceContainment returned it to c
    late,     \* late[c]: c stopped waiting before its cloud goroutines ended
    tasks,    \* cloud goroutines that have not ended
    expired,  \* calls whose context is done
    dryRun,   \* dryRun[b]: LocalFirewall.DryRun
    ready,    \* ready[b]: LocalFirewall.ready
    useSet,   \* useSet[b]: LocalFirewall.useSet
    mu,       \* mu[b]: LocalFirewall.mu
    fw,       \* the host's firewall
    cloud,    \* addresses some provider bans
    reports,  \* what callers recorded in the ledger
    asked,    \* every call that was made
    faults    \* failures so far

blockerVars == <<dryRun, ready, useSet, mu>>
resultVars  == <<localOK, tried, errors, seen, late>>
taskVars    == <<tasks, expired, cloud>>
logVars     == <<reports, asked>>
vars == <<conf, pc, call, blockerVars, resultVars, taskVars, logVars, fw, faults>>

Request == [id : 0 .. MaxCalls, ip : IPs, dry : BOOLEAN]

NoRequest == [id |-> 0, ip |-> CHOOSE ip \in IPs : TRUE, dry |-> FALSE]

Task == [caller : Callers, id : Ids, ip : IPs, provider : Providers, started : BOOLEAN]

Report == [id : Ids, ip : IPs, dry : BOOLEAN, local : BOOLEAN, blocked : BOOLEAN, late : BOOLEAN]

\* hooks: copies of the iptables rule that drops the members of the set.
Firewall == [set : BOOLEAN, hooks : Nat, members : SUBSET IPs, rules : SUBSET IPs]

Steps == {"idle", "begin", "local", "decide", "ensure", "lock", "create", "check", "insert",
          "backend", "addset", "addrule", "spawn", "wait", "copy", "report"}

\* The steps of setupIPSet, taken with LocalFirewall.mu held.
Setup == {"create", "check", "insert"}

BlockerAt(p) == IF p \in Blockers THEN p ELSE BlockerOf[p]

\* The host drops packets from ip.
Dropped(ip) == ip \in fw.rules \/ (ip \in fw.members /\ fw.hooks > 0)

\* main gives the policy engine a Blocker only if the local firewall is
\* configured and the node is a catch-node or live.
PolicyWired == conf.local /\ (conf.catch \/ ~conf.dry)

-----------------------------------------------------------------------------
\* A process that has just been started: every Blocker warms up.
Booted ==
    /\ pc' = [p \in Procs |-> IF p \in Blockers THEN "ensure" ELSE "idle"]
    /\ call' = [c \in Callers |-> NoRequest]
    /\ localOK' = [c \in Callers |-> FALSE]
    /\ tried' = [c \in Callers |-> {}]
    /\ errors' = [c \in Callers |-> {}]
    /\ seen' = [c \in Callers |-> {}]
    /\ late' = [c \in Callers |-> FALSE]
    /\ tasks' = {}
    /\ dryRun' = [b \in Blockers |-> conf.dry]
    /\ ready' = [b \in Blockers |-> FALSE]
    /\ useSet' = [b \in Blockers |-> FALSE]
    /\ mu' = [b \in Blockers |-> Free]

Init ==
    /\ conf \in Configs
    /\ pc = [p \in Procs |-> IF p \in Blockers THEN "ensure" ELSE "idle"]
    /\ call = [c \in Callers |-> NoRequest]
    /\ localOK = [c \in Callers |-> FALSE]
    /\ tried = [c \in Callers |-> {}]
    /\ errors = [c \in Callers |-> {}]
    /\ seen = [c \in Callers |-> {}]
    /\ late = [c \in Callers |-> FALSE]
    /\ tasks = {}
    /\ expired = {}
    /\ dryRun = [b \in Blockers |-> conf.dry]
    /\ ready = [b \in Blockers |-> FALSE]
    /\ useSet = [b \in Blockers |-> FALSE]
    /\ mu = [b \in Blockers |-> Free]
    /\ fw = [set |-> FALSE, hooks |-> 0, members |-> {}, rules |-> {}]
    /\ cloud = {}
    /\ reports = {}
    /\ asked = {}
    /\ faults = 0

Goto(p, from, to) == pc[p] = from /\ pc' = [pc EXCEPT ![p] = to]

Fault == faults < MaxFaults /\ faults' = faults + 1

\* A command runs unless the context of the call is done.
Alive(p) == p \in Callers => call[p].id \notin expired

CommandFails(p) == IF Alive(p) THEN Fault ELSE UNCHANGED faults

\* After the local attempt: a dry run returns, the others go to the cloud.
AfterLocal(c) == IF call[c].dry THEN "report" ELSE "spawn"

\* After EnsureReady: a warm-up is over, a caller looks up the backend.
AfterEnsure(p) == IF p \in Blockers THEN "idle" ELSE "backend"

-----------------------------------------------------------------------------
\* A call of EnforceContainment begins.  Its Result is empty.
Ask(c, ip, dry) ==
    /\ Cardinality(asked) < MaxCalls
    /\ LET request == [id |-> Cardinality(asked) + 1, ip |-> ip, dry |-> dry]
       IN /\ call' = [call EXCEPT ![c] = request]
          /\ asked' = asked \cup {request}
    /\ localOK' = [localOK EXCEPT ![c] = FALSE]
    /\ tried' = [tried EXCEPT ![c] = {}]
    /\ errors' = [errors EXCEPT ![c] = {}]
    /\ seen' = [seen EXCEPT ![c] = {}]
    /\ late' = [late EXCEPT ![c] = FALSE]

\* A hit makes the policy engine ban its address.
PolicyCalls(c) ==
    /\ c \in Policies /\ PolicyWired
    /\ Goto(c, "idle", "begin")
    /\ \E ip \in IPs : Ask(c, ip, FALSE)
    /\ UNCHANGED <<conf, blockerVars, taskVars, reports, fw, faults>>

\* A disrupt event with the block action is delivered.
ConsumerCalls(c) ==
    /\ c \in Consumers
    /\ Goto(c, "idle", "begin")
    /\ \E ip \in IPs, event \in BOOLEAN : Ask(c, ip, conf.dry \/ event)
    /\ UNCHANGED <<conf, blockerVars, taskVars, reports, fw, faults>>

\* A private address is recorded only.
SkipPrivate(c) ==
    /\ call[c].ip \notin Public
    /\ Goto(c, "begin", "report")
    /\ UNCHANGED <<conf, call, blockerVars, resultVars, taskVars, logVars, fw, faults>>

SkipLocal(c) ==
    /\ call[c].ip \in Public /\ ~conf.local
    /\ Goto(c, "begin", AfterLocal(c))
    /\ UNCHANGED <<conf, call, blockerVars, resultVars, taskVars, logVars, fw, faults>>

\* Mutant: DryRun keeps the value the Blocker was made with.
SetDryRunNever(c) ==
    /\ call[c].ip \in Public /\ conf.local
    /\ Goto(c, "begin", "decide")
    /\ UNCHANGED <<conf, call, blockerVars, resultVars, taskVars, logVars, fw, faults>>

\* b.local.DryRun = dry, with no lock held.
SetDryRun(c) ==
    /\ call[c].ip \in Public /\ conf.local
    /\ Goto(c, "begin", "decide")
    /\ dryRun' = [dryRun EXCEPT ![BlockerOf[c]] = call[c].dry]
    /\ UNCHANGED <<conf, call, ready, useSet, mu, resultVars, taskVars, logVars, fw, faults>>

\* BlockIP reads DryRun back: a dry run succeeds without doing anything.
DryBlock(c) ==
    /\ dryRun[BlockerOf[c]]
    /\ Goto(c, "decide", AfterLocal(c))
    /\ localOK' = [localOK EXCEPT ![c] = TRUE]
    /\ UNCHANGED <<conf, call, blockerVars, tried, errors, seen, late, taskVars, logVars, fw, faults>>

RealBlock(c) ==
    /\ ~dryRun[BlockerOf[c]]
    /\ Goto(c, "decide", "ensure")
    /\ UNCHANGED <<conf, call, blockerVars, resultVars, taskVars, logVars, fw, faults>>

-----------------------------------------------------------------------------
\* EnsureReady, by a caller or a warm-up.  The local firewall may be disabled
\* and DryRun is read once more.
NothingToPrepare(p) ==
    /\ ~conf.local \/ dryRun[BlockerAt(p)]
    /\ Goto(p, "ensure", AfterEnsure(p))
    /\ UNCHANGED <<conf, call, blockerVars, resultVars, taskVars, logVars, fw, faults>>

Prepare(p) ==
    /\ conf.local /\ ~dryRun[BlockerAt(p)]
    /\ Goto(p, "ensure", "lock")
    /\ UNCHANGED <<conf, call, blockerVars, resultVars, taskVars, logVars, fw, faults>>

\* Mutant: EnsureReady without the lock.
LockSetupNothing(p) ==
    /\ IF ready[BlockerAt(p)]
       THEN Goto(p, "lock", AfterEnsure(p)) /\ mu' = mu
       ELSE Goto(p, "lock", "create") /\ mu' = [mu EXCEPT ![BlockerAt(p)] = p]
    /\ UNCHANGED <<conf, call, dryRun, ready, useSet, resultVars, taskVars, logVars, fw, faults>>

\* Take the lock; if the firewall is ready, give it back at once.
LockSetup(p) ==
    /\ mu[BlockerAt(p)] = Free
    /\ IF ready[BlockerAt(p)]
       THEN Goto(p, "lock", AfterEnsure(p)) /\ mu' = mu
       ELSE Goto(p, "lock", "create") /\ mu' = [mu EXCEPT ![BlockerAt(p)] = p]
    /\ UNCHANGED <<conf, call, dryRun, ready, useSet, resultVars, taskVars, logVars, fw, faults>>

\* Mutant: the set is used even if setupIPSet failed.
SetupEndsUsable(p, from, ok) ==
    /\ Goto(p, from, AfterEnsure(p))
    /\ ready' = [ready EXCEPT ![BlockerAt(p)] = TRUE]
    /\ useSet' = [useSet EXCEPT ![BlockerAt(p)] = TRUE]
    /\ mu' = [mu EXCEPT ![BlockerAt(p)] = Free]
    /\ UNCHANGED <<conf, call, dryRun, resultVars, taskVars, logVars>>

\* setupIPSet returned: remember whether the set can be used, and unlock.
SetupEnds(p, from, ok) ==
    /\ Goto(p, from, AfterEnsure(p))
    /\ ready' = [ready EXCEPT ![BlockerAt(p)] = TRUE]
    /\ useSet' = [useSet EXCEPT ![BlockerAt(p)] = ok]
    /\ mu' = [mu EXCEPT ![BlockerAt(p)] = Free]
    /\ UNCHANGED <<conf, call, dryRun, resultVars, taskVars, logVars>>

CreateSet(p) ==
    /\ Alive(p)
    /\ Goto(p, "create", "check")
    /\ fw' = [fw EXCEPT !.set = TRUE]
    /\ UNCHANGED <<conf, call, blockerVars, resultVars, taskVars, logVars, faults>>

CreateSetFails(p) == SetupEnds(p, "create", FALSE) /\ CommandFails(p) /\ UNCHANGED fw

\* iptables -C: is the rule there?
HookPresent(p) ==
    /\ Alive(p)
    /\ fw.hooks > 0
    /\ SetupEnds(p, "check", TRUE)
    /\ UNCHANGED <<fw, faults>>

HookAbsent(p) ==
    /\ Alive(p)
    /\ fw.hooks = 0
    /\ Goto(p, "check", "insert")
    /\ UNCHANGED <<conf, call, blockerVars, resultVars, taskVars, logVars, fw, faults>>

\* A check that fails for any other reason is taken for "absent".
HookCheckFails(p) ==
    /\ Goto(p, "check", "insert")
    /\ CommandFails(p)
    /\ UNCHANGED <<conf, call, blockerVars, resultVars, taskVars, logVars, fw>>

InsertHook(p) ==
    /\ Alive(p)
    /\ SetupEnds(p, "insert", TRUE)
    /\ fw' = [fw EXCEPT !.hooks = @ + 1]
    /\ UNCHANGED faults

InsertHookFails(p) == SetupEnds(p, "insert", FALSE) /\ CommandFails(p) /\ UNCHANGED fw

-----------------------------------------------------------------------------
\* BlockIP reads useSet under the lock.
ChooseBackend(c) ==
    /\ mu[BlockerOf[c]] = Free
    /\ Goto(c, "backend", IF useSet[BlockerOf[c]] THEN "addset" ELSE "addrule")
    /\ UNCHANGED <<conf, call, blockerVars, resultVars, taskVars, logVars, fw, faults>>

AddToSet(c) ==
    /\ Alive(c)
    /\ fw.set
    /\ Goto(c, "addset", AfterLocal(c))
    /\ fw' = [fw EXCEPT !.members = @ \cup {call[c].ip}]
    /\ localOK' = [localOK EXCEPT ![c] = TRUE]
    /\ UNCHANGED <<conf, call, blockerVars, tried, errors, seen, late, taskVars, logVars, faults>>

AddRule(c) ==
    /\ Alive(c)
    /\ Goto(c, "addrule", AfterLocal(c))
    /\ fw' = [fw EXCEPT !.rules = @ \cup {call[c].ip}]
    /\ localOK' = [localOK EXCEPT ![c] = TRUE]
    /\ UNCHANGED <<conf, call, blockerVars, tried, errors, seen, late, taskVars, logVars, faults>>

\* The command fails: LocalErr, and the cloud is tried all the same.
BlockFails(c) ==
    /\ Goto(c, "addset", AfterLocal(c)) \/ Goto(c, "addrule", AfterLocal(c))
    /\ CommandFails(c)
    /\ UNCHANGED <<conf, call, blockerVars, resultVars, taskVars, logVars, fw>>

-----------------------------------------------------------------------------
\* One goroutine for each provider with credentials.
Spawn(c) ==
    /\ Goto(c, "spawn", "wait")
    /\ tasks' = tasks \cup
          {[caller |-> c, id |-> call[c].id, ip |-> call[c].ip, provider |-> p, started |-> FALSE] :
              p \in conf.cloud}
    /\ UNCHANGED <<conf, call, blockerVars, resultVars, expired, cloud, logVars, fw, faults>>

\* Appending to a slice of the Result the goroutine was started for; once its
\* caller is in a later call, nobody reads that Result any more.
Append(slice, t) ==
    IF call[t.caller].id = t.id
    THEN [slice EXCEPT ![t.caller] = @ \cup {t.provider}]
    ELSE slice

TaskStarts(t) ==
    /\ ~t.started
    /\ tasks' = (tasks \ {t}) \cup {[t EXCEPT !.started = TRUE]}
    /\ tried' = Append(tried, t)
    /\ UNCHANGED <<conf, pc, call, blockerVars, localOK, errors, seen, late, expired, cloud, logVars, fw, faults>>

TaskBans(t) ==
    /\ t.started /\ t.id \notin expired
    /\ tasks' = tasks \ {t}
    /\ cloud' = cloud \cup {t.ip}
    /\ UNCHANGED <<conf, pc, call, blockerVars, resultVars, expired, logVars, fw, faults>>

\* The provider refuses, does not answer, or the context is done; the ban may
\* be in force although its answer was lost.
TaskFails(t) ==
    /\ t.started
    /\ tasks' = tasks \ {t}
    /\ cloud' \in {cloud, cloud \cup {t.ip}}
    /\ errors' = Append(errors, t)
    /\ UNCHANGED <<conf, pc, call, blockerVars, localOK, tried, seen, late, expired, logVars, fw, faults>>

\* The goroutines of the calls of c, earlier ones included.
LeftBy(c) == {t \in tasks : t.caller = c}

TasksOf(c) == {t \in tasks : t.id = call[c].id}

WaitEnds(c) ==
    /\ TasksOf(c) = {}
    /\ Goto(c, "wait", "copy")
    /\ UNCHANGED <<conf, call, blockerVars, resultVars, taskVars, logVars, fw, faults>>

\* Mutant: no timer, only the context ends the wait.
WaitForContext(c) ==
    /\ TasksOf(c) # {} /\ call[c].id \in expired
    /\ Goto(c, "wait", "copy")
    /\ late' = [late EXCEPT ![c] = TRUE]
    /\ UNCHANGED <<conf, call, blockerVars, localOK, tried, errors, seen, taskVars, logVars, fw, faults>>

\* Twelve seconds have passed, or the context is done.
WaitTimesOut(c) ==
    /\ TasksOf(c) # {}
    /\ Goto(c, "wait", "copy")
    /\ late' = [late EXCEPT ![c] = TRUE]
    /\ UNCHANGED <<conf, call, blockerVars, localOK, tried, errors, seen, taskVars, logVars, fw, faults>>

\* return res copies the Result field by field, CloudTried first, without the
\* lock the goroutines append under.
CopyTried(c) ==
    /\ Goto(c, "copy", "report")
    /\ seen' = [seen EXCEPT ![c] = tried[c]]
    /\ UNCHANGED <<conf, call, blockerVars, localOK, tried, errors, late, taskVars, logVars, fw, faults>>

\* Mutant: the record is made without its address.
ReportWithoutAddress(c, blocked) ==
    [id |-> call[c].id, ip |-> "", dry |-> call[c].dry,
     local |-> localOK[c], blocked |-> blocked, late |-> late[c]]

\* The Result as the caller gets it, CloudErrors copied last, and what the
\* caller makes of it.
ReportOf(c, blocked) ==
    [id |-> call[c].id, ip |-> call[c].ip, dry |-> call[c].dry,
     local |-> localOK[c], blocked |-> blocked, late |-> late[c]]

\* Mutant: no provider at all counts as a success.
CloudDidNotLose(c) == Cardinality(seen[c]) >= Cardinality(errors[c])

CloudWon(c) == Cardinality(seen[c]) > Cardinality(errors[c])

\* The caller is done with its call.
Forget(c) ==
    /\ call' = [call EXCEPT ![c] = NoRequest]
    /\ localOK' = [localOK EXCEPT ![c] = FALSE]
    /\ tried' = [tried EXCEPT ![c] = {}]
    /\ errors' = [errors EXCEPT ![c] = {}]
    /\ seen' = [seen EXCEPT ![c] = {}]
    /\ late' = [late EXCEPT ![c] = FALSE]

\* The consumer records the attempt, whatever came of it.
ConsumerReports(c) ==
    /\ c \in Consumers
    /\ Goto(c, "report", "idle")
    /\ reports' = reports \cup {ReportOf(c, localOK[c] \/ CloudWon(c))}
    /\ Forget(c)
    /\ UNCHANGED <<conf, blockerVars, taskVars, asked, fw, faults>>

\* The policy engine records a ban the local firewall took.
PolicyRecord(c) == reports' = IF localOK[c] THEN reports \cup {ReportOf(c, TRUE)} ELSE reports

\* The cloud tier: local_ban is followed by cloud_escalate, the same call in
\* the same context.
PolicyEscalates(c) ==
    /\ c \in Policies
    /\ Goto(c, "report", "begin")
    /\ PolicyRecord(c)
    /\ Ask(c, call[c].ip, FALSE)
    /\ expired' = IF call[c].id \in expired THEN expired \cup {call'[c].id} ELSE expired
    /\ UNCHANGED <<conf, blockerVars, tasks, cloud, fw, faults>>

\* Apply has returned: the deferred cancel ends the context of the goroutines
\* it left behind.
PolicyReturns(c) ==
    /\ c \in Policies
    /\ Goto(c, "report", "idle")
    /\ PolicyRecord(c)
    /\ expired' = expired \cup {t.id : t \in LeftBy(c)}
    /\ Forget(c)
    /\ UNCHANGED <<conf, blockerVars, tasks, cloud, asked, fw, faults>>

\* The twenty seconds of a policy goroutine are over.
ContextExpires(c) ==
    /\ c \in Policies /\ pc[c] # "idle" /\ call[c].id \notin expired
    /\ Fault
    /\ expired' = expired \cup {call[c].id} \cup {t.id : t \in LeftBy(c)}
    /\ UNCHANGED <<conf, pc, call, blockerVars, resultVars, tasks, cloud, logVars, fw>>

\* The process dies and is started again.  The firewall, the providers and
\* the ledger keep what they hold.
Restart ==
    /\ Fault
    /\ Booted
    /\ UNCHANGED <<conf, expired, cloud, logVars, fw>>

-----------------------------------------------------------------------------
EnsureReady(p) ==
    \/ NothingToPrepare(p) \/ Prepare(p) \/ LockSetup(p)
    \/ CreateSet(p) \/ CreateSetFails(p) \/ HookPresent(p) \/ HookAbsent(p) \/ HookCheckFails(p)
    \/ InsertHook(p) \/ InsertHookFails(p)

BlockIP(c) == DryBlock(c) \/ RealBlock(c) \/ ChooseBackend(c) \/ AddToSet(c) \/ AddRule(c) \/ BlockFails(c)

EnforceContainment(c) ==
    \/ SkipPrivate(c) \/ SkipLocal(c) \/ SetDryRun(c) \/ BlockIP(c)
    \/ Spawn(c) \/ WaitEnds(c) \/ WaitTimesOut(c) \/ CopyTried(c)

Reports(c) == ConsumerReports(c) \/ PolicyEscalates(c) \/ PolicyReturns(c)

CloudTask(t) == TaskStarts(t) \/ TaskBans(t) \/ TaskFails(t)

\* Every call the bound allows was made, and everything they started is over.
Finished ==
    /\ Cardinality(asked) = MaxCalls \/ (Consumers = {} /\ ~PolicyWired)
    /\ \A p \in Procs : pc[p] = "idle"
    /\ tasks = {}
    /\ UNCHANGED vars

Next ==
    \/ \E c \in Callers :
          PolicyCalls(c) \/ ConsumerCalls(c) \/ EnforceContainment(c) \/ Reports(c) \/ ContextExpires(c)
    \/ \E p \in Procs : EnsureReady(p)
    \/ \E t \in tasks : CloudTask(t)
    \/ Restart
    \/ Finished

Spec == Init /\ [][Next]_vars

\* A goroutine in the middle of something.
Runs(p) == EnsureReady(p) \/ (p \in Callers /\ (EnforceContainment(p) \/ Reports(p)))

\* Goroutines are scheduled, timers fire and commands end, well or not.  The
\* mutex needs no more than that: once setup is over nobody holds it for long.
\* Nothing is assumed of the providers.
Fairness == \A p \in Procs : WF_vars(Runs(p))

FairSpec == Spec /\ Fairness
-----------------------------------------------------------------------------
TypeOK ==
    /\ conf \in Configs
    /\ pc \in [Procs -> Steps]
    /\ call \in [Callers -> Request]
    /\ localOK \in [Callers -> BOOLEAN]
    /\ tried \in [Callers -> SUBSET Providers]
    /\ errors \in [Callers -> SUBSET Providers]
    /\ seen \in [Callers -> SUBSET Providers]
    /\ late \in [Callers -> BOOLEAN]
    /\ tasks \subseteq Task
    /\ expired \subseteq Ids
    /\ dryRun \in [Blockers -> BOOLEAN]
    /\ ready \in [Blockers -> BOOLEAN]
    /\ useSet \in [Blockers -> BOOLEAN]
    /\ mu \in [Blockers -> Procs \cup {Free}]
    /\ fw \in Firewall
    /\ cloud \subseteq IPs
    /\ reports \subseteq Report
    /\ asked \subseteq Request
    /\ faults \in Nat

\* A dry run touches nothing, although the DryRun flag it sets is shared with
\* the other calls on its Blocker and with its warm-up, and is read twice: an
\* address is only ever banned, by the host or by a provider, if some call
\* that was no dry run asked for it, and never if it is private.
OnlyAskedBans ==
    fw.members \cup fw.rules \cup cloud \subseteq {r.ip : r \in {q \in asked : ~q.dry}} \cap Public

\* "Bind once: DROP sources in the set": a Blocker inserts the iptables rule
\* at most once in the life of the process, whoever of its callers and its
\* warm-up comes first.  The check with iptables -C does not go further than
\* that: two Blockers may both find no rule, and the node has two.
HookPerBlocker == fw.hooks <= Cardinality(Blockers) + faults

\* When a call that was no dry run says that the local firewall took the ban,
\* the host drops the address, although useSet was read before the command
\* ran and other Blockers change the same firewall.
LocalOKDrops ==
    /\ \A r \in reports : r.local /\ ~r.dry => Dropped(r.ip)
    /\ \A c \in Callers : localOK[c] /\ ~call[c].dry => Dropped(call[c].ip)

\* A record that says blocked, of a call that was no dry run and that waited
\* for its providers, is about an address that somebody bans.
BlockedIsBanned ==
    \A r \in reports : r.blocked /\ ~r.dry /\ ~r.late => Dropped(r.ip) \/ r.ip \in cloud

\* EnforceContainment returns and its caller goes on, even if no provider ever
\* answers.
CallReturns == \A c \in Callers : pc[c] = "begin" ~> pc[c] = "idle"

\* DEPLOY.md: "ATDE_DRY_RUN=1: Force simulation everywhere".
SimulationEverywhere == conf.dry => fw.members \cup fw.rules \cup cloud = {}
=============================================================================
