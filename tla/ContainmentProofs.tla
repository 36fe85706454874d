------------------------- MODULE ContainmentProofs -------------------------
(***************************************************************************)
(* Theorems about Containment, for every number of callers, Blockers,      *)
(* providers, addresses, calls and failures.                               *)
(***************************************************************************)
EXTENDS Containment, FiniteSetTheorems, TLAPS

\* Every call has a number of its own, and two callers are never in the same
\* call; a caller that is idle has none.
Numbered ==
    /\ IsFiniteSet(asked) /\ Cardinality(asked) <= MaxCalls
    /\ \A r \in asked : r.id \in 1 .. Cardinality(asked)
    /\ \A r, q \in asked : r.id = q.id => r = q
    /\ \A c \in Callers : IF pc[c] = "idle" THEN call[c] = NoRequest ELSE call[c] \in asked
    /\ \A c, d \in Callers : pc[c] # "idle" /\ call[c] = call[d] => c = d

TypeInv == TypeOK /\ Numbered

\* The request that stands for "no call" is none of those that were made.
LEMMA NoRequestType ==
    /\ NoRequest \in Request
    /\ NoRequest.id = 0 /\ ~NoRequest.dry
<1>1. (CHOOSE ip \in IPs : TRUE) \in IPs
  BY ContainmentAssumption
<1> QED
  BY <1>1, ContainmentAssumption DEF NoRequest, Request

\* What making a call adds, by an idle caller or by one that reports.
LEMMA AskNumbers ==
    ASSUME TypeInv, NEW c \in Callers, NEW ip \in IPs, NEW dry \in BOOLEAN,
           Ask(c, ip, dry),
           pc'[c] # "idle", \A d \in Callers \ {c} : pc'[d] = pc[d]
    PROVE  /\ Numbered'
           /\ call'[c] = [id |-> Cardinality(asked) + 1, ip |-> ip, dry |-> dry]
           /\ call'[c] \in Request /\ call'[c].id \in Ids
           /\ call' = [call EXCEPT ![c] = call'[c]]
           /\ asked' = asked \cup {call'[c]}
           /\ Cardinality(asked') = Cardinality(asked) + 1
           /\ Cardinality(asked) \in Nat
<1> DEFINE n == Cardinality(asked)
           r == [id |-> n + 1, ip |-> ip, dry |-> dry]
<1>1. n \in Nat /\ n < MaxCalls
  BY FS_CardinalityType DEF TypeInv, Numbered, Ask
<1>2. r \notin asked
  BY <1>1 DEF TypeInv, Numbered
<1>3. call' = [call EXCEPT ![c] = r] /\ asked' = asked \cup {r}
  BY DEF Ask
<1>4. IsFiniteSet(asked') /\ Cardinality(asked') = n + 1
  BY <1>2, <1>3, FS_AddElement DEF TypeInv, Numbered
<1>5. call'[c] = r /\ \A d \in Callers \ {c} : call'[d] = call[d]
  BY <1>3 DEF TypeInv, TypeOK
<1>6. r \in Request /\ r.id \in Ids
  BY <1>1, ContainmentAssumption DEF Request, Ids
<1>7. Numbered'
  <2> HIDE DEF n, r
  <2>0. n = Cardinality(asked) /\ r.id = n + 1
    BY DEF n, r
  <2>1. \A q \in asked' : q.id \in 1 .. Cardinality(asked')
    BY <1>1, <1>3, <1>4, <2>0 DEF TypeInv, Numbered
  <2>2. \A q, s \in asked' : q.id = s.id => q = s
    BY <1>1, <1>3, <2>0 DEF TypeInv, Numbered
  <2>3. \A d \in Callers : IF pc'[d] = "idle" THEN call'[d] = NoRequest ELSE call'[d] \in asked'
    BY <1>3, <1>5 DEF TypeInv, Numbered
  <2>4. \A d, e \in Callers : pc'[d] # "idle" /\ call'[d] = call'[e] => d = e
    <3>1. \A d \in Callers \ {c} : call'[d] # r
      BY <1>1, <1>2, <1>5, <2>0, NoRequestType DEF TypeInv, Numbered
    <3> QED
      BY <3>1, <1>5 DEF TypeInv, Numbered
  <2> QED
    BY <1>1, <1>4, <2>1, <2>2, <2>3, <2>4, ContainmentAssumption DEF Numbered
<1> QED
  BY <1>1, <1>3, <1>4, <1>5, <1>6, <1>7

\* Nobody begins or ends a call.
LEMMA NumberedFrame ==
    ASSUME Numbered, UNCHANGED <<call, asked>>,
           \A c \in Callers : pc'[c] = "idle" <=> pc[c] = "idle"
    PROVE  Numbered'
BY DEF Numbered

\* A caller that is done with its call forgets it.
LEMMA ForgetNumbers ==
    ASSUME TypeInv, NEW c \in Callers, Forget(c), asked' = asked, Goto(c, "report", "idle")
    PROVE  Numbered'
<1>1. call'[c] = NoRequest /\ pc'[c] = "idle"
  BY DEF Forget, Goto, TypeInv, TypeOK, Procs
<1>2. \A d \in Callers \ {c} : call'[d] = call[d] /\ pc'[d] = pc[d]
  BY DEF Forget, Goto, TypeInv, TypeOK, Procs
<1>3. \A d \in Callers : pc[d] # "idle" => call[d] # NoRequest
  BY NoRequestType DEF TypeInv, Numbered
<1> QED
  BY <1>1, <1>2, <1>3 DEF TypeInv, Numbered

\* The number of a call being made is a bounded one.
LEMMA CallIds ==
    ASSUME TypeInv, NEW c \in Callers, pc[c] # "idle"
    PROVE  call[c].id \in Ids /\ call[c] \in asked
<1>1. Cardinality(asked) \in Nat
  BY FS_CardinalityType DEF TypeInv, Numbered
<1> QED
  BY <1>1, ContainmentAssumption DEF TypeInv, Numbered, Ids

\* What an action of EnsureReady leaves alone.
LEMMA EnsureFrame ==
    ASSUME NEW p \in Procs, EnsureReady(p)
    PROVE  /\ UNCHANGED <<conf, call, dryRun, resultVars, taskVars, logVars>>
           /\ fw' = fw \/ fw' = [fw EXCEPT !.set = TRUE] \/ fw' = [fw EXCEPT !.hooks = @ + 1]
           /\ faults' = faults \/ faults' = faults + 1
           /\ \E s \in {"lock", "create", "check", "insert", "idle", "backend"} :
                 /\ pc' = [pc EXCEPT ![p] = s]
                 /\ s = "idle" <=> p \in Blockers /\ s \notin {"lock", "create", "check", "insert"}
           /\ pc[p] \in {"ensure", "lock"} \cup Setup
           /\ ready' = ready \/ ready' = [ready EXCEPT ![BlockerAt(p)] = TRUE]
           /\ useSet' = useSet \/ \E ok \in BOOLEAN : useSet' = [useSet EXCEPT ![BlockerAt(p)] = ok]
           /\ mu' = mu \/ mu' = [mu EXCEPT ![BlockerAt(p)] = p] \/ mu' = [mu EXCEPT ![BlockerAt(p)] = Free]
<1>1. CASE NothingToPrepare(p) \/ Prepare(p)
  BY <1>1 DEF NothingToPrepare, Prepare, Goto, AfterEnsure, blockerVars, Setup, taskVars, logVars
<1>2. CASE LockSetup(p)
  BY <1>2 DEF LockSetup, Goto, AfterEnsure, Setup
<1>3. CASE CreateSet(p) \/ HookAbsent(p)
  BY <1>3 DEF CreateSet, HookAbsent, Goto, blockerVars, Setup
<1>4. CASE HookCheckFails(p)
  BY <1>4 DEF HookCheckFails, Goto, blockerVars, Setup, CommandFails, Fault
<1>5. CASE CreateSetFails(p) \/ HookPresent(p) \/ InsertHook(p) \/ InsertHookFails(p)
  BY <1>5 DEF CreateSetFails, HookPresent, InsertHook, InsertHookFails, SetupEnds, Goto, AfterEnsure,
              Setup, CommandFails, Fault
<1> QED
  BY <1>1, <1>2, <1>3, <1>4, <1>5 DEF EnsureReady

\* A record is made of a call under way.
LEMMA ReportType ==
    ASSUME TypeInv, NEW c \in Callers, pc[c] # "idle", NEW blocked \in BOOLEAN
    PROVE  ReportOf(c, blocked) \in Report
BY CallIds DEF TypeInv, TypeOK, ReportOf, Report, Request

\* Types, together with the numbers of the calls.
LEMMA TypeInvariant == Spec => []TypeInv
<1> USE ContainmentAssumption DEF blockerVars, resultVars, taskVars, logVars
<1>1. Init => TypeInv
  <2> SUFFICES ASSUME Init PROVE TypeInv
    OBVIOUS
  <2>1. TypeOK
    BY NoRequestType DEF Init, TypeOK, Steps, Firewall, Config
  <2>2. Numbered
    BY NoRequestType, FS_EmptySet DEF Init, Numbered, Procs
  <2> QED
    BY <2>1, <2>2 DEF TypeInv
<1>2. TypeInv /\ [Next]_vars => TypeInv'
  <2> SUFFICES ASSUME TypeInv, [Next]_vars PROVE TypeInv'
    OBVIOUS
  <2> USE DEF TypeInv
  <2>a. Callers \subseteq Procs /\ \A p \in Procs : BlockerAt(p) \in Blockers
    BY DEF Procs, BlockerAt
  <2>1. ASSUME NEW c \in Callers, PolicyCalls(c) \/ ConsumerCalls(c) PROVE TypeInv'
    <3>1. PICK ip \in IPs : Ask(c, ip, TRUE) \/ Ask(c, ip, FALSE)
      <4>1. PICK ip \in IPs, dry \in BOOLEAN : Ask(c, ip, dry)
        BY <2>1 DEF PolicyCalls, ConsumerCalls, TypeOK, Config
      <4>2. dry = TRUE \/ dry = FALSE
        OBVIOUS
      <4> QED
        BY <4>1, <4>2
    <3>2. Goto(c, "idle", "begin")
      BY <2>1 DEF PolicyCalls, ConsumerCalls
    <3>3. pc' \in [Procs -> Steps] /\ pc'[c] = "begin" /\ \A d \in Callers \ {c} : pc'[d] = pc[d]
      BY <3>2, <2>a DEF Goto, TypeOK, Steps
    <3>4. /\ Numbered'
          /\ call'[c] \in Request
          /\ call' = [call EXCEPT ![c] = call'[c]]
          /\ asked' = asked \cup {call'[c]}
      BY <3>1, <3>3, AskNumbers
    <3>5. TypeOK'
      BY <3>1, <3>3, <3>4, <2>1 DEF TypeOK, PolicyCalls, ConsumerCalls, Ask
    <3> QED
      BY <3>4, <3>5
  <2>2. ASSUME NEW c \in Callers, EnforceContainment(c) PROVE TypeInv'
    <3>1. UNCHANGED <<conf, call, logVars>> /\ \E s \in Steps : Goto(c, pc[c], s) /\ s # "idle" /\ pc[c] # "idle"
      BY <2>2 DEF EnforceContainment, BlockIP, SkipPrivate, SkipLocal, SetDryRun, DryBlock, RealBlock,
                  ChooseBackend, AddToSet, AddRule, BlockFails, Spawn, WaitEnds, WaitTimesOut, CopyTried,
                  Goto, AfterLocal, Steps
    <3>2. Numbered'
      <4>1. \A d \in Callers : pc'[d] = "idle" <=> pc[d] = "idle"
        BY <3>1, <2>a DEF Goto, TypeOK
      <4> QED
        BY <3>1, <4>1, NumberedFrame
    <3>3. pc' \in [Procs -> Steps]
      BY <3>1, <2>a DEF Goto, TypeOK
    <3>4. CASE SkipPrivate(c) \/ SkipLocal(c) \/ RealBlock(c) \/ ChooseBackend(c) \/ WaitEnds(c)
      BY <3>1, <3>2, <3>3, <3>4 DEF SkipPrivate, SkipLocal, RealBlock, ChooseBackend, WaitEnds, TypeOK
    <3>5. CASE SetDryRun(c)
      BY <3>1, <3>2, <3>3, <3>5 DEF SetDryRun, TypeOK, Request
    <3>6. CASE DryBlock(c)
      BY <3>1, <3>2, <3>3, <3>6 DEF DryBlock, TypeOK
    <3>7. CASE AddToSet(c) \/ AddRule(c)
      <4>1. call[c].ip \in IPs
        BY DEF TypeOK, Request
      <4>2. fw' \in Firewall
        BY <3>7, <4>1 DEF AddToSet, AddRule, TypeOK, Firewall
      <4> QED
        BY <3>1, <3>2, <3>3, <3>7, <4>2 DEF AddToSet, AddRule, TypeOK
    <3>8. CASE BlockFails(c)
      BY <3>1, <3>2, <3>3, <3>8 DEF BlockFails, CommandFails, Fault, TypeOK
    <3>9. CASE Spawn(c)
      <4>1. conf.cloud \subseteq Providers /\ call[c].id \in Ids /\ call[c].ip \in IPs
        BY <3>1, CallIds DEF TypeOK, Config, Request
      <4>2. tasks' \subseteq Task
        <5> SUFFICES ASSUME NEW t \in tasks' PROVE t \in Task
          OBVIOUS
        <5>1. t \in tasks \/ \E p \in conf.cloud :
                  t = [caller |-> c, id |-> call[c].id, ip |-> call[c].ip, provider |-> p, started |-> FALSE]
          BY <3>9 DEF Spawn
        <5>2. c \in Callers /\ FALSE \in BOOLEAN
          OBVIOUS
        <5>3. \A p \in conf.cloud : [caller |-> c, id |-> call[c].id, ip |-> call[c].ip,
                                     provider |-> p, started |-> FALSE] \in Task
          BY <4>1, <5>2 DEF Task
        <5> QED
          BY <5>1, <5>3 DEF TypeOK
      <4> QED
        BY <3>1, <3>2, <3>3, <3>9, <4>2 DEF Spawn, TypeOK
    <3>10. CASE WaitTimesOut(c)
      BY <3>1, <3>2, <3>3, <3>10 DEF WaitTimesOut, TypeOK
    <3>11. CASE CopyTried(c)
      BY <3>1, <3>2, <3>3, <3>11 DEF CopyTried, TypeOK
    <3> QED
      BY <2>2, <3>4, <3>5, <3>6, <3>7, <3>8, <3>9, <3>10, <3>11 DEF EnforceContainment, BlockIP
  <2>3. ASSUME NEW c \in Callers, ConsumerReports(c) PROVE TypeInv'
    <3>1. reports' \subseteq Report
      <4>1. pc[c] # "idle" /\ (localOK[c] \/ CloudWon(c)) \in BOOLEAN
        BY <2>3 DEF ConsumerReports, Goto, TypeOK
      <4>2. ReportOf(c, localOK[c] \/ CloudWon(c)) \in Report
        BY <4>1, ReportType
      <4> QED
        BY <2>3, <4>2 DEF ConsumerReports, TypeOK
    <3>2. Numbered'
      BY <2>3, ForgetNumbers DEF ConsumerReports
    <3>3. TypeOK'
      BY <2>3, <2>a, <3>1, NoRequestType DEF ConsumerReports, Forget, TypeOK, Goto, Steps
    <3> QED
      BY <3>2, <3>3
  <2>4. ASSUME NEW c \in Callers, PolicyEscalates(c) PROVE TypeInv'
    <3>1. reports' \subseteq Report
      BY <2>4, ReportType DEF PolicyEscalates, PolicyRecord, Goto, TypeOK
    <3>2. pc' \in [Procs -> Steps] /\ pc'[c] = "begin" /\ \A d \in Callers \ {c} : pc'[d] = pc[d]
      BY <2>4, <2>a DEF PolicyEscalates, Goto, TypeOK, Steps
    <3>3. call[c].ip \in IPs /\ Ask(c, call[c].ip, FALSE)
      BY <2>4 DEF PolicyEscalates, TypeOK, Request
    <3>4. /\ Numbered'
          /\ call'[c] \in Request /\ call'[c].id \in Ids
          /\ call' = [call EXCEPT ![c] = call'[c]]
          /\ asked' = asked \cup {call'[c]}
      BY <3>2, <3>3, AskNumbers
    <3>5. TypeOK'
      BY <2>4, <3>1, <3>2, <3>3, <3>4 DEF PolicyEscalates, TypeOK, Ask
    <3> QED
      BY <3>4, <3>5
  <2>5. ASSUME NEW c \in Callers, PolicyReturns(c) PROVE TypeInv'
    <3>1. reports' \subseteq Report
      BY <2>5, ReportType DEF PolicyReturns, PolicyRecord, Goto, TypeOK
    <3>2. Numbered'
      BY <2>5, ForgetNumbers DEF PolicyReturns
    <3>3. expired' \subseteq Ids
      BY <2>5 DEF PolicyReturns, LeftBy, TypeOK, Task
    <3>4. TypeOK'
      BY <2>5, <2>a, <3>1, <3>3, NoRequestType DEF PolicyReturns, Forget, TypeOK, Goto, Steps
    <3> QED
      BY <3>2, <3>4
  <2>6. ASSUME NEW c \in Callers, ContextExpires(c) PROVE TypeInv'
    <3>1. expired' \subseteq Ids
      BY <2>6, CallIds DEF ContextExpires, LeftBy, TypeOK, Task
    <3> QED
      BY <2>6, <3>1, NumberedFrame DEF ContextExpires, Fault, TypeOK
  <2>7. ASSUME NEW p \in Procs, EnsureReady(p) PROVE TypeInv'
    <3>1. UNCHANGED <<conf, call, dryRun, resultVars, taskVars, logVars>>
      BY <2>7, EnsureFrame
    <3>2. /\ fw' = fw \/ fw' = [fw EXCEPT !.set = TRUE] \/ fw' = [fw EXCEPT !.hooks = @ + 1]
          /\ faults' = faults \/ faults' = faults + 1
      BY <2>7, EnsureFrame
    <3>3. /\ ready' = ready \/ ready' = [ready EXCEPT ![BlockerAt(p)] = TRUE]
          /\ useSet' = useSet \/ \E ok \in BOOLEAN : useSet' = [useSet EXCEPT ![BlockerAt(p)] = ok]
          /\ mu' = mu \/ mu' = [mu EXCEPT ![BlockerAt(p)] = p] \/ mu' = [mu EXCEPT ![BlockerAt(p)] = Free]
      BY <2>7, EnsureFrame
    <3>4. PICK s \in {"lock", "create", "check", "insert", "idle", "backend"} :
              /\ pc' = [pc EXCEPT ![p] = s]
              /\ s = "idle" <=> p \in Blockers /\ s \notin {"lock", "create", "check", "insert"}
      BY <2>7, EnsureFrame
    <3>5. pc[p] \in {"ensure", "lock"} \cup Setup
      BY <2>7, EnsureFrame
    <3>6. pc' \in [Procs -> Steps]
      BY <3>4 DEF TypeOK, Steps
    <3>7. fw' \in Firewall /\ faults' \in Nat
      <4>1. fw \in Firewall /\ fw.hooks + 1 \in Nat
        BY DEF TypeOK, Firewall
      <4> QED
        <5>1. [fw EXCEPT !.set = TRUE] \in Firewall
          BY <4>1 DEF Firewall
        <5>2. [fw EXCEPT !.hooks = @ + 1] \in Firewall
          BY <4>1 DEF Firewall
        <5>3. fw' \in Firewall
          BY <3>2, <4>1, <5>1, <5>2
        <5>4. faults' \in Nat
          BY <3>2 DEF TypeOK
        <5> QED
          BY <5>3, <5>4
    <3>8. ready' \in [Blockers -> BOOLEAN] /\ useSet' \in [Blockers -> BOOLEAN]
          /\ mu' \in [Blockers -> Procs \cup {Free}]
      BY <3>3, <2>a DEF TypeOK
    <3>9. \A d \in Callers : pc'[d] = "idle" <=> pc[d] = "idle"
      BY <3>4, <3>5, <2>a DEF TypeOK, Setup
    <3> QED
      BY <3>1, <3>6, <3>7, <3>8, <3>9, NumberedFrame DEF TypeOK
  <2>8. ASSUME NEW t \in tasks, CloudTask(t) PROVE TypeInv'
    <3>1. t \in Task
      BY DEF TypeOK
    <3>2. CASE TaskStarts(t)
      <4>1. tasks' \subseteq Task
        BY <3>1, <3>2 DEF TaskStarts, TypeOK, Task
      <4>2. tried' \in [Callers -> SUBSET Providers]
        BY <3>1, <3>2 DEF TaskStarts, Append, TypeOK, Task
      <4> QED
        BY <3>2, <4>1, <4>2, NumberedFrame DEF TaskStarts, TypeOK
    <3>3. CASE TaskBans(t)
      BY <3>1, <3>3, NumberedFrame DEF TaskBans, TypeOK, Task
    <3>4. CASE TaskFails(t)
      <4>1. errors' \in [Callers -> SUBSET Providers]
        BY <3>1, <3>4 DEF TaskFails, Append, TypeOK, Task
      <4> QED
        BY <3>1, <3>4, <4>1, NumberedFrame DEF TaskFails, TypeOK, Task
    <3> QED
      BY <2>8, <3>2, <3>3, <3>4 DEF CloudTask
  <2>9. CASE Restart
    <3>1. TypeOK'
      BY <2>9, NoRequestType DEF Restart, Booted, Fault, TypeOK, Steps, Config
    <3>2. Numbered'
      BY <2>9, NoRequestType DEF Restart, Booted, Numbered, Procs
    <3> QED
      BY <3>1, <3>2
  <2>10. CASE UNCHANGED vars
    BY <2>10, NumberedFrame DEF vars, TypeOK
  <2> QED
    BY <2>1, <2>2, <2>3, <2>4, <2>5, <2>6, <2>7, <2>8, <2>9, <2>10 DEF Next, Reports, Finished
<1> QED
  BY <1>1, <1>2, PTL DEF Spec

\* Every variable keeps its type; a call, a goroutine and a record carry a
\* number within the bound (Blocker.EnforceContainment and its callers).
THEOREM TypeCorrect == Spec => []TypeOK
BY TypeInvariant, PTL DEF TypeInv

-----------------------------------------------------------------------------
\* The steps of a caller outside EnsureReady, of a cloud goroutine and of a
\* timer.
Elsewhere ==
    \/ \E c \in Callers :
          PolicyCalls(c) \/ ConsumerCalls(c) \/ EnforceContainment(c) \/ Reports(c) \/ ContextExpires(c)
    \/ \E t \in tasks : CloudTask(t)
    \/ UNCHANGED vars

LEMMA NextSteps ==
    ASSUME [Next]_vars
    PROVE  Elsewhere \/ Restart \/ \E p \in Procs : EnsureReady(p)
BY DEF Next, Elsewhere, Finished

\* They leave the set-up of the firewall alone.
SetupKept ==
    /\ UNCHANGED <<ready, useSet, mu>>
    /\ fw'.hooks = fw.hooks /\ faults' >= faults
    /\ expired \subseteq expired'
    /\ \A p \in Procs : pc[p] \in Setup => pc'[p] = pc[p] /\ (p \in Callers => call'[p] = call[p])
    /\ \A p \in Procs : pc'[p] \in Setup => pc[p] \in Setup
    /\ \A c \in Callers : pc'[c] = "addset" => pc[c] = "addset" \/ useSet[BlockerOf[c]]

LEMMA SetupFrame ==
    ASSUME TypeInv, Elsewhere
    PROVE  SetupKept
<1> USE ContainmentAssumption DEF SetupKept, blockerVars, resultVars, taskVars, logVars, TypeInv, TypeOK, Setup, Procs, Goto
<1>1. ASSUME NEW c \in Callers, PolicyCalls(c) \/ ConsumerCalls(c) PROVE SetupKept
  BY <1>1 DEF PolicyCalls, ConsumerCalls, Ask
<1>2. ASSUME NEW c \in Callers, EnforceContainment(c) PROVE SetupKept
  <2>1. CASE SkipPrivate(c) \/ SkipLocal(c) \/ SetDryRun(c) \/ RealBlock(c) \/ DryBlock(c)
    BY <2>1 DEF SkipPrivate, SkipLocal, SetDryRun, RealBlock, DryBlock, AfterLocal
  <2>2. CASE ChooseBackend(c) \/ WaitEnds(c) \/ WaitTimesOut(c) \/ CopyTried(c) \/ Spawn(c)
    BY <2>2 DEF ChooseBackend, WaitEnds, WaitTimesOut, CopyTried, Spawn
  <2>3. CASE AddToSet(c) \/ AddRule(c)
    BY <2>3 DEF AddToSet, AddRule, AfterLocal, Firewall
  <2>4. CASE BlockFails(c)
    BY <2>4 DEF BlockFails, AfterLocal, CommandFails, Fault
  <2> QED
    BY <1>2, <2>1, <2>2, <2>3, <2>4 DEF EnforceContainment, BlockIP
<1>3. ASSUME NEW c \in Callers, Reports(c) PROVE SetupKept
  BY <1>3 DEF Reports, ConsumerReports, PolicyEscalates, PolicyReturns, Ask, Forget
<1>4. ASSUME NEW c \in Callers, ContextExpires(c) PROVE SetupKept
  BY <1>4 DEF ContextExpires, Fault
<1>5. ASSUME NEW t \in tasks, CloudTask(t) PROVE SetupKept
  BY <1>5 DEF CloudTask, TaskStarts, TaskBans, TaskFails
<1>6. CASE UNCHANGED vars
  BY <1>6 DEF vars
<1> QED
  BY <1>1, <1>2, <1>3, <1>4, <1>5, <1>6 DEF Elsewhere

\* The mutex of a LocalFirewall is held by the process that sets it up.
Held ==
    /\ \A p \in Procs : pc[p] \in Setup => mu[BlockerAt(p)] = p
    /\ \A b \in Blockers : mu[b] # Free => BlockerAt(mu[b]) = b /\ pc[mu[b]] \in Setup

LEMMA HeldInvariant == Spec => []Held
<1> USE ContainmentAssumption
<1>1. Init => Held
  BY DEF Init, Held, Setup
<1>2. TypeInv /\ Held /\ [Next]_vars => Held'
  <2> SUFFICES ASSUME TypeInv, Held, [Next]_vars PROVE Held'
    OBVIOUS
  <2> USE DEF TypeInv, TypeOK, Setup
  <2>a. \A p \in Procs : BlockerAt(p) \in Blockers
    BY DEF Procs, BlockerAt
  <2>1. CASE Elsewhere
    BY <2>1, SetupFrame DEF SetupKept, Held
  <2>2. CASE Restart
    BY <2>2 DEF Restart, Booted, Held
  <2>3. ASSUME NEW p \in Procs, EnsureReady(p) PROVE Held'
    <3>1. CASE NothingToPrepare(p) \/ Prepare(p) \/ CreateSet(p) \/ HookAbsent(p) \/ HookCheckFails(p)
      BY <3>1, <2>a DEF NothingToPrepare, Prepare, CreateSet, HookAbsent, HookCheckFails, Goto, AfterEnsure,
                   blockerVars, Held
    <3>2. CASE LockSetup(p)
      BY <3>2, <2>a DEF LockSetup, Goto, AfterEnsure, Held
    <3>3. CASE CreateSetFails(p) \/ HookPresent(p) \/ InsertHook(p) \/ InsertHookFails(p)
      BY <3>3, <2>a DEF CreateSetFails, HookPresent, InsertHook, InsertHookFails, SetupEnds, Goto, AfterEnsure, Held
    <3> QED
      BY <2>3, <3>1, <3>2, <3>3 DEF EnsureReady
  <2> QED
    BY <2>1, <2>2, <2>3, NextSteps
<1> QED
  BY <1>1, <1>2, TypeInvariant, PTL DEF Spec

\* The Blockers whose set-up is about to insert the rule, with a context that
\* still lets it.
Inserting == {b \in Blockers : mu[b] # Free /\ pc[mu[b]] = "insert" /\ Alive(mu[b])}

\* Every rule, and every one about to be inserted, is accounted for by a
\* Blocker or by a failure.
HookInv == fw.hooks + Cardinality(Inserting) <= Cardinality(Blockers) + faults

\* A step that begins no insertion and inserts nothing keeps the account.
LEMMA HookFrame ==
    ASSUME TypeInv, TypeInv', HookInv, Inserting' \subseteq Inserting,
           fw'.hooks = fw.hooks, faults' >= faults
    PROVE  HookInv'
<1>1. IsFiniteSet(Inserting)
  BY FS_Subset, ContainmentAssumption DEF Inserting
<1>2. /\ Cardinality(Inserting) \in Nat /\ Cardinality(Inserting') \in Nat
      /\ Cardinality(Inserting') <= Cardinality(Inserting)
  BY <1>1, FS_Subset, FS_CardinalityType
<1>3. Cardinality(Blockers) \in Nat /\ fw.hooks \in Nat /\ faults \in Nat /\ faults' \in Nat
  BY FS_CardinalityType, ContainmentAssumption DEF TypeInv, TypeOK, Firewall
<1> QED
  BY <1>2, <1>3 DEF HookInv

\* A process that is not about to insert makes no Blocker insert, and its own
\* does not if the process has the mutex.
LEMMA InsertStep ==
    ASSUME TypeInv, Held, NEW p \in Procs, EnsureReady(p), pc'[p] # "insert"
    PROVE  /\ Inserting' \subseteq Inserting
           /\ pc[p] \in Setup => BlockerAt(p) \notin Inserting'
<1> USE ContainmentAssumption DEF TypeInv, TypeOK
<1>1. BlockerAt(p) \in Blockers
  BY DEF Procs, BlockerAt
<1>2. \A q \in Procs : q # p => pc'[q] = pc[q]
  BY EnsureFrame
<1>3. UNCHANGED <<call, expired>>
  BY EnsureFrame DEF taskVars
<1>4. \A b \in Blockers : b # BlockerAt(p) => mu'[b] = mu[b]
  BY <1>1, EnsureFrame
<1>5. mu'[BlockerAt(p)] = mu[BlockerAt(p)] \/ mu'[BlockerAt(p)] \in {p, Free}
  BY <1>1, EnsureFrame
<1>6. \A q \in Procs : Alive(q)' = Alive(q)
  BY <1>3 DEF Alive
<1>7. Inserting' \subseteq Inserting
  BY <1>1, <1>2, <1>4, <1>5, <1>6 DEF Inserting
<1>8. ASSUME pc[p] \in Setup PROVE BlockerAt(p) \notin Inserting'
  BY <1>1, <1>5, <1>8 DEF Inserting, Held
<1> QED
  BY <1>7, <1>8

LEMMA HookInvariant == Spec => []HookInv
<1> USE ContainmentAssumption
<1>1. Init => HookInv
  <2> SUFFICES ASSUME Init PROVE HookInv
    OBVIOUS
  <2>1. Inserting = {}
    BY DEF Init, Inserting
  <2>2. Cardinality(Inserting) = 0 /\ Cardinality(Blockers) \in Nat
    BY <2>1, FS_EmptySet, FS_CardinalityType
  <2> QED
    BY <2>2 DEF Init, HookInv
<1>2. TypeInv /\ TypeInv' /\ Held /\ Held' /\ HookInv /\ [Next]_vars => HookInv'
  <2> SUFFICES ASSUME TypeInv, TypeInv', Held, Held', HookInv, [Next]_vars PROVE HookInv'
    OBVIOUS
  <2>a. /\ IsFiniteSet(Inserting) /\ IsFiniteSet(Inserting')
        /\ Cardinality(Inserting) \in Nat /\ Cardinality(Inserting') \in Nat
        /\ Cardinality(Inserting') <= Cardinality(Blockers)
    <3>1. Inserting \in SUBSET Blockers /\ Inserting' \in SUBSET Blockers
      BY DEF Inserting
    <3> QED
      BY <3>1, FS_Subset, FS_CardinalityType
  <2>b. Cardinality(Blockers) \in Nat /\ fw.hooks \in Nat /\ faults \in Nat /\ faults' \in Nat
    BY FS_CardinalityType DEF TypeInv, TypeOK, Firewall
  <2>1. CASE Elsewhere
    <3>1. \A b \in Blockers : mu[b] # Free => mu[b] \in Procs
      BY DEF TypeInv, TypeOK
    <3>2. Inserting' \subseteq Inserting
      BY <2>1, <3>1, SetupFrame DEF SetupKept, Inserting, Alive, Setup
    <3> QED
      BY <2>1, <3>2, SetupFrame, HookFrame DEF SetupKept
  <2>2. CASE Restart
    <3>1. Inserting' = {}
      BY <2>2 DEF Restart, Booted, Inserting
    <3>2. Cardinality(Inserting') = 0
      BY <3>1, FS_EmptySet
    <3> QED
      BY <2>2, <2>a, <2>b, <3>2 DEF Restart, Fault, HookInv
  <2>3. ASSUME NEW p \in Procs, EnsureReady(p) PROVE HookInv'
    <3> DEFINE b == BlockerAt(p)
    <3>a. b \in Blockers
      BY DEF Procs, BlockerAt
    <3>1. CASE NothingToPrepare(p) \/ Prepare(p) \/ LockSetup(p) \/ CreateSet(p) \/ CreateSetFails(p)
                 \/ HookPresent(p) \/ InsertHookFails(p)
      <4>1. pc'[p] # "insert" /\ fw'.hooks = fw.hooks /\ faults' >= faults
        BY <3>1, <2>b DEF NothingToPrepare, Prepare, LockSetup, CreateSet, CreateSetFails, HookPresent,
              InsertHookFails, SetupEnds, Goto, AfterEnsure, CommandFails, Fault, TypeInv, TypeOK, Firewall
      <4> QED
        BY <2>3, <4>1, InsertStep, HookFrame
    <3>2. CASE HookAbsent(p)
      BY <3>2, <2>a, <2>b DEF HookAbsent, HookInv
    <3>3. CASE HookCheckFails(p)
      <4>1. /\ UNCHANGED <<call, expired, mu, fw>>
            /\ pc' = [pc EXCEPT ![p] = "insert"] /\ pc[p] = "check"
        BY <3>3 DEF HookCheckFails, Goto, taskVars, blockerVars
      <4>2. mu[b] = p
        BY <4>1 DEF Held, Setup
      <4>3. \A c \in Blockers : c # b => mu[c] # p
        BY DEF Held, TypeInv, TypeOK
      <4>4. \A q \in Procs : Alive(q)' = Alive(q)
        BY <4>1 DEF Alive
      <4>5. CASE Alive(p)
        <5>1. Inserting' \subseteq Inserting \cup {b}
          BY <4>1, <4>3, <4>4 DEF Inserting, TypeInv, TypeOK
        <5>2. Cardinality(Inserting') <= Cardinality(Inserting) + 1
          <6>1. /\ IsFiniteSet(Inserting \cup {b})
                /\ Cardinality(Inserting \cup {b}) =
                      IF b \in Inserting THEN Cardinality(Inserting) ELSE Cardinality(Inserting) + 1
            BY <2>a, FS_AddElement
          <6>2. Cardinality(Inserting') <= Cardinality(Inserting \cup {b})
            BY <5>1, <6>1, FS_Subset
          <6> QED
            BY <2>a, <6>1, <6>2
        <5>3. faults' = faults + 1
          BY <3>3, <4>5 DEF HookCheckFails, CommandFails, Fault
        <5> QED
          BY <2>a, <2>b, <4>1, <5>2, <5>3 DEF HookInv
      <4>6. CASE ~Alive(p)
        <5>1. Inserting' \subseteq Inserting
          BY <4>1, <4>2, <4>3, <4>4, <4>6 DEF Inserting, TypeInv, TypeOK
        <5>2. faults' = faults
          BY <3>3, <4>6 DEF HookCheckFails, CommandFails
        <5> QED
          BY <2>b, <4>1, <5>1, <5>2, HookFrame
      <4> QED
        BY <4>5, <4>6
    <3>4. CASE InsertHook(p)
      <4>1. /\ pc[p] = "insert" /\ Alive(p) /\ pc'[p] # "insert"
            /\ fw'.hooks = fw.hooks + 1 /\ faults' = faults
        BY <3>4 DEF InsertHook, SetupEnds, Goto, AfterEnsure, TypeInv, TypeOK, Firewall
      <4>2. b \in Inserting
        <5>1. mu[b] = p
          BY <4>1 DEF Held, Setup
        <5> QED
          BY <3>a, <4>1, <5>1 DEF Inserting
      <4>3. Inserting' \subseteq Inserting \ {b}
        BY <2>3, <4>1, InsertStep DEF Setup
      <4>4. Cardinality(Inserting') <= Cardinality(Inserting) - 1
        <5>1. /\ IsFiniteSet(Inserting \ {b})
              /\ Cardinality(Inserting \ {b}) =
                    IF b \in Inserting THEN Cardinality(Inserting) - 1 ELSE Cardinality(Inserting)
          BY <2>a, FS_RemoveElement
        <5>2. Cardinality(Inserting') <= Cardinality(Inserting \ {b})
          BY <4>3, <5>1, FS_Subset
        <5> QED
          BY <2>a, <4>2, <5>1, <5>2
      <4> QED
        BY <2>a, <2>b, <4>1, <4>4 DEF HookInv
    <3> QED
      BY <2>3, <3>1, <3>2, <3>3, <3>4 DEF EnsureReady
  <2> QED
    BY <2>1, <2>2, <2>3, NextSteps
<1> QED
  BY <1>1, <1>2, TypeInvariant, HeldInvariant, PTL DEF Spec

\* "Bind once: DROP sources in the set": however the callers of a Blocker and
\* its warm-up meet at EnsureReady, they leave one rule for each Blocker, and
\* one more at most for each failure (local.go, setupIPSet).
THEOREM HooksBounded == Spec => []HookPerBlocker
<1>1. TypeInv /\ HookInv => HookPerBlocker
  <2>1. ASSUME TypeInv PROVE Cardinality(Inserting) \in Nat
    BY FS_Subset, FS_CardinalityType, ContainmentAssumption DEF Inserting
  <2>2. Cardinality(Blockers) \in Nat
    BY FS_CardinalityType, ContainmentAssumption
  <2> QED
    BY <2>1, <2>2 DEF TypeInv, TypeOK, Firewall, HookInv, HookPerBlocker
<1> QED
  BY <1>1, TypeInvariant, HookInvariant, PTL

-----------------------------------------------------------------------------
\* The steps from the DryRun flag being set to the local firewall's answer,
\* and from there to the end of a call.
Blocking == {"decide", "ensure", "backend", "addset", "addrule"} \cup {"lock"} \cup Setup
CloudSteps == {"spawn", "wait", "copy"}

\* The DryRun flag on a Blocker is that of each call past setting it, and what
\* is past reading it is a real call about a public address.
AsAsked ==
    /\ \A c \in Policies : ~call[c].dry
    /\ \A c \in Callers :
          /\ pc[c] \in Blocking => dryRun[BlockerOf[c]] = call[c].dry /\ call[c].ip \in Public
          /\ pc[c] \in (Blocking \ {"decide"}) \cup CloudSteps => ~call[c].dry /\ call[c].ip \in Public

\* Steps that set no flag and take no caller into these steps.
LEMMA AsAskedFrame ==
    ASSUME AsAsked, dryRun' = dryRun,
           \A c \in Policies : ~call'[c].dry,
           \A c \in Callers :
               \/ pc'[c] = pc[c] /\ call'[c] = call[c]
               \/ pc'[c] \notin Blocking \cup CloudSteps
    PROVE  AsAsked'
BY DEF AsAsked, Blocking, Setup

\* A caller moves on within its call.
LEMMA AsAskedMove ==
    ASSUME AsAsked, TypeInv, NEW c \in Callers, NEW s,
           UNCHANGED <<dryRun, call>>, pc' = [pc EXCEPT ![c] = s],
           s \in Blocking => pc[c] \in Blocking,
           s \in (Blocking \ {"decide"}) \cup CloudSteps => ~call[c].dry /\ call[c].ip \in Public
    PROVE  AsAsked'
<1>1. \A d \in Callers : pc'[d] = IF d = c THEN s ELSE pc[d]
  BY DEF TypeInv, TypeOK, Procs
<1> QED
  BY <1>1 DEF AsAsked

LEMMA AsAskedInvariant == Spec => []AsAsked
<1> USE ContainmentAssumption
<1>1. Init => AsAsked
  <2> SUFFICES ASSUME Init PROVE AsAsked
    OBVIOUS
  <2>1. \A c \in Callers : pc[c] = "idle" /\ ~call[c].dry
    BY NoRequestType DEF Init, Procs
  <2>2. Policies \subseteq Callers
    BY DEF Callers
  <2> QED
    BY <2>1, <2>2 DEF AsAsked, Blocking, CloudSteps, Setup
<1>2. TypeInv /\ AsAsked /\ [Next]_vars => AsAsked'
  <2> SUFFICES ASSUME TypeInv, AsAsked, [Next]_vars PROVE AsAsked'
    OBVIOUS
  <2> USE DEF blockerVars
  <2>a. Callers \subseteq Procs
    BY DEF Procs
  <2>b. call \in [Callers -> Request] /\ pc \in [Procs -> Steps]
    BY DEF TypeInv, TypeOK
  <2>c. Policies \subseteq Callers /\ \A c \in Policies : ~call[c].dry
    BY DEF AsAsked, Callers
  <2>1. ASSUME NEW c \in Callers, PolicyCalls(c) \/ ConsumerCalls(c) PROVE AsAsked'
    <3>1. /\ pc' = [pc EXCEPT ![c] = "begin"] /\ dryRun' = dryRun
          /\ \A d \in Callers \ {c} : call'[d] = call[d]
      BY <2>1, <2>b DEF PolicyCalls, ConsumerCalls, Goto, Ask
    <3>2. c \in Policies => ~call'[c].dry
      BY <2>1, <2>b DEF PolicyCalls, ConsumerCalls, Ask
    <3> QED
      BY <3>1, <3>2, <2>a, <2>b, <2>c, AsAskedFrame DEF Blocking, CloudSteps, Setup
  <2>2. ASSUME NEW c \in Callers, EnforceContainment(c) PROVE AsAsked'
    <3>1. CASE SkipPrivate(c)
      BY <3>1, AsAskedMove DEF SkipPrivate, Goto, Blocking, CloudSteps, Setup
    <3>2. CASE SkipLocal(c)
      BY <3>2, AsAskedMove DEF SkipLocal, Goto, AfterLocal, Blocking, CloudSteps, Setup
    <3>3. CASE SetDryRun(c)
      <4>1. /\ \A d \in Callers : pc'[d] = IF d = c THEN "decide" ELSE pc[d]
            /\ call' = call /\ call[c].ip \in Public /\ call[c].dry \in BOOLEAN
        BY <3>3, <2>a, <2>b DEF SetDryRun, Goto, Request
      <4>2. \A d \in Callers : dryRun'[BlockerOf[d]] =
                IF BlockerOf[d] = BlockerOf[c] THEN call[c].dry ELSE dryRun[BlockerOf[d]]
        BY <3>3 DEF SetDryRun, TypeInv, TypeOK
      <4>3. \A d \in Callers \ {c} : BlockerOf[d] = BlockerOf[c] => ~call[d].dry /\ ~call[c].dry
        BY <2>c, WiringAssumption
      <4>4. \A d \in Callers : call[d].dry \in BOOLEAN
        BY <2>b DEF Request
      <4> QED
        BY <4>1, <4>2, <4>3, <4>4 DEF AsAsked, Blocking, CloudSteps, Setup
    <3>4. CASE DryBlock(c)
      <4>1. call[c].dry
        BY <3>4 DEF DryBlock, Goto, AsAsked, Blocking
      <4> QED
        BY <3>4, <4>1, AsAskedMove DEF DryBlock, Goto, AfterLocal, Blocking, CloudSteps, Setup
    <3>5. CASE RealBlock(c)
      <4>1. ~call[c].dry /\ call[c].ip \in Public
        BY <3>5 DEF RealBlock, Goto, AsAsked, Blocking
      <4> QED
        BY <3>5, <4>1, AsAskedMove DEF RealBlock, Goto, Blocking, CloudSteps, Setup
    <3>6. CASE ChooseBackend(c) \/ AddToSet(c) \/ AddRule(c) \/ BlockFails(c) \/ Spawn(c)
               \/ WaitEnds(c) \/ WaitTimesOut(c) \/ CopyTried(c)
      <4>1. /\ UNCHANGED <<call, dryRun>>
            /\ pc[c] \in {"backend", "addset", "addrule"} \cup CloudSteps
            /\ \E s \in {"addset", "addrule", "wait", "copy", "report", AfterLocal(c)} : 
                  /\ pc' = [pc EXCEPT ![c] = s]
                  /\ s \in Blocking => pc[c] \in Blocking
        BY <3>6 DEF ChooseBackend, AddToSet, AddRule, BlockFails, Spawn, WaitEnds, WaitTimesOut, CopyTried, Goto,
                    AfterLocal, Blocking, CloudSteps, Setup
      <4>2. ~call[c].dry /\ call[c].ip \in Public
        BY <4>1 DEF AsAsked, Blocking, CloudSteps
      <4> QED
        BY <4>1, <4>2, AsAskedMove
    <3> QED
      BY <2>2, <3>1, <3>2, <3>3, <3>4, <3>5, <3>6 DEF EnforceContainment, BlockIP
  <2>3. ASSUME NEW c \in Callers, Reports(c) PROVE AsAsked'
    <3>1. PICK s \in {"idle", "begin"} : pc' = [pc EXCEPT ![c] = s] /\ dryRun' = dryRun
      BY <2>3 DEF Reports, ConsumerReports, PolicyEscalates, PolicyReturns, Goto
    <3>2. PICK r : call' = [call EXCEPT ![c] = r] /\ ~r.dry
      <4>1. CASE ConsumerReports(c) \/ PolicyReturns(c)
        BY <4>1, NoRequestType DEF ConsumerReports, PolicyReturns, Forget
      <4>2. CASE PolicyEscalates(c)
        <5> DEFINE r == [id |-> Cardinality(asked) + 1, ip |-> call[c].ip, dry |-> FALSE]
        <5>1. call' = [call EXCEPT ![c] = r]
          BY <4>2 DEF PolicyEscalates, Ask
        <5>2. ~r.dry
          OBVIOUS
        <5> QED
          BY <5>1, <5>2
      <4> QED
        BY <2>3, <4>1, <4>2 DEF Reports
    <3> QED
      BY <3>1, <3>2, <2>a, <2>b, <2>c, AsAskedFrame DEF Blocking, CloudSteps, Setup
  <2>4. CASE UNCHANGED <<pc, call, dryRun>>
    BY <2>4, <2>c, AsAskedFrame
  <2>5. ASSUME NEW p \in Procs, EnsureReady(p) PROVE AsAsked'
    <3>1. UNCHANGED <<call, dryRun>> /\ pc[p] \in Blocking \ {"decide"}
      BY <2>5, EnsureFrame DEF Blocking, Setup
    <3>2. PICK s \in {"lock", "create", "check", "insert", "idle", "backend"} :
              /\ pc' = [pc EXCEPT ![p] = s]
              /\ s = "idle" <=> p \in Blockers /\ s \notin {"lock", "create", "check", "insert"}
      BY <2>5, EnsureFrame
    <3>3. CASE p \in Callers
      <4>1. ~call[p].dry /\ call[p].ip \in Public
        BY <3>1, <3>3 DEF AsAsked
      <4> QED
        BY <3>1, <3>2, <3>3, <4>1, AsAskedMove
    <3>4. CASE p \notin Callers
      BY <3>1, <3>2, <3>4, <2>a, <2>b, <2>c, AsAskedFrame
    <3> QED
      BY <3>3, <3>4
  <2>6. CASE Restart
    BY <2>6, NoRequestType DEF Restart, Booted, AsAsked, Blocking, CloudSteps, Setup, Procs, Callers
  <2> QED
    BY <2>1, <2>2, <2>3, <2>4, <2>5, <2>6, NextSteps
       DEF Elsewhere, CloudTask, TaskStarts, TaskBans, TaskFails, ContextExpires, vars
<1> QED
  BY <1>1, <1>2, TypeInvariant, PTL DEF Spec

-----------------------------------------------------------------------------
\* What a goroutine was started for, as the call it belongs to.
AskedOf(t) == [id |-> t.id, ip |-> t.ip, dry |-> FALSE]

\* A goroutine belongs to a real call about a public address; a caller still in
\* that call is the one that started it, and past starting it.
Spawned ==
    \A t \in tasks :
        /\ AskedOf(t) \in asked
        /\ t.ip \in Public
        /\ \A c \in Callers : call[c].id = t.id => t.caller = c /\ pc[c] \in {"wait", "copy", "report"}

\* Steps that start no goroutine, and take no caller back that has one.
LEMMA SpawnedFrame ==
    ASSUME Spawned, asked \subseteq asked',
           \A t \in tasks' : \E s \in tasks : t.id = s.id /\ t.ip = s.ip /\ t.caller = s.caller,
           \A c \in Callers :
               \/ \A t \in tasks : call'[c].id # t.id
               \/ /\ call'[c] = call[c]
                  /\ pc[c] \in {"wait", "copy", "report"} => pc'[c] \in {"wait", "copy", "report"}
    PROVE  Spawned'
<1> SUFFICES ASSUME NEW t \in tasks'
             PROVE  /\ AskedOf(t) \in asked'
                    /\ t.ip \in Public
                    /\ \A c \in Callers : call'[c].id = t.id =>
                          t.caller = c /\ pc'[c] \in {"wait", "copy", "report"}
  BY DEF Spawned, AskedOf
<1>1. PICK s \in tasks : t.id = s.id /\ t.ip = s.ip /\ t.caller = s.caller
  OBVIOUS
<1>2. AskedOf(t) = AskedOf(s)
  BY <1>1 DEF AskedOf
<1> QED
  BY <1>1, <1>2 DEF Spawned

\* The numbers of goroutines are those of calls that were made.
LEMMA TaskIds ==
    ASSUME TypeInv, Spawned, NEW t \in tasks
    PROVE  /\ t.id \in 1 .. Cardinality(asked) /\ Cardinality(asked) \in Nat
           /\ \A c \in Callers : call[c].id = t.id => pc[c] # "idle" /\ call[c].ip = t.ip /\ ~call[c].dry
<1>1. AskedOf(t) \in asked /\ AskedOf(t).id = t.id /\ AskedOf(t).ip = t.ip /\ ~AskedOf(t).dry
  BY DEF Spawned, AskedOf
<1>2. t.id \in 1 .. Cardinality(asked) /\ Cardinality(asked) \in Nat
  BY <1>1, FS_CardinalityType DEF TypeInv, Numbered
<1>3. ASSUME NEW c \in Callers, call[c].id = t.id
      PROVE  pc[c] # "idle" /\ call[c].ip = t.ip /\ ~call[c].dry
  <2>1. pc[c] # "idle"
    BY <1>2, <1>3, NoRequestType DEF TypeInv, Numbered
  <2>2. call[c] \in asked
    BY <2>1 DEF TypeInv, Numbered
  <2> QED
    BY <1>1, <1>3, <2>1, <2>2 DEF TypeInv, Numbered
<1> QED
  BY <1>2, <1>3

LEMMA SpawnedInvariant == Spec => []Spawned
<1> USE ContainmentAssumption
<1>1. Init => Spawned
  BY DEF Init, Spawned
<1>2. TypeInv /\ AsAsked /\ Spawned /\ [Next]_vars => Spawned'
  <2> SUFFICES ASSUME TypeInv, AsAsked, Spawned, [Next]_vars PROVE Spawned'
    OBVIOUS
  <2> USE DEF taskVars, logVars
  <2>a. Callers \subseteq Procs
    BY DEF Procs
  <2>b. call \in [Callers -> Request] /\ pc \in [Procs -> Steps] /\ tasks \subseteq Task
    BY DEF TypeInv, TypeOK
  <2>c. \A t \in tasks : t.id \in 1 .. Cardinality(asked) /\ Cardinality(asked) \in Nat
    BY TaskIds
  <2>1. ASSUME NEW c \in Callers, NEW ip, NEW dry, NEW s, Ask(c, ip, dry), tasks' = tasks,
               pc' = [pc EXCEPT ![c] = s]
        PROVE  Spawned'
    <3>1. asked \subseteq asked' /\ \A d \in Callers : pc'[d] = pc[d] \/ d = c
      BY <2>1, <2>a, <2>b DEF Ask
    <3>2. call'[c].id = Cardinality(asked) + 1 /\ \A d \in Callers \ {c} : call'[d] = call[d]
      BY <2>1, <2>b DEF Ask
    <3>3. \A t \in tasks : call'[c].id # t.id
      BY <2>c, <3>2
    <3> QED
      BY <2>1, <3>1, <3>2, <3>3, SpawnedFrame
  <2>2. ASSUME NEW c \in Callers, NEW s, Forget(c), tasks' \subseteq tasks, asked' = asked,
               pc' = [pc EXCEPT ![c] = s]
        PROVE  Spawned'
    <3>1. call'[c].id = 0 /\ \A d \in Callers \ {c} : call'[d] = call[d] /\ pc'[d] = pc[d]
      BY <2>2, <2>a, <2>b, NoRequestType DEF Forget
    <3>2. \A t \in tasks : call'[c].id # t.id
      BY <2>c, <3>1
    <3> QED
      BY <2>2, <3>1, <3>2, SpawnedFrame
  <2>3. ASSUME NEW p \in Procs, NEW s, UNCHANGED <<call, asked, tasks>>,
               pc' = [pc EXCEPT ![p] = s],
               pc[p] \in {"wait", "copy", "report"} => s \in {"wait", "copy", "report"}
        PROVE  Spawned'
    <3>1. \A c \in Callers : pc[c] \in {"wait", "copy", "report"} => pc'[c] \in {"wait", "copy", "report"}
      BY <2>3, <2>a, <2>b
    <3> QED
      BY <2>3, <3>1, SpawnedFrame
  <2>4. ASSUME NEW c \in Callers, PolicyCalls(c) \/ ConsumerCalls(c) PROVE Spawned'
    BY <2>1, <2>4 DEF PolicyCalls, ConsumerCalls, Goto
  <2>5. ASSUME NEW c \in Callers, Reports(c) PROVE Spawned'
    BY <2>1, <2>2, <2>5 DEF Reports, ConsumerReports, PolicyEscalates, PolicyReturns, Goto
  <2>6. ASSUME NEW c \in Callers, EnforceContainment(c), ~Spawn(c) PROVE Spawned'
    <3>1. /\ UNCHANGED <<call, asked, tasks>>
          /\ \E s \in Steps : /\ pc' = [pc EXCEPT ![c] = s]
                              /\ pc[c] \in {"wait", "copy", "report"} => s \in {"wait", "copy", "report"}
      BY <2>6 DEF EnforceContainment, BlockIP, SkipPrivate, SkipLocal, SetDryRun, DryBlock, RealBlock,
                  ChooseBackend, AddToSet, AddRule, BlockFails, WaitEnds, WaitTimesOut, CopyTried,
                  Goto, AfterLocal, Steps
    <3> QED
      BY <2>3, <2>a, <3>1
  <2>7. ASSUME NEW c \in Callers, Spawn(c) PROVE Spawned'
    <3> DEFINE New == {[caller |-> c, id |-> call[c].id, ip |-> call[c].ip, provider |-> p, started |-> FALSE] :
                          p \in conf.cloud}
    <3>1. /\ UNCHANGED <<call, asked>> /\ tasks' = tasks \cup New
          /\ pc[c] = "spawn" /\ pc'[c] = "wait"
          /\ \A d \in Callers \ {c} : pc'[d] = pc[d]
      BY <2>7, <2>a, <2>b DEF Spawn, Goto
    <3>2. ~call[c].dry /\ call[c].ip \in Public /\ call[c] \in asked /\ call[c].id \in Ids
      BY <3>1, CallIds DEF AsAsked, CloudSteps
    <3>3. \A t \in tasks : call[c].id # t.id
      BY <3>1 DEF Spawned
    <3>4. ASSUME NEW t \in tasks
          PROVE  /\ AskedOf(t) \in asked' /\ t.ip \in Public
                 /\ \A d \in Callers : call'[d].id = t.id =>
                       t.caller = d /\ pc'[d] \in {"wait", "copy", "report"}
      BY <3>1, <3>3 DEF Spawned
    <3>5. ASSUME NEW t \in New
          PROVE  /\ AskedOf(t) \in asked' /\ t.ip \in Public
                 /\ \A d \in Callers : call'[d].id = t.id =>
                       t.caller = d /\ pc'[d] \in {"wait", "copy", "report"}
      <4>1. t.id = call[c].id /\ t.ip = call[c].ip /\ t.caller = c
        OBVIOUS
      <4>2. call[c] = [id |-> call[c].id, ip |-> call[c].ip, dry |-> FALSE]
        BY <2>b, <3>2 DEF Request
      <4>3. AskedOf(t) = call[c]
        BY <4>1, <4>2 DEF AskedOf
      <4>4. ASSUME NEW d \in Callers, call[d].id = call[c].id PROVE d = c
        <5>1. pc[d] # "idle"
          BY <3>2, <4>4, NoRequestType DEF TypeInv, Numbered, Ids
        <5>2. call[d] \in asked
          BY <5>1 DEF TypeInv, Numbered
        <5>3. call[d] = call[c]
          BY <3>2, <4>4, <5>2 DEF TypeInv, Numbered
        <5> QED
          BY <5>1, <5>3 DEF TypeInv, Numbered
      <4> QED
        BY <3>1, <3>2, <4>1, <4>3, <4>4
    <3> HIDE DEF New
    <3>6. ASSUME NEW t \in tasks'
          PROVE  /\ AskedOf(t) \in asked' /\ t.ip \in Public
                 /\ \A d \in Callers : call'[d].id = t.id =>
                       t.caller = d /\ pc'[d] \in {"wait", "copy", "report"}
      BY <3>1, <3>4, <3>5
    <3> QED
      BY <3>6 DEF Spawned, AskedOf
  <2>8. ASSUME NEW p \in Procs, EnsureReady(p) PROVE Spawned'
    <3>1. UNCHANGED <<call, asked, tasks>> /\ pc[p] \in {"ensure", "lock"} \cup Setup
      BY <2>8, EnsureFrame
    <3>2. \E s \in {"lock", "create", "check", "insert", "idle", "backend"} : pc' = [pc EXCEPT ![p] = s]
      BY <2>8, EnsureFrame
    <3> QED
      BY <2>3, <3>1, <3>2 DEF Setup
  <2>9. ASSUME NEW t \in tasks, CloudTask(t) PROVE Spawned'
    <3>1. UNCHANGED <<pc, call, asked>>
      BY <2>9 DEF CloudTask, TaskStarts, TaskBans, TaskFails
    <3>2. tasks' \subseteq tasks \cup {[t EXCEPT !.started = TRUE]}
      BY <2>9 DEF CloudTask, TaskStarts, TaskBans, TaskFails
    <3>3. \A u \in tasks' : \E s \in tasks : u.id = s.id /\ u.ip = s.ip /\ u.caller = s.caller
      BY <2>b, <3>2 DEF Task
    <3> QED
      BY <3>1, <3>3, SpawnedFrame
  <2>10. CASE Restart
    BY <2>10 DEF Restart, Booted, Spawned
  <2>11. CASE UNCHANGED <<pc, call, asked, tasks>>
    BY <2>11, SpawnedFrame
  <2> QED
    BY <2>4, <2>5, <2>6, <2>7, <2>8, <2>9, <2>10, <2>11, NextSteps DEF Elsewhere, ContextExpires, vars
<1> QED
  BY <1>1, <1>2, TypeInvariant, AsAskedInvariant, PTL DEF Spec

-----------------------------------------------------------------------------
\* The host's firewall and the providers only ever add bans, and only a caller
\* whose command succeeds and a goroutine add one.
Banned == fw.members \cup fw.rules \cup cloud

LEMMA BansGrow ==
    ASSUME TypeInv, [Next]_vars
    PROVE  /\ fw.members \subseteq fw'.members /\ fw.rules \subseteq fw'.rules
           /\ fw.hooks <= fw'.hooks /\ cloud \subseteq cloud' /\ asked \subseteq asked'
           /\ \/ Banned' = Banned
              \/ \E c \in Callers : /\ pc[c] \in {"addset", "addrule"}
                                    /\ Banned' = Banned \cup {call[c].ip}
              \/ \E t \in tasks : Banned' = Banned \cup {t.ip}
<1> USE ContainmentAssumption DEF blockerVars, resultVars, taskVars, logVars, Banned
<1>a. fw \in Firewall /\ fw.hooks \in Nat
  BY DEF TypeInv, TypeOK, Firewall
<1> DEFINE Grow ==
    /\ fw.members \subseteq fw'.members /\ fw.rules \subseteq fw'.rules
    /\ fw.hooks <= fw'.hooks /\ cloud \subseteq cloud' /\ asked \subseteq asked'
    /\ \/ Banned' = Banned
       \/ \E c \in Callers : pc[c] \in {"addset", "addrule"} /\ Banned' = Banned \cup {call[c].ip}
       \/ \E t \in tasks : Banned' = Banned \cup {t.ip}
<1>1. CASE UNCHANGED <<fw, cloud>> /\ asked \subseteq asked'
  BY <1>1, <1>a
<1>2. ASSUME NEW c \in Callers, AddToSet(c) \/ AddRule(c) PROVE Grow
  <2>1. /\ UNCHANGED <<cloud, asked>> /\ pc[c] \in {"addset", "addrule"}
        /\ \/ fw' = [fw EXCEPT !.members = @ \cup {call[c].ip}]
           \/ fw' = [fw EXCEPT !.rules = @ \cup {call[c].ip}]
    BY <1>2 DEF AddToSet, AddRule, Goto
  <2>2. /\ fw.members \subseteq fw'.members /\ fw.rules \subseteq fw'.rules /\ fw'.hooks = fw.hooks
        /\ Banned' = Banned \cup {call[c].ip}
    BY <2>1, <1>a DEF Firewall
  <2> QED
    BY <1>a, <2>1, <2>2
<1>3. ASSUME NEW p \in Procs, EnsureReady(p) PROVE Grow
  <2>1. UNCHANGED <<cloud, asked>>
    BY <1>3, EnsureFrame
  <2>2. fw' = fw \/ fw' = [fw EXCEPT !.set = TRUE] \/ fw' = [fw EXCEPT !.hooks = @ + 1]
    BY <1>3, EnsureFrame
  <2>3. fw'.members = fw.members /\ fw'.rules = fw.rules /\ fw.hooks <= fw'.hooks
    BY <1>a, <2>2 DEF Firewall
  <2> QED
    BY <2>1, <2>3
<1>4. ASSUME NEW t \in tasks, CloudTask(t) PROVE Grow
  <2>1. UNCHANGED <<fw, asked>> /\ (cloud' = cloud \/ cloud' = cloud \cup {t.ip})
    BY <1>4 DEF CloudTask, TaskStarts, TaskBans, TaskFails
  <2> QED
    BY <1>a, <2>1
<1>5. ASSUME NEW c \in Callers, EnforceContainment(c), ~AddToSet(c), ~AddRule(c)
      PROVE  UNCHANGED <<fw, cloud, asked>>
  BY <1>5 DEF EnforceContainment, BlockIP, SkipPrivate, SkipLocal, SetDryRun, DryBlock, RealBlock,
              ChooseBackend, BlockFails, Spawn, WaitEnds, WaitTimesOut, CopyTried
<1>6. ASSUME NEW c \in Callers, PolicyCalls(c) \/ ConsumerCalls(c) \/ Reports(c) \/ ContextExpires(c)
      PROVE  UNCHANGED <<fw, cloud>> /\ asked \subseteq asked'
  BY <1>6 DEF PolicyCalls, ConsumerCalls, Reports, ConsumerReports, PolicyEscalates, PolicyReturns, ContextExpires, Ask
<1>7. CASE Restart \/ UNCHANGED vars
  BY <1>1, <1>7 DEF Restart, vars
<1> QED
  BY <1>1, <1>2, <1>3, <1>4, <1>5, <1>6, <1>7, NextSteps DEF Elsewhere

\* A dry run touches nothing, whoever shares the DryRun flag with it: what the
\* host or a provider bans is a public address that a real call asked to ban
\* (Blocker.EnforceContainment, LocalFirewall.BlockIP).
THEOREM BansWereAsked == Spec => []OnlyAskedBans
<1> DEFINE Wanted == {r.ip : r \in {q \in asked : ~q.dry}}
<1>1. Init => OnlyAskedBans
  BY DEF Init, OnlyAskedBans
<1>2. TypeInv /\ AsAsked /\ Spawned /\ OnlyAskedBans /\ [Next]_vars => OnlyAskedBans'
  <2> SUFFICES ASSUME TypeInv, AsAsked, Spawned, OnlyAskedBans, [Next]_vars PROVE OnlyAskedBans'
    OBVIOUS
  <2>1. Banned \subseteq Wanted \cap Public
    BY DEF OnlyAskedBans, Banned
  <2>2. Wanted \subseteq Wanted'
    BY BansGrow
  <2>3. ASSUME NEW c \in Callers, pc[c] \in {"addset", "addrule"} PROVE call[c].ip \in Wanted \cap Public
    <3>1. ~call[c].dry /\ call[c].ip \in Public
      BY <2>3 DEF AsAsked, Blocking
    <3>2. call[c] \in asked
      BY <2>3, CallIds
    <3> QED
      BY <3>1, <3>2
  <2>4. ASSUME NEW t \in tasks PROVE t.ip \in Wanted \cap Public
    <3>1. AskedOf(t) \in asked /\ ~AskedOf(t).dry /\ AskedOf(t).ip = t.ip /\ t.ip \in Public
      BY DEF Spawned, AskedOf
    <3> QED
      BY <3>1
  <2>5. Banned' \subseteq Wanted' \cap Public
    <3> HIDE DEF Wanted
    <3>1. \/ Banned' = Banned
          \/ \E c \in Callers : pc[c] \in {"addset", "addrule"} /\ Banned' = Banned \cup {call[c].ip}
          \/ \E t \in tasks : Banned' = Banned \cup {t.ip}
      BY BansGrow
    <3> QED
      BY <2>1, <2>2, <2>3, <2>4, <3>1
  <2> QED
    BY <2>5 DEF OnlyAskedBans, Banned
<1> QED
  BY <1>1, <1>2, TypeInvariant, AsAskedInvariant, SpawnedInvariant, PTL DEF Spec

-----------------------------------------------------------------------------
\* A set that is used, or about to be, is one whose members the host drops.
Hooked ==
    /\ \A b \in Blockers : useSet[b] => fw.hooks > 0
    /\ \A c \in Callers : pc[c] = "addset" => fw.hooks > 0

LEMMA HookedInvariant == Spec => []Hooked
<1> USE ContainmentAssumption
<1>1. Init => Hooked
  BY DEF Init, Hooked, Procs
<1>2. TypeInv /\ Hooked /\ [Next]_vars => Hooked'
  <2> SUFFICES ASSUME TypeInv, Hooked, [Next]_vars PROVE Hooked'
    OBVIOUS
  <2>a. fw.hooks \in Nat /\ Callers \subseteq Procs /\ \A c \in Callers : BlockerOf[c] \in Blockers
    BY DEF TypeInv, TypeOK, Firewall, Procs
  <2>1. CASE Elsewhere
    BY <2>1, <2>a, SetupFrame DEF SetupKept, Hooked
  <2>2. CASE Restart
    BY <2>2 DEF Restart, Booted, Hooked, Procs
  <2>3. ASSUME NEW p \in Procs, EnsureReady(p) PROVE Hooked'
    <3>a. BlockerAt(p) \in Blockers
      BY DEF Procs, BlockerAt
    <3>b. \A c \in Callers : pc'[c] = "addset" => pc[c] = "addset"
      BY <2>3, <2>a, EnsureFrame DEF TypeInv, TypeOK
    <3>1. CASE NothingToPrepare(p) \/ Prepare(p) \/ LockSetup(p) \/ CreateSet(p) \/ HookAbsent(p) \/ HookCheckFails(p)
      <4>1. useSet' = useSet /\ fw'.hooks = fw.hooks
        BY <3>1 DEF NothingToPrepare, Prepare, LockSetup, CreateSet, HookAbsent, HookCheckFails, blockerVars,
                    TypeInv, TypeOK, Firewall
      <4> QED
        BY <3>b, <4>1 DEF Hooked
    <3>2. CASE CreateSetFails(p) \/ InsertHookFails(p)
      <4>1. useSet' = [useSet EXCEPT ![BlockerAt(p)] = FALSE] /\ fw' = fw
        BY <3>2 DEF CreateSetFails, InsertHookFails, SetupEnds
      <4> QED
        BY <3>b, <4>1 DEF Hooked, TypeInv, TypeOK
    <3>3. CASE HookPresent(p) \/ InsertHook(p)
      <4>1. fw'.hooks > 0
        <5>1. (fw' = fw /\ fw.hooks > 0) \/ fw' = [fw EXCEPT !.hooks = @ + 1]
          BY <3>3 DEF HookPresent, InsertHook
        <5>2. (fw'.hooks = fw.hooks /\ fw.hooks > 0) \/ fw'.hooks = fw.hooks + 1
          BY <5>1 DEF TypeInv, TypeOK, Firewall
        <5> QED
          BY <2>a, <5>2
      <4> QED
        BY <4>1 DEF Hooked
    <3> QED
      BY <2>3, <3>1, <3>2, <3>3 DEF EnsureReady
  <2> QED
    BY <2>1, <2>2, <2>3, NextSteps
<1> QED
  BY <1>1, <1>2, TypeInvariant, PTL DEF Spec

\* What the host drops it keeps dropping.
LEMMA DropsStay ==
    ASSUME TypeInv, TypeInv', [Next]_vars
    PROVE  \A ip : Dropped(ip) => Dropped(ip)'
<1>1. fw.hooks \in Nat /\ fw'.hooks \in Nat
  BY DEF TypeInv, TypeOK, Firewall
<1>2. /\ fw.members \subseteq fw'.members /\ fw.rules \subseteq fw'.rules
      /\ fw.hooks <= fw'.hooks
  BY BansGrow
<1> QED
  BY <1>1, <1>2 DEF Dropped

\* How a call comes to say that the local firewall took its ban.
LEMMA LocalOKSteps ==
    ASSUME TypeInv, TypeInv', AsAsked, Hooked, [Next]_vars, NEW c \in Callers, localOK'[c]
    PROVE  \/ localOK[c] /\ call'[c] = call[c]
           \/ call'[c] = call[c] /\ (call[c].dry \/ Dropped(call[c].ip)')
<1> USE ContainmentAssumption DEF blockerVars, resultVars, taskVars, logVars
<1>a. localOK \in [Callers -> BOOLEAN] /\ call \in [Callers -> Request]
  BY DEF TypeInv, TypeOK
<1> DEFINE Goal == \/ localOK[c] /\ call'[c] = call[c]
                   \/ call'[c] = call[c] /\ (call[c].dry \/ Dropped(call[c].ip)')
<1>1. CASE UNCHANGED <<localOK, call>>
  BY <1>1
<1>2. ASSUME NEW d \in Callers, PolicyCalls(d) \/ ConsumerCalls(d) \/ Reports(d) PROVE Goal
  <2>1. /\ localOK' = [localOK EXCEPT ![d] = FALSE]
        /\ \A e \in Callers \ {d} : call'[e] = call[e]
    BY <1>2, <1>a DEF PolicyCalls, ConsumerCalls, Reports, ConsumerReports, PolicyEscalates, PolicyReturns, Ask, Forget
  <2> QED
    BY <1>a, <2>1
<1>3. ASSUME NEW d \in Callers, DryBlock(d) PROVE Goal
  <2>1. call[d].dry /\ call' = call /\ localOK' = [localOK EXCEPT ![d] = TRUE]
    BY <1>3 DEF DryBlock, Goto, AsAsked, Blocking
  <2> QED
    BY <1>a, <2>1
<1>4. ASSUME NEW d \in Callers, AddToSet(d) \/ AddRule(d) PROVE Goal
  <2>1. call' = call /\ localOK' = [localOK EXCEPT ![d] = TRUE]
    BY <1>4 DEF AddToSet, AddRule
  <2>2. Dropped(call[d].ip)'
    <3>1. CASE AddToSet(d)
      <4>1. fw.hooks > 0
        BY <3>1 DEF AddToSet, Goto, Hooked
      <4> QED
        BY <3>1, <4>1, <2>1 DEF AddToSet, Dropped, TypeInv, TypeOK, Firewall
    <3>2. CASE AddRule(d)
      BY <3>2, <2>1 DEF AddRule, Dropped, TypeInv, TypeOK, Firewall
    <3> QED
      BY <1>4, <3>1, <3>2
  <2> QED
    BY <1>a, <2>1, <2>2
<1>5. ASSUME NEW d \in Callers, EnforceContainment(d), ~DryBlock(d), ~AddToSet(d), ~AddRule(d)
      PROVE  UNCHANGED <<localOK, call>>
  BY <1>5 DEF EnforceContainment, BlockIP, SkipPrivate, SkipLocal, SetDryRun, RealBlock,
              ChooseBackend, BlockFails, Spawn, WaitEnds, WaitTimesOut, CopyTried
<1>6. ASSUME NEW p \in Procs, EnsureReady(p) PROVE UNCHANGED <<localOK, call>>
  BY <1>6, EnsureFrame
<1>7. ASSUME NEW t \in tasks, CloudTask(t) PROVE UNCHANGED <<localOK, call>>
  BY <1>7 DEF CloudTask, TaskStarts, TaskBans, TaskFails
<1>8. ASSUME NEW d \in Callers, ContextExpires(d) PROVE UNCHANGED <<localOK, call>>
  BY <1>8 DEF ContextExpires
<1>9. CASE Restart
  BY <1>9 DEF Restart, Booted
<1>10. CASE UNCHANGED vars
  BY <1>10 DEF vars
<1>11. ASSUME NEW d \in Callers, EnforceContainment(d) PROVE Goal
  BY <1>1, <1>3, <1>4, <1>5, <1>11
<1>12. CASE Elsewhere
  BY <1>1, <1>2, <1>7, <1>8, <1>10, <1>11, <1>12 DEF Elsewhere
<1>13. Goal
  BY <1>1, <1>6, <1>9, <1>12, NextSteps
<1> QED
  BY <1>13

\* What a record says of the call it is made of.
LEMMA ReportSteps ==
    ASSUME [Next]_vars, NEW r \in reports', r \notin reports
    PROVE  \E c \in Callers :
               /\ pc[c] = "report"
               /\ r.ip = call[c].ip /\ r.dry = call[c].dry /\ r.local = localOK[c] /\ r.late = late[c]
               /\ r.blocked => localOK[c] \/ CloudWon(c)
<1> USE DEF resultVars, logVars
<1> DEFINE Goal == \E c \in Callers :
               /\ pc[c] = "report"
               /\ r.ip = call[c].ip /\ r.dry = call[c].dry /\ r.local = localOK[c] /\ r.late = late[c]
               /\ r.blocked => localOK[c] \/ CloudWon(c)
<1>1. ASSUME NEW c \in Callers, ConsumerReports(c) PROVE Goal
  <2> DEFINE blocked == localOK[c] \/ CloudWon(c)
  <2>1. pc[c] = "report" /\ r = ReportOf(c, blocked)
    BY <1>1 DEF ConsumerReports, Goto
  <2>2. r.ip = call[c].ip /\ r.dry = call[c].dry /\ r.local = localOK[c] /\ r.late = late[c]
    BY <2>1 DEF ReportOf
  <2>3. ~blocked => r = ReportOf(c, FALSE)
    <3> HIDE DEF blocked
    <3>1. blocked \in BOOLEAN
      BY DEF blocked
    <3> QED
      BY <2>1, <3>1
  <2>4. r.blocked => blocked
    BY <2>3 DEF ReportOf
  <2> QED
    BY <2>1, <2>2, <2>4
<1>2. ASSUME NEW c \in Callers, PolicyEscalates(c) \/ PolicyReturns(c) PROVE Goal
  <2>1. pc[c] = "report" /\ localOK[c] /\ r = ReportOf(c, TRUE)
    BY <1>2 DEF PolicyEscalates, PolicyReturns, Goto, PolicyRecord
  <2> QED
    BY <2>1 DEF ReportOf
<1>3. ASSUME NEW c \in Callers, PolicyCalls(c) \/ ConsumerCalls(c) \/ ContextExpires(c) PROVE reports' = reports
  BY <1>3 DEF PolicyCalls, ConsumerCalls, ContextExpires
<1>4. ASSUME NEW c \in Callers, EnforceContainment(c) PROVE reports' = reports
  BY <1>4 DEF EnforceContainment, BlockIP, SkipPrivate, SkipLocal, SetDryRun, DryBlock, RealBlock,
              ChooseBackend, AddToSet, AddRule, BlockFails, Spawn, WaitEnds, WaitTimesOut, CopyTried
<1>5. ASSUME NEW p \in Procs, EnsureReady(p) PROVE reports' = reports
  BY <1>5, EnsureFrame
<1>6. ASSUME NEW t \in tasks, CloudTask(t) PROVE reports' = reports
  BY <1>6 DEF CloudTask, TaskStarts, TaskBans, TaskFails
<1>7. CASE Restart \/ UNCHANGED vars
  BY <1>7 DEF Restart, vars
<1> QED
  BY <1>1, <1>2, <1>3, <1>4, <1>5, <1>6, <1>7, NextSteps DEF Elsewhere, Reports

\* When a call that was no dry run says that the local firewall took the ban,
\* the host drops the address, and goes on dropping it (LocalFirewall.BlockIP
\* and setupIPSet: useSet is read under the lock, the command runs without it).
THEOREM DropsWhenOK == Spec => []LocalOKDrops
<1>1. Init => LocalOKDrops
  BY DEF Init, LocalOKDrops
<1>2. TypeInv /\ TypeInv' /\ AsAsked /\ Hooked /\ LocalOKDrops /\ [Next]_vars => LocalOKDrops'
  <2> SUFFICES ASSUME TypeInv, TypeInv', AsAsked, Hooked, LocalOKDrops, [Next]_vars PROVE LocalOKDrops'
    OBVIOUS
  <2>1. ASSUME NEW r \in reports', r.local, ~r.dry PROVE Dropped(r.ip)'
    <3>1. CASE r \in reports
      <4>1. Dropped(r.ip)
        BY <2>1, <3>1 DEF LocalOKDrops
      <4> QED
        BY <4>1, DropsStay DEF Dropped
    <3>2. CASE r \notin reports
      <4>1. PICK c \in Callers : r.ip = call[c].ip /\ r.dry = call[c].dry /\ r.local = localOK[c]
        BY <3>2, ReportSteps
      <4>2. Dropped(r.ip)
        BY <2>1, <4>1 DEF LocalOKDrops
      <4> QED
        BY <4>2, DropsStay DEF Dropped
    <3> QED
      BY <3>1, <3>2
  <2>2. ASSUME NEW c \in Callers, localOK'[c], ~call'[c].dry PROVE Dropped(call[c].ip)'
    <3>1. CASE localOK[c] /\ call'[c] = call[c]
      <4>1. Dropped(call[c].ip)
        BY <2>2, <3>1 DEF LocalOKDrops
      <4> QED
        BY <3>1, <4>1, DropsStay DEF Dropped
    <3>2. CASE call'[c] = call[c] /\ (call[c].dry \/ Dropped(call[c].ip)')
      BY <2>2, <3>2
    <3> QED
      BY <2>2, <3>1, <3>2, LocalOKSteps
  <2> QED
    BY <2>1, <2>2 DEF LocalOKDrops
<1> QED
  BY <1>1, <1>2, TypeInvariant, AsAskedInvariant, HookedInvariant, PTL DEF Spec

-----------------------------------------------------------------------------
\* A provider a call tried has refused, has banned the address, or still has a
\* goroutine of the call busy with it.
Answered(c, p) ==
    \/ p \in errors[c]
    \/ call[c].ip \in cloud
    \/ \E t \in tasks : t.id = call[c].id /\ t.provider = p /\ t.started

\* Every provider tried is accounted for; a call that waited for its goroutines
\* has none left when it copies its Result.
Accounted ==
    \A c \in Callers :
        /\ seen[c] \subseteq tried[c]
        /\ \A p \in tried[c] : Answered(c, p)
        /\ pc[c] \in {"copy", "report"} /\ ~late[c] => \A t \in tasks : t.id # call[c].id

\* Steps that leave the account of every call alone, or begin it anew.
LEMMA AccountedFrame ==
    ASSUME Accounted, TypeInv, TypeInv', Spawned', cloud \subseteq cloud', tasks' \subseteq tasks,
           \A t \in tasks : t.started => t \in tasks' \/ \A c \in Callers : call'[c].id # t.id,
           \A c \in Callers :
               \/ tried'[c] = {} /\ seen'[c] = {} /\ pc'[c] \notin {"copy", "report"}
               \/ /\ call'[c] = call[c] /\ tried'[c] = tried[c] /\ errors'[c] = errors[c]
                  /\ seen'[c] \in {seen[c], tried[c]}
                  /\ \/ pc'[c] \notin {"copy", "report"}
                     \/ \A t \in tasks : t.id # call[c].id
                     \/ pc[c] \in {"copy", "report"} /\ late'[c] = late[c]
                     \/ late'[c]
    PROVE  Accounted'
<1> SUFFICES ASSUME NEW c \in Callers
             PROVE  /\ seen'[c] \subseteq tried'[c]
                    /\ \A p \in tried'[c] : Answered(c, p)'
                    /\ pc'[c] \in {"copy", "report"} /\ ~late'[c] => \A t \in tasks' : t.id # call'[c].id
  BY DEF Accounted
<1>1. CASE tried'[c] = {} /\ seen'[c] = {} /\ pc'[c] \notin {"copy", "report"}
  BY <1>1
<1>2. CASE /\ call'[c] = call[c] /\ tried'[c] = tried[c] /\ errors'[c] = errors[c]
           /\ seen'[c] \in {seen[c], tried[c]}
           /\ \/ pc'[c] \notin {"copy", "report"}
              \/ \A t \in tasks : t.id # call[c].id
              \/ pc[c] \in {"copy", "report"} /\ late'[c] = late[c]
              \/ late'[c]
  <2>1. seen'[c] \subseteq tried'[c]
    BY <1>2 DEF Accounted
  <2>2. ASSUME NEW p \in tried'[c] PROVE Answered(c, p)'
    <3>1. Answered(c, p)
      BY <1>2 DEF Accounted
    <3> QED
      BY <1>2, <3>1 DEF Answered
  <2>3. pc'[c] \in {"copy", "report"} /\ ~late'[c] => \A t \in tasks' : t.id # call'[c].id
    BY <1>2 DEF Accounted
  <2> QED
    BY <2>1, <2>2, <2>3
<1> QED
  BY <1>1, <1>2

LEMMA AccountedInvariant == Spec => []Accounted
<1> USE ContainmentAssumption
<1>1. Init => Accounted
  BY DEF Init, Accounted, Procs
<1>2. TypeInv /\ TypeInv' /\ Spawned /\ Spawned' /\ Accounted /\ [Next]_vars => Accounted'
  <2> SUFFICES ASSUME TypeInv, TypeInv', Spawned, Spawned', Accounted, [Next]_vars PROVE Accounted'
    OBVIOUS
  <2> USE DEF taskVars, logVars, resultVars, blockerVars
  <2>a. Callers \subseteq Procs
    BY DEF Procs
  <2>b. /\ call \in [Callers -> Request] /\ pc \in [Procs -> Steps] /\ tasks \subseteq Task
        /\ tried \in [Callers -> SUBSET Providers] /\ errors \in [Callers -> SUBSET Providers]
        /\ seen \in [Callers -> SUBSET Providers] /\ late \in [Callers -> BOOLEAN]
    BY DEF TypeInv, TypeOK
  \* A call is begun, or over.
  <2>1. ASSUME NEW c \in Callers, PolicyCalls(c) \/ ConsumerCalls(c) \/ Reports(c) PROVE Accounted'
    <3>1. /\ tried' = [tried EXCEPT ![c] = {}] /\ errors' = [errors EXCEPT ![c] = {}]
          /\ seen' = [seen EXCEPT ![c] = {}] /\ late' = [late EXCEPT ![c] = FALSE]
          /\ UNCHANGED <<tasks, cloud>>
          /\ \A d \in Callers \ {c} : call'[d] = call[d]
      BY <2>1, <2>b DEF PolicyCalls, ConsumerCalls, Reports, ConsumerReports, PolicyEscalates, PolicyReturns, Ask, Forget
    <3>2. \E s \in {"idle", "begin"} : pc' = [pc EXCEPT ![c] = s]
      BY <2>1 DEF PolicyCalls, ConsumerCalls, Reports, ConsumerReports, PolicyEscalates, PolicyReturns, Goto
    <3> QED
      BY <2>a, <2>b, <3>1, <3>2, AccountedFrame
  \* A caller moves on; its Result does not change.
  <2>2. ASSUME NEW p \in Procs, NEW s, UNCHANGED <<call, tried, errors, seen, late, tasks, cloud>>,
               pc' = [pc EXCEPT ![p] = s],
               \/ s \notin {"copy", "report"}
               \/ p \in Callers /\ \A t \in tasks : t.id # call[p].id
        PROVE  Accounted'
    <3>1. \A c \in Callers : \/ pc'[c] = pc[c]
                             \/ pc'[c] \notin {"copy", "report"}
                             \/ \A t \in tasks : t.id # call[c].id
      BY <2>2, <2>a, <2>b
    <3> QED
      BY <2>2, <3>1, AccountedFrame
  <2>3. ASSUME NEW c \in Callers, EnforceContainment(c) PROVE Accounted'
    <3>1. CASE SkipPrivate(c) \/ SkipLocal(c) \/ SetDryRun(c) \/ BlockIP(c) \/ WaitEnds(c)
      <4>1. UNCHANGED <<call, tried, errors, seen, late, tasks, cloud>>
        BY <3>1 DEF BlockIP, SkipPrivate, SkipLocal, SetDryRun, DryBlock, RealBlock, ChooseBackend, AddToSet,
                    AddRule, BlockFails, WaitEnds
      <4>2. /\ \E s \in Steps : pc' = [pc EXCEPT ![c] = s]
            /\ pc[c] \notin {"wait", "copy", "report"} \/ \A t \in tasks : t.id # call[c].id
        BY <3>1 DEF BlockIP, SkipPrivate, SkipLocal, SetDryRun, DryBlock, RealBlock, ChooseBackend, AddToSet,
                    AddRule, BlockFails, WaitEnds, TasksOf, Goto, AfterLocal, Steps
      <4>3. \A t \in tasks : t.id # call[c].id
        BY <4>2 DEF Spawned
      <4> QED
        BY <2>2, <2>a, <4>1, <4>2, <4>3
    <3>2. CASE WaitTimesOut(c)
      <4>1. /\ UNCHANGED <<call, tried, errors, seen, tasks, cloud>> /\ late' = [late EXCEPT ![c] = TRUE]
            /\ pc' = [pc EXCEPT ![c] = "copy"]
        BY <3>2 DEF WaitTimesOut, Goto
      <4>2. late'[c] /\ \A d \in Callers \ {c} : pc'[d] = pc[d] /\ late'[d] = late[d]
        BY <2>a, <2>b, <4>1
      <4> QED
        BY <4>1, <4>2, AccountedFrame
    <3>3. CASE CopyTried(c)
      <4>1. /\ UNCHANGED <<call, tried, errors, late, tasks, cloud>> /\ seen' = [seen EXCEPT ![c] = tried[c]]
            /\ pc' = [pc EXCEPT ![c] = "report"] /\ pc[c] = "copy"
        BY <3>3 DEF CopyTried, Goto
      <4>2. \A d \in Callers : /\ seen'[d] \in {seen[d], tried[d]}
                               /\ pc'[d] = pc[d] \/ pc[d] = "copy"
        BY <2>a, <2>b, <4>1
      <4> QED
        BY <4>1, <4>2, AccountedFrame
    <3>4. CASE Spawn(c)
      <4>1. /\ UNCHANGED <<call, tried, errors, seen, late, cloud>> /\ tasks \subseteq tasks'
            /\ pc' = [pc EXCEPT ![c] = "wait"]
            /\ \A t \in tasks' \ tasks : t.id = call[c].id
        BY <3>4 DEF Spawn, Goto
      <4>2. pc'[c] = "wait" /\ \A d \in Callers \ {c} : pc'[d] = pc[d]
        BY <2>a, <2>b, <4>1
      <4>3. ASSUME NEW d \in Callers, pc'[d] \in {"copy", "report"}, ~late'[d], NEW t \in tasks'
            PROVE  t.id # call'[d].id
        <5>1. d # c /\ pc[d] = pc'[d]
          BY <4>2, <4>3
        <5>2. CASE t \in tasks
          BY <4>1, <4>3, <5>1, <5>2 DEF Accounted
        <5>3. CASE t \notin tasks
          <6>1. t.id = call'[c].id
            BY <4>1, <5>3
          <6> QED
            BY <5>1, <6>1 DEF Spawned
        <5> QED
          BY <5>2, <5>3
      <4>4. ASSUME NEW d \in Callers, NEW p \in tried'[d] PROVE Answered(d, p)'
        <5>1. Answered(d, p)
          BY <4>1 DEF Accounted
        <5> QED
          BY <4>1, <5>1 DEF Answered
      <4>5. \A d \in Callers : seen'[d] \subseteq tried'[d]
        BY <4>1 DEF Accounted
      <4> QED
        BY <4>3, <4>4, <4>5 DEF Accounted
    <3> QED
      BY <2>3, <3>1, <3>2, <3>3, <3>4 DEF EnforceContainment
  <2>4. ASSUME NEW p \in Procs, EnsureReady(p) PROVE Accounted'
    <3>1. UNCHANGED <<call, tried, errors, seen, late, tasks, cloud>>
      BY <2>4, EnsureFrame
    <3>2. \E s \in {"lock", "create", "check", "insert", "idle", "backend"} : pc' = [pc EXCEPT ![p] = s]
      BY <2>4, EnsureFrame
    <3> QED
      BY <2>2, <3>1, <3>2
  <2>5. ASSUME NEW t \in tasks, CloudTask(t) PROVE Accounted'
    <3> DEFINE mine(c) == call[c].id = t.id
    <3>a. UNCHANGED <<pc, call, seen, late>> /\ t \in Task /\ cloud \subseteq cloud'
      BY <2>5, <2>b DEF CloudTask, TaskStarts, TaskBans, TaskFails
    <3>b. \A c \in Callers : mine(c) => t.caller = c /\ call[c].ip = t.ip
      BY TaskIds DEF Spawned
    <3>c. /\ \A u \in tasks' : u \in tasks \/ u.id = t.id
          /\ \A u \in tasks : u # t => u \in tasks'
      BY <3>a, <2>5 DEF CloudTask, TaskStarts, TaskBans, TaskFails, Task
    <3>d. \A c \in Callers : pc'[c] \in {"copy", "report"} /\ ~late'[c] => \A u \in tasks' : u.id # call'[c].id
      BY <3>a, <3>c DEF Accounted
    <3>1. CASE TaskStarts(t)
      <4> DEFINE u == [t EXCEPT !.started = TRUE]
      <4>1. u \in tasks' /\ u.id = t.id /\ u.provider = t.provider /\ u.started /\ ~t.started
        BY <3>a, <3>1 DEF TaskStarts, Task
      <4>2. /\ UNCHANGED <<errors, cloud>>
            /\ \A c \in Callers : \/ tried'[c] = tried[c]
                                  \/ mine(c) /\ tried'[c] = tried[c] \cup {t.provider}
        BY <2>b, <3>a, <3>1 DEF TaskStarts, Append, Task
      <4>3. ASSUME NEW c \in Callers, NEW p \in tried'[c] PROVE Answered(c, p)'
        <5>1. CASE p \in tried[c]
          <6>1. Answered(c, p)
            BY <5>1 DEF Accounted
          <6> QED
            BY <3>a, <3>c, <4>1, <4>2, <6>1 DEF Answered
        <5>2. CASE p \notin tried[c]
          <6>1. mine(c) /\ p = t.provider
            BY <4>2, <4>3, <5>2
          <6> QED
            BY <3>a, <4>1, <6>1 DEF Answered
        <5> QED
          BY <5>1, <5>2
      <4>4. \A c \in Callers : seen'[c] \subseteq tried'[c]
        BY <3>a, <4>2 DEF Accounted
      <4> QED
        BY <3>d, <4>3, <4>4 DEF Accounted
    <3>2. CASE TaskBans(t) \/ TaskFails(t)
      <4>1. /\ tried' = tried
            /\ \A c \in Callers : errors[c] \subseteq errors'[c]
            /\ t.ip \in cloud' \/ \A c \in Callers : mine(c) => t.provider \in errors'[c]
        <5>1. CASE TaskBans(t)
          BY <5>1 DEF TaskBans
        <5>2. CASE TaskFails(t)
          <6>1. \A c \in Callers : mine(c) => errors' = [errors EXCEPT ![c] = @ \cup {t.provider}]
            BY <3>a, <3>b, <5>2 DEF TaskFails, Append, Task
          <6>2. errors' = errors \/ errors' = [errors EXCEPT ![t.caller] = @ \cup {t.provider}]
            BY <5>2 DEF TaskFails, Append
          <6>3. tried' = tried
            BY <5>2 DEF TaskFails
          <6> QED
            BY <2>b, <6>1, <6>2, <6>3
        <5> QED
          BY <3>2, <5>1, <5>2
      <4>2. ASSUME NEW c \in Callers, NEW p \in tried'[c] PROVE Answered(c, p)'
        <5>1. Answered(c, p)
          BY <4>1 DEF Accounted
        <5>2. CASE mine(c) /\ p = t.provider
          BY <3>a, <3>b, <4>1, <5>2 DEF Answered
        <5>3. CASE ~(mine(c) /\ p = t.provider)
          BY <3>a, <3>c, <4>1, <5>1, <5>3 DEF Answered
        <5> QED
          BY <5>2, <5>3
      <4>3. \A c \in Callers : seen'[c] \subseteq tried'[c]
        BY <3>a, <4>1 DEF Accounted
      <4> QED
        BY <3>d, <4>2, <4>3 DEF Accounted
    <3> QED
      BY <2>5, <3>1, <3>2 DEF CloudTask
  <2>6. CASE Restart
    BY <2>6 DEF Restart, Booted, Accounted, Procs
  <2>7. CASE UNCHANGED <<pc, call, tried, errors, seen, late, tasks, cloud>>
    BY <2>7, AccountedFrame
  <2> QED
    BY <2>1, <2>3, <2>4, <2>5, <2>6, <2>7, NextSteps DEF Elsewhere, ContextExpires, vars
<1> QED
  BY <1>1, <1>2, TypeInvariant, SpawnedInvariant, PTL DEF Spec

\* A call that waited for its providers and got more of them tried than refused
\* is about an address that a provider bans.
LEMMA CloudWins ==
    ASSUME TypeInv, Accounted, NEW c \in Callers, pc[c] = "report", ~late[c], CloudWon(c)
    PROVE  call[c].ip \in cloud
<1> SUFFICES ASSUME call[c].ip \notin cloud PROVE FALSE
  OBVIOUS
<1>1. seen[c] \subseteq errors[c]
  BY DEF Accounted, Answered
<1>2. IsFiniteSet(errors[c])
  BY FS_Subset, ContainmentAssumption DEF TypeInv, TypeOK
<1>3. /\ Cardinality(seen[c]) <= Cardinality(errors[c])
      /\ Cardinality(seen[c]) \in Nat /\ Cardinality(errors[c]) \in Nat
  BY <1>1, <1>2, FS_Subset, FS_CardinalityType
<1> QED
  BY <1>3 DEF CloudWon

\* A record that says blocked, of a call that was no dry run and that waited
\* for its providers, is about an address that the host or a provider bans, now
\* and from then on (Blocker.EnforceContainment, onDisrupt and Enforce).
THEOREM BlockedBans == Spec => []BlockedIsBanned
<1>1. Init => BlockedIsBanned
  BY DEF Init, BlockedIsBanned
<1>2. /\ TypeInv /\ TypeInv' /\ Accounted /\ LocalOKDrops /\ BlockedIsBanned /\ [Next]_vars
      => BlockedIsBanned'
  <2> SUFFICES ASSUME TypeInv, TypeInv', Accounted, LocalOKDrops, BlockedIsBanned, [Next]_vars,
                      NEW r \in reports', r.blocked, ~r.dry, ~r.late
               PROVE  Dropped(r.ip)' \/ r.ip \in cloud'
    BY DEF BlockedIsBanned, Dropped
  <2>1. Dropped(r.ip) \/ r.ip \in cloud
    <3>1. CASE r \in reports
      BY <3>1 DEF BlockedIsBanned
    <3>2. CASE r \notin reports
      <4>1. PICK c \in Callers : /\ pc[c] = "report"
                                 /\ r.ip = call[c].ip /\ r.dry = call[c].dry /\ r.late = late[c]
                                 /\ r.blocked => localOK[c] \/ CloudWon(c)
        BY <3>2, ReportSteps
      <4>2. CASE localOK[c]
        BY <4>1, <4>2 DEF LocalOKDrops
      <4>3. CASE CloudWon(c)
        BY <4>1, <4>3, CloudWins
      <4> QED
        BY <4>1, <4>2, <4>3
    <3> QED
      BY <3>1, <3>2
  <2>2. cloud \subseteq cloud'
    BY BansGrow
  <2> QED
    BY <2>1, <2>2, DropsStay DEF Dropped
<1> QED
  BY <1>1, <1>2, TypeInvariant, AccountedInvariant, DropsWhenOK, PTL DEF Spec
=============================================================================
