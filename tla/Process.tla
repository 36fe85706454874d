------------------------------ MODULE Process ------------------------------
(***************************************************************************)
(* One ATDE process from its start to its end: cmd/atde/main.go with the   *)
(* settings cascade of config/config.go.  main loads the settings, decides *)
(* what may act for real, connects to NATS, starts the services of its     *)
(* mode in an errgroup and waits for all of them.  A signal, or the error  *)
(* of any service, ends the context they share; each service then returns  *)
(* in its own way, and when the last one has, the process exits.           *)
(*                                                                         *)
(* The services with a behaviour of their own are modules Deception,       *)
(* Streamer and Decoy, which extend this one; module Node puts them        *)
(* together.  The bus consumers (module Pipeline) and the ops server are   *)
(* here by their lifecycle only, and return as soon as the context ends.   *)
(*                                                                         *)
(* Left out: the commands that end without starting a service (caught,     *)
(* export, watch, ...: module LedgerReaders), defaults of addresses and    *)
(* intervals, credentials, which are read and passed on, and the hardening *)
(* guard, whose checks are system calls.                                   *)
(***************************************************************************)
EXTENDS Naturals

CONSTANTS
    Starts,    \* the modes and settings the process may be started with
    MaxWork,   \* bound, by mode: requests, visits and certificates that come in
    MaxFaults  \* bound: failures and crashes in a behaviour

VARIABLES
    mode,     \* the -mode flag
    settings, \* what config.yaml and the environment set
    phase,    \* where main is
    dry,      \* App.DryRun, and the DryRun of every subsystem
    wired,    \* main made a Blocker for the policy engine
    bus,      \* natsbus.Connect succeeded
    done,     \* the context of the services has ended
    broken,   \* a service returned an error
    svc,      \* svc[s]: how far service s is
    work,     \* requests, visits and certificates so far
    faults    \* failures and crashes so far

procVars == <<mode, settings, phase, dry, wired, bus, done, broken, svc>>

\* Servers close their listeners and wait for handlers; the others only return.
Servers   == {"honeypot", "deception"}
Consumers == {"extract", "enrich", "dispatch", "active-defense", "sinkhole", "publish"}
Others    == Consumers \cup {"ops-http"}
Services  == Servers \cup {"ct-streamer"} \cup Others

\* The modes that start services.
Modes == {"all", "catch-node", "ct", "honeypot", "tarpit", "deception", "active"}
             \cup (Consumers \ {"active-defense"})

\* app.env, app.live and active_defense.edge.local_firewall in the file;
\* ATDE_LIVE, ATDE_DRY_RUN, ATDE_LOCAL_FIREWALL and ATDE_NATS_OPTIONAL.
Settings == [production : BOOLEAN, live : BOOLEAN, localFirewall : BOOLEAN,
             envLive : BOOLEAN, envDryRun : BOOLEAN,
             envLocalFirewall : {"unset", "on", "off"}, envNatsOptional : BOOLEAN]

ASSUME ProcessAssumption ==
    /\ MaxWork \in [Modes -> Nat] /\ MaxFaults \in Nat
    /\ Starts \subseteq Modes \X Settings

-----------------------------------------------------------------------------
\* The three ways to ask for a live node; production alone does not insist.
LiveAsked(c) == c.live \/ c.envLive \/ (c.production /\ ~c.envDryRun)

\* applyDefaults: ATDE_DRY_RUN has the last word.
Live(c) == LiveAsked(c) /\ ~c.envDryRun

\* A live node blocks at its own firewall unless told not to; on any other,
\* the file decides and ATDE_LOCAL_FIREWALL is not looked at.
LocalFirewall(c) ==
    IF Live(c) THEN c.envLocalFirewall # "off" ELSE c.localFirewall

\* main's condition for a Blocker.
Wired(c, m) == LocalFirewall(c) /\ (m = "catch-node" \/ Live(c))

\* Modes that start without a bus.
BusOptional(c, m) == m = "catch-node" \/ c.envNatsOptional

\* Every mode's services; those that need the bus are skipped without it.
ModeServices(m) ==
    CASE m = "all" -> Services
      [] m = "catch-node" -> {"honeypot", "deception", "extract", "active-defense"}
      [] m \in {"honeypot", "tarpit"} -> {"honeypot", "extract", "active-defense"}
      [] m = "deception" -> {"deception", "active-defense"}
      [] m = "ct" -> {"ct-streamer"}
      [] m = "active" -> {"active-defense"}
      [] OTHER -> {m}

Started(m, b) ==
    (IF b THEN ModeServices(m) ELSE ModeServices(m) \cap Servers) \cup {"ops-http"}

ProcessInit ==
    /\ \E start \in Starts : mode = start[1] /\ settings = start[2]
    /\ phase = "loading"
    /\ dry = TRUE /\ wired = FALSE /\ bus = FALSE
    /\ done = FALSE /\ broken = FALSE
    /\ svc = [s \in Services |-> "off"]
    /\ work = 0 /\ faults = 0

Fault == faults < MaxFaults /\ faults' = faults + 1

\* Something comes in from outside.
Work == work < MaxWork[mode] /\ work' = work + 1

\* What is left of the services when the context ends.
Dismissed == [s \in Services |-> IF s \in Others /\ svc[s] = "up" THEN "returned" ELSE svc[s]]

\* Service s takes connections (Up), or still runs what it has begun.
Up(s)      == phase = "running" /\ svc[s] = "up"
Working(s) == phase = "running" /\ svc[s] # "off"

-----------------------------------------------------------------------------
\* main, up to the services of its mode.
Boot(b) ==
    /\ phase = "loading"
    /\ b \/ BusOptional(settings, mode)
    /\ phase' = "running"
    /\ bus' = b
    /\ dry' = ~Live(settings)
    /\ wired' = Wired(settings, mode)
    /\ svc' = [s \in Services |-> IF s \in Started(mode, b) THEN "up" ELSE "off"]
    /\ UNCHANGED <<mode, settings, done, broken, work, faults>>

\* No settings, no bus where one is needed, or a bad e-mail configuration.
BootFails ==
    /\ phase = "loading"
    /\ Fault
    /\ phase' = "failed"
    /\ UNCHANGED <<mode, settings, dry, wired, bus, done, broken, svc, work>>

\* SIGINT or SIGTERM.
Signal ==
    /\ phase = "running" /\ ~done
    /\ done' = TRUE
    /\ svc' = Dismissed
    /\ UNCHANGED <<mode, settings, phase, dry, wired, bus, broken, work, faults>>

\* A port is taken, or a consumer cannot subscribe: the errgroup ends the
\* context of all the others.  The streamer retries instead.
ServiceFails(s) ==
    /\ Up(s) /\ s # "ct-streamer"
    /\ Fault
    /\ svc' = [Dismissed EXCEPT ![s] = "returned"]
    /\ broken' = TRUE /\ done' = TRUE
    /\ UNCHANGED <<mode, settings, phase, dry, wired, bus, work>>

\* A server's Run calls Shutdown, which closes the listener ...
CloseListener(s) ==
    /\ Up(s) /\ done
    /\ s \in Servers
    /\ svc' = [svc EXCEPT ![s] = "closing"]
    /\ UNCHANGED <<mode, settings, phase, dry, wired, bus, done, broken, work, faults>>

\* ... and waits for the handlers, but no longer than 5 seconds: Run returns
\* whether or not they have ended.
ServerReturns(s) ==
    /\ phase = "running" /\ svc[s] = "closing"
    /\ svc' = [svc EXCEPT ![s] = "returned"]
    /\ UNCHANGED <<mode, settings, phase, dry, wired, bus, done, broken, work, faults>>

\* g.Wait returns, and main with it.
Exit ==
    /\ phase = "running"
    /\ \A s \in Services : svc[s] \in {"off", "returned"}
    /\ phase' = IF broken THEN "failed" ELSE "stopped"
    /\ UNCHANGED <<mode, settings, dry, wired, bus, done, broken, svc, work, faults>>

\* The process is killed; what its services had in memory is gone.
Crash ==
    /\ phase = "running"
    /\ Fault
    /\ phase' = "killed"
    /\ UNCHANGED <<mode, settings, dry, wired, bus, done, broken, svc, work>>

\* restart: unless-stopped, with the same settings.
Restart ==
    /\ phase = "killed"
    /\ phase' = "loading"
    /\ dry' = TRUE /\ wired' = FALSE /\ bus' = FALSE
    /\ done' = FALSE /\ broken' = FALSE
    /\ svc' = [s \in Services |-> "off"]
    /\ UNCHANGED <<mode, settings, work, faults>>

\* How a server winds up once the context has ended.
Winding(s) == CloseListener(s) \/ ServerReturns(s)

ProcessTypeOK ==
    /\ mode \in Modes /\ settings \in Settings
    /\ phase \in {"loading", "running", "stopped", "failed", "killed"}
    /\ dry \in BOOLEAN /\ wired \in BOOLEAN /\ bus \in BOOLEAN
    /\ done \in BOOLEAN /\ broken \in BOOLEAN
    /\ svc \in [Services -> {"off", "up", "closing", "returned"}]
    /\ work \in 0 .. MaxWork[mode] /\ faults \in 0 .. MaxFaults
=============================================================================
