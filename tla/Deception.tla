----------------------------- MODULE Deception -----------------------------
(***************************************************************************)
(* The deception engine: an HTTP server in front of an upstream that keeps *)
(* a risk score per client (deception/engine.go), records and publishes    *)
(* what it intercepts (deception/recorder.go), and from a score on has the *)
(* address banned by the cloud providers (immunize/cloudflare.go,          *)
(* aws_waf.go), each request in a goroutine of its own.                    *)
(*                                                                         *)
(* The engine and its sessions live in memory; the ledger, the bus and the *)
(* lists of the providers outlive the process.  Record and Publish appear  *)
(* by their outcome only: modules CatchLedger and Pipeline have their      *)
(* steps.                                                                  *)
(*                                                                         *)
(* Left out: the texts of the decoys, their delays, the timeline and the   *)
(* payloads kept in a session, which only go into reports, the SIEM post,  *)
(* whose outcome is only logged, and expiry: nothing ends a session or     *)
(* takes a ban back.                                                       *)
(***************************************************************************)
EXTENDS Process, FiniteSets

CONSTANTS
    MaxRequests,  \* bound: requests in a behaviour
    MaxUpdates,   \* bound: addresses the edge Blocker puts on the AWS list
    Addresses,    \* network addresses
    Private,      \* those that are private, loopback or for documentation
    Trusted,      \* DeceptionConfig.TrustedProxies
    NoClaim,      \* a request without a forwarding header that parses
    Asks,         \* the requests there may be, by mode
    Proxied,      \* DeceptionConfig.UpstreamURL is set
    Threshold,    \* DeceptionConfig.DecoyThreshold
    BlockScore,   \* DeceptionConfig.AutoBlockScore
    Providers,    \* the providers that are configured
    NoSession     \* no session yet

Requests == 1 .. MaxRequests

\* peer: the address the connection comes from; claim: the client the first
\* usable header names; probe: a decoy matches; tool: a scanner's name.
Ask == [peer : Addresses, claim : Addresses \cup {NoClaim}, probe : BOOLEAN, tool : BOOLEAN]

\* A request that has not come in.
NoAsk == [peer |-> CHOOSE a \in Addresses : TRUE, claim |-> NoClaim, probe |-> FALSE, tool |-> FALSE]

ASSUME DeceptionAssumption ==
    /\ MaxRequests \in Nat /\ MaxUpdates \in Nat /\ Addresses # {}
    /\ Asks \in [Modes -> SUBSET Ask]
    /\ Private \subseteq Addresses /\ Trusted \subseteq Addresses
    /\ Proxied \in BOOLEAN
    /\ Threshold \in Nat /\ BlockScore \in Nat
    /\ Providers \subseteq {"cloudflare", "aws", "webhook"}
    /\ NoClaim \notin Addresses /\ NoSession \notin Requests

VARIABLES
    at,        \* at[r]: where the handler of request r is
    ask,       \* ask[r]: what came in
    client,    \* client[r]: the address it is taken to come from
    sessions,  \* Engine.sessions: the session of an address, by its maker
    mine,      \* mine[r]: the session the handler of r works on
    risk,      \* risk[s]: Session.RiskScore
    busy,      \* busy[s]: who holds Session.mu
    seen,      \* seen[r]: RiskScore as r read it, with the lock or without
    reports,   \* what was recorded and published: request and place
    ban,       \* ban[r][p]: how far the ban of r at provider p is
    edge,      \* edge[p]: the addresses provider p drops
    view,      \* view[r]: the AWS list as r got it
    others,    \* ghost: addresses the edge Blocker put on the AWS list
    warned     \* ghost: requests that came in after their peer had been caught

sessionVars == <<client, sessions, mine, risk, busy, seen>>
banVars == <<ban, edge, view, others>>
deceptionVars == <<at, ask, sessionVars, reports, banVars, warned>>

\* Where a detection goes, in this order.
Places == {"ledger", "attack", "honeypot", "disrupt"}

HandlerSteps == {"idle", "session", "lock", "add", "note", "gate", "record", "publish",
                 "dispatch", "answered", "proxied", "gone"}

BanSteps == {"idle", "asked", "read", "done", "refused", "failed", "conflict", "gone"}

-----------------------------------------------------------------------------
\* Mutant: any peer may name the client.
TrustsAnyone(a) == TRUE

\* resolveClientIP: whose forwarding headers count.
TrustsHeaders(a) == a \in Trusted \/ (Trusted = {} /\ a \in Private)

ResolveClientIP(q) ==
    IF TrustsHeaders(q.peer) /\ q.claim # NoClaim THEN q.claim ELSE q.peer

\* What an intercept and a scanner's name add to a score.
InterceptRisk == 25
ScannerRisk   == 10

\* BanIP refuses private addresses; a simulation bans nobody.
Bannable(a) == ~dry /\ a \notin Private

\* An attack event carries the score as it was right after its own intercept.
Escalated(r) == seen[r] >= BlockScore

DeceptionInit ==
    /\ at = [r \in Requests |-> "idle"]
    /\ ask = [r \in Requests |-> NoAsk]
    /\ client = [r \in Requests |-> NoClaim]
    /\ sessions = [a \in Addresses |-> NoSession]
    /\ mine = [r \in Requests |-> NoSession]
    /\ risk = [s \in Requests |-> 0]
    /\ busy = [s \in Requests |-> NoSession]
    /\ seen = [r \in Requests |-> 0]
    /\ reports = {}
    /\ ban = [r \in Requests |-> [p \in Providers |-> "idle"]]
    /\ edge = [p \in Providers |-> {}]
    /\ view = [r \in Requests |-> {}]
    /\ others = {}
    /\ warned = {}

Step(r, from, to) ==
    /\ Working("deception")
    /\ at[r] = from
    /\ at' = [at EXCEPT ![r] = to]

\* Requests that have raised a score, in this life of the process.
Caught(r) ==
    \/ ask[r].probe /\ at[r] \in {"record", "publish", "dispatch", "answered"}
    \/ ~ask[r].probe /\ ask[r].tool /\ at[r] \in {"gate", "answered", "proxied"}

\* What the requests in R that were caught add up to.
RiskOf(R) ==
    InterceptRisk * Cardinality({r \in R : Caught(r) /\ ask[r].probe})
        + ScannerRisk * Cardinality({r \in R : Caught(r) /\ ~ask[r].probe})

FromPeer(a) == {r \in Requests : ask[r].peer = a}

-----------------------------------------------------------------------------
\* ServeHTTP.

\* A request comes in.  Requests are numbered as they arrive.
Request(r) ==
    /\ Up("deception") /\ Work
    /\ Step(r, "idle", "session")
    /\ \A i \in Requests : i < r => at[i] # "idle"
    /\ \E q \in Asks[mode] :
           /\ ask' = [ask EXCEPT ![r] = q]
           /\ client' = [client EXCEPT ![r] = ResolveClientIP(q)]
           /\ warned' = IF RiskOf(FromPeer(q.peer)) >= Threshold THEN warned \cup {r} ELSE warned
    /\ UNCHANGED <<sessions, mine, risk, busy, seen, reports, banVars, faults>>

\* Where a request goes once it has a session.
Sorted(r) == IF ask[r].probe \/ ask[r].tool THEN "lock" ELSE "gate"

\* getOrCreateSession, under Engine.mu.
GetSession(r) ==
    LET s == IF sessions[client[r]] = NoSession THEN r ELSE sessions[client[r]]
    IN /\ Step(r, "session", Sorted(r))
       /\ sessions' = [sessions EXCEPT ![client[r]] = s]
       /\ mine' = [mine EXCEPT ![r] = s]
       /\ UNCHANGED <<work, ask, client, risk, busy, seen, reports, banVars, warned, faults>>

\* Mutant: the session is not locked.
LockSessionNot(r) ==
    /\ Step(r, "lock", IF ask[r].probe THEN "add" ELSE "note")
    /\ busy' = [busy EXCEPT ![mine[r]] = r]
    /\ seen' = [seen EXCEPT ![r] = risk[mine[r]]]
    /\ UNCHANGED <<work, ask, client, sessions, mine, risk, reports, banVars, warned, faults>>

LockSession(r) ==
    /\ Step(r, "lock", IF ask[r].probe THEN "add" ELSE "note")
    /\ busy[mine[r]] = NoSession
    /\ busy' = [busy EXCEPT ![mine[r]] = r]
    /\ seen' = [seen EXCEPT ![r] = risk[mine[r]]]
    /\ UNCHANGED <<work, ask, client, sessions, mine, risk, reports, banVars, warned, faults>>

Unlock(r, score) ==
    /\ risk' = [risk EXCEPT ![mine[r]] = score]
    /\ seen' = [seen EXCEPT ![r] = score]
    /\ busy' = [busy EXCEPT ![mine[r]] = NoSession]
    /\ UNCHANGED <<work, ask, client, sessions, mine, reports, banVars, warned, faults>>

\* A decoy matches: the score is raised, and copied for the event.
Intercept(r) ==
    /\ Step(r, "add", "record")
    /\ Unlock(r, seen[r] + InterceptRisk)

\* No decoy matches, but the request names a scanner.
NoteScanner(r) ==
    /\ Step(r, "note", "gate")
    /\ Unlock(r, seen[r] + ScannerRisk)

\* RiskScore is read without the lock.
Gate(r) ==
    /\ Step(r, "gate", IF Proxied /\ risk[mine[r]] < Threshold THEN "proxied" ELSE "answered")
    /\ UNCHANGED <<work, ask, sessionVars, reports, banVars, warned, faults>>

-----------------------------------------------------------------------------
\* RecordAndDispatch.

\* What goes to the bus, if there is one: the block request only from BlockScore on.
Due(r) ==
    IF ~bus THEN {}
    ELSE {"attack", "honeypot"} \cup (IF Escalated(r) THEN {"disrupt"} ELSE {})

Record(r) ==
    /\ Step(r, "record", "publish")
    /\ reports' = reports \cup {<<r, "ledger">>}
    /\ UNCHANGED <<work, ask, sessionVars, banVars, warned, faults>>

\* Mutant: what cannot be recorded is not published.
RecordFailsHard(r) ==
    /\ Step(r, "record", "answered")
    /\ Fault
    /\ UNCHANGED <<work, ask, sessionVars, reports, banVars, warned>>

\* The error of the ledger is only logged.
RecordFails(r) ==
    /\ Step(r, "record", "publish")
    /\ Fault
    /\ UNCHANGED <<work, ask, sessionVars, reports, banVars, warned>>

\* Three publications one after the other.  Nothing looks at them in between,
\* and their errors are dropped, each for itself.
Publish(r) ==
    /\ Step(r, "publish", "dispatch")
    /\ \E lost \in SUBSET Due(r) :
           /\ faults + Cardinality(lost) <= MaxFaults
           /\ faults' = faults + Cardinality(lost)
           /\ reports' = reports \cup ({r} \X (Due(r) \ lost))
    /\ UNCHANGED <<work, ask, sessionVars, banVars, warned>>

\* AutoBlockIP starts one goroutine per provider; the decoy's page is sent.
\* The webhook takes any address.
Dispatch(r) ==
    /\ Step(r, "dispatch", "answered")
    /\ ban' = IF ~Escalated(r) THEN ban
              ELSE [ban EXCEPT ![r] = [p \in Providers |->
                        IF Bannable(client[r]) \/ (p = "webhook" /\ ~dry) THEN "asked" ELSE "refused"]]
    /\ UNCHANGED <<work, ask, sessionVars, reports, edge, view, others, warned, faults>>

-----------------------------------------------------------------------------
\* The goroutines of the providers.

Banning(r, p, from, to) ==
    /\ phase = "running"
    /\ p \in Providers
    /\ ban[r][p] = from
    /\ ban' = [ban EXCEPT ![r][p] = to]
    /\ UNCHANGED <<work, at, ask, sessionVars, reports, others, warned>>

\* One POST adds the address.
Post(r, p) ==
    /\ p # "aws"
    /\ Banning(r, p, "asked", "done")
    /\ edge' = [edge EXCEPT ![p] = @ \cup {client[r]}]
    /\ UNCHANGED <<view, faults>>

\* Any call may fail; its error is logged, and nothing is retried.
BanFails(r, p) ==
    /\ \E from \in {"asked", "read"} : Banning(r, p, from, "failed")
    /\ Fault
    /\ UNCHANGED <<edge, view>>

\* GetIPSet gives the list and a lock token.  Every update changes the list,
\* so the list as it was read stands for the token.
GetIPSet(r) ==
    /\ Banning(r, "aws", "asked", IF client[r] \in edge["aws"] THEN "done" ELSE "read")
    /\ view' = [view EXCEPT ![r] = edge["aws"]]
    /\ UNCHANGED <<edge, faults>>

\* Mutant: the update is sent without a token.
UpdateIPSetBlind(r) ==
    /\ Banning(r, "aws", "read", "done")
    /\ edge' = [edge EXCEPT !["aws"] = view[r] \cup {client[r]}]
    /\ UNCHANGED <<view, faults>>

\* UpdateIPSet replaces the list, if the token is still good.
UpdateIPSet(r) ==
    /\ edge["aws"] = view[r]
    /\ Banning(r, "aws", "read", "done")
    /\ edge' = [edge EXCEPT !["aws"] = view[r] \cup {client[r]}]
    /\ UNCHANGED <<view, faults>>

\* Otherwise the ban is lost without any failure.
UpdateConflicts(r) ==
    /\ "aws" \in Providers /\ edge["aws"] # view[r]
    /\ Banning(r, "aws", "read", "conflict")
    /\ UNCHANGED <<edge, view, faults>>

\* The other writer of the list: edge.Blocker, in this process or another, has a
\* provider of its own for the same IPSet.  It bans for the policy engine and for
\* the consumer of disrupt events, to whom an intercept from BlockScore on
\* publishes its own address.  What it does while no request has the list, or is
\* about to find its own address there, makes no difference to any, and is left
\* out.
BlockerUpdates(a) ==
    /\ "aws" \in Providers
    /\ \E r \in Requests :
           ban[r]["aws"] = "read" \/ (ban[r]["aws"] = "asked" /\ client[r] = a)
    /\ a \notin Private \cup edge["aws"]
    /\ Cardinality(others) < MaxUpdates
    /\ edge' = [edge EXCEPT !["aws"] = @ \cup {a}]
    /\ others' = others \cup {a}
    /\ UNCHANGED <<work, faults, at, ask, sessionVars, reports, ban, view, warned>>

-----------------------------------------------------------------------------
Handle(r) ==
    \/ GetSession(r) \/ LockSession(r) \/ Intercept(r) \/ NoteScanner(r) \/ Gate(r)
    \/ Record(r) \/ RecordFails(r) \/ Publish(r) \/ Dispatch(r)

BanSome(r, p) ==
    \/ Post(r, p) \/ BanFails(r, p)
    \/ p = "aws" /\ (GetIPSet(r) \/ UpdateIPSet(r) \/ UpdateConflicts(r))

DeceptionStep ==
    \/ \E r \in Requests : Request(r) \/ Handle(r) \/ \E p \in Providers : BanSome(r, p)
    \/ \E a \in Addresses : BlockerUpdates(a)

\* The process ends: sessions, handlers and goroutines are gone.
DeceptionEnds ==
    /\ at' = [r \in Requests |-> IF at[r] = "idle" THEN "idle" ELSE "gone"]
    /\ ban' = [r \in Requests |-> [p \in Providers |->
                  IF ban[r][p] \in {"asked", "read"} THEN "gone" ELSE ban[r][p]]]
    /\ sessions' = [a \in Addresses |-> NoSession]
    /\ mine' = [r \in Requests |-> NoSession]
    /\ risk' = [s \in Requests |-> 0]
    /\ busy' = [s \in Requests |-> NoSession]
    /\ seen' = [r \in Requests |-> 0]
    /\ warned' = {}
    /\ UNCHANGED <<ask, client, reports, edge, view, others>>

-----------------------------------------------------------------------------
DeceptionTypeOK ==
    /\ at \in [Requests -> HandlerSteps]
    /\ ask \in [Requests -> Ask]
    /\ client \in [Requests -> Addresses \cup {NoClaim}]
    /\ sessions \in [Addresses -> Requests \cup {NoSession}]
    /\ mine \in [Requests -> Requests \cup {NoSession}]
    /\ risk \in [Requests -> Nat] /\ seen \in [Requests -> Nat]
    /\ busy \in [Requests -> Requests \cup {NoSession}]
    /\ reports \subseteq Requests \X Places
    /\ ban \in [Requests -> [Providers -> BanSteps]]
    /\ edge \in [Providers -> SUBSET Addresses]
    /\ view \in [Requests -> SUBSET Addresses] /\ others \subseteq Addresses
    /\ warned \subseteq Requests

\* A session whose mutex is free holds the sum of everything its address was
\* caught at: no two requests, however they interleave, share one increment,
\* and no two of them make two sessions for one address.
ScoreExact ==
    \A a \in Addresses :
        LET s == sessions[a]
        IN s # NoSession /\ busy[s] = NoSession
               => risk[s] = RiskOf({r \in Requests : client[r] = a})

\* The upstream never sees a request that came in after its peer had been
\* caught at DecoyThreshold or more, whatever headers the request carries: the
\* gate reads the score without the lock, but not an older one.  A proxy whose
\* headers are trusted is many clients, and an engine that restarts forgets.
GateHolds ==
    \A r \in warned : at[r] = "proxied" => ask[r].peer \in (IF Trusted = {} THEN Private ELSE Trusted)

\* Whether the score of an intercept asks for a block.
DueBlock(r) == ask[r].probe /\ at[r] = "answered" /\ seen[r] >= BlockScore

\* The reports and the bans a handler that has answered should have made.
MissingReports ==
    {x \in Requests \X Places :
        /\ ask[x[1]].probe /\ at[x[1]] = "answered"
        /\ x[2] # "ledger" => bus
        /\ x[2] = "disrupt" => DueBlock(x[1])
        /\ x \notin reports}

MissingBans ==
    {x \in Requests \X Providers :
        DueBlock(x[1]) /\ Bannable(client[x[1]]) /\ ban[x[1]][x[2]] \in {"idle", "refused", "failed"}}

\* Every intercept is recorded and published, and from AutoBlockScore on its
\* address is banned, but for one report or ban per failure.  The one other way
\* to lose a ban is that the AWS list was updated between reading and updating
\* it; then what came in between is on the list, and is the ban of another
\* request or the edge Blocker's, which may be of the very same address.
LossExplained ==
    /\ Cardinality(MissingReports) + Cardinality(MissingBans) <= faults
    /\ \A r \in Requests : "aws" \in Providers /\ ban[r]["aws"] = "conflict" =>
           \E a \in edge["aws"] \ view[r] :
               a \in others \/ \E q \in Requests \ {r} : ban[q]["aws"] = "done" /\ client[q] = a

\* A ban that was reported done stays at its provider, and so does the edge
\* Blocker's: no later update of the AWS list, which replaces it as a whole, drops
\* an address.
BansStay ==
    /\ \A r \in Requests, p \in Providers : ban[r][p] = "done" => client[r] \in edge[p]
    /\ "aws" \in Providers => others \subseteq edge["aws"]

\* A request that is not answered, or a ban that has not come to an end.
RequestsOpen ==
    \E r \in Requests :
        \/ at[r] \notin {"idle", "answered", "proxied", "gone"}
        \/ \E p \in Providers : ban[r][p] \in {"asked", "read"}
=============================================================================
