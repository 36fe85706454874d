------------------------------- MODULE Decoy -------------------------------
(***************************************************************************)
(* The honeypot as its visitors see it: the HTTP portal with its login     *)
(* forms that admit nobody (ingest/honeypot/server.go, site.go), the baits *)
(* that speak other protocols (baits.go, ssh.go), and the tarpit that some *)
(* paths lead to (disrupt/tarpit/engine.go).  Every visit has a goroutine  *)
(* of its own, which records it, publishes it, hands it to the policy      *)
(* engine in yet another goroutine, and answers.                           *)
(*                                                                         *)
(* Counters, locks and the tarpit live in memory; the ledger outlives the  *)
(* process.  What the ledger, the bus and the policy engine then do is in  *)
(* modules CatchLedger, Pipeline and HitPath.                              *)
(*                                                                         *)
(* Left out: the texts of the pages and the delays before them, the        *)
(* metrics, and what of a visit goes into its record.  main always sets a  *)
(* policy engine, so maybeBlock goes no further than it.                   *)
(***************************************************************************)
EXTENDS Process, FiniteSets

CONSTANTS
    MaxVisits, \* bound: visits in a behaviour
    Visitors,  \* addresses, and whatever else a header names as one
    NoAddress, \* what a forwarding header that is only separators names
    PortOnly,  \* one that names nothing but a port
    Calls,     \* the visits there may be, by mode
    MaxConns   \* TarpitConfig.MaxConns; 0 is no limit

Visits == 1 .. MaxVisits

\* What a guess at a login is taken for, and the forms that take guesses.
Guesses == {"plain", "sqli", "filtered", "default"}
Forms   == {"/login", "/wp-login.php"}

\* Baits whose dialogue comes before the record; the others are HTTP, and SSH
\* ends its dialogue after the record.
Dialogues == {"redis", "telnet", "ftp", "smtp", "mysql", "mongo", "ssh"}

Kinds == Guesses \cup Dialogues \cup {"page", "tarpit", "otp", "elastic"}

\* remoteIP: the client a visit is taken to come from.  HTTP baits ask its
\* X-Forwarded-For, whoever sends it; the others know the peer's address.
Call == [from : Visitors \cup {NoAddress, PortOnly}, kind : Kinds, form : Forms]

\* A visit that has not come.
NoCall == [from |-> CHOOSE a \in Visitors : TRUE, kind |-> "page", form |-> "/login"]

ASSUME DecoyAssumption ==
    /\ MaxVisits \in Nat /\ MaxConns \in Nat /\ Visitors # {}
    /\ Calls \in [Modes -> SUBSET {c \in Call : c.kind \in Dialogues => c.from \in Visitors}]
    /\ NoAddress \notin Visitors /\ PortOnly \notin Visitors /\ NoAddress # PortOnly

VARIABLES
    step,    \* step[v]: where the handler of visit v is
    call,    \* call[v]: what the visit is
    caught,  \* visits in the ledger
    told,    \* visits published on the bus
    judged,  \* visits handed to the policy engine
    fails,   \* Site.failCount, by address and form
    locked,  \* Site.lockUntil: keys whose lock has not run out
    pending, \* Site.mfaPending: keys that were sent to the second factor
    turn,    \* turn[v]: the count that guess v was given
    verdict, \* verdict[v]: how v was answered
    active,  \* Engine.active of the tarpit
    gap      \* ghost: gap[v]: who was about to enter the tarpit when v was let in

hitVars    == <<caught, told, judged>>
loginVars  == <<fails, locked, pending, turn, verdict>>
tarpitVars == <<active, gap>>
decoyVars  == <<step, call, hitVars, loginVars, tarpitVars>>

HandlerPlaces == {"idle", "talk", "record", "publish", "answer", "enter", "inside", "over", "left", "gone"}

Verdicts == {"none", "login", "mfa", "locked", "expired", "rejected"}

Keys == (Visitors \cup {NoAddress, PortOnly}) \X Forms

Inside   == {v \in Visits : step[v] = "inside"}
Entering == {v \in Visits : step[v] = "enter"}

DecoyInit ==
    /\ step = [v \in Visits |-> "idle"]
    /\ call = [v \in Visits |-> NoCall]
    /\ caught = {} /\ told = {} /\ judged = {}
    /\ fails = [k \in Keys |-> 0]
    /\ locked = {} /\ pending = {}
    /\ turn = [v \in Visits |-> 0]
    /\ verdict = [v \in Visits |-> "none"]
    /\ active = 0
    /\ gap = [v \in Visits |-> {}]

Walk(v, from, to) ==
    /\ Working("honeypot")
    /\ step[v] = from
    /\ step' = [step EXCEPT ![v] = to]

-----------------------------------------------------------------------------
\* A connection.  Visits are numbered as they come.
Arrive(v) ==
    /\ Up("honeypot") /\ Work
    /\ \A i \in Visits : i < v => step[i] # "idle"
    /\ \E c \in Calls[mode] :
           /\ call' = [call EXCEPT ![v] = c]
           /\ Walk(v, "idle", IF c.kind \in Dialogues THEN "talk" ELSE "record")
    /\ UNCHANGED <<faults, hitVars, loginVars, tarpitVars>>

\* A dialogue comes to its end: enough commands, a password, a goodbye, the end
\* of the input or the deadline of the connection.
TalkEnds(v) ==
    /\ Walk(v, "talk", "record")
    /\ UNCHANGED <<work, faults, call, hitVars, loginVars, tarpitVars>>

\* MySQL's bait speaks first; a scanner that has left by then is not recorded.
GreetingFails(v) ==
    /\ call[v].kind = "mysql"
    /\ Walk(v, "talk", "left")
    /\ UNCHANGED <<work, faults, call, hitVars, loginVars, tarpitVars>>

\* Record cuts the port off, and refuses a hit that names no address then.
Recordable(v) == call[v].from \in Visitors

\* emitHitWithBody, recordServiceHit and the end of handleSSHConn: first the
\* ledger ...
Keep(v) ==
    /\ Walk(v, "record", "publish")
    /\ caught' = IF Recordable(v) THEN caught \cup {v} ELSE caught
    /\ UNCHANGED <<work, faults, call, told, judged, loginVars, tarpitVars>>

\* Mutant: a hit that cannot be recorded is not published either.
KeepFailsHard(v) ==
    /\ Walk(v, "record", "answer")
    /\ Fault
    /\ UNCHANGED <<work, call, hitVars, loginVars, tarpitVars>>

\* ... whose errors are dropped ...
KeepFails(v) ==
    /\ Recordable(v)
    /\ Walk(v, "record", "publish")
    /\ Fault
    /\ UNCHANGED <<work, call, hitVars, loginVars, tarpitVars>>

\* maybeBlock passes over a hit without an address, and hands any other to the
\* policy engine in a goroutine.
MaybeBlock(v) == judged' = IF call[v].from = NoAddress THEN judged ELSE judged \cup {v}

\* ... then the bus, if there is one, and maybeBlock.
Tell(v) ==
    /\ Walk(v, "publish", "answer")
    /\ told' = IF bus THEN told \cup {v} ELSE told
    /\ MaybeBlock(v)
    /\ UNCHANGED <<work, faults, call, caught, loginVars, tarpitVars>>

TellFails(v) ==
    /\ bus
    /\ Walk(v, "publish", "answer")
    /\ Fault
    /\ MaybeBlock(v)
    /\ UNCHANGED <<work, call, caught, told, loginVars, tarpitVars>>

-----------------------------------------------------------------------------
\* A page is sent, or what is left of a dialogue.
Answer(v) ==
    /\ call[v].kind \notin Guesses \cup {"tarpit", "otp"}
    /\ Walk(v, "answer", "over")
    /\ UNCHANGED <<work, faults, call, hitVars, loginVars, tarpitVars>>

Key(v) == <<call[v].from, call[v].form>>

\* How the n-th guess at a form is answered.
Verdict(kind, n) ==
    CASE kind = "sqli" -> IF n >= 3 THEN "locked" ELSE "login"
      [] kind = "filtered" -> "login"
      [] kind = "default" -> "mfa"
      [] OTHER -> IF n >= 5 THEN "locked" ELSE IF n = 4 THEN "mfa" ELSE "login"

\* AttemptLogin, under Site.mu, on a form that is locked: the guess is not counted.
Refuse(v) ==
    /\ call[v].kind \in Guesses /\ Key(v) \in locked
    /\ Walk(v, "answer", "over")
    /\ verdict' = [verdict EXCEPT ![v] = "locked"]
    /\ UNCHANGED <<work, faults, call, hitVars, fails, locked, pending, turn, tarpitVars>>

\* Mutant: default credentials start the count anew.
AttemptLoginResets(v) ==
    LET n   == fails[Key(v)] + 1
        out == Verdict(call[v].kind, n)
    IN /\ call[v].kind \in Guesses /\ Key(v) \notin locked
       /\ Walk(v, "answer", "over")
       /\ fails' = [fails EXCEPT ![Key(v)] = IF out = "mfa" THEN 0 ELSE n]
       /\ turn' = [turn EXCEPT ![v] = n]
       /\ verdict' = [verdict EXCEPT ![v] = out]
       /\ locked' = IF out = "locked" THEN locked \cup {Key(v)} ELSE locked
       /\ pending' = IF out = "mfa" THEN pending \cup {Key(v)} ELSE pending
       /\ UNCHANGED <<work, faults, call, hitVars, tarpitVars>>

\* AttemptLogin on any other.  Nothing but a restart takes a count back.
AttemptLogin(v) ==
    LET n   == fails[Key(v)] + 1
        out == Verdict(call[v].kind, n)
    IN /\ call[v].kind \in Guesses /\ Key(v) \notin locked
       /\ Walk(v, "answer", "over")
       /\ fails' = [fails EXCEPT ![Key(v)] = n]
       /\ turn' = [turn EXCEPT ![v] = n]
       /\ verdict' = [verdict EXCEPT ![v] = out]
       /\ locked' = IF out = "locked" THEN locked \cup {Key(v)} ELSE locked
       /\ pending' = IF out = "mfa" THEN pending \cup {Key(v)} ELSE pending
       /\ UNCHANGED <<work, faults, call, hitVars, tarpitVars>>

\* 10 or 15 minutes later.
LockRunsOut(k) ==
    /\ Working("honeypot")
    /\ k \in locked
    /\ locked' = locked \ {k}
    /\ UNCHANGED <<work, faults, step, call, hitVars, fails, pending, turn, verdict, tarpitVars>>

\* AttemptMFA.  /mfa always asks for the key of /login, and no code is right.
AttemptMFA(v) ==
    /\ call[v].kind = "otp"
    /\ Walk(v, "answer", "over")
    /\ verdict' = [verdict EXCEPT ![v] =
                      IF <<call[v].from, "/login">> \in pending THEN "rejected" ELSE "expired"]
    /\ UNCHANGED <<work, faults, call, hitVars, fails, locked, pending, turn, tarpitVars>>

-----------------------------------------------------------------------------
\* The tarpit's HTTPHandler.

\* Mutant: one connection too many.
LetInOneMore(v) ==
    /\ call[v].kind = "tarpit"
    /\ MaxConns = 0 \/ active <= MaxConns
    /\ Walk(v, "answer", "enter")
    /\ gap' = [gap EXCEPT ![v] = Entering]
    /\ UNCHANGED <<work, faults, call, hitVars, loginVars, active>>

\* active is read ...
LetIn(v) ==
    /\ call[v].kind = "tarpit"
    /\ MaxConns = 0 \/ active < MaxConns
    /\ Walk(v, "answer", "enter")
    /\ gap' = [gap EXCEPT ![v] = Entering]
    /\ UNCHANGED <<work, faults, call, hitVars, loginVars, active>>

\* Mutant: the count is taken down on every way out.
BusyCountsDown(v) ==
    /\ call[v].kind = "tarpit"
    /\ MaxConns > 0 /\ active >= MaxConns
    /\ Walk(v, "answer", "over")
    /\ active' = active - 1
    /\ UNCHANGED <<work, faults, call, hitVars, loginVars, gap>>

Busy(v) ==
    /\ call[v].kind = "tarpit"
    /\ MaxConns > 0 /\ active >= MaxConns
    /\ Walk(v, "answer", "over")
    /\ UNCHANGED <<work, faults, call, hitVars, loginVars, tarpitVars>>

\* ... and counted up in another step.
Enter(v) ==
    /\ Walk(v, "enter", "inside")
    /\ active' = active + 1
    /\ UNCHANGED <<work, faults, call, hitVars, loginVars, gap>>

\* MaxDuration is over, or the client has gone.
Leave(v) ==
    /\ Walk(v, "inside", "over")
    /\ active' = active - 1
    /\ UNCHANGED <<work, faults, call, hitVars, loginVars, gap>>

-----------------------------------------------------------------------------
\* What a handler does by itself.
Serve(v) ==
    \/ TalkEnds(v) \/ GreetingFails(v) \/ Keep(v) \/ KeepFails(v) \/ Tell(v) \/ TellFails(v)
    \/ Answer(v) \/ Refuse(v) \/ AttemptLogin(v) \/ AttemptMFA(v)
    \/ LetIn(v) \/ Busy(v) \/ Enter(v) \/ Leave(v)

DecoyStep ==
    \/ \E v \in Visits : Arrive(v) \/ Serve(v)
    \/ \E k \in Keys : LockRunsOut(k)

\* The process ends: handlers, counts and locks are gone.
DecoyEnds ==
    /\ step' = [v \in Visits |-> IF step[v] = "idle" THEN "idle" ELSE "gone"]
    /\ fails' = [k \in Keys |-> 0]
    /\ locked' = {} /\ pending' = {}
    /\ turn' = [v \in Visits |-> 0]
    /\ active' = 0
    /\ UNCHANGED <<call, hitVars, verdict, gap>>

-----------------------------------------------------------------------------
DecoyTypeOK ==
    /\ step \in [Visits -> HandlerPlaces]
    /\ call \in [Visits -> Call]
    /\ caught \subseteq Visits /\ told \subseteq Visits /\ judged \subseteq Visits
    /\ fails \in [Keys -> Nat]
    /\ locked \subseteq Keys /\ pending \subseteq Keys
    /\ turn \in [Visits -> Nat]
    /\ verdict \in [Visits -> Verdicts]
    /\ active \in Nat
    /\ gap \in [Visits -> SUBSET Visits]

\* Visits that have been answered to their end.
Over == {v \in Visits : step[v] = "over"}

\* Every visit that was served to its end is in the ledger, if it names an
\* address at all, and was published, if there is a bus, but for one of the two
\* per failure; and the policy engine was given it unless the address is empty.
\* So a visitor chooses with a header whether the ledger and the policy engine
\* hear of a visit, but not whether the bus does (server.go, emitHitWithBody).
HitsOnRecord ==
    /\ Cardinality({v \in Over : Recordable(v)} \ caught)
           + (IF bus THEN Cardinality(Over \ told) ELSE 0) <= faults
    /\ \A v \in Over : call[v].from # NoAddress => v \in judged

\* HONEYPOT.md: "Every hit is recorded to the catch ledger and NATS": without a
\* failure, a visit that was served to its end is in the ledger.
EveryHitRecorded == faults = 0 => Over \subseteq caught

\* No two guesses from one address at one form are given the same count, and a
\* plain guess is let go on with 4 counts and an injection with 2: so many
\* guesses, and no more, are answered with anything but a lock in the life of a
\* process, however they race and however often a lock runs out.
GuessesRationed ==
    \A v \in Visits : turn[v] > 0 =>
        /\ \A u \in Visits \ {v} : turn[u] = turn[v] => Key(u) # Key(v)
        /\ verdict[v] # "locked" =>
               /\ call[v].kind = "plain" => turn[v] <= 4
               /\ call[v].kind = "sqli" => turn[v] <= 2

\* The tarpit's count is the number of connections in it, and they are more than
\* MaxConns only by connections that were let in together.
TarpitSound ==
    /\ active = Cardinality(Inside)
    /\ MaxConns > 0 /\ Inside # {} =>
           \E v \in Inside : Cardinality(Inside) <= MaxConns + Cardinality(gap[v])

\* A visit that goes on.
VisitsOpen == \E v \in Visits : step[v] \notin {"idle", "over", "left", "gone"}
=============================================================================
