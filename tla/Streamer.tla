------------------------------ MODULE Streamer ------------------------------
(***************************************************************************)
(* The certificate streamer (ingest/ct/streamer.go) with the rules it      *)
(* applies (ingest/rules/engine.go).  One goroutine reads certificates     *)
(* from a websocket and offers their domains to a bounded queue, which     *)
(* drops what does not fit; workers assess the domains and publish the     *)
(* suspicious ones.  A lost session is dialled again.                      *)
(*                                                                         *)
(* Domains are numbered as they arrive, so the queue is a set: its head is *)
(* the smallest number in it.  Workers differ in nothing, so only the      *)
(* domains they hold are kept.                                             *)
(*                                                                         *)
(* Left out: how the text of a domain shows a signal (patterns, edit       *)
(* distance, entropy), event ids and fingerprints, and the pause before a  *)
(* new dial.                                                               *)
(***************************************************************************)
EXTENDS Process, Sequences, FiniteSets, FiniteSetsExt

CONSTANTS
    MaxDomains,   \* bound: domains in a behaviour
    Certificates, \* the certificates there may be: sequences of signal sets
    QueueSize,    \* CTConfig.QueueSize
    Workers       \* CTConfig.Workers

Domains == 1 .. MaxDomains

\* What Assess may see in a domain; a typosquat is one of a brand it found.
Signals == {"brand", "keyword", "token", "punycode", "homoglyph",
            "typosquat", "deep", "hyphens", "entropy"}

Names == {S \in SUBSET Signals : "typosquat" \in S => "brand" \in S}

ASSUME StreamerAssumption ==
    /\ MaxDomains \in Nat /\ QueueSize \in Nat /\ Workers \in Nat \ {0}
    /\ \A c \in Certificates : c \in Seq(Names) /\ c # <<>>

VARIABLES
    link,    \* where the session is
    name,    \* name[d]: the signals of domain d
    place    \* place[d]: how far domain d is

streamerVars == <<link, name, place>>

\* No session; between two reads; in ReadMessage; Run waits for its workers.
Links == {"down", "loop", "reading", "closed"}

Fates == {"unseen", "offered", "queued", "held", "clean", "published", "failed", "dropped", "gone"}

At(p) == {d \in Domains : place[d] = p}

\* d is at the head of the queue S.
IsHead(d, S) == \A e \in S : d <= e

-----------------------------------------------------------------------------
\* What each signal adds to a score, in hundredths.
Weight(x) ==
    CASE x \in {"brand", "keyword"} -> 35
      [] x = "token" -> 50
      [] x = "homoglyph" -> 40
      [] x = "typosquat" -> 30
      [] x = "punycode" -> 25
      [] x = "entropy" -> 15
      [] OTHER -> 10

\* A brand with a keyword adds to the score and names a rule; some signals name
\* a rule alone.
Lure(S)    == {"brand", "keyword"} \subseteq S
HasRule(S) == Lure(S) \/ S \cap {"token", "punycode", "homoglyph", "typosquat"} # {}
Score(S)   == MapThenSumSet(Weight, S) + (IF Lure(S) THEN 20 ELSE 0)

\* Assess.  The code's 0.35 + 0.1 + 0.1, in floating point, is below its 0.55.
Suspicious(S) == HasRule(S) \/ Score(S) > 55

StreamerInit ==
    /\ link = "down"
    /\ name = [d \in Domains |-> {}]
    /\ place = [d \in Domains |-> "unseen"]

\* The session's goroutine, and Run around it.
Session(from, to) ==
    /\ Up("ct-streamer")
    /\ link = from
    /\ link' = to

Goto(d, from, to) ==
    /\ Working("ct-streamer")
    /\ place[d] = from
    /\ place' = [place EXCEPT ![d] = to]

-----------------------------------------------------------------------------
\* DialContext succeeds.  Until it does, Run tries again every 3 seconds.
Dial ==
    /\ ~done
    /\ Session("down", "loop")
    /\ UNCHANGED <<work, faults, name, place>>

\* The domains of the last certificate have been offered; the context is looked
\* at, and then ReadMessage waits for the peer, whatever the context does.
Read ==
    /\ ~done /\ At("offered") = {}
    /\ Session("loop", "reading")
    /\ UNCHANGED <<work, faults, name, place>>

\* The next domains in the order of the certificate.
Certificate(c) ==
    LET seen == Cardinality(Domains \ At("unseen"))
        new  == {d \in Domains : d - seen \in DOMAIN c}
    IN /\ Cardinality(new) = Len(c)
       /\ Work
       /\ Session("reading", "loop")
       /\ name' = [d \in Domains |-> IF d \in new THEN c[d - seen] ELSE name[d]]
       /\ place' = [d \in Domains |-> IF d \in new THEN "offered" ELSE place[d]]
       /\ UNCHANGED faults

\* A heartbeat, or a message that does not parse.
OtherMessage ==
    /\ Session("reading", "loop")
    /\ UNCHANGED <<work, faults, name, place>>

\* The peer ends the session.
SessionBreaks ==
    /\ Session("reading", "down")
    /\ UNCHANGED <<work, faults, name, place>>

\* Mutant: a queue with one place less.
OfferEarly(d) ==
    /\ IsHead(d, At("offered"))
    /\ Goto(d, "offered", IF Cardinality(At("queued")) + 1 < QueueSize THEN "queued" ELSE "dropped")
    /\ UNCHANGED <<work, faults, link, name>>

\* The queue takes a domain, or it is dropped.
Offer(d) ==
    /\ IsHead(d, At("offered"))
    /\ Goto(d, "offered", IF Cardinality(At("queued")) < QueueSize THEN "queued" ELSE "dropped")
    /\ UNCHANGED <<work, faults, link, name>>

\* Mutant: the workers belong to a session.
TakeInSession(d) ==
    /\ link # "down"
    /\ IsHead(d, At("queued"))
    /\ Cardinality(At("held")) < Workers
    /\ Goto(d, "queued", "held")
    /\ UNCHANGED <<work, faults, link, name>>

\* A free worker takes the next one.  When the context has ended it may, or
\* leave: the select has both.
Take(d) ==
    /\ IsHead(d, At("queued"))
    /\ Cardinality(At("held")) < Workers
    /\ Goto(d, "queued", "held")
    /\ UNCHANGED <<work, faults, link, name>>

\* handleJob.
Assess(d) ==
    /\ Goto(d, "held", IF Suspicious(name[d]) THEN "published" ELSE "clean")
    /\ UNCHANGED <<work, faults, link, name>>

\* The error is logged, and the domain lost.
PublishFails(d) ==
    /\ Suspicious(name[d])
    /\ Goto(d, "held", "failed")
    /\ Fault
    /\ UNCHANGED <<work, link, name>>

\* Mutant: between two dials the context is not looked at.
LeaveLoopLate ==
    /\ done /\ At("offered") = {}
    /\ Session("loop", "closed")
    /\ UNCHANGED <<work, faults, name, place>>

\* Run leaves its loop, where it looks at the context.
LeaveLoop ==
    /\ done
    /\ \/ Session("down", "closed")
       \/ At("offered") = {} /\ Session("loop", "closed")
    /\ UNCHANGED <<work, faults, name, place>>

-----------------------------------------------------------------------------
StreamerStep ==
    \/ Dial \/ Read \/ OtherMessage \/ SessionBreaks \/ LeaveLoop
    \/ \E c \in Certificates : Certificate(c)
    \/ \E d \in Domains : Offer(d) \/ Take(d) \/ Assess(d) \/ PublishFails(d)

\* Every worker has left; what is queued is given up, and Run returns.
StreamerReturns ==
    /\ Up("ct-streamer") /\ link = "closed" /\ At("held") = {}
    /\ svc' = [svc EXCEPT !["ct-streamer"] = "returned"]
    /\ place' = [d \in Domains |-> IF place[d] = "queued" THEN "gone" ELSE place[d]]
    /\ UNCHANGED <<mode, settings, phase, dry, wired, bus, done, broken, work, faults, link, name>>

\* The process ends.
StreamerEnds ==
    /\ link' = "down"
    /\ place' = [d \in Domains |->
                    IF place[d] \in {"offered", "queued", "held"} THEN "gone" ELSE place[d]]
    /\ UNCHANGED name

-----------------------------------------------------------------------------
StreamerTypeOK ==
    /\ link \in Links
    /\ name \in [Domains -> Names]
    /\ place \in [Domains -> Fates]

\* A domain is dropped only for QueueSize domains that came before it and were
\* kept: back pressure costs the tail of a burst and never its head.
DropsAreExcess ==
    \A d \in At("dropped") :
        Cardinality({e \in Domains : e < d /\ place[e] # "dropped"}) >= QueueSize

\* A suspicious domain that is neither published nor lost to a full queue or a
\* failure.  Once the context has ended the workers may leave, and nobody need
\* look at it.
DomainsOpen ==
    ~done /\ \E d \in Domains : place[d] \in {"offered", "queued", "held"} /\ Suspicious(name[d])
=============================================================================
