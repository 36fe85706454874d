------------------------------ MODULE Pipeline ------------------------------
(***************************************************************************)
(* The threat pipeline: src/internal/natsbus/bus.go and the workers it     *)
(* connects (extract, enrich, active, dispatcher, sinkhole, publish).      *)
(*                                                                         *)
(* One JetStream stream holds every message.  Each worker subscribes with  *)
(* the name of a durable consumer, which the first subscriber creates and  *)
(* the others attach to; a message is delivered to one of those attached,  *)
(* and again if it is not acknowledged within the ack wait.  A handler     *)
(* publishes its messages one at a time, in order; the error of some of    *)
(* them ends it, the error of others is dropped.  When the handler fails,  *)
(* Consume publishes a copy of the message to the dead-letter subject and  *)
(* acknowledges it.  When a node is shut down, Consume unsubscribes, and   *)
(* the client library then deletes the consumer if it was the one to       *)
(* create it; the next subscriber makes a new one, from the first message. *)
(*                                                                         *)
(* Data abstraction.  A message is its subject (with the action of a       *)
(* disrupt event as a subject of its own), the message it was made from,   *)
(* and what decides the flow: whether it parses, what was extracted into   *)
(* an artifact, whether a honeypot hit names an address.  Poison and edge isolation are switched on.  Left out:   *)
(* the age limit of the stream, the messages a client holds for a worker   *)
(* that is busy, and what the last worker of a branch does with its        *)
(* message.                                                                *)
(***************************************************************************)
EXTENDS Naturals, FiniteSets, Sequences

CONSTANTS
    Nodes,       \* the nodes of one mode; all bind the same consumers
    Modes,       \* the modes: the consumers a node binds, and the subjects
                 \* something else publishes to: baits, streamers, other nodes
    Artifacts,   \* what extraction may yield
    MaxArrivals, \* bound: messages that arrive from outside
    MaxFaults,   \* bound: failed publishes, lost acks, slow handlers, crashes
    MaxStops     \* bound, by mode: nodes shut down in good order

Subjects == {"ct", "honeypot", "extracted", "tarpit", "block", "poison",
             "takedown", "sinkhole", "publish"}

\* confident: ConfidenceScore reaches the workers' minimum; ips: the number of
\* DropIPs that parse; channels: the number of exfiltration channels (a Telegram
\* token, each webhook); domains: there is a domain, an exfiltration endpoint or
\* a DropIP that does not parse.
Artifact == [confident : BOOLEAN, ips : Nat, channels : Nat, domains : BOOLEAN]

NoArtifact == [confident |-> FALSE, ips |-> 0, channels |-> 0, domains |-> FALSE]

\* A honeypot hit carries no artifact; its RemoteAddr, which a visitor may have
\* set in a header, parses as an address or does not (NoArtifact).
FromAddress == [NoArtifact EXCEPT !.ips = 1]

Consumers == {"EXTRACT_CT", "EXTRACT_HP", "ENRICH_ART", "ACTIVE_EXTRACT", "ACTIVE_HP",
              "ACTIVE_EDGE", "TAKEDOWN_DISPATCHER", "SINKHOLE_DISPATCHER", "PUBLISHER_DISPATCHER"}

ASSUME PipelineAssumption ==
    /\ IsFiniteSet(Nodes) /\ {"absent", "orphan"} \cap Nodes = {}
    /\ Modes \subseteq [consumers : SUBSET Consumers, sources : SUBSET Subjects]
    /\ Artifacts \subseteq Artifact
    /\ MaxArrivals \in Nat /\ MaxFaults \in Nat /\ MaxStops \in [Modes -> Nat]

Workers == Consumers \X Nodes

Consumer(w) == w[1]

VARIABLES
    mode,       \* the mode the nodes run in
    node,       \* node[n]: up, crashed or stopped
    creator,    \* creator[c]: what created the consumer and will delete it:
                \* a node, "orphan" once that node crashed, or "absent"
    attached,   \* the workers whose subscription the consumer delivers to
    stream,     \* the messages stored
    inflight,   \* inflight[c]: delivered to c, within the ack wait
    acked,      \* acked[c]: acknowledged to c
    run,        \* run[w]: what worker w is doing
    handled,    \* handled[c]: messages a handler of c finished without error
    dlq,        \* messages the dead-letter subject holds a copy of
    arrivals,   \* messages that arrived from outside
    faults,     \* failures so far
    stops       \* shutdowns so far

server == <<creator, inflight, acked>>
nodes == <<node, attached>>
bounds == <<arrivals, faults, stops>>
vars == <<mode, nodes, server, stream, run, handled, dlq, bounds>>

\* A message is known by how it came about: the message its publisher was
\* handling, followed by the publisher, the position of the publish in the
\* handler, and which of its attempts this was.
Ids == Seq((Consumers \cup {"outside"}) \X Nat \X Nat)

Message == [id : Ids, subject : Subjects, parses : BOOLEAN,
            art : Artifacts \cup {NoArtifact, FromAddress}]

Parent(m) == SubSeq(m.id, 1, Len(m.id) - 1)

SameRoot(m, n) == m.id[1] = n.id[1]

Publisher(m) == m.id[Len(m.id)][1]

\* A worker not subscribed, waiting, or at a step of the handler of msg.
At(phase) == [phase |-> phase, msg |-> <<>>, step |-> 0]

Phases == {"off", "idle", "handle", "deadletter", "ack"}

Run == [phase : Phases, msg : Ids, step : Nat]

Msg(id) == CHOOSE m \in stream : m.id = id

-----------------------------------------------------------------------------
\* The subjects a consumer is bound to.
Filter(c) ==
    CASE c = "EXTRACT_CT" -> {"ct"}
      [] c \in {"EXTRACT_HP", "ACTIVE_HP"} -> {"honeypot"}
      [] c \in {"ENRICH_ART", "ACTIVE_EXTRACT"} -> {"extracted"}
      [] c = "ACTIVE_EDGE" -> {"tarpit", "block", "poison"}
      [] c = "TAKEDOWN_DISPATCHER" -> {"takedown"}
      [] c = "SINKHOLE_DISPATCHER" -> {"sinkhole"}
      [] c = "PUBLISHER_DISPATCHER" -> {"publish"}

\* A publish whose error the handler returns, and one whose error it drops.
Must(s) == [subject |-> s, must |-> TRUE]
Try(s)  == [subject |-> s, must |-> FALSE]

Times(n, e) == [i \in 1 .. n |-> e]

If(p, seq) == IF p THEN seq ELSE <<>>

\* What each handler publishes, in order.  Extraction makes one artifact of
\* whatever it gets.
HandleRawCT == <<Must("extracted")>>
HandleHoneypot == <<Must("extracted")>>

\* A hit from no address is passed over; the handler returns nil.
OnHoneypot(art) == If(art.ips > 0, <<Try("tarpit"), Must("block")>>)

\* Simulated noise for each channel, a block event for each source address.
OnExtracted(art) ==
    If(art.confident, Times(art.channels, Try("poison")) \o Times(art.ips, Must("block")))

PublishSinkhole(art) == If(art.domains \/ art.ips > 0, <<Try("sinkhole")>>)

EnrichHandle(art) ==
    If(art.confident, <<Must("takedown")>> \o PublishSinkhole(art) \o <<Try("publish")>>)

\* The handlers at the end of a branch: whatever fails in them is logged, and
\* they return nil.
OnDisrupt == <<>>
DispatchTakedown == <<>>
Sinkhole == <<>>
PublishIntel == <<>>

Emits(c, m) ==
    CASE c = "EXTRACT_CT" -> HandleRawCT
      [] c = "EXTRACT_HP" -> HandleHoneypot
      [] c = "ACTIVE_HP" -> OnHoneypot(m.art)
      [] c = "ACTIVE_EXTRACT" -> OnExtracted(m.art)
      [] c = "ACTIVE_EDGE" -> OnDisrupt
      [] c = "ENRICH_ART" -> EnrichHandle(m.art)
      [] c = "TAKEDOWN_DISPATCHER" -> DispatchTakedown
      [] c = "SINKHOLE_DISPATCHER" -> Sinkhole
      [] c = "PUBLISHER_DISPATCHER" -> PublishIntel

\* The messages bound to c.
Inbox(c) == {m \in stream : m.subject \in Filter(c)}

-----------------------------------------------------------------------------
Init ==
    /\ mode \in Modes
    /\ node = [n \in Nodes |-> "up"]
    /\ creator = [c \in Consumers |-> "absent"]
    /\ attached = {}
    /\ stream = {}
    /\ inflight = [c \in Consumers |-> {}]
    /\ acked = [c \in Consumers |-> {}]
    /\ run = [w \in Workers |-> At("off")]
    /\ handled = [c \in Consumers |-> {}]
    /\ dlq = {}
    /\ arrivals = 0
    /\ faults = 0
    /\ stops = 0

Fault == faults < MaxFaults /\ faults' = faults + 1 /\ UNCHANGED <<arrivals, stops>>

\* What a message of subject s may carry.
Payloads(s) ==
    CASE s = "extracted" -> Artifacts
      [] s = "honeypot" -> {NoArtifact, FromAddress}
      [] OTHER -> {NoArtifact}

\* The id of the next message published at this position.
NextId(parent, by, step) ==
    LET attempts == {m \in stream : Len(m.id) = Len(parent) + 1 /\ Parent(m) = parent
                                       /\ m.id[Len(m.id)][1] = by /\ m.id[Len(m.id)][2] = step}
    IN Append(parent, <<by, step, Cardinality(attempts) + 1>>)

\* A bait, the certificate stream or a node of another mode publishes; some of
\* what arrives does not parse.
Arrive ==
    /\ arrivals < MaxArrivals
    /\ arrivals' = arrivals + 1
    /\ \E s \in mode.sources, p \in BOOLEAN : \E a \in Payloads(s) :
          stream' = stream \cup
             {[id |-> NextId(<<>>, "outside", 0), subject |-> s, parses |-> p, art |-> a]}
    /\ UNCHANGED <<mode, nodes, server, run, handled, dlq, faults, stops>>

WorkersOf(n) == {w \in Workers : w[2] = n /\ Consumer(w) \in mode.consumers}

RunAt(n, phase) == [w \in Workers |-> IF w \in WorkersOf(n) THEN At(phase) ELSE run[w]]

\* Mutant: attaches to the durable consumer without creating it.
SubscribeBindsOnly(n) ==
    /\ node[n] = "up" /\ \E w \in WorkersOf(n) : run[w].phase = "off"
    /\ attached' = attached \cup WorkersOf(n)
    /\ run' = RunAt(n, "idle")
    /\ UNCHANGED <<mode, node, creator, inflight, acked, stream, handled, dlq, bounds>>

\* QueueSubscribe, by all workers of a node (side by side in the code; they do
\* not concern each other): creates the durable consumer unless there is one.
Subscribe(n) ==
    /\ node[n] = "up" /\ \E w \in WorkersOf(n) : run[w].phase = "off"
    /\ creator' = [c \in Consumers |->
          IF c \in mode.consumers /\ creator[c] = "absent" THEN n ELSE creator[c]]
    /\ attached' = attached \cup WorkersOf(n)
    /\ run' = RunAt(n, "idle")
    /\ UNCHANGED <<mode, node, inflight, acked, stream, handled, dlq, bounds>>

\* JetStream hands an idle worker a message nobody has and nobody acknowledged.
Deliver(w) ==
    /\ w \in attached /\ run[w].phase = "idle"
    /\ \E m \in Inbox(Consumer(w)) :
          /\ m.id \notin inflight[Consumer(w)] \cup acked[Consumer(w)]
          /\ inflight' = [inflight EXCEPT ![Consumer(w)] = @ \cup {m.id}]
          /\ run' = [run EXCEPT ![w] =
                [phase |-> IF m.parses THEN "handle" ELSE "deadletter", msg |-> m.id, step |-> 1]]
    /\ UNCHANGED <<mode, nodes, creator, stream, acked, handled, dlq, bounds>>

\* The handler has messages left to publish.
Emitting(w) ==
    /\ run[w].phase = "handle"
    /\ run[w].step <= Len(Emits(Consumer(w), Msg(run[w].msg)))

Emission(w) == Emits(Consumer(w), Msg(run[w].msg))[run[w].step]

\* The stream with the message worker w publishes.
Published(w) ==
    {stream \cup {[id |-> NextId(run[w].msg, Consumer(w), run[w].step),
                   subject |-> Emission(w).subject, parses |-> TRUE, art |-> a]} :
        a \in Payloads(Emission(w).subject)}

\* The handler goes on; once it has published everything it returns nil.
Advance(w) ==
    LET last == run[w].step = Len(Emits(Consumer(w), Msg(run[w].msg)))
    IN [run[w] EXCEPT !.step = @ + 1, !.phase = IF last THEN "ack" ELSE @]

Finish(w, s) ==
    handled' = [handled EXCEPT ![Consumer(w)] = IF s.phase = "ack" THEN @ \cup {s.msg} ELSE @]

Emit(w) ==
    /\ Emitting(w)
    /\ stream' \in Published(w)
    /\ run' = [run EXCEPT ![w] = Advance(w)]
    /\ Finish(w, Advance(w))
    /\ UNCHANGED <<mode, nodes, server, dlq, bounds>>

\* Mutant: the error of every publish is dropped.
EmitFailsIgnored(w) ==
    /\ Emitting(w)
    /\ Fault
    /\ stream' \in {stream} \cup Published(w)
    /\ run' = [run EXCEPT ![w] = Advance(w)] /\ Finish(w, Advance(w))
    /\ UNCHANGED <<mode, nodes, server, dlq>>

\* Publish returned an error: the message was not stored, or was and its
\* acknowledgment got lost.
EmitFails(w) ==
    /\ Emitting(w)
    /\ Fault
    /\ stream' \in {stream} \cup Published(w)
    /\ IF Emission(w).must
       THEN run' = [run EXCEPT ![w].phase = "deadletter"] /\ UNCHANGED handled
       ELSE run' = [run EXCEPT ![w] = Advance(w)] /\ Finish(w, Advance(w))
    /\ UNCHANGED <<mode, nodes, server, dlq>>

\* A handler that publishes nothing returns nil.
NothingToEmit(w) ==
    /\ run[w].phase = "handle" /\ ~Emitting(w)
    /\ run' = [run EXCEPT ![w].phase = "ack"]
    /\ Finish(w, [run[w] EXCEPT !.phase = "ack"])
    /\ UNCHANGED <<mode, nodes, server, stream, dlq, bounds>>

\* Mutants: no copy is kept; a copy is kept but the message is not acknowledged.
PublishDLQSkipped(w) ==
    /\ run[w].phase = "deadletter"
    /\ run' = [run EXCEPT ![w].phase = "ack"]
    /\ UNCHANGED <<mode, nodes, server, stream, handled, dlq, bounds>>

PublishDLQOnly(w) ==
    /\ run[w].phase = "deadletter"
    /\ dlq' = dlq \cup {run[w].msg}
    /\ run' = [run EXCEPT ![w] = At("idle")]
    /\ UNCHANGED <<mode, nodes, server, stream, handled, bounds>>

\* The handler returned an error: a copy goes to the dead-letter subject ...
PublishDLQ(w) ==
    /\ run[w].phase = "deadletter"
    /\ dlq' = dlq \cup {run[w].msg}
    /\ run' = [run EXCEPT ![w].phase = "ack"]
    /\ UNCHANGED <<mode, nodes, server, stream, handled, bounds>>

\* ... or does not; the message is acknowledged all the same.
PublishDLQFails(w) ==
    /\ run[w].phase = "deadletter"
    /\ Fault
    /\ dlq' \in {dlq, dlq \cup {run[w].msg}}
    /\ run' = [run EXCEPT ![w].phase = "ack"]
    /\ UNCHANGED <<mode, nodes, server, stream, handled>>

\* Mutant: a handler that succeeded does not acknowledge.
AckForgotten(w) ==
    /\ run[w].phase = "ack"
    /\ run' = [run EXCEPT ![w] = At("idle")]
    /\ UNCHANGED <<mode, nodes, server, stream, handled, dlq, bounds>>

\* The acknowledgment reaches the consumer the message came from, if it is
\* still there.
Ack(w) ==
    /\ run[w].phase = "ack"
    /\ IF w \in attached
       THEN /\ acked' = [acked EXCEPT ![Consumer(w)] = @ \cup {run[w].msg}]
            /\ inflight' = [inflight EXCEPT ![Consumer(w)] = @ \ {run[w].msg}]
       ELSE UNCHANGED <<acked, inflight>>
    /\ run' = [run EXCEPT ![w] = At("idle")]
    /\ UNCHANGED <<mode, nodes, creator, stream, handled, dlq, bounds>>

\* msg.Ack fails or gets lost; its error is dropped.
AckLost(w) ==
    /\ run[w].phase = "ack"
    /\ Fault
    /\ run' = [run EXCEPT ![w] = At("idle")]
    /\ UNCHANGED <<mode, nodes, server, stream, handled, dlq>>

\* The ack wait of a message nobody works on any more is over.
AckWait(c) ==
    /\ \E id \in inflight[c] :
          /\ \A n \in Nodes : run[<<c, n>>].msg # id
          /\ inflight' = [inflight EXCEPT ![c] = @ \ {id}]
    /\ UNCHANGED <<mode, nodes, creator, acked, stream, run, handled, dlq, bounds>>

\* A handler takes longer than the ack wait: another node may get its message.
AckWaitWhileHandling(c) ==
    /\ Fault
    /\ \E id \in inflight[c] :
          /\ \E n \in Nodes : run[<<c, n>>].msg = id
          /\ inflight' = [inflight EXCEPT ![c] = @ \ {id}]
    /\ UNCHANGED <<mode, nodes, creator, acked, stream, run, handled, dlq>>

\* A node dies.  Its consumers stay, and nobody will delete them any more.
Crash(n) ==
    /\ node[n] = "up"
    /\ Fault
    /\ node' = [node EXCEPT ![n] = "crashed"]
    /\ creator' = [c \in Consumers |-> IF creator[c] = n THEN "orphan" ELSE creator[c]]
    /\ attached' = attached \ WorkersOf(n)
    /\ run' = RunAt(n, "off")
    /\ UNCHANGED <<mode, inflight, acked, stream, handled, dlq>>

\* Consumers whose Run does not wait for Consume to return: the process may
\* end before Unsubscribe.
Hasty == {"EXTRACT_CT", "EXTRACT_HP", "ACTIVE_EXTRACT", "ACTIVE_HP", "ACTIVE_EDGE"}

\* A node gets SIGTERM: Unsubscribe deletes the consumers it created.
Shutdown(n) ==
    /\ node[n] = "up"
    /\ stops < MaxStops[mode]
    /\ stops' = stops + 1
    /\ node' = [node EXCEPT ![n] = "stopped"]
    /\ LET own == {c \in Consumers : creator[c] = n}
       IN \E deleted \in SUBSET own :
             /\ own \ Hasty \subseteq deleted
             /\ creator' = [c \in Consumers |-> CASE c \in deleted -> "absent"
                                                   [] c \in own \ deleted -> "orphan"
                                                   [] OTHER -> creator[c]]
             /\ inflight' = [c \in Consumers |-> IF c \in deleted THEN {} ELSE inflight[c]]
             /\ acked' = [c \in Consumers |-> IF c \in deleted THEN {} ELSE acked[c]]
             /\ attached' = {w \in attached \ WorkersOf(n) : Consumer(w) \notin deleted}
    /\ run' = RunAt(n, "off")
    /\ UNCHANGED <<mode, stream, handled, dlq, arrivals, faults>>

Start(n) ==
    /\ node[n] \in {"crashed", "stopped"}
    /\ node' = [node EXCEPT ![n] = "up"]
    /\ UNCHANGED <<mode, attached, server, stream, run, handled, dlq, bounds>>

\* The restart policy of the deployment: unless stopped.
Restart(n) == node[n] = "crashed" /\ Start(n)

\* Nothing is left to deliver.
Settled == \A c \in mode.consumers : \A m \in Inbox(c) : m.id \in acked[c]

Finished ==
    /\ arrivals = MaxArrivals /\ Settled /\ \A w \in Workers : run[w].phase \in {"off", "idle"}
    /\ UNCHANGED vars

\* Consume and the handler of one worker.
Works(w) ==
    \/ Deliver(w) \/ Emit(w) \/ NothingToEmit(w) \/ PublishDLQ(w) \/ Ack(w)

Fails(w) == EmitFails(w) \/ PublishDLQFails(w) \/ AckLost(w)

Next ==
    \/ Arrive
    \/ \E w \in Workers : Works(w) \/ Fails(w)
    \/ \E c \in Consumers : AckWait(c) \/ AckWaitWhileHandling(c)
    \/ \E n \in Nodes : Subscribe(n) \/ Crash(n) \/ Shutdown(n) \/ Start(n)
    \/ Finished

Spec == Init /\ [][Next]_vars

\* Handlers run, the server redelivers what was not acknowledged in time, and
\* a crashed node is restarted.
Fairness ==
    /\ \A w \in Workers : WF_vars(Works(w))
    /\ \A c \in Consumers : WF_vars(AckWait(c))
    /\ \A n \in Nodes : WF_vars(Subscribe(n)) /\ WF_vars(Restart(n))

FairSpec == Spec /\ Fairness
-----------------------------------------------------------------------------
TypeOK ==
    /\ mode \in Modes
    /\ node \in [Nodes -> {"up", "crashed", "stopped"}]
    /\ creator \in [Consumers -> Nodes \cup {"absent", "orphan"}]
    /\ \A w \in attached : creator[Consumer(w)] # "absent" /\ node[w[2]] = "up"
    /\ stream \subseteq Message
    /\ {inflight, acked, handled} \subseteq [Consumers -> SUBSET Ids]
    /\ \A c \in Consumers :
          inflight[c] \cup acked[c] \cup handled[c] \subseteq {m.id : m \in Inbox(c)}
    /\ run \in [Workers -> Run]
    /\ dlq \subseteq {m.id : m \in stream}
    /\ arrivals \in 0 .. MaxArrivals /\ faults \in 0 .. MaxFaults /\ stops \in 0 .. MaxStops[mode]

\* Messages acknowledged although no handler finished and no copy was kept.
Lost == {l \in mode.consumers \X stream :
            l[2].id \in acked[l[1]] /\ l[2].id \notin handled[l[1]] /\ l[2].id \notin dlq}

\* At-least-once: whatever is redelivered, handled twice at once or interrupted,
\* an acknowledged message was handled to the end or has a copy in the
\* dead-letter subject; each failure costs at most one (bus.go, Consume).
LossBounded == Cardinality(Lost) <= faults

\* What consumer c published to subject s for message m.
Copies(c, m, s) == {n \in stream : Parent(n) = m.id /\ Publisher(n) = c /\ n.subject = s}

Wanted(c, m, s) == Cardinality({i \in DOMAIN Emits(c, m) : Emits(c, m)[i].subject = s})

\* Redelivery is the only source of duplicates: a message makes each of its
\* consumers publish what the handler says once, and once more for each failure
\* or shutdown (the handlers, and Consume's acknowledgments).
DuplicatesBounded ==
    \A c \in mode.consumers : \A m \in Inbox(c) : \A s \in Subjects :
        Cardinality(Copies(c, m, s)) <= Wanted(c, m, s) * (1 + faults + stops)

\* A honeypot hit from an address ends with a block event handled at the edge,
\* with a copy of it or of one of its descendants in the dead-letter subject, or
\* was lost to a failure: once nothing is left to deliver, one of the three
\* holds (controller.go, onHoneypot and onDisrupt).  A hit whose RemoteAddr is
\* no address is acknowledged with none of them.
Contained(m) ==
    \/ \E b \in stream : SameRoot(b, m) /\ b.subject = "block" /\ b.id \in handled["ACTIVE_EDGE"]
    \/ \E d \in stream : SameRoot(d, m) /\ d.id \in dlq
    \/ \E l \in Lost : SameRoot(l[2], m)

HitsAreContained ==
    (Settled /\ {"ACTIVE_HP", "ACTIVE_EDGE"} \subseteq mode.consumers)
        => \A m \in stream : m.subject = "honeypot" /\ m.art.ips > 0 => Contained(m)

\* No poison message stops a consumer, whatever is redelivered or restarted: if
\* every consumer keeps a subscriber, every message is at last acknowledged to
\* each of its consumers, for good (bus.go, Consume).
Served == \A c \in mode.consumers : \E n \in Nodes : <<c, n>> \in attached

EveryMessageSettles == <>[]Served => <>[]Settled

\* ADR 0002, "Horizontal scale of workers by mode": as long as a node of the
\* mode is up, what arrives is handled.
SurvivorsServe == <>[](\E n \in Nodes : node[n] = "up") => <>[]Settled

\* bus.go: "acknowledge to avoid infinite redelivery; DLQ holds copy".
DLQHoldsCopy == Lost = {}
=============================================================================
