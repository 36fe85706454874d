--------------------------- MODULE PipelineProofs ---------------------------
(***************************************************************************)
(* Theorems about Pipeline, for every number of nodes, messages, failures  *)
(* and shutdowns, and for every mode the nodes may run in.                 *)
(***************************************************************************)
EXTENDS Pipeline, FiniteSetTheorems, SequenceTheorems, TLAPS

\* What a handler publishes.
Emissions == [subject : Subjects, must : BOOLEAN]

\* The steps by which a message comes about.
Hop == (Consumers \cup {"outside"}) \X Nat \X Nat

\* The helpers the handlers are written with make sequences of emissions.
LEMMA MakesEmissions ==
    /\ \A s \in Subjects : Must(s) \in Emissions /\ Try(s) \in Emissions
    /\ \A n \in Nat, e \in Emissions : Times(n, e) \in Seq(Emissions)
    /\ \A p, seq : seq \in Seq(Emissions) => If(p, seq) \in Seq(Emissions)
    /\ \A e \in Emissions : <<e>> \in Seq(Emissions)
    /\ <<>> \in Seq(Emissions)
<1>1. \A s \in Subjects : Must(s) \in Emissions /\ Try(s) \in Emissions
  BY DEF Must, Try, Emissions
<1>2. ASSUME NEW n \in Nat, NEW e \in Emissions PROVE Times(n, e) \in Seq(Emissions)
  BY IsASeq DEF Times
<1>3. <<>> \in Seq(Emissions)
  BY EmptySeq
<1> QED
  BY <1>1, <1>2, <1>3 DEF If

\* The number of sources an artifact names is a number.
LEMMA ArtifactType ==
    ASSUME NEW m \in Message
    PROVE  m.art.channels \in Nat /\ m.art.ips \in Nat
BY PipelineAssumption DEF Message, Artifact, NoArtifact, FromAddress

\* Whatever a handler gets, what it publishes are messages of the pipeline.
LEMMA EmitsType ==
    ASSUME NEW c \in Consumers, NEW m \in Message
    PROVE  Emits(c, m) \in Seq(Emissions)
<1> USE MakesEmissions
<1>1. {"extracted", "tarpit", "block", "poison", "takedown", "sinkhole", "publish"} \subseteq Subjects
  BY DEF Subjects
<1>2. HandleRawCT \in Seq(Emissions) /\ HandleHoneypot \in Seq(Emissions)
  BY <1>1 DEF HandleRawCT, HandleHoneypot
<1>3. OnHoneypot(m.art) \in Seq(Emissions)
  <2>1. Try("tarpit") \in Emissions /\ Must("block") \in Emissions
    BY <1>1
  <2>2. <<Try("tarpit"), Must("block")>> \in Seq(Emissions)
    BY <2>1
  <2> QED
    BY <2>2 DEF OnHoneypot
<1>4. OnExtracted(m.art) \in Seq(Emissions)
  <2>1. /\ Times(m.art.channels, Try("poison")) \in Seq(Emissions)
        /\ Times(m.art.ips, Must("block")) \in Seq(Emissions)
    BY <1>1, ArtifactType
  <2> QED
    BY <2>1, ConcatProperties DEF OnExtracted
<1>5. EnrichHandle(m.art) \in Seq(Emissions)
  <2>1. /\ <<Must("takedown")>> \in Seq(Emissions) /\ <<Try("publish")>> \in Seq(Emissions)
        /\ PublishSinkhole(m.art) \in Seq(Emissions)
    BY <1>1 DEF PublishSinkhole
  <2>2. <<Must("takedown")>> \o PublishSinkhole(m.art) \in Seq(Emissions)
    BY <2>1, ConcatProperties
  <2>3. (<<Must("takedown")>> \o PublishSinkhole(m.art)) \o <<Try("publish")>> \in Seq(Emissions)
    BY <2>1, <2>2, ConcatProperties
  <2> QED
    BY <2>3 DEF EnrichHandle
<1> QED
  BY <1>2, <1>3, <1>4, <1>5 DEF Emits, Consumers, OnDisrupt, DispatchTakedown, Sinkhole, PublishIntel

\* Taking apart the id of a message.
LEMMA IdParts ==
    ASSUME NEW p \in Ids, NEW x \in Hop
    PROVE  /\ Append(p, x) \in Ids /\ Append(p, x) # <<>>
           /\ Len(Append(p, x)) = Len(p) + 1
           /\ Append(p, x)[Len(Append(p, x))] = x
           /\ SubSeq(Append(p, x), 1, Len(Append(p, x)) - 1) = p
<1>1. p \in Seq(Hop) /\ Ids = Seq(Hop)
  BY DEF Ids, Hop
<1>2. /\ Append(p, x) \in Seq(Hop) /\ Append(p, x) # <<>>
      /\ Len(Append(p, x)) = Len(p) + 1
      /\ \A i \in 1 .. Len(p) : Append(p, x)[i] = p[i]
      /\ Append(p, x)[Len(p) + 1] = x
  BY <1>1, AppendProperties
<1>3. Len(p) \in Nat
  BY <1>1, LenProperties
<1> DEFINE q == SubSeq(Append(p, x), 1, Len(p))
<1>4. \A i \in 1 .. Len(p) : Append(p, x)[i] \in Hop
  BY <1>1, <1>2, ElementOfSeq
<1>5. q \in Seq(Hop) /\ Len(q) = Len(p) /\ \A i \in 1 .. Len(p) : q[i] = p[i]
  <2>1. /\ q \in Seq(Hop)
        /\ Len(q) = IF 1 <= Len(p) THEN Len(p) - 1 + 1 ELSE 0
        /\ \A i \in 1 .. Len(p) - 1 + 1 : q[i] = Append(p, x)[1 + i - 1]
    BY <1>3, <1>4, SubSeqProperties
  <2>2. \A i \in 1 .. Len(p) : q[i] = Append(p, x)[i]
    BY <1>3, <2>1
  <2> QED
    BY <1>2, <1>3, <2>1, <2>2
<1>6. q = p
  BY <1>1, <1>5, SeqEqual
<1> QED
  BY <1>1, <1>2, <1>3, <1>6

-----------------------------------------------------------------------------
\* Where in its handler, and in which attempt, a message was published.
Position(m) == m.id[Len(m.id)][2]
Attempt(m) == m.id[Len(m.id)][3]

\* The last step of how a message came about, and the attempts at that step.
Origin(m) == <<Publisher(m), Position(m), Attempt(m)>>
Attempts(p, by, step) ==
    {m \in stream : Parent(m) = p /\ Publisher(m) = by /\ Position(m) = step}

LEMMA MessageId ==
    ASSUME NEW m \in Message, m.id # <<>>
    PROVE  /\ Parent(m) \in Ids /\ Origin(m) \in Hop
           /\ m.id = Append(Parent(m), Origin(m))
           /\ Publisher(m) \in Consumers \cup {"outside"} /\ Position(m) \in Nat /\ Attempt(m) \in Nat
           /\ Len(m.id) = Len(Parent(m)) + 1
<1>1. m.id \in Seq(Hop) /\ Ids = Seq(Hop)
  BY DEF Message, Ids, Hop
<1>2. PICK p \in Seq(Hop), x \in Hop : m.id = Append(p, x)
  BY <1>1, SequenceEmptyOrAppend
<1>3. /\ Len(m.id) = Len(p) + 1
      /\ m.id[Len(m.id)] = x
      /\ SubSeq(m.id, 1, Len(m.id) - 1) = p
  BY <1>1, <1>2, IdParts
<1>4. Parent(m) = p
  BY <1>3 DEF Parent
<1>5. x = <<x[1], x[2], x[3]>> /\ x[1] \in Consumers \cup {"outside"} /\ x[2] \in Nat /\ x[3] \in Nat
  BY DEF Hop
<1>6. Origin(m) = x
  BY <1>3, <1>5 DEF Origin, Publisher, Position, Attempt
<1> QED
  BY <1>1, <1>2, <1>3, <1>4, <1>5, <1>6 DEF Publisher, Position, Attempt

\* A message with a given id has the parent and the origin the id was made of.
LEMMA IdGives ==
    ASSUME NEW m, NEW p \in Ids, NEW by \in Consumers \cup {"outside"}, NEW step \in Nat, NEW k \in Nat,
           m.id = Append(p, <<by, step, k>>)
    PROVE  Parent(m) = p /\ Publisher(m) = by /\ Position(m) = step /\ Attempt(m) = k
<1> DEFINE x == <<by, step, k>>
<1>1. x \in Hop
  BY DEF Hop
<1>2. /\ m.id[Len(m.id)] = x
      /\ SubSeq(m.id, 1, Len(m.id) - 1) = p
  BY <1>1, IdParts
<1> QED
  BY <1>2 DEF Parent, Publisher, Position, Attempt

\* The id of the next message is that of one more attempt.
LEMMA NextIdIs ==
    ASSUME stream \subseteq Message, \A m \in stream : m.id # <<>>,
           NEW p \in Ids, NEW by, NEW step
    PROVE  NextId(p, by, step) = Append(p, <<by, step, Cardinality(Attempts(p, by, step)) + 1>>)
<1> DEFINE attempts == {m \in stream : Len(m.id) = Len(p) + 1 /\ Parent(m) = p
                                         /\ m.id[Len(m.id)][1] = by /\ m.id[Len(m.id)][2] = step}
<1>1. \A m \in stream : Len(m.id) = Len(Parent(m)) + 1
  BY MessageId
<1>2. attempts = Attempts(p, by, step)
  BY <1>1 DEF Attempts, Publisher, Position
<1> QED
  BY <1>2 DEF NextId

\* Messages are told apart by their ids, and the attempts at a step are
\* numbered without a gap.
Told ==
    /\ IsFiniteSet(stream)
    /\ \A m \in stream : m.id # <<>>
    /\ \A m, n \in stream : m.id = n.id => m = n
    /\ \A m \in stream : Attempt(m) \in 1 .. Cardinality(Attempts(Parent(m), Publisher(m), Position(m)))

\* One more message under the next id.
LEMMA PublishTold ==
    ASSUME stream \subseteq Message, Told,
           NEW p \in Ids, NEW by \in Consumers \cup {"outside"}, NEW step \in Nat,
           NEW m, m.id = NextId(p, by, step), stream' = stream \cup {m}
    PROVE  /\ Told' /\ m.id \in Ids
           /\ \A n \in stream : n.id # m.id
           /\ Parent(m) = p /\ Publisher(m) = by /\ Position(m) = step
           /\ \A q, c, s : Attempts(q, c, s)' =
                 IF q = p /\ c = by /\ s = step THEN Attempts(q, c, s) \cup {m} ELSE Attempts(q, c, s)
           /\ Cardinality(Attempts(p, by, step)') = Cardinality(Attempts(p, by, step)) + 1
<1> DEFINE A == Attempts(p, by, step)
           k == Cardinality(A) + 1
<1>1. IsFiniteSet(A) /\ Cardinality(A) \in Nat
  <2>1. A \in SUBSET stream
    BY DEF Attempts
  <2> QED
    BY <2>1, FS_Subset, FS_CardinalityType DEF Told
<1>2. m.id = Append(p, <<by, step, k>>) /\ <<by, step, k>> \in Hop /\ k \in Nat
  BY <1>1, NextIdIs DEF Told, Hop
<1>3. m.id \in Ids /\ m.id # <<>>
  BY <1>2, IdParts
<1>4. Parent(m) = p /\ Publisher(m) = by /\ Position(m) = step /\ Attempt(m) = k
  BY <1>1, <1>2, IdGives
<1>5. ASSUME NEW n \in stream, n.id = m.id PROVE FALSE
  <2>1. Parent(n) = p /\ Publisher(n) = by /\ Position(n) = step /\ Attempt(n) = k
    BY <1>4, <1>5 DEF Parent, Publisher, Position, Attempt
  <2>2. Attempt(n) \in 1 .. Cardinality(A)
    BY <2>1 DEF Told
  <2> QED
    BY <1>1, <2>1, <2>2
<1>6. m \notin stream
  BY <1>5
<1>7. \A q, c, s : Attempts(q, c, s)' =
          IF q = p /\ c = by /\ s = step THEN Attempts(q, c, s) \cup {m} ELSE Attempts(q, c, s)
  BY <1>4 DEF Attempts
<1>8. A' = A \cup {m} /\ m \notin A
  BY <1>6, <1>7 DEF Attempts
<1>9. Cardinality(A') = k
  <2>1. Cardinality(A \cup {m}) = Cardinality(A) + 1
    BY <1>1, <1>8, FS_AddElement
  <2> QED
    BY <1>8, <2>1
<1>10. \A n \in stream' : Attempt(n) \in 1 .. Cardinality(Attempts(Parent(n), Publisher(n), Position(n)))'
  <2> SUFFICES ASSUME NEW n \in stream'
               PROVE  Attempt(n) \in 1 .. Cardinality(Attempts(Parent(n), Publisher(n), Position(n))')
    OBVIOUS
  <2>1. CASE Parent(n) = p /\ Publisher(n) = by /\ Position(n) = step
    <3>1. Attempts(Parent(n), Publisher(n), Position(n))' = A'
      BY <2>1
    <3>2. n = m \/ Attempt(n) \in 1 .. Cardinality(A)
      BY <2>1 DEF Told
    <3>3. Attempt(n) \in 1 .. k
      BY <1>1, <1>4, <3>2
    <3> QED
      BY <1>9, <3>1, <3>3
  <2>2. CASE ~(Parent(n) = p /\ Publisher(n) = by /\ Position(n) = step)
    <3>1. n \in stream
      BY <1>4, <2>2
    <3>2. Attempts(Parent(n), Publisher(n), Position(n))' = Attempts(Parent(n), Publisher(n), Position(n))
      BY <1>7, <2>2
    <3> QED
      BY <3>1, <3>2 DEF Told
  <2> QED
    BY <2>1, <2>2
<1>11. IsFiniteSet(stream')
  BY FS_AddElement DEF Told
<1>12. Told'
  BY <1>3, <1>5, <1>10, <1>11 DEF Told, Attempt, Parent, Publisher, Position
<1> QED
  BY <1>3, <1>4, <1>5, <1>7, <1>9, <1>12

-----------------------------------------------------------------------------
\* A worker at work has a message its consumer is bound to, and is at one of
\* the positions of its handler; any other has none.
AtWork(w) ==
    /\ run[w].phase \in {"off", "idle"} => run[w].msg = <<>>
    /\ run[w].phase \notin {"off", "idle"} => \E m \in Inbox(Consumer(w)) : m.id = run[w].msg
    /\ run[w].phase = "handle" =>
          /\ run[w].step \in Nat \ {0}
          /\ run[w].step = 1 \/ run[w].step <= Len(Emits(Consumer(w), Msg(run[w].msg)))

\* The workers of a node subscribe, and go, together; those a consumer delivers
\* to are among them.
Together ==
    /\ \A w \in attached : w \in Workers /\ Consumer(w) \in mode.consumers /\ run[w].phase # "off"
    /\ \A n \in Nodes : \A v, w \in WorkersOf(n) : run[v].phase = "off" => run[w].phase = "off"

Working == Together /\ \A w \in Workers : AtWork(w)

TypeInv == TypeOK /\ Told /\ Working

\* The message of a given id.
LEMMA MsgIs ==
    ASSUME Told, NEW m \in stream
    PROVE  Msg(m.id) = m
BY DEF Told, Msg

\* Nothing changes for a worker while others work.
LEMMA AtWorkStays ==
    ASSUME Told, Told', stream \subseteq stream', NEW w \in Workers, AtWork(w), run'[w] = run[w]
    PROVE  AtWork(w)'
<1>1. CASE run[w].phase \in {"off", "idle"}
  BY <1>1 DEF AtWork
<1>2. CASE run[w].phase \notin {"off", "idle"}
  <2>1. PICK m \in stream : m.id = run[w].msg /\ m.subject \in Filter(Consumer(w))
    BY <1>2 DEF AtWork, Inbox
  <2>2. Msg(run[w].msg) = m /\ Msg(run[w].msg)' = m
    <3>1. Msg(run[w].msg) = m
      BY <2>1, MsgIs
    <3>2. (CHOOSE n \in stream' : n.id = run'[w].msg) = m
      BY <2>1 DEF Told
    <3> QED
      BY <3>1, <3>2 DEF Msg
  <2>3. run'[w].phase = "handle" =>
            /\ run'[w].step \in Nat \ {0}
            /\ run'[w].step = 1 \/ run'[w].step <= Len(Emits(Consumer(w), Msg(run[w].msg)'))
    BY <2>2 DEF AtWork
  <2>4. \E n \in Inbox(Consumer(w))' : n.id = run'[w].msg
    BY <2>1 DEF Inbox
  <2> QED
    BY <1>2, <2>3, <2>4 DEF AtWork
<1> QED
  BY <1>1, <1>2

\* One worker of a node that is up goes on.
LEMMA OneWorks ==
    ASSUME TypeInv, Told', stream \subseteq stream', UNCHANGED <<mode, attached>>,
           NEW w \in Workers, NEW r, run' = [run EXCEPT ![w] = r],
           r.phase # "off", run[w].phase # "off", AtWork(w)'
    PROVE  Working'
<1> USE DEF TypeInv
<1>1. run \in [Workers -> Run]
  BY DEF TypeOK
<1>2. \A v \in Workers : run'[v] = IF v = w THEN r ELSE run[v]
  BY <1>1
<1>3. \A v \in Workers : AtWork(v)'
  BY <1>2, AtWorkStays DEF Working
<1>4. \A v \in Workers : run'[v].phase = "off" <=> run[v].phase = "off"
  BY <1>2
<1>5. Together'
  BY <1>4 DEF Working, Together, WorkersOf
<1> QED
  BY <1>3, <1>5 DEF Working

\* The workers of a node come or go.
LEMMA NodeTurns ==
    ASSUME TypeInv, NEW n \in Nodes, NEW phase \in {"off", "idle"}, run' = RunAt(n, phase),
           UNCHANGED <<mode, stream>>,
           attached' \subseteq (IF phase = "idle" THEN attached \cup WorkersOf(n) ELSE attached \ WorkersOf(n))
    PROVE  Working' /\ run' \in [Workers -> Run]
<1> USE DEF TypeInv
<1>1. run \in [Workers -> Run]
  BY DEF TypeOK
<1>2. \A w \in Workers : run'[w] = IF w \in WorkersOf(n) THEN At(phase) ELSE run[w]
  BY DEF RunAt
<1>3. At(phase) \in Run /\ At(phase).phase = phase /\ At(phase).msg = <<>>
  BY EmptySeq DEF At, Run, Phases, Ids
<1>4. run' \in [Workers -> Run]
  BY <1>1, <1>3 DEF RunAt
<1>5. Told'
  BY DEF Told, Attempts, Attempt, Parent, Publisher, Position
<1>6. ASSUME NEW w \in Workers PROVE AtWork(w)'
  <2>1. CASE w \in WorkersOf(n)
    BY <1>2, <1>3, <2>1 DEF AtWork
  <2>2. CASE w \notin WorkersOf(n)
    BY <1>2, <1>5, <2>2, AtWorkStays DEF Working
  <2> QED
    BY <2>1, <2>2
<1>7. Together'
  <2>1. \A o \in Nodes : WorkersOf(o)' = WorkersOf(o) /\ WorkersOf(o) \subseteq Workers
    BY DEF WorkersOf, Consumer
  <2>2. ASSUME NEW w \in attached' PROVE w \in Workers /\ Consumer(w) \in mode.consumers /\ run'[w].phase # "off"
    <3>1. CASE w \in WorkersOf(n)
      BY <1>2, <1>3, <2>2, <3>1 DEF WorkersOf
    <3>2. CASE w \notin WorkersOf(n)
      BY <1>2, <2>2, <3>2 DEF Working, Together
    <3> QED
      BY <3>1, <3>2
  <2>3. ASSUME NEW o \in Nodes, NEW v \in WorkersOf(o), NEW w \in WorkersOf(o), run'[v].phase = "off"
        PROVE  run'[w].phase = "off"
    <3>1. CASE o = n
      BY <1>2, <1>3, <2>1, <2>3, <3>1
    <3>2. CASE o # n
      <4>1. v \notin WorkersOf(n) /\ w \notin WorkersOf(n)
        BY <3>2 DEF WorkersOf
      <4> QED
        BY <1>2, <2>1, <2>3, <4>1 DEF Working, Together
    <3> QED
      BY <3>1, <3>2
  <2> QED
    BY <2>1, <2>2, <2>3 DEF Together
<1> QED
  BY <1>4, <1>6, <1>7 DEF Working

\* A worker goes on with its message.
LEMMA AtWorkMoves ==
    ASSUME Told, Told', stream \subseteq stream', NEW w \in Workers, AtWork(w),
           run[w].phase \notin {"off", "idle"}, run'[w].phase \notin {"off", "idle"},
           run'[w].msg = run[w].msg,
           run'[w].phase = "handle" =>
               run'[w].step \in Nat \ {0} /\ run'[w].step <= Len(Emits(Consumer(w), Msg(run[w].msg)))
    PROVE  AtWork(w)'
<1>1. PICK m \in stream : m.id = run[w].msg /\ m.subject \in Filter(Consumer(w))
  BY DEF AtWork, Inbox
<1>2. Msg(run[w].msg) = m /\ Msg(run[w].msg)' = m
  <2>1. Msg(run[w].msg) = m
    BY <1>1, MsgIs
  <2>2. (CHOOSE n \in stream' : n.id = run'[w].msg) = m
    BY <1>1 DEF Told
  <2> QED
    BY <2>1, <2>2 DEF Msg
<1>3. \E n \in Inbox(Consumer(w))' : n.id = run'[w].msg
  BY <1>1 DEF Inbox
<1>4. run'[w].phase = "handle" =>
          /\ run'[w].step \in Nat \ {0}
          /\ run'[w].step = 1 \/ run'[w].step <= Len(Emits(Consumer(w), Msg(run[w].msg)'))
  BY <1>2
<1> QED
  BY <1>3, <1>4 DEF AtWork

\* A worker that is publishing: its message, its handler and its position.
LEMMA EmissionType ==
    ASSUME TypeInv, NEW w \in Workers, Emitting(w)
    PROVE  /\ Msg(run[w].msg) \in Inbox(Consumer(w)) /\ Msg(run[w].msg).id = run[w].msg
           /\ Emits(Consumer(w), Msg(run[w].msg)) \in Seq(Emissions)
           /\ Len(Emits(Consumer(w), Msg(run[w].msg))) \in Nat
           /\ run[w].step \in 1 .. Len(Emits(Consumer(w), Msg(run[w].msg)))
           /\ Emission(w) \in Emissions
           /\ run[w].msg \in Ids /\ run[w].step \in Nat /\ Consumer(w) \in Consumers
<1>1. run[w] \in Run /\ run[w].msg \in Ids /\ run[w].step \in Nat
  BY DEF TypeInv, TypeOK, Run
<1>2. Consumer(w) \in Consumers
  BY DEF Workers, Consumer
<1>3. PICK m \in Inbox(Consumer(w)) : m.id = run[w].msg
  BY DEF TypeInv, Working, AtWork, Emitting
<1>4. m \in stream /\ m \in Message
  BY DEF Inbox, TypeInv, TypeOK
<1>5. Msg(run[w].msg) = m
  BY <1>3, <1>4, MsgIs DEF TypeInv
<1>6. Emits(Consumer(w), m) \in Seq(Emissions)
  BY <1>2, <1>4, EmitsType
<1>7. Len(Emits(Consumer(w), m)) \in Nat
  BY <1>6, LenProperties
<1>8. run[w].step \in 1 .. Len(Emits(Consumer(w), m))
  BY <1>1, <1>5, <1>7 DEF TypeInv, Working, AtWork, Emitting
<1>9. Emits(Consumer(w), m)[run[w].step] \in Emissions
  BY <1>6, <1>8, ElementOfSeq
<1> QED
  BY <1>1, <1>2, <1>3, <1>5, <1>6, <1>7, <1>8, <1>9 DEF Emission

\* What comes in the stream when a worker publishes.
LEMMA Publishes ==
    ASSUME TypeInv, NEW w \in Workers, Emitting(w), stream' \in Published(w)
    PROVE  \E m \in Message :
               /\ stream' = stream \cup {m}
               /\ m.id = NextId(run[w].msg, Consumer(w), run[w].step)
               /\ m.subject = Emission(w).subject
<1> DEFINE id == NextId(run[w].msg, Consumer(w), run[w].step)
           subject == Emission(w).subject
           new(a) == [id |-> id, subject |-> subject, parses |-> TRUE, art |-> a]
<1>1. PICK a \in Payloads(subject) : stream' = stream \cup {new(a)}
  BY DEF Published
<1>2. run[w].msg \in Ids /\ run[w].step \in Nat /\ Consumer(w) \in Consumers /\ subject \in Subjects
  BY EmissionType DEF Emissions
<1>3. id \in Ids
  <2> DEFINE k == Cardinality(Attempts(run[w].msg, Consumer(w), run[w].step)) + 1
  <2>1. Attempts(run[w].msg, Consumer(w), run[w].step) \in SUBSET stream
    BY DEF Attempts
  <2>2. k \in Nat
    BY <2>1, FS_Subset, FS_CardinalityType DEF TypeInv, Told
  <2>3. id = Append(run[w].msg, <<Consumer(w), run[w].step, k>>)
    BY <1>2, NextIdIs DEF TypeInv, TypeOK, Told
  <2> HIDE DEF k
  <2>4. <<Consumer(w), run[w].step, k>> \in Hop
    BY <1>2, <2>2 DEF Hop
  <2> QED
    BY <1>2, <2>3, <2>4, IdParts
<1>4. a \in Artifacts \cup {NoArtifact, FromAddress}
  BY DEF Payloads
<1> HIDE DEF id, subject
<1>5. new(a) \in Message
  BY <1>2, <1>3, <1>4 DEF Message
<1>6. new(a).id = id /\ new(a).subject = subject
  OBVIOUS
<1> HIDE DEF new
<1>7. \E m \in Message : stream' = stream \cup {m} /\ m.id = id /\ m.subject = subject
  BY <1>1, <1>5, <1>6
<1> QED
  BY <1>7 DEF id, subject

\* A publish that worked, or one that failed, keeps the ids apart.
LEMMA StreamKeeps ==
    ASSUME TypeInv, NEW w \in Workers, Emitting(w), stream' \in {stream} \cup Published(w)
    PROVE  stream' \subseteq Message /\ stream \subseteq stream' /\ Told'
<1>1. CASE stream' = stream
  BY <1>1 DEF TypeInv, TypeOK, Told, Attempts, Attempt, Parent, Publisher, Position
<1>2. CASE stream' \in Published(w)
  <2>1. PICK m \in Message : stream' = stream \cup {m} /\ m.id = NextId(run[w].msg, Consumer(w), run[w].step)
    BY <1>2, Publishes
  <2>2. run[w].msg \in Ids /\ run[w].step \in Nat /\ Consumer(w) \in Consumers \cup {"outside"}
    BY EmissionType
  <2>3. Told'
    BY <2>1, <2>2, PublishTold DEF TypeInv, TypeOK
  <2> QED
    BY <2>1, <2>3 DEF TypeInv, TypeOK
<1> QED
  BY <1>1, <1>2

\* The worker's next position, or the end of its handler.
LEMMA AdvanceType ==
    ASSUME TypeInv, NEW w \in Workers, Emitting(w)
    PROVE  /\ Advance(w) \in Run /\ Advance(w).msg = run[w].msg
           /\ Advance(w).step = run[w].step + 1
           /\ Advance(w).phase =
                IF run[w].step = Len(Emits(Consumer(w), Msg(run[w].msg))) THEN "ack" ELSE "handle"
           /\ Advance(w).phase = "handle" => Advance(w).step <= Len(Emits(Consumer(w), Msg(run[w].msg)))
<1>1. run[w] \in Run /\ run[w].phase = "handle" /\ run[w].step + 1 \in Nat
  BY DEF TypeInv, TypeOK, Run, Emitting
<1> DEFINE last == run[w].step = Len(Emits(Consumer(w), Msg(run[w].msg)))
<1>2. Advance(w) = [run[w] EXCEPT !.step = @ + 1, !.phase = IF last THEN "ack" ELSE @]
  BY DEF Advance
<1>3. /\ Advance(w) \in Run /\ Advance(w).msg = run[w].msg
      /\ Advance(w).step = run[w].step + 1
      /\ Advance(w).phase = IF last THEN "ack" ELSE "handle"
  BY <1>1, <1>2 DEF Run, Phases
<1> QED
  BY <1>3, EmissionType

\* The messages of a consumer stay its messages.
LEMMA InboxGrows ==
    ASSUME stream \subseteq stream', NEW c
    PROVE  /\ Inbox(c) \subseteq Inbox(c)'
           /\ {m.id : m \in Inbox(c)} \subseteq {m.id : m \in Inbox(c)'}
           /\ {m.id : m \in stream} \subseteq {m.id : m \in stream'}
BY DEF Inbox

\* A worker finishes a message of its consumer, or goes on with it.
LEMMA FinishType ==
    ASSUME TypeInv, NEW w \in Workers, run[w].phase \notin {"off", "idle"}, NEW s, s.msg = run[w].msg,
           stream \subseteq stream',
           handled' = handled \/ Finish(w, s)
    PROVE  /\ handled' \in [Consumers -> SUBSET Ids]
           /\ \A c \in Consumers : handled'[c] \subseteq {m.id : m \in Inbox(c)'}
<1> USE DEF TypeInv, TypeOK
<1>1. Consumer(w) \in Consumers /\ run[w].msg \in Ids
  BY DEF Workers, Consumer, Run
<1>2. run[w].msg \in {m.id : m \in Inbox(Consumer(w))'}
  <2>1. PICK m \in Inbox(Consumer(w)) : m.id = run[w].msg
    BY DEF Working, AtWork
  <2>2. m \in Inbox(Consumer(w))'
    BY InboxGrows
  <2> QED
    BY <2>1, <2>2
<1>3. \A c \in Consumers : handled'[c] \subseteq handled[c] \cup (IF c = Consumer(w) THEN {run[w].msg} ELSE {})
  BY DEF Finish
<1>4. handled' \in [Consumers -> SUBSET Ids]
  BY <1>1 DEF Finish
<1>5. ASSUME NEW c \in Consumers PROVE handled[c] \subseteq {m.id : m \in Inbox(c)'}
  BY InboxGrows
<1> QED
  BY <1>2, <1>3, <1>4, <1>5

\* One worker's step keeps the types of the rest.
LEMMA TypeFrame ==
    ASSUME TypeInv, UNCHANGED <<mode, nodes, creator, arrivals, stops>>,
           stream' \subseteq Message, stream \subseteq stream',
           \A f \in {inflight', acked', handled'} : f \in [Consumers -> SUBSET Ids],
           \A c \in Consumers : inflight'[c] \cup acked'[c] \cup handled'[c] \subseteq {m.id : m \in Inbox(c)'},
           run' \in [Workers -> Run],
           dlq' \subseteq {m.id : m \in stream'},
           faults' \in 0 .. MaxFaults
    PROVE  TypeOK'
BY DEF TypeInv, TypeOK, nodes

\* The message of a worker is in the stream.
LEMMA WorkersMessage ==
    ASSUME TypeInv, NEW w \in Workers, run[w].phase \notin {"off", "idle"}
    PROVE  /\ run[w].msg \in {m.id : m \in Inbox(Consumer(w))}
           /\ run[w].msg \in {m.id : m \in stream}
BY DEF TypeInv, Working, AtWork, Inbox

LEMMA TypeInvariant == Spec => []TypeInv
<1> USE PipelineAssumption DEF nodes, server, bounds
<1>1. Init => TypeInv
  <2> SUFFICES ASSUME Init PROVE TypeInv
    OBVIOUS
  <2>1. At("off") \in Run /\ At("off").phase = "off" /\ At("off").msg = <<>>
    BY EmptySeq DEF At, Run, Phases, Ids
  <2>2. TypeOK
    BY <2>1 DEF Init, TypeOK
  <2>3. Told
    BY FS_EmptySet DEF Init, Told
  <2>4. Working
    BY <2>1 DEF Init, Working, Together, AtWork, WorkersOf
  <2> QED
    BY <2>2, <2>3, <2>4 DEF TypeInv
<1>2. TypeInv /\ [Next]_vars => TypeInv'
  <2> SUFFICES ASSUME TypeInv, [Next]_vars PROVE TypeInv'
    OBVIOUS
  <2>a. /\ stream \subseteq Message /\ faults \in 0 .. MaxFaults /\ run \in [Workers -> Run]
        /\ inflight \in [Consumers -> SUBSET Ids] /\ acked \in [Consumers -> SUBSET Ids]
        /\ handled \in [Consumers -> SUBSET Ids]
        /\ dlq \subseteq {m.id : m \in stream}
        /\ \A c \in Consumers : inflight[c] \cup acked[c] \cup handled[c] \subseteq {m.id : m \in Inbox(c)}
    BY DEF TypeInv, TypeOK
  <2>b. Told /\ Working
    BY DEF TypeInv
  <2>c. stream' = stream => Told' /\ \A c : Inbox(c)' = Inbox(c)
    BY <2>b DEF Told, Attempts, Attempt, Parent, Publisher, Position, Inbox
  <2>1. CASE Arrive
    <3>0. PICK s \in mode.sources, p \in BOOLEAN : \E a \in Payloads(s) :
              stream' = stream \cup {[id |-> NextId(<<>>, "outside", 0), subject |-> s, parses |-> p, art |-> a]}
      BY <2>1, Zenon DEF Arrive
    <3>1. PICK a \in Payloads(s) :
              stream' = stream \cup {[id |-> NextId(<<>>, "outside", 0), subject |-> s, parses |-> p, art |-> a]}
      BY <3>0, Zenon
    <3> DEFINE m == [id |-> NextId(<<>>, "outside", 0), subject |-> s, parses |-> p, art |-> a]
    <3>2. <<>> \in Ids
      BY EmptySeq DEF Ids
    <3>3. s \in Subjects /\ a \in Artifacts \cup {NoArtifact, FromAddress}
      BY DEF TypeInv, TypeOK, Payloads
    <3>4. Told' /\ m.id \in Ids
      <4>1. m.id = NextId(<<>>, "outside", 0) /\ stream' = stream \cup {m}
        BY <3>1
      <4> HIDE DEF m
      <4> QED
        BY <2>a, <2>b, <3>2, <4>1, PublishTold
    <3>5. m \in Message
      BY <3>3, <3>4 DEF Message
    <3>6. stream' \subseteq Message /\ stream \subseteq stream'
      BY <2>a, <3>1, <3>5
    <3>7. TypeOK'
      <4>1. arrivals' \in 0 .. MaxArrivals
        BY <2>1 DEF Arrive, TypeInv, TypeOK
      <4>2. \A c \in Consumers : inflight[c] \cup acked[c] \cup handled[c] \subseteq {n.id : n \in Inbox(c)'}
        BY <2>a, <3>6, InboxGrows
      <4>3. dlq \subseteq {n.id : n \in stream'}
        BY <2>a, <3>6
      <4> QED
        BY <2>1, <3>6, <4>1, <4>2, <4>3 DEF Arrive, TypeInv, TypeOK
    <3>8. Working'
      BY <2>1, <2>b, <3>4, <3>6, AtWorkStays DEF Arrive, Working, Together, WorkersOf
    <3> QED
      BY <3>4, <3>7, <3>8 DEF TypeInv
  <2>2. ASSUME NEW w \in Workers, Deliver(w) PROVE TypeInv'
    <3>1. PICK m \in Inbox(Consumer(w)) :
              /\ inflight' = [inflight EXCEPT ![Consumer(w)] = @ \cup {m.id}]
              /\ run' = [run EXCEPT ![w] =
                    [phase |-> IF m.parses THEN "handle" ELSE "deadletter", msg |-> m.id, step |-> 1]]
      BY <2>2 DEF Deliver
    <3> DEFINE r == [phase |-> IF m.parses THEN "handle" ELSE "deadletter", msg |-> m.id, step |-> 1]
    <3>2. r \in Run /\ r.phase \in {"handle", "deadletter"} /\ r.msg = m.id /\ r.step = 1
      BY <2>a DEF Run, Phases, Message, Inbox
    <3>3. UNCHANGED <<mode, nodes, creator, stream, acked, handled, dlq, bounds>> /\ run[w].phase = "idle"
      BY <2>2 DEF Deliver
    <3>4. Told' /\ \A c : Inbox(c)' = Inbox(c)
      BY <2>c, <3>3
    <3> HIDE DEF r
    <3>5. run' = [run EXCEPT ![w] = r] /\ run'[w] = r
      BY <2>a, <3>1 DEF r
    <3>6. AtWork(w)'
      BY <3>2, <3>4, <3>5 DEF AtWork
    <3>7. Working'
      BY <3>2, <3>3, <3>4, <3>5, <3>6, OneWorks
    <3>8. TypeOK'
      <4>1. Consumer(w) \in Consumers /\ m.id \in Ids
        BY <2>a DEF Workers, Consumer, Inbox, Message
      <4>2. inflight' \in [Consumers -> SUBSET Ids]
        BY <2>a, <3>1, <4>1
      <4>3. \A c \in Consumers : inflight'[c] \subseteq {n.id : n \in Inbox(c)'}
        BY <2>a, <3>1, <3>4, <4>1
      <4>4. run' \in [Workers -> Run]
        BY <2>a, <3>2, <3>5
      <4> QED
        BY <2>a, <3>3, <3>4, <4>2, <4>3, <4>4, TypeFrame
    <3> QED
      BY <3>4, <3>7, <3>8 DEF TypeInv
  <2>3. ASSUME NEW w \in Workers, Emit(w) \/ EmitFails(w) PROVE TypeInv'
    <3>1. Emitting(w) /\ stream' \in {stream} \cup Published(w)
      BY <2>3 DEF Emit, EmitFails
    <3>2. stream' \subseteq Message /\ stream \subseteq stream' /\ Told'
      BY <3>1, StreamKeeps
    <3>3. run[w].phase = "handle" /\ run[w] \in Run
      BY <2>a, <3>1 DEF Emitting
    <3>4. PICK r : /\ run' = [run EXCEPT ![w] = r]
                   /\ r = Advance(w) \/ r = [run[w] EXCEPT !.phase = "deadletter"]
                   /\ handled' = handled \/ Finish(w, r)
      BY <2>3, <2>a DEF Emit, EmitFails
    <3>5. /\ r \in Run /\ r.msg = run[w].msg /\ r.phase \in {"handle", "deadletter", "ack"}
          /\ r.phase = "handle" => /\ r.step \in Nat \ {0}
                                   /\ r.step <= Len(Emits(Consumer(w), Msg(run[w].msg)))
      <4>1. CASE r = Advance(w)
        BY <3>1, <3>3, <4>1, AdvanceType, EmissionType
      <4>2. CASE r = [run[w] EXCEPT !.phase = "deadletter"]
        BY <3>3, <4>2 DEF Run, Phases
      <4> QED
        BY <3>4, <4>1, <4>2
    <3>6. UNCHANGED <<mode, nodes, server, dlq, arrivals, stops>> /\ faults' \in 0 .. MaxFaults
      BY <2>3, <2>a DEF Emit, EmitFails, Fault
    <3>7. run'[w] = r
      BY <2>a, <3>4
    <3>8. Working'
      <4>1. AtWork(w)'
        BY <2>b, <3>2, <3>3, <3>5, <3>7, AtWorkMoves DEF Working
      <4> QED
        BY <3>2, <3>3, <3>4, <3>5, <3>6, <4>1, OneWorks
    <3>9. TypeOK'
      <4>1. /\ handled' \in [Consumers -> SUBSET Ids]
            /\ \A c \in Consumers : handled'[c] \subseteq {m.id : m \in Inbox(c)'}
        BY <3>2, <3>3, <3>4, <3>5, FinishType
      <4>2. \A c \in Consumers : inflight'[c] \cup acked'[c] \subseteq {m.id : m \in Inbox(c)'}
        BY <2>a, <3>2, <3>6, InboxGrows
      <4>3. run' \in [Workers -> Run]
        BY <2>a, <3>4, <3>5
      <4>4. dlq' \subseteq {m.id : m \in stream'}
        BY <2>a, <3>2, <3>6
      <4>5. inflight' \in [Consumers -> SUBSET Ids] /\ acked' \in [Consumers -> SUBSET Ids]
        BY <2>a, <3>6
      <4> QED
        BY <3>2, <3>6, <4>1, <4>2, <4>3, <4>4, <4>5, TypeFrame
    <3> QED
      BY <3>2, <3>8, <3>9 DEF TypeInv
  \* The steps of a worker that publish nothing.
  <2>4. ASSUME NEW w \in Workers, NEW r \in Run, run[w].phase \in {"handle", "deadletter", "ack"},
               run' = [run EXCEPT ![w] = r],
               \/ r.phase \in {"deadletter", "ack"} /\ r.msg = run[w].msg
               \/ r = At("idle"),
               UNCHANGED <<mode, nodes, creator, stream, arrivals, stops>>, faults' \in 0 .. MaxFaults,
               handled' = handled \/ Finish(w, [run[w] EXCEPT !.phase = "ack"]),
               dlq' \in {dlq, dlq \cup {run[w].msg}},
               acked' \in {acked, [acked EXCEPT ![Consumer(w)] = @ \cup {run[w].msg}]},
               inflight' \in {inflight, [inflight EXCEPT ![Consumer(w)] = @ \ {run[w].msg}]}
        PROVE  TypeInv'
    <3>1. Told' /\ (\A c : Inbox(c)' = Inbox(c)) /\ stream \subseteq stream'
      BY <2>4, <2>c
    <3>2. run'[w] = r /\ run' \in [Workers -> Run]
      BY <2>4, <2>a
    <3>3. At("idle").phase = "idle" /\ At("idle").msg = <<>>
      BY DEF At
    <3>4. AtWork(w)'
      <4>1. CASE r = At("idle")
        BY <3>2, <3>3, <4>1 DEF AtWork
      <4>2. CASE r.phase \in {"deadletter", "ack"} /\ r.msg = run[w].msg
        BY <2>4, <2>b, <3>1, <3>2, <4>2, AtWorkMoves DEF Working
      <4> QED
        BY <2>4, <4>1, <4>2
    <3>5. Working'
      BY <2>4, <3>1, <3>3, <3>4, OneWorks
    <3>6. Consumer(w) \in Consumers /\ run[w].msg \in Ids
      BY <2>a DEF Workers, Consumer, Run
    <3>7. /\ run[w].msg \in {m.id : m \in Inbox(Consumer(w))}
          /\ run[w].msg \in {m.id : m \in stream}
      BY <2>4, WorkersMessage
    <3>8. /\ handled' \in [Consumers -> SUBSET Ids]
          /\ \A c \in Consumers : handled'[c] \subseteq {m.id : m \in Inbox(c)'}
      <4>1. [run[w] EXCEPT !.phase = "ack"].msg = run[w].msg
        BY <2>a DEF Run
      <4> QED
        BY <2>4, <3>1, <4>1, FinishType
    <3>9. acked' \in [Consumers -> SUBSET Ids] /\ inflight' \in [Consumers -> SUBSET Ids]
      BY <2>4, <2>a, <3>6
    <3>10. \A c \in Consumers : inflight'[c] \cup acked'[c] \subseteq {m.id : m \in Inbox(c)'}
      BY <2>4, <2>a, <3>1, <3>6, <3>7
    <3>11. dlq' \subseteq {m.id : m \in stream'}
      BY <2>4, <2>a, <3>7
    <3>12. TypeOK'
      BY <2>4, <2>a, <3>1, <3>2, <3>8, <3>9, <3>10, <3>11, TypeFrame
    <3> QED
      BY <3>1, <3>5, <3>12 DEF TypeInv
  <2>5. ASSUME NEW w \in Workers, NothingToEmit(w) \/ PublishDLQ(w) \/ PublishDLQFails(w) PROVE TypeInv'
    <3> DEFINE r == [run[w] EXCEPT !.phase = "ack"]
    <3>1. r \in Run /\ r.phase = "ack" /\ r.msg = run[w].msg
      BY <2>a DEF Run, Phases
    <3>2. run' = [run EXCEPT ![w] = r]
      BY <2>5, <2>a DEF NothingToEmit, PublishDLQ, PublishDLQFails
    <3>3. run[w].phase \in {"handle", "deadletter"}
      BY <2>5 DEF NothingToEmit, PublishDLQ, PublishDLQFails
    <3>4. /\ UNCHANGED <<mode, nodes, creator, stream, arrivals, stops, inflight, acked>>
          /\ faults' \in 0 .. MaxFaults
          /\ dlq' \in {dlq, dlq \cup {run[w].msg}}
          /\ handled' = handled \/ Finish(w, r)
      BY <2>5, <2>a DEF NothingToEmit, PublishDLQ, PublishDLQFails, Fault
    <3> QED
      BY <2>4, <3>1, <3>2, <3>3, <3>4
  <2>6. ASSUME NEW w \in Workers, Ack(w) \/ AckLost(w) PROVE TypeInv'
    <3>1. At("idle") \in Run
      BY EmptySeq DEF At, Run, Phases, Ids
    <3>2. /\ run' = [run EXCEPT ![w] = At("idle")] /\ run[w].phase = "ack"
          /\ UNCHANGED <<mode, nodes, creator, stream, arrivals, stops, handled, dlq>>
          /\ faults' \in 0 .. MaxFaults
          /\ acked' \in {acked, [acked EXCEPT ![Consumer(w)] = @ \cup {run[w].msg}]}
          /\ inflight' \in {inflight, [inflight EXCEPT ![Consumer(w)] = @ \ {run[w].msg}]}
      BY <2>6, <2>a DEF Ack, AckLost, Fault
    <3> QED
      BY <2>4, <3>1, <3>2
  <2>7. ASSUME NEW c \in Consumers, AckWait(c) \/ AckWaitWhileHandling(c) PROVE TypeInv'
    <3>1. PICK id : inflight' = [inflight EXCEPT ![c] = @ \ {id}]
      BY <2>7 DEF AckWait, AckWaitWhileHandling
    <3>2. /\ UNCHANGED <<mode, nodes, creator, acked, stream, run, handled, dlq, arrivals, stops>>
          /\ faults' \in 0 .. MaxFaults
      BY <2>7, <2>a DEF AckWait, AckWaitWhileHandling, Fault
    <3>3. Told' /\ \A d : Inbox(d)' = Inbox(d)
      BY <2>c, <3>2
    <3>4. Working'
      BY <2>b, <3>2, <3>3, AtWorkStays DEF Working, Together, WorkersOf
    <3>5. /\ inflight' \in [Consumers -> SUBSET Ids]
          /\ \A d \in Consumers : inflight'[d] \subseteq inflight[d]
      BY <2>a, <3>1
    <3>6. TypeOK'
      BY <2>a, <3>2, <3>3, <3>5, TypeFrame
    <3> QED
      BY <3>3, <3>4, <3>6 DEF TypeInv
  <2>8. ASSUME NEW n \in Nodes, Subscribe(n) \/ Crash(n) \/ Shutdown(n) \/ Start(n) PROVE TypeInv'
    <3>1. stream' = stream /\ mode' = mode /\ UNCHANGED <<handled, dlq, arrivals>>
      BY <2>8 DEF Subscribe, Crash, Shutdown, Start, Fault
    <3>2. Told' /\ \A d : Inbox(d)' = Inbox(d)
      BY <2>c, <3>1
    <3>3. mode.consumers \subseteq Consumers /\ n \notin {"absent", "orphan"}
      BY DEF TypeInv, TypeOK
    <3>4. \A w \in attached : /\ w \in Workers /\ Consumer(w) \in mode.consumers /\ Consumer(w) \in Consumers
                              /\ w[2] \in Nodes /\ (w[2] = n => w \in WorkersOf(n))
      BY <2>b DEF Working, Together, Workers, WorkersOf, Consumer
    <3>5. \A w \in WorkersOf(n) : w \in Workers /\ Consumer(w) \in mode.consumers /\ w[2] = n
      BY DEF WorkersOf
    <3>6. CASE Subscribe(n)
      <4>1. Working' /\ run' \in [Workers -> Run]
        BY <3>1, <3>6, NodeTurns DEF Subscribe
      <4>2. creator' \in [Consumers -> Nodes \cup {"absent", "orphan"}]
        BY <3>6 DEF Subscribe, TypeInv, TypeOK
      <4>3. \A w \in attached' : creator'[Consumer(w)] # "absent" /\ node'[w[2]] = "up"
        BY <3>3, <3>4, <3>5, <3>6 DEF Subscribe, TypeInv, TypeOK
      <4>4. UNCHANGED <<node, inflight, acked, faults, stops>>
        BY <3>6 DEF Subscribe
      <4>5. TypeOK'
        BY <3>1, <3>2, <4>1, <4>2, <4>3, <4>4 DEF TypeInv, TypeOK
      <4> QED
        BY <3>2, <4>1, <4>5 DEF TypeInv
    <3>7. CASE Crash(n)
      <4>1. Working' /\ run' \in [Workers -> Run]
        BY <3>1, <3>7, NodeTurns DEF Crash
      <4>2. creator' \in [Consumers -> Nodes \cup {"absent", "orphan"}]
        BY <3>7 DEF Crash, TypeInv, TypeOK
      <4>3. \A w \in attached' : creator'[Consumer(w)] # "absent" /\ node'[w[2]] = "up"
        BY <3>3, <3>4, <3>5, <3>7 DEF Crash, TypeInv, TypeOK
      <4>4. node' \in [Nodes -> {"up", "crashed", "stopped"}] /\ UNCHANGED <<inflight, acked, stops>>
            /\ faults' \in 0 .. MaxFaults
        BY <3>7 DEF Crash, Fault, TypeInv, TypeOK
      <4>5. TypeOK'
        BY <3>1, <3>2, <4>1, <4>2, <4>3, <4>4 DEF TypeInv, TypeOK
      <4> QED
        BY <3>2, <4>1, <4>5 DEF TypeInv
    <3>8. CASE Shutdown(n)
      <4> DEFINE own == {c \in Consumers : creator[c] = n}
      <4>1. PICK deleted \in SUBSET own :
                /\ creator' = [c \in Consumers |-> CASE c \in deleted -> "absent"
                                                    [] c \in own \ deleted -> "orphan"
                                                    [] OTHER -> creator[c]]
                /\ inflight' = [c \in Consumers |-> IF c \in deleted THEN {} ELSE inflight[c]]
                /\ acked' = [c \in Consumers |-> IF c \in deleted THEN {} ELSE acked[c]]
                /\ attached' = {w \in attached \ WorkersOf(n) : Consumer(w) \notin deleted}
        BY <3>8 DEF Shutdown
      <4>2. Working' /\ run' \in [Workers -> Run]
        BY <3>1, <3>8, <4>1, NodeTurns DEF Shutdown
      <4>3. \A c \in Consumers : /\ creator'[c] \in {"absent", "orphan", creator[c]}
                                 /\ c \notin deleted => creator'[c] \in {"orphan", creator[c]}
        BY <4>1
      <4>4. creator' \in [Consumers -> Nodes \cup {"absent", "orphan"}]
        <5>1. creator' = [c \in Consumers |-> creator'[c]]
          BY <4>1
        <5>2. \A c \in Consumers : creator'[c] \in Nodes \cup {"absent", "orphan"}
          BY <4>3 DEF TypeInv, TypeOK
        <5> QED
          BY <5>1, <5>2
      <4>5. node' \in [Nodes -> {"up", "crashed", "stopped"}] /\ stops' \in 0 .. MaxStops[mode] /\ faults' = faults
            /\ \A o \in Nodes : o # n => node'[o] = node[o]
        <5>1. MaxStops[mode] \in Nat
          BY DEF TypeInv, TypeOK
        <5>2. stops \in 0 .. MaxStops[mode] /\ node \in [Nodes -> {"up", "crashed", "stopped"}]
          BY DEF TypeInv, TypeOK
        <5> QED
          BY <3>8, <5>1, <5>2 DEF Shutdown
      <4>6. \A w \in attached' : creator'[Consumer(w)] # "absent" /\ node'[w[2]] = "up"
        BY <3>4, <4>1, <4>3, <4>5 DEF TypeInv, TypeOK
      <4>7. /\ inflight' \in [Consumers -> SUBSET Ids] /\ acked' \in [Consumers -> SUBSET Ids]
            /\ \A c \in Consumers : inflight'[c] \subseteq inflight[c] /\ acked'[c] \subseteq acked[c]
        BY <2>a, <4>1
      <4>8. TypeOK'
        BY <3>1, <3>2, <4>2, <4>4, <4>5, <4>6, <4>7 DEF TypeInv, TypeOK
      <4> QED
        BY <3>2, <4>2, <4>8 DEF TypeInv
    <3>9. CASE Start(n)
      <4>1. UNCHANGED <<mode, attached, server, stream, run, handled, dlq, bounds>>
            /\ node' = [node EXCEPT ![n] = "up"]
        BY <3>9 DEF Start
      <4>2. Working'
        BY <2>b, <3>2, <4>1, AtWorkStays DEF Working, Together, WorkersOf
      <4>3. TypeOK'
        BY <3>2, <3>4, <4>1 DEF TypeInv, TypeOK
      <4> QED
        BY <3>2, <4>2, <4>3 DEF TypeInv
    <3> QED
      BY <2>8, <3>6, <3>7, <3>8, <3>9
  <2>9. CASE UNCHANGED vars
    <3>1. Working'
      BY <2>9, <2>b, <2>c, AtWorkStays DEF vars, Working, Together, WorkersOf
    <3> QED
      BY <2>9, <2>c, <3>1 DEF vars, TypeInv, TypeOK
  <2> QED
    BY <2>1, <2>2, <2>3, <2>5, <2>6, <2>7, <2>8, <2>9 DEF Next, Works, Fails, Finished
<1> QED
  BY <1>1, <1>2, PTL DEF Spec

\* Every variable keeps its type: what a consumer holds or has acknowledged is
\* in its inbox, and it delivers to workers of nodes that are up only
\* (bus.go, EnsureStream, Publish and Consume).
THEOREM TypeCorrect == Spec => []TypeOK
BY TypeInvariant, PTL DEF TypeInv

-----------------------------------------------------------------------------
\* A message acknowledged to c, or about to be, that no handler finished and
\* no copy was kept of.
Dropped(c, id) ==
    /\ id \in acked[c] \/ \E n \in Nodes : run[<<c, n>>].phase = "ack" /\ run[<<c, n>>].msg = id
    /\ id \notin handled[c] /\ id \notin dlq

Owed == {l \in mode.consumers \X stream : Dropped(l[1], l[2].id)}

LossInv == Cardinality(Owed) <= faults

\* There are finitely many of them.
LEMMA OwedFinite ==
    ASSUME TypeInv
    PROVE  IsFiniteSet(Owed) /\ Cardinality(Owed) \in Nat
<1>1. Consumers = {"EXTRACT_CT"} \cup {"EXTRACT_HP"} \cup {"ENRICH_ART"} \cup {"ACTIVE_EXTRACT"}
                    \cup {"ACTIVE_HP"} \cup {"ACTIVE_EDGE"} \cup {"TAKEDOWN_DISPATCHER"}
                    \cup {"SINKHOLE_DISPATCHER"} \cup {"PUBLISHER_DISPATCHER"}
  BY DEF Consumers
<1>2. IsFiniteSet(Consumers)
  BY <1>1, FS_Singleton, FS_Union
<1>3. mode.consumers \in SUBSET Consumers /\ IsFiniteSet(stream)
  BY PipelineAssumption DEF TypeInv, TypeOK, Told
<1>4. IsFiniteSet(mode.consumers \X stream)
  BY <1>2, <1>3, FS_Subset, FS_Product
<1>5. Owed \in SUBSET (mode.consumers \X stream)
  BY DEF Owed
<1> QED
  BY <1>4, <1>5, FS_Subset, FS_CardinalityType

\* A consumer that has dropped no more than before owes no more: what it has
\* acknowledged, or is about to, is older than the step.
LEMMA OwedFrame ==
    ASSUME TypeInv, TypeInv', mode' = mode, stream \subseteq stream', NEW X,
           \A c \in Consumers : \A id : Dropped(c, id)' => Dropped(c, id) \/ <<c, id>> \in X,
           \A x \in X : x[2] \in {m.id : m \in stream}
    PROVE  \A l \in Owed' : l \in Owed \/ (l \in mode.consumers \X stream /\ <<l[1], l[2].id>> \in X)
<1> SUFFICES ASSUME NEW l \in Owed'
             PROVE  l \in Owed \/ (l \in mode.consumers \X stream /\ <<l[1], l[2].id>> \in X)
  OBVIOUS
<1> DEFINE c == l[1]
           id == l[2].id
<1>1. /\ l = <<c, l[2]>> /\ c \in mode.consumers /\ l[2] \in stream'
      /\ Dropped(c, id)'
  BY DEF Owed
<1>2. c \in Consumers
  BY <1>1, PipelineAssumption DEF TypeInv, TypeOK
<1>3. Dropped(c, id) \/ <<c, id>> \in X
  BY <1>1, <1>2
<1>4. id \in {m.id : m \in stream}
  <2>1. CASE <<c, id>> \in X
    BY <2>1
  <2>2. CASE id \in acked[c]
    BY <1>2, <2>2 DEF TypeInv, TypeOK, Inbox
  <2>3. ASSUME NEW n \in Nodes, run[<<c, n>>].phase = "ack", run[<<c, n>>].msg = id
        PROVE  id \in {m.id : m \in stream}
    <3>1. <<c, n>> \in Workers
      BY <1>2 DEF Workers
    <3> QED
      BY <2>3, <3>1, WorkersMessage
  <2> QED
    BY <1>3, <2>1, <2>2, <2>3 DEF Dropped
<1>5. PICK m \in stream : m.id = id
  BY <1>4
<1>6. m = l[2]
  BY <1>1, <1>5 DEF TypeInv, Told
<1> QED
  BY <1>1, <1>3, <1>6 DEF Owed

\* A step of one worker that makes up for what it acknowledges.
LEMMA Settling ==
    ASSUME TypeInv, NEW w \in Workers, NEW r, run' = [run EXCEPT ![w] = r],
           r.phase = "ack" => r.msg \in handled'[Consumer(w)] \/ r.msg \in dlq',
           \A c \in Consumers : handled[c] \subseteq handled'[c],
           dlq \subseteq dlq',
           \/ acked' = acked
           \/ run[w].phase = "ack" /\ acked' = [acked EXCEPT ![Consumer(w)] = @ \cup {run[w].msg}]
    PROVE  \A c \in Consumers : \A id : Dropped(c, id)' => Dropped(c, id)
<1> SUFFICES ASSUME NEW c \in Consumers, NEW id, Dropped(c, id)' PROVE Dropped(c, id)
  OBVIOUS
<1>1. /\ run \in [Workers -> Run] /\ acked \in [Consumers -> SUBSET Ids]
  BY DEF TypeInv, TypeOK
<1>2. id \notin handled[c] /\ id \notin dlq
  BY DEF Dropped
<1>3. CASE id \in acked'[c]
  <2>1. PICK a \in Consumers, n \in Nodes : w = <<a, n>>
    BY DEF Workers
  <2>2. id \in acked[c] \/ (run[w].phase = "ack" /\ c = a /\ id = run[w].msg)
    BY <1>1, <1>3, <2>1 DEF Consumer
  <2> QED
    BY <1>2, <2>1, <2>2 DEF Dropped
<1>4. ASSUME NEW n \in Nodes, run'[<<c, n>>].phase = "ack", run'[<<c, n>>].msg = id
      PROVE  Dropped(c, id)
  <2>1. <<c, n>> \in Workers /\ Consumer(<<c, n>>) = c
    BY DEF Workers, Consumer
  <2>2. <<c, n>> # w
    BY <1>1, <1>4, <2>1 DEF Dropped
  <2>3. run'[<<c, n>>] = run[<<c, n>>]
    BY <1>1, <2>1, <2>2
  <2> QED
    BY <1>2, <1>4, <2>3 DEF Dropped
<1> QED
  BY <1>3, <1>4 DEF Dropped

\* A step that drops nothing: no more is owed, and no failure is forgotten.
LEMMA NothingDropped ==
    ASSUME TypeInv, TypeInv', LossInv, mode' = mode, stream \subseteq stream', faults' \in Nat, faults' >= faults,
           \A c \in Consumers : \A id : Dropped(c, id)' => Dropped(c, id)
    PROVE  LossInv'
<1>1. Owed' \in SUBSET Owed
  <2> DEFINE none == {}
  <2>1. \A x : x \notin none
    OBVIOUS
  <2> HIDE DEF none
  <2>2. \A x \in none : x[2] \in {m.id : m \in stream}
    BY <2>1
  <2>3. \A l \in Owed' : l \in Owed \/ (l \in mode.consumers \X stream /\ <<l[1], l[2].id>> \in none)
    BY <2>2, OwedFrame
  <2> QED
    BY <2>1, <2>3
<1>2. Cardinality(Owed') <= Cardinality(Owed) /\ Cardinality(Owed') \in Nat /\ Cardinality(Owed) \in Nat
  BY <1>1, OwedFinite, FS_Subset, FS_CardinalityType
<1>3. faults \in Nat
  BY PipelineAssumption DEF TypeInv, TypeOK
<1> QED
  BY <1>2, <1>3 DEF LossInv

LEMMA LossInvariant == Spec => []LossInv
<1> USE PipelineAssumption DEF nodes, server, bounds
<1>1. Init => LossInv
  <2> SUFFICES ASSUME Init PROVE LossInv
    OBVIOUS
  <2>1. Owed = {}
    BY DEF Init, Owed
  <2> QED
    BY <2>1, FS_EmptySet DEF Init, LossInv
<1>2. TypeInv /\ TypeInv' /\ LossInv /\ [Next]_vars => LossInv'
  <2> SUFFICES ASSUME TypeInv, TypeInv', LossInv, [Next]_vars PROVE LossInv'
    OBVIOUS
  <2>a. /\ run \in [Workers -> Run] /\ acked \in [Consumers -> SUBSET Ids]
        /\ handled \in [Consumers -> SUBSET Ids] /\ faults \in Nat
    BY DEF TypeInv, TypeOK
  <2>b. UNCHANGED <<run, acked, handled, dlq>> => \A c \in Consumers : \A id : Dropped(c, id)' => Dropped(c, id)
    BY DEF Dropped
  <2>c. \A w \in Workers : Consumer(w) \in Consumers
    BY DEF Workers, Consumer
  <2>d. ASSUME NEW w \in Workers, NEW s, handled' = handled \/ Finish(w, s)
        PROVE  /\ \A c \in Consumers : handled[c] \subseteq handled'[c]
               /\ Finish(w, s) /\ s.phase = "ack" => s.msg \in handled'[Consumer(w)]
    BY <2>a, <2>c, <2>d DEF Finish
  <2>1. CASE Arrive
    BY <2>1, <2>a, <2>b, NothingDropped DEF Arrive
  <2>2. ASSUME NEW w \in Workers, Deliver(w) PROVE LossInv'
    <3>1. PICK m \in Inbox(Consumer(w)) :
              run' = [run EXCEPT ![w] =
                    [phase |-> IF m.parses THEN "handle" ELSE "deadletter", msg |-> m.id, step |-> 1]]
      BY <2>2 DEF Deliver
    <3> DEFINE r == [phase |-> IF m.parses THEN "handle" ELSE "deadletter", msg |-> m.id, step |-> 1]
    <3>2. r.phase # "ack" /\ run' = [run EXCEPT ![w] = r]
      BY <3>1
    <3> HIDE DEF r
    <3>3. UNCHANGED <<mode, stream, acked, handled, dlq, faults>>
      BY <2>2 DEF Deliver
    <3>4. \A c \in Consumers : \A id : Dropped(c, id)' => Dropped(c, id)
      BY <3>2, <3>3, Settling
    <3> QED
      BY <2>a, <3>3, <3>4, NothingDropped
  <2>3. ASSUME NEW w \in Workers, Emit(w) \/ EmitFails(w) PROVE LossInv'
    <3>1. Emitting(w) /\ stream' \in {stream} \cup Published(w)
      BY <2>3 DEF Emit, EmitFails
    <3>2. stream \subseteq stream'
      BY <3>1, StreamKeeps
    <3>3. PICK r : /\ run' = [run EXCEPT ![w] = r]
                   /\ \/ r = Advance(w) /\ Finish(w, r)
                      \/ r = [run[w] EXCEPT !.phase = "deadletter"] /\ handled' = handled
      BY <2>3, <2>a DEF Emit, EmitFails
    <3>4. /\ r.phase = "ack" => r.msg \in handled'[Consumer(w)]
          /\ \A c \in Consumers : handled[c] \subseteq handled'[c]
      <4>1. [run[w] EXCEPT !.phase = "deadletter"].phase = "deadletter"
        BY <2>a DEF Run
      <4> QED
        BY <2>d, <3>3, <4>1
    <3>5. UNCHANGED <<mode, acked, dlq>> /\ faults' \in Nat /\ faults' >= faults
      BY <2>3, <2>a DEF Emit, EmitFails, Fault
    <3> QED
      BY <3>2, <3>3, <3>4, <3>5, Settling, NothingDropped
  <2>4. ASSUME NEW w \in Workers, NothingToEmit(w) \/ PublishDLQ(w) PROVE LossInv'
    <3> DEFINE r == [run[w] EXCEPT !.phase = "ack"]
    <3>1. r.phase = "ack" /\ r.msg = run[w].msg
      BY <2>a DEF Run
    <3>2. run' = [run EXCEPT ![w] = r]
      BY <2>4, <2>a DEF NothingToEmit, PublishDLQ
    <3>3. /\ UNCHANGED <<mode, stream, acked, faults>>
          /\ \/ Finish(w, r) /\ dlq' = dlq
             \/ handled' = handled /\ dlq' = dlq \cup {run[w].msg}
      BY <2>4 DEF NothingToEmit, PublishDLQ
    <3> HIDE DEF r
    <3>4. /\ \A c \in Consumers : handled[c] \subseteq handled'[c]
          /\ r.msg \in handled'[Consumer(w)] \/ r.msg \in dlq'
      BY <2>d, <3>1, <3>3
    <3>5. dlq \subseteq dlq' /\ acked' = acked
      BY <3>3
    <3>6. \A c \in Consumers : \A id : Dropped(c, id)' => Dropped(c, id)
      BY <3>2, <3>4, <3>5, Settling
    <3> QED
      BY <2>a, <3>3, <3>6, NothingDropped
  <2>5. ASSUME NEW w \in Workers, PublishDLQFails(w) PROVE LossInv'
    <3> DEFINE m == Msg(run[w].msg)
               x == <<Consumer(w), run[w].msg>>
    <3>1. /\ UNCHANGED <<mode, stream, acked, handled>> /\ dlq \subseteq dlq' /\ faults' = faults + 1
          /\ run[w].phase = "deadletter" /\ run' = [run EXCEPT ![w].phase = "ack"]
      BY <2>5 DEF PublishDLQFails, Fault
    <3>2. run[w].msg \in {n.id : n \in stream}
      BY <3>1, WorkersMessage
    <3>3. ASSUME NEW c \in Consumers, NEW id, Dropped(c, id)' PROVE Dropped(c, id) \/ <<c, id>> \in {x}
      <4>1. id \notin handled[c] /\ id \notin dlq
        BY <3>1, <3>3 DEF Dropped
      <4>2. CASE id \in acked[c]
        BY <4>1, <4>2 DEF Dropped
      <4>3. ASSUME NEW n \in Nodes, run'[<<c, n>>].phase = "ack", run'[<<c, n>>].msg = id
            PROVE  Dropped(c, id) \/ <<c, id>> \in {x}
        <5>1. <<c, n>> \in Workers /\ Consumer(<<c, n>>) = c
          BY DEF Workers, Consumer
        <5>2. CASE <<c, n>> = w
          <6>1. run'[w].msg = run[w].msg
            BY <2>a, <3>1 DEF Run
          <6> QED
            BY <4>3, <5>1, <5>2, <6>1
        <5>3. CASE <<c, n>> # w
          <6>1. run'[<<c, n>>] = run[<<c, n>>]
            BY <2>a, <3>1, <5>1, <5>3
          <6> QED
            BY <4>1, <4>3, <6>1 DEF Dropped
        <5> QED
          BY <5>2, <5>3
      <4> QED
        BY <3>1, <3>3, <4>2, <4>3 DEF Dropped
    <3>4. \A l \in Owed' : l \in Owed \/ (l \in mode.consumers \X stream /\ <<l[1], l[2].id>> \in {x})
      <4>1. \A y \in {x} : y[2] \in {n.id : n \in stream}
        BY <3>2
      <4>2. mode' = mode /\ stream \subseteq stream'
        BY <3>1
      <4>3. \A c \in Consumers : \A id : Dropped(c, id)' => Dropped(c, id) \/ <<c, id>> \in {x}
        BY <3>3
      <4> HIDE DEF x
      <4> QED
        BY <4>1, <4>2, <4>3, OwedFrame
    <3>5. \A l \in Owed' : l \in Owed \/ l = <<Consumer(w), m>>
      <4>1. ASSUME NEW l \in mode.consumers \X stream, <<l[1], l[2].id>> = x PROVE l = <<Consumer(w), m>>
        <5>1. l = <<l[1], l[2]>> /\ l[2] \in stream /\ l[1] = Consumer(w) /\ l[2].id = run[w].msg
          BY <4>1
        <5>2. Msg(l[2].id) = l[2]
          BY <5>1, MsgIs DEF TypeInv
        <5> QED
          BY <5>1, <5>2
      <4> QED
        BY <3>4, <4>1
    <3>6. Cardinality(Owed \cup {<<Consumer(w), m>>}) =
            IF <<Consumer(w), m>> \in Owed THEN Cardinality(Owed) ELSE Cardinality(Owed) + 1
      BY OwedFinite, FS_AddElement
    <3>7. Cardinality(Owed) \in Nat /\ IsFiniteSet(Owed \cup {<<Consumer(w), m>>})
      BY OwedFinite, FS_AddElement
    <3>8. Owed' \in SUBSET (Owed \cup {<<Consumer(w), m>>})
      BY <3>5
    <3>9. Cardinality(Owed') <= Cardinality(Owed \cup {<<Consumer(w), m>>}) /\ Cardinality(Owed') \in Nat
      BY <3>7, <3>8, FS_Subset, FS_CardinalityType
    <3> QED
      BY <2>a, <3>1, <3>6, <3>7, <3>9 DEF LossInv
  <2>6. ASSUME NEW w \in Workers, Ack(w) \/ AckLost(w) PROVE LossInv'
    <3>1. /\ run' = [run EXCEPT ![w] = At("idle")] /\ run[w].phase = "ack"
          /\ UNCHANGED <<mode, stream, handled, dlq>> /\ faults' \in Nat /\ faults' >= faults
          /\ acked' = acked \/ acked' = [acked EXCEPT ![Consumer(w)] = @ \cup {run[w].msg}]
      BY <2>6, <2>a DEF Ack, AckLost, Fault
    <3>2. At("idle").phase # "ack"
      BY DEF At
    <3> QED
      BY <3>1, <3>2, Settling, NothingDropped
  <2>7. ASSUME NEW c \in Consumers, AckWait(c) \/ AckWaitWhileHandling(c) PROVE LossInv'
    <3>1. UNCHANGED <<mode, stream, run, acked, handled, dlq>> /\ faults' \in Nat /\ faults' >= faults
      BY <2>7, <2>a DEF AckWait, AckWaitWhileHandling, Fault
    <3> QED
      BY <2>b, <3>1, NothingDropped
  <2>8. ASSUME NEW n \in Nodes, Subscribe(n) \/ Crash(n) \/ Shutdown(n) PROVE LossInv'
    <3>1. /\ UNCHANGED <<mode, stream, handled, dlq>> /\ faults' \in Nat /\ faults' >= faults
          /\ \E phase \in {"off", "idle"} : run' = RunAt(n, phase)
          /\ \A c \in Consumers : acked'[c] \subseteq acked[c]
      <4>1. CASE Subscribe(n)
        BY <2>a, <4>1 DEF Subscribe
      <4>2. CASE Crash(n)
        BY <2>a, <4>2 DEF Crash, Fault
      <4>3. CASE Shutdown(n)
        BY <2>a, <4>3 DEF Shutdown
      <4> QED
        BY <2>8, <4>1, <4>2, <4>3
    <3>2. \A c \in Consumers, o \in Nodes : run'[<<c, o>>].phase = "ack" => run'[<<c, o>>] = run[<<c, o>>]
      BY <3>1 DEF RunAt, At, Workers
    <3>3. \A c \in Consumers : \A id : Dropped(c, id)' => Dropped(c, id)
      BY <3>1, <3>2 DEF Dropped
    <3> QED
      BY <3>1, <3>3, NothingDropped
  <2>9. ASSUME NEW n \in Nodes, Start(n) PROVE LossInv'
    BY <2>9, <2>a, <2>b, NothingDropped DEF Start
  <2>10. CASE UNCHANGED vars
    BY <2>10, <2>a, <2>b, NothingDropped DEF vars
  <2> QED
    BY <2>1, <2>2, <2>3, <2>4, <2>5, <2>6, <2>7, <2>8, <2>9, <2>10 DEF Next, Works, Fails, Finished
<1> QED
  BY <1>1, <1>2, TypeInvariant, PTL DEF Spec

\* An acknowledged message was handled to the end or has a copy in the
\* dead-letter subject, but for at most one for each failure: a failed publish,
\* a lost acknowledgment, a slow handler or a crash (bus.go, Consume).
THEOREM LossIsBounded == Spec => []LossBounded
<1>1. TypeInv /\ LossInv => LossBounded
  <2> SUFFICES ASSUME TypeInv, LossInv PROVE LossBounded
    OBVIOUS
  <2>1. Lost \in SUBSET Owed
    BY DEF Lost, Owed, Dropped
  <2>2. Cardinality(Lost) <= Cardinality(Owed) /\ Cardinality(Lost) \in Nat /\ Cardinality(Owed) \in Nat
    BY <2>1, OwedFinite, FS_Subset, FS_CardinalityType
  <2>3. faults \in Nat
    BY PipelineAssumption DEF TypeInv, TypeOK
  <2> QED
    BY <2>2, <2>3 DEF LossInv, LossBounded
<1> QED
  BY <1>1, TypeInvariant, LossInvariant, PTL

-----------------------------------------------------------------------------
\* Whatever hit from an address the containment worker finished with, there is a
\* block event of it.
Answered(id) == \E b \in stream : b.subject = "block" /\ b.id[1] = id[1]

HitInv == \A id \in handled["ACTIVE_HP"] : Msg(id).art.ips > 0 => Answered(id)

\* The containment worker publishes two messages for a hit from an address, the
\* block event last, and none for any other hit.
LEMMA AnswersLast ==
    ASSUME TypeInv, NEW w \in Workers, Consumer(w) = "ACTIVE_HP", run[w].phase = "handle"
    PROVE  /\ Msg(run[w].msg).art.ips > 0 => Emitting(w)
           /\ Emitting(w) /\ Advance(w).phase = "ack"
                => run[w].step = 2 /\ Emission(w) = Must("block")
<1> DEFINE art == Msg(run[w].msg).art
           two == <<Try("tarpit"), Must("block")>>
<1>1. Emits(Consumer(w), Msg(run[w].msg)) = IF art.ips > 0 THEN two ELSE <<>>
  BY DEF Emits, OnHoneypot, If
<1>2. Len(two) = 2 /\ two[2] = Must("block")
  OBVIOUS
<1>3. run[w].step \in Nat \ {0}
      /\ (run[w].step = 1 \/ run[w].step <= Len(Emits(Consumer(w), Msg(run[w].msg))))
  BY DEF TypeInv, Working, AtWork
<1> HIDE DEF art, two
<1>4. ASSUME art.ips > 0 PROVE Emitting(w)
  <2>0. Len(Emits(Consumer(w), Msg(run[w].msg))) = 2
    BY <1>1, <1>2, <1>4, Zenon
  <2>1. run[w].step <= Len(Emits(Consumer(w), Msg(run[w].msg)))
    BY <1>3, <2>0
  <2> QED
    BY <2>1 DEF Emitting
<1>5. ASSUME Emitting(w), Advance(w).phase = "ack"
      PROVE  run[w].step = 2 /\ Emission(w) = Must("block")
  <2>1. run[w].step <= Len(Emits(Consumer(w), Msg(run[w].msg)))
    BY <1>5 DEF Emitting
  <2>2. Len(<<>>) = 0
    OBVIOUS
  <2>3. Emits(Consumer(w), Msg(run[w].msg)) = two
    BY <1>1, <1>3, <2>1, <2>2
  <2>4. run[w].step = Len(Emits(Consumer(w), Msg(run[w].msg)))
    BY <1>5, AdvanceType
  <2> QED
    BY <1>2, <2>3, <2>4 DEF Emission
<1> QED
  BY <1>4, <1>5 DEF art

LEMMA HitInvariant == Spec => []HitInv
<1> USE PipelineAssumption DEF nodes, server, bounds
<1>1. Init => HitInv
  BY DEF Init, HitInv, Consumers
<1>2. TypeInv /\ TypeInv' /\ HitInv /\ [Next]_vars => HitInv'
  <2> SUFFICES ASSUME TypeInv, Told', HitInv, [Next]_vars PROVE HitInv'
    BY DEF TypeInv
  <2>a. /\ run \in [Workers -> Run] /\ handled \in [Consumers -> SUBSET Ids]
        /\ "ACTIVE_HP" \in Consumers
    BY DEF TypeInv, TypeOK, Consumers
  <2>b. \A id : stream \subseteq stream' /\ Answered(id) => Answered(id)'
    BY DEF Answered
  <2>e. ASSUME stream \subseteq stream', NEW id \in {m.id : m \in stream} PROVE Msg(id)' = Msg(id)
    <3>1. PICK m \in stream : m.id = id
      OBVIOUS
    <3>2. Msg(id) = m
      BY <3>1, MsgIs DEF TypeInv
    <3>3. (CHOOSE n \in stream' : n.id = id) = m
      BY <2>e, <3>1 DEF TypeInv, Told
    <3> QED
      BY <3>2, <3>3 DEF Msg
  <2>f. handled["ACTIVE_HP"] \subseteq {m.id : m \in stream}
    BY <2>a DEF TypeInv, TypeOK, Inbox
  <2>c. stream \subseteq stream' /\ handled'["ACTIVE_HP"] \subseteq handled["ACTIVE_HP"] => HitInv'
    BY <2>b, <2>e, <2>f DEF HitInv
  <2>d. ASSUME NEW w \in Workers, NEW s, Finish(w, s), Consumer(w) # "ACTIVE_HP"
        PROVE  handled'["ACTIVE_HP"] = handled["ACTIVE_HP"]
    BY <2>a, <2>d DEF Finish
  <2>1. ASSUME NEW w \in Workers, Emit(w) PROVE HitInv'
    <3>1. /\ Emitting(w) /\ stream' \in Published(w) /\ Finish(w, Advance(w)) /\ run[w].phase = "handle"
      BY <2>1 DEF Emit, Emitting
    <3>2. PICK m \in Message :
              /\ stream' = stream \cup {m}
              /\ m.id = NextId(run[w].msg, Consumer(w), run[w].step)
              /\ m.subject = Emission(w).subject
      BY <3>1, Publishes
    <3>3. CASE Consumer(w) # "ACTIVE_HP"
      BY <2>c, <2>d, <3>1, <3>2, <3>3
    <3>4. CASE Advance(w).phase # "ack"
      <4>1. handled'["ACTIVE_HP"] \subseteq handled["ACTIVE_HP"]
        BY <2>a, <3>1, <3>4 DEF Finish
      <4> QED
        BY <2>c, <3>2, <4>1
    <3>5. CASE Consumer(w) = "ACTIVE_HP" /\ Advance(w).phase = "ack"
      <4>1. m.subject = "block"
        BY <3>1, <3>2, <3>5, AnswersLast DEF Must
      <4>2. m.id[1] = run[w].msg[1]
        <5> DEFINE p == run[w].msg
                   k == Cardinality(Attempts(p, Consumer(w), run[w].step)) + 1
        <5>1. p \in Ids /\ p # <<>>
          BY <3>1, WorkersMessage, EmissionType DEF TypeInv, Told
        <5>2. Attempts(p, Consumer(w), run[w].step) \in SUBSET stream
          BY DEF Attempts
        <5>3. k \in Nat
          BY <5>2, FS_Subset, FS_CardinalityType DEF TypeInv, Told
        <5>4. m.id = Append(p, <<Consumer(w), run[w].step, k>>)
          BY <3>1, <3>2, <5>1, NextIdIs DEF TypeInv, TypeOK, Told
        <5> HIDE DEF k, p
        <5>5. <<Consumer(w), run[w].step, k>> \in Hop
          BY <3>1, <5>3, EmissionType DEF Hop
        <5>6. p \in Seq(Hop) /\ Len(p) \in Nat /\ Len(p) # 0
          BY <5>1, LenProperties, EmptySeq DEF Ids, Hop
        <5>7. 1 \in 1 .. Len(p)
          BY <5>6
        <5>8. m.id[1] = p[1]
          BY <5>4, <5>5, <5>6, <5>7, AppendProperties
        <5> QED
          BY <5>8 DEF p
      <4>3. \E b \in stream' : b.subject = "block" /\ b.id[1] = run[w].msg[1]
        BY <3>2, <4>1, <4>2
      <4>4. handled'["ACTIVE_HP"] \subseteq handled["ACTIVE_HP"] \cup {run[w].msg}
        BY <2>a, <3>1, AdvanceType DEF Finish
      <4> QED
        BY <2>e, <2>f, <3>2, <4>3, <4>4 DEF HitInv, Answered
    <3> QED
      BY <3>3, <3>4, <3>5
  <2>2. ASSUME NEW w \in Workers, EmitFails(w) PROVE HitInv'
    <3>1. Emitting(w) /\ run[w].phase = "handle" /\ stream \subseteq stream'
      BY <2>2, StreamKeeps DEF EmitFails, Emitting
    <3>2. \/ handled' = handled
          \/ Finish(w, Advance(w)) /\ ~Emission(w).must
      BY <2>2, Zenon DEF EmitFails
    <3>3. CASE handled' = handled
      BY <2>c, <3>1, <3>3
    <3>4. CASE Consumer(w) # "ACTIVE_HP" /\ Finish(w, Advance(w))
      BY <2>c, <2>d, <3>1, <3>4
    <3>5. CASE Consumer(w) = "ACTIVE_HP" /\ Finish(w, Advance(w)) /\ ~Emission(w).must
      <4>1. Emission(w) # Must("block")
        BY <3>5 DEF Must
      <4>2. Advance(w).phase # "ack"
        BY <3>1, <3>5, <4>1, AnswersLast
      <4>3. handled'["ACTIVE_HP"] \subseteq handled["ACTIVE_HP"]
        BY <2>a, <3>5, <4>2 DEF Finish
      <4> QED
        BY <2>c, <3>1, <4>3
    <3> QED
      BY <3>2, <3>3, <3>4, <3>5
  <2>3. ASSUME NEW w \in Workers, NothingToEmit(w) PROVE HitInv'
    <3>1. stream' = stream /\ Finish(w, [run[w] EXCEPT !.phase = "ack"])
      BY <2>3 DEF NothingToEmit
    <3>2. CASE Consumer(w) # "ACTIVE_HP"
      BY <2>c, <2>d, <3>1, <3>2
    <3>3. CASE Consumer(w) = "ACTIVE_HP"
      <4>1. ~(Msg(run[w].msg).art.ips > 0)
        BY <2>3, <3>3, AnswersLast DEF NothingToEmit
      <4>2. handled'["ACTIVE_HP"] \subseteq handled["ACTIVE_HP"] \cup {run[w].msg}
        BY <2>3, <2>a DEF NothingToEmit, Finish
      <4>3. \A id : Msg(id)' = Msg(id) /\ Answered(id)' = Answered(id)
        BY <3>1 DEF Msg, Answered
      <4> QED
        BY <4>1, <4>2, <4>3 DEF HitInv
    <3> QED
      BY <3>2, <3>3
  <2>4. ASSUME UNCHANGED handled, stream \subseteq stream' PROVE HitInv'
    BY <2>4, <2>c
  <2>5. ASSUME NEW w \in Workers, Deliver(w) \/ PublishDLQ(w) \/ PublishDLQFails(w) \/ Ack(w) \/ AckLost(w)
        PROVE  HitInv'
    BY <2>4, <2>5 DEF Deliver, PublishDLQ, PublishDLQFails, Ack, AckLost
  <2>6. ASSUME NEW c \in Consumers, AckWait(c) \/ AckWaitWhileHandling(c) PROVE HitInv'
    BY <2>4, <2>6 DEF AckWait, AckWaitWhileHandling
  <2>7. ASSUME NEW n \in Nodes, Subscribe(n) \/ Crash(n) \/ Shutdown(n) \/ Start(n) PROVE HitInv'
    BY <2>4, <2>7 DEF Subscribe, Crash, Shutdown, Start
  <2>8. CASE Arrive
    BY <2>4, <2>8 DEF Arrive
  <2>9. CASE UNCHANGED vars
    BY <2>4, <2>9 DEF vars
  <2> QED
    BY <2>1, <2>2, <2>3, <2>5, <2>6, <2>7, <2>8, <2>9 DEF Next, Works, Fails, Finished
<1> QED
  BY <1>1, <1>2, TypeInvariant, PTL DEF Spec

\* Once nothing is left to deliver, every honeypot hit from an address ended with
\* a block event handled at the edge, with a copy in the dead-letter subject, or was lost to a
\* failure (controller.go, onHoneypot and onDisrupt).
THEOREM HitsEndContained == Spec => []HitsAreContained
<1>1. TypeInv /\ HitInv => HitsAreContained
  <2> SUFFICES ASSUME TypeInv, HitInv, Settled,
                      "ACTIVE_HP" \in mode.consumers, "ACTIVE_EDGE" \in mode.consumers,
                      NEW m \in stream, m.subject = "honeypot", m.art.ips > 0
               PROVE  Contained(m)
    BY DEF HitsAreContained
  \* A message settled with c was finished by it, or is a copy, or is lost.
  <2>1. ASSUME NEW c \in mode.consumers, NEW n \in stream, n.subject \in Filter(c), SameRoot(n, m)
        PROVE  n.id \in handled[c] \/ Contained(m)
    <3>1. n.id \in acked[c]
      BY <2>1 DEF Settled, Inbox
    <3>2. CASE n.id \in dlq
      BY <2>1, <3>2 DEF Contained
    <3>3. CASE n.id \notin handled[c] /\ n.id \notin dlq
      <4>1. <<c, n>> \in Lost
        BY <3>1, <3>3 DEF Lost
      <4> QED
        BY <2>1, <4>1 DEF Contained
    <3> QED
      BY <3>2, <3>3
  <2>2. "honeypot" \in Filter("ACTIVE_HP") /\ "block" \in Filter("ACTIVE_EDGE")
    BY DEF Filter
  <2>3. m.id \in handled["ACTIVE_HP"] \/ Contained(m)
    BY <2>1, <2>2 DEF SameRoot
  <2>4. ASSUME m.id \in handled["ACTIVE_HP"] PROVE Contained(m)
    <3>0. Msg(m.id) = m
      BY MsgIs DEF TypeInv
    <3>1. PICK b \in stream : b.subject = "block" /\ SameRoot(b, m)
      BY <2>4, <3>0 DEF HitInv, Answered, SameRoot
    <3>2. b.id \in handled["ACTIVE_EDGE"] \/ Contained(m)
      BY <2>1, <2>2, <3>1
    <3> QED
      BY <3>1, <3>2 DEF Contained
  <2> QED
    BY <2>3, <2>4
<1> QED
  BY <1>1, TypeInvariant, HitInvariant, PTL

-----------------------------------------------------------------------------
\* A message a worker published was published by a position of the handler of
\* the message it was made from.
Descends(n) ==
    \E m \in stream :
        /\ m.id = Parent(n)
        /\ Position(n) \in DOMAIN Emits(Publisher(n), m)
        /\ Emits(Publisher(n), m)[Position(n)].subject = n.subject

Descent == \A n \in stream : Publisher(n) \in Consumers => Descends(n)

LEMMA DescentInvariant == Spec => []Descent
<1> USE DEF nodes, server, bounds
<1>1. Init => Descent
  BY DEF Init, Descent
<1>2. TypeInv /\ Descent /\ [Next]_vars => Descent'
  <2> SUFFICES ASSUME TypeInv, Descent, [Next]_vars PROVE Descent'
    OBVIOUS
  <2>a. \A n : stream \subseteq stream' /\ Descends(n) => Descends(n)'
    BY DEF Descends, Parent, Position, Publisher
  <2>1. CASE Arrive
    <3>0. PICK s \in mode.sources, p \in BOOLEAN : \E a \in Payloads(s) :
              stream' = stream \cup {[id |-> NextId(<<>>, "outside", 0), subject |-> s, parses |-> p, art |-> a]}
      BY <2>1, Zenon DEF Arrive
    <3>1. PICK a \in Payloads(s) :
              stream' = stream \cup {[id |-> NextId(<<>>, "outside", 0), subject |-> s, parses |-> p, art |-> a]}
      BY <3>0, Zenon
    <3> DEFINE m == [id |-> NextId(<<>>, "outside", 0), subject |-> s, parses |-> p, art |-> a]
    <3>2. stream' = stream \cup {m} /\ m.id = NextId(<<>>, "outside", 0)
      BY <3>1
    <3> HIDE DEF m
    <3>3. Publisher(m) = "outside"
      <4>1. <<>> \in Ids /\ 0 \in Nat
        BY EmptySeq DEF Ids
      <4>2. stream \subseteq Message /\ Told
        BY DEF TypeInv, TypeOK
      <4>3. "outside" \in Consumers \cup {"outside"}
        OBVIOUS
      <4> QED
        BY <3>2, <4>1, <4>2, <4>3, PublishTold, Zenon
    <3>4. Publisher(m) \notin Consumers
      BY <3>3 DEF Consumers
    <3> QED
      BY <2>a, <3>2, <3>4 DEF Descent, Publisher
  <2>2. ASSUME NEW w \in Workers, Emit(w) \/ EmitFails(w) PROVE Descent'
    <3>1. Emitting(w) /\ stream' \in {stream} \cup Published(w)
      BY <2>2 DEF Emit, EmitFails
    <3>2. CASE stream' = stream
      BY <2>a, <3>2 DEF Descent, Publisher
    <3>3. CASE stream' \in Published(w)
      <4>1. PICK n \in Message :
                /\ stream' = stream \cup {n}
                /\ n.id = NextId(run[w].msg, Consumer(w), run[w].step)
                /\ n.subject = Emission(w).subject
        BY <3>1, <3>3, Publishes
      <4>2. /\ run[w].msg \in Ids /\ run[w].step \in Nat /\ Consumer(w) \in Consumers \cup {"outside"}
            /\ Emits(Consumer(w), Msg(run[w].msg)) \in Seq(Emissions)
            /\ run[w].step \in 1 .. Len(Emits(Consumer(w), Msg(run[w].msg)))
            /\ Msg(run[w].msg) \in stream /\ Msg(run[w].msg).id = run[w].msg
        BY <3>1, EmissionType DEF Inbox
      <4>3. Parent(n) = run[w].msg /\ Publisher(n) = Consumer(w) /\ Position(n) = run[w].step
        <5>1. stream \subseteq Message /\ Told
          BY DEF TypeInv, TypeOK
        <5>2. run[w].msg \in Ids /\ run[w].step \in Nat /\ Consumer(w) \in Consumers \cup {"outside"}
          BY <4>2
        <5>3. n.id = NextId(run[w].msg, Consumer(w), run[w].step) /\ stream' = stream \cup {n}
          BY <4>1
        <5> QED
          BY <5>1, <5>2, <5>3, PublishTold
      <4>4. DOMAIN Emits(Consumer(w), Msg(run[w].msg)) = 1 .. Len(Emits(Consumer(w), Msg(run[w].msg)))
        BY <4>2, LenProperties
      <4>5. Descends(n)
        BY <4>1, <4>2, <4>3, <4>4 DEF Descends, Emission
      <4> QED
        BY <2>a, <4>1, <4>5 DEF Descent, Publisher
    <3> QED
      BY <3>1, <3>2, <3>3
  <2>3. ASSUME UNCHANGED stream PROVE Descent'
    BY <2>a, <2>3 DEF Descent, Publisher
  <2>4. ASSUME NEW w \in Workers,
               Deliver(w) \/ NothingToEmit(w) \/ PublishDLQ(w) \/ PublishDLQFails(w) \/ Ack(w) \/ AckLost(w)
        PROVE  Descent'
    BY <2>3, <2>4 DEF Deliver, NothingToEmit, PublishDLQ, PublishDLQFails, Ack, AckLost
  <2>5. ASSUME NEW c \in Consumers, AckWait(c) \/ AckWaitWhileHandling(c) PROVE Descent'
    BY <2>3, <2>5 DEF AckWait, AckWaitWhileHandling
  <2>6. ASSUME NEW n \in Nodes, Subscribe(n) \/ Crash(n) \/ Shutdown(n) \/ Start(n) PROVE Descent'
    BY <2>3, <2>6 DEF Subscribe, Crash, Shutdown, Start
  <2>7. CASE UNCHANGED vars
    BY <2>3, <2>7 DEF vars
  <2> QED
    BY <2>1, <2>2, <2>4, <2>5, <2>6, <2>7 DEF Next, Works, Fails, Finished
<1> QED
  BY <1>1, <1>2, TypeInvariant, PTL DEF Spec

\* The nodes whose handler of a message has not published position i yet.
Pending(c, id, i) ==
    {n \in Nodes : run[<<c, n>>].phase = "handle" /\ run[<<c, n>>].msg = id /\ run[<<c, n>>].step <= i}

\* A message that will not be delivered unless something fails.
Taken(c, id) ==
    \/ id \in acked[c]
    \/ id \in inflight[c] /\ \E n \in Nodes : <<c, n>> \in attached /\ run[<<c, n>>].msg = id

Due(c, id) == IF Taken(c, id) THEN 0 ELSE 1

Cost(c, id, i) == Cardinality(Attempts(id, c, i)) + Cardinality(Pending(c, id, i)) + Due(c, id)

\* What was published from a position, what is about to be, and what a delivery
\* still to come will publish: once, and once more for each failure.
CostInv == \A c \in Consumers, id \in Ids \ {<<>>}, i \in Nat : Cost(c, id, i) <= 1 + faults + stops

LEMMA CostFinite ==
    ASSUME TypeInv, NEW c, NEW id, NEW i
    PROVE  /\ IsFiniteSet(Attempts(id, c, i)) /\ Cardinality(Attempts(id, c, i)) \in Nat
           /\ IsFiniteSet(Pending(c, id, i)) /\ Cardinality(Pending(c, id, i)) \in Nat
           /\ Due(c, id) \in 0 .. 1
           /\ faults \in Nat /\ stops \in Nat
<1>1. Attempts(id, c, i) \in SUBSET stream /\ Pending(c, id, i) \in SUBSET Nodes
  BY DEF Attempts, Pending
<1>2. IsFiniteSet(stream) /\ IsFiniteSet(Nodes)
  BY PipelineAssumption DEF TypeInv, Told
<1>3. faults \in Nat /\ stops \in Nat
  BY PipelineAssumption DEF TypeInv, TypeOK
<1> QED
  BY <1>1, <1>2, <1>3, FS_Subset, FS_CardinalityType DEF Due

\* A step that publishes nothing from a position, and makes a message due only
\* by failing.
LEMMA CostFrame ==
    ASSUME TypeInv, TypeInv', NEW c \in Consumers, NEW id, NEW i,
           Cost(c, id, i) <= 1 + faults + stops,
           Attempts(id, c, i)' = Attempts(id, c, i),
           \A n \in Nodes : n \in Pending(c, id, i)' => n \in Pending(c, id, i),
           \/ faults' + stops' >= faults + stops + 1
           \/ faults' + stops' >= faults + stops /\ (Taken(c, id) => Taken(c, id)')
    PROVE  Cost(c, id, i)' <= 1 + faults' + stops'
<1>1. /\ Cardinality(Attempts(id, c, i)) \in Nat /\ Due(c, id) \in 0 .. 1
      /\ IsFiniteSet(Pending(c, id, i)) /\ Cardinality(Pending(c, id, i)) \in Nat
      /\ faults \in Nat /\ stops \in Nat
  BY CostFinite
<1>2. /\ Cardinality(Pending(c, id, i)') \in Nat /\ Due(c, id)' \in 0 .. 1
      /\ faults' \in Nat /\ stops' \in Nat
  <2>1. Pending(c, id, i)' \in SUBSET Nodes
    BY DEF Pending
  <2>2. faults' \in Nat /\ stops' \in Nat
    BY PipelineAssumption DEF TypeInv, TypeOK
  <2> QED
    BY <2>1, <2>2, PipelineAssumption, FS_Subset, FS_CardinalityType DEF Due
<1>3. Cardinality(Pending(c, id, i)') <= Cardinality(Pending(c, id, i))
  <2>1. Pending(c, id, i)' \in SUBSET Pending(c, id, i)
    BY DEF Pending
  <2> QED
    BY <1>1, <2>1, FS_Subset
<1>4. Cardinality(Attempts(id, c, i))' = Cardinality(Attempts(id, c, i))
  OBVIOUS
<1>5. \/ faults' + stops' >= faults + stops + 1
      \/ faults' + stops' >= faults + stops /\ Due(c, id)' <= Due(c, id)
  BY DEF Due
<1>6. /\ Cost(c, id, i) = Cardinality(Attempts(id, c, i)) + Cardinality(Pending(c, id, i)) + Due(c, id)
      /\ Cost(c, id, i)' = Cardinality(Attempts(id, c, i)) + Cardinality(Pending(c, id, i)') + Due(c, id)'
  BY <1>4 DEF Cost
<1> QED
  BY <1>1, <1>2, <1>3, <1>5, <1>6

\* The others' handlers are where they were when one worker goes on.
LEMMA PendingMoves ==
    ASSUME TypeInv, NEW w \in Workers, NEW r, run' = [run EXCEPT ![w] = r],
           NEW c \in Consumers, NEW id, NEW i
    PROVE  /\ \A n \in Nodes : <<c, n>> # w => (n \in Pending(c, id, i)' <=> n \in Pending(c, id, i))
           /\ \A n \in Nodes : <<c, n>> = w =>
                 (n \in Pending(c, id, i)' <=> r.phase = "handle" /\ r.msg = id /\ r.step <= i)
<1>1. run \in [Workers -> Run]
  BY DEF TypeInv, TypeOK
<1>2. \A n \in Nodes : <<c, n>> \in Workers
  BY DEF Workers
<1>3. \A n \in Nodes : run'[<<c, n>>] = IF <<c, n>> = w THEN r ELSE run[<<c, n>>]
  BY <1>1, <1>2
<1>4. ASSUME NEW n \in Nodes, <<c, n>> # w PROVE n \in Pending(c, id, i)' <=> n \in Pending(c, id, i)
  BY <1>3, <1>4 DEF Pending
<1>5. ASSUME NEW n \in Nodes, <<c, n>> = w
      PROVE  n \in Pending(c, id, i)' <=> r.phase = "handle" /\ r.msg = id /\ r.step <= i
  BY <1>3, <1>5 DEF Pending
<1> QED
  BY <1>4, <1>5

\* A worker that keeps its message, or has acknowledged it, makes nothing due.
LEMMA TakenStays ==
    ASSUME TypeInv, NEW w \in Workers, NEW r, run' = [run EXCEPT ![w] = r], UNCHANGED attached,
           NEW c \in Consumers, NEW id,
           id \in acked[c] => id \in acked'[c],
           id \in inflight[c] => id \in inflight'[c] \/ id \in acked'[c],
           c = Consumer(w) /\ w \in attached /\ run[w].msg = id => r.msg = id \/ id \in acked'[c]
    PROVE  Taken(c, id) => Taken(c, id)'
<1>1. run \in [Workers -> Run]
  BY DEF TypeInv, TypeOK
<1>2. \A n \in Nodes : <<c, n>> \in Workers /\ Consumer(<<c, n>>) = c
  BY DEF Workers, Consumer
<1>3. \A n \in Nodes : run'[<<c, n>>] = IF <<c, n>> = w THEN r ELSE run[<<c, n>>]
  BY <1>1, <1>2
<1> SUFFICES ASSUME Taken(c, id), id \notin acked'[c] PROVE Taken(c, id)'
  BY DEF Taken
<1>4. PICK n \in Nodes : <<c, n>> \in attached /\ run[<<c, n>>].msg = id
  BY DEF Taken
<1>5. id \in inflight'[c]
  BY DEF Taken
<1>6. run'[<<c, n>>].msg = id
  BY <1>2, <1>3, <1>4
<1> QED
  BY <1>4, <1>5, <1>6 DEF Taken

\* A worker publishes, or fails to: its position is no longer pending.
LEMMA PublishCosts ==
    ASSUME TypeInv, TypeInv', NEW w \in Workers, Emit(w) \/ EmitFails(w),
           NEW c \in Consumers, NEW id \in Ids \ {<<>>}, NEW i \in Nat,
           Cost(c, id, i) <= 1 + faults + stops
    PROVE  Cost(c, id, i)' <= 1 + faults' + stops'
<1>1. Emitting(w) /\ stream' \in {stream} \cup Published(w) /\ run[w].phase = "handle"
  BY DEF Emit, EmitFails, Emitting
<1>2. run \in [Workers -> Run] /\ faults \in Nat /\ stops \in Nat
  BY PipelineAssumption DEF TypeInv, TypeOK
<1>3. PICK r : /\ run' = [run EXCEPT ![w] = r]
               /\ r = Advance(w) \/ r = [run[w] EXCEPT !.phase = "deadletter"]
  BY <1>2 DEF Emit, EmitFails
<1>4. /\ r.msg = run[w].msg
      /\ r.phase = "handle" => r.step = run[w].step + 1
  <2>1. CASE r = Advance(w)
    BY <1>1, <2>1, AdvanceType
  <2>2. CASE r = [run[w] EXCEPT !.phase = "deadletter"]
    BY <1>2, <2>2 DEF Run
  <2> QED
    BY <1>3, <2>1, <2>2
<1>5. /\ run[w].msg \in Ids /\ run[w].step \in Nat /\ Consumer(w) \in Consumers
  BY <1>1, EmissionType
<1>6. UNCHANGED <<attached, acked, inflight>> /\ faults' + stops' >= faults + stops
      /\ faults' \in Nat /\ stops' \in Nat
  BY <1>2 DEF Emit, EmitFails, Fault, nodes, server, bounds
<1>7. Taken(c, id) => Taken(c, id)'
  BY <1>3, <1>4, <1>6, TakenStays
<1>8. \A n \in Nodes : n \in Pending(c, id, i)' => n \in Pending(c, id, i)
  <2> SUFFICES ASSUME NEW n \in Nodes, n \in Pending(c, id, i)' PROVE n \in Pending(c, id, i)
    OBVIOUS
  <2>1. CASE <<c, n>> # w
    BY <1>3, <2>1, PendingMoves
  <2>2. CASE <<c, n>> = w
    <3>1. r.phase = "handle" /\ r.msg = id /\ r.step <= i
      BY <1>3, <2>2, PendingMoves
    <3>2. run[w].step <= i
      BY <1>4, <1>5, <3>1
    <3> QED
      BY <1>1, <1>4, <2>2, <3>1, <3>2 DEF Pending
  <2> QED
    BY <2>1, <2>2
<1> DEFINE here == id = run[w].msg /\ c = Consumer(w) /\ i = run[w].step
<1>9. CASE stream' = stream \/ ~here
  <2>1. Attempts(id, c, i)' = Attempts(id, c, i)
    <3>1. CASE stream' = stream
      BY <3>1 DEF Attempts, Parent, Publisher, Position
    <3>2. CASE stream' \in Published(w) /\ ~here
      <4>1. PICK m \in Message : stream' = stream \cup {m} /\ m.id = NextId(run[w].msg, Consumer(w), run[w].step)
        BY <1>1, <3>2, Publishes
      <4>2. \A q, d, s : Attempts(q, d, s)' =
                IF q = run[w].msg /\ d = Consumer(w) /\ s = run[w].step
                THEN Attempts(q, d, s) \cup {m} ELSE Attempts(q, d, s)
        BY <1>5, <4>1, PublishTold DEF TypeInv, TypeOK
      <4> QED
        BY <3>2, <4>2
    <3> QED
      BY <1>1, <1>9, <3>1, <3>2
  <2> QED
    BY <1>6, <1>7, <1>8, <2>1, CostFrame
<1>10. CASE stream' \in Published(w) /\ here
  <2>1. PICK m \in Message : stream' = stream \cup {m} /\ m.id = NextId(run[w].msg, Consumer(w), run[w].step)
    BY <1>1, <1>10, Publishes
  <2>2. m.id = NextId(id, c, i) /\ stream \subseteq Message /\ Told
    BY <1>10, <2>1 DEF TypeInv, TypeOK
  <2>3. Cardinality(Attempts(id, c, i)') = Cardinality(Attempts(id, c, i)) + 1
    BY <2>1, <2>2, PublishTold
  <2>4. PICK n \in Nodes : w = <<c, n>>
    BY <1>10 DEF Workers, Consumer
  <2>5. n \in Pending(c, id, i) /\ n \notin Pending(c, id, i)'
    <3>1. n \in Pending(c, id, i)
      BY <1>1, <1>5, <1>10, <2>4 DEF Pending
    <3>2. ~(r.phase = "handle" /\ r.step <= i)
      BY <1>4, <1>5, <1>10
    <3> QED
      BY <1>3, <2>4, <3>1, <3>2, PendingMoves
  <2>6. Pending(c, id, i)' \in SUBSET (Pending(c, id, i) \ {n})
    BY <1>8, <2>5 DEF Pending
  <2>7. /\ IsFiniteSet(Pending(c, id, i) \ {n})
        /\ Cardinality(Pending(c, id, i) \ {n}) =
             IF n \in Pending(c, id, i) THEN Cardinality(Pending(c, id, i)) - 1 ELSE Cardinality(Pending(c, id, i))
    BY CostFinite, FS_RemoveElement
  <2>8. /\ Cardinality(Pending(c, id, i)') <= Cardinality(Pending(c, id, i) \ {n})
        /\ Cardinality(Pending(c, id, i)') \in Nat
    BY <2>6, <2>7, FS_Subset, FS_CardinalityType
  <2>9. Due(c, id)' <= Due(c, id) /\ Due(c, id) \in 0 .. 1 /\ Due(c, id)' \in 0 .. 1
    BY <1>7 DEF Due
  <2>10. /\ Cost(c, id, i) = Cardinality(Attempts(id, c, i)) + Cardinality(Pending(c, id, i)) + Due(c, id)
         /\ Cost(c, id, i)' = Cardinality(Attempts(id, c, i)') + Cardinality(Pending(c, id, i)') + Due(c, id)'
    BY DEF Cost
  <2>11. Cardinality(Attempts(id, c, i)) \in Nat /\ Cardinality(Pending(c, id, i)) \in Nat
    BY CostFinite
  <2>12. Cardinality(Pending(c, id, i)') <= Cardinality(Pending(c, id, i)) - 1
    BY <2>5, <2>7, <2>8, <2>11
  <2>13. Cost(c, id, i)' <= Cost(c, id, i)
    BY <2>3, <2>8, <2>9, <2>10, <2>11, <2>12
  <2>14. Cost(c, id, i) \in Nat /\ Cost(c, id, i)' \in Nat
    BY <2>3, <2>8, <2>9, <2>10, <2>11
  <2>15. Cost(c, id, i) <= 1 + faults + stops
    OBVIOUS
  <2>16. faults' \in Nat /\ stops' \in Nat /\ faults' + stops' >= faults + stops
    BY <1>6
  <2>17. \A a, b, x, y, u, v \in Nat :
            a <= 1 + x + y /\ b <= a /\ u + v >= x + y => b <= 1 + u + v
    OBVIOUS
  <2> QED
    BY <1>2, <2>13, <2>14, <2>15, <2>16, <2>17
<1> QED
  BY <1>1, <1>9, <1>10

LEMMA CostInvariant == Spec => []CostInv
<1> USE DEF nodes, server, bounds
<1>1. Init => CostInv
  <2> SUFFICES ASSUME Init, NEW c \in Consumers, NEW id \in Ids \ {<<>>}, NEW i \in Nat
               PROVE  Cost(c, id, i) <= 1 + faults + stops
    BY DEF CostInv
  <2>1. Attempts(id, c, i) = {}
    BY DEF Init, Attempts
  <2>2. Pending(c, id, i) = {}
    BY DEF Init, Pending, Workers, At
  <2>3. Due(c, id) = 1
    BY DEF Init, Due, Taken
  <2> QED
    BY <2>1, <2>2, <2>3, FS_EmptySet DEF Init, Cost
<1>2. TypeInv /\ TypeInv' /\ CostInv /\ [Next]_vars => CostInv'
  <2> SUFFICES ASSUME TypeInv, TypeInv', CostInv, [Next]_vars,
                      NEW c \in Consumers, NEW id \in Ids \ {<<>>}, NEW i \in Nat
               PROVE  Cost(c, id, i)' <= 1 + faults' + stops'
    BY DEF CostInv
  <2>a. /\ run \in [Workers -> Run] /\ faults \in Nat /\ stops \in Nat
        /\ inflight \in [Consumers -> SUBSET Ids] /\ acked \in [Consumers -> SUBSET Ids]
        /\ Cost(c, id, i) <= 1 + faults + stops
    BY DEF TypeInv, TypeOK, CostInv
  <2>b. stream' = stream => Attempts(id, c, i)' = Attempts(id, c, i)
    BY DEF Attempts, Parent, Publisher, Position
  <2>c. ASSUME UNCHANGED <<stream, run, attached>>,
               \/ faults' + stops' >= faults + stops + 1
               \/ faults' + stops' >= faults + stops /\ (Taken(c, id) => Taken(c, id)')
        PROVE  Cost(c, id, i)' <= 1 + faults' + stops'
    <3>1. \A n \in Nodes : n \in Pending(c, id, i)' => n \in Pending(c, id, i)
      BY <2>c DEF Pending
    <3> QED
      BY <2>a, <2>b, <2>c, <3>1, CostFrame
  <2>1. CASE Arrive
    <3>0. PICK s \in mode.sources, p \in BOOLEAN : \E a \in Payloads(s) :
              stream' = stream \cup {[id |-> NextId(<<>>, "outside", 0), subject |-> s, parses |-> p, art |-> a]}
      BY <2>1, Zenon DEF Arrive
    <3>1. PICK a \in Payloads(s) :
              stream' = stream \cup {[id |-> NextId(<<>>, "outside", 0), subject |-> s, parses |-> p, art |-> a]}
      BY <3>0, Zenon
    <3>2. PICK m : stream' = stream \cup {m} /\ m.id = NextId(<<>>, "outside", 0)
      <4> DEFINE n == [id |-> NextId(<<>>, "outside", 0), subject |-> s, parses |-> p, art |-> a]
      <4>1. stream' = stream \cup {n} /\ n.id = NextId(<<>>, "outside", 0)
        BY <3>1
      <4> QED
        BY <4>1
    <3>3. \A q, d, j : Attempts(q, d, j)' =
              IF q = <<>> /\ d = "outside" /\ j = 0 THEN Attempts(q, d, j) \cup {m} ELSE Attempts(q, d, j)
      <4>1. <<>> \in Ids
        BY EmptySeq DEF Ids
      <4>2. stream \subseteq Message /\ Told
        BY DEF TypeInv, TypeOK
      <4>3. "outside" \in Consumers \cup {"outside"} /\ 0 \in Nat
        OBVIOUS
      <4> QED
        BY <3>2, <4>1, <4>2, <4>3, PublishTold
    <3>4. Attempts(id, c, i)' = Attempts(id, c, i)
      BY <3>3
    <3>5. UNCHANGED <<run, attached, acked, inflight, faults, stops>>
      BY <2>1 DEF Arrive
    <3>6. \A n \in Nodes : n \in Pending(c, id, i)' => n \in Pending(c, id, i)
      BY <3>5 DEF Pending
    <3>7. Taken(c, id) => Taken(c, id)'
      BY <3>5 DEF Taken
    <3>8. faults' + stops' >= faults + stops
      BY <2>a, <3>5
    <3> QED
      BY <2>a, <3>4, <3>6, <3>7, <3>8, CostFrame
  <2>2. ASSUME NEW w \in Workers, Deliver(w) PROVE Cost(c, id, i)' <= 1 + faults' + stops'
    <3>1. PICK m \in Inbox(Consumer(w)) :
              /\ m.id \notin inflight[Consumer(w)] \cup acked[Consumer(w)]
              /\ inflight' = [inflight EXCEPT ![Consumer(w)] = @ \cup {m.id}]
              /\ run' = [run EXCEPT ![w] =
                    [phase |-> IF m.parses THEN "handle" ELSE "deadletter", msg |-> m.id, step |-> 1]]
      BY <2>2 DEF Deliver
    <3> DEFINE r == [phase |-> IF m.parses THEN "handle" ELSE "deadletter", msg |-> m.id, step |-> 1]
    <3>2. r.msg = m.id /\ run' = [run EXCEPT ![w] = r]
      BY <3>1
    <3> HIDE DEF r
    <3>3. /\ UNCHANGED <<stream, attached, acked, faults, stops>> /\ w \in attached /\ run[w].phase = "idle"
          /\ Consumer(w) \in Consumers /\ faults' + stops' >= faults + stops
      BY <2>2, <2>a DEF Deliver, Workers, Consumer
    <3>4. run[w].msg = <<>>
      BY <3>3 DEF TypeInv, Working, AtWork
    <3>5. CASE c = Consumer(w) /\ id = m.id
      <4>1. ~Taken(c, id) /\ Due(c, id) = 1
        BY <3>1, <3>5 DEF Taken, Due
      <4>2. PICK n \in Nodes : w = <<c, n>>
        BY <3>5 DEF Workers, Consumer
      <4>3. run'[w] = r
        BY <2>a, <3>2
      <4>4. Taken(c, id)' /\ Due(c, id)' = 0
        <5>1. id \in inflight'[c]
          BY <2>a, <3>1, <3>5
        <5>2. <<c, n>> \in attached' /\ run'[<<c, n>>].msg = id
          BY <3>2, <3>3, <3>5, <4>2, <4>3
        <5> QED
          BY <5>1, <5>2 DEF Taken, Due
      <4>5. Pending(c, id, i)' \in SUBSET (Pending(c, id, i) \cup {n})
        <5>1. \A o \in Nodes : o # n => <<c, o>> # w
          BY <4>2
        <5>2. \A o \in Pending(c, id, i)' : o \in Nodes
          BY DEF Pending
        <5> QED
          BY <3>2, <5>1, <5>2, PendingMoves
      <4>6. /\ IsFiniteSet(Pending(c, id, i) \cup {n})
            /\ Cardinality(Pending(c, id, i) \cup {n}) =
                 IF n \in Pending(c, id, i) THEN Cardinality(Pending(c, id, i)) ELSE Cardinality(Pending(c, id, i)) + 1
        BY CostFinite, FS_AddElement
      <4>7. /\ Cardinality(Pending(c, id, i)') <= Cardinality(Pending(c, id, i) \cup {n})
            /\ Cardinality(Pending(c, id, i)') \in Nat
        BY <4>5, <4>6, FS_Subset, FS_CardinalityType
      <4>8. Cardinality(Attempts(id, c, i)) \in Nat /\ Cardinality(Pending(c, id, i)) \in Nat
        BY CostFinite
      <4>9. Cardinality(Pending(c, id, i)') <= Cardinality(Pending(c, id, i)) + 1
        BY <4>6, <4>7, <4>8
      <4>10. /\ Cost(c, id, i) = Cardinality(Attempts(id, c, i)) + Cardinality(Pending(c, id, i)) + 1
             /\ Cost(c, id, i)' = Cardinality(Attempts(id, c, i)) + Cardinality(Pending(c, id, i)') + 0
        BY <2>b, <3>3, <4>1, <4>4 DEF Cost
      <4>11. Cost(c, id, i)' <= Cost(c, id, i) /\ Cost(c, id, i) \in Nat /\ Cost(c, id, i)' \in Nat
        BY <4>7, <4>8, <4>9, <4>10
      <4>12. \A a, b, x \in Nat : a <= x /\ b <= a => b <= x
        OBVIOUS
      <4>13. 1 + faults + stops \in Nat /\ 1 + faults' + stops' = 1 + faults + stops
        BY <2>a, <3>3
      <4> QED
        BY <2>a, <4>11, <4>12, <4>13
    <3>6. CASE ~(c = Consumer(w) /\ id = m.id)
      <4>1. \A n \in Nodes : n \in Pending(c, id, i)' => n \in Pending(c, id, i)
        <5> SUFFICES ASSUME NEW n \in Nodes, n \in Pending(c, id, i)' PROVE n \in Pending(c, id, i)
          OBVIOUS
        <5>1. <<c, n>> # w
          <6>1. CASE <<c, n>> = w
            <7>1. r.msg = id /\ c = Consumer(w)
              BY <3>2, <6>1, PendingMoves DEF Consumer
            <7> QED
              BY <3>2, <3>6, <7>1
          <6> QED
            BY <6>1
        <5> QED
          BY <3>2, <5>1, PendingMoves
      <4>2. id \in inflight[c] => id \in inflight'[c]
        BY <2>a, <3>1, <3>3
      <4>3. Taken(c, id) => Taken(c, id)'
        BY <3>2, <3>3, <3>4, <4>2, TakenStays
      <4> QED
        BY <2>a, <2>b, <3>3, <4>1, <4>3, CostFrame
    <3> QED
      BY <3>5, <3>6
  <2>3. ASSUME NEW w \in Workers, Emit(w) \/ EmitFails(w) PROVE Cost(c, id, i)' <= 1 + faults' + stops'
    BY <2>3, <2>a, PublishCosts
  \* The steps of a worker that publish nothing.
  <2>4. ASSUME NEW w \in Workers, NEW r, run' = [run EXCEPT ![w] = r], r.phase # "handle",
               UNCHANGED <<stream, attached>>,
               \/ faults' + stops' >= faults + stops + 1
               \/ faults' + stops' >= faults + stops /\ (Taken(c, id) => Taken(c, id)')
        PROVE  Cost(c, id, i)' <= 1 + faults' + stops'
    <3>1. \A n \in Nodes : n \in Pending(c, id, i)' => n \in Pending(c, id, i)
      BY <2>4, PendingMoves
    <3> QED
      BY <2>a, <2>b, <2>4, <3>1, CostFrame
  <2>5. ASSUME NEW w \in Workers, NothingToEmit(w) \/ PublishDLQ(w) \/ PublishDLQFails(w)
        PROVE  Cost(c, id, i)' <= 1 + faults' + stops'
    <3> DEFINE r == [run[w] EXCEPT !.phase = "ack"]
    <3>1. r.phase = "ack" /\ r.msg = run[w].msg
      BY <2>a DEF Run
    <3>2. /\ run' = [run EXCEPT ![w] = r]
          /\ UNCHANGED <<stream, attached, acked, inflight>> /\ faults' + stops' >= faults + stops
      BY <2>5, <2>a DEF NothingToEmit, PublishDLQ, PublishDLQFails, Fault
    <3> HIDE DEF r
    <3>3. Taken(c, id) => Taken(c, id)'
      BY <3>1, <3>2, TakenStays
    <3> QED
      BY <2>4, <3>1, <3>2, <3>3
  <2>6. ASSUME NEW w \in Workers, Ack(w) PROVE Cost(c, id, i)' <= 1 + faults' + stops'
    <3>1. /\ run' = [run EXCEPT ![w] = At("idle")] /\ At("idle").phase # "handle" /\ Consumer(w) \in Consumers
          /\ UNCHANGED <<stream, attached>> /\ faults' + stops' >= faults + stops
      BY <2>6, <2>a DEF Ack, At, Workers, Consumer
    <3>2. /\ id \in acked[c] => id \in acked'[c]
          /\ id \in inflight[c] => id \in inflight'[c] \/ id \in acked'[c]
          /\ c = Consumer(w) /\ w \in attached /\ run[w].msg = id => id \in acked'[c]
      <4>1. CASE w \in attached
        <5>1. /\ acked' = [acked EXCEPT ![Consumer(w)] = @ \cup {run[w].msg}]
              /\ inflight' = [inflight EXCEPT ![Consumer(w)] = @ \ {run[w].msg}]
          BY <2>6, <4>1 DEF Ack
        <5> QED
          BY <2>a, <3>1, <5>1
      <4>2. CASE w \notin attached
        BY <2>6, <4>2 DEF Ack
      <4> QED
        BY <4>1, <4>2
    <3>3. Taken(c, id) => Taken(c, id)'
      BY <3>1, <3>2, TakenStays
    <3> QED
      BY <2>4, <3>1, <3>3
  <2>7. ASSUME NEW w \in Workers, AckLost(w) PROVE Cost(c, id, i)' <= 1 + faults' + stops'
    <3>1. /\ run' = [run EXCEPT ![w] = At("idle")] /\ At("idle").phase # "handle"
          /\ UNCHANGED <<stream, attached>> /\ faults' + stops' >= faults + stops + 1
      BY <2>7, <2>a DEF AckLost, Fault, At
    <3> QED
      BY <2>4, <3>1
  <2>8. ASSUME NEW d \in Consumers, AckWait(d) PROVE Cost(c, id, i)' <= 1 + faults' + stops'
    <3>1. PICK old \in inflight[d] : /\ \A n \in Nodes : run[<<d, n>>].msg # old
                                     /\ inflight' = [inflight EXCEPT ![d] = @ \ {old}]
      BY <2>8 DEF AckWait
    <3>2. UNCHANGED <<stream, run, attached, acked>> /\ faults' + stops' >= faults + stops
      BY <2>8, <2>a DEF AckWait
    <3>3. inflight'[c] = IF c = d THEN inflight[c] \ {old} ELSE inflight[c]
      BY <2>a, <3>1
    <3>4. ASSUME Taken(c, id) PROVE Taken(c, id)'
      <4>1. CASE id \in acked[c]
        BY <3>2, <4>1 DEF Taken
      <4>2. ASSUME NEW n \in Nodes, id \in inflight[c], <<c, n>> \in attached, run[<<c, n>>].msg = id
            PROVE  Taken(c, id)'
        <5>1. id \in inflight'[c]
          BY <3>1, <3>3, <4>2
        <5>2. <<c, n>> \in attached' /\ run'[<<c, n>>].msg = id
          BY <3>2, <4>2
        <5> QED
          BY <5>1, <5>2 DEF Taken
      <4> QED
        BY <3>4, <4>1, <4>2 DEF Taken
    <3> QED
      BY <2>c, <3>2, <3>4
  <2>9. ASSUME NEW d \in Consumers, AckWaitWhileHandling(d) PROVE Cost(c, id, i)' <= 1 + faults' + stops'
    <3>1. UNCHANGED <<stream, run, attached>> /\ faults' + stops' >= faults + stops + 1
      BY <2>9, <2>a DEF AckWaitWhileHandling, Fault
    <3> QED
      BY <2>c, <3>1
  <2>10. ASSUME NEW n \in Nodes, Subscribe(n) \/ Crash(n) \/ Shutdown(n)
         PROVE  Cost(c, id, i)' <= 1 + faults' + stops'
    <3>1. PICK phase \in {"off", "idle"} : run' = RunAt(n, phase)
      BY <2>10 DEF Subscribe, Crash, Shutdown
    <3>2. UNCHANGED stream
      BY <2>10 DEF Subscribe, Crash, Shutdown
    <3>3. \A o \in Nodes : run'[<<c, o>>] = IF <<c, o>> \in WorkersOf(n) THEN At(phase) ELSE run[<<c, o>>]
      BY <3>1 DEF RunAt, Workers
    <3>4. \A o \in Nodes : o \in Pending(c, id, i)' => o \in Pending(c, id, i)
      BY <3>3 DEF Pending, At
    <3>5. CASE Subscribe(n)
      <4>1. /\ UNCHANGED <<acked, inflight, faults, stops>> /\ attached \subseteq attached'
            /\ \E w \in WorkersOf(n) : run[w].phase = "off"
        BY <3>5 DEF Subscribe
      <4>2. \A w \in WorkersOf(n) : w \notin attached
        BY <4>1 DEF TypeInv, Working, Together
      <4>3. Taken(c, id) => Taken(c, id)'
        BY <3>3, <4>1, <4>2 DEF Taken
      <4>4. faults' + stops' >= faults + stops
        BY <2>a, <4>1
      <4> QED
        BY <2>a, <2>b, <3>2, <3>4, <4>3, <4>4, CostFrame
    <3>6. CASE Crash(n) \/ Shutdown(n)
      <4>1. faults' + stops' >= faults + stops + 1
        BY <2>a, <3>6 DEF Crash, Shutdown, Fault
      <4> QED
        BY <2>a, <2>b, <3>2, <3>4, <4>1, CostFrame
    <3> QED
      BY <2>10, <3>5, <3>6
  <2>11. ASSUME NEW n \in Nodes, Start(n) PROVE Cost(c, id, i)' <= 1 + faults' + stops'
    <3>1. UNCHANGED <<stream, run, attached, acked, inflight>> /\ faults' + stops' >= faults + stops
      BY <2>11, <2>a DEF Start
    <3> QED
      BY <2>c, <3>1 DEF Taken
  <2>12. CASE UNCHANGED vars
    <3>1. UNCHANGED <<stream, run, attached, acked, inflight>> /\ faults' + stops' >= faults + stops
      BY <2>12, <2>a DEF vars
    <3> QED
      BY <2>c, <3>1 DEF Taken
  <2> QED
    BY <2>1, <2>2, <2>3, <2>5, <2>6, <2>7, <2>8, <2>9, <2>10, <2>11, <2>12 DEF Next, Works, Fails, Finished
<1> QED
  BY <1>1, <1>2, TypeInvariant, PTL DEF Spec

\* A message makes each of its consumers publish what the handler says once, and
\* at most once more for each failure or shutdown (the handlers, and the
\* acknowledgments in bus.go, Consume).
THEOREM DuplicatesAreBounded == Spec => []DuplicatesBounded
<1>1. TypeInv /\ Descent /\ CostInv => DuplicatesBounded
  <2> SUFFICES ASSUME TypeInv, Descent, CostInv,
                      NEW c \in mode.consumers, NEW m \in Inbox(c), NEW s \in Subjects
               PROVE  Cardinality(Copies(c, m, s)) <= Wanted(c, m, s) * (1 + faults + stops)
    BY DEF DuplicatesBounded
  <2> DEFINE B == 1 + faults + stops
             W == {i \in DOMAIN Emits(c, m) : Emits(c, m)[i].subject = s}
             f == [n \in Copies(c, m, s) |-> <<Position(n), Attempt(n)>>]
  <2>1. c \in Consumers /\ m \in stream /\ m \in Message /\ m.id \in Ids \ {<<>>} /\ B \in Nat /\ 1 <= B
    BY PipelineAssumption DEF TypeInv, TypeOK, Inbox, Told, Message
  <2>2. Emits(c, m) \in Seq(Emissions)
    BY <2>1, EmitsType
  <2>3. DOMAIN Emits(c, m) = 1 .. Len(Emits(c, m)) /\ Len(Emits(c, m)) \in Nat
    BY <2>2, LenProperties
  <2>4. IsFiniteSet(W) /\ Cardinality(W) \in Nat
    <3>1. IsFiniteSet(1 .. Len(Emits(c, m)))
      BY <2>3, FS_Interval
    <3>2. W \in SUBSET (1 .. Len(Emits(c, m)))
      BY <2>3
    <3> QED
      BY <3>1, <3>2, FS_Subset, FS_CardinalityType
  <2>5. ASSUME NEW n \in Copies(c, m, s)
        PROVE  /\ n \in stream /\ n \in Message /\ n.id # <<>> /\ Parent(n) = m.id /\ Publisher(n) = c
               /\ Position(n) \in W /\ Attempt(n) \in 1 .. B
    <3>1. n \in stream /\ Parent(n) = m.id /\ Publisher(n) = c /\ n.subject = s
      BY DEF Copies
    <3>2. PICK p \in stream : /\ p.id = Parent(n)
                              /\ Position(n) \in DOMAIN Emits(Publisher(n), p)
                              /\ Emits(Publisher(n), p)[Position(n)].subject = n.subject
      BY <2>1, <3>1 DEF Descent, Descends
    <3>3. p = m
      BY <2>1, <3>1, <3>2 DEF TypeInv, Told
    <3>4. Position(n) \in W
      BY <3>1, <3>2, <3>3
    <3>5. Position(n) \in Nat
      BY <2>3, <3>4
    <3>6. Cost(c, m.id, Position(n)) <= B
      BY <2>1, <3>5 DEF CostInv
    <3>7. Attempt(n) \in 1 .. Cardinality(Attempts(m.id, c, Position(n)))
      BY <3>1 DEF TypeInv, Told
    <3>8. /\ Cardinality(Attempts(m.id, c, Position(n))) \in Nat
          /\ Cardinality(Pending(c, m.id, Position(n))) \in Nat
          /\ Due(c, m.id) \in 0 .. 1
      BY CostFinite
    <3>9. Cardinality(Attempts(m.id, c, Position(n))) <= B
      <4>1. \A a, p1, d, b \in Nat : a + p1 + d <= b => a <= b
        OBVIOUS
      <4>2. Due(c, m.id) \in Nat
        BY <3>8
      <4>3. Cardinality(Attempts(m.id, c, Position(n))) + Cardinality(Pending(c, m.id, Position(n)))
              + Due(c, m.id) <= B
        BY <3>6 DEF Cost
      <4> HIDE DEF B
      <4> QED
        BY <2>1, <3>8, <4>1, <4>2, <4>3
    <3>10. Attempt(n) \in 1 .. B
      <4> HIDE DEF B
      <4> QED
        BY <2>1, <3>7, <3>8, <3>9
    <3>11. n \in Message /\ n.id # <<>>
      BY <3>1 DEF TypeInv, TypeOK, Told
    <3> QED
      BY <3>1, <3>4, <3>10, <3>11
  <2>6. f \in Injection(Copies(c, m, s), W \X (1 .. B))
    <3>1. f \in [Copies(c, m, s) -> W \X (1 .. B)]
      <4> HIDE DEF B, W
      <4> QED
        BY <2>5
    <3>2. ASSUME NEW n \in Copies(c, m, s), NEW o \in Copies(c, m, s), f[n] = f[o] PROVE n = o
      <4>1. Position(n) = Position(o) /\ Attempt(n) = Attempt(o)
        BY <3>2
      <4>2. /\ n.id = Append(Parent(n), Origin(n))
            /\ o.id = Append(Parent(o), Origin(o))
        BY <2>5, MessageId
      <4>3. n.id = o.id
        BY <2>5, <4>1, <4>2 DEF Origin
      <4> QED
        BY <2>5, <4>3 DEF TypeInv, Told
    <3> HIDE DEF f
    <3> QED
      BY <3>1, <3>2 DEF Injection, IsInjective
  <2>7. IsFiniteSet(1 .. B) /\ Cardinality(1 .. B) = B
    <3>1. 1 \in Int /\ B \in Int
      BY <2>1
    <3> HIDE DEF B
    <3>2. IsFiniteSet(1 .. B) /\ Cardinality(1 .. B) = IF 1 > B THEN 0 ELSE B - 1 + 1
      BY <3>1, FS_Interval
    <3> QED
      BY <2>1, <3>2
  <2> HIDE DEF f, W, B
  <2>8. IsFiniteSet(W \X (1 .. B)) /\ Cardinality(W \X (1 .. B)) = Cardinality(W) * B
    BY <2>4, <2>7, FS_Product
  <2>9. Cardinality(Copies(c, m, s)) <= Cardinality(W) * B
    BY <2>6, <2>8, FS_Injection
  <2> QED
    BY <2>9 DEF W, B, Wanted
<1> QED
  BY <1>1, TypeInvariant, DescentInvariant, CostInvariant, PTL
=============================================================================
