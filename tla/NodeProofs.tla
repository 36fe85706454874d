----------------------------- MODULE NodeProofs -----------------------------
(***************************************************************************)
(* What holds of a whole process, for every mode and setting, any number   *)
(* of requests, domains, visits and failures, and every queue, worker and  *)
(* connection limit.  The services keep their own invariants (modules      *)
(* DeceptionProofs and DecoyProofs, and the first section of this one for  *)
(* the certificate streamer); here they run beside each other, stop, crash *)
(* and start again.                                                        *)
(***************************************************************************)
EXTENDS Node, DeceptionProofs, DecoyProofs

-----------------------------------------------------------------------------
\* The certificate streamer.

\* The domains that came in are the first ones, and they are offered in their
\* order: what comes after an offered domain was not offered before it.
InOrder ==
    /\ \E n \in 0 .. MaxDomains : Domains \ At("unseen") = 1 .. n
    /\ \A d, e \in Domains : d < e /\ place[d] = "offered" => place[e] \in {"offered", "unseen"}

StreamerInv == StreamerTypeOK /\ InOrder

LEMMA StreamerBegins == StreamerInit => StreamerInv /\ DropsAreExcess
<1> SUFFICES ASSUME StreamerInit PROVE StreamerInv /\ DropsAreExcess
  OBVIOUS
<1> USE DEF StreamerInit
<1>1. StreamerTypeOK
  BY DEF StreamerTypeOK, Links, Names, Fates
<1>2. InOrder
  <2>1. Domains \ At("unseen") = 1 .. 0
    BY DEF At
  <2>2. 0 \in 0 .. MaxDomains
    BY StreamerAssumption
  <2> QED
    BY <2>1, <2>2 DEF InOrder
<1>3. DropsAreExcess
  BY DEF DropsAreExcess, At
<1> QED
  BY <1>1, <1>2, <1>3 DEF StreamerInv

\* The domains before a given one are finitely many.
LEMMA KeptFinite ==
    ASSUME NEW d \in Domains, NEW S \in SUBSET {e \in Domains : e < d}
    PROVE  IsFiniteSet(S) /\ Cardinality(S) \in Nat
<1>1. IsFiniteSet(Domains)
  BY StreamerAssumption, FS_Interval DEF Domains
<1> QED
  BY <1>1, FS_Subset, FS_CardinalityType

\* A domain of a certificate comes next.
LEMMA CertificateInOrder ==
    ASSUME StreamerInv, NEW c \in Certificates, Certificate(c)
    PROVE  StreamerInv'
<1> DEFINE arrived == Cardinality(Domains \ At("unseen"))
           new  == {d \in Domains : d - arrived \in DOMAIN c}
<1>1. c \in Seq(Names) /\ DOMAIN c = 1 .. Len(c) /\ Len(c) \in Nat
  BY StreamerAssumption
<1>2. PICK n \in 0 .. MaxDomains : Domains \ At("unseen") = 1 .. n
  BY DEF StreamerInv, InOrder
<1>3. n \in Nat /\ MaxDomains \in Nat /\ arrived = n
  <2>1. n \in Nat /\ MaxDomains \in Nat
    BY StreamerAssumption
  <2>2. Cardinality(1 .. n) = n
    BY <2>1, FS_Interval
  <2> QED
    BY <1>2, <2>1, <2>2
<1>4. new = {d \in Domains : n < d /\ d <= n + Len(c)}
  BY <1>1, <1>3 DEF Domains
<1>5. /\ place' = [d \in Domains |-> IF d \in new THEN "offered" ELSE place[d]]
      /\ name' = [d \in Domains |-> IF d \in new THEN c[d - arrived] ELSE name[d]]
      /\ link' \in Links
  BY Zenon DEF Certificate, Session, Links
<1>6. \A d \in Domains : (d <= n <=> place[d] # "unseen")
  BY <1>2, <1>3 DEF Domains, At
<1> HIDE DEF arrived, new
<1>7. StreamerTypeOK'
  <2>1. \A d \in new : c[d - arrived] \in Names
    BY <1>1, <1>3, <1>4 DEF Domains
  <2> QED
    BY <1>5, <2>1 DEF StreamerInv, StreamerTypeOK, Fates
<1>8. (\E k \in 0 .. MaxDomains : Domains \ At("unseen") = 1 .. k)'
  <2>1. CASE n + Len(c) <= MaxDomains
    <3>1. \A d \in Domains : place'[d] # "unseen" <=> d <= n + Len(c)
      BY <1>1, <1>3, <1>4, <1>5, <1>6 DEF Domains
    <3>2. (Domains \ At("unseen"))' = 1 .. (n + Len(c))
      BY <1>1, <1>3, <2>1, <3>1 DEF Domains, At
    <3> QED
      BY <1>1, <1>3, <2>1, <3>2
  <2>2. CASE ~(n + Len(c) <= MaxDomains)
    <3>1. \A d \in Domains : place'[d] # "unseen"
      BY <1>1, <1>3, <1>4, <1>5, <1>6, <2>2 DEF Domains
    <3>2. (Domains \ At("unseen"))' = 1 .. MaxDomains
      BY <3>1 DEF Domains, At
    <3> QED
      BY <1>3, <3>2
  <2> QED
    BY <2>1, <2>2
<1>9. (\A d, e \in Domains : d < e /\ place[d] = "offered" => place[e] \in {"offered", "unseen"})'
  <2> SUFFICES ASSUME NEW d \in Domains, NEW e \in Domains, d < e, place'[d] = "offered"
               PROVE  place'[e] \in {"offered", "unseen"}
    OBVIOUS
  <2>1. CASE d \in new
    BY <1>1, <1>3, <1>4, <1>5, <1>6, <2>1 DEF Domains
  <2>2. CASE d \notin new
    BY <1>5, <2>2 DEF StreamerInv, InOrder
  <2> QED
    BY <2>1, <2>2
<1> QED
  BY <1>7, <1>8, <1>9 DEF StreamerInv, InOrder

\* A domain that was offered, or came later, goes on.
LEMMA MoveInOrder ==
    ASSUME StreamerInv, NEW d \in Domains, NEW to \in Fates \ {"offered", "unseen"},
           place[d] # "unseen", place[d] = "offered" => IsHead(d, At("offered")),
           place' = [place EXCEPT ![d] = to], UNCHANGED <<link, name>>
    PROVE  StreamerInv'
<1>1. StreamerTypeOK'
  BY DEF StreamerInv, StreamerTypeOK
<1>2. At("unseen")' = At("unseen")
  BY DEF At, StreamerInv, StreamerTypeOK
<1>3. (\A e, f \in Domains : e < f /\ place[e] = "offered" => place[f] \in {"offered", "unseen"})'
  <2> SUFFICES ASSUME NEW e \in Domains, NEW f \in Domains, e < f, place'[e] = "offered"
               PROVE  place'[f] \in {"offered", "unseen"}
    OBVIOUS
  <2>1. place[e] = "offered" /\ e # d
    BY DEF StreamerInv, StreamerTypeOK
  <2>2. place[f] \in {"offered", "unseen"}
    BY <2>1 DEF StreamerInv, InOrder
  <2>3. f # d
    BY <2>1, <2>2 DEF IsHead, At, Domains
  <2> QED
    BY <2>2, <2>3
<1> QED
  BY <1>1, <1>2, <1>3 DEF StreamerInv, InOrder

\* Domains are dropped only by Offer, and nothing offers a domain twice: what
\* was kept before a dropped domain stays kept.
LEMMA StillExcess ==
    ASSUME StreamerInv, DropsAreExcess,
           \A d \in Domains : place'[d] = "dropped" => place[d] \in {"offered", "dropped"},
           \A d \in Domains : place'[d] = "dropped" /\ place[d] # "dropped" =>
               Cardinality({e \in Domains : e < d /\ place'[e] # "dropped"}) >= QueueSize
    PROVE  DropsAreExcess'
<1> SUFFICES ASSUME NEW d \in Domains, place'[d] = "dropped"
             PROVE  Cardinality({e \in Domains : e < d /\ place'[e] # "dropped"}) >= QueueSize
  BY DEF DropsAreExcess, At
<1>1. CASE place[d] # "dropped"
  BY <1>1
<1>2. CASE place[d] = "dropped"
  <2> DEFINE kept  == {e \in Domains : e < d /\ place[e] # "dropped"}
             still == {e \in Domains : e < d /\ place'[e] # "dropped"}
  <2>1. place[d] = "dropped"
    BY <1>2
  <2>2. Cardinality(kept) >= QueueSize
    BY <2>1 DEF DropsAreExcess, At
  <2>3. \A e \in Domains : e < d => place[e] \notin {"offered", "unseen"}
    <3> SUFFICES ASSUME NEW e \in Domains, e < d, place[e] \in {"offered", "unseen"} PROVE FALSE
      OBVIOUS
    <3>1. CASE place[e] = "offered"
      BY <2>1, <3>1 DEF StreamerInv, InOrder
    <3>2. CASE place[e] = "unseen"
      <4>1. PICK n \in 0 .. MaxDomains : Domains \ At("unseen") = 1 .. n
        BY DEF StreamerInv, InOrder
      <4>2. d <= n
        BY <2>1, <4>1 DEF At
      <4>3. e <= n
        BY <4>2 DEF Domains
      <4> QED
        BY <3>2, <4>1, <4>3 DEF At, Domains
    <3> QED
      BY <3>1, <3>2
  <2>4. kept \subseteq still
    BY <2>3
  <2>5. IsFiniteSet(still) /\ Cardinality(still) \in Nat /\ Cardinality(kept) \in Nat
    BY KeptFinite
  <2>6. Cardinality(kept) <= Cardinality(still)
    BY <2>4, <2>5, FS_Subset
  <2> QED
    BY <2>2, <2>5, <2>6, StreamerAssumption
<1> QED
  BY <1>1, <1>2

\* The queue is full of domains that came before the one that is dropped.
LEMMA OfferExcess ==
    ASSUME StreamerInv, DropsAreExcess, NEW d \in Domains, Offer(d)
    PROVE  StreamerInv' /\ DropsAreExcess'
<1> DEFINE to == IF Cardinality(At("queued")) < QueueSize THEN "queued" ELSE "dropped"
<1>1. /\ place[d] = "offered" /\ IsHead(d, At("offered"))
      /\ place' = [place EXCEPT ![d] = to] /\ UNCHANGED <<link, name>>
  BY DEF Offer, Goto
<1>2. to \in Fates \ {"offered", "unseen"} /\ place \in [Domains -> Fates]
  BY DEF Fates, StreamerInv, StreamerTypeOK
<1> HIDE DEF to
<1>3. StreamerInv'
  BY <1>1, <1>2, MoveInOrder
<1>4. ASSUME to = "dropped"
      PROVE  Cardinality({e \in Domains : e < d /\ place'[e] # "dropped"}) >= QueueSize
  <2> DEFINE still == {e \in Domains : e < d /\ place'[e] # "dropped"}
  <2>1. At("queued") \subseteq still
    <3> SUFFICES ASSUME NEW e \in Domains, place[e] = "queued" PROVE e < d /\ place'[e] # "dropped"
      BY DEF At
    <3>1. e # d /\ ~(d < e)
      BY <1>1 DEF StreamerInv, InOrder
    <3> QED
      BY <1>1, <1>2, <3>1 DEF Domains
  <2>2. /\ IsFiniteSet(still) /\ Cardinality(still) \in Nat
        /\ Cardinality(At("queued")) \in Nat /\ Cardinality(At("queued")) <= Cardinality(still)
    BY <2>1, KeptFinite, FS_Subset
  <2>3. Cardinality(At("queued")) >= QueueSize
    BY <1>4, <2>2, StreamerAssumption DEF to
  <2> QED
    BY <2>2, <2>3, StreamerAssumption
<1>5. DropsAreExcess'
  <2>1. \A e \in Domains : place'[e] = "dropped" /\ place[e] # "dropped" => e = d /\ to = "dropped"
    BY <1>1, <1>2
  <2> QED
    BY <1>1, <1>4, <2>1, StillExcess
<1> QED
  BY <1>3, <1>5

\* A step that offers nothing: domains leave the queue, a worker or the process.
LEMMA OtherStepsExcess ==
    ASSUME StreamerInv, DropsAreExcess,
           \/ Dial \/ Read \/ OtherMessage \/ SessionBreaks \/ LeaveLoop
           \/ \E d \in Domains : Take(d) \/ Assess(d) \/ PublishFails(d)
           \/ StreamerReturns \/ StreamerEnds \/ UNCHANGED streamerVars
    PROVE  StreamerInv' /\ DropsAreExcess'
<1>1. CASE Dial \/ Read \/ OtherMessage \/ SessionBreaks \/ LeaveLoop \/ UNCHANGED streamerVars
  <2>1. link' \in Links /\ UNCHANGED <<name, place>>
    BY <1>1 DEF Dial, Read, OtherMessage, SessionBreaks, LeaveLoop, Session, Links, streamerVars,
                StreamerInv, StreamerTypeOK
  <2> QED
    BY <2>1 DEF StreamerInv, StreamerTypeOK, InOrder, At, DropsAreExcess
<1>2. ASSUME NEW d \in Domains, Take(d) \/ Assess(d) \/ PublishFails(d)
      PROVE  StreamerInv' /\ DropsAreExcess'
  <2>1. PICK to \in {"held", "published", "clean", "failed"} :
            /\ place[d] \in {"queued", "held"}
            /\ place' = [place EXCEPT ![d] = to] /\ UNCHANGED <<link, name>>
    BY <1>2 DEF Take, Assess, PublishFails, Goto
  <2>2. to \in Fates \ {"offered", "unseen"} /\ place \in [Domains -> Fates]
    BY DEF Fates, StreamerInv, StreamerTypeOK
  <2>3. StreamerInv'
    BY <2>1, <2>2, MoveInOrder
  <2>4. \A e \in Domains : place'[e] = "dropped" => place[e] = "dropped"
    BY <2>1, <2>2
  <2> QED
    BY <2>3, <2>4, StillExcess
<1>3. CASE StreamerReturns \/ StreamerEnds
  <2>1. /\ place' \in [Domains -> Fates] /\ link' \in Links /\ UNCHANGED name
        /\ \A e \in Domains : place'[e] = place[e] \/ (place'[e] = "gone" /\ place[e] # "unseen")
    BY <1>3 DEF StreamerReturns, StreamerEnds, Fates, Links, StreamerInv, StreamerTypeOK
  <2>2. At("unseen")' = At("unseen")
    BY <2>1 DEF At
  <2>3. (\A d, e \in Domains : d < e /\ place[d] = "offered" => place[e] \in {"offered", "unseen"})'
    <3>1. CASE StreamerEnds
      BY <3>1 DEF StreamerEnds
    <3>2. CASE StreamerReturns
      <4> SUFFICES ASSUME NEW d \in Domains, NEW e \in Domains, d < e, place'[d] = "offered"
                   PROVE  place'[e] \in {"offered", "unseen"}
        OBVIOUS
      <4>1. place[d] = "offered"
        BY <2>1
      <4>2. place[e] \in {"offered", "unseen"}
        BY <4>1 DEF StreamerInv, InOrder
      <4> QED
        BY <3>2, <4>2 DEF StreamerReturns
    <3> QED
      BY <1>3, <3>1, <3>2
  <2>4. StreamerInv'
    BY <2>1, <2>2, <2>3 DEF StreamerInv, StreamerTypeOK, InOrder
  <2> QED
    BY <2>1, <2>4, StillExcess
<1> QED
  BY <1>1, <1>2, <1>3

\* No step of the streamer, or around it, drops a domain too early.
LEMMA StreamerPreserves ==
    ASSUME StreamerInv, DropsAreExcess,
           StreamerStep \/ StreamerReturns \/ StreamerEnds \/ UNCHANGED streamerVars
    PROVE  StreamerInv' /\ DropsAreExcess'
<1>1. ASSUME NEW c \in Certificates, Certificate(c)
      PROVE  StreamerInv' /\ DropsAreExcess'
  <2>1. StreamerInv'
    BY <1>1, CertificateInOrder
  <2>2. \A e \in Domains : place'[e] = "dropped" => place[e] = "dropped"
    BY <1>1 DEF Certificate
  <2> QED
    BY <2>1, <2>2, StillExcess
<1> QED
  BY <1>1, OfferExcess, OtherStepsExcess DEF StreamerStep

-----------------------------------------------------------------------------
\* The process.

\* Between two lives of the process no visit and no request is under way.
QuietWhenDown ==
    phase # "running" =>
        /\ \A v \in Visits : step[v] \in {"idle", "gone"}
        /\ \A r \in Requests : at[r] \in {"idle", "gone"}

NodeInv ==
    /\ ProcessTypeOK
    /\ DeceptionInv /\ LossKept /\ BansMeet
    /\ StreamerInv /\ DropsAreExcess
    /\ DecoyInv /\ GuessesRationed /\ LetInOrder
    /\ HitsKept /\ QuietWhenDown

-----------------------------------------------------------------------------
\* What comes in and what fails stays within its bounds.
LEMMA ServicesCount ==
    ASSUME ProcessTypeOK, DeceptionStep \/ StreamerStep \/ StreamerReturns \/ DecoyStep
    PROVE  /\ work' = work \/ Work
           /\ faults' \in 0 .. MaxFaults /\ faults' >= faults
<1> USE ProcessAssumption DEF ProcessTypeOK
<1>1. CASE UNCHANGED <<work, faults>>
  BY <1>1
<1>2. CASE (work' = work \/ Work) /\ (faults' = faults \/ Fault)
  BY <1>2 DEF Fault
<1>3. ASSUME NEW r \in Requests, Publish(r)
      PROVE  work' = work /\ faults' \in 0 .. MaxFaults /\ faults' >= faults
  <2>1. PICK lost \in SUBSET Due(r) :
            faults + Cardinality(lost) <= MaxFaults /\ faults' = faults + Cardinality(lost)
    BY <1>3 DEF Publish
  <2>2. IsFiniteSet({"attack", "honeypot", "disrupt"})
    <3>1. IsFiniteSet((({} \cup {"attack"}) \cup {"honeypot"}) \cup {"disrupt"})
      BY FS_EmptySet, FS_AddElement
    <3>2. (({} \cup {"attack"}) \cup {"honeypot"}) \cup {"disrupt"} = {"attack", "honeypot", "disrupt"}
      OBVIOUS
    <3> QED
      BY <3>1, <3>2
  <2>3. Cardinality(lost) \in Nat
    BY <2>1, <2>2, FS_Subset, FS_CardinalityType DEF Due
  <2> QED
    BY <1>3, <2>1, <2>3 DEF Publish
<1>4. CASE DeceptionStep
  <2>1. ASSUME NEW r \in Requests, Request(r) \/ GetSession(r) \/ LockSession(r) \/ Intercept(r)
                                   \/ NoteScanner(r) \/ Gate(r) \/ Record(r) \/ RecordFails(r) \/ Dispatch(r)
        PROVE  (work' = work \/ Work) /\ (faults' = faults \/ Fault)
    BY <2>1, Zenon DEF Request, GetSession, LockSession, Intercept, NoteScanner, Unlock, Gate, Record,
                       RecordFails, Dispatch
  <2>2. ASSUME NEW r \in Requests, NEW p \in Providers, BanSome(r, p)
        PROVE  (work' = work \/ Work) /\ (faults' = faults \/ Fault)
    BY <2>2, Zenon DEF BanSome, Post, BanFails, GetIPSet, UpdateIPSet, UpdateConflicts, Banning
  <2>3. ASSUME NEW a \in Addresses, BlockerUpdates(a)
        PROVE  (work' = work \/ Work) /\ (faults' = faults \/ Fault)
    BY <2>3, Zenon DEF BlockerUpdates
  <2> QED
    BY <1>2, <1>3, <1>4, <2>1, <2>2, <2>3 DEF DeceptionStep, Handle
<1>5. CASE StreamerStep \/ StreamerReturns
  <2>1. (work' = work \/ Work) /\ (faults' = faults \/ Fault)
    BY <1>5, Zenon DEF StreamerStep, StreamerReturns, Dial, Read, OtherMessage, SessionBreaks,
                       LeaveLoop, Certificate, Offer, Take, Assess, PublishFails
  <2> QED
    BY <1>2, <2>1
<1>6. CASE DecoyStep
  <2>1. (work' = work \/ Work) /\ (faults' = faults \/ Fault)
    BY <1>6, Zenon DEF DecoyStep, Serve, Arrive, TalkEnds, GreetingFails, Keep, KeepFails, Tell, TellFails,
                       Answer, Refuse, AttemptLogin, AttemptMFA, LetIn, Busy, Enter, Leave, LockRunsOut
  <2> QED
    BY <1>2, <2>1
<1> QED
  BY <1>4, <1>5, <1>6

LEMMA ProcessBegins == ProcessInit => ProcessTypeOK
<1> SUFFICES ASSUME ProcessInit PROVE ProcessTypeOK
  OBVIOUS
<1>1. mode \in Modes /\ settings \in Settings
  BY ProcessAssumption DEF ProcessInit
<1>2. MaxWork[mode] \in Nat
  BY <1>1, ProcessAssumption
<1>3. svc \in [Services -> {"off", "up", "closing", "returned"}]
  BY DEF ProcessInit
<1>4. dry \in BOOLEAN /\ wired \in BOOLEAN /\ bus \in BOOLEAN /\ done \in BOOLEAN /\ broken \in BOOLEAN
  BY Zenon DEF ProcessInit
<1> QED
  BY <1>1, <1>2, <1>3, <1>4, ProcessAssumption DEF ProcessInit, ProcessTypeOK

\* main's own steps.
LEMMA ProcessKeepsTypes ==
    ASSUME ProcessTypeOK,
           \/ \E b \in BOOLEAN : Boot(b)
           \/ BootFails \/ Signal \/ Restart \/ Exit \/ Crash
           \/ \E s \in Services : ServiceFails(s)
           \/ \E s \in Servers : Winding(s)
    PROVE  ProcessTypeOK' /\ faults' >= faults
<1> USE ProcessAssumption DEF ProcessTypeOK
<1>1. ASSUME NEW b \in BOOLEAN, Boot(b) PROVE ProcessTypeOK' /\ faults' >= faults
  <2>1. Live(settings) \in BOOLEAN /\ LocalFirewall(settings) \in BOOLEAN
    BY DEF Live, LiveAsked, LocalFirewall, Settings
  <2>2. Wired(settings, mode) \in BOOLEAN
    BY <2>1 DEF Wired
  <2> QED
    BY <1>1, <2>1, <2>2 DEF Boot
<1>2. CASE BootFails \/ Crash
  BY <1>2 DEF BootFails, Crash, Fault
<1>3. CASE Signal \/ \E s \in Services : ServiceFails(s)
  <2>1. Dismissed \in [Services -> {"off", "up", "closing", "returned"}]
    BY DEF Dismissed
  <2>2. CASE Signal
    BY <2>1, <2>2 DEF Signal
  <2>3. ASSUME NEW s \in Services, ServiceFails(s) PROVE ProcessTypeOK' /\ faults' >= faults
    <3>1. svc' \in [Services -> {"off", "up", "closing", "returned"}]
      BY <2>1, <2>3 DEF ServiceFails
    <3> QED
      BY <2>3, <3>1 DEF ServiceFails, Fault
  <2> QED
    BY <1>3, <2>2, <2>3
<1>4. CASE Restart \/ Exit
  <2>1. CASE Restart
    <3>1. svc' \in [Services -> {"off", "up", "closing", "returned"}]
      BY <2>1 DEF Restart
    <3>2. dry' \in BOOLEAN /\ wired' \in BOOLEAN /\ bus' \in BOOLEAN /\ done' \in BOOLEAN /\ broken' \in BOOLEAN
      BY <2>1, Zenon DEF Restart
    <3> QED
      BY <2>1, <3>1, <3>2 DEF Restart
  <2>2. CASE Exit
    BY <2>2 DEF Exit
  <2> QED
    BY <1>4, <2>1, <2>2
<1>5. CASE \E s \in Servers : Winding(s)
  BY <1>5 DEF Winding, CloseListener, ServerReturns
<1> QED
  BY <1>1, <1>2, <1>3, <1>4, <1>5

\* A service's own steps.
LEMMA ServicesKeepTypes ==
    ASSUME ProcessTypeOK,
           \/ (DeceptionStep \/ StreamerStep \/ DecoyStep) /\ UNCHANGED procVars
           \/ StreamerReturns
    PROVE  ProcessTypeOK' /\ faults' >= faults
<1>1. (work' = work \/ Work) /\ faults' \in 0 .. MaxFaults /\ faults' >= faults
  BY ServicesCount
<1>2. mode' = mode
  BY DEF procVars, StreamerReturns
<1>3. work' \in 0 .. MaxWork[mode']
  BY <1>1, <1>2, ProcessAssumption DEF Work, ProcessTypeOK
<1> QED
  BY <1>1, <1>3 DEF ProcessTypeOK, procVars, StreamerReturns

-----------------------------------------------------------------------------
LEMMA NodeBegins == Init => NodeInv
<1> SUFFICES ASSUME Init PROVE NodeInv
  OBVIOUS
<1>1. faults = 0
  BY DEF Init, ProcessInit
<1>2. QuietWhenDown
  BY DEF Init, DecoyInit, DeceptionInit, QuietWhenDown
<1> QED
  BY <1>1, <1>2, ProcessBegins, DeceptionBegins, LossKeptBegins, BansMeetBegins, StreamerBegins,
     DecoyBegins, LetInOrderBegins, HitsKeptBegins DEF Init, NodeInv

\* How a step of the node looks to each of its parts.
LEMMA NodeSteps ==
    ASSUME [Next]_vars
    PROVE  /\ DeceptionStep \/ DeceptionEnds \/ UNCHANGED deceptionVars
           /\ StreamerStep \/ StreamerReturns \/ StreamerEnds \/ UNCHANGED streamerVars
           /\ DecoyStep \/ DecoyEnds \/ UNCHANGED decoyVars
<1>1. CASE UNCHANGED vars
  BY <1>1 DEF vars, serviceVars
<1> QED
  BY <1>1 DEF Next, Lives, Deceives, Streams, Decoys, StreamerStops, Ends, Gone, serviceVars

LEMMA NodePreserves == NodeInv /\ [Next]_vars => NodeInv'
<1> SUFFICES ASSUME NodeInv, [Next]_vars PROVE NodeInv'
  OBVIOUS
<1> USE DEF NodeInv
<1>1. ProcessTypeOK' /\ faults' >= faults
  <2>1. CASE UNCHANGED vars
    BY <2>1, ProcessAssumption DEF vars, procVars, ProcessTypeOK
  <2> QED
    BY <2>1, ProcessKeepsTypes, ServicesKeepTypes
       DEF Next, Lives, Deceives, Streams, StreamerStops, Decoys, Ends
<1>2. DeceptionInv'
  BY NodeSteps, DeceptionPreserves DEF ProcessTypeOK
<1>3. StreamerInv' /\ DropsAreExcess'
  BY NodeSteps, StreamerPreserves
<1>4. DecoyInv' /\ GuessesRationed'
  BY NodeSteps, DecoyPreserves
<1>5. QuietWhenDown'
  <2>1. CASE Gone
    BY <2>1 DEF Gone, DecoyEnds, DeceptionEnds, QuietWhenDown
  <2>2. CASE UNCHANGED <<at, step>> /\ (phase' # "running" => phase # "running")
    BY <2>2 DEF QuietWhenDown
  <2>3. CASE phase = "running" /\ phase' = phase
    BY <2>3 DEF QuietWhenDown
  <2>4. CASE Lives \/ Streams \/ StreamerStops \/ UNCHANGED vars
    <3>1. UNCHANGED <<at, step>>
      BY <2>4 DEF Lives, Streams, StreamerStops, vars, serviceVars, deceptionVars, decoyVars
    <3>2. phase' # "running" => phase # "running"
      BY <2>4 DEF Lives, Boot, BootFails, Signal, Restart, ServiceFails, Winding, CloseListener,
                  ServerReturns, Streams, StreamerStops, StreamerReturns, vars, procVars
    <3> QED
      BY <2>2, <3>1, <3>2
  <2>5. CASE Decoys
    <3>1. phase' = phase /\ UNCHANGED deceptionVars /\ DecoyStep
      BY <2>5 DEF Decoys, procVars
    <3>2. phase = "running"
      BY <3>1 DEF DecoyStep, Serve, Arrive, TalkEnds, GreetingFails, Keep, KeepFails, Tell, TellFails,
                  Answer, Refuse, AttemptLogin, AttemptMFA, LetIn, Busy, Enter, Leave, LockRunsOut,
                  Walk, Working
    <3> QED
      BY <2>3, <3>1, <3>2
  <2>6. CASE Deceives
    <3>1. phase' = phase /\ UNCHANGED step /\ DeceptionStep
      BY <2>6 DEF Deceives, procVars, decoyVars
    <3>2. CASE \E a \in Addresses : BlockerUpdates(a)
      BY <2>2, <3>1, <3>2 DEF BlockerUpdates
    <3>3. phase = "running" \/ \E a \in Addresses : BlockerUpdates(a)
      BY <3>1 DEF DeceptionStep, Handle, Request, GetSession, LockSession, Intercept, NoteScanner, Gate,
                  Record, RecordFails, Publish, Dispatch, Step, Working, BanSome, Post, BanFails,
                  GetIPSet, UpdateIPSet, UpdateConflicts, Banning
    <3> QED
      BY <2>3, <3>1, <3>2, <3>3
  <2> QED
    BY <2>1, <2>4, <2>5, <2>6 DEF Next, Ends
\* How a change of the settings in force looks to the services.
<1>6. /\ \/ DecoyStep /\ bus' = bus
         \/ DecoyEnds
         \/ UNCHANGED decoyVars /\ (bus' = bus \/ \A v \in Visits : step[v] \in {"idle", "gone"})
      /\ \/ DeceptionStep /\ UNCHANGED <<bus, dry>>
         \/ DeceptionEnds
         \/ /\ UNCHANGED deceptionVars
            /\ UNCHANGED <<bus, dry>> \/ \A r \in Requests : at[r] \in {"idle", "gone"}
  <2>1. CASE Lives
    BY <2>1 DEF Lives, serviceVars, Boot, BootFails, Signal, Restart, ServiceFails, Winding,
                CloseListener, ServerReturns, QuietWhenDown
  <2>2. CASE Deceives \/ Streams \/ Decoys \/ StreamerStops \/ UNCHANGED vars
    BY <2>2 DEF Deceives, Streams, Decoys, StreamerStops, StreamerReturns, vars, procVars, serviceVars
  <2> QED
    BY <2>1, <2>2 DEF Next, Ends, Gone
<1>7. faults \in Nat /\ faults' \in Nat
  BY <1>1, ProcessAssumption DEF ProcessTypeOK
<1>8. HitsKept'
  <2>1. DecoyTypeOK
    BY DEF DecoyInv
  <2> QED
    BY <1>1, <1>6, <1>7, <2>1, HitsKeptPreserves
<1>9. LossKept'
  BY <1>1, <1>6, <1>7, LossKeptPreserves
<1>10. BansMeet'
  BY NodeSteps, BansMeetPreserves
<1>11. LetInOrder'
  BY NodeSteps, LetInOrderPreserves
<1> QED
  BY <1>1, <1>2, <1>3, <1>4, <1>5, <1>8, <1>9, <1>10, <1>11

\* The inductive invariant: what the services keep, and what joins them.
THEOREM NodeInvariant == Spec => []NodeInv
<1> QED
  BY NodeBegins, NodePreserves, PTL DEF Spec

-----------------------------------------------------------------------------
\* Every variable stays in its type, for every mode and setting.
THEOREM TypesHold == Spec => []TypeOK
<1>1. NodeInv => TypeOK
  BY DEF NodeInv, DeceptionInv, StreamerInv, DecoyInv, TypeOK
<1> QED
  BY <1>1, NodeInvariant, PTL

\* Back pressure costs the tail of a burst of certificates and never its head,
\* for every queue and every number of workers.
THEOREM DropsExcess == Spec => []DropsAreExcess
<1>1. NodeInv => DropsAreExcess
  BY DEF NodeInv
<1> QED
  BY <1>1, NodeInvariant, PTL

\* However many visitors guess at once, and however often a lock runs out, no
\* count is given twice, and only 4 plain guesses and 2 injections go unlocked.
THEOREM GuessesLimited == Spec => []GuessesRationed
<1>1. NodeInv => GuessesRationed
  BY DEF NodeInv
<1> QED
  BY <1>1, NodeInvariant, PTL

\* More connections than MaxConns are in the tarpit only if they were let in
\* together, however connections come and go.
THEOREM TarpitIsSound == Spec => []TarpitSound
<1>1. NodeInv => TarpitSound
  BY LetInOrderEnough DEF NodeInv
<1> QED
  BY <1>1, NodeInvariant, PTL

\* Every visit that was served is in the ledger, if it names an address, and on the
\* bus, but for one of the two per failure, and went to the policy engine unless its
\* address is empty, however visits, crashes and restarts interleave.
THEOREM HitsRecorded == Spec => []HitsOnRecord
<1>1. NodeInv => HitsOnRecord
  BY HitsKeptEnough DEF NodeInv
<1> QED
  BY <1>1, NodeInvariant, PTL

\* The score of a session is the sum of what its address was caught at: no two
\* requests share an increment or make two sessions for one address.
THEOREM ScoresExact == Spec => []ScoreExact
<1>1. NodeInv => ScoreExact
  BY ScoresAddExact DEF NodeInv, DeceptionInv
<1> QED
  BY <1>1, NodeInvariant, PTL

\* The upstream never sees a request that came in after its peer had been caught
\* at DecoyThreshold or more, unless the peer's headers are trusted.
THEOREM GateIsSound == Spec => []GateHolds
<1>1. NodeInv => GateHolds
  BY DEF NodeInv, DeceptionInv, Warnings
<1> QED
  BY <1>1, NodeInvariant, PTL

\* A report or a ban is lost only with a failure, in whatever order handlers,
\* providers, crashes and restarts come; a conflict over the AWS list costs a ban
\* only when another request's, or the edge Blocker's, got in.
THEOREM LossesExplained == Spec => []LossExplained
<1>1. NodeInv => LossExplained
  <2> SUFFICES ASSUME NodeInv PROVE LossExplained
    OBVIOUS
  <2>1. faults \in Nat
    BY ProcessAssumption DEF NodeInv, ProcessTypeOK
  <2> QED
    BY <2>1, LossKeptEnough DEF NodeInv
<1> QED
  BY <1>1, NodeInvariant, PTL

\* What was banned stays banned, by the engine or by the edge Blocker, although
\* every update of the AWS list replaces it as a whole.
THEOREM BansLast == Spec => []BansStay
<1>1. NodeInv => BansStay
  BY DEF NodeInv, DeceptionInv, BansKept
<1> QED
  BY <1>1, NodeInvariant, PTL
=============================================================================
