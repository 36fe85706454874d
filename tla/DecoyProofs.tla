----------------------------- MODULE DecoyProofs -----------------------------
(***************************************************************************)
(* What holds of the honeypot's steps, for every number of visits and      *)
(* visitors.  Module NodeProofs puts the lemmas together with those of the *)
(* other services.                                                         *)
(***************************************************************************)
EXTENDS Decoy, FiniteSetTheorems, WellFoundedInduction, TLAPS

\* A count was given to a guess that is over, and lies below the counter.
TurnsGiven ==
    \A v \in Visits : turn[v] > 0 =>
        step[v] = "over" /\ call[v].kind \in Guesses /\ turn[v] <= fails[Key(v)]

DecoyInv == DecoyTypeOK /\ active = Cardinality(Inside) /\ TurnsGiven

LEMMA VisitsFinite ==
    ASSUME NEW S \in SUBSET Visits
    PROVE  IsFiniteSet(S) /\ Cardinality(S) \in Nat
<1>1. IsFiniteSet(Visits)
  BY DecoyAssumption, FS_Interval DEF Visits
<1> QED
  BY <1>1, FS_Subset, FS_CardinalityType

LEMMA NoCallType == NoCall \in Call
<1>1. (CHOOSE a \in Visitors : TRUE) \in Visitors
  BY DecoyAssumption
<1> QED
  BY <1>1 DEF NoCall, Call, Kinds, Forms

LEMMA DecoyBegins == DecoyInit => DecoyInv /\ GuessesRationed
<1> SUFFICES ASSUME DecoyInit PROVE DecoyInv /\ GuessesRationed
  OBVIOUS
<1> USE DEF DecoyInit
<1>1. DecoyTypeOK
  BY NoCallType DEF DecoyTypeOK, HandlerPlaces, Verdicts
<1>2. Inside = {}
  BY DEF Inside
<1>3. active = Cardinality(Inside)
  BY <1>2, FS_EmptySet
<1> QED
  BY <1>1, <1>3 DEF DecoyInv, TurnsGiven, GuessesRationed

-----------------------------------------------------------------------------
\* The tarpit's count: Enter and Leave are the steps that change who is inside.
LEMMA InsideCounted ==
    ASSUME DecoyInv, NEW v \in Visits, NEW to \in HandlerPlaces, step' = [step EXCEPT ![v] = to],
           active' = active + (IF to = "inside" THEN 1 ELSE 0) - (IF step[v] = "inside" THEN 1 ELSE 0),
           ~(to = "inside" /\ step[v] = "inside")
    PROVE  active' \in Nat /\ active' = Cardinality(Inside')
<1>1. /\ IsFiniteSet(Inside) /\ Cardinality(Inside) \in Nat /\ active = Cardinality(Inside)
      /\ step \in [Visits -> HandlerPlaces]
  BY VisitsFinite DEF DecoyInv, DecoyTypeOK, Inside
<1>2. CASE to = "inside"
  <2>1. Inside' = Inside \cup {v} /\ v \notin Inside /\ step[v] # "inside"
    BY <1>1, <1>2 DEF Inside
  <2>2. Cardinality(Inside') = Cardinality(Inside) + 1
    BY <1>1, <2>1, FS_AddElement
  <2> QED
    BY <1>1, <1>2, <2>1, <2>2
<1>3. CASE step[v] = "inside"
  <2>1. Inside' = Inside \ {v} /\ v \in Inside
    BY <1>1, <1>3 DEF Inside
  <2>2. Cardinality(Inside') = Cardinality(Inside) - 1
    BY <1>1, <2>1, FS_RemoveElement
  <2>3. Cardinality(Inside') \in Nat
    BY VisitsFinite DEF Inside
  <2> QED
    BY <1>1, <1>3, <2>2, <2>3
<1>4. CASE to # "inside" /\ step[v] # "inside"
  <2>1. Inside' = Inside
    BY <1>1, <1>4 DEF Inside
  <2> QED
    BY <1>1, <1>4, <2>1
<1> QED
  BY <1>2, <1>3, <1>4

\* What a handler step that is no guess at a login does to the counters: nothing.
Aside(v, to) ==
    /\ step[v] # "over" /\ to \in HandlerPlaces
    /\ step' = [step EXCEPT ![v] = to]
    /\ UNCHANGED <<fails, turn>>
    /\ \/ call' = call
       \/ step[v] = "idle" /\ \E c \in Call : call' = [call EXCEPT ![v] = c]
    /\ verdict' = verdict \/ \E out \in Verdicts : verdict' = [verdict EXCEPT ![v] = out]

LEMMA AsidePreserves ==
    ASSUME DecoyInv, GuessesRationed, NEW v \in Visits, NEW to, Aside(v, to)
    PROVE  TurnsGiven' /\ GuessesRationed'
<1>1. \A u \in Visits : turn'[u] > 0 =>
          /\ u # v /\ turn[u] > 0
          /\ step'[u] = step[u] /\ call'[u] = call[u] /\ verdict'[u] = verdict[u] /\ turn'[u] = turn[u]
  BY DEF Aside, DecoyInv, TurnsGiven, DecoyTypeOK
<1>2. TurnsGiven'
  BY <1>1 DEF TurnsGiven, DecoyInv, Key, Aside
<1>3. \A u \in Visits : turn[u] \in Nat
  BY DEF DecoyInv, DecoyTypeOK
<1>4. GuessesRationed'
  <2> SUFFICES ASSUME NEW u \in Visits, turn'[u] > 0
               PROVE  (/\ \A w \in Visits \ {u} : turn[w] = turn[u] => Key(w) # Key(u)
                       /\ verdict[u] # "locked" =>
                              /\ call[u].kind = "plain" => turn[u] <= 4
                              /\ call[u].kind = "sqli" => turn[u] <= 2)'
    BY DEF GuessesRationed
  <2>1. ASSUME NEW w \in Visits \ {u}, turn'[w] = turn'[u] PROVE (Key(w) # Key(u))'
    <3>1. turn'[w] > 0
      BY <2>1
    <3> QED
      BY <1>1, <2>1, <3>1 DEF GuessesRationed, Key
  <2> QED
    BY <1>1, <2>1 DEF GuessesRationed
<1> QED
  BY <1>2, <1>4

\* A guess that is counted gets a count that no other guess at its form has.
LEMMA GuessPreserves ==
    ASSUME DecoyInv, GuessesRationed, NEW v \in Visits, AttemptLogin(v)
    PROVE  TurnsGiven' /\ GuessesRationed'
<1> DEFINE n   == fails[Key(v)] + 1
           out == Verdict(call[v].kind, n)
<1>1. /\ step \in [Visits -> HandlerPlaces] /\ call \in [Visits -> Call]
      /\ fails \in [Keys -> Nat] /\ turn \in [Visits -> Nat] /\ verdict \in [Visits -> Verdicts]
  BY DEF DecoyInv, DecoyTypeOK
<1>2. \A u \in Visits : Key(u) \in Keys
  BY <1>1 DEF Key, Keys, Call
<1>3. n \in Nat /\ n > 0 /\ \A u \in Visits : fails[Key(u)] \in Nat
  BY <1>1, <1>2
<1>4. /\ call' = call /\ call[v].kind \in Guesses
      /\ step[v] = "answer" /\ step' = [step EXCEPT ![v] = "over"]
      /\ fails' = [fails EXCEPT ![Key(v)] = n]
      /\ turn' = [turn EXCEPT ![v] = n]
      /\ verdict' = [verdict EXCEPT ![v] = out]
  BY Zenon DEF AttemptLogin, Walk
<1>5. out # "locked" => (call[v].kind = "plain" => n <= 4) /\ (call[v].kind = "sqli" => n <= 2)
  BY <1>3 DEF Verdict
<1> HIDE DEF n, out
<1>6. \A u \in Visits : Key(u)' = Key(u)
  BY <1>4 DEF Key
<1>7. n = fails[Key(v)] + 1
  BY DEF n
<1>8. \A u \in Visits : fails'[Key(u)] >= fails[Key(u)] /\ fails'[Key(u)] \in Nat
  BY <1>1, <1>2, <1>3, <1>4, <1>7
<1>9. turn'[v] = n /\ verdict'[v] = out /\ step'[v] = "over" /\ fails'[Key(v)] = n
  BY <1>1, <1>2, <1>4
<1>10. \A u \in Visits \ {v} : turn'[u] = turn[u] /\ step'[u] = step[u] /\ verdict'[u] = verdict[u]
  BY <1>1, <1>4
<1>11. \A u \in Visits \ {v} : turn[u] > 0 /\ Key(u) = Key(v) => turn[u] < n
  BY <1>1, <1>3, <1>7 DEF DecoyInv, TurnsGiven
<1>12. TurnsGiven'
  <2> SUFFICES ASSUME NEW u \in Visits, turn'[u] > 0
               PROVE  step'[u] = "over" /\ call'[u].kind \in Guesses /\ turn'[u] <= fails'[Key(u)']
    BY DEF TurnsGiven
  <2>1. CASE u = v
    BY <1>3, <1>4, <1>6, <1>9, <2>1
  <2>2. CASE u # v
    <3>1. step[u] = "over" /\ call[u].kind \in Guesses /\ turn[u] <= fails[Key(u)]
      BY <1>10, <2>2 DEF DecoyInv, TurnsGiven
    <3> QED
      BY <1>1, <1>3, <1>4, <1>6, <1>8, <1>10, <2>2, <3>1
  <2> QED
    BY <2>1, <2>2
<1>13. GuessesRationed'
  <2> SUFFICES ASSUME NEW u \in Visits, turn'[u] > 0
               PROVE  (/\ \A w \in Visits \ {u} : turn[w] = turn[u] => Key(w) # Key(u)
                       /\ verdict[u] # "locked" =>
                              /\ call[u].kind = "plain" => turn[u] <= 4
                              /\ call[u].kind = "sqli" => turn[u] <= 2)'
    BY DEF GuessesRationed
  <2>1. CASE u = v
    <3>1. ASSUME NEW w \in Visits \ {u}, turn'[w] = turn'[u] PROVE Key(w)' # Key(u)'
      BY <1>3, <1>6, <1>9, <1>10, <1>11, <2>1, <3>1
    <3> QED
      BY <1>4, <1>5, <1>9, <2>1, <3>1
  <2>2. CASE u # v
    <3>1. turn[u] > 0
      BY <1>10, <2>2
    <3>2. ASSUME NEW w \in Visits \ {u}, turn'[w] = turn'[u] PROVE Key(w)' # Key(u)'
      <4>1. CASE w = v
        BY <1>3, <1>6, <1>9, <1>10, <1>11, <2>2, <3>1, <3>2, <4>1
      <4>2. CASE w # v
        BY <1>6, <1>10, <2>2, <3>1, <3>2, <4>2 DEF GuessesRationed
      <4> QED
        BY <4>1, <4>2
    <3> QED
      BY <1>4, <1>10, <2>2, <3>1, <3>2 DEF GuessesRationed
  <2> QED
    BY <2>1, <2>2
<1> QED
  BY <1>12, <1>13

-----------------------------------------------------------------------------
\* A visit's step goes to one place, counts who is inside, and is aside from the
\* login forms unless it is a guess.
LEMMA VisitSteps ==
    ASSUME ProcessTypeOK, DecoyTypeOK, NEW v \in Visits, Arrive(v) \/ Serve(v)
    PROVE  \E to \in HandlerPlaces :
               /\ step' = [step EXCEPT ![v] = to]
               /\ active' = active + (IF to = "inside" THEN 1 ELSE 0) - (IF step[v] = "inside" THEN 1 ELSE 0)
               /\ ~(to = "inside" /\ step[v] = "inside")
               /\ Aside(v, to) \/ AttemptLogin(v)
<1> DEFINE Goal == \E to \in HandlerPlaces :
               /\ step' = [step EXCEPT ![v] = to]
               /\ active' = active + (IF to = "inside" THEN 1 ELSE 0) - (IF step[v] = "inside" THEN 1 ELSE 0)
               /\ ~(to = "inside" /\ step[v] = "inside")
               /\ Aside(v, to) \/ AttemptLogin(v)
<1>1. active \in Nat /\ active + 0 - 0 = active
  BY DEF DecoyTypeOK
<1>2. CASE Arrive(v)
  <2>1. PICK c \in Call : call' = [call EXCEPT ![v] = c]
                          /\ Walk(v, "idle", IF c.kind \in Dialogues THEN "talk" ELSE "record")
    BY <1>2, DecoyAssumption DEF Arrive, ProcessTypeOK
  <2> QED
    BY <1>1, <1>2, <2>1 DEF Arrive, Walk, Aside, HandlerPlaces, loginVars, tarpitVars
<1>3. CASE TalkEnds(v) \/ GreetingFails(v) \/ Keep(v) \/ KeepFails(v) \/ Tell(v) \/ TellFails(v) \/ Answer(v)
  <2>1. PICK from \in {"talk", "record", "publish", "answer"}, to \in {"record", "left", "publish", "answer", "over"} :
            Walk(v, from, to) /\ UNCHANGED <<call, loginVars, tarpitVars>>
    BY <1>3, Zenon DEF TalkEnds, GreetingFails, Keep, KeepFails, Tell, TellFails, Answer
  <2>2. /\ step[v] # "over" /\ step' = [step EXCEPT ![v] = to] /\ to # "inside" /\ step[v] # "inside"
        /\ UNCHANGED <<call, fails, turn, verdict>>
    BY <2>1 DEF Walk, loginVars
  <2>3. active' = active /\ to \in HandlerPlaces
    BY <2>1 DEF tarpitVars, HandlerPlaces
  <2>4. Aside(v, to)
    BY <2>2, <2>3 DEF Aside
  <2> QED
    BY <1>1, <2>2, <2>3, <2>4
<1>4. CASE Refuse(v) \/ AttemptMFA(v)
  <2>1. \E out \in Verdicts : verdict' = [verdict EXCEPT ![v] = out]
    BY <1>4 DEF Refuse, AttemptMFA, Verdicts
  <2>2. Walk(v, "answer", "over") /\ UNCHANGED <<call, fails, turn, tarpitVars>>
    BY <1>4 DEF Refuse, AttemptMFA
  <2>3. Aside(v, "over")
    <3>1. step[v] # "over" /\ "over" \in HandlerPlaces /\ step' = [step EXCEPT ![v] = "over"]
      BY <2>2 DEF Walk, HandlerPlaces
    <3> QED
      BY <2>1, <2>2, <3>1 DEF Aside
  <2>4. step' = [step EXCEPT ![v] = "over"] /\ step[v] # "inside" /\ active' = active
    BY <2>2 DEF Walk, tarpitVars
  <2>5. "over" \in HandlerPlaces
    BY DEF HandlerPlaces
  <2> QED
    BY <1>1, <2>3, <2>4, <2>5
<1>5. CASE AttemptLogin(v)
  <2>1. Walk(v, "answer", "over") /\ active' = active
    BY <1>5 DEF AttemptLogin, tarpitVars
  <2> QED
    BY <1>1, <1>5, <2>1 DEF Walk, HandlerPlaces
<1>6. CASE LetIn(v) \/ Busy(v) \/ Enter(v) \/ Leave(v)
  <2>1. PICK from \in {"answer", "enter", "inside"}, to \in {"enter", "over", "inside"} :
            /\ Walk(v, from, to) /\ UNCHANGED <<call, loginVars>>
            /\ active' = active + (IF to = "inside" THEN 1 ELSE 0) - (IF from = "inside" THEN 1 ELSE 0)
            /\ ~(to = "inside" /\ from = "inside")
    <3>1. CASE LetIn(v)
      <4>1. Walk(v, "answer", "enter") /\ UNCHANGED <<call, loginVars, active>>
        BY <3>1 DEF LetIn
      <4> QED
        BY <1>1, <4>1
    <3>2. CASE Busy(v)
      <4>1. Walk(v, "answer", "over") /\ UNCHANGED <<call, loginVars, active>>
        BY <3>2 DEF Busy, tarpitVars
      <4> QED
        BY <1>1, <4>1
    <3>3. CASE Enter(v)
      <4>1. Walk(v, "enter", "inside") /\ UNCHANGED <<call, loginVars>> /\ active' = active + 1
        BY <3>3 DEF Enter
      <4> QED
        BY <1>1, <4>1
    <3>4. CASE Leave(v)
      <4>1. Walk(v, "inside", "over") /\ UNCHANGED <<call, loginVars>> /\ active' = active - 1
        BY <3>4 DEF Leave
      <4> QED
        BY <1>1, <4>1
    <3> QED
      BY <1>6, <3>1, <3>2, <3>3, <3>4
  <2>2. /\ step[v] # "over" /\ step' = [step EXCEPT ![v] = to] /\ step[v] = from
        /\ UNCHANGED <<call, fails, turn, verdict>>
    BY <2>1 DEF Walk, loginVars
  <2>3. to \in HandlerPlaces
    BY DEF HandlerPlaces
  <2>4. Aside(v, to)
    BY <2>2, <2>3 DEF Aside
  <2> QED
    BY <2>1, <2>2, <2>3, <2>4
<1> QED
  BY <1>2, <1>3, <1>4, <1>5, <1>6 DEF Serve

LEMMA VisitTypes ==
    ASSUME ProcessTypeOK, DecoyTypeOK, active' \in Nat, NEW v \in Visits, Arrive(v) \/ Serve(v)
    PROVE  DecoyTypeOK'
<1> USE DEF DecoyTypeOK
<1>1. PICK to \in HandlerPlaces : step' = [step EXCEPT ![v] = to]
  BY VisitSteps
<1>2. step' \in [Visits -> HandlerPlaces]
  BY <1>1
<1>3. Key(v) \in Keys
  BY DEF Key, Keys, Call
<1>4. Entering \subseteq Visits
  BY DEF Entering
<1>5. /\ call' \in [Visits -> Call]
      /\ caught' \subseteq Visits /\ told' \subseteq Visits /\ judged' \subseteq Visits
  <2>1. CASE Arrive(v)
    <3>1. PICK c \in Call : call' = [call EXCEPT ![v] = c]
      BY <2>1, DecoyAssumption DEF Arrive, ProcessTypeOK
    <3> QED
      BY <2>1, <3>1 DEF Arrive, hitVars
  <2>2. CASE Serve(v)
    <3>1. CASE Keep(v) \/ Tell(v) \/ TellFails(v)
      BY <3>1 DEF Keep, Tell, TellFails, MaybeBlock
    <3>2. UNCHANGED <<call, hitVars>> \/ Keep(v) \/ Tell(v) \/ TellFails(v)
      BY <2>2, Zenon DEF Serve, TalkEnds, GreetingFails, KeepFails, Answer, Refuse,
                         AttemptLogin, AttemptMFA, LetIn, Busy, Enter, Leave
    <3> QED
      BY <3>1, <3>2 DEF hitVars
  <2> QED
    BY <2>1, <2>2
<1>6. /\ fails' \in [Keys -> Nat] /\ locked' \subseteq Keys /\ pending' \subseteq Keys
      /\ turn' \in [Visits -> Nat] /\ verdict' \in [Visits -> Verdicts]
  <2>1. CASE AttemptLogin(v)
    <3> DEFINE n   == fails[Key(v)] + 1
               out == Verdict(call[v].kind, n)
    <3>1. n \in Nat /\ out \in Verdicts
      BY <1>3 DEF Verdict, Verdicts
    <3>2. /\ fails' = [fails EXCEPT ![Key(v)] = n]
          /\ turn' = [turn EXCEPT ![v] = n]
          /\ verdict' = [verdict EXCEPT ![v] = out]
          /\ locked' = IF out = "locked" THEN locked \cup {Key(v)} ELSE locked
          /\ pending' = IF out = "mfa" THEN pending \cup {Key(v)} ELSE pending
      BY <2>1, Zenon DEF AttemptLogin
    <3> HIDE DEF n, out
    <3> QED
      BY <1>3, <3>1, <3>2
  <2>2. CASE Refuse(v) \/ AttemptMFA(v)
    <3>1. \E out \in Verdicts : verdict' = [verdict EXCEPT ![v] = out]
      BY <2>2 DEF Refuse, AttemptMFA, Verdicts
    <3> QED
      BY <2>2, <3>1 DEF Refuse, AttemptMFA
  <2>3. CASE UNCHANGED loginVars
    BY <2>3 DEF loginVars
  <2> QED
    BY <2>1, <2>2, <2>3, Zenon
       DEF Arrive, Serve, TalkEnds, GreetingFails, Keep, KeepFails, Tell, TellFails, Answer,
           LetIn, Busy, Enter, Leave
<1>7. gap' \in [Visits -> SUBSET Visits]
  BY <1>4 DEF Arrive, Serve, TalkEnds, GreetingFails, Keep, KeepFails, Tell, TellFails, Answer, Refuse,
              AttemptLogin, AttemptMFA, LetIn, Busy, Enter, Leave, tarpitVars
<1> QED
  BY <1>2, <1>5, <1>6, <1>7

\* No step of the honeypot, or around it, gives a count twice or lets a guess go
\* on that should have been locked out; and the tarpit's count stays right.
LEMMA DecoyPreserves ==
    ASSUME ProcessTypeOK, DecoyInv, GuessesRationed, DecoyStep \/ DecoyEnds \/ UNCHANGED decoyVars
    PROVE  DecoyInv' /\ GuessesRationed'
<1>1. ASSUME NEW v \in Visits, Arrive(v) \/ Serve(v)
      PROVE  DecoyInv' /\ GuessesRationed'
  <2>1. DecoyTypeOK
    BY DEF DecoyInv
  <2>2. PICK to \in HandlerPlaces :
               /\ step' = [step EXCEPT ![v] = to]
               /\ active' = active + (IF to = "inside" THEN 1 ELSE 0) - (IF step[v] = "inside" THEN 1 ELSE 0)
               /\ ~(to = "inside" /\ step[v] = "inside")
               /\ Aside(v, to) \/ AttemptLogin(v)
    BY <1>1, <2>1, VisitSteps
  <2>3. active' \in Nat /\ active' = Cardinality(Inside')
    BY <2>2, InsideCounted
  <2>4. DecoyTypeOK'
    BY <1>1, <2>1, <2>3, VisitTypes
  <2>5. TurnsGiven' /\ GuessesRationed'
    BY <2>2, AsidePreserves, GuessPreserves
  <2> QED
    BY <2>3, <2>4, <2>5 DEF DecoyInv
<1>2. ASSUME NEW k \in Keys, LockRunsOut(k)
      PROVE  DecoyInv' /\ GuessesRationed'
  <2>1. /\ locked' = locked \ {k}
        /\ UNCHANGED <<step, call, caught, told, judged, fails, pending, turn, verdict, active, gap>>
    BY <1>2 DEF LockRunsOut, hitVars, tarpitVars
  <2> QED
    BY <2>1 DEF DecoyInv, DecoyTypeOK, Inside, TurnsGiven, GuessesRationed, Key
<1>3. CASE DecoyEnds
  <2>1. /\ step' = [v \in Visits |-> IF step[v] = "idle" THEN "idle" ELSE "gone"]
        /\ turn' = [v \in Visits |-> 0] /\ active' = 0
    BY <1>3 DEF DecoyEnds
  <2>2. Inside' = {}
    BY <2>1 DEF Inside
  <2>3. active' = Cardinality(Inside')
    BY <2>1, <2>2, FS_EmptySet
  <2>4. DecoyTypeOK'
    BY <1>3 DEF DecoyEnds, DecoyInv, DecoyTypeOK, HandlerPlaces, hitVars
  <2> QED
    BY <2>1, <2>3, <2>4 DEF DecoyInv, TurnsGiven, GuessesRationed
<1>4. CASE UNCHANGED decoyVars
  BY <1>4 DEF decoyVars, hitVars, loginVars, tarpitVars, DecoyInv, DecoyTypeOK, Inside, TurnsGiven,
              GuessesRationed, Key
<1> QED
  BY <1>1, <1>2, <1>3, <1>4 DEF DecoyStep

-----------------------------------------------------------------------------
\* HitsOnRecord, for visits that are past the ledger or past the bus already, and
\* not only for those that are over.
PastLedger == {v \in Visits : Recordable(v) /\ step[v] \in {"publish", "answer", "enter", "inside", "over"}}
PastBus    == {v \in Visits : step[v] \in {"answer", "enter", "inside", "over"}}
Named      == {v \in PastBus : call[v].from # NoAddress}

Lost == Cardinality(PastLedger \ caught) + (IF bus THEN Cardinality(PastBus \ told) ELSE 0)

HitsKept == Lost <= faults /\ Named \subseteq judged

LEMMA LostIsNat ==
    /\ Cardinality(PastLedger \ caught) \in Nat
    /\ Cardinality(PastBus \ told) \in Nat
    /\ Lost \in Nat
<1>1. /\ Cardinality(PastLedger \ caught) \in Nat
      /\ Cardinality(PastBus \ told) \in Nat
  BY VisitsFinite DEF PastLedger, PastBus
<1> QED
  BY <1>1 DEF Lost

LEMMA HitsKeptEnough == ProcessTypeOK /\ HitsKept => HitsOnRecord
<1> SUFFICES ASSUME ProcessTypeOK, HitsKept PROVE HitsOnRecord
  OBVIOUS
<1> DEFINE Due == {v \in Over : Recordable(v)}
<1>1. /\ Cardinality(Due \ caught) \in Nat /\ Cardinality(Over \ told) \in Nat
      /\ Cardinality(Due \ caught) <= Cardinality(PastLedger \ caught)
      /\ Cardinality(Over \ told) <= Cardinality(PastBus \ told)
  <2>1. Due \ caught \subseteq PastLedger \ caught /\ Over \ told \subseteq PastBus \ told
    BY DEF Over, PastLedger, PastBus
  <2>2. IsFiniteSet(PastLedger \ caught) /\ IsFiniteSet(PastBus \ told)
    BY VisitsFinite DEF PastLedger, PastBus
  <2> QED
    BY <2>1, <2>2, FS_Subset, FS_CardinalityType
<1>2. \A v \in Over : call[v].from # NoAddress => v \in judged
  BY DEF HitsKept, Over, PastBus, Named
<1>3. faults \in Nat
  BY ProcessAssumption DEF ProcessTypeOK
<1> QED
  BY <1>1, <1>2, <1>3, LostIsNat DEF HitsKept, Lost, HitsOnRecord

\* One visit more is at most one loss more.
LEMMA OneMore ==
    ASSUME NEW S \in SUBSET Visits, NEW T \in SUBSET Visits, NEW v, T \subseteq S \cup {v}
    PROVE  Cardinality(T) <= Cardinality(S) + 1
<1>1. IsFiniteSet(S) /\ Cardinality(S) \in Nat /\ Cardinality(T) \in Nat
  BY VisitsFinite
<1>2. /\ IsFiniteSet(S \cup {v}) /\ Cardinality(S \cup {v}) \in Nat
      /\ Cardinality(S \cup {v}) <= Cardinality(S) + 1
  BY <1>1, FS_AddElement, FS_CardinalityType
<1>3. Cardinality(T) <= Cardinality(S \cup {v})
  BY <1>2, FS_Subset
<1> QED
  BY <1>1, <1>2, <1>3

LEMMA NoWorse ==
    ASSUME ProcessTypeOK, HitsKept, bus' = bus, faults' \in Nat, faults' >= faults,
           (PastLedger \ caught)' = PastLedger \ caught, (PastBus \ told)' = PastBus \ told,
           Named' \subseteq judged'
    PROVE  HitsKept'
<1>1. Lost' = Lost
  BY DEF Lost
<1>2. faults \in Nat
  BY ProcessAssumption DEF ProcessTypeOK
<1> QED
  BY <1>1, <1>2, LostIsNat DEF HitsKept

\* A visit's step loses a hit only by a failure.
LEMMA VisitKeeps ==
    ASSUME ProcessTypeOK, DecoyTypeOK, HitsKept, NEW v \in Visits, Arrive(v) \/ Serve(v), bus' = bus
    PROVE  HitsKept'
<1>1. faults \in Nat /\ bus \in BOOLEAN /\ step \in [Visits -> HandlerPlaces] /\ call \in [Visits -> Call]
  BY ProcessAssumption DEF ProcessTypeOK, DecoyTypeOK
<1>2. CASE KeepFails(v)
  <2>1. /\ step[v] = "record" /\ step' = [step EXCEPT ![v] = "publish"]
        /\ faults' = faults + 1 /\ UNCHANGED <<call, caught, told, judged>>
    BY <1>2 DEF KeepFails, Walk, Fault, hitVars
  <2>2. /\ (PastLedger \ caught)' \subseteq (PastLedger \ caught) \cup {v}
        /\ PastBus' = PastBus /\ Named' = Named
    BY <1>1, <2>1 DEF PastLedger, PastBus, Named, Recordable
  <2>3. Cardinality((PastLedger \ caught)') <= Cardinality(PastLedger \ caught) + 1
    BY <2>2, OneMore DEF PastLedger
  <2>4. Cardinality((PastLedger \ caught)') \in Nat
    BY VisitsFinite DEF PastLedger
  <2>5. Lost' <= Lost + 1
    BY <1>1, <2>1, <2>2, <2>3, <2>4, LostIsNat DEF Lost
  <2>6. Lost' \in Nat
    BY <2>4, <2>1, <2>2, LostIsNat DEF Lost
  <2> QED
    BY <1>1, <2>1, <2>2, <2>5, <2>6, LostIsNat DEF HitsKept
<1>3. CASE TellFails(v)
  <2>1. /\ step[v] = "publish" /\ step' = [step EXCEPT ![v] = "answer"]
        /\ faults' = faults + 1 /\ UNCHANGED <<call, caught, told>> /\ MaybeBlock(v) /\ bus
    BY <1>3 DEF TellFails, Walk, Fault
  <2>2. (PastBus \ told)' \subseteq (PastBus \ told) \cup {v} /\ PastLedger' = PastLedger
    BY <1>1, <2>1 DEF PastLedger, PastBus, Recordable
  <2>3. Cardinality((PastBus \ told)') <= Cardinality(PastBus \ told) + 1
    BY <2>2, OneMore DEF PastBus
  <2>4. Cardinality((PastBus \ told)') \in Nat
    BY VisitsFinite DEF PastBus
  <2>5. Lost' <= Lost + 1 /\ Lost' \in Nat
    BY <1>1, <2>1, <2>2, <2>3, <2>4, LostIsNat DEF Lost
  <2>6. Named' \subseteq judged'
    BY <1>1, <2>1 DEF HitsKept, PastBus, Named, MaybeBlock
  <2> QED
    BY <1>1, <2>1, <2>5, <2>6, LostIsNat DEF HitsKept
<1>4. CASE Tell(v)
  <2>1. /\ step[v] = "publish" /\ step' = [step EXCEPT ![v] = "answer"]
        /\ told' = (IF bus THEN told \cup {v} ELSE told) /\ MaybeBlock(v)
        /\ UNCHANGED <<faults, call, caught>>
    BY <1>4 DEF Tell, Walk
  <2>2. PastLedger' = PastLedger /\ PastBus' = PastBus \cup {v} /\ v \notin PastBus
    BY <1>1, <2>1 DEF PastLedger, PastBus, Recordable
  <2>3. Named' \subseteq judged'
    BY <2>1, <2>2 DEF HitsKept, Named, MaybeBlock
  <2>4. bus => (PastBus \ told)' = PastBus \ told
    BY <2>1, <2>2
  <2>5. Lost' = Lost
    BY <2>1, <2>2, <2>4 DEF Lost
  <2> QED
    BY <2>1, <2>3, <2>5 DEF HitsKept
<1>5. CASE Keep(v)
  <2>1. /\ step[v] = "record" /\ step' = [step EXCEPT ![v] = "publish"]
        /\ caught' = (IF Recordable(v) THEN caught \cup {v} ELSE caught)
        /\ UNCHANGED <<faults, call, told, judged>>
    BY <1>5 DEF Keep, Walk
  <2>2. /\ PastLedger' = (IF Recordable(v) THEN PastLedger \cup {v} ELSE PastLedger) /\ v \notin PastLedger
        /\ PastBus' = PastBus /\ Named' = Named
    BY <1>1, <2>1 DEF PastLedger, PastBus, Named, Recordable
  <2>3. (PastLedger \ caught)' = PastLedger \ caught
    BY <2>1, <2>2
  <2> QED
    BY <1>1, <2>1, <2>2, <2>3, NoWorse DEF HitsKept
<1>6. CASE Arrive(v) \/ TalkEnds(v) \/ GreetingFails(v)
  <2>1. PICK from \in {"idle", "talk"}, to \in {"talk", "record", "left"} :
            /\ step[v] = from /\ step' = [step EXCEPT ![v] = to]
            /\ UNCHANGED <<faults, caught, told, judged>>
            /\ \A u \in Visits \ {v} : call'[u] = call[u]
    BY <1>1, <1>6 DEF Arrive, TalkEnds, GreetingFails, Walk, hitVars
  <2>2. PastLedger' = PastLedger /\ PastBus' = PastBus /\ Named' = Named
    BY <1>1, <2>1 DEF PastLedger, PastBus, Named, Recordable
  <2> QED
    BY <1>1, <2>1, <2>2, NoWorse DEF HitsKept
<1>7. CASE \/ Answer(v) \/ Refuse(v) \/ AttemptLogin(v) \/ AttemptMFA(v)
           \/ LetIn(v) \/ Busy(v) \/ Enter(v) \/ Leave(v)
  <2>1. PICK from \in {"answer", "enter", "inside"}, to \in {"enter", "inside", "over"} :
            /\ step[v] = from /\ step' = [step EXCEPT ![v] = to]
            /\ UNCHANGED <<faults, call, caught, told, judged>>
    BY <1>7, Zenon DEF Answer, Refuse, AttemptLogin, AttemptMFA, LetIn, Busy, Enter, Leave, Walk, hitVars
  <2>2. PastLedger' = PastLedger /\ PastBus' = PastBus /\ Named' = Named
    BY <1>1, <2>1 DEF PastLedger, PastBus, Named, Recordable
  <2> QED
    BY <1>1, <2>1, <2>2, NoWorse DEF HitsKept
<1> QED
  BY <1>2, <1>3, <1>4, <1>5, <1>6, <1>7 DEF Serve

\* No step of the honeypot, or around it, loses a hit without a failure.
LEMMA HitsKeptPreserves ==
    ASSUME ProcessTypeOK, faults' \in Nat, faults' >= faults, DecoyTypeOK, HitsKept,
           \/ DecoyStep /\ bus' = bus
           \/ DecoyEnds
           \/ UNCHANGED decoyVars /\ (bus' = bus \/ \A v \in Visits : step[v] \in {"idle", "gone"})
    PROVE  HitsKept'
<1>1. ASSUME NEW v \in Visits, Arrive(v) \/ Serve(v), bus' = bus PROVE HitsKept'
  BY <1>1, VisitKeeps
<1>2. CASE (\E k \in Keys : LockRunsOut(k)) /\ bus' = bus
  BY <1>2, NoWorse DEF LockRunsOut, hitVars, HitsKept, PastLedger, PastBus, Named, Recordable
<1>3. CASE UNCHANGED decoyVars /\ bus' = bus
  BY <1>3, NoWorse DEF decoyVars, hitVars, HitsKept, PastLedger, PastBus, Named, Recordable
<1>4. ASSUME PastLedger' = {}, PastBus' = {} PROVE HitsKept'
  <2>1. Lost' = 0
    BY <1>4, FS_EmptySet DEF Lost
  <2> QED
    BY <1>4, <2>1 DEF HitsKept, Named
<1>5. CASE DecoyEnds
  <2>1. PastLedger' = {} /\ PastBus' = {}
    BY <1>5 DEF DecoyEnds, PastLedger, PastBus
  <2> QED
    BY <1>4, <2>1
<1>6. CASE UNCHANGED decoyVars /\ \A v \in Visits : step[v] \in {"idle", "gone"}
  <2>1. PastLedger' = {} /\ PastBus' = {}
    BY <1>6 DEF decoyVars, PastLedger, PastBus
  <2> QED
    BY <1>4, <2>1
<1> QED
  BY <1>1, <1>2, <1>3, <1>5, <1>6 DEF DecoyStep

LEMMA HitsKeptBegins == ASSUME DecoyInit, faults = 0 PROVE HitsKept
<1>1. PastLedger = {} /\ PastBus = {}
  BY DEF DecoyInit, PastLedger, PastBus
<1>2. Lost = 0
  BY <1>1, FS_EmptySet DEF Lost
<1> QED
  BY <1>1, <1>2 DEF HitsKept, Named

-----------------------------------------------------------------------------
\* Who has been let into the tarpit and has not left.
Present == Inside \cup Entering

\* came numbers them in the order they were let in.  When one of them was let in
\* fewer than MaxConns were inside, and whoever else had come before was about to enter.
CameInOrder(came) ==
    /\ \A u, v \in Present : came[u] = came[v] => u = v
    /\ \A v \in Present : Cardinality({u \in Present : came[u] < came[v]} \ gap[v]) < MaxConns

\* The inductive invariant behind TarpitSound: there is such an order.
LetInOrder == MaxConns > 0 => \E n \in Nat : \E came \in [Visits -> 0 .. n] : CameInOrder(came)

\* Every set of numbers has a least one.
LEMMA LeastNat ==
    ASSUME NEW S, S \subseteq Nat, S # {}
    PROVE  \E x \in S : \A y \in S : x <= y
<1> DEFINE R == OpToRel(<, Nat)
<1>1. IsWellFoundedOn(R, Nat)
  BY NatLessThanWellFounded
<1>2. \A x, y \in Nat : y < x => <<y, x>> \in R
  BY DEF OpToRel
<1> HIDE DEF R
<1>3. PICK x \in S : \A y \in S : ~ (<<y, x>> \in R)
  BY <1>1, WFMin, Zenon
<1>4. \A y \in S : ~ (y < x)
  BY <1>2, <1>3
<1> QED
  BY <1>3, <1>4

\* Of those inside, the one that was let in last bears witness to TarpitSound.
LEMMA LetInOrderEnough ==
    ASSUME DecoyInv, LetInOrder
    PROVE  TarpitSound
<1> SUFFICES ASSUME MaxConns > 0, Inside # {}
             PROVE  \E v \in Inside : Cardinality(Inside) <= MaxConns + Cardinality(gap[v])
  BY DEF DecoyInv, TarpitSound
<1>1. PICK n \in Nat : \E came \in [Visits -> 0 .. n] : CameInOrder(came)
  BY DEF LetInOrder
<1>2. PICK came \in [Visits -> 0 .. n] : CameInOrder(came)
  BY <1>1
<1>3. Inside \subseteq Visits /\ Inside \subseteq Present
  BY DEF Inside, Present
<1>4. PICK v \in Inside : \A u \in Inside : came[u] <= came[v]
  <2> DEFINE Rest == {n - came[u] : u \in Inside}
  <2>1. Rest \subseteq Nat /\ Rest # {}
    BY <1>2, <1>3
  <2>2. PICK x \in Rest : \A y \in Rest : x <= y
    BY <2>1, LeastNat
  <2>3. PICK v \in Inside : x = n - came[v]
    BY <2>2
  <2>4. \A u \in Inside : n - came[v] <= n - came[u]
    BY <2>2, <2>3
  <2>5. \A u \in Inside : came[u] \in Nat
    BY <1>2, <1>3
  <2> QED
    BY <2>3, <2>4, <2>5
<1> DEFINE Before == {u \in Present : came[u] < came[v]} \ gap[v]
<1>5. Before \in SUBSET Visits /\ gap[v] \in SUBSET Visits
  BY <1>3 DEF Present, Inside, Entering, DecoyInv, DecoyTypeOK
<1>6. Inside \subseteq (Before \cup gap[v]) \cup {v}
  <2> SUFFICES ASSUME NEW u \in Inside, u # v, u \notin gap[v] PROVE u \in Before
    OBVIOUS
  <2>1. came[u] # came[v] /\ came[u] <= came[v]
    BY <1>2, <1>3, <1>4 DEF CameInOrder
  <2>2. came[u] \in Nat /\ came[v] \in Nat
    BY <1>2, <1>3
  <2> QED
    BY <1>3, <2>1, <2>2
<1>7. Cardinality(Before) < MaxConns
  BY <1>2, <1>3 DEF CameInOrder
<1> HIDE DEF Before
<1>8. /\ IsFiniteSet(Before) /\ Cardinality(Before) \in Nat
      /\ IsFiniteSet(gap[v]) /\ Cardinality(gap[v]) \in Nat
  BY <1>5, VisitsFinite
<1>9. /\ IsFiniteSet(Before \cup gap[v]) /\ Cardinality(Before \cup gap[v]) \in Nat
      /\ Cardinality(Before \cup gap[v]) <= Cardinality(Before) + Cardinality(gap[v])
  <2>1. Cardinality(Before \cup gap[v]) =
            Cardinality(Before) + Cardinality(gap[v]) - Cardinality(Before \cap gap[v])
    BY <1>8, FS_Union
  <2>2. (Before \cup gap[v]) \in SUBSET Visits /\ (Before \cap gap[v]) \in SUBSET Visits
    BY <1>5
  <2>3. /\ IsFiniteSet(Before \cup gap[v]) /\ Cardinality(Before \cup gap[v]) \in Nat
        /\ Cardinality(Before \cap gap[v]) \in Nat
    BY <2>2, VisitsFinite
  <2> QED
    BY <1>8, <2>1, <2>3
<1>10. Cardinality(Inside) <= Cardinality(Before \cup gap[v]) + 1
  <2>1. Before \cup gap[v] \in SUBSET Visits /\ Inside \in SUBSET Visits
    BY <1>3, <1>5
  <2> QED
    BY <1>6, <2>1, OneMore
<1>11. Cardinality(Inside) \in Nat /\ MaxConns \in Nat
  BY <1>3, VisitsFinite, DecoyAssumption
<1> QED
  BY <1>7, <1>8, <1>9, <1>10, <1>11

\* A step that lets nobody in keeps the order.
LEMMA OrderStays ==
    ASSUME LetInOrder, Present' \subseteq Present, \A v \in Present' : gap'[v] = gap[v]
    PROVE  LetInOrder'
<1> SUFFICES ASSUME MaxConns > 0
             PROVE  \E n \in Nat : \E came \in [Visits -> 0 .. n] : CameInOrder(came)'
  BY DEF LetInOrder
<1>1. PICK n \in Nat : \E came \in [Visits -> 0 .. n] : CameInOrder(came)
  BY DEF LetInOrder
<1>2. PICK came \in [Visits -> 0 .. n] : CameInOrder(came)
  BY <1>1
<1>3. ASSUME NEW v \in Present'
      PROVE  Cardinality({u \in Present' : came[u] < came[v]} \ gap'[v]) < MaxConns
  <2> DEFINE S == {u \in Present : came[u] < came[v]} \ gap[v]
             T == {u \in Present' : came[u] < came[v]} \ gap[v]
  <2>1. S \in SUBSET Visits /\ T \in SUBSET S /\ T \in SUBSET Visits
    BY DEF Present, Inside, Entering
  <2>2. IsFiniteSet(S) /\ Cardinality(S) \in Nat /\ Cardinality(T) \in Nat
    BY <2>1, VisitsFinite
  <2>3. Cardinality(T) <= Cardinality(S)
    BY <2>1, <2>2, FS_Subset
  <2>4. Cardinality(S) < MaxConns
    BY <1>2 DEF CameInOrder
  <2>5. {u \in Present' : came[u] < came[v]} \ gap'[v] = T
    OBVIOUS
  <2> HIDE DEF S, T
  <2>6. Cardinality(T) < MaxConns
    BY <2>2, <2>3, <2>4, DecoyAssumption
  <2> QED
    BY <2>5, <2>6, Zenon
<1>4. \A u, v \in Present' : came[u] = came[v] => u = v
  BY <1>2 DEF CameInOrder
<1>5. CameInOrder(came)'
  BY <1>3, <1>4 DEF CameInOrder
<1> QED
  BY <1>2, <1>5

\* Who is let in comes after all the others.
LEMMA LetInComesLast ==
    ASSUME DecoyInv, LetInOrder, NEW v \in Visits, LetIn(v)
    PROVE  LetInOrder'
<1> SUFFICES ASSUME MaxConns > 0
             PROVE  \E n \in Nat : \E came \in [Visits -> 0 .. n] : CameInOrder(came)'
  BY DEF LetInOrder
<1>1. PICK n \in Nat : \E came \in [Visits -> 0 .. n] : CameInOrder(came)
  BY DEF LetInOrder
<1>2. PICK came \in [Visits -> 0 .. n] : CameInOrder(came)
  BY <1>1
<1> DEFINE now == [came EXCEPT ![v] = n + 1]
<1>3. /\ step \in [Visits -> HandlerPlaces] /\ gap \in [Visits -> SUBSET Visits]
      /\ active = Cardinality(Inside)
  BY DEF DecoyInv, DecoyTypeOK
<1>4. /\ step[v] = "answer" /\ step' = [step EXCEPT ![v] = "enter"]
      /\ gap' = [gap EXCEPT ![v] = Entering] /\ active < MaxConns
  BY DEF LetIn, Walk
<1>5. Present' = Present \cup {v} /\ v \notin Present /\ Present \subseteq Visits
  BY <1>3, <1>4 DEF Present, Inside, Entering
<1>6. now \in [Visits -> 0 .. n + 1]
  BY <1>2
<1>7. now[v] = n + 1 /\ \A u \in Present : now[u] = came[u] /\ came[u] \in 0 .. n
  BY <1>2, <1>5
<1> HIDE DEF now
<1>8. \A u, w \in Present' : now[u] = now[w] => u = w
  BY <1>2, <1>5, <1>7 DEF CameInOrder
<1>9. ASSUME NEW w \in Present'
      PROVE  Cardinality({u \in Present' : now[u] < now[w]} \ gap'[w]) < MaxConns
  <2>1. CASE w = v
    <3>1. {u \in Present' : now[u] < now[w]} = Present
      BY <1>5, <1>7, <2>1
    <3>2. gap'[w] = Entering
      BY <1>3, <1>4, <2>1
    <3>3. Present \ Entering = Inside
      BY DEF Present, Inside, Entering
    <3> QED
      BY <1>3, <1>4, <3>1, <3>2, <3>3
  <2>2. CASE w # v
    <3>1. w \in Present /\ gap'[w] = gap[w]
      BY <1>3, <1>4, <1>5, <2>2
    <3>2. {u \in Present' : now[u] < now[w]} = {u \in Present : came[u] < came[w]}
      BY <1>5, <1>7, <3>1
    <3> QED
      BY <1>2, <3>1, <3>2 DEF CameInOrder
  <2> QED
    BY <2>1, <2>2
<1>10. CameInOrder(now)'
  BY <1>8, <1>9 DEF CameInOrder
<1>11. n + 1 \in Nat
  OBVIOUS
<1> QED
  BY <1>6, <1>10, <1>11

\* No step of the honeypot, or around it, lets somebody in out of turn.
LEMMA LetInOrderPreserves ==
    ASSUME ProcessTypeOK, DecoyInv, LetInOrder, DecoyStep \/ DecoyEnds \/ UNCHANGED decoyVars
    PROVE  LetInOrder'
<1>1. ASSUME NEW v \in Visits, Arrive(v) \/ Serve(v), ~LetIn(v) PROVE LetInOrder'
  <2>1. step \in [Visits -> HandlerPlaces]
    BY DEF DecoyInv, DecoyTypeOK
  <2>2. gap' = gap
    BY <1>1, Zenon DEF Arrive, Serve, TalkEnds, GreetingFails, Keep, KeepFails, Tell, TellFails, Answer,
                       Refuse, AttemptLogin, AttemptMFA, Busy, Enter, Leave, tarpitVars
  <2>3. PICK to : step' = [step EXCEPT ![v] = to] /\ (to \in {"enter", "inside"} => step[v] \in {"enter", "inside"})
    <3>1. CASE Arrive(v)
      <4>1. Walk(v, "idle", "talk") \/ Walk(v, "idle", "record")
        BY <3>1, Zenon DEF Arrive
      <4> QED
        BY <4>1 DEF Walk
    <3>2. CASE Serve(v)
      BY <1>1, <3>2 DEF Serve, TalkEnds, GreetingFails, Keep, KeepFails, Tell, TellFails, Answer,
                         Refuse, AttemptLogin, AttemptMFA, Busy, Enter, Leave, Walk
    <3> QED
      BY <1>1, <3>1, <3>2
  <2>4. Present' \subseteq Present
    BY <2>1, <2>3 DEF Present, Inside, Entering
  <2> QED
    BY <2>2, <2>4, OrderStays
<1>2. CASE \E k \in Keys : LockRunsOut(k)
  BY <1>2, OrderStays DEF LockRunsOut, tarpitVars, Present, Inside, Entering
<1>3. CASE DecoyEnds
  <2>1. Present' = {}
    BY <1>3 DEF DecoyEnds, Present, Inside, Entering
  <2> QED
    BY <2>1, OrderStays
<1>4. CASE UNCHANGED decoyVars
  BY <1>4, OrderStays DEF decoyVars, tarpitVars, Present, Inside, Entering
<1> QED
  BY <1>1, <1>2, <1>3, <1>4, LetInComesLast DEF DecoyStep

LEMMA LetInOrderBegins == DecoyInit => LetInOrder
<1> SUFFICES ASSUME DecoyInit PROVE \E came \in [Visits -> 0 .. 0] : CameInOrder(came)
  BY DEF LetInOrder
<1>1. Present = {}
  BY DEF DecoyInit, Present, Inside, Entering
<1>2. CameInOrder([v \in Visits |-> 0])
  BY <1>1 DEF CameInOrder
<1> QED
  BY <1>2
=============================================================================
