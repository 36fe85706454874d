-------------------------- MODULE DeceptionProofs --------------------------
(***************************************************************************)
(* What holds of the deception engine's steps, for every number of         *)
(* requests, addresses and providers.  Module NodeProofs puts the lemmas   *)
(* together with those of the other services.                              *)
(***************************************************************************)
EXTENDS Deception, FiniteSetTheorems, TLAPS

\* Where a handler has a session.
Served == {"lock", "add", "note", "gate", "record", "publish", "dispatch", "answered", "proxied"}

\* Who a request is taken to come from, and whose session it works on; a session
\* is named after its maker.
SessionsMatch ==
    /\ \A r \in Requests : at[r] # "idle" => client[r] = ResolveClientIP(ask[r])
    /\ \A r \in Requests : at[r] \in Served => mine[r] \in Requests /\ sessions[client[r]] = mine[r]
    /\ \A a \in Addresses : sessions[a] # NoSession =>
           sessions[a] \in Requests /\ client[sessions[a]] = a /\ at[sessions[a]] \in Served
    /\ \A r \in Requests : at[r] \in {"idle", "session"} => risk[r] = 0

\* What brought a handler to where it is.
HandlersKnow ==
    \A r \in Requests :
        /\ at[r] = "lock" => ask[r].probe \/ ask[r].tool
        /\ at[r] \in {"add", "record", "publish", "dispatch"} => ask[r].probe
        /\ at[r] = "note" => ~ask[r].probe /\ ask[r].tool
        /\ at[r] \in {"gate", "proxied"} => ~ask[r].probe

\* Who changes a score holds its lock, and has read it.
LocksHeld ==
    \A r \in Requests : at[r] \in {"add", "note"} =>
        busy[mine[r]] = r /\ seen[r] = risk[mine[r]]

\* The caught requests of a client: what a decoy met, and what has a scanner's name.
Probes(a) == {r \in Requests : client[r] = a /\ Caught(r) /\ ask[r].probe}
Tools(a)  == {r \in Requests : client[r] = a /\ Caught(r) /\ ~ask[r].probe}

\* ScoreExact, whether or not the session is locked.
ScoresAdd ==
    \A a \in Addresses : sessions[a] # NoSession =>
        risk[sessions[a]] = 25 * Cardinality(Probes(a)) + 10 * Cardinality(Tools(a))

PeerRisk(a) == RiskOf(FromPeer(a))

\* GateHolds, with what was known of the peer when the request came in.
Warnings ==
    /\ \A r \in warned : at[r] # "idle"
    /\ \A a \in Addresses, r \in warned : ask[r].peer = a => PeerRisk(a) >= Threshold
    /\ GateHolds

\* BansStay; and a request that has not come bans nobody.
BansKept ==
    /\ BansStay
    /\ \A r \in Requests, p \in Providers : at[r] = "idle" => ban[r][p] = "idle"

DeceptionInv ==
    DeceptionTypeOK /\ SessionsMatch /\ HandlersKnow /\ LocksHeld /\ ScoresAdd /\ Warnings /\ BansKept

-----------------------------------------------------------------------------
LEMMA RequestsFinite ==
    ASSUME NEW S \in SUBSET Requests
    PROVE  IsFiniteSet(S) /\ Cardinality(S) \in Nat
<1>1. IsFiniteSet(Requests)
  BY DeceptionAssumption, FS_Interval DEF Requests
<1> QED
  BY <1>1, FS_Subset, FS_CardinalityType

LEMMA ResolveType == ASSUME NEW q \in Ask PROVE ResolveClientIP(q) \in Addresses
BY DEF ResolveClientIP, Ask

LEMMA CaughtServed == ASSUME NEW r \in Requests, Caught(r) PROVE at[r] \in Served
BY DEF Caught, Served

LEMMA NoAskType == NoAsk \in Ask
<1>1. (CHOOSE a \in Addresses : TRUE) \in Addresses
  BY DeceptionAssumption
<1> QED
  BY <1>1 DEF NoAsk, Ask

\* The score of an address in the words of ScoreExact.
LEMMA RiskByClient ==
    ASSUME NEW a
    PROVE  RiskOf({r \in Requests : client[r] = a})
               = 25 * Cardinality(Probes(a)) + 10 * Cardinality(Tools(a))
<1> DEFINE R == {r \in Requests : client[r] = a}
<1>1. /\ {r \in R : Caught(r) /\ ask[r].probe} = Probes(a)
      /\ {r \in R : Caught(r) /\ ~ask[r].probe} = Tools(a)
  BY DEF Probes, Tools
<1> QED
  BY <1>1 DEF RiskOf, InterceptRisk, ScannerRisk

LEMMA ScoresAddExact == ScoresAdd => ScoreExact
BY RiskByClient DEF ScoresAdd, ScoreExact

\* A peer is caught at more and more, as long as the process lives.
LEMMA PeerRiskGrows ==
    ASSUME NEW a, \A r \in Requests : Caught(r) => Caught(r)' /\ ask'[r] = ask[r]
    PROVE  PeerRisk(a)' >= PeerRisk(a) /\ PeerRisk(a) \in Nat /\ PeerRisk(a)' \in Nat
<1> DEFINE P == {r \in FromPeer(a) : Caught(r) /\ ask[r].probe}
           T == {r \in FromPeer(a) : Caught(r) /\ ~ask[r].probe}
<1>1. P \subseteq P' /\ T \subseteq T'
  BY DEF FromPeer
<1>2. /\ Cardinality(P) \in Nat /\ Cardinality(T) \in Nat
      /\ IsFiniteSet(P') /\ IsFiniteSet(T') /\ Cardinality(P') \in Nat /\ Cardinality(T') \in Nat
  BY RequestsFinite DEF FromPeer
<1>3. Cardinality(P) <= Cardinality(P') /\ Cardinality(T) <= Cardinality(T')
  BY <1>1, <1>2, FS_Subset
<1>4. /\ PeerRisk(a) = 25 * Cardinality(P) + 10 * Cardinality(T)
      /\ PeerRisk(a)' = 25 * Cardinality(P') + 10 * Cardinality(T')
  BY DEF PeerRisk, RiskOf, InterceptRisk, ScannerRisk
<1> HIDE DEF P, T
<1> QED
  BY <1>2, <1>3, <1>4

\* What a peer whose headers do not count was caught at is in its own score.
LEMMA PeerRiskCounts ==
    ASSUME SessionsMatch, NEW a, ~TrustsHeaders(a)
    PROVE  PeerRisk(a) <= 25 * Cardinality(Probes(a)) + 10 * Cardinality(Tools(a))
<1> DEFINE P == {r \in FromPeer(a) : Caught(r) /\ ask[r].probe}
           T == {r \in FromPeer(a) : Caught(r) /\ ~ask[r].probe}
<1>1. P \subseteq Probes(a) /\ T \subseteq Tools(a)
  BY CaughtServed DEF FromPeer, Probes, Tools, SessionsMatch, Served, ResolveClientIP
<1>2. /\ Cardinality(P) \in Nat /\ Cardinality(T) \in Nat
      /\ IsFiniteSet(Probes(a)) /\ IsFiniteSet(Tools(a))
      /\ Cardinality(Probes(a)) \in Nat /\ Cardinality(Tools(a)) \in Nat
  BY RequestsFinite DEF FromPeer, Probes, Tools
<1>3. Cardinality(P) <= Cardinality(Probes(a)) /\ Cardinality(T) <= Cardinality(Tools(a))
  BY <1>1, <1>2, FS_Subset
<1>4. PeerRisk(a) = 25 * Cardinality(P) + 10 * Cardinality(T)
  BY DEF PeerRisk, RiskOf, InterceptRisk, ScannerRisk
<1> HIDE DEF P, T
<1> QED
  BY <1>2, <1>3, <1>4

LEMMA DeceptionBegins == DeceptionInit => DeceptionInv
<1> SUFFICES ASSUME DeceptionInit PROVE DeceptionInv
  OBVIOUS
<1> USE DEF DeceptionInit
<1>1. DeceptionTypeOK
  BY NoAskType DEF DeceptionTypeOK, HandlerSteps, BanSteps
<1>2. SessionsMatch /\ HandlersKnow /\ LocksHeld /\ ScoresAdd
  BY DEF SessionsMatch, HandlersKnow, LocksHeld, ScoresAdd, Served
<1>3. Warnings /\ BansKept
  BY DEF Warnings, GateHolds, BansKept, BansStay
<1> QED
  BY <1>1, <1>2, <1>3 DEF DeceptionInv

-----------------------------------------------------------------------------
LEMMA CountsStay ==
    ASSUME \A r \in Requests : Caught(r)' <=> Caught(r),
           \A r \in Requests : Caught(r) => ask'[r] = ask[r] /\ client'[r] = client[r]
    PROVE  \A a : Probes(a)' = Probes(a) /\ Tools(a)' = Tools(a)
BY DEF Probes, Tools

LEMMA WarningsStay ==
    ASSUME DeceptionTypeOK, Warnings, warned' = warned,
           \A r \in Requests : Caught(r) => Caught(r)' /\ ask'[r] = ask[r],
           \A r \in warned : at'[r] # "idle" /\ ask'[r] = ask[r],
           \A r \in warned : at'[r] = "proxied" =>
               at[r] = "proxied" \/ TrustsHeaders(ask[r].peer)
    PROVE  Warnings'
<1>1. \A a \in Addresses, r \in warned : ask'[r].peer = a => PeerRisk(a)' >= Threshold
  <2> SUFFICES ASSUME NEW a \in Addresses, NEW r \in warned, ask[r].peer = a
               PROVE  PeerRisk(a)' >= Threshold
    OBVIOUS
  <2>1. PeerRisk(a)' >= PeerRisk(a) /\ PeerRisk(a) \in Nat /\ PeerRisk(a)' \in Nat
    BY PeerRiskGrows
  <2>2. PeerRisk(a) >= Threshold
    BY DEF Warnings
  <2> QED
    BY <2>1, <2>2, DeceptionAssumption
<1>2. GateHolds'
  BY DEF Warnings, GateHolds, DeceptionTypeOK, TrustsHeaders
<1> QED
  BY <1>1, <1>2 DEF Warnings

\* A request comes in.
LEMMA RequestSafe ==
    ASSUME mode \in Modes, DeceptionInv, NEW r \in Requests, Request(r)
    PROVE  DeceptionInv'
<1> USE DEF DeceptionInv
<1>1. /\ at \in [Requests -> HandlerSteps] /\ ask \in [Requests -> Ask]
      /\ client \in [Requests -> Addresses \cup {NoClaim}] /\ warned \subseteq Requests
  BY DEF DeceptionTypeOK
<1>2. PICK q \in Ask :
         /\ ask' = [ask EXCEPT ![r] = q]
         /\ client' = [client EXCEPT ![r] = ResolveClientIP(q)]
         /\ warned' = IF RiskOf(FromPeer(q.peer)) >= Threshold THEN warned \cup {r} ELSE warned
  BY DeceptionAssumption, Zenon DEF Request
<1>3. /\ at[r] = "idle" /\ at' = [at EXCEPT ![r] = "session"]
      /\ UNCHANGED <<sessions, mine, risk, busy, seen, reports, ban, edge, view, others>>
  BY DEF Request, Step, banVars
<1>4. ResolveClientIP(q) \in Addresses
  BY ResolveType
<1>5. \A i \in Requests : (Caught(i)' <=> Caught(i)) /\ (Caught(i) => i # r /\ ask'[i] = ask[i] /\ client'[i] = client[i])
  BY <1>1, <1>2, <1>3 DEF Caught
<1>6. DeceptionTypeOK'
  BY <1>1, <1>2, <1>3, <1>4 DEF DeceptionTypeOK, HandlerSteps
<1>7. SessionsMatch'
  BY <1>1, <1>2, <1>3, <1>4 DEF SessionsMatch, Served
<1>8. HandlersKnow' /\ LocksHeld'
  BY <1>1, <1>2, <1>3 DEF HandlersKnow, LocksHeld
<1>9. ScoresAdd'
  <2>1. \A a : Probes(a)' = Probes(a) /\ Tools(a)' = Tools(a)
    BY <1>5, CountsStay
  <2> QED
    BY <1>3, <2>1 DEF ScoresAdd
<1>10. Warnings'
  <2>1. \A a : PeerRisk(a)' >= PeerRisk(a) /\ PeerRisk(a) \in Nat /\ PeerRisk(a)' \in Nat
    BY <1>5, PeerRiskGrows
  <2>2. at'[r] = "session" /\ ask'[r] = q /\ warned' \subseteq Requests
    BY <1>1, <1>2, <1>3
  <2>3. \A i \in warned' \ {r} : i \in warned /\ i \in Requests /\ at'[i] = at[i] /\ ask'[i] = ask[i]
    BY <1>1, <1>2, <1>3
  <2>4. r \in warned' => PeerRisk(q.peer) >= Threshold
    BY <1>2, <1>3 DEF Warnings, PeerRisk
  <2>5. ASSUME NEW a \in Addresses, NEW i \in warned', ask'[i].peer = a
        PROVE  PeerRisk(a)' >= Threshold
    <3>1. PeerRisk(a) >= Threshold
      BY <2>2, <2>3, <2>4, <2>5 DEF Warnings
    <3> QED
      BY <2>1, <3>1, DeceptionAssumption
  <2>6. \A i \in warned' : at'[i] # "idle"
    BY <2>2, <2>3 DEF Warnings
  <2>7. GateHolds'
    BY <2>2, <2>3 DEF Warnings, GateHolds
  <2> QED
    BY <2>5, <2>6, <2>7 DEF Warnings
<1>11. BansKept'
  BY <1>1, <1>2, <1>3 DEF BansKept, BansStay
<1> QED
  BY <1>6, <1>7, <1>8, <1>9, <1>10, <1>11

\* getOrCreateSession: one session for an address, with the score it has earned.
LEMMA GetSessionSafe ==
    ASSUME DeceptionInv, NEW r \in Requests, GetSession(r)
    PROVE  DeceptionInv'
<1> DEFINE s == IF sessions[client[r]] = NoSession THEN r ELSE sessions[client[r]]
<1> USE DEF DeceptionInv
<1>1. /\ at \in [Requests -> HandlerSteps] /\ ask \in [Requests -> Ask]
      /\ client \in [Requests -> Addresses \cup {NoClaim}]
      /\ sessions \in [Addresses -> Requests \cup {NoSession}]
      /\ mine \in [Requests -> Requests \cup {NoSession}]
      /\ risk \in [Requests -> Nat] /\ NoSession \notin Requests
  BY DeceptionAssumption DEF DeceptionTypeOK
<1>2. /\ at[r] = "session" /\ at' = [at EXCEPT ![r] = Sorted(r)]
      /\ sessions' = [sessions EXCEPT ![client[r]] = s]
      /\ mine' = [mine EXCEPT ![r] = s]
      /\ UNCHANGED <<ask, client, risk, busy, seen, reports, ban, edge, view, others, warned>>
  BY Zenon DEF GetSession, Step, banVars
<1>3. client[r] \in Addresses
  BY <1>1, <1>2, ResolveType DEF SessionsMatch
<1>4. s \in Requests
  BY <1>1, <1>3
<1>5. Sorted(r) \in {"lock", "gate"} /\ (Sorted(r) = "lock" <=> ask[r].probe \/ ask[r].tool)
  BY DEF Sorted
<1>6. \A i \in Requests : Caught(i)' <=> Caught(i)
  BY <1>1, <1>2, <1>5 DEF Caught
<1> HIDE DEF s
<1>7. DeceptionTypeOK'
  BY <1>1, <1>2, <1>3, <1>4, <1>5 DEF DeceptionTypeOK, HandlerSteps
<1>8. SessionsMatch'
  <2>1. \A i \in Requests : at'[i] # "idle" => client'[i] = ResolveClientIP(ask'[i])
    BY <1>1, <1>2 DEF SessionsMatch
  <2>2. \A i \in Requests : at'[i] \in Served => mine'[i] \in Requests /\ sessions'[client'[i]] = mine'[i]
    <3> SUFFICES ASSUME NEW i \in Requests, at'[i] \in Served
                 PROVE  mine'[i] \in Requests /\ sessions'[client[i]] = mine'[i]
      BY <1>2
    <3>1. CASE i = r
      BY <1>1, <1>2, <1>3, <1>4, <3>1
    <3>2. CASE i # r
      <4>1. mine[i] \in Requests /\ sessions[client[i]] = mine[i]
        BY <1>1, <1>2, <3>2 DEF SessionsMatch
      <4>2. client[i] = client[r] => s = mine[i]
        BY <1>1, <4>1 DEF s
      <4> QED
        BY <1>1, <1>2, <1>3, <3>2, <4>1, <4>2
    <3> QED
      BY <3>1, <3>2
  <2>3. \A a \in Addresses : sessions'[a] # NoSession =>
            sessions'[a] \in Requests /\ client'[sessions'[a]] = a /\ at'[sessions'[a]] \in Served
    <3> SUFFICES ASSUME NEW a \in Addresses, sessions'[a] # NoSession
                 PROVE  sessions'[a] \in Requests /\ client[sessions'[a]] = a /\ at'[sessions'[a]] \in Served
      BY <1>2
    <3>1. at'[r] \in Served
      BY <1>1, <1>2, <1>5 DEF Served
    <3>2. sessions[a] # NoSession => sessions[a] \in Requests /\ client[sessions[a]] = a /\ at'[sessions[a]] \in Served
      BY <1>1, <1>2, <3>1 DEF SessionsMatch
    <3>3. sessions'[a] = sessions[a] \/ (a = client[r] /\ sessions'[a] = r)
      BY <1>1, <1>2, <1>3 DEF s
    <3> QED
      BY <3>1, <3>2, <3>3
  <2>4. \A i \in Requests : at'[i] \in {"idle", "session"} => risk'[i] = 0
    BY <1>1, <1>2, <1>5 DEF SessionsMatch
  <2> QED
    BY <2>1, <2>2, <2>3, <2>4 DEF SessionsMatch
<1>9. HandlersKnow' /\ LocksHeld'
  BY <1>1, <1>2, <1>5 DEF HandlersKnow, LocksHeld
<1>10. ScoresAdd'
  <2>1. \A a : Probes(a)' = Probes(a) /\ Tools(a)' = Tools(a)
    BY <1>2, <1>6, CountsStay
  <2> SUFFICES ASSUME NEW a \in Addresses, sessions'[a] # NoSession
               PROVE  risk[sessions'[a]] = 25 * Cardinality(Probes(a)) + 10 * Cardinality(Tools(a))
    BY <1>2, <2>1 DEF ScoresAdd
  <2>2. CASE sessions'[a] = sessions[a]
    BY <2>2 DEF ScoresAdd
  <2>3. CASE sessions'[a] # sessions[a]
    <3>1. a = client[r] /\ sessions[a] = NoSession /\ sessions'[a] = r
      BY <1>1, <1>2, <1>3, <2>3 DEF s
    <3>2. Probes(a) = {} /\ Tools(a) = {}
      BY <1>1, <3>1, CaughtServed DEF Probes, Tools, SessionsMatch
    <3>3. risk[r] = 0
      BY <1>2 DEF SessionsMatch
    <3> QED
      BY <3>1, <3>2, <3>3, FS_EmptySet
  <2> QED
    BY <2>2, <2>3
<1>11. Warnings'
  BY <1>1, <1>2, <1>5, <1>6, WarningsStay DEF DeceptionTypeOK, Warnings
<1>12. BansKept'
  BY <1>1, <1>2, <1>5 DEF BansKept, BansStay
<1> QED
  BY <1>7, <1>8, <1>9, <1>10, <1>11, <1>12

\* Session.mu is taken, and the score read.
LEMMA LockSessionSafe ==
    ASSUME DeceptionInv, NEW r \in Requests, LockSession(r)
    PROVE  DeceptionInv'
<1> USE DEF DeceptionInv
<1>1. /\ at \in [Requests -> HandlerSteps] /\ busy \in [Requests -> Requests \cup {NoSession}]
      /\ seen \in [Requests -> Nat] /\ risk \in [Requests -> Nat] /\ NoSession \notin Requests
  BY DeceptionAssumption DEF DeceptionTypeOK
<1>2. /\ at[r] = "lock" /\ at' = [at EXCEPT ![r] = IF ask[r].probe THEN "add" ELSE "note"]
      /\ busy[mine[r]] = NoSession /\ busy' = [busy EXCEPT ![mine[r]] = r]
      /\ seen' = [seen EXCEPT ![r] = risk[mine[r]]]
      /\ UNCHANGED <<ask, client, sessions, mine, risk, reports, ban, edge, view, others, warned>>
  BY Zenon DEF LockSession, Step, banVars
<1>3. mine[r] \in Requests
  BY <1>2 DEF SessionsMatch, Served
<1>4. \A i \in Requests : (Caught(i)' <=> Caught(i))
  BY <1>1, <1>2 DEF Caught
<1>5. DeceptionTypeOK'
  BY <1>1, <1>2, <1>3 DEF DeceptionTypeOK, HandlerSteps
<1>6. SessionsMatch'
  BY <1>1, <1>2 DEF SessionsMatch, Served
<1>7. HandlersKnow'
  BY <1>1, <1>2 DEF HandlersKnow
<1>8. LocksHeld'
  <2> SUFFICES ASSUME NEW i \in Requests, at'[i] \in {"add", "note"}
               PROVE  busy'[mine[i]] = i /\ seen'[i] = risk[mine[i]]
    BY <1>2 DEF LocksHeld
  <2>1. CASE i = r
    BY <1>1, <1>2, <1>3, <2>1
  <2>2. CASE i # r
    BY <1>1, <1>2, <1>3, <2>2 DEF LocksHeld
  <2> QED
    BY <2>1, <2>2
<1>9. ScoresAdd'
  <2>1. \A a : Probes(a)' = Probes(a) /\ Tools(a)' = Tools(a)
    BY <1>2, <1>4, CountsStay
  <2> QED
    BY <1>2, <2>1 DEF ScoresAdd
<1>10. Warnings'
  BY <1>1, <1>2, <1>4, WarningsStay DEF DeceptionTypeOK, Warnings
<1>11. BansKept'
  BY <1>1, <1>2 DEF BansKept, BansStay
<1> QED
  BY <1>5, <1>6, <1>7, <1>8, <1>9, <1>10, <1>11

\* The score is raised and the lock given back.
LEMMA UnlockSafe ==
    ASSUME DeceptionInv, NEW r \in Requests, Intercept(r) \/ NoteScanner(r)
    PROVE  DeceptionInv'
<1> USE DEF DeceptionInv
<1>1. /\ at \in [Requests -> HandlerSteps] /\ busy \in [Requests -> Requests \cup {NoSession}]
      /\ seen \in [Requests -> Nat] /\ risk \in [Requests -> Nat] /\ NoSession \notin Requests
  BY DeceptionAssumption DEF DeceptionTypeOK
<1>2. PICK plus \in {25, 10} :
         /\ plus = 25 => at[r] = "add" /\ at' = [at EXCEPT ![r] = "record"]
         /\ plus = 10 => at[r] = "note" /\ at' = [at EXCEPT ![r] = "gate"]
         /\ risk' = [risk EXCEPT ![mine[r]] = seen[r] + plus]
         /\ seen' = [seen EXCEPT ![r] = seen[r] + plus]
         /\ busy' = [busy EXCEPT ![mine[r]] = NoSession]
         /\ UNCHANGED <<ask, client, sessions, mine, reports, ban, edge, view, others, warned>>
  <2>1. CASE Intercept(r)
    BY <2>1 DEF Intercept, Step, Unlock, banVars, InterceptRisk
  <2>2. CASE NoteScanner(r)
    BY <2>2 DEF NoteScanner, Step, Unlock, banVars, ScannerRisk
  <2> QED
    BY <2>1, <2>2
<1>3. /\ mine[r] \in Requests /\ sessions[client[r]] = mine[r] /\ client[r] \in Addresses
      /\ seen[r] = risk[mine[r]] /\ busy[mine[r]] = r /\ at[mine[r]] \in Served
  <2>1. mine[r] \in Requests /\ sessions[client[r]] = mine[r] /\ seen[r] = risk[mine[r]] /\ busy[mine[r]] = r
    BY <1>2 DEF SessionsMatch, Served, LocksHeld
  <2>2. client[r] \in Addresses
    BY <1>2, ResolveType DEF SessionsMatch, DeceptionTypeOK
  <2> QED
    BY <1>1, <2>1, <2>2 DEF SessionsMatch
<1>4. plus = 25 <=> ask[r].probe
  BY <1>2 DEF HandlersKnow
<1>5. \A i \in Requests \ {r} : (Caught(i)' <=> Caught(i)) /\ at'[i] = at[i]
  BY <1>1, <1>2 DEF Caught
<1>6. ~Caught(r) /\ Caught(r)'
  BY <1>1, <1>2, <1>4 DEF Caught, HandlersKnow
<1>7. DeceptionTypeOK'
  <2>1. at' \in [Requests -> HandlerSteps]
    BY <1>1, <1>2 DEF HandlerSteps
  <2>2. risk' \in [Requests -> Nat] /\ seen' \in [Requests -> Nat]
    BY <1>1, <1>2, <1>3
  <2>3. busy' \in [Requests -> Requests \cup {NoSession}]
    BY <1>1, <1>2, <1>3
  <2> QED
    BY <1>2, <2>1, <2>2, <2>3 DEF DeceptionTypeOK
<1>8. SessionsMatch'
  <2>1. \A i \in Requests : (at'[i] \in Served <=> at[i] \in Served) /\ (at'[i] = "idle" <=> at[i] = "idle")
    BY <1>1, <1>2 DEF Served
  <2>2. \A i \in Requests : at'[i] \in {"idle", "session"} => risk'[i] = 0
    <3> SUFFICES ASSUME NEW i \in Requests, at'[i] \in {"idle", "session"} PROVE risk'[i] = 0
      OBVIOUS
    <3>1. at[i] \in {"idle", "session"}
      BY <1>1, <1>2
    <3>2. i # mine[r]
      BY <1>3, <3>1 DEF Served
    <3> QED
      BY <1>1, <1>2, <1>3, <3>1, <3>2 DEF SessionsMatch
  <2> QED
    BY <1>2, <2>1, <2>2 DEF SessionsMatch
<1>9. HandlersKnow'
  BY <1>1, <1>2, <1>4 DEF HandlersKnow
<1>10. LocksHeld'
  <2> SUFFICES ASSUME NEW i \in Requests, at'[i] \in {"add", "note"}
               PROVE  busy'[mine[i]] = i /\ seen'[i] = risk'[mine[i]]
    BY <1>2 DEF LocksHeld
  <2>1. i # r /\ at[i] = at'[i]
    BY <1>1, <1>2
  <2>2. busy[mine[i]] = i /\ seen[i] = risk[mine[i]]
    BY <2>1 DEF LocksHeld
  <2>3. mine[i] # mine[r]
    BY <1>3, <2>1, <2>2
  <2> QED
    BY <1>1, <1>2, <1>3, <2>1, <2>2, <2>3
<1>11. ScoresAdd'
  <2> SUFFICES ASSUME NEW a \in Addresses, sessions[a] # NoSession
               PROVE  (risk[sessions[a]] = 25 * Cardinality(Probes(a)) + 10 * Cardinality(Tools(a)))'
    BY <1>2 DEF ScoresAdd
  <2>1. /\ IsFiniteSet(Probes(a)) /\ IsFiniteSet(Tools(a))
        /\ Cardinality(Probes(a)) \in Nat /\ Cardinality(Tools(a)) \in Nat
    BY RequestsFinite DEF Probes, Tools
  <2>2. risk[sessions[a]] = 25 * Cardinality(Probes(a)) + 10 * Cardinality(Tools(a))
    BY DEF ScoresAdd
  <2>3. CASE a # client[r]
    <3>1. Probes(a)' = Probes(a) /\ Tools(a)' = Tools(a)
      BY <1>2, <1>5, <2>3 DEF Probes, Tools
    <3>2. sessions[a] # mine[r] /\ sessions[a] \in Requests
      BY <1>1, <1>3, <2>3 DEF SessionsMatch
    <3> QED
      BY <1>1, <1>2, <1>3, <2>2, <3>1, <3>2
  <2>4. CASE a = client[r]
    <3>1. risk'[sessions'[a]] = risk[sessions[a]] + plus
      BY <1>1, <1>2, <1>3, <2>4
    <3>2. CASE ask[r].probe
      <4>1. Probes(a)' = Probes(a) \cup {r} /\ r \notin Probes(a) /\ Tools(a)' = Tools(a)
        BY <1>2, <1>5, <1>6, <2>4, <3>2 DEF Probes, Tools
      <4>2. Cardinality(Probes(a)') = Cardinality(Probes(a)) + 1
        BY <2>1, <4>1, FS_AddElement
      <4> QED
        BY <1>4, <2>1, <2>2, <3>1, <3>2, <4>1, <4>2
    <3>3. CASE ~ask[r].probe
      <4>1. Tools(a)' = Tools(a) \cup {r} /\ r \notin Tools(a) /\ Probes(a)' = Probes(a)
        BY <1>2, <1>5, <1>6, <2>4, <3>3 DEF Probes, Tools
      <4>2. Cardinality(Tools(a)') = Cardinality(Tools(a)) + 1
        BY <2>1, <4>1, FS_AddElement
      <4>3. plus = 10
        BY <1>4, <3>3
      <4> QED
        BY <2>1, <2>2, <3>1, <4>1, <4>2, <4>3
    <3> QED
      BY <3>2, <3>3
  <2> QED
    BY <2>3, <2>4
<1>12. Warnings'
  <2>1. \A i \in Requests : (Caught(i) => Caught(i)') /\ (at'[i] = "idle" <=> at[i] = "idle")
                            /\ (at'[i] = "proxied" <=> at[i] = "proxied")
    BY <1>1, <1>2, <1>5, <1>6
  <2> QED
    BY <1>2, <2>1, WarningsStay DEF DeceptionTypeOK, Warnings
<1>13. BansKept'
  BY <1>1, <1>2 DEF BansKept, BansStay
<1> QED
  BY <1>7, <1>8, <1>9, <1>10, <1>11, <1>12, <1>13

\* The gate, the reports and the start of the bans leave scores and sessions alone.
LEMMA OnwardSafe ==
    ASSUME DeceptionInv, NEW r \in Requests,
           Gate(r) \/ Record(r) \/ RecordFails(r) \/ Publish(r) \/ Dispatch(r)
    PROVE  DeceptionInv'
<1> USE DEF DeceptionInv
<1>1. at \in [Requests -> HandlerSteps] /\ risk \in [Requests -> Nat]
  BY DEF DeceptionTypeOK
<1>2. PICK to \in {"answered", "proxied", "publish", "dispatch"} :
         /\ at' = [at EXCEPT ![r] = to]
         /\ to = "answered" => at[r] \in {"gate", "dispatch"}
         /\ to = "proxied" => at[r] = "gate" /\ risk[mine[r]] < Threshold
         /\ to = "publish" => at[r] = "record"
         /\ to = "dispatch" => at[r] = "publish"
         /\ UNCHANGED <<ask, client, sessions, mine, risk, busy, seen, edge, view, others, warned>>
  <2>1. CASE Gate(r)
    BY <2>1 DEF Gate, Step, sessionVars, banVars
  <2>2. CASE Record(r) \/ RecordFails(r)
    BY <2>2 DEF Record, RecordFails, Step, sessionVars, banVars
  <2>3. CASE Publish(r)
    BY <2>3 DEF Publish, Step, sessionVars, banVars
  <2>4. CASE Dispatch(r)
    <3>1. Step(r, "dispatch", "answered") /\ UNCHANGED <<ask, sessionVars, edge, view, others, warned>>
      BY <2>4 DEF Dispatch
    <3> QED
      BY <3>1 DEF Step, sessionVars
  <2> QED
    BY <2>1, <2>2, <2>3, <2>4
<1>3. at[r] \in {"gate", "record", "publish", "dispatch"}
  BY <1>2
<1>4. \A i \in Requests : (Caught(i)' <=> Caught(i)) /\ (at'[i] \in Served <=> at[i] \in Served)
  <2>1. \A i \in Requests \ {r} : at'[i] = at[i]
    BY <1>1, <1>2
  <2>2. at'[r] = to /\ (at[r] = "gate" <=> ~ask[r].probe)
    BY <1>1, <1>2, <1>3 DEF HandlersKnow
  <2> QED
    BY <1>2, <1>3, <2>1, <2>2 DEF Caught, Served
<1>5. \A i \in Requests : at'[i] \in {"idle", "session", "lock", "add", "note", "gate"} => at'[i] = at[i]
  BY <1>1, <1>2
<1>6. DeceptionTypeOK'
  <2>1. at' \in [Requests -> HandlerSteps]
    BY <1>1, <1>2 DEF HandlerSteps
  <2>2. reports' \subseteq Requests \X Places
    <3>1. Due(r) \subseteq Places
      BY DEF Due, Places
    <3> QED
      BY <3>1 DEF Gate, Record, RecordFails, Publish, Dispatch, DeceptionTypeOK, Places
  <2>3. ban' \in [Requests -> [Providers -> BanSteps]]
    <3>1. CASE Dispatch(r)
      BY <3>1 DEF Dispatch, DeceptionTypeOK, BanSteps
    <3>2. CASE UNCHANGED banVars
      BY <3>2 DEF banVars, DeceptionTypeOK
    <3> QED
      BY <3>1, <3>2 DEF Gate, Record, RecordFails, Publish
  <2> QED
    BY <1>2, <2>1, <2>2, <2>3 DEF DeceptionTypeOK
<1>7. SessionsMatch'
  <2>1. \A i \in Requests : at'[i] # "idle" => at[i] # "idle"
    BY <1>1, <1>2, <1>3
  <2> QED
    BY <1>2, <1>4, <1>5, <2>1 DEF SessionsMatch
<1>8. HandlersKnow'
  BY <1>1, <1>2, <1>3 DEF HandlersKnow
<1>9. LocksHeld'
  BY <1>2, <1>5 DEF LocksHeld
<1>10. ScoresAdd'
  <2>1. \A a : Probes(a)' = Probes(a) /\ Tools(a)' = Tools(a)
    BY <1>2, <1>4, CountsStay
  <2> QED
    BY <1>2, <2>1 DEF ScoresAdd
<1>11. ASSUME r \in warned, to = "proxied" PROVE TrustsHeaders(ask[r].peer)
  <2> DEFINE a == ask[r].peer
  <2> SUFFICES ASSUME ~TrustsHeaders(a) PROVE FALSE
    OBVIOUS
  <2>1. a \in Addresses /\ client[r] = a
    BY <1>3 DEF SessionsMatch, ResolveClientIP, DeceptionTypeOK, Ask
  <2>2. sessions[a] = mine[r] /\ mine[r] \in Requests /\ NoSession \notin Requests
    BY <1>3, <2>1, DeceptionAssumption DEF SessionsMatch, Served
  <2>3. risk[mine[r]] = 25 * Cardinality(Probes(a)) + 10 * Cardinality(Tools(a))
    BY <2>1, <2>2 DEF ScoresAdd
  <2>4. PeerRisk(a) <= risk[mine[r]]
    BY <2>3, PeerRiskCounts
  <2>5. PeerRisk(a) >= Threshold
    BY <1>11, <2>1 DEF Warnings
  <2>6. PeerRisk(a) \in Nat
    BY RequestsFinite DEF PeerRisk, RiskOf, FromPeer, InterceptRisk, ScannerRisk
  <2> QED
    BY <1>1, <1>2, <1>11, <2>2, <2>4, <2>5, <2>6, DeceptionAssumption
<1>12. Warnings'
  <2>1. \A i \in Requests : at'[i] # "idle" <=> at[i] # "idle"
    BY <1>1, <1>2, <1>3
  <2>2. \A i \in warned : at'[i] = "proxied" => at[i] = "proxied" \/ TrustsHeaders(ask[i].peer)
    BY <1>1, <1>2, <1>11 DEF DeceptionTypeOK
  <2> QED
    BY <1>2, <1>4, <2>1, <2>2, WarningsStay DEF DeceptionTypeOK, Warnings
<1>13. BansKept'
  <2>1. \A i \in Requests : at'[i] = "idle" => at[i] = "idle" /\ i # r
    BY <1>1, <1>2, <1>3
  <2>2. CASE Dispatch(r)
    <3>1. \A i \in Requests, p \in Providers :
              /\ ban'[i][p] = "done" => ban[i][p] = "done"
              /\ i # r => ban'[i][p] = ban[i][p]
      BY <2>2 DEF Dispatch, DeceptionTypeOK
    <3> QED
      BY <1>2, <2>1, <3>1 DEF BansKept, BansStay
  <2>3. CASE UNCHANGED banVars
    BY <1>2, <2>1, <2>3 DEF banVars, BansKept, BansStay
  <2> QED
    BY <2>2, <2>3 DEF Gate, Record, RecordFails, Publish
<1> QED
  BY <1>6, <1>7, <1>8, <1>9, <1>10, <1>12, <1>13

\* What the providers do leaves the handlers alone, and their lists only grow.
LEMMA BanSafe ==
    ASSUME DeceptionInv, NEW r \in Requests, NEW p \in Providers, BanSome(r, p)
    PROVE  DeceptionInv'
<1> USE DEF DeceptionInv
<1>1. /\ ban \in [Requests -> [Providers -> BanSteps]] /\ edge \in [Providers -> SUBSET Addresses]
      /\ view \in [Requests -> SUBSET Addresses]
  BY DEF DeceptionTypeOK
<1>2. PICK to \in {"done", "failed", "read", "conflict"} :
         /\ ban[r][p] \in {"asked", "read"} /\ ban' = [ban EXCEPT ![r][p] = to]
         /\ UNCHANGED <<at, ask, client, sessions, mine, risk, busy, seen, reports, others, warned>>
         /\ view' \in [Requests -> SUBSET Addresses]
         /\ \/ edge' = edge /\ (to = "done" => client[r] \in edge[p])
            \/ edge' = [edge EXCEPT ![p] = edge[p] \cup {client[r]}]
  <2>1. CASE Post(r, p)
    BY <1>1, <2>1 DEF Post, Banning, sessionVars
  <2>2. CASE BanFails(r, p)
    BY <1>1, <2>2 DEF BanFails, Banning, sessionVars
  <2>3. CASE p = "aws" /\ GetIPSet(r)
    BY <1>1, <2>3 DEF GetIPSet, Banning, sessionVars
  <2>4. CASE p = "aws" /\ UpdateIPSet(r)
    BY <1>1, <2>4 DEF UpdateIPSet, Banning, sessionVars
  <2>5. CASE p = "aws" /\ UpdateConflicts(r)
    BY <1>1, <2>5 DEF UpdateConflicts, Banning, sessionVars
  <2> QED
    BY <2>1, <2>2, <2>3, <2>4, <2>5 DEF BanSome
<1>3. at[r] # "idle" /\ client[r] \in Addresses
  <2>1. at[r] # "idle"
    BY <1>2 DEF BansKept
  <2> QED
    BY <2>1, ResolveType DEF SessionsMatch, DeceptionTypeOK
<1>4. DeceptionTypeOK'
  <2>1. edge' \in [Providers -> SUBSET Addresses]
    BY <1>1, <1>2, <1>3
  <2>2. ban' \in [Requests -> [Providers -> BanSteps]]
    BY <1>1, <1>2 DEF BanSteps
  <2> QED
    BY <1>2, <2>1, <2>2 DEF DeceptionTypeOK
<1>5. \A i \in Requests : Caught(i)' <=> Caught(i)
  BY <1>2 DEF Caught
<1>6. SessionsMatch' /\ HandlersKnow' /\ LocksHeld'
  BY <1>2 DEF SessionsMatch, HandlersKnow, LocksHeld
<1>7. ScoresAdd'
  <2>1. \A a : Probes(a)' = Probes(a) /\ Tools(a)' = Tools(a)
    BY <1>2, <1>5, CountsStay
  <2> QED
    BY <1>2, <2>1 DEF ScoresAdd
<1>8. Warnings'
  BY <1>2, <1>5, WarningsStay DEF DeceptionTypeOK, Warnings
<1>9. BansKept'
  <2>1. \A i \in Requests, q \in Providers : i # r \/ q # p => ban'[i][q] = ban[i][q]
    BY <1>1, <1>2
  <2>2. ban'[r][p] = to /\ \A q \in Providers : edge[q] \subseteq edge'[q]
    BY <1>1, <1>2
  <2>3. to = "done" => client[r] \in edge'[p]
    BY <1>1, <1>2
  <2>4. BansStay'
    BY <1>2, <2>1, <2>2, <2>3 DEF BansKept, BansStay
  <2> QED
    BY <1>2, <1>3, <2>1, <2>4 DEF BansKept
<1> QED
  BY <1>4, <1>6, <1>7, <1>8, <1>9

\* The edge Blocker leaves the engine alone, and its list only grows.
LEMMA BlockerSafe ==
    ASSUME DeceptionInv, NEW a \in Addresses, BlockerUpdates(a)
    PROVE  DeceptionInv'
<1> USE DEF DeceptionInv
<1>1. /\ "aws" \in Providers /\ edge \in [Providers -> SUBSET Addresses] /\ others \subseteq Addresses
      /\ edge' = [edge EXCEPT !["aws"] = edge["aws"] \cup {a}] /\ others' = others \cup {a}
      /\ UNCHANGED <<at, ask, client, sessions, mine, risk, busy, seen, reports, ban, view, warned>>
  BY DEF BlockerUpdates, DeceptionTypeOK, sessionVars
<1>2. DeceptionTypeOK'
  BY <1>1 DEF DeceptionTypeOK
<1>3. \A i \in Requests : Caught(i)' <=> Caught(i)
  BY <1>1 DEF Caught
<1>4. SessionsMatch' /\ HandlersKnow' /\ LocksHeld'
  BY <1>1 DEF SessionsMatch, HandlersKnow, LocksHeld
<1>5. ScoresAdd'
  <2>1. \A c : Probes(c)' = Probes(c) /\ Tools(c)' = Tools(c)
    BY <1>1, <1>3, CountsStay
  <2> QED
    BY <1>1, <2>1 DEF ScoresAdd
<1>6. Warnings'
  BY <1>1, <1>3, WarningsStay DEF DeceptionTypeOK, Warnings
<1>7. BansKept'
  <2>1. \A p \in Providers : edge[p] \subseteq edge'[p]
    BY <1>1
  <2>2. others' \subseteq edge'["aws"]
    BY <1>1 DEF BansKept, BansStay
  <2> QED
    BY <1>1, <2>1, <2>2 DEF BansKept, BansStay
<1> QED
  BY <1>2, <1>4, <1>5, <1>6, <1>7

\* The end of the process forgets the sessions and keeps the bans.
LEMMA DeceptionEndsSafe ==
    ASSUME DeceptionInv, DeceptionEnds
    PROVE  DeceptionInv'
<1> USE DEF DeceptionInv, DeceptionEnds
<1>1. DeceptionTypeOK'
  BY DEF DeceptionTypeOK, HandlerSteps, BanSteps
<1>2. \A r \in Requests : at'[r] \in {"idle", "gone"} /\ (at'[r] = "idle" <=> at[r] = "idle")
  OBVIOUS
<1>3. SessionsMatch' /\ HandlersKnow' /\ LocksHeld' /\ ScoresAdd'
  BY <1>2 DEF SessionsMatch, HandlersKnow, LocksHeld, ScoresAdd, Served
<1>4. Warnings'
  BY DEF Warnings, GateHolds
<1>5. BansKept'
  BY <1>2 DEF BansKept, BansStay
<1> QED
  BY <1>1, <1>3, <1>4, <1>5

\* No step of the engine, or around it, breaks a score, the gate or a ban.
LEMMA DeceptionPreserves ==
    ASSUME mode \in Modes, DeceptionInv, DeceptionStep \/ DeceptionEnds \/ UNCHANGED deceptionVars
    PROVE  DeceptionInv'
<1>1. CASE UNCHANGED deceptionVars
  <2>1. UNCHANGED <<at, ask, client, sessions, mine, risk, busy, seen, reports, ban, edge, view, others, warned>>
    BY <1>1 DEF deceptionVars, sessionVars, banVars
  <2>2. \A r \in Requests : Caught(r)' <=> Caught(r)
    BY <2>1 DEF Caught
  <2>3. Warnings'
    BY <2>1, <2>2, WarningsStay DEF DeceptionInv, DeceptionTypeOK, Warnings
  <2>4. \A a : Probes(a)' = Probes(a) /\ Tools(a)' = Tools(a)
    BY <2>1, <2>2, CountsStay
  <2> QED
    BY <2>1, <2>3, <2>4 DEF DeceptionInv, DeceptionTypeOK, SessionsMatch, HandlersKnow, LocksHeld,
                           ScoresAdd, BansKept, BansStay
<1> QED
  BY <1>1, RequestSafe, GetSessionSafe, LockSessionSafe, UnlockSafe, OnwardSafe, BanSafe,
     BlockerSafe, DeceptionEndsSafe DEF DeceptionStep, Handle

-----------------------------------------------------------------------------
\* The reports that a handler is past and that were not made: what MissingReports
\* becomes once the handler has answered.
LostReports ==
    {x \in Requests \X Places :
        /\ ask[x[1]].probe /\ x \notin reports
        /\ at[x[1]] \in (IF x[2] = "ledger" THEN {"publish"} ELSE {}) \cup {"dispatch", "answered"}
        /\ x[2] # "ledger" => bus
        /\ x[2] = "disrupt" => Escalated(x[1])}

\* The first half of LossExplained, while handlers are still at work.
LossKept == Cardinality(LostReports) + Cardinality(MissingBans) <= faults

\* Where an address of the AWS list comes from.
PutThere(a) == a \in others \/ \E q \in Requests : ban[q]["aws"] = "done" /\ client[q] = a

\* The second half, with what leads to a conflict; and a request bans nobody
\* before it is answered.
BansMeet ==
    /\ \A r \in Requests, p \in Providers : at[r] \notin {"answered", "gone"} => ban[r][p] = "idle"
    /\ "aws" \in Providers =>
           /\ \A a \in edge["aws"] : PutThere(a)
           /\ \A r \in Requests : view[r] \subseteq edge["aws"]
           /\ \A r \in Requests : ban[r]["aws"] = "conflict" => view[r] # edge["aws"]

\* There are finitely many reports and bans to lose.
LEMMA LossesFinite ==
    /\ IsFiniteSet(Requests \X Places) /\ IsFiniteSet(Requests \X Providers)
    /\ IsFiniteSet(LostReports) /\ Cardinality(LostReports) \in Nat
    /\ IsFiniteSet(MissingReports) /\ Cardinality(MissingReports) \in Nat
    /\ IsFiniteSet(MissingBans) /\ Cardinality(MissingBans) \in Nat
<1>1. IsFiniteSet(Requests)
  BY RequestsFinite
<1>2. IsFiniteSet(Places)
  <2>1. IsFiniteSet(((({} \cup {"ledger"}) \cup {"attack"}) \cup {"honeypot"}) \cup {"disrupt"})
    BY FS_EmptySet, FS_AddElement
  <2>2. ((({} \cup {"ledger"}) \cup {"attack"}) \cup {"honeypot"}) \cup {"disrupt"} = Places
    BY DEF Places
  <2> QED
    BY <2>1, <2>2
<1>3. IsFiniteSet(Providers)
  <2>1. IsFiniteSet((({} \cup {"cloudflare"}) \cup {"aws"}) \cup {"webhook"})
    BY FS_EmptySet, FS_AddElement
  <2>2. (({} \cup {"cloudflare"}) \cup {"aws"}) \cup {"webhook"} = {"cloudflare", "aws", "webhook"}
    OBVIOUS
  <2> QED
    BY <2>1, <2>2, FS_Subset, DeceptionAssumption
<1>4. IsFiniteSet(Requests \X Places) /\ IsFiniteSet(Requests \X Providers)
  BY <1>1, <1>2, <1>3, FS_Product
<1>5. /\ LostReports \in SUBSET (Requests \X Places)
      /\ MissingReports \in SUBSET (Requests \X Places)
      /\ MissingBans \in SUBSET (Requests \X Providers)
  BY DEF LostReports, MissingReports, MissingBans
<1> QED
  BY <1>4, <1>5, FS_Subset, FS_CardinalityType

\* What a step loses is paid for by its failures.
LEMMA LossCovered ==
    ASSUME LossKept, faults \in Nat, faults' \in Nat, NEW A, NEW B, IsFiniteSet(A), IsFiniteSet(B),
           LostReports' \subseteq LostReports \cup A, MissingBans' \subseteq MissingBans \cup B,
           faults' >= faults + Cardinality(A) + Cardinality(B)
    PROVE  LossKept'
<1>1. ASSUME NEW S, NEW T, IsFiniteSet(S), IsFiniteSet(T)
      PROVE  /\ IsFiniteSet(S \cup T)
             /\ Cardinality(S \cup T) <= Cardinality(S) + Cardinality(T)
  <2>1. IsFiniteSet(S \cup T)
    BY <1>1, FS_Union
  <2>2. Cardinality(S \cup T) = Cardinality(S) + Cardinality(T) - Cardinality(S \cap T)
    BY <1>1, FS_Union
  <2>3. IsFiniteSet(S \cap T) /\ S \cap T \in SUBSET S
    BY <1>1, FS_Intersection
  <2>4. Cardinality(S) \in Nat /\ Cardinality(T) \in Nat /\ Cardinality(S \cap T) \in Nat
    BY <1>1, <2>3, FS_CardinalityType
  <2> QED
    BY <2>1, <2>2, <2>4
<1>2. /\ Cardinality(LostReports') <= Cardinality(LostReports) + Cardinality(A)
      /\ Cardinality(LostReports') \in Nat
  <2>1. IsFiniteSet(LostReports \cup A) /\ LostReports' \in SUBSET (LostReports \cup A)
    BY <1>1, LossesFinite
  <2>2. Cardinality(LostReports') <= Cardinality(LostReports \cup A) /\ Cardinality(LostReports') \in Nat
    BY <2>1, FS_Subset, FS_CardinalityType
  <2>3. Cardinality(LostReports \cup A) <= Cardinality(LostReports) + Cardinality(A)
    BY <1>1, LossesFinite
  <2>4. Cardinality(LostReports \cup A) \in Nat /\ Cardinality(LostReports) \in Nat /\ Cardinality(A) \in Nat
    BY <2>1, LossesFinite, FS_CardinalityType
  <2> QED
    BY <2>2, <2>3, <2>4
<1>3. /\ Cardinality(MissingBans') <= Cardinality(MissingBans) + Cardinality(B)
      /\ Cardinality(MissingBans') \in Nat
  <2>1. IsFiniteSet(MissingBans \cup B) /\ MissingBans' \in SUBSET (MissingBans \cup B)
    BY <1>1, LossesFinite
  <2>2. Cardinality(MissingBans') <= Cardinality(MissingBans \cup B) /\ Cardinality(MissingBans') \in Nat
    BY <2>1, FS_Subset, FS_CardinalityType
  <2>3. Cardinality(MissingBans \cup B) <= Cardinality(MissingBans) + Cardinality(B)
    BY <1>1, LossesFinite
  <2>4. Cardinality(MissingBans \cup B) \in Nat /\ Cardinality(MissingBans) \in Nat /\ Cardinality(B) \in Nat
    BY <2>1, LossesFinite, FS_CardinalityType
  <2> QED
    BY <2>2, <2>3, <2>4
<1>4. /\ Cardinality(LostReports) \in Nat /\ Cardinality(MissingBans) \in Nat
      /\ Cardinality(A) \in Nat /\ Cardinality(B) \in Nat
  BY LossesFinite, FS_CardinalityType
<1>5. \A l, m, ll, mm, a, b, f, ff \in Nat :
          l + m <= f /\ ll <= l + a /\ mm <= m + b /\ ff >= f + a + b => ll + mm <= ff
  OBVIOUS
<1> QED
  BY <1>2, <1>3, <1>4, <1>5 DEF LossKept

LEMMA NothingLost ==
    ASSUME LossKept, faults \in Nat, faults' \in Nat, faults' >= faults,
           LostReports' \subseteq LostReports, MissingBans' \subseteq MissingBans
    PROVE  LossKept'
BY LossCovered, FS_EmptySet

\* Whatever happens to a request until its detection is recorded, or if it has none,
\* loses nothing.
LEMMA EarlyStepsKeep ==
    ASSUME LossKept, faults \in Nat, UNCHANGED <<faults, bus, dry, reports, ban>>, NEW r \in Requests,
           \A i \in Requests \ {r} :
               /\ at'[i] = at[i] /\ ask'[i] = ask[i] /\ seen'[i] = seen[i] /\ client'[i] = client[i],
           at'[r] \notin {"publish", "dispatch", "answered"} \/ ~ask'[r].probe
    PROVE  LossKept'
<1>1. LostReports' \subseteq LostReports
  BY DEF LostReports, Escalated
<1>2. MissingBans' \subseteq MissingBans
  BY DEF MissingBans, DueBlock, Bannable
<1> QED
  BY <1>1, <1>2, NothingLost

LEMMA EarlySteps ==
    ASSUME DeceptionTypeOK, HandlersKnow, NEW r \in Requests,
           \/ Request(r) \/ GetSession(r) \/ LockSession(r)
           \/ Intercept(r) \/ NoteScanner(r) \/ Gate(r)
    PROVE  /\ UNCHANGED <<faults, reports, ban, edge, view, others>>
           /\ \A i \in Requests \ {r} :
                 /\ at'[i] = at[i] /\ ask'[i] = ask[i] /\ seen'[i] = seen[i] /\ client'[i] = client[i]
           /\ at[r] \notin {"answered", "gone"}
           /\ at'[r] \notin {"publish", "dispatch", "answered"} \/ ~ask'[r].probe
<1>1. /\ at \in [Requests -> HandlerSteps] /\ ask \in [Requests -> Ask]
      /\ client \in [Requests -> Addresses \cup {NoClaim}] /\ seen \in [Requests -> Nat]
  BY DEF DeceptionTypeOK
<1>2. CASE Request(r)
  <2>1. PICK q : ask' = [ask EXCEPT ![r] = q] /\ client' = [client EXCEPT ![r] = ResolveClientIP(q)]
    BY <1>2, Zenon DEF Request
  <2> QED
    BY <1>1, <1>2, <2>1 DEF Request, Step, banVars
<1>3. CASE GetSession(r)
  BY <1>1, <1>3 DEF GetSession, Step, Sorted, banVars
<1>4. CASE LockSession(r)
  BY <1>1, <1>4 DEF LockSession, Step, banVars
<1>5. CASE Intercept(r) \/ NoteScanner(r)
  BY <1>1, <1>5 DEF Intercept, NoteScanner, Unlock, Step, banVars
<1>6. CASE Gate(r)
  BY <1>1, <1>6 DEF Gate, Step, sessionVars, banVars, HandlersKnow
<1> QED
  BY <1>2, <1>3, <1>4, <1>5, <1>6

\* RecordAndDispatch: a report is lost only with an error, and a ban is asked for.
LEMMA DispatchKeeps ==
    ASSUME DeceptionTypeOK, LossKept, faults \in Nat, faults' \in Nat, faults' >= faults,
           UNCHANGED <<bus, dry>>, NEW r \in Requests,
           Record(r) \/ RecordFails(r) \/ Publish(r) \/ Dispatch(r)
    PROVE  LossKept'
<1>1. at \in [Requests -> HandlerSteps] /\ ban \in [Requests -> [Providers -> BanSteps]]
  BY DEF DeceptionTypeOK
<1>2. UNCHANGED <<ask, client, seen>>
  BY DEF Record, RecordFails, Publish, Dispatch, sessionVars
<1>3. ASSUME NEW to, to \in {"publish", "dispatch"}, at' = [at EXCEPT ![r] = to], ban' = ban
      PROVE  MissingBans' \subseteq MissingBans
  BY <1>1, <1>2, <1>3 DEF MissingBans, DueBlock, Bannable
<1>4. CASE Record(r)
  <2>1. at' = [at EXCEPT ![r] = "publish"] /\ reports' = reports \cup {<<r, "ledger">>} /\ ban' = ban
    BY <1>4 DEF Record, Step, banVars
  <2>2. LostReports' \subseteq LostReports
    BY <1>1, <1>2, <2>1 DEF LostReports, Escalated, Places
  <2> QED
    BY <1>3, <2>1, <2>2, NothingLost
<1>5. CASE RecordFails(r)
  <2>1. /\ at' = [at EXCEPT ![r] = "publish"] /\ UNCHANGED <<reports, ban>>
        /\ faults' = faults + 1
    BY <1>5 DEF RecordFails, Step, banVars, Fault
  <2>2. LostReports' \subseteq LostReports \cup {<<r, "ledger">>}
    BY <1>1, <1>2, <2>1 DEF LostReports, Escalated, Places
  <2>3. /\ IsFiniteSet({<<r, "ledger">>}) /\ Cardinality({<<r, "ledger">>}) = 1
        /\ IsFiniteSet({}) /\ Cardinality({}) = 0
    BY FS_EmptySet, FS_Singleton
  <2>4. MissingBans' \subseteq MissingBans \cup {}
    BY <1>3, <2>1
  <2> QED
    BY <2>1, <2>2, <2>3, <2>4, LossCovered
<1>6. CASE Publish(r)
  <2>1. PICK lost \in SUBSET Due(r) :
            faults' = faults + Cardinality(lost) /\ reports' = reports \cup ({r} \X (Due(r) \ lost))
    BY <1>6 DEF Publish
  <2>2. at[r] = "publish" /\ at' = [at EXCEPT ![r] = "dispatch"] /\ ban' = ban
    BY <1>6 DEF Publish, Step, banVars
  <2>3. LostReports' \subseteq LostReports \cup ({r} \X lost)
    <3> SUFFICES ASSUME NEW x \in LostReports', x \notin LostReports PROVE x \in {r} \X lost
      OBVIOUS
    <3>1. /\ x = <<x[1], x[2]>> /\ x[1] \in Requests /\ x[2] \in Places
          /\ ask[x[1]].probe /\ x \notin reports'
          /\ at'[x[1]] \in (IF x[2] = "ledger" THEN {"publish"} ELSE {}) \cup {"dispatch", "answered"}
          /\ x[2] # "ledger" => bus
          /\ x[2] = "disrupt" => Escalated(x[1])
      BY <1>2 DEF LostReports, Escalated
    <3>2. x[1] = r
      BY <1>1, <2>1, <2>2, <3>1 DEF LostReports
    <3>3. x[2] # "ledger"
      BY <1>1, <2>1, <2>2, <3>1, <3>2 DEF LostReports
    <3>4. x[2] \in Due(r)
      BY <3>1, <3>2, <3>3 DEF Due, Places
    <3> QED
      BY <2>1, <3>1, <3>2, <3>4
  <2>4. IsFiniteSet(lost) /\ IsFiniteSet({r} \X lost) /\ Cardinality({r} \X lost) = Cardinality(lost)
    <3>1. Due(r) \in SUBSET Places
      BY DEF Due, Places
    <3>2. IsFiniteSet({r}) /\ Cardinality({r}) = 1 /\ IsFiniteSet({r} \X lost)
      <4>1. {r} \X lost \in SUBSET (Requests \X Places)
        BY <3>1
      <4> QED
        BY <4>1, FS_Singleton, FS_Subset, LossesFinite
    <3>3. IsFiniteSet(lost)
      <4>1. IsFiniteSet((({} \cup {"attack"}) \cup {"honeypot"}) \cup {"disrupt"})
        BY FS_EmptySet, FS_AddElement
      <4>2. lost \in SUBSET ((({} \cup {"attack"}) \cup {"honeypot"}) \cup {"disrupt"})
        BY DEF Due
      <4> QED
        BY <4>1, <4>2, FS_Subset
    <3>4. Cardinality({r} \X lost) = Cardinality({r}) * Cardinality(lost)
      BY <3>2, <3>3, FS_Product
    <3> QED
      BY <3>2, <3>3, <3>4, FS_CardinalityType
  <2>5. IsFiniteSet({}) /\ Cardinality({}) = 0 /\ Cardinality(lost) \in Nat
    BY <2>4, FS_EmptySet, FS_CardinalityType
  <2>6. MissingBans' \subseteq MissingBans \cup {}
    BY <1>3, <2>2
  <2> QED
    BY <2>1, <2>3, <2>4, <2>5, <2>6, LossCovered
<1>7. CASE Dispatch(r)
  <2>1. /\ at[r] = "dispatch" /\ at' = [at EXCEPT ![r] = "answered"] /\ reports' = reports
        /\ ban' = IF ~Escalated(r) THEN ban
                  ELSE [ban EXCEPT ![r] = [p \in Providers |->
                           IF Bannable(client[r]) \/ (p = "webhook" /\ ~dry) THEN "asked" ELSE "refused"]]
    BY <1>7 DEF Dispatch, Step
  <2>2. LostReports' \subseteq LostReports
    BY <1>1, <1>2, <2>1 DEF LostReports, Escalated
  <2>3. MissingBans' \subseteq MissingBans
    <3> SUFFICES ASSUME NEW x \in MissingBans', x[1] = r PROVE FALSE
      BY <1>1, <1>2, <2>1 DEF MissingBans, DueBlock, Bannable
    <3>1. x[2] \in Providers /\ Escalated(r) /\ Bannable(client[r]) /\ ban'[r][x[2]] \in {"idle", "refused", "failed"}
      BY <1>2 DEF MissingBans, DueBlock, Bannable, Escalated
    <3>2. ban'[r][x[2]] = "asked"
      BY <1>1, <2>1, <3>1
    <3> QED
      BY <3>1, <3>2
  <2> QED
    BY <2>2, <2>3, NothingLost
<1> QED
  BY <1>4, <1>5, <1>6, <1>7

\* A provider's call loses a ban only if it fails.
LEMMA BanKeeps ==
    ASSUME DeceptionTypeOK, LossKept, faults \in Nat, faults' \in Nat, faults' >= faults,
           UNCHANGED <<bus, dry>>, NEW r \in Requests, NEW p \in Providers, BanSome(r, p)
    PROVE  LossKept'
<1>1. ban \in [Requests -> [Providers -> BanSteps]]
  BY DEF DeceptionTypeOK
<1>2. PICK to \in {"done", "failed", "read", "conflict"} :
         /\ ban' = [ban EXCEPT ![r][p] = to]
         /\ UNCHANGED <<at, ask, client, seen, reports>>
         /\ to = "failed" => faults' = faults + 1
  <2>1. CASE Post(r, p)
    BY <2>1 DEF Post, Banning, sessionVars
  <2>2. CASE BanFails(r, p)
    BY <2>2 DEF BanFails, Banning, sessionVars, Fault
  <2>3. CASE p = "aws" /\ GetIPSet(r)
    BY <2>3 DEF GetIPSet, Banning, sessionVars
  <2>4. CASE p = "aws" /\ (UpdateIPSet(r) \/ UpdateConflicts(r))
    BY <2>4 DEF UpdateIPSet, UpdateConflicts, Banning, sessionVars
  <2> QED
    BY <2>1, <2>2, <2>3, <2>4 DEF BanSome
<1>3. LostReports' = LostReports
  BY <1>2 DEF LostReports, Escalated
<1>4. CASE to = "failed"
  <2>1. MissingBans' \subseteq MissingBans \cup {<<r, p>>}
    BY <1>1, <1>2 DEF MissingBans, DueBlock, Bannable
  <2>2. /\ IsFiniteSet({<<r, p>>}) /\ Cardinality({<<r, p>>}) = 1
        /\ IsFiniteSet({}) /\ Cardinality({}) = 0
    BY FS_EmptySet, FS_Singleton
  <2>3. LostReports' \subseteq LostReports \cup {}
    BY <1>3
  <2> QED
    BY <1>2, <1>4, <2>1, <2>2, <2>3, LossCovered
<1>5. CASE to # "failed"
  <2>1. MissingBans' \subseteq MissingBans
    BY <1>1, <1>2, <1>5 DEF MissingBans, DueBlock, Bannable
  <2> QED
    BY <1>3, <2>1, NothingLost
<1> QED
  BY <1>4, <1>5

\* No step of the engine, or around it, loses a report or a ban without a failure.
LEMMA LossKeptPreserves ==
    ASSUME DeceptionInv, LossKept, faults \in Nat, faults' \in Nat, faults' >= faults,
           \/ DeceptionStep /\ UNCHANGED <<bus, dry>>
           \/ DeceptionEnds
           \/ /\ UNCHANGED deceptionVars
              /\ UNCHANGED <<bus, dry>> \/ \A r \in Requests : at[r] \in {"idle", "gone"}
    PROVE  LossKept'
<1>1. CASE DeceptionStep /\ UNCHANGED <<bus, dry>>
  <2>1. ASSUME NEW r \in Requests,
               \/ Request(r) \/ GetSession(r) \/ LockSession(r)
               \/ Intercept(r) \/ NoteScanner(r) \/ Gate(r)
        PROVE  LossKept'
    BY <1>1, <2>1, EarlySteps, EarlyStepsKeep DEF DeceptionInv
  <2>2. ASSUME NEW a \in Addresses, BlockerUpdates(a) PROVE LossKept'
    <3>1. LostReports' = LostReports /\ MissingBans' = MissingBans
      BY <1>1, <2>2 DEF BlockerUpdates, sessionVars, LostReports, MissingBans, DueBlock, Bannable, Escalated
    <3> QED
      BY <3>1, NothingLost
  <2> QED
    BY <1>1, <2>1, <2>2, DispatchKeeps, BanKeeps DEF DeceptionStep, Handle, DeceptionInv
<1>2. ASSUME \A r \in Requests : at'[r] \in {"idle", "gone"} PROVE LossKept'
  <2>1. LostReports' = {} /\ MissingBans' = {}
    BY <1>2 DEF LostReports, MissingBans, DueBlock
  <2> QED
    BY <2>1, NothingLost
<1>3. CASE DeceptionEnds
  BY <1>2, <1>3 DEF DeceptionEnds
<1>4. CASE UNCHANGED deceptionVars /\ UNCHANGED <<bus, dry>>
  <2>1. LostReports' = LostReports /\ MissingBans' = MissingBans
    BY <1>4 DEF deceptionVars, sessionVars, banVars, LostReports, MissingBans, DueBlock, Bannable, Escalated
  <2> QED
    BY <2>1, NothingLost
<1>5. CASE UNCHANGED deceptionVars /\ \A r \in Requests : at[r] \in {"idle", "gone"}
  BY <1>2, <1>5 DEF deceptionVars
<1> QED
  BY <1>1, <1>3, <1>4, <1>5

LEMMA LossKeptBegins == ASSUME DeceptionInit, faults = 0 PROVE LossKept
<1>1. LostReports = {} /\ MissingBans = {}
  BY DEF DeceptionInit, LostReports, MissingBans, DueBlock
<1> QED
  BY <1>1, FS_EmptySet DEF LossKept

-----------------------------------------------------------------------------
\* What a handler does leaves the lists alone, and every ban that has begun.
LEMMA HandlersMeet ==
    ASSUME DeceptionTypeOK, HandlersKnow, BansMeet, NEW r \in Requests, Request(r) \/ Handle(r)
    PROVE  BansMeet'
<1>1. at \in [Requests -> HandlerSteps] /\ ban \in [Requests -> [Providers -> BanSteps]]
  BY DEF DeceptionTypeOK
<1>2. /\ UNCHANGED <<edge, view, others>>
      /\ \A i \in Requests \ {r} : at'[i] = at[i] /\ client'[i] = client[i]
  <2>1. CASE Record(r) \/ RecordFails(r) \/ Publish(r)
    BY <1>1, <2>1 DEF Record, RecordFails, Publish, Step, banVars, sessionVars
  <2>2. CASE Dispatch(r)
    BY <1>1, <2>2 DEF Dispatch, Step, sessionVars
  <2> QED
    BY <2>1, <2>2, EarlySteps DEF Handle
<1>3. at[r] \notin {"answered", "gone"} /\ (ban' = ban \/ Dispatch(r))
  <2>1. CASE Record(r) \/ RecordFails(r) \/ Publish(r) \/ Dispatch(r)
    BY <2>1 DEF Record, RecordFails, Publish, Dispatch, Step, banVars
  <2> QED
    BY <2>1, EarlySteps DEF Handle
<1>4. \A p \in Providers : ban[r][p] = "idle"
  BY <1>3 DEF BansMeet
<1>5. /\ \A i \in Requests \ {r} : ban'[i] = ban[i]
      /\ \A p \in Providers : ban'[r][p] \in {"idle", "asked", "refused"}
      /\ ban' = ban \/ at'[r] = "answered"
  <2>1. CASE ban' = ban
    BY <1>4, <2>1
  <2>2. CASE Dispatch(r)
    BY <1>1, <1>4, <2>2 DEF Dispatch, Step
  <2> QED
    BY <1>3, <2>1, <2>2
<1>6. \A i \in Requests, p \in Providers : at'[i] \notin {"answered", "gone"} => ban'[i][p] = "idle"
  BY <1>2, <1>4, <1>5 DEF BansMeet
<1>7. ASSUME "aws" \in Providers
      PROVE  /\ \A a : PutThere(a) => PutThere(a)'
             /\ \A i \in Requests : ban'[i]["aws"] = "conflict" => ban[i]["aws"] = "conflict"
  BY <1>2, <1>4, <1>5, <1>7 DEF PutThere
<1> QED
  BY <1>2, <1>6, <1>7 DEF BansMeet

\* A provider's call puts nothing on a list but its own address.
LEMMA ProvidersMeet ==
    ASSUME DeceptionTypeOK, BansMeet, NEW r \in Requests, NEW p \in Providers, BanSome(r, p)
    PROVE  BansMeet'
<1>1. /\ ban \in [Requests -> [Providers -> BanSteps]] /\ edge \in [Providers -> SUBSET Addresses]
      /\ view \in [Requests -> SUBSET Addresses]
  BY DEF DeceptionTypeOK
<1>2. PICK to \in {"done", "failed", "read", "conflict"} :
         /\ ban[r][p] \in {"asked", "read"} /\ ban' = [ban EXCEPT ![r][p] = to]
         /\ UNCHANGED <<at, client, others>>
         /\ view' = view \/ (p = "aws" /\ to # "conflict" /\ view' = [view EXCEPT ![r] = edge["aws"]])
         /\ \/ edge' = [edge EXCEPT ![p] = edge[p] \cup {client[r]}] /\ to = "done"
            \/ edge' = edge
         /\ p = "aws" /\ to = "conflict" => edge["aws"] # view[r]
  <2>1. CASE Post(r, p)
    BY <1>1, <2>1 DEF Post, Banning, sessionVars
  <2>2. CASE BanFails(r, p)
    BY <1>1, <2>2 DEF BanFails, Banning, sessionVars
  <2>3. CASE p = "aws" /\ GetIPSet(r)
    BY <1>1, <2>3 DEF GetIPSet, Banning, sessionVars
  <2>4. CASE p = "aws" /\ UpdateIPSet(r)
    BY <1>1, <2>4 DEF UpdateIPSet, Banning, sessionVars
  <2>5. CASE p = "aws" /\ UpdateConflicts(r)
    BY <1>1, <2>5 DEF UpdateConflicts, Banning, sessionVars
  <2> QED
    BY <2>1, <2>2, <2>3, <2>4, <2>5 DEF BanSome
<1>3. \A i \in Requests, q \in Providers :
          ban'[i][q] = IF i = r /\ q = p THEN to ELSE ban[i][q]
  BY <1>1, <1>2
<1>4. \A i \in Requests, q \in Providers : at'[i] \notin {"answered", "gone"} => ban'[i][q] = "idle"
  BY <1>2, <1>3 DEF BansMeet
<1>5. ASSUME "aws" \in Providers
      PROVE  /\ edge["aws"] \subseteq edge'["aws"]
             /\ \A a \in edge'["aws"] : a \in edge["aws"] \/ (p = "aws" /\ to = "done" /\ a = client[r])
             /\ \A i \in Requests : view'[i] \in {view[i], edge["aws"]}
             /\ \A i \in Requests : ban'[i]["aws"] = "conflict" => view'[i] = view[i] /\ view[i] # edge["aws"]
  <2>1. edge["aws"] \subseteq edge'["aws"]
    BY <1>1, <1>2, <1>5
  <2>2. \A a \in edge'["aws"] : a \in edge["aws"] \/ (p = "aws" /\ to = "done" /\ a = client[r])
    BY <1>1, <1>2, <1>5
  <2>3. \A i \in Requests : view'[i] \in {view[i], edge["aws"]}
    BY <1>1, <1>2
  <2>4. \A i \in Requests : ban'[i]["aws"] = "conflict" => view'[i] = view[i] /\ view[i] # edge["aws"]
    BY <1>1, <1>2, <1>3, <1>5 DEF BansMeet
  <2> QED
    BY <2>1, <2>2, <2>3, <2>4
<1>6. ASSUME "aws" \in Providers, NEW a \in edge'["aws"]
      PROVE  PutThere(a)'
  <2>1. CASE a \in edge["aws"]
    <3>1. PutThere(a)
      BY <1>6, <2>1 DEF BansMeet
    <3>2. CASE a \in others
      BY <1>2, <3>2 DEF PutThere
    <3>3. ASSUME NEW q \in Requests, ban[q]["aws"] = "done", client[q] = a PROVE PutThere(a)'
      <4>1. ban'[q]["aws"] = "done" /\ client'[q] = a
        BY <1>2, <1>3, <1>6, <3>3
      <4> QED
        BY <4>1 DEF PutThere
    <3> QED
      BY <3>1, <3>2, <3>3 DEF PutThere
  <2>2. CASE p = "aws" /\ to = "done" /\ a = client[r]
    <3>1. ban'[r]["aws"] = "done" /\ client'[r] = a
      BY <1>2, <1>3, <2>2
    <3> QED
      BY <3>1 DEF PutThere
  <2> QED
    BY <1>5, <1>6, <2>1, <2>2
<1>7. ASSUME "aws" \in Providers, NEW i \in Requests
      PROVE  /\ view'[i] \subseteq edge'["aws"]
             /\ ban'[i]["aws"] = "conflict" => view'[i] # edge'["aws"]
  <2>1. view[i] \subseteq edge["aws"]
    BY <1>7 DEF BansMeet
  <2>2. view'[i] \subseteq edge["aws"] /\ edge["aws"] \subseteq edge'["aws"]
    BY <1>5, <1>7, <2>1, Zenon
  <2>3. ban'[i]["aws"] = "conflict" => view'[i] # edge["aws"]
    BY <1>5, <1>7, Zenon
  <2> QED
    BY <2>2, <2>3
<1> QED
  BY <1>4, <1>6, <1>7 DEF BansMeet

\* The edge Blocker puts its own addresses on the list, and no others.
LEMMA BlockerMeets ==
    ASSUME DeceptionTypeOK, BansMeet, NEW a \in Addresses, BlockerUpdates(a)
    PROVE  BansMeet'
<1>1. /\ "aws" \in Providers /\ edge'["aws"] = edge["aws"] \cup {a} /\ others' = others \cup {a}
      /\ UNCHANGED <<at, client, ban, view>>
  BY DEF BlockerUpdates, sessionVars, DeceptionTypeOK
<1>2. \A b \in edge'["aws"] : PutThere(b)'
  BY <1>1 DEF BansMeet, PutThere
<1>3. \A r \in Requests :
          /\ view'[r] \subseteq edge'["aws"]
          /\ ban'[r]["aws"] = "conflict" => view'[r] # edge'["aws"]
  BY <1>1 DEF BansMeet
<1> QED
  BY <1>1, <1>2, <1>3 DEF BansMeet

LEMMA BansMeetPreserves ==
    ASSUME DeceptionInv, BansMeet, DeceptionStep \/ DeceptionEnds \/ UNCHANGED deceptionVars
    PROVE  BansMeet'
<1>1. CASE DeceptionStep
  BY <1>1, HandlersMeet, ProvidersMeet, BlockerMeets DEF DeceptionStep, DeceptionInv
<1>2. CASE DeceptionEnds
  <2>1. \A r \in Requests, p \in Providers :
            /\ ban'[r][p] = "conflict" <=> ban[r][p] = "conflict"
            /\ ban'[r][p] = "done" <=> ban[r][p] = "done"
            /\ ban[r][p] = "idle" => ban'[r][p] = "idle"
    BY <1>2 DEF DeceptionEnds
  <2>2. \A r \in Requests : at'[r] # "gone" => at[r] = "idle"
    BY <1>2 DEF DeceptionEnds
  <2>3. UNCHANGED <<client, edge, view, others>>
    BY <1>2 DEF DeceptionEnds
  <2>4. "aws" \in Providers => \A a : PutThere(a) => PutThere(a)'
    BY <2>1, <2>3 DEF PutThere
  <2>5. \A r \in Requests, p \in Providers : at'[r] \notin {"answered", "gone"} => ban'[r][p] = "idle"
    BY <2>1, <2>2 DEF BansMeet
  <2> QED
    BY <2>1, <2>3, <2>4, <2>5 DEF BansMeet
<1>3. CASE UNCHANGED deceptionVars
  BY <1>3 DEF deceptionVars, sessionVars, banVars, BansMeet, PutThere
<1> QED
  BY <1>1, <1>2, <1>3

LEMMA BansMeetBegins == DeceptionInit => BansMeet
BY DEF DeceptionInit, BansMeet, PutThere

\* The two halves of LossExplained.
LEMMA LossKeptEnough ==
    ASSUME DeceptionInv, LossKept, BansMeet, faults \in Nat
    PROVE  LossExplained
<1>1. Cardinality(MissingReports) <= Cardinality(LostReports)
  <2>1. MissingReports \in SUBSET LostReports
    BY DEF MissingReports, LostReports, DueBlock, Escalated
  <2> QED
    BY <2>1, LossesFinite, FS_Subset
<1>2. Cardinality(MissingReports) + Cardinality(MissingBans) <= faults
  BY <1>1, LossesFinite DEF LossKept
<1>3. ASSUME NEW r \in Requests, "aws" \in Providers, ban[r]["aws"] = "conflict"
      PROVE  \E a \in edge["aws"] \ view[r] :
                 a \in others \/ \E q \in Requests \ {r} : ban[q]["aws"] = "done" /\ client[q] = a
  <2>1. view[r] \subseteq edge["aws"] /\ view[r] # edge["aws"]
    BY <1>3 DEF BansMeet
  <2>2. PICK a \in edge["aws"] \ view[r] : TRUE
    BY <2>1
  <2>3. PutThere(a)
    BY <1>3 DEF BansMeet
  <2> QED
    BY <1>3, <2>3 DEF PutThere
<1> QED
  BY <1>2, <1>3 DEF LossExplained
=============================================================================
