--------------------------- MODULE HitPathProofs ---------------------------
(***************************************************************************)
(* Theorems about HitPath, for every number of hits, addresses and         *)
(* failures, and for every setting of the thresholds.                      *)
(***************************************************************************)
EXTENDS HitPath, FiniteSetTheorems, TLAPS

\* The steps after a decision to ban.
Enforcing == {"ban", "log", "fleet", "load", "truncate", "write"}

\* A goroutine that is banning has a banning tier, and calls left to make.
BansLeft ==
    \A h \in Hits :
        /\ pc[h] \in {"idle", "record", "count", "decide"} => banned[h] = 0
        /\ pc[h] \in {"ban", "log"} => banned[h] < BanCalls(tier[h])
        /\ pc[h] \in Enforcing => tier[h] \in Banning

TypeInv == TypeOK /\ BansLeft

\* ChooseTier returns a tier.
LEMMA ChooseTierType ==
    ASSUME NEW sev, NEW n
    PROVE  ChooseTier(sev, n) \in Tiers
BY DEF ChooseTier, Tiers

\* Counting the containment calls: the tiers that do not ban make none.
LEMMA BanCallsType ==
    ASSUME NEW t \in Tiers
    PROVE  /\ BanCalls(t) \in 0 .. 2
           /\ t \in Banning => BanCalls(t) > 0
BY DEF BanCalls, Tiers, Banning

\* Upsert puts an entry in, keeps the other addresses' entries, and leaves one
\* entry an address if there was at most one before.
Single(bans) == \A b, c \in bans : b.ip = c.ip => b = c

LEMMA UpsertedKeeps ==
    ASSUME NEW bans, NEW e
    PROVE  /\ e \in Upserted(bans, e)
           /\ \A b \in bans : \E c \in Upserted(bans, e) : c.ip = b.ip
           /\ Single(bans) => Single(Upserted(bans, e))
<1>1. e \in Upserted(bans, e)
  BY DEF Upserted
<1>2. ASSUME NEW b \in bans PROVE \E c \in Upserted(bans, e) : c.ip = b.ip
  <2>1. CASE b.ip = e.ip
    BY <1>1, <2>1
  <2>2. CASE b.ip # e.ip
    BY <2>2 DEF Upserted
  <2> QED
    BY <2>1, <2>2
<1>3. ASSUME Single(bans) PROVE Single(Upserted(bans, e))
  BY <1>3 DEF Single, Upserted
<1> QED
  BY <1>1, <1>2, <1>3

\* A containment call leads to the next one or to the fleet store.
LEMMA AfterBanStep ==
    ASSUME TypeInv, NEW h \in Hits, pc[h] \in {"ban", "log"},
           banned' = [banned EXCEPT ![h] = @ + 1],
           pc' = [pc EXCEPT ![h] = AfterBan(h)],
           tier' = tier
    PROVE  /\ pc' \in [Hits -> Steps]
           /\ banned' \in [Hits -> 0 .. 2]
           /\ banned'[h] \in 0 .. 2
           /\ BansLeft'
<1>1. banned[h] < BanCalls(tier[h]) /\ banned[h] \in 0 .. 2 /\ BanCalls(tier[h]) \in 0 .. 2
  BY BanCallsType DEF TypeInv, TypeOK, BansLeft
<1>2. banned'[h] = banned[h] + 1 /\ banned'[h] \in 0 .. 2
  BY <1>1 DEF TypeInv, TypeOK
<1>3. pc'[h] = AfterBan(h) /\ AfterBan(h) \in {"ban", "fleet"}
  BY DEF AfterBan, TypeInv, TypeOK
<1>4. pc'[h] = "ban" => banned'[h] < BanCalls(tier'[h])
  BY <1>3 DEF AfterBan
<1>5. tier'[h] \in Banning
  BY DEF TypeInv, BansLeft, Enforcing
<1>6. ASSUME NEW i \in Hits, i # h PROVE pc'[i] = pc[i] /\ banned'[i] = banned[i]
  BY <1>6 DEF TypeInv, TypeOK
<1>7. BansLeft'
  <2> SUFFICES ASSUME NEW i \in Hits
               PROVE  /\ pc'[i] \in {"idle", "record", "count", "decide"} => banned'[i] = 0
                      /\ pc'[i] \in {"ban", "log"} => banned'[i] < BanCalls(tier'[i])
                      /\ pc'[i] \in Enforcing => tier'[i] \in Banning
    BY DEF BansLeft, BanCalls, Enforcing, Banning
  <2>1. CASE i = h
    BY <2>1, <1>3, <1>4, <1>5
  <2>2. CASE i # h
    BY <2>2, <1>6 DEF TypeInv, BansLeft
  <2> QED
    BY <2>1, <2>2
<1> QED
  BY <1>2, <1>3, <1>7 DEF TypeInv, TypeOK, Steps

\* Moving one hit on, out of the steps that ban, disturbs nobody's bans.
LEMMA BansLeftStep ==
    ASSUME TypeInv, NEW h \in Hits, NEW s \in Steps,
           pc' = [pc EXCEPT ![h] = s], tier' = tier, banned' = banned,
           s \in {"idle", "record", "count", "decide"} =>
               pc[h] \in {"idle", "record", "count", "decide"},
           s \in {"ban", "log"} => pc[h] \in {"ban", "log"},
           s \in Enforcing => pc[h] \in Enforcing
    PROVE  BansLeft' /\ pc' \in [Hits -> Steps]
<1>1. SUFFICES ASSUME NEW i \in Hits
               PROVE  /\ pc'[i] \in {"idle", "record", "count", "decide"} => banned[i] = 0
                      /\ pc'[i] \in {"ban", "log"} => banned[i] < BanCalls(tier[i])
                      /\ pc'[i] \in Enforcing => tier[i] \in Banning
  BY DEF BansLeft, BanCalls, Enforcing, Banning, TypeInv, TypeOK
<1>2. CASE i = h
  BY <1>2 DEF TypeInv, TypeOK, BansLeft
<1>3. CASE i # h
  BY <1>3 DEF TypeInv, TypeOK, BansLeft
<1> QED
  BY <1>2, <1>3

\* Types, and the step invariant that shows that a decision bans twice at most.
LEMMA TypeInvariant == Spec => []TypeInv
<1> USE HitPathAssumption
<1>1. Init => TypeInv
  BY DEF Init, TypeInv, TypeOK, BansLeft, Enforcing, Steps, Tiers, BanFile, Visit
<1>2. TypeInv /\ [Next]_vars => TypeInv'
  <2> SUFFICES ASSUME TypeInv, [Next]_vars PROVE TypeInv'
    OBVIOUS
  <2>1. ASSUME NEW h \in Hits, Arrive(h) PROVE TypeInv'
    <3>1. pc' = [pc EXCEPT ![h] = "record"] /\ pc[h] = "idle"
      BY <2>1 DEF Arrive, Goto
    <3>2. BansLeft' /\ pc' \in [Hits -> Steps]
      BY <2>1, <3>1, BansLeftStep DEF Arrive, policyVars, Enforcing, Steps
    <3>3. visit' \in [Hits -> Visit]
      BY <2>1 DEF Arrive, TypeInv, TypeOK, Visit
    <3> QED
      BY <2>1, <3>2, <3>3 DEF Arrive, TypeInv, TypeOK, policyVars, fleetVars, mailVars
  <2>2. ASSUME NEW h \in Hits, RecordHit(h) PROVE TypeInv'
    <3>1. pc' = [pc EXCEPT ![h] = "count"] /\ pc[h] = "record"
      BY <2>2 DEF RecordHit, Goto
    <3>2. BansLeft' /\ pc' \in [Hits -> Steps]
      BY <2>2, <3>1, BansLeftStep DEF RecordHit, policyVars, Enforcing, Steps
    <3>3. hooks' \subseteq Hook
      BY <2>2 DEF RecordHit, Hooked, Hook, TypeInv, TypeOK
    <3> QED
      BY <2>2, <3>2, <3>3 DEF RecordHit, Fault, TypeInv, TypeOK, policyVars, fleetVars, mailVars
  <2>3. ASSUME NEW h \in Hits, RecordHitFails(h) PROVE TypeInv'
    <3>1. pc' = [pc EXCEPT ![h] = "count"] /\ pc[h] = "record"
      BY <2>3 DEF RecordHitFails, Goto
    <3>2. BansLeft' /\ pc' \in [Hits -> Steps]
      BY <2>3, <3>1, BansLeftStep DEF RecordHitFails, policyVars, Enforcing, Steps
    <3> QED
      BY <2>3, <3>2 DEF RecordHitFails, Fault, TypeInv, TypeOK, policyVars, fleetVars, mailVars
  <2>4. ASSUME NEW h \in Hits, Count(h) PROVE TypeInv'
    <3>1. pc' = [pc EXCEPT ![h] = "decide"] /\ pc[h] = "count"
      BY <2>4 DEF Count, Goto
    <3>2. BansLeft' /\ pc' \in [Hits -> Steps]
      BY <2>4, <3>1, BansLeftStep DEF Count, policyVars, Enforcing, Steps
    <3>3. visit[h].ip \in IPs /\ hits' \in [IPs -> Nat] /\ count' \in [Hits -> Nat]
      BY <2>4 DEF Count, Visit, TypeInv, TypeOK
    <3> QED
      BY <2>4, <3>2, <3>3 DEF Count, Fault, TypeInv, TypeOK, policyVars, fleetVars, mailVars
  <2>5. ASSUME NEW h \in Hits, Decide(h) PROVE TypeInv'
    <3>1. ChooseTier(visit[h].sev, count[h]) \in Tiers
      BY ChooseTierType
    <3>2. tier' \in [Hits -> Tiers] /\ tier'[h] \in Tiers
      BY <2>5, <3>1 DEF Decide, TypeInv, TypeOK
    <3>3. pc'[h] = (IF tier'[h] \in Banning THEN "ban" ELSE "done") /\ pc[h] = "decide"
      BY <2>5 DEF Decide, Goto, TypeInv, TypeOK
    <3>4. pc' \in [Hits -> Steps]
      BY <2>5 DEF Decide, Goto, TypeInv, TypeOK, Steps
    <3>5. BansLeft'
      <4> SUFFICES ASSUME NEW i \in Hits
                   PROVE  /\ pc'[i] \in {"idle", "record", "count", "decide"} => banned'[i] = 0
                          /\ pc'[i] \in {"ban", "log"} => banned'[i] < BanCalls(tier'[i])
                          /\ pc'[i] \in Enforcing => tier'[i] \in Banning
        BY DEF BansLeft, BanCalls, Enforcing, Banning
      <4>1. CASE i = h
        <5>1. banned'[h] = 0
          BY <2>5, <3>3 DEF Decide, TypeInv, BansLeft
        <5>2. tier'[h] \in Banning => BanCalls(tier'[h]) > 0 /\ BanCalls(tier'[h]) \in 0 .. 2
          BY <3>2, BanCallsType
        <5> QED
          BY <4>1, <3>3, <5>1, <5>2 DEF Enforcing
      <4>2. CASE i # h
        BY <2>5, <4>2 DEF Decide, Goto, TypeInv, TypeOK, BansLeft
      <4> QED
        BY <4>1, <4>2
    <3>6. visit[h].ip \in IPs /\ last' \in [IPs -> Hits \cup {Nobody}]
      BY <2>5 DEF Decide, TypeInv, TypeOK, Visit
    <3> QED
      BY <2>5, <3>2, <3>4, <3>5, <3>6 DEF Decide, TypeInv, TypeOK, fleetVars, mailVars
  <2>6. ASSUME NEW h \in Hits, Ban(h) PROVE TypeInv'
    <3>1. pc' = [pc EXCEPT ![h] = "log"] /\ pc[h] = "ban"
      BY <2>6 DEF Ban, Goto
    <3>2. BansLeft' /\ pc' \in [Hits -> Steps]
      BY <2>6, <3>1, BansLeftStep DEF Ban, policyVars, Enforcing, Steps
    <3> QED
      BY <2>6, <3>2 DEF Ban, Fault, TypeInv, TypeOK, policyVars, fleetVars, mailVars
  <2>7. ASSUME NEW h \in Hits, NoBan(h) PROVE TypeInv'
    <3>1. pc[h] \in {"ban", "log"} /\ pc' = [pc EXCEPT ![h] = AfterBan(h)]
      BY <2>7 DEF NoBan, Goto
    <3>2. /\ pc' \in [Hits -> Steps]
          /\ banned' \in [Hits -> 0 .. 2]
          /\ banned'[h] \in 0 .. 2
          /\ BansLeft'
      BY <2>7, <3>1, AfterBanStep DEF NoBan
    <3> QED
      BY <2>7, <3>2 DEF NoBan, Fault, TypeInv, TypeOK, fleetVars, mailVars
  <2>8. ASSUME NEW h \in Hits, RecordBan(h) PROVE TypeInv'
    <3>1. pc[h] \in {"ban", "log"} /\ pc' = [pc EXCEPT ![h] = AfterBan(h)]
      BY <2>8 DEF RecordBan, Goto
    <3>2. /\ pc' \in [Hits -> Steps]
          /\ banned' \in [Hits -> 0 .. 2]
          /\ banned'[h] \in 0 .. 2
          /\ BansLeft'
      BY <2>8, <3>1, AfterBanStep DEF RecordBan
    <3>3. hooks' \subseteq Hook
      BY <2>8, <3>2 DEF RecordBan, Hooked, Hook, TypeInv, TypeOK
    <3> QED
      BY <2>8, <3>2, <3>3 DEF RecordBan, TypeInv, TypeOK, fleetVars, mailVars
  <2>9. ASSUME NEW h \in Hits, RecordBanFails(h) PROVE TypeInv'
    <3>1. pc[h] \in {"ban", "log"} /\ pc' = [pc EXCEPT ![h] = AfterBan(h)]
      BY <2>9 DEF RecordBanFails, Goto
    <3>2. /\ pc' \in [Hits -> Steps]
          /\ banned' \in [Hits -> 0 .. 2]
          /\ banned'[h] \in 0 .. 2
          /\ BansLeft'
      BY <2>9, <3>1, AfterBanStep DEF RecordBanFails
    <3> QED
      BY <2>9, <3>2 DEF RecordBanFails, Fault, TypeInv, TypeOK, fleetVars, mailVars
  <2>10. ASSUME NEW h \in Hits, LockStore(h) PROVE TypeInv'
    <3>1. pc' = [pc EXCEPT ![h] = "load"] /\ pc[h] = "fleet"
      BY <2>10 DEF LockStore, Goto
    <3>2. BansLeft' /\ pc' \in [Hits -> Steps]
      BY <2>10, <3>1, BansLeftStep DEF LockStore, policyVars, Enforcing, Steps
    <3> QED
      BY <2>10, <3>2 DEF LockStore, Fault, TypeInv, TypeOK, policyVars, fleetVars, mailVars
  <2>11. ASSUME NEW h \in Hits, LoadBans(h) PROVE TypeInv'
    <3>1. pc' = [pc EXCEPT ![h] = "truncate"] /\ pc[h] = "load"
      BY <2>11 DEF LoadBans, Goto
    <3>2. BansLeft' /\ pc' \in [Hits -> Steps]
      BY <2>11, <3>1, BansLeftStep DEF LoadBans, policyVars, Enforcing, Steps
    <3>3. Entry(h) \in BanEntry
      <4>1. tier[h] \in Banning
        BY <2>11 DEF LoadBans, Goto, TypeInv, BansLeft, Enforcing
      <4> QED
        BY <4>1 DEF Entry, BanEntry, TypeInv, TypeOK, Visit
    <3>4. buf' \in [Hits -> SUBSET BanEntry]
      BY <2>11, <3>3 DEF LoadBans, Upserted, TypeInv, TypeOK, BanFile
    <3> QED
      BY <2>11, <3>2, <3>4 DEF LoadBans, Fault, TypeInv, TypeOK, policyVars, fleetVars, mailVars
  <2>12. ASSUME NEW h \in Hits, LoadBansFails(h) PROVE TypeInv'
    <3>1. pc' = [pc EXCEPT ![h] = "truncate"] /\ pc[h] = "load"
      BY <2>12 DEF LoadBansFails, Goto
    <3>2. BansLeft' /\ pc' \in [Hits -> Steps]
      BY <2>12, <3>1, BansLeftStep DEF LoadBansFails, policyVars, Enforcing, Steps
    <3>3. Entry(h) \in BanEntry
      <4>1. tier[h] \in Banning
        BY <2>12 DEF LoadBansFails, Goto, TypeInv, BansLeft, Enforcing
      <4> QED
        BY <4>1 DEF Entry, BanEntry, TypeInv, TypeOK, Visit
    <3>4. buf' \in [Hits -> SUBSET BanEntry]
      BY <2>12, <3>3 DEF LoadBansFails, Upserted, TypeInv, TypeOK, BanFile
    <3> QED
      BY <2>12, <3>2, <3>4 DEF LoadBansFails, Fault, TypeInv, TypeOK, policyVars, fleetVars, mailVars
  <2>13. ASSUME NEW h \in Hits, TruncateBans(h) PROVE TypeInv'
    <3>1. pc' = [pc EXCEPT ![h] = "write"] /\ pc[h] = "truncate"
      BY <2>13 DEF TruncateBans, Goto
    <3>2. BansLeft' /\ pc' \in [Hits -> Steps]
      BY <2>13, <3>1, BansLeftStep DEF TruncateBans, policyVars, Enforcing, Steps
    <3>3. file' \in BanFile
      BY <2>13 DEF TruncateBans, BanFile, TypeInv, TypeOK
    <3> QED
      BY <2>13, <3>2, <3>3 DEF TruncateBans, Fault, TypeInv, TypeOK, policyVars, fleetVars, mailVars
  <2>14. ASSUME NEW h \in Hits, OpenBansFails(h) PROVE TypeInv'
    <3>1. pc' = [pc EXCEPT ![h] = "done"] /\ pc[h] = "truncate"
      BY <2>14 DEF OpenBansFails, Goto
    <3>2. BansLeft' /\ pc' \in [Hits -> Steps]
      BY <2>14, <3>1, BansLeftStep DEF OpenBansFails, policyVars, Enforcing, Steps
    <3>3. faults' \in 0 .. MaxFaults
      BY <2>14 DEF OpenBansFails, Fault, TypeInv, TypeOK
    <3>4. buf' \in [Hits -> SUBSET BanEntry]
      BY <2>14 DEF OpenBansFails, TypeInv, TypeOK
    <3> QED
      BY <2>14, <3>2, <3>3, <3>4 DEF OpenBansFails, TypeInv, TypeOK, policyVars, fleetVars, mailVars
  <2>15. ASSUME NEW h \in Hits, WriteBans(h) PROVE TypeInv'
    <3>1. pc' = [pc EXCEPT ![h] = "done"] /\ pc[h] = "write"
      BY <2>15 DEF WriteBans, Goto
    <3>2. BansLeft' /\ pc' \in [Hits -> Steps]
      BY <2>15, <3>1, BansLeftStep DEF WriteBans, policyVars, Enforcing, Steps
    <3>3. file' \in BanFile
      BY <2>15 DEF WriteBans, BanFile, TypeInv, TypeOK
    <3> QED
      BY <2>15, <3>2, <3>3 DEF WriteBans, Fault, TypeInv, TypeOK, policyVars, fleetVars, mailVars
  <2>16. ASSUME NEW h \in Hits, WriteBansFails(h) PROVE TypeInv'
    <3>1. pc' = [pc EXCEPT ![h] = "done"] /\ pc[h] = "write"
      BY <2>16 DEF WriteBansFails, Goto
    <3>2. BansLeft' /\ pc' \in [Hits -> Steps]
      BY <2>16, <3>1, BansLeftStep DEF WriteBansFails, policyVars, Enforcing, Steps
    <3>3. faults' \in 0 .. MaxFaults
      BY <2>16 DEF WriteBansFails, Fault, TypeInv, TypeOK
    <3>4. buf' \in [Hits -> SUBSET BanEntry]
      BY <2>16 DEF WriteBansFails, TypeInv, TypeOK
    <3> QED
      BY <2>16, <3>2, <3>3, <3>4 DEF WriteBansFails, TypeInv, TypeOK, policyVars, fleetVars, mailVars
  <2>17. ASSUME NEW r \in hooks, HandleMinor(r) PROVE TypeInv'
    <3>1. IPOf(r) \in IPs
      BY DEF IPOf, Hook, Visit, TypeInv, TypeOK
    <3> QED
      BY <2>17, <3>1 DEF HandleMinor, TypeInv, TypeOK, BansLeft, policyVars, fleetVars, mailVars
  <2>18. ASSUME NEW r \in hooks, HandleMuted(r) PROVE TypeInv'
    <3>1. IPOf(r) \in IPs
      BY DEF IPOf, Hook, Visit, TypeInv, TypeOK
    <3> QED
      BY <2>18, <3>1 DEF HandleMuted, TypeInv, TypeOK, BansLeft, policyVars, fleetVars, mailVars
  <2>19. ASSUME NEW r \in hooks, HandleAllowed(r) PROVE TypeInv'
    <3>1. IPOf(r) \in IPs
      BY DEF IPOf, Hook, Visit, TypeInv, TypeOK
    <3> QED
      BY <2>19, <3>1 DEF HandleAllowed, TypeInv, TypeOK, BansLeft, policyVars, fleetVars, mailVars
  <2>20. ASSUME NEW ip \in IPs, CooldownEnds(ip) PROVE TypeInv'
    BY <2>20 DEF CooldownEnds, TypeInv, TypeOK, BansLeft, policyVars, fleetVars, mailVars
  <2>21. ASSUME Crash PROVE TypeInv'
    <3>1. pc' \in [Hits -> Steps] /\ \A h \in Hits : pc'[h] \in {pc[h], "lost"} /\ (pc'[h] # "lost" => pc[h] = "idle")
      BY <2>21 DEF Crash, TypeInv, TypeOK, Steps
    <3>2. BansLeft'
      BY <2>21, <3>1 DEF Crash, TypeInv, BansLeft, Enforcing
    <3> QED
      BY <2>21, <3>1, <3>2 DEF Crash, Fault, TypeInv, TypeOK
  <2>22. CASE UNCHANGED vars
    BY <2>22 DEF TypeInv, TypeOK, BansLeft, vars, policyVars, fleetVars, mailVars
  <2> QED
    BY <2>1, <2>2, <2>3, <2>4, <2>5, <2>6, <2>7, <2>8, <2>9, <2>10, <2>11, <2>12, <2>13, <2>14, <2>15, <2>16, <2>17, <2>18, <2>19, <2>20, <2>21, <2>22 DEF Next, Handler, Policy, Upsert, Notify
<1> QED
  BY <1>1, <1>2, PTL DEF Spec

\* The variables of the hit path, the file and the notifiers' state keep their
\* types.
THEOREM TypeCorrect == Spec => []TypeOK
<1>1. TypeInv => TypeOK
  BY DEF TypeInv
<1> QED
  BY <1>1, TypeInvariant, PTL

-----------------------------------------------------------------------------
\* Store.mu is held exactly by the hit whose Upsert is past LockStore.
StoreLocked == \A h \in Hits : pc[h] \in Critical <=> mu = h

\* Upsert's rewrites of the list exclude one another.
LEMMA StoreMutex == Spec => []StoreLocked
<1> USE HitPathAssumption
<1>1. Init => StoreLocked
  BY DEF Init, StoreLocked, Critical
<1>2. TypeInv /\ StoreLocked /\ [Next]_vars => StoreLocked'
  <2> SUFFICES ASSUME TypeInv, StoreLocked, [Next]_vars PROVE StoreLocked'
    OBVIOUS
  <2> USE DEF TypeInv, TypeOK, StoreLocked, Critical, Goto
  <2>1. ASSUME NEW h \in Hits, Arrive(h) \/ Handler(h) PROVE StoreLocked'
    BY <2>1 DEF Arrive, Handler, RecordHit, RecordHitFails, fleetVars
  <2>2. ASSUME NEW h \in Hits, Policy(h) PROVE StoreLocked'
    <3>1. CASE Count(h) \/ Ban(h)
      BY <3>1 DEF Count, Ban, fleetVars, policyVars
    <3>2. CASE Decide(h)
      BY <3>2 DEF Decide, fleetVars
    <3>3. CASE NoBan(h) \/ RecordBan(h) \/ RecordBanFails(h)
      BY <3>3 DEF NoBan, RecordBan, RecordBanFails, AfterBan, fleetVars
    <3> QED
      BY <2>2, <3>1, <3>2, <3>3 DEF Policy
  <2>3. ASSUME NEW h \in Hits, Upsert(h) PROVE StoreLocked'
    <3>1. CASE LockStore(h)
      BY <3>1 DEF LockStore
    <3>2. CASE LoadBans(h) \/ LoadBansFails(h)
      BY <3>2 DEF LoadBans, LoadBansFails
    <3>3. CASE TruncateBans(h)
      BY <3>3 DEF TruncateBans
    <3>4. CASE OpenBansFails(h) \/ WriteBans(h) \/ WriteBansFails(h)
      BY <3>4 DEF OpenBansFails, WriteBans, WriteBansFails
    <3> QED
      BY <2>3, <3>1, <3>2, <3>3, <3>4 DEF Upsert
  <2>4. ASSUME NEW r \in hooks, Notify(r) PROVE StoreLocked'
    BY <2>4 DEF Notify, HandleMinor, HandleMuted, HandleAllowed, fleetVars
  <2>5. ASSUME NEW ip \in IPs, CooldownEnds(ip) PROVE StoreLocked'
    BY <2>5 DEF CooldownEnds, fleetVars
  <2>6. ASSUME Crash PROVE StoreLocked'
    BY <2>6 DEF Crash
  <2>7. CASE UNCHANGED vars
    BY <2>7 DEF vars, fleetVars
  <2> QED
    BY <2>1, <2>2, <2>3, <2>4, <2>5, <2>6, <2>7 DEF Next
<1> QED
  BY <1>1, <1>2, TypeInvariant, PTL DEF Spec

-----------------------------------------------------------------------------
\* Every saved ban has an entry in the list.
Covers(bans) == \A h \in saved : \E b \in bans : b.ip = visit[h].ip

\* What the file and the list in a writer's memory hold, relative to the bans
\* that were reported saved.
FleetInv ==
    /\ \A h \in saved : pc[h] \in {"done", "lost"}
    /\ Single(file.bans)
    /\ (\A h \in Hits : pc[h] # "write") => Covers(file.bans)
    /\ ~file.whole => saved = {} \/ \E h \in Hits : pc[h] = "write"
    /\ \A h \in Hits :
          /\ pc[h] = "write" => ~file.whole
          /\ pc[h] \in {"truncate", "write"} =>
                /\ Single(buf[h])
                /\ Covers(buf[h])
                /\ \E b \in buf[h] : b.ip = visit[h].ip

\* A step that leaves the store, and the hits in it, alone.
LEMMA FleetFrame ==
    ASSUME FleetInv, file' = file, buf' = buf, saved' = saved, saved \subseteq Hits,
           \A h \in Hits : pc[h] \in Critical \cup {"done", "lost"} =>
                               pc'[h] = pc[h] /\ visit'[h] = visit[h],
           \A h \in Hits : pc[h] \notin Critical => pc'[h] \notin {"truncate", "write"}
    PROVE  FleetInv'
<1>1. \A h \in Hits : /\ pc'[h] = "write" <=> pc[h] = "write"
                      /\ pc'[h] = "truncate" <=> pc[h] = "truncate"
  BY DEF Critical
<1>2. \A h \in saved : visit'[h] = visit[h] /\ pc'[h] \in {"done", "lost"}
  BY DEF FleetInv
<1>3. Covers(file.bans) => Covers(file.bans)'
  BY <1>2 DEF Covers
<1>4. \A h \in Hits : Covers(buf[h]) => Covers(buf[h])'
  BY <1>2 DEF Covers
<1>5. \A h \in Hits : pc[h] \in {"truncate", "write"} => visit'[h] = visit[h]
  BY DEF Critical
<1>6. Single(file.bans)' /\ \A h \in saved' : pc'[h] \in {"done", "lost"}
  BY <1>2 DEF FleetInv, Single
<1>7. (\A h \in Hits : pc'[h] # "write") => Covers(file.bans)'
  BY <1>1, <1>3 DEF FleetInv
<1>8. ~file'.whole => saved' = {} \/ \E h \in Hits : pc'[h] = "write"
  BY <1>1 DEF FleetInv
<1>9. ASSUME NEW h \in Hits
      PROVE  /\ pc'[h] = "write" => ~file'.whole
             /\ pc'[h] \in {"truncate", "write"} =>
                   /\ Single(buf'[h])
                   /\ Covers(buf[h])'
                   /\ \E b \in buf'[h] : b.ip = visit'[h].ip
  BY <1>1, <1>4, <1>5 DEF FleetInv
<1> QED
  BY <1>6, <1>7, <1>8, <1>9 DEF FleetInv

\* Reading the list and putting the entry in covers every saved ban.
LEMMA LoadCovers ==
    ASSUME TypeInv, StoreLocked, FleetInv, NEW h \in Hits, pc[h] = "load",
           NEW bans, Covers(bans), Single(bans)
    PROVE  /\ Single(Upserted(bans, Entry(h)))
           /\ Covers(Upserted(bans, Entry(h)))
           /\ \E b \in Upserted(bans, Entry(h)) : b.ip = visit[h].ip
<1>1. Entry(h).ip = visit[h].ip
  BY DEF Entry
<1>2. Covers(Upserted(bans, Entry(h)))
  BY UpsertedKeeps DEF Covers
<1>3. Single(Upserted(bans, Entry(h))) /\ Entry(h) \in Upserted(bans, Entry(h))
  BY UpsertedKeeps
<1> QED
  BY <1>1, <1>2, <1>3

\* LoadBans and LoadBansFails.
LEMMA LoadKeeps ==
    ASSUME TypeInv, StoreLocked, FleetInv, NEW h \in Hits,
           LoadBans(h) \/ LoadBansFails(h)
    PROVE  FleetInv'
<1> USE DEF TypeInv, TypeOK, Goto
<1>1. /\ pc[h] = "load" /\ pc' = [pc EXCEPT ![h] = "truncate"]
      /\ file' = file /\ visit' = visit /\ saved' \in {saved, {}}
  BY DEF LoadBans, LoadBansFails
<1>2. \A i \in Hits : pc[i] # "write" /\ pc[i] # "truncate"
  BY <1>1 DEF StoreLocked, Critical
<1>3. \A i \in Hits : i # h => pc'[i] = pc[i]
  BY <1>1
<1>4. Single(buf'[h]) /\ (\A i \in saved' : \E b \in buf'[h] : b.ip = visit[i].ip)
        /\ \E b \in buf'[h] : b.ip = visit[h].ip
  <2>1. CASE LoadBans(h)
    <3>1. buf'[h] = Upserted(IF file.whole THEN file.bans ELSE {}, Entry(h)) /\ saved' = saved
      BY <2>1 DEF LoadBans
    <3>2. Single(IF file.whole THEN file.bans ELSE {})
      BY DEF FleetInv, Single
    <3>3. Covers(IF file.whole THEN file.bans ELSE {})
      BY <1>2 DEF FleetInv, Covers
    <3> QED
      BY <1>1, <3>1, <3>2, <3>3, LoadCovers DEF Covers
  <2>2. CASE LoadBansFails(h)
    BY <2>2 DEF LoadBansFails, Single, Entry
  <2> QED
    BY <2>1, <2>2
<1>5. \A i \in saved' : pc'[i] \in {"done", "lost"}
  BY <1>1, <1>3 DEF FleetInv
<1>6. Covers(file.bans)'
  BY <1>1, <1>2 DEF FleetInv, Covers
<1>7. ~file'.whole => saved' = {}
  BY <1>1, <1>2 DEF FleetInv
<1>8. ASSUME NEW i \in Hits
      PROVE  /\ pc'[i] # "write"
             /\ pc'[i] = "truncate" => i = h
  BY <1>1, <1>2, <1>3
<1>9. Single(file.bans)'
  BY <1>1 DEF FleetInv, Single
<1> QED
  BY <1>1, <1>4, <1>5, <1>6, <1>7, <1>8, <1>9 DEF FleetInv, Covers

\* A rewrite of the list, from its truncation to its end.
LEMMA SaveKeeps ==
    ASSUME TypeInv, StoreLocked, FleetInv, NEW h \in Hits,
           TruncateBans(h) \/ OpenBansFails(h) \/ WriteBans(h) \/ WriteBansFails(h)
    PROVE  FleetInv'
<1> USE DEF TypeInv, TypeOK, Goto
<1>1. pc[h] \in {"truncate", "write"} /\ visit' = visit
  BY DEF TruncateBans, OpenBansFails, WriteBans, WriteBansFails
<1>2. \A i \in Hits : i # h => pc[i] \notin Critical
  BY <1>1 DEF StoreLocked, Critical
<1>3. CASE TruncateBans(h)
  <2>1. /\ pc[h] = "truncate" /\ pc' = [pc EXCEPT ![h] = "write"]
        /\ file' = [bans |-> {}, whole |-> FALSE] /\ buf' = buf /\ saved' = saved
    BY <1>3 DEF TruncateBans
  <2>2. pc'[h] = "write" /\ \A i \in Hits : i # h => pc'[i] \notin Critical
    BY <1>2, <2>1
  <2>3. \A i \in saved' : pc'[i] \in {"done", "lost"}
    BY <2>1 DEF FleetInv
  <2>4. Covers(buf[h])' /\ Single(buf'[h]) /\ \E b \in buf'[h] : b.ip = visit'[h].ip
    BY <1>1, <2>1 DEF FleetInv, Covers
  <2> QED
    BY <2>1, <2>2, <2>3, <2>4 DEF FleetInv, Single, Critical
<1>4. CASE OpenBansFails(h)
  <2>1. /\ pc[h] = "truncate" /\ pc' = [pc EXCEPT ![h] = "done"]
        /\ file' = file /\ saved' = saved
    BY <1>4 DEF OpenBansFails
  <2>2. pc'[h] = "done" /\ \A i \in Hits : pc'[i] \notin Critical
    BY <1>2, <2>1 DEF Critical
  <2>3. \A i \in saved' : pc'[i] \in {"done", "lost"}
    BY <2>1 DEF FleetInv
  <2>4. Covers(file.bans)' /\ Single(file.bans)'
    <3>1. \A i \in Hits : pc[i] # "write"
      BY <1>2, <2>1 DEF Critical
    <3> QED
      BY <1>1, <2>1, <3>1 DEF FleetInv, Covers, Single
  <2>5. ~file'.whole => saved' = {}
    BY <1>2, <2>1 DEF FleetInv, Critical
  <2> QED
    BY <2>2, <2>3, <2>4, <2>5 DEF FleetInv, Critical
<1>5. CASE WriteBans(h)
  <2>1. /\ pc[h] = "write" /\ pc' = [pc EXCEPT ![h] = "done"]
        /\ file' = [bans |-> buf[h], whole |-> TRUE] /\ saved' = saved \cup {h}
    BY <1>5 DEF WriteBans
  <2>2. pc'[h] = "done" /\ \A i \in Hits : pc'[i] \notin Critical
    BY <1>2, <2>1 DEF Critical
  <2>3. \A i \in saved' : pc'[i] \in {"done", "lost"}
    BY <2>1 DEF FleetInv
  <2>4. Covers(file.bans)' /\ Single(file.bans)'
    BY <1>1, <2>1 DEF FleetInv, Covers, Single
  <2> QED
    BY <2>1, <2>2, <2>3, <2>4 DEF FleetInv, Critical
<1>6. CASE WriteBansFails(h)
  <2>1. /\ pc[h] = "write" /\ pc' = [pc EXCEPT ![h] = "done"]
        /\ file' = file /\ saved' = {}
    BY <1>6 DEF WriteBansFails
  <2>2. pc'[h] = "done" /\ \A i \in Hits : pc'[i] \notin Critical
    BY <1>2, <2>1 DEF Critical
  <2> QED
    BY <2>1, <2>2 DEF FleetInv, Covers, Single, Critical
<1> QED
  BY <1>3, <1>4, <1>5, <1>6

\* A crash in the middle of a rewrite costs the list, any other costs nothing.
LEMMA CrashKeeps ==
    ASSUME TypeInv, StoreLocked, FleetInv, Crash
    PROVE  FleetInv'
<1> USE DEF TypeInv, TypeOK
<1>1. /\ visit' = visit /\ file' = file
      /\ saved' = IF file.whole THEN saved ELSE {}
      /\ \A i \in Hits : pc'[i] = IF pc[i] = "idle" THEN "idle" ELSE "lost"
  BY DEF Crash
<1>2. \A i \in saved' : pc'[i] \in {"done", "lost"}
  BY <1>1 DEF FleetInv
<1>3. Covers(file.bans)'
  BY <1>1 DEF FleetInv, Covers
<1>4. Single(file.bans)'
  BY <1>1 DEF FleetInv, Single
<1> QED
  BY <1>1, <1>2, <1>3, <1>4 DEF FleetInv

\* The file and the list in memory keep every saved ban.
LEMMA FleetInvariant == Spec => []FleetInv
<1> USE HitPathAssumption
<1>1. Init => FleetInv
  BY DEF Init, FleetInv, Single, Covers
<1>2. TypeInv /\ StoreLocked /\ FleetInv /\ [Next]_vars => FleetInv'
  <2> SUFFICES ASSUME TypeInv, StoreLocked, FleetInv, [Next]_vars PROVE FleetInv'
    OBVIOUS
  <2>0. saved \subseteq Hits
    BY DEF TypeInv, TypeOK
  <2> USE DEF TypeInv, TypeOK, Goto, Critical
  <2>1. ASSUME NEW h \in Hits, Arrive(h) \/ Handler(h) PROVE FleetInv'
    <3>1. /\ pc[h] \in {"idle", "record"} /\ pc' = [pc EXCEPT ![h] = pc'[h]]
          /\ pc'[h] \in {"record", "count"} /\ visit' = [visit EXCEPT ![h] = visit'[h]]
          /\ file' = file /\ buf' = buf /\ saved' = saved
      BY <2>1 DEF Arrive, Handler, RecordHit, RecordHitFails, fleetVars
    <3> QED
      BY <2>0, <3>1, FleetFrame
  <2>2. ASSUME NEW h \in Hits, Policy(h) PROVE FleetInv'
    <3>1. /\ pc[h] \in {"count", "decide", "ban", "log"} /\ pc' = [pc EXCEPT ![h] = pc'[h]]
          /\ pc'[h] \in {"decide", "ban", "log", "done", "fleet"} /\ visit' = visit
          /\ file' = file /\ buf' = buf /\ saved' = saved
      <4>1. CASE Count(h) \/ Ban(h)
        BY <4>1 DEF Count, Ban, fleetVars, policyVars
      <4>2. CASE Decide(h)
        BY <4>2 DEF Decide, fleetVars
      <4>3. CASE NoBan(h) \/ RecordBan(h) \/ RecordBanFails(h)
        BY <4>3 DEF NoBan, RecordBan, RecordBanFails, AfterBan, fleetVars
      <4> QED
        BY <2>2, <4>1, <4>2, <4>3 DEF Policy
    <3> QED
      BY <2>0, <3>1, FleetFrame
  <2>3. ASSUME NEW h \in Hits, Upsert(h) PROVE FleetInv'
    <3>1. CASE LockStore(h)
      <4>1. /\ pc[h] = "fleet" /\ pc' = [pc EXCEPT ![h] = "load"] /\ visit' = visit
            /\ file' = file /\ buf' = buf /\ saved' = saved
        BY <3>1 DEF LockStore
      <4> QED
        BY <2>0, <4>1, FleetFrame
    <3> QED
      BY <2>3, <3>1, LoadKeeps, SaveKeeps DEF Upsert
  <2>4. ASSUME NEW r \in hooks, Notify(r) PROVE FleetInv'
    BY <2>0, <2>4, FleetFrame DEF Notify, HandleMinor, HandleMuted, HandleAllowed, fleetVars
  <2>5. ASSUME NEW ip \in IPs, CooldownEnds(ip) PROVE FleetInv'
    BY <2>0, <2>5, FleetFrame DEF CooldownEnds, fleetVars
  <2>6. CASE UNCHANGED vars
    BY <2>0, <2>6, FleetFrame DEF vars, fleetVars
  <2> QED
    BY <2>1, <2>2, <2>3, <2>4, <2>5, <2>6, CrashKeeps DEF Next
<1> QED
  BY <1>1, <1>2, TypeInvariant, StoreMutex, PTL DEF Spec

\* Every ban that Upsert reported saved stays in the list, once, however many
\* goroutines enter bans at the same time, until the file is damaged.
THEOREM FleetSafe == Spec => []FleetKeepsBans
<1> USE HitPathAssumption
<1>1. TypeInv /\ StoreLocked /\ FleetInv => FleetKeepsBans
  <2> SUFFICES ASSUME TypeInv, StoreLocked, FleetInv PROVE FleetKeepsBans
    OBVIOUS
  <2>1. Covers(Contents) /\ Single(Contents)
    <3>1. CASE mu # Nobody /\ pc[mu] = "write"
      <4>1. mu \in Hits
        BY <3>1 DEF TypeInv, TypeOK
      <4> QED
        BY <3>1, <4>1 DEF FleetInv, Contents
    <3>2. CASE ~(mu # Nobody /\ pc[mu] = "write")
      <4>1. \A h \in Hits : pc[h] # "write"
        BY <3>2 DEF StoreLocked, Critical
      <4> QED
        BY <3>2, <4>1 DEF FleetInv, Contents
    <3> QED
      BY <3>1, <3>2
  <2> QED
    BY <2>1 DEF FleetKeepsBans, Covers, Single
<1> QED
  BY <1>1, TypeInvariant, StoreMutex, FleetInvariant, PTL

-----------------------------------------------------------------------------
\* Email.allow: an address is muted exactly while one attempt to mail about it
\* lies in its cooldown, and only then is anything held back.
MuteInv ==
    /\ \A ip \in IPs : alerts[ip] = IF ip \in cooling THEN 1 ELSE 0
    /\ muted \subseteq cooling

\* One mail at most is attempted about an address in one cooldown, and none is
\* held back of an address that none was attempted of.
THEOREM AlertsRationed == Spec => []NoAlertStorm
<1>1. Init => MuteInv
  BY DEF Init, MuteInv
<1>2. TypeInv /\ MuteInv /\ [Next]_vars => MuteInv'
  <2> SUFFICES ASSUME TypeInv, MuteInv, [Next]_vars PROVE MuteInv'
    OBVIOUS
  <2> USE DEF MuteInv
  <2>1. ASSUME NEW r \in hooks, Notify(r) PROVE MuteInv'
    <3>1. IPOf(r) \in IPs
      BY DEF IPOf, Hook, Visit, TypeInv, TypeOK
    <3>2. CASE HandleMinor(r)
      BY <3>2 DEF HandleMinor, mailVars
    <3>3. CASE HandleMuted(r)
      BY <3>1, <3>3 DEF HandleMuted
    <3>4. CASE HandleAllowed(r)
      BY <3>1, <3>4 DEF HandleAllowed, TypeInv, TypeOK
    <3> QED
      BY <2>1, <3>2, <3>3, <3>4 DEF Notify
  <2>2. ASSUME NEW ip \in IPs, CooldownEnds(ip) PROVE MuteInv'
    BY <2>2 DEF CooldownEnds, TypeInv, TypeOK
  <2>3. ASSUME Crash PROVE MuteInv'
    BY <2>3 DEF Crash
  <2>4. ASSUME NEW h \in Hits, Arrive(h) \/ Handler(h) \/ Policy(h) \/ Upsert(h) PROVE MuteInv'
    <3>1. UNCHANGED mailVars
      BY <2>4 DEF Arrive, Handler, RecordHit, RecordHitFails, Policy, Count, Decide, Ban, NoBan,
                  RecordBan, RecordBanFails, Upsert, LockStore, LoadBans, LoadBansFails,
                  TruncateBans, OpenBansFails, WriteBans, WriteBansFails
    <3> QED
      BY <3>1 DEF mailVars
  <2>5. CASE UNCHANGED vars
    BY <2>5 DEF vars, mailVars
  <2> QED
    BY <2>1, <2>2, <2>3, <2>4, <2>5 DEF Next
<1>3. TypeInv /\ MuteInv => NoAlertStorm
  BY DEF MuteInv, NoAlertStorm, TypeInv, TypeOK
<1> QED
  BY <1>1, <1>2, <1>3, TypeInvariant, PTL DEF Spec

-----------------------------------------------------------------------------
\* Hits that Evaluate has not counted.
Waiting == {"idle", "record", "count"}

\* Hits whose decision was made by the process that is running.
After == Steps \ (Waiting \cup {"decide", "lost"})

Counted(h) == pc[h] \notin Waiting \cup {"lost"}

\* The hits on ip that were ever counted.
SeenHits(ip) == {h \in Hits : visit[h].ip = ip /\ pc[h] \notin Waiting}

\* The steps of the hit path, as the counts see them.
LEMMA HitSteps ==
    ASSUME TypeInv, [Next]_vars
    PROVE  \/ \E h \in Hits :
                 /\ pc[h] = "idle" /\ pc' = [pc EXCEPT ![h] = "record"]
                 /\ \A i \in Hits : i # h => visit'[i] = visit[i]
                 /\ UNCHANGED <<count, tier, hits, file, buf>>
           \/ \E h \in Hits : Count(h) \/ Decide(h)
           \/ \E h \in Hits, s \in Steps :
                 /\ pc' = [pc EXCEPT ![h] = s]
                 /\ \/ pc[h] \in Waiting /\ s = "count"
                    \/ pc[h] \in After /\ s \in After
                 /\ UNCHANGED <<visit, count, tier, hits>>
           \/ Crash
           \/ UNCHANGED <<pc, visit, count, tier, hits>>
<1> USE DEF TypeInv, TypeOK
<1>1. ASSUME NEW h \in Hits, Arrive(h)
      PROVE  /\ pc[h] = "idle" /\ pc' = [pc EXCEPT ![h] = "record"]
             /\ \A i \in Hits : i # h => visit'[i] = visit[i]
             /\ UNCHANGED <<count, tier, hits, file, buf>>
  BY <1>1 DEF Arrive, Goto, policyVars, fleetVars
<1>2. ASSUME NEW h \in Hits, Handler(h)
      PROVE  /\ pc' = [pc EXCEPT ![h] = "count"] /\ pc[h] \in Waiting
             /\ UNCHANGED <<visit, count, tier, hits>>
  BY <1>2 DEF Handler, RecordHit, RecordHitFails, Goto, policyVars, Waiting
<1>3. ASSUME NEW h \in Hits, Policy(h), ~Count(h), ~Decide(h)
      PROVE  \E s \in Steps :
                 /\ pc' = [pc EXCEPT ![h] = s] /\ pc[h] \in After /\ s \in After
                 /\ UNCHANGED <<visit, count, tier, hits>>
  <2>1. CASE Ban(h)
    BY <2>1 DEF Ban, Goto, policyVars, After, Steps, Waiting
  <2>2. CASE NoBan(h) \/ RecordBan(h) \/ RecordBanFails(h)
    <3>1. AfterBan(h) \in {"ban", "fleet"}
      BY DEF AfterBan
    <3> QED
      BY <2>2, <3>1 DEF NoBan, RecordBan, RecordBanFails, Goto, After, Steps, Waiting
  <2> QED
    BY <1>3, <2>1, <2>2 DEF Policy
<1>4. ASSUME NEW h \in Hits, Upsert(h)
      PROVE  \E s \in Steps :
                 /\ pc' = [pc EXCEPT ![h] = s] /\ pc[h] \in After /\ s \in After
                 /\ UNCHANGED <<visit, count, tier, hits>>
  <2>1. UNCHANGED <<visit, count, tier, hits>>
    BY <1>4 DEF Upsert, LockStore, LoadBans, LoadBansFails, TruncateBans, OpenBansFails, WriteBans,
                WriteBansFails, policyVars
  <2>2. \E s \in {"load", "truncate", "write", "done"} :
            pc' = [pc EXCEPT ![h] = s] /\ pc[h] \in {"fleet", "load", "truncate", "write"}
    BY <1>4 DEF Upsert, LockStore, LoadBans, LoadBansFails, TruncateBans, OpenBansFails, WriteBans,
                WriteBansFails, Goto
  <2> QED
    BY <2>1, <2>2 DEF After, Steps, Waiting
<1>5. ASSUME NEW r \in hooks, Notify(r) PROVE UNCHANGED <<pc, visit, count, tier, hits>>
  BY <1>5 DEF Notify, HandleMinor, HandleMuted, HandleAllowed, policyVars
<1>6. ASSUME NEW ip \in IPs, CooldownEnds(ip) PROVE UNCHANGED <<pc, visit, count, tier, hits>>
  BY <1>6 DEF CooldownEnds, policyVars
<1>7. CASE UNCHANGED vars
  BY <1>7 DEF vars, policyVars
<1>8. "count" \in Steps
  BY DEF Steps
<1> QED
  BY <1>1, <1>2, <1>3, <1>4, <1>5, <1>6, <1>7, <1>8 DEF Next

\* A hit that came in is there for good.
LEMMA HitsStay ==
    ASSUME TypeInv, [Next]_vars, NEW ip
    PROVE  HitsOn(ip) \subseteq HitsOn(ip)'
<1> SUFFICES ASSUME NEW h \in HitsOn(ip) PROVE pc'[h] # "idle" /\ visit'[h].ip = ip
  BY DEF HitsOn
<1>1. h \in Hits /\ pc[h] # "idle" /\ visit[h].ip = ip
  BY DEF HitsOn
<1> USE <1>1 DEF TypeInv, TypeOK, Waiting, After
<1>2. CASE Crash
  BY <1>2 DEF Crash
<1>3. ASSUME NEW i \in Hits, Count(i) \/ Decide(i) PROVE pc'[h] # "idle" /\ visit'[h].ip = ip
  <2>1. visit' = visit
    BY <1>3 DEF Count, Decide
  <2>2. \E s \in {"decide", "ban", "done"} : pc' = [pc EXCEPT ![i] = s]
    BY <1>3 DEF Count, Decide, Goto
  <2> QED
    BY <2>1, <2>2
<1> QED
  BY <1>2, <1>3, HitSteps

-----------------------------------------------------------------------------
\* Evaluate counts every hit once: the hits that were decided since boot have
\* counts of their own up to the counter, and the tier of their count.
CountInv ==
    /\ \A ip \in IPs : hits[ip] <= Cardinality(SeenHits(ip))
    /\ \A h \in Hits : Counted(h) => count[h] \in 1 .. hits[visit[h].ip]
    /\ \A g, h \in Hits :
          Counted(g) /\ Counted(h) /\ visit[g].ip = visit[h].ip /\ count[g] = count[h] => g = h
    /\ \A h \in Hits :
          Counted(h) /\ pc[h] # "decide" => tier[h] = ChooseTier(visit[h].sev, count[h])

LEMMA SomeHits ==
    ASSUME NEW S \in SUBSET Hits
    PROVE  IsFiniteSet(S) /\ Cardinality(S) \in Nat
<1>1. IsFiniteSet(Hits)
  BY HitPathAssumption, FS_Interval DEF Hits
<1> QED
  BY <1>1, FS_Subset, FS_CardinalityType

\* A step after which the same hits are counted, with the same counts.
LEMMA CountFrame ==
    ASSUME TypeInv, CountInv, UNCHANGED <<count, hits>>,
           \A h \in Hits : Counted(h) <=> Counted(h)',
           \A h \in Hits : pc[h] \notin Waiting => pc'[h] \notin Waiting /\ visit'[h] = visit[h],
           \A h \in Hits : pc'[h] \notin Waiting => pc[h] \notin Waiting,
           \A h \in Hits : Counted(h)' /\ pc'[h] # "decide" =>
               tier'[h] = ChooseTier(visit[h].sev, count[h])
    PROVE  CountInv'
<1>1. \A ip : SeenHits(ip)' = SeenHits(ip)
  BY DEF SeenHits
<1>2. \A h \in Hits : Counted(h)' => Counted(h) /\ visit'[h] = visit[h]
  BY DEF Counted
<1>3. \A ip \in IPs : hits'[ip] <= Cardinality(SeenHits(ip)')
  BY <1>1 DEF CountInv
<1>4. \A h \in Hits : Counted(h)' => count'[h] \in 1 .. hits'[visit'[h].ip]
  BY <1>2 DEF CountInv
<1>5. \A g, h \in Hits :
          Counted(g)' /\ Counted(h)' /\ visit'[g].ip = visit'[h].ip /\ count'[g] = count'[h] => g = h
  BY <1>2 DEF CountInv
<1>6. \A h \in Hits :
          Counted(h)' /\ pc'[h] # "decide" => tier'[h] = ChooseTier(visit'[h].sev, count'[h])
  BY <1>2
<1> QED
  BY <1>3, <1>4, <1>5, <1>6 DEF CountInv

\* Evaluate's first lock section gives the hit the next count of its address.
LEMMA CountKeeps ==
    ASSUME TypeInv, CountInv, NEW h \in Hits, Count(h)
    PROVE  CountInv'
<1> USE DEF TypeInv, TypeOK
<1> DEFINE ip == visit[h].ip
<1>1. /\ pc[h] = "count" /\ pc' = [pc EXCEPT ![h] = "decide"]
      /\ hits' = [hits EXCEPT ![ip] = @ + 1]
      /\ count' = [count EXCEPT ![h] = hits[ip] + 1]
      /\ visit' = visit /\ tier' = tier /\ ip \in IPs
  BY DEF Count, Goto, Visit
<1>2. /\ ~Counted(h) /\ Counted(h)' /\ pc'[h] = "decide"
      /\ \A i \in Hits : i # h => pc'[i] = pc[i] /\ (Counted(i)' <=> Counted(i)) /\ count'[i] = count[i]
  BY <1>1 DEF Counted, Waiting
<1>3. hits[ip] \in Nat /\ hits'[ip] = hits[ip] + 1 /\ count'[h] = hits[ip] + 1
        /\ \A j \in IPs : j # ip => hits'[j] = hits[j]
  BY <1>1
<1>4. ASSUME NEW j \in IPs PROVE hits'[j] <= Cardinality(SeenHits(j)')
  <2>1. CASE j = ip
    <3>1. SeenHits(j)' = SeenHits(j) \cup {h} /\ h \notin SeenHits(j)
      BY <1>1, <1>2, <2>1 DEF SeenHits, Waiting
    <3>2. Cardinality(SeenHits(j)') = Cardinality(SeenHits(j)) + 1
      BY <3>1, SomeHits, FS_AddElement DEF SeenHits
    <3> QED
      BY <1>3, <2>1, <3>2, SomeHits DEF CountInv, SeenHits
  <2>2. CASE j # ip
    <3>1. SeenHits(j)' = SeenHits(j)
      BY <1>1, <1>2, <2>2 DEF SeenHits
    <3> QED
      BY <1>3, <2>2, <3>1 DEF CountInv
  <2> QED
    BY <2>1, <2>2
<1>5. ASSUME NEW i \in Hits, i # h, Counted(i)
      PROVE  /\ count[i] \in 1 .. hits[visit[i].ip] /\ count'[i] = count[i]
             /\ visit[i].ip = ip => count[i] # hits[ip] + 1
             /\ hits'[visit[i].ip] \in {hits[visit[i].ip], hits[visit[i].ip] + 1}
  BY <1>2, <1>3, <1>5 DEF CountInv, Visit
<1>6. ASSUME NEW i \in Hits, Counted(i)' PROVE count'[i] \in 1 .. hits'[visit'[i].ip]
  <2>1. CASE i = h
    BY <1>1, <1>3, <2>1
  <2>2. CASE i # h
    BY <1>1, <1>2, <1>5, <1>6, <2>2 DEF Visit
  <2> QED
    BY <2>1, <2>2
<1>7. ASSUME NEW g \in Hits, NEW i \in Hits, Counted(g)', Counted(i)',
             visit'[g].ip = visit'[i].ip, count'[g] = count'[i]
      PROVE  g = i
  <2>1. CASE g # h /\ i # h
    BY <1>1, <1>2, <1>7, <2>1 DEF CountInv
  <2>2. CASE g = h /\ i # h
    BY <1>1, <1>2, <1>3, <1>5, <1>7, <2>2
  <2>3. CASE g # h /\ i = h
    BY <1>1, <1>2, <1>3, <1>5, <1>7, <2>3
  <2> QED
    BY <2>1, <2>2, <2>3
<1>8. ASSUME NEW i \in Hits, Counted(i)', pc'[i] # "decide"
      PROVE  tier'[i] = ChooseTier(visit'[i].sev, count'[i])
  BY <1>1, <1>2, <1>8 DEF CountInv
<1> QED
  BY <1>4, <1>6, <1>7, <1>8 DEF CountInv

LEMMA CountInvariant == Spec => []CountInv
<1> USE HitPathAssumption
<1>1. Init => CountInv
  <2> SUFFICES ASSUME Init PROVE CountInv
    OBVIOUS
  <2>1. \A ip \in IPs : hits[ip] = 0 /\ Cardinality(SeenHits(ip)) \in Nat
    BY SomeHits DEF Init, SeenHits
  <2>2. \A h \in Hits : ~Counted(h)
    BY DEF Init, Counted, Waiting
  <2> QED
    BY <2>1, <2>2 DEF CountInv
<1>2. TypeInv /\ CountInv /\ [Next]_vars => CountInv'
  <2> SUFFICES ASSUME TypeInv, CountInv, [Next]_vars PROVE CountInv'
    OBVIOUS
  <2> USE DEF TypeInv, TypeOK
  <2>1. ASSUME NEW h \in Hits,
               pc[h] = "idle", pc' = [pc EXCEPT ![h] = "record"],
               \A i \in Hits : i # h => visit'[i] = visit[i],
               UNCHANGED <<count, tier, hits, file, buf>>
        PROVE  CountInv'
    <3>1. \A i \in Hits : (Counted(i) <=> Counted(i)') /\ (pc'[i] \in Waiting <=> pc[i] \in Waiting)
      BY <2>1 DEF Counted, Waiting
    <3>2. \A i \in Hits : pc[i] \notin Waiting => visit'[i] = visit[i]
      BY <2>1 DEF Waiting
    <3>3. \A i \in Hits : Counted(i)' /\ pc'[i] # "decide" =>
              tier'[i] = ChooseTier(visit[i].sev, count[i])
      BY <2>1, <3>1 DEF CountInv
    <3> QED
      BY <2>1, <3>1, <3>2, <3>3, CountFrame
  <2>2. ASSUME NEW h \in Hits, Decide(h) PROVE CountInv'
    <3>1. /\ pc[h] = "decide" /\ \E s \in {"ban", "done"} : pc' = [pc EXCEPT ![h] = s]
          /\ tier' = [tier EXCEPT ![h] = ChooseTier(visit[h].sev, count[h])]
          /\ UNCHANGED <<visit, count, hits>>
      BY <2>2 DEF Decide, Goto
    <3>2. \A i \in Hits : (Counted(i) <=> Counted(i)') /\ (pc'[i] \in Waiting <=> pc[i] \in Waiting)
      BY <3>1 DEF Counted, Waiting
    <3>3. ASSUME NEW i \in Hits, Counted(i)', pc'[i] # "decide"
          PROVE  tier'[i] = ChooseTier(visit[i].sev, count[i])
      <4>1. CASE i = h
        BY <3>1, <4>1
      <4>2. CASE i # h
        BY <3>1, <3>2, <3>3, <4>2 DEF CountInv
      <4> QED
        BY <4>1, <4>2
    <3> QED
      BY <3>1, <3>2, <3>3, CountFrame
  <2>3. ASSUME NEW h \in Hits, NEW s \in Steps, pc' = [pc EXCEPT ![h] = s],
               (pc[h] \in Waiting /\ s = "count") \/ (pc[h] \in After /\ s \in After),
               UNCHANGED <<visit, count, tier, hits>>
        PROVE  CountInv'
    <3>1. \A i \in Hits : /\ Counted(i) <=> Counted(i)'
                          /\ pc'[i] \in Waiting <=> pc[i] \in Waiting
                          /\ pc'[i] = "decide" <=> pc[i] = "decide"
      BY <2>3 DEF Counted, Waiting, After
    <3>2. \A i \in Hits : Counted(i)' /\ pc'[i] # "decide" =>
              tier'[i] = ChooseTier(visit[i].sev, count[i])
      BY <2>3, <3>1 DEF CountInv
    <3> QED
      BY <2>3, <3>1, <3>2, CountFrame
  <2>4. CASE Crash
    <3>1. /\ \A h \in Hits : ~Counted(h)'
          /\ \A ip \in IPs : hits'[ip] = 0
      BY <2>4 DEF Crash, Counted, Waiting
    <3>2. \A ip \in IPs : Cardinality(SeenHits(ip)') \in Nat
      BY SomeHits DEF SeenHits
    <3> QED
      BY <3>1, <3>2 DEF CountInv
  <2>5. CASE UNCHANGED <<pc, visit, count, tier, hits>>
    BY <2>5, CountFrame DEF Counted, CountInv
  <2> QED
    BY <2>1, <2>2, <2>3, <2>4, <2>5, CountKeeps, HitSteps
<1> QED
  BY <1>1, <1>2, TypeInvariant, PTL DEF Spec

\* Hits whose counts are different and at most n are at most n.
LEMMA DistinctCounts ==
    ASSUME NEW S \in SUBSET Hits, NEW n \in Nat,
           \A h \in S : count[h] \in 1 .. n,
           \A g, h \in S : count[g] = count[h] => g = h
    PROVE  Cardinality(S) <= n
<1> DEFINE f == [h \in S |-> count[h]]
<1>1. f \in Injection(S, 1 .. n)
  BY DEF Injection, IsInjective
<1>2. IsFiniteSet(1 .. n) /\ Cardinality(1 .. n) = n
  BY FS_Interval
<1> QED
  BY <1>1, <1>2, FS_Injection

\* No hit is lost in counting: only so many severe hits on an address are let
\* go without a ban, or without the cloud, however their goroutines interleave.
THEOREM EscalationHolds == Spec => []EscalationSure
<1> USE HitPathAssumption
<1>1. TypeInv /\ CountInv => EscalationSure
  <2> SUFFICES ASSUME TypeInv, CountInv, NEW ip \in IPs
               PROVE  /\ Cardinality({h \in Decided(ip) :
                             visit[h].sev >= LocalBanSev /\ tier[h] \notin Banning}) < LocalBanHits
                      /\ Cardinality({h \in Decided(ip) :
                             visit[h].sev >= CloudSev /\ tier[h] # "cloud"}) < CloudHits
    BY DEF EscalationSure
  <2> DEFINE L == {h \in Decided(ip) : visit[h].sev >= LocalBanSev /\ tier[h] \notin Banning}
             C == {h \in Decided(ip) : visit[h].sev >= CloudSev /\ tier[h] # "cloud"}
  <2>1. \A h \in Decided(ip) : /\ h \in Hits /\ visit[h].ip = ip /\ Counted(h)
                               /\ count[h] \in Nat \ {0} /\ visit[h].sev \in Nat
                               /\ tier[h] = ChooseTier(visit[h].sev, count[h])
    BY DEF Decided, Counted, Waiting, CountInv, TypeInv, TypeOK, Visit
  <2>2. \A g, h \in Decided(ip) : count[g] = count[h] => g = h
    BY <2>1 DEF CountInv
  <2>3. LocalBanHits - 1 \in Nat /\ CloudHits - 1 \in Nat
    OBVIOUS
  <2>4. \A h \in L : count[h] \in 1 .. (LocalBanHits - 1)
    BY <2>1 DEF ChooseTier, Banning
  <2>5. \A h \in C : count[h] \in 1 .. (CloudHits - 1)
    BY <2>1 DEF ChooseTier
  <2>6. L \in SUBSET Hits /\ C \in SUBSET Hits
    BY DEF Decided
  <2>7. Cardinality(L) <= LocalBanHits - 1
    BY <2>2, <2>3, <2>4, <2>6, DistinctCounts
  <2>8. Cardinality(C) <= CloudHits - 1
    BY <2>2, <2>3, <2>5, <2>6, DistinctCounts
  <2> QED
    BY <2>6, <2>7, <2>8, SomeHits
<1> QED
  BY <1>1, TypeInvariant, CountInvariant, PTL

-----------------------------------------------------------------------------
\* A ban whose address and severity had earned its tier.
Earned(b) ==
    /\ b.sev >= (IF b.tier = "cloud" THEN CloudSev ELSE LocalBanSev)
    /\ Cardinality(HitsOn(b.ip)) >= (IF b.tier = "cloud" THEN CloudHits ELSE LocalBanHits)

EarnedInv ==
    /\ \A b \in file.bans : Earned(b)
    /\ \A h \in Hits : \A b \in buf[h] : Earned(b)

\* The entry a goroutine puts in was earned by its count.
LEMMA EntryEarned ==
    ASSUME TypeInv, CountInv, NEW h \in Hits, pc[h] = "load"
    PROVE  Earned(Entry(h))
<1> USE HitPathAssumption
<1>1. tier[h] \in Banning /\ Counted(h) /\ tier[h] = ChooseTier(visit[h].sev, count[h])
  BY DEF TypeInv, BansLeft, Enforcing, CountInv, Counted, Waiting
<1>2. /\ visit[h].ip \in IPs /\ visit[h].sev \in Nat
      /\ hits[visit[h].ip] \in Nat /\ count[h] \in 1 .. hits[visit[h].ip]
      /\ hits[visit[h].ip] <= Cardinality(SeenHits(visit[h].ip))
  BY <1>1 DEF TypeInv, TypeOK, Visit, CountInv
<1>3. /\ Cardinality(SeenHits(visit[h].ip)) <= Cardinality(HitsOn(visit[h].ip))
      /\ Cardinality(SeenHits(visit[h].ip)) \in Nat /\ Cardinality(HitsOn(visit[h].ip)) \in Nat
  <2>1. SeenHits(visit[h].ip) \in SUBSET HitsOn(visit[h].ip)
    BY DEF SeenHits, HitsOn, Waiting
  <2>2. HitsOn(visit[h].ip) \in SUBSET Hits /\ SeenHits(visit[h].ip) \in SUBSET Hits
    BY DEF SeenHits, HitsOn
  <2> QED
    BY <2>1, <2>2, SomeHits, FS_Subset
<1>4. count[h] <= Cardinality(HitsOn(visit[h].ip))
  BY <1>2, <1>3
<1>5. /\ tier[h] = "cloud" => visit[h].sev >= CloudSev /\ count[h] >= CloudHits
      /\ tier[h] # "cloud" => visit[h].sev >= LocalBanSev /\ count[h] >= LocalBanHits
  BY <1>1 DEF ChooseTier, Banning
<1> QED
  BY <1>2, <1>3, <1>4, <1>5 DEF Earned, Entry

\* What was earned stays earned.
LEMMA EarnedStays ==
    ASSUME TypeInv, [Next]_vars, NEW b, Earned(b)
    PROVE  Earned(b)'
<1>1. HitsOn(b.ip) \in SUBSET HitsOn(b.ip)' /\ HitsOn(b.ip)' \in SUBSET Hits /\ HitsOn(b.ip) \in SUBSET Hits
  BY HitsStay DEF HitsOn
<1>2. /\ Cardinality(HitsOn(b.ip)) <= Cardinality(HitsOn(b.ip)')
      /\ Cardinality(HitsOn(b.ip)) \in Nat /\ Cardinality(HitsOn(b.ip)') \in Nat
  BY <1>1, SomeHits, FS_Subset
<1> QED
  BY <1>2, HitPathAssumption DEF Earned

\* What the other nodes pull was earned: the hits that the tier of a ban asks
\* for did come in, from that address, and one of that severity.
THEOREM BansEarned == Spec => []FleetEarned
<1> USE HitPathAssumption
<1>1. Init => EarnedInv
  BY DEF Init, EarnedInv
<1>2. TypeInv /\ CountInv /\ EarnedInv /\ [Next]_vars => EarnedInv'
  <2> SUFFICES ASSUME TypeInv, CountInv, EarnedInv, [Next]_vars PROVE EarnedInv'
    OBVIOUS
  <2> USE DEF TypeInv, TypeOK
  <2>0. \A b : Earned(b) => Earned(b)'
    BY EarnedStays
  <2>1. ASSUME NEW h \in Hits, LoadBans(h) \/ LoadBansFails(h) PROVE EarnedInv'
    <3>1. pc[h] = "load" /\ file' = file
      BY <2>1 DEF LoadBans, LoadBansFails, Goto
    <3>2. buf' = [buf EXCEPT ![h] = buf'[h]] /\ buf'[h] \subseteq file.bans \cup {Entry(h)}
      BY <2>1 DEF LoadBans, LoadBansFails, Upserted
    <3>3. \A b \in buf'[h] : Earned(b)
      BY <3>1, <3>2, EntryEarned DEF EarnedInv
    <3> QED
      BY <2>0, <3>1, <3>2, <3>3 DEF EarnedInv
  <2>2. ASSUME NEW h \in Hits, TruncateBans(h) \/ OpenBansFails(h) \/ WriteBans(h) \/ WriteBansFails(h)
        PROVE  EarnedInv'
    <3>1. file'.bans \in {file.bans, {}, buf[h]} /\ \A i \in Hits : buf'[i] \in {buf[i], {}}
      BY <2>2 DEF TruncateBans, OpenBansFails, WriteBans, WriteBansFails
    <3> QED
      BY <2>0, <3>1 DEF EarnedInv
  <2>3. ASSUME file' = file, \A i \in Hits : buf'[i] \in {buf[i], {}} PROVE EarnedInv'
    BY <2>0, <2>3 DEF EarnedInv
  <2>4. CASE Crash
    BY <2>3, <2>4 DEF Crash
  <2>5. CASE UNCHANGED <<file, buf>>
    BY <2>3, <2>5
  <2> QED
    BY <2>1, <2>2, <2>4, <2>5 DEF Next, Arrive, Handler, RecordHit, RecordHitFails, Policy, Count,
       Decide, Ban, NoBan, RecordBan, RecordBanFails, Upsert, LockStore, Notify, HandleMinor,
       HandleMuted, HandleAllowed, CooldownEnds, vars, fleetVars
<1>3. EarnedInv => FleetEarned
  BY DEF EarnedInv, FleetEarned, Earned
<1> QED
  BY <1>1, <1>2, <1>3, TypeInvariant, CountInvariant, PTL DEF Spec
=============================================================================
