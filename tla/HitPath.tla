------------------------------ MODULE HitPath ------------------------------
(***************************************************************************)
(* What one hit on a decoy sets in motion: the handler of the bait records *)
(* it and starts a policy goroutine (ingest/honeypot/server.go,            *)
(* maybeBlock); the goroutine counts the hit and chooses a tier            *)
(* (policy/engine.go), has the address banned, and enters it in the fleet  *)
(* ban list (fleet/store.go), one JSON file that is read, changed and      *)
(* rewritten as a whole under a mutex.  Each record that was written has a *)
(* goroutine of its own run the notifiers (notify/fanout.go, webhook.go,   *)
(* email.go), and the e-mail notifier mutes an address for a while after   *)
(* every alert.                                                            *)
(*                                                                         *)
(* Record and EnforceContainment appear by their outcome only; modules     *)
(* CatchLedger and Containment have their steps.                           *)
(*                                                                         *)
(* Left out: the publish on the bus (module Pipeline), the evidence files  *)
(* of the abuse pack, which nothing reads back, hits without an address,   *)
(* which end with their record, records of severity 0, which no bait       *)
(* makes, the boot alert, the expiry of a ban after a day (Active skips    *)
(* expired entries, nothing removes them), and the second half of          *)
(* maybeBlock, which runs only without a policy engine: main always sets   *)
(* one.                                                                    *)
(***************************************************************************)
EXTENDS Naturals, FiniteSets

CONSTANTS
    MaxHits,       \* bound: hits in a behaviour
    IPs,           \* addresses
    Visits,        \* the hits there may be: an address and a severity
    Wired,         \* main gave the policy engine a Blocker
    TarpitSev,     \* Config.TarpitSeverity
    LocalBanSev,   \* Config.LocalBanSev
    LocalBanHits,  \* Config.LocalBanHits
    CloudSev,      \* Config.CloudSev
    CloudHits,     \* Config.CloudHits
    MinSeverity,   \* EmailConfig.MinSeverity
    Nobody,        \* the value of a mutex nobody holds
    MaxFaults      \* bound: failures and crashes in a behaviour

Hits == 1 .. MaxHits

ASSUME HitPathAssumption ==
    /\ MaxHits \in Nat /\ MaxFaults \in Nat
    /\ Visits \subseteq [ip : IPs, sev : Nat]
    /\ Visits # {}
    /\ Wired \in BOOLEAN
    /\ {TarpitSev, LocalBanSev, CloudSev, MinSeverity} \subseteq Nat
    /\ {LocalBanHits, CloudHits} \subseteq Nat \ {0}
    /\ Nobody \notin Hits

VARIABLES
    pc,        \* where each hit is, in its handler and then in its goroutine
    visit,     \* visit[h]: what came in
    count,     \* count[h]: the hit count Evaluate read for it
    tier,      \* tier[h]: the tier Evaluate chose
    banned,    \* banned[h]: containment calls its goroutine has made
    hits,      \* Engine.hits
    last,      \* last[ip]: the hit whose decision Engine.last has, if any
    file,      \* the fleet store's bans.json
    buf,       \* buf[h]: the list its goroutine is about to save
    mu,        \* Store.mu
    hooks,     \* records whose notifier goroutine has not got past the mute
    cooling,   \* addresses Email.last mutes
    alerts,    \* ghost: alerts[ip]: mails attempted in this cooldown
    muted,     \* ghost: addresses an alert was held back of in this cooldown
    saved,     \* ghost: the hits whose Upsert returned nil since the file was
               \* last left torn or could not be read
    faults     \* failures and crashes so far

policyVars == <<count, tier, banned, hits, last>>
fleetVars  == <<file, buf, mu, saved>>
mailVars   == <<cooling, alerts, muted>>
vars == <<pc, visit, policyVars, fleetVars, hooks, mailVars, faults>>

Tiers == {"observe", "tarpit", "local_ban", "cloud"}

\* The tiers that ban an address.
Banning == {"local_ban", "cloud"}

Steps == {"idle", "record", "count", "decide", "ban", "log", "fleet", "load",
          "truncate", "write", "done", "lost"}

\* The steps of Upsert taken with Store.mu held.
Critical == {"load", "truncate", "write"}

Visit == [ip : IPs, sev : Nat]

\* A record with a notifier: of the hit itself, or of one of its bans.
Hook == [hit : Hits, turn : 0 .. 2]

BanEntry == [ip : IPs, sev : Nat, tier : Banning]

\* whole: the file parses, or does not exist; a torn one holds no list.
BanFile == [bans : SUBSET BanEntry, whole : BOOLEAN]

-----------------------------------------------------------------------------
\* Mutant: every address that was seen often enough is banned.
ChooseTierByHits(sev, n) ==
    IF sev >= CloudSev /\ n >= CloudHits THEN "cloud"
    ELSE IF n >= LocalBanHits THEN "local_ban"
    ELSE "observe"

\* The switch of Evaluate: the first case that applies.
ChooseTier(sev, n) ==
    IF sev >= CloudSev /\ n >= CloudHits THEN "cloud"
    ELSE IF sev >= LocalBanSev /\ n >= LocalBanHits THEN "local_ban"
    ELSE IF sev >= TarpitSev THEN "tarpit"
    ELSE "observe"

\* Mutant: the abuse pack bans as well.
BanCallsPacked(t) == IF t = "cloud" THEN 3 ELSE IF t = "local_ban" THEN 1 ELSE 0

\* Containment calls of a decision: the cloud tier lists local_ban and
\* cloud_escalate, and Enforce makes the same call for both.
BanCalls(t) == IF t = "cloud" THEN 2 ELSE IF t = "local_ban" THEN 1 ELSE 0

\* The list with e in place of an older entry of its address.
Upserted(bans, e) == {b \in bans : b.ip # e.ip} \cup {e}

Entry(h) == [ip |-> visit[h].ip, sev |-> visit[h].sev, tier |-> tier[h]]

\* WithHook: a record that was written starts a goroutine for its notifiers.
Hooked(h, turn) == hooks \cup {[hit |-> h, turn |-> turn]}

Init ==
    /\ pc = [h \in Hits |-> "idle"]
    /\ visit = [h \in Hits |-> CHOOSE v \in Visits : TRUE]
    /\ count = [h \in Hits |-> 0]
    /\ tier = [h \in Hits |-> "observe"]
    /\ banned = [h \in Hits |-> 0]
    /\ hits = [ip \in IPs |-> 0]
    /\ last = [ip \in IPs |-> Nobody]
    /\ file = [bans |-> {}, whole |-> TRUE]
    /\ buf = [h \in Hits |-> {}]
    /\ mu = Nobody
    /\ hooks = {}
    /\ cooling = {}
    /\ alerts = [ip \in IPs |-> 0]
    /\ muted = {}
    /\ saved = {}
    /\ faults = 0

Goto(h, from, to) == pc[h] = from /\ pc' = [pc EXCEPT ![h] = to]

Fault == faults < MaxFaults /\ faults' = faults + 1

-----------------------------------------------------------------------------
\* The handler of a bait: emitHitWithBody, and in the same order the ends of
\* the SSH and of the TCP baits.

\* A hit comes in.  Hits are numbered as they arrive.
Arrive(h) ==
    /\ Goto(h, "idle", "record")
    /\ \A i \in Hits : i < h => pc[i] # "idle"
    /\ \E v \in Visits : visit' = [visit EXCEPT ![h] = v]
    /\ UNCHANGED <<policyVars, fleetVars, hooks, mailVars, faults>>

\* The ledger writes the record; its hook and the policy goroutine start.
RecordHit(h) ==
    /\ Goto(h, "record", "count")
    /\ hooks' = Hooked(h, 0)
    /\ UNCHANGED <<visit, policyVars, fleetVars, mailVars, faults>>

\* The error of Record is dropped and the policy goroutine starts all the same.
RecordHitFails(h) ==
    /\ Goto(h, "record", "count")
    /\ Fault
    /\ UNCHANGED <<visit, policyVars, fleetVars, hooks, mailVars>>

-----------------------------------------------------------------------------
\* The policy goroutine.

\* Mutant: the count is read before it is incremented.
CountOld(h) ==
    LET ip == visit[h].ip
    IN /\ Goto(h, "count", "decide")
       /\ count' = [count EXCEPT ![h] = hits[ip]]
       /\ hits' = [hits EXCEPT ![ip] = @ + 1]
       /\ UNCHANGED <<visit, tier, banned, last, fleetVars, hooks, mailVars, faults>>

\* Evaluate's first lock section: increment and read the count.
Count(h) ==
    LET ip == visit[h].ip
    IN /\ Goto(h, "count", "decide")
       /\ hits' = [hits EXCEPT ![ip] = @ + 1]
       /\ count' = [count EXCEPT ![h] = hits[ip] + 1]
       /\ UNCHANGED <<visit, tier, banned, last, fleetVars, hooks, mailVars, faults>>

\* The tier is chosen with no lock held, and stored in a second lock section:
\* a decision may replace one of a later hit.  Apply returns at once if there
\* is nothing to enforce.
Decide(h) ==
    /\ tier' = [tier EXCEPT ![h] = ChooseTier(visit[h].sev, count[h])]
    /\ last' = [last EXCEPT ![visit[h].ip] = h]
    /\ Goto(h, "decide", IF tier'[h] \in Banning THEN "ban" ELSE "done")
    /\ UNCHANGED <<visit, count, banned, hits, fleetVars, hooks, mailVars, faults>>

\* After a containment call: the next one, or the fleet store.
AfterBan(h) == IF banned'[h] < BanCalls(tier[h]) THEN "ban" ELSE "fleet"

\* EnforceContainment has the host drop the address; Enforce records it.
Ban(h) ==
    /\ Wired
    /\ Goto(h, "ban", "log")
    /\ UNCHANGED <<visit, policyVars, fleetVars, hooks, mailVars, faults>>

\* Without a Blocker, for a private address, or if the firewall fails, nothing
\* is recorded.
NoBan(h) ==
    /\ banned' = [banned EXCEPT ![h] = @ + 1]
    /\ Goto(h, "ban", AfterBan(h))
    /\ UNCHANGED <<visit, count, tier, hits, last, fleetVars, hooks, mailVars, faults>>

RecordBan(h) ==
    /\ banned' = [banned EXCEPT ![h] = @ + 1]
    /\ Goto(h, "log", AfterBan(h))
    /\ hooks' = Hooked(h, banned'[h])
    /\ UNCHANGED <<visit, count, tier, hits, last, fleetVars, mailVars, faults>>

RecordBanFails(h) ==
    /\ banned' = [banned EXCEPT ![h] = @ + 1]
    /\ Goto(h, "log", AfterBan(h))
    /\ Fault
    /\ UNCHANGED <<visit, count, tier, hits, last, fleetVars, hooks, mailVars>>

-----------------------------------------------------------------------------
\* Store.Upsert, whatever became of the ban at the firewall.

\* Mutant: Upsert does not lock.
LockStoreNot(h) ==
    /\ Goto(h, "fleet", "load")
    /\ mu' = h
    /\ UNCHANGED <<visit, policyVars, file, buf, saved, hooks, mailVars, faults>>

LockStore(h) ==
    /\ mu = Nobody
    /\ Goto(h, "fleet", "load")
    /\ mu' = h
    /\ UNCHANGED <<visit, policyVars, file, buf, saved, hooks, mailVars, faults>>

\* Read the list and put the entry in.  A file that does not parse counts as
\* an empty list: Upsert drops the error of load.
LoadBans(h) ==
    /\ Goto(h, "load", "truncate")
    /\ buf' = [buf EXCEPT ![h] = Upserted(IF file.whole THEN file.bans ELSE {}, Entry(h))]
    /\ UNCHANGED <<visit, policyVars, file, mu, saved, hooks, mailVars, faults>>

\* So does a file that could not be read.
LoadBansFails(h) ==
    /\ Goto(h, "load", "truncate")
    /\ buf' = [buf EXCEPT ![h] = {Entry(h)}]
    /\ saved' = {}
    /\ Fault
    /\ UNCHANGED <<visit, policyVars, file, mu, hooks, mailVars>>

\* os.WriteFile truncates the file as it opens it ...
TruncateBans(h) ==
    /\ Goto(h, "truncate", "write")
    /\ file' = [bans |-> {}, whole |-> FALSE]
    /\ UNCHANGED <<visit, policyVars, buf, mu, saved, hooks, mailVars, faults>>

\* ... unless the directory cannot be made or the file opened.
OpenBansFails(h) ==
    /\ Goto(h, "truncate", "done")
    /\ mu' = Nobody
    /\ Fault
    /\ buf' = [buf EXCEPT ![h] = {}]
    /\ UNCHANGED <<visit, policyVars, file, saved, hooks, mailVars>>

WriteBans(h) ==
    /\ Goto(h, "write", "done")
    /\ file' = [bans |-> buf[h], whole |-> TRUE]
    /\ saved' = saved \cup {h}
    /\ mu' = Nobody
    /\ buf' = [buf EXCEPT ![h] = {}]
    /\ UNCHANGED <<visit, policyVars, hooks, mailVars, faults>>

\* Mutant: the mutex is released on the good path only.
WriteBansFailsLocked(h) ==
    /\ Goto(h, "write", "done")
    /\ saved' = {}
    /\ Fault
    /\ buf' = [buf EXCEPT ![h] = {}]
    /\ UNCHANGED <<visit, policyVars, file, mu, hooks, mailVars>>

\* A short write leaves the file torn.
WriteBansFails(h) ==
    /\ Goto(h, "write", "done")
    /\ saved' = {}
    /\ mu' = Nobody
    /\ Fault
    /\ buf' = [buf EXCEPT ![h] = {}]
    /\ UNCHANGED <<visit, policyVars, file, hooks, mailVars>>

-----------------------------------------------------------------------------
\* The notifiers of a record: the webhook, whose outcome is only logged, then
\* the e-mail.  What comes after allow, the SMTP conversation, has no deadline,
\* changes nothing here, and its error is only logged.

IPOf(r) == visit[r.hit].ip

Alertable(r) == visit[r.hit].sev >= MinSeverity

\* A record below the minimum severity is not mailed.
HandleMinor(r) ==
    /\ ~Alertable(r)
    /\ hooks' = hooks \ {r}
    /\ UNCHANGED <<pc, visit, policyVars, fleetVars, mailVars, faults>>

\* allow: the address is cooling down.
HandleMuted(r) ==
    /\ Alertable(r) /\ IPOf(r) \in cooling
    /\ hooks' = hooks \ {r}
    /\ muted' = muted \cup {IPOf(r)}
    /\ UNCHANGED <<pc, visit, policyVars, fleetVars, cooling, alerts, faults>>

\* Mutant: the cooldown starts once the mail is sent, if it is.
HandleAllowedLate(r) ==
    /\ Alertable(r) /\ IPOf(r) \notin cooling
    /\ hooks' = hooks \ {r}
    /\ cooling' \in {cooling, cooling \cup {IPOf(r)}}
    /\ alerts' = [alerts EXCEPT ![IPOf(r)] = @ + 1]
    /\ UNCHANGED <<pc, visit, policyVars, fleetVars, muted, faults>>

\* allow starts the cooldown, before the mail is sent.
HandleAllowed(r) ==
    /\ Alertable(r) /\ IPOf(r) \notin cooling
    /\ hooks' = hooks \ {r}
    /\ cooling' = cooling \cup {IPOf(r)}
    /\ alerts' = [alerts EXCEPT ![IPOf(r)] = @ + 1]
    /\ UNCHANGED <<pc, visit, policyVars, fleetVars, muted, faults>>

CooldownEnds(ip) ==
    /\ ip \in cooling
    /\ cooling' = cooling \ {ip}
    /\ alerts' = [alerts EXCEPT ![ip] = 0]
    /\ muted' = muted \ {ip}
    /\ UNCHANGED <<pc, visit, policyVars, fleetVars, hooks, faults>>

-----------------------------------------------------------------------------
\* The process ends and is started again: all but the file is gone.
Crash ==
    /\ Fault
    /\ pc' = [h \in Hits |-> IF pc[h] = "idle" THEN "idle" ELSE "lost"]
    /\ hits' = [ip \in IPs |-> 0]
    /\ last' = [ip \in IPs |-> Nobody]
    /\ buf' = [h \in Hits |-> {}]
    /\ saved' = IF file.whole THEN saved ELSE {}
    /\ mu' = Nobody
    /\ hooks' = {}
    /\ cooling' = {}
    /\ alerts' = [ip \in IPs |-> 0]
    /\ muted' = {}
    /\ UNCHANGED <<visit, count, tier, banned, file>>

Handler(h) == RecordHit(h) \/ RecordHitFails(h)

Policy(h) == Count(h) \/ Decide(h) \/ Ban(h) \/ NoBan(h) \/ RecordBan(h) \/ RecordBanFails(h)

Upsert(h) ==
    \/ LockStore(h) \/ LoadBans(h) \/ LoadBansFails(h)
    \/ TruncateBans(h) \/ OpenBansFails(h) \/ WriteBans(h) \/ WriteBansFails(h)

Notify(r) == HandleMinor(r) \/ HandleMuted(r) \/ HandleAllowed(r)

Next ==
    \/ \E h \in Hits : Arrive(h) \/ Handler(h) \/ Policy(h) \/ Upsert(h)
    \/ \E r \in hooks : Notify(r)
    \/ \E ip \in IPs : CooldownEnds(ip)
    \/ Crash

Spec == Init /\ [][Next]_vars

\* The scheduler runs every goroutine; Record and EnforceContainment return
\* (EveryCallReturns of CatchLedger, CallReturns of Containment); sync.Mutex
\* lets a starved waiter in.  Notifiers may hang.
Fairness ==
    \A h \in Hits :
        /\ WF_vars(Handler(h) \/ Policy(h) \/ (Upsert(h) /\ pc[h] # "fleet"))
        /\ SF_vars(LockStore(h))

FairSpec == Spec /\ Fairness

-----------------------------------------------------------------------------
TypeOK ==
    /\ pc \in [Hits -> Steps]
    /\ visit \in [Hits -> Visit]
    /\ count \in [Hits -> Nat]
    /\ tier \in [Hits -> Tiers]
    /\ banned \in [Hits -> 0 .. 2]
    /\ hits \in [IPs -> Nat]
    /\ last \in [IPs -> Hits \cup {Nobody}]
    /\ file \in BanFile
    /\ buf \in [Hits -> SUBSET BanEntry]
    /\ mu \in Hits \cup {Nobody}
    /\ hooks \subseteq Hook
    /\ cooling \subseteq IPs
    /\ alerts \in [IPs -> Nat]
    /\ muted \subseteq IPs
    /\ saved \subseteq Hits
    /\ faults \in 0 .. MaxFaults

-----------------------------------------------------------------------------
\* The hits on ip that were decided since boot.
Decided(ip) ==
    {h \in Hits : visit[h].ip = ip /\ pc[h] \notin {"idle", "record", "count", "decide", "lost"}}

\* No hit is lost in counting: of the severe hits on an address that were
\* decided since boot, fewer than LocalBanHits were let go without a ban, and
\* of the most severe, fewer than CloudHits without the cloud, however their
\* goroutines were scheduled (Evaluate increments and reads under its lock and
\* decides outside of it).
EscalationSure ==
    \A ip \in IPs :
        /\ Cardinality({h \in Decided(ip) : visit[h].sev >= LocalBanSev /\ tier[h] \notin Banning})
               < LocalBanHits
        /\ Cardinality({h \in Decided(ip) : visit[h].sev >= CloudSev /\ tier[h] # "cloud"})
               < CloudHits

\* The list, or what it will be once the rewrite in progress is done.
Contents == IF mu # Nobody /\ pc[mu] = "write" THEN buf[mu] ELSE file.bans

\* Every ban that Upsert reported saved is in the list, once, whichever other
\* addresses are being entered at the same time, and after a crash too, unless
\* the file was left torn or could not be read (Upsert then starts an empty
\* list and everything is gone).
FleetKeepsBans ==
    \A h \in saved :
        \E b \in Contents :
            b.ip = visit[h].ip /\ \A c \in Contents : c.ip = b.ip => c = b

HitsOn(ip) == {h \in Hits : pc[h] # "idle" /\ visit[h].ip = ip}

\* What the other nodes pull was earned: a ban in the list has the severity of
\* its tier, and the address had hit the decoys as often as the tier asks for.
\* It says nothing of the firewall: maybeBlock enters the ban even if the
\* containment call failed.
FleetEarned ==
    \A b \in file.bans :
        /\ b.sev >= (IF b.tier = "cloud" THEN CloudSev ELSE LocalBanSev)
        /\ Cardinality(HitsOn(b.ip)) >= (IF b.tier = "cloud" THEN CloudHits ELSE LocalBanHits)

\* One attempt at most to mail about an address in one cooldown, though the
\* notifiers of its records run side by side (docs/CATCH.md, 4); and an alert is
\* held back only if another one about the same address was tried in the same
\* cooldown: a record too harmless to be mailed silences nothing.
NoAlertStorm ==
    /\ \A ip \in IPs : alerts[ip] <= 1
    /\ \A ip \in muted : alerts[ip] > 0

\* Every hit that came in is decided, banned if it must be and entered in the
\* list, unless the process ends: no failure leaves Store.mu locked, and a mail
\* server that never answers holds up nobody.
HitSettles ==
    \A h \in Hits : pc[h] = "record" ~> pc[h] \in {"done", "lost"}
=============================================================================
