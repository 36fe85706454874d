# Formal model of ATDE

TLA+ specifications of the threat-defence node in `src/`, the TLC configurations that check
them on small instances, and TLAPS proofs about them. Every definition is translated from the
Go code; `PROJECT.json` names the lines each one stands for, the hazards the properties are
aimed at, the disagreements found, and for each property a plausible bug that breaks it.

Run `tlc -workers 2 -config <cfg> <MC module>` and `tlapm <module>Proofs.tla` in this directory.

## 1. Inventory

A node is one process (`cmd/atde/main.go`), started in a mode that decides which services it
runs; nodes share a NATS JetStream stream. Inside a node the services share the catch
directory, the host's firewall and a few in-memory structures, and almost everything runs in
goroutines of its own.

| Component | State | Operations | Interacts with | What is hard | What makes it correct |
|---|---|---|---|---|---|
| Catch ledger `catch/ledger.go` | `events.jsonl`, daily shards, one dossier file per address, a mutex per `Ledger` value | `Record` (append, append, read-fold-rewrite, hook) | every service records; hooks notify | lost updates, torn writes, crashes between files, several values on one directory | audit trail primary and complete, dossiers in step with it, hook only after success |
| Ledger readers `watch.go`, `query.go`, `export_ext.go`, `stats.go` | an offset, two evidence files per address | `Watch`, `ListRecent`, `ExportAbuseBundle`, `BuildStats` | read the ledger's files without its lock, some from another process | files that grow or are half written between two reads | no line missed, the files of a pack agree, a summary counts what it lists |
| Containment `disrupt/edge` | `LocalFirewall` (DryRun, ready, useSet, mutex), host firewall, cloud block lists | `EnforceContainment`, `EnsureReady`, `BlockIP` | policy engine, disrupt consumer, cloud providers | unlocked DryRun, check-then-insert, cached setup outcome, goroutines that outlive the call | bans only what a real run asked for, reports what is true, returns |
| Policy engine `policy/engine.go` | hit counts, last decision per address | `Evaluate`, `Enforce`, `Apply` | honeypot hits, containment, fleet, ledger | two critical sections, two containment calls per cloud decision | no hit lost in counting; decisions carried out |
| Fleet store `fleet/store.go` | one JSON file, a mutex | `Upsert`, `Active` | policy goroutine, console, other nodes | rewritten in place, a read error starts it over | bans survive other bans and a restart |
| Bus and workers `natsbus`, `extract`, `enrich`, `disrupt/active`, `disrupt/dispatcher`, `sinkhole`, `publish` | stream, durable consumers, dead-letter subject | `Publish`, `Consume`, one handler per consumer | each other, through subjects | redelivery, poison messages, partial publishes, crash, scale-down | nothing lost, bounded duplicates, everything settles |
| Honeypot `ingest/honeypot` | counts, locks and second-factor sessions by address and form | HTTP, SSH and TCP baits, login and MFA burns | ledger, bus, policy, tarpit | guesses in parallel connections, dropped errors | every visit on record, guesses rationed |
| Deception `deception` | one session with a score per client | `ServeHTTP`, `RecordAndDispatch`, `AutoBlockIP` | ledger, bus, cloud bans, upstream | scores raised side by side, a gate that reads without the lock, publishes whose errors are dropped | exact scores, a gate that holds, a detection recorded and acted on |
| Tarpit `disrupt/tarpit` | connection counter | `HTTPHandler`, `ServeTCP` | honeypot | check, then add | bounded connections |
| Notifications `notify` | cooldown per address | `Handle` of e-mail and webhook | ledger hook | cooldown set before the mail is sent | a block is announced |
| Cloud providers `immunize` | provider's block list, lock token | `BanIP`, `AutoBlockIP` | containment, deception | token read, then used, by both callers | no ban undone |
| Certificate streamer `ingest/ct`, `ingest/rules` | session, bounded job queue | `Run`, `session`, `handleJob`, `Assess` | bus | back-pressure, reconnect, a read without a deadline | drops only the excess, loses nothing with a session |
| Sinkhole listener, `campaign`, `fingerprint`, `extract/indicators` | rules file; none | pure functions and an HTTP listener | pipeline, console | text | reference functions |
| Process `cmd/atde/main.go`, `config/config.go` | the cascade of dry-run and live flags, the errgroup and its context | `Load`, `applyDefaults`, start, signals, shutdown | everything | precedence of flags, services that outlive the context, crash and restart | acts for real only when asked to, and stops |
| Hardening `harden`, operations `ops`, `siem`, `doctor` | - | checks, HTTP handlers | - | system calls | - |

`PROJECT.json` has the same list with the files and the state of each part.

## 2. Modules

| Module | Models |
|---|---|
| `IncidentStore` | what the ledger promises: one audit trail, one summary per address that never forgets unless the system failed |
| `CatchLedger` | `Ledger.Record`, file step by file step, by any number of goroutines and `Ledger` values |
| `CatchLedgerProofs` | its theorems |
| `Containment` | `EnforceContainment` and the local firewall, with the policy goroutines, the disrupt consumer and the warm-ups as processes |
| `ContainmentProofs` | its theorems |
| `HitPath` | the policy engine, the fleet store and the notifiers, from a hit to its ban entry and its alert |
| `HitPathProofs` | its theorems |
| `Pipeline` | the stream, its durable consumers and what each handler publishes |
| `PipelineProofs` | its theorems |
| `LedgerReaders` | watch, abuse packs and the console's summary beside the writers of `CatchLedger`, which it extends; what a dossier says besides its hits |
| `LedgerReadersProofs` | its theorems |
| `Process` | one process from start to end: settings, mode, errgroup, signals, crash, restart |
| `Deception` | the deception engine: sessions, scores, gate, reports, cloud bans |
| `Streamer` | the certificate streamer and the rules it applies |
| `Decoy` | the honeypot's visits, its login counters, the tarpit |
| `Node` | a process with these three services: their composition |
| `DeceptionProofs`, `DecoyProofs`, `NodeProofs` | what the services keep (the streamer's part is the first section of `NodeProofs`), and the theorems of the composition |
| `MCCatchLedger`, `MCContainment`, `MCHitPath`, `MCPipeline`, `MCLedgerReaders`, `MCNode` | the instances TLC checks |

### CatchLedger

One program counter per caller. `Call` is everything before the lock (line 79-98), `Lock` the
mutex of the caller's own `Ledger` value, then one action for each file operation, because a
crash, a failure or a caller with another `Ledger` value may come between any two:
`AppendEvent`, `AppendShard`, `ReadDossier`, `TruncateDossier` and `WriteDossier` (the two halves
of `os.WriteFile`), `StartHook` (with the lock still held, so the hook may run before `Record` has
returned), `Return`. Each has its failure: the audit append's error is returned, the
shard's is dropped, an unreadable dossier is taken for a new one, a short append leaves debris
the next line is glued to. `RunHook` is the hook's goroutine; `Crash` loses everything in memory
and keeps the files. A dossier is the set of records folded into it (`HitCount` is its size);
an empty or torn file folds none, which is what the dropped `json.Unmarshal` error makes of it.

`IncidentStore` is the abstract specification. The refinement maps `audit` to the lines of
`events.jsonl` and the summary of an address to `Committed`: the dossier, or while it is being
rewritten, what the writer has in memory. It holds only if callers share one `Ledger`.

### Containment

A process per policy goroutine (dry = FALSE always, a context that ends), per disrupt consumer
(serial, dry if the node or the event is, a context that never ends), and per `Blocker` (its
warm-up). The steps follow the code: write `DryRun`, read it in `BlockIP`, read it again in
`EnsureReady`, lock, `ipset create`, `iptables -C`, `iptables -I`, read `useSet`, run the ban,
start the cloud goroutines, wait, copy the result, record. Every command may fail; a command
whose context is done does fail. Cloud goroutines append to the Result of the call that started
them and may outlive it. `Restart` keeps the host's firewall and loses the rest.

### HitPath

One program counter per hit: its bait's handler (`Arrive`, `RecordHit`), then the goroutine
`maybeBlock` starts. `Count` and `Decide` are the two lock sections of `Evaluate`, `Ban`, `NoBan`
and `RecordBan` the outcomes of a containment call in `Enforce` (once for the local tier, twice for
the cloud tier), `LockStore`, `LoadBans`, `TruncateBans` and `WriteBans` the steps of `Upsert`, each
with its failure. `hooks` holds the records whose notifier goroutine has not run: `HandleMinor`,
`HandleMuted` and `HandleAllowed` are the ways through `Email.Handle` and `allow`. `Crash` leaves
the file and nothing else.

`saved` is a ghost: the bans reported saved since the file was last damaged. A torn or unreadable
file costs every ban in it, not only the one being written, because `Upsert` drops the error of
`load` and starts an empty list: the model has this, and `FleetKeepsBans` says that nothing else
loses a ban.

### Pipeline

Messages are identified by how they came about (the path of publishes), so a redelivery is told
from a new message. `HandleRawCT`, `OnHoneypot`, `OnExtracted`, `EnrichHandle` and so on list what
each handler publishes, with `Must` for an error it returns and `Try` for one it drops. A honeypot hit carries an
address that parses or not (`FromAddress`, `NoArtifact`): a visitor may have set it in a header, and
`OnHoneypot` passes over one that does not. `Emit`,
`EmitFails`, `PublishDLQ`, `PublishDLQFails`, `Ack`, `AckLost` are `Consume` and `Publish`;
`Deliver`, `AckWait` and `Crash` are JetStream and the process, modelled from how `bus.go` uses
them: a queue group on one durable consumer, manual acknowledgment, redelivery after the ack
wait. `Shutdown` models `sub.Unsubscribe()`: nats.go (the version in `go.mod`) deletes a durable
consumer on Unsubscribe if that subscription created it. Services whose `Run` returns without
waiting for `Consume` (`Hasty`) may end before that.

### LedgerReaders

Every step of `CatchLedger` goes on unchanged (`LedgerStep`), and carries along what a dossier
says besides its hits: `stamp` is FirstSeen, LastSeen and one capped list, with `AppendUnique`
and `CapSlice` as in the code. A reader takes no lock. A watch is `WatchStat` (open, take the
size) and `WatchScan` (read to the end, resume from the size taken before); a pack is three reads
and two writes, `ReadSubject`, `ReadTimeline`, `ReadAgain`, `WriteMarkdown`, `WriteSTIX`; a
summary reads the events, then the names of the dossiers (`ReadDir`), then one dossier after the other.
What a reader makes of a scan is cut as in the code: `ListRecent` to the last lines of the file,
`ListByIP` to the last of its address, `BoardShows` to the dossiers seen last and of these to the hottest;
where `sort.Slice` leaves the order of equals open, `First` is any of the outcomes. Lines that do not parse, debris a
scan may begin in, and dossiers caught between truncation and write are as the writer left them. Two
packs of an address write the same two files; the ghost `met` marks packs that were made at the same
time. A reader's own failure, an evidence file that cannot be written, is counted in `misses` and not
in the ledger's `faults`: every step of this module is one of `CatchLedger`'s or leaves all of its
variables alone, and what is proved of the writer holds with its readers beside it.

### Process, Deception, Streamer, Decoy, Node

`Process` has what `main` does: `Boot` decides by the settings what acts for real and which
services start, with or without a bus; `Signal` and `ServiceFails` end the shared context;
`CloseListener`, `ServerReturns`, `StreamerReturns` are how services wind up; `Exit`, `Crash` and
`Restart` end and begin lives. Bounds and failures (`Work`, `Fault`) are counted here for all.

`Deception` has a program counter per request: session, lock, score, unlock, gate, and for an
intercept the record, the publishes and the bans, each with its failure; and one step counter per
ban and provider, with the lock token of the AWS list (the list as it was read stands for the
token, since every update changes the list). `BlockerUpdates` is the list's other writer, the edge
Blocker, in this process or another; it acts only while a request has read the list or is about to find
its own address there, since at other times no request can tell. `Streamer` has the session's goroutine (`link`) and
where each domain is (`place`); `Decoy` a program counter per visit: dialogue, record, publish,
answer, or the tarpit's check and count. An HTTP visit's address is what its header says: that may be
nothing (`NoAddress`) or only a port (`PortOnly`), which `Record` refuses, and `maybeBlock` does nothing
for the first. What the process loses when it ends is in
`DeceptionEnds`, `StreamerEnds` and `DecoyEnds`.

`Node` interleaves them: `Deceives`, `Streams`, `Decoys` are the services' own steps, `Lives`
main's, and `Ends` takes everything in memory along. The bus, the end of the context and the
process are what they share.

How the modules meet: a honeypot hit is a visit (Decoy), a `Record` call (CatchLedger), an arrival on
`threat.v1.raw.honeypot` (Pipeline) and a policy goroutine (HitPath, Containment); the block event a
handler publishes is a call of the disrupt consumer in Containment. HitPath joins a hit, its record,
its decision and its alert, with `Record` and `EnforceContainment` by their outcome; Deception and Decoy
take `Record` and `Publish` by theirs. Each of these modules has the steps of one part and the outcomes of
the others, so they are checked separately; Node and LedgerReaders are the compositions.

## 3. Runs

| Run | Bounds | Shows |
|---|---|---|
| `catch_ledger` | two callers on one `Ledger`, two addresses, 3 records, 1 failure or crash | `TypeOK`, `AuditIsPrimary`, `AuditLossBounded`, `HitCountExact`, `HookAfterSuccess`; refinement `ImplementsStore`; liveness `EveryCallReturns` |
| `catch_ledger_wired` | one caller on each of two `Ledger` values, 2 records, no failure | `HitCountExact` is violated: lost update |
| `containment` | one policy goroutine, one consumer, two Blockers, two addresses (one private), two providers, three configurations, 2 calls, 1 failure | `OnlyAskedBans`, `HookPerBlocker`, `LocalOKDrops`, `BlockedIsBanned` |
| `containment_shared` | two policy goroutines and a warm-up on one Blocker, 2 calls, 1 failure | liveness `CallReturns` |
| `containment_dry_run` | a dry catch-node, 1 call | `SimulationEverywhere` is violated |
| `hit_path` | two hits on two addresses of three kinds, thresholds of one and two hits, 1 failure or crash | `EscalationSure`, `FleetKeepsBans`, `FleetEarned`, `NoAlertStorm`; liveness `HitSettles` |
| `pipeline` | two nodes of one of four modes, one arrival, 1 failure, and 1 shutdown but in mode active | `LossBounded`, `DuplicatesBounded`, `HitsAreContained`; liveness `EveryMessageSettles` |
| `pipeline_dlq` | one active node, 1 failure | `DLQHoldsCopy` is violated |
| `pipeline_scale_down` | two enrich nodes, 1 shutdown, no failure | `SurvivorsServe` is violated |
| `ledger_readers` | two callers on one `Ledger`, two addresses, 2 records on two paths, lists and timelines of one entry, a summary that shows one address, one kind of reader (a watch, a summary, or two packs), 1 failure or crash, 1 evidence file that cannot be written | `WatchComplete`, `PackConsistent`, `BoardHonest`, `DossierNearlyRight` |
| `node` | mode deception live, modes ct, honeypot, tarpit and catch-node in dry run, mode extract with an optional bus; 2 requests of two kinds, 1 address from the edge Blocker, 3 domains of two certificates, 4 visits (2 outside mode honeypot, some without an address), a queue, a worker and a tarpit of one, 1 failure or crash | `TypeOK`, `ScoreExact`, `GateHolds`, `LossExplained`, `BansStay`, `DropsAreExcess`, `HitsOnRecord`, `GuessesRationed`, `TarpitSound`; liveness `EverythingSettles`, `NodeStops` |
| `node_unnamed_hit` | the same node | `EveryHitRecorded` is violated |

Why these bounds are enough to be interesting. Two callers are enough for each pair of steps to
interleave, and three records for two to hit the dossier of one address while a third meets what
a failure left behind. In Containment two calls cover a cloud-tier decision (two calls by one
goroutine), a policy ban racing a dry-run event, and a call after a restart. In HitPath two
hits are two lists in memory at once, two counts of one address, and three records competing for one
alert; the thresholds are lowered by one so that two hits reach the cloud tier. In Pipeline one
arrival already fans out to up to three messages over three consumers; a second node makes slow
handlers overlap, and stays up while the first shuts down. Mode active, whose handlers publish most, has
no shutdown there; its consumers end as all do, and the theorems of section 4 have any number of shutdowns in
any mode. Readers leave the ledger alone, so a reader changes nothing for one of another kind; two packs of one
address write the same files: hence one kind of reader, and two packs. Of the limits, a timeline of one
cuts two records of an address and a summary of one shows one of two addresses; the limits of a scan and of
`ListDossiers` do not bite with two records, and are covered by the theorems, which hold for all limits. Three records would exceed what TLC
finishes in minutes; two suffice for every order of a read and a rewrite, for debris and the line glued
to it, and to drop an entry from a list of one, and the theorems of section 4 cover any number.
In Node two requests cover both orders of every pair of steps on one session and on the AWS
list, and one address from the Blocker comes between reading and updating it; three domains fill a queue of one, overflow it and still leave one; four guesses are one more
than an injection is allowed and then one refused, and the theorems of section 4 cover plain guesses,
of which it takes five. The services meet on the catch node only; the other modes run one service
with `main`, and only mode deception bans, for which it is started live. No property of this run depends on
other settings; what they decide about containment is in the runs of `Containment`. One failure at a time is what the claims are about: each bounds the loss by the
number of failures. Symmetry is used only in `ledger_readers`, for the callers and the packs, which
has no liveness property.

### Fairness

* `CatchLedger`: weak fairness of a caller's steps (the scheduler runs every goroutine), strong
  fairness of `Lock` (`sync.Mutex` hands over to a starved waiter after a millisecond), weak
  fairness of the hook. No fairness of calls, failures or crashes.
* `Containment`: weak fairness of a process in the middle of something: commands end, the
  twelve-second timer fires. Nothing is assumed of the providers, so `CallReturns` says that a
  provider that never answers cannot hold a caller. A firewall command that hangs for ever is
  outside the model: the consumer's context would not end it.
* `HitPath`: weak fairness of a hit's own steps, which rests on the liveness of `Record` and
  `EnforceContainment` checked in the two modules above, and strong fairness of the store's mutex.
  None of the notifiers: SMTP has no deadline here, so `HitSettles` must hold if a mail never ends.
* `Pipeline`: weak fairness of handlers, of redelivery by the server, and of the restart of a
  crashed node (`restart: unless-stopped` in `deployments/`). A node that was shut down may stay
  down. `EveryMessageSettles` assumes that every consumer keeps a subscriber from some moment on.
* `Node`: weak fairness of `Runs`, all that the process has begun and does by itself, of which there
  is only a bounded amount, and of `Reads`, the streamer's loop: runnable goroutines run. None of
  requests, visits, dials, what a session's peer sends, signals and failures. `NodeStops` has a
  second outcome for that reason: `ReadMessage` may wait for ever.
* `LedgerReaders`: safety only.

### What disagrees with the documentation

1. Several `Ledger` values on one directory lose dossier updates (`catch_ledger_wired`).
2. `ATDE_DRY_RUN=1` does not reach the policy engine's bans on a catch-node (`containment_dry_run`). Nor
   does `ATDE_LOCAL_FIREWALL=0`: `config.go` looks at it only in live mode, while the documents say it
   disables OS blocks at any time.
3. A message whose dead-letter copy fails is acknowledged and gone (`pipeline_dlq`).
4. Shutting down the node that created a durable consumer starves the others
   (`pipeline_scale_down`).
5. A hit whose `X-Forwarded-For` names no address is not in the ledger, although "every hit is recorded"
   (`node_unnamed_hit`). `HitsOnRecord` says what holds: all hits that name an address are.

`PROJECT.json` quotes the lines. Observations that are not findings, since no document claims
otherwise, or since no property is stated about them:

* Containment: the check against duplicate iptables rules is per `LocalFirewall`, and a node has two, so
  a rule may be there twice (`HookPerBlocker` bounds it). A record made after the twelve-second timeout
  may say `blocked` although the ban is cancelled a moment later (`BlockedIsBanned` excludes such
  records), and a dry run's record lists `local_firewall`.
* Policy and alerts: the last decision the console shows may be an older, lower one (`Decide` in
  `HitPath`); a ban goes to the fleet list whatever the firewall answered; the alert of a block is
  usually held back by the alert of the hit that led to it, and a failed mail uses up the cooldown.
* Pipeline: a hit whose address does not parse is acknowledged by the active controller without a block, a
  copy or an error (`HitsAreContained` speaks of hits with an IP address).
* Cloud bans: two AWS bans at once may lose one without any failure, and nothing retries it; the other
  is in the list (`LossExplained`). One intercept is enough: the deception engine bans its address itself
  and publishes the event that makes edge.Blocker ban it too, each with a provider of its own for
  the same IPSet.
* Addresses: `Private` of `Deception` stands for two tests, whose headers count when no proxy is configured
  and what a provider refuses to ban. The second has the link-local and documentation ranges besides. Each
  property turns on one of the two only: `GateHolds` on the first, those about bans on the second.
* Login forms: a WordPress login is sent to `/mfa`, which asks for the key of `/login` and finds the
  session expired; counts are never reset, so after a lock has run out the next plain guess locks
  again; the age of a second-factor session is never checked.
* Baits: MySQL visitors who leave before the greeting, and TCP dialogues in progress when the process
  exits, are not recorded; accept errors are retried without a pause.
* Tarpit: connections that arrive together may all find room, so `MaxConns` is exceeded.
* Streamer: a peer that neither sends nor closes keeps the process from stopping. In floating point
  0.35 + 0.1 + 0.1 is less than 0.55, so a brand with two weak signals is clean.
* Dossiers: `CaughtAt` is taken before the lock, so LastSeen may lie before FirstSeen, and the STIX
  file's period of observation may be negative.
* Readers: a pack or summary that reads a dossier between truncation and write fails or leaves the
  address out, and nothing tries again; two packs of an address at once may leave the Markdown of one
  beside the STIX of the other (`PackConsistent` speaks of packs that did not meet, and of each pack's own
  reads whether it met another or not); its timeline ends at 100 events while its dossier counts all; a watch prints twice what is appended between its `Stat` and its scan,
  and may print a record that is glued to debris and that the other readers never show.

## 4. Proofs

All are checked by `tlapm`, for every value of the constants that the named assumptions of the
modules admit, and nothing else is assumed unless said so.

What they assume of the constants, and why the code justifies it. Sets that are counted are finite (nodes,
Blockers, providers: what `main` and the configuration make). `SharedLedger`, callers on one `Ledger`
value, is assumed where it is named and by `LedgerReaders`; the run `catch_ledger_wired` shows that
without it `HitCountExact` fails, and the node does not have it. `WiringAssumption` of `Containment`:
callers that share a Blocker are policy goroutines, because `main` gives one Blocker to the policy engine
and the controller makes another for its consumer, which is serial.

`CatchLedgerProofs.tla`, for every number of callers, `Ledger` values, addresses, records and failures:

* `TypeCorrect`: `Spec => []TypeOK`. The file helpers (`FailedAppend`, `Overwrite`,
  `FailedWrite`) return files: three lemmas.
* `PrimaryAudit`: `AuditIsPrimary`. It is not inductive: what a caller writes into a dossier
  comes from its memory. `PrimaryInv` adds that what every caller in the critical steps holds in
  memory is logged already.
* `LossIsBounded`: `AuditLossBounded`. What is lost is not lost when the failure happens: the debris of a
  failed append takes the next line with it, a line of another caller. `LossInv` charges for the debris
  at once, so that the line glued to it later costs nothing more (`AppendLinePays`, `FailedAppendPays`).
* `HookIsLate`, assuming `SharedLedger`: `HookAfterSuccess`. The hook starts before `Record` returns, so
  a waiting hook belongs to a caller at its return or to one that has returned (`Noted`). That the record is in
  the dossier, which other Records have rewritten since, follows from `ExactInv`: a record once folded
  into the file is folded into what any later updater has read of it.
* `ExactHitCount`, assuming `SharedLedger`: `MutexHeld` gives mutual
  exclusion, `OneUpdater` at most one update in progress; `ExactInv` (`ExactInvariant`) states for each
  step of the update what the file and the updater's memory hold, relative to the audit trail.
* `LedgerImplementsStore`, assuming `SharedLedger`: initial states map to initial states and each
  step to a step of `IncidentStore` or a stutter (`StepRefines`), with `Fresh` (ids in use are
  below `nextId`), `Alone` and `Updating` as the invariants the steps need. Failures map to
  `Damage`, appending to `Log`, writing to `Summarise`, running the hook to `Tell`.

`LedgerReadersProofs.tla`, for any number of packs, addresses, records and failures and any `PathCap`:

* `ReadersLeaveLedger`: `AllSpec => Spec`, so the theorems above hold with readers beside the writer.
  `Writer` collects what the readers need of it: its invariants, `Numbered` (a number stands for one
  record), and `Loaded` (what a caller about to truncate has read).
* `WatchMissesNothing`: `WatchComplete`. `WatchInv` splits the file at the offset and at the size taken
  before the scan: what lies before the offset was skipped, shown or does not parse; what lies beyond
  the size may have been shown once and will be shown again.
* `PacksFit`: `PackConsistent`, for any limits. A pack reads at three moments, so its invariant has a part for each
  (`PackGood`); what it read stays accounted for while writers go on because a dossier never forgets but
  in memory, between truncation and write (`Kept`). `EvidenceInv` is about the two files and all packs
  of the address: packs in the making (`Making`) that could get in each other's way know it.
* `SummaryIsHonest`: `BoardHonest`, by what each dossier listed so far may have left out (`BoardInv`); what
  is cut from the list at the end is cut because there is no room.
* `DossierIsNearlyRight`: `DossierNearlyRight`. `StampInv` says that the dates may be wrong only between calls that
  overlapped, for the file and for what a writer has in memory; `OverlapInv` is what a call in progress
  knows of those that began after it. `CapKeeps`: `AppendUnique` and `CapSlice` lose an entry only from a
  full list.

`ContainmentProofs.tla`, for any number of callers, Blockers, providers, addresses, calls and failures, under
the wiring above:

* `TypeCorrect`: `TypeOK`, with `Numbered`: every call has a number of its own.
* `BansWereAsked`: `OnlyAskedBans`. `DryRun` is a field of the Blocker that every call writes and that is read
  later, twice, without a lock. `AsAsked` is why that is harmless: from the write to the last read the
  flag is that of each call under way, since those who share the Blocker all write FALSE. `Spawned` carries
  it over to the cloud goroutines, which outlive the call.
* `HooksBounded`: `HookPerBlocker`. `Held` gives mutual exclusion in the set-up; `HookInv` counts a Blocker
  already when it is about to insert, so that a check that failed, and a restart that keeps the firewall
  and forgets `ready`, are paid for by a failure.
* `DropsWhenOK`: `LocalOKDrops`, from `Hooked`: a set that is used, or about to be, is one whose members
  the host drops.
* `BlockedBans`: `BlockedIsBanned`. `Accounted`: a provider that was tried has refused, has banned the
  address, or still has a goroutine at work; a call that waited has none left when it copies its Result.

`HitPathProofs.tla`:

* `TypeCorrect`: `TypeOK`, with `BansLeft` (calls made so far against calls the tier lists).
* `EscalationHolds`: `EscalationSure`, and `BansEarned`: `FleetEarned`. Both rest on `CountInv`: the hits
  that were decided since the process started have counts of their own, none above the counter. So enough of them reach
  the threshold, and a count at the threshold means that many hits. `EarnedInv` keeps the second through
  the file and the memory of the writers.
* `FleetSafe`: `FleetKeepsBans`. `StoreLocked` says that the mutex is held exactly in the critical
  steps; `FleetInv`, that between rewrites the file covers every saved ban, during one the writer's
  memory does, and that a file that does not parse belongs to a writer or holds nothing that was
  saved. `LoadKeeps`, `SaveKeeps` and `CrashKeeps` are its cases, `FleetFrame` all other steps.
* `AlertsRationed`: `NoAlertStorm`, from `MuteInv`.

`PipelineProofs.tla`, for every set of modes, number of nodes, arrivals, failures and shutdowns, and any artifact:

* `TypeCorrect`: `TypeOK`, with `Told` (an id names one message, and the attempts at one publish are
  numbered without a gap) and `Working` (a worker at work has a message its consumer is bound to and
  a position of its handler; the workers of a node come and go together).
* `LossIsBounded`: `LossBounded`. `Owed` counts a message from the moment a worker is about to
  acknowledge it without a copy in the dead-letter subject, not from the acknowledgment on.
* `HitsEndContained`: `HitsAreContained`, from `HitInv`: the containment worker finishes a hit with an IP
  address only after it published the block event.
* `DuplicatesAreBounded`: `DuplicatesBounded`. `Cost` adds up what was published from a position, what is
  about to be and what a delivery still to come will publish: `CostInv` keeps that sum at one and one more per failure
  or shutdown. Acknowledging takes from the last part, a failure may add to it. `Descent` says
  which message and position an artifact came from.

`NodeProofs.tla`, for every mode and setting, any number of requests, addresses, providers, domains,
certificates, visits and failures, and any queue size, number of workers, thresholds and limits. The
inductive invariant is `NodeInv`, the conjunction of what each service keeps; `NodeSteps` says how a
step of the node looks to each service, and for each service it is shown that it preserves its part:

* `DeceptionProofs` (`DeceptionPreserves`) for `ScoresExact`, `GateIsSound` and `BansLast`.
  `SessionsMatch` relates handlers, clients and sessions; `HandlersKnow`, what brought a handler to where it
  is; `LocksHeld`, that who changes a score holds its lock and has read it. With them the score of a
  session is at every moment what its client was caught at (`ScoresAdd`, also while it is locked); what
  a peer was caught at only grows (`PeerRiskGrows`) and counts in its own score if its headers do not
  count (`PeerRiskCounts`), which is why a gate that reads without the lock is good enough (`Warnings`).
  `BansKept` rests on the guard of `UpdateIPSet`, the lock token.
* `DeceptionProofs` (`LossKeptPreserves`, `BansMeetPreserves`) for `LossesExplained`. `LossKept` counts a
  report as lost once its handler is past it, so each dropped error is paid for at its step; `BansMeet`
  says that every address on the AWS list was put there by a ban that is done or by the edge Blocker, and
  that the list only grows, so what a request has read of it is part of it.
* `NodeProofs`, first section (`StreamerPreserves`), for `DropsExcess`. `InOrder` says that domains are
  offered in the order they came in, so what is queued when one is dropped came before it (`OfferExcess`),
  and what was kept before a dropped domain stays kept (`StillExcess`).
* `DecoyProofs` (`DecoyPreserves`, `HitsKeptPreserves`) for `GuessesLimited` and `HitsRecorded`.
  `TurnsGiven`: a count that was given lies at or below the counter, so the next is new.
  `HitsKept` is `HitsOnRecord` for visits that are past the ledger or past the bus already, and
  `QuietWhenDown`, that a new life of the process, maybe with another bus, begins without a visit under way.
* `DecoyProofs` (`LetInOrderPreserves`) for `TarpitIsSound`. The claim about each set of connections inside needs the order
  in which they were let in, which the code does not keep: `LetInOrder` says that there is one, in
  which whoever was let in found room among those before, but for who had passed the check as well and not yet been
  counted. The first of a set let in (`LeastNat`) gives the bound.
* `TypesHold` is the conjunction of the services' type invariants.

Only model-checked: the liveness properties `EveryCallReturns`, `CallReturns`, `HitSettles`,
`EveryMessageSettles`, `EverythingSettles` and `NodeStops`, since fairness and ENABLED are beyond the
prover (`IncidentStore` states no fairness, so its refinement is proved whole). Every safety property that a passing run checks is stated by a theorem.

## 5. Plan

Done: the ledger with its abstract specification and its readers, containment, the hit path, the
pipeline, and the process with its services; the proofs of their invariants and action properties, and of
the ledger's refinement.

Left, most important first:

1. An abstract specification of the fleet store (a set of bans that a save adds to and only a failure
   takes from) and the proof that `HitPath` implements it, as `IncidentStore` is for the ledger.
2. The same for a durable consumer of the pipeline: a message is handled, kept in the dead-letter
   subject or dropped.
3. The one hazard without a property, a firewall command that never ends while the mutex is held, is
   beyond what the code handles.

## 6. Not modelled

* System calls of the hardening guard, text processing (indicators, fingerprints, what shows a signal in
  a domain), campaign clusters, the content of reports, the simulated poison batches, lookups of the
  grapher, HTTP consoles and exporters: stateless, pure I/O, or pure functions over text that unit tests
  reach.
* The ledger: rotation of `events.jsonl`, which nothing in the program does; all lists of a dossier but
  one, which stands for them; addresses whose file names collide; `SeedFromJSONL`, which calls `Record`
  for each line.
* Containment: the score guard of `EnforceContainment` (every caller passes 0.9 or more), the Windows
  backend, the expiry of set entries.
* Pipeline: the age limit of the stream, messages buffered in a client, DNS rules and the capture
  listener of the sinkhole.
* Hit path: the expiry of fleet bans, the evidence of the abuse pack, the transport of mails and posts.
* Process: the commands that start no service (other than the readers), defaults of addresses and
  intervals, validation, credentials.
* Services: the pages and dialogues of the baits and their delays, accept loops, the raw TCP tarpit, which
  `main` does not start, the timeline of a session, unbans, which nothing calls.
