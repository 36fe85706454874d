------------------------ MODULE LedgerReadersProofs ------------------------
(***************************************************************************)
(* What the readers of the catch ledger are given, for any number of       *)
(* callers, addresses, records and failures, of watches, abuse packs and   *)
(* summaries beside them, and any cap on the lists of a dossier.           *)
(***************************************************************************)
EXTENDS LedgerReaders, CatchLedgerProofs

\* The callers share one Ledger value.
LEMMA OneLedgerValue == SharedLedger
BY ReadersAssumption DEF SharedLedger

-----------------------------------------------------------------------------
\* The writer, as its readers need to know it.

\* A number is used for one record.
Numbered ==
    /\ nextId \in 1 .. MaxRecords + 1
    /\ \A c \in Callers : pc[c] # "idle" =>
           call[c].id \in Calls /\ \A r \in acked : r.id # call[c].id
    /\ \A r \in events.lines : r.id \in Calls
    /\ \A r, s \in events.lines : r.id = s.id => r = s

\* What a caller about to truncate has read: the dossier, unless that failed.
Loaded ==
    \A c \in Callers : pc[c] = "truncate" =>
        \/ buf[c] = dossier[call[c].ip].folded \cup {call[c]}
        \/ buf[c] = {call[c]} /\ faults > 0

FiniteTrail == IsFiniteSet(events.lines)

Writer ==
    /\ TypeOK /\ PrimaryInv /\ LossInv /\ Fresh /\ Alone /\ Updating /\ ExactInv
    /\ Numbered /\ Loaded /\ FiniteTrail

LEMMA NumberedInvariant == Spec => []Numbered
<1> USE LedgerAssumption
<1>1. Init => Numbered
  BY DEF Init, Numbered, EmptyFile, Calls
<1>2. TypeOK /\ PrimaryInv /\ Fresh /\ Numbered /\ [Next]_vars => Numbered'
  <2> SUFFICES ASSUME TypeOK, PrimaryInv, Fresh, Numbered, [Next]_vars PROVE Numbered'
    OBVIOUS
  <2> USE DEF TypeOK, Numbered, Calls
  <2>1. ASSUME NEW c \in Callers, Call(c) PROVE Numbered'
    <3>1. PICK ip \in IPs, b \in Flags[c] :
              call' = [call EXCEPT ![c] = [id |-> nextId, ip |-> ip, blocked |-> b]]
      BY <2>1 DEF Call
    <3>2. call'[c].id = nextId /\ \A d \in Callers : d # c => call'[d] = call[d]
      BY <3>1
    <3>3. /\ \A d \in Callers : d # c => pc'[d] = pc[d]
          /\ UNCHANGED <<events, acked>> /\ nextId' = nextId + 1 /\ nextId <= MaxRecords
      BY <2>1 DEF Call, Goto
    <3>4. \A r \in acked : r.id # nextId
      BY DEF PrimaryInv, AuditIsPrimary, Fresh
    <3> QED
      BY <3>2, <3>3, <3>4
  <2>2. ASSUME NEW c \in Callers, Lock(c) PROVE Numbered'
    BY <2>2 DEF Lock, Goto
  <2>3. ASSUME NEW c \in Callers, AppendEvent(c) PROVE Numbered'
    <3>1. events'.lines = events.lines \cup {call[c]}
      BY <2>3 DEF AppendEvent, AppendLine
    <3>2. pc[c] = "append"
      BY <2>3 DEF AppendEvent, Goto
    <3> QED
      BY <2>3, <3>1, <3>2 DEF AppendEvent, Goto, Fresh
  <2>4. ASSUME NEW c \in Callers, NEW s, Leave(c, s), events'.lines = events.lines,
               UNCHANGED nextId, acked' = acked \/ acked' = acked \cup {call[c]}, s # "idle"
        PROVE  Numbered'
    BY <2>4 DEF Leave, Goto, Fresh
  <2>5. ASSUME NEW c \in Callers, NEW s, NEW t, s # "idle",
               Goto(c, s, t), UNCHANGED <<call, events, nextId, acked>>
        PROVE  Numbered'
    BY <2>5 DEF Goto
  <2>6. CASE Crash
    BY <2>6 DEF Crash
  <2>7. CASE UNCHANGED <<pc, call, events, nextId, acked>>
    BY <2>7
  <2>8. ASSUME NEW c \in Callers, AppendFails(c) PROVE Numbered'
    <3>1. events'.lines = events.lines
      BY <2>8, FailedAppendFile DEF AppendFails
    <3> QED
      BY <2>4, <2>8, <3>1 DEF AppendFails
  <2>9. ASSUME NEW c \in Callers, Advance(c) PROVE Numbered'
    BY <2>3, <2>4, <2>5, <2>9 DEF Advance, AppendShard, ReadDossier, TruncateDossier,
       WriteDossier, StartHook, Return
  <2>10. ASSUME NEW c \in Callers, Fails(c) PROVE Numbered'
    BY <2>4, <2>5, <2>8, <2>10 DEF Fails, ShardFails, ReadFails, OpenFails, WriteFails
  <2> QED
    BY <2>1, <2>2, <2>6, <2>7, <2>9, <2>10 DEF Next, Finished, vars, RunHook
<1> QED
  BY <1>1, <1>2, FreshCalls, PrimaryInvariant, TypeCorrect, PTL DEF Spec

LEMMA LoadedInvariant ==
    ASSUME SharedLedger
    PROVE  Spec => []Loaded
<1> USE LedgerAssumption
<1>1. Init => Loaded
  BY DEF Init, Loaded
<1>2. TypeOK /\ Alone /\ Loaded /\ [Next]_vars => Loaded'
  <2> SUFFICES ASSUME TypeOK, Alone, Loaded, [Next]_vars PROVE Loaded'
    OBVIOUS
  <2> USE DEF TypeOK, Alone, Loaded, Critical
  <2>z. \A c \in Callers : call[c].ip \in IPs
    BY DEF Record
  <2>1. ASSUME NEW c \in Callers, Call(c) PROVE Loaded'
    BY <2>1 DEF Call, Goto
  <2>2. ASSUME NEW c \in Callers, ReadDossier(c) PROVE Loaded'
    BY <2>2 DEF ReadDossier, Goto
  <2>3. ASSUME NEW c \in Callers, ReadFails(c) PROVE Loaded'
    BY <2>3 DEF ReadFails, Goto, Fault
  <2>4. ASSUME NEW c \in Callers, NEW s, Leave(c, s), s \in Critical PROVE Loaded'
    BY <2>4 DEF Leave, Goto
  <2>5. ASSUME NEW c \in Callers, NEW s \in Steps, NEW t \in Steps \ {"truncate"}, Goto(c, s, t),
               s \in Critical \/ UNCHANGED dossier, UNCHANGED <<call, buf>>,
               faults' = faults \/ faults' = faults + 1
        PROVE  Loaded'
    BY <2>5 DEF Goto
  <2>6. CASE Crash
    BY <2>6 DEF Crash
  <2>7. CASE UNCHANGED <<pc, call, buf, dossier, faults>>
    BY <2>7
  <2>8. ASSUME NEW c \in Callers, Lock(c) \/ AppendEvent(c) \/ AppendShard(c) \/ ShardFails(c)
                                    \/ TruncateDossier(c) \/ WriteDossier(c) \/ StartHook(c)
        PROVE  Loaded'
    BY <2>5, <2>8 DEF Lock, AppendEvent, AppendShard, ShardFails, TruncateDossier, WriteDossier,
                      StartHook, Fault, Steps
  <2>9. ASSUME NEW c \in Callers, AppendFails(c) \/ OpenFails(c) \/ WriteFails(c) \/ Return(c)
        PROVE  Loaded'
    BY <2>4, <2>9 DEF AppendFails, OpenFails, WriteFails, Return
  <2> QED
    BY <2>1, <2>2, <2>3, <2>6, <2>7, <2>8, <2>9 DEF Next, Advance, Fails, Finished, vars, RunHook
<1> QED
  BY <1>1, <1>2, OneUpdater, MutexHeld, TypeCorrect, PTL DEF Spec

LEMMA TrailIsFinite == Spec => []FiniteTrail
<1>1. Init => FiniteTrail
  BY FS_EmptySet DEF Init, FiniteTrail, EmptyFile
<1>2. FiniteTrail /\ TypeOK /\ [Next]_vars => FiniteTrail'
  <2> SUFFICES ASSUME FiniteTrail, TypeOK, [Next]_vars PROVE FiniteTrail'
    OBVIOUS
  <2> USE DEF FiniteTrail, TypeOK
  <2>1. ASSUME NEW c \in Callers, AppendEvent(c) PROVE FiniteTrail'
    BY <2>1, FS_AddElement DEF AppendEvent, AppendLine
  <2>2. ASSUME NEW c \in Callers, AppendFails(c) PROVE FiniteTrail'
    BY <2>2, FailedAppendFile DEF AppendFails
  <2>3. CASE events' = events
    BY <2>3
  <2> QED
    BY <2>1, <2>2, <2>3 DEF Next, Advance, Fails, Finished, vars, RunHook, Crash, Call, Lock, AppendShard,
       ShardFails, ReadDossier, ReadFails, TruncateDossier, OpenFails, WriteDossier, WriteFails,
       StartHook, Return
<1> QED
  BY <1>1, <1>2, TypeCorrect, PTL DEF Spec

LEMMA WriterInvariant == Spec => []Writer
BY OneLedgerValue, TypeCorrect, PrimaryInvariant, LossInvariant, FreshCalls, MutexHeld, OneUpdater,
   UpdatingInvariant, ExactInvariant, NumberedInvariant, LoadedInvariant,
   TrailIsFinite, PTL DEF Writer

\* Reading is no step of the writer.
LEMMA ReaderSteps == ASSUME [AllNext]_allVars PROVE [Next]_vars
  BY DEF AllNext, allVars, LedgerStep, WatchStarts, WatchStat, WatchScan, WatchEnds, Exporting,
         ReadSubject, ReadTimeline, ReadAgain, WriteMarkdown, WriteSTIX, ExportFails, ExportStarts,
         ExportStep, BoardStarts, ReadDir, BoardShows, ListDossier, BoardStep

\* Reading changes nothing that the writer keeps: every theorem about Record
\* holds with its readers beside it.
THEOREM ReadersLeaveLedger == AllSpec => Spec
<1>1. AllInit => Init
  BY DEF AllInit
<1>2. [AllNext]_allVars => [Next]_vars
  BY ReaderSteps
<1> QED
  BY <1>1, <1>2, PTL DEF AllSpec, Spec

\* The audit trail only grows, and a line in it parses or not for good.
LEMMA TrailGrows ==
    ASSUME TypeOK, Fresh, [Next]_vars
    PROVE  /\ events.lines \subseteq events'.lines
           /\ \A r \in events.lines : r \in events'.glued <=> r \in events.glued
<1> USE DEF TypeOK
<1>1. ASSUME NEW c \in Callers, AppendEvent(c)
      PROVE  /\ events.lines \subseteq events'.lines
             /\ \A r \in events.lines : r \in events'.glued <=> r \in events.glued
  <2>1. call[c] \notin events.lines
    BY <1>1 DEF AppendEvent, Goto, Fresh
  <2> QED
    BY <1>1, <2>1 DEF AppendEvent, AppendLine, File
<1>2. ASSUME NEW c \in Callers, AppendFails(c)
      PROVE  events'.lines = events.lines /\ events'.glued = events.glued
  BY <1>2, FailedAppendFile DEF AppendFails
<1>3. ASSUME ~ \E c \in Callers : AppendEvent(c) \/ AppendFails(c) PROVE events' = events
  BY <1>3 DEF Next, Advance, Fails, Finished, vars, RunHook, Crash, Call, Lock, AppendShard, ShardFails,
              ReadDossier, ReadFails, TruncateDossier, OpenFails, WriteDossier, WriteFails, StartHook, Return
<1> QED
  BY <1>1, <1>2, <1>3

\* What is acknowledged stays so, and failures are not undone.
LEMMA AckedGrows ==
    ASSUME TypeOK, [Next]_vars
    PROVE  acked \subseteq acked' /\ faults \in Nat /\ faults' \in Nat /\ faults' >= faults
BY DEF TypeOK, Next, Advance, Fails, Finished, vars, RunHook, Crash, Call, Lock, AppendEvent, AppendFails,
       AppendShard, ShardFails, ReadDossier, ReadFails, TruncateDossier, OpenFails, WriteDossier,
       WriteFails, StartHook, Return, Fault

-----------------------------------------------------------------------------
\* The watch.

\* The lines before the offset were skipped, shown or do not parse; those after
\* it were shown if they were scanned beyond the size of that poll.
WatchInv ==
    /\ watch \in {"new", "poll", "scan", "off"}
    /\ shown \in [Calls -> Nat]
    /\ skipped \subseteq offset.lines /\ offset.lines \subseteq events.lines
    /\ watch = "new" => \A i \in Calls : shown[i] = 0
    /\ watch = "scan" =>
           /\ offset.lines \subseteq size.lines /\ size.lines \subseteq events.lines
           /\ \A r \in events.lines \ size.lines : r \in late /\ shown[r.id] = 0
    /\ \A i \in Calls : shown[i] > 0 => \E r \in events.lines : r.id = i
    /\ \A r \in events.lines :
           /\ shown[r.id] <= 2 /\ (shown[r.id] = 2 => r \in offset.lines /\ r \in late)
           /\ r \notin offset.lines /\ shown[r.id] = 1 => r \in late
    /\ \A r \in (offset.lines \cap ReadJSONL(events)) \ skipped : shown[r.id] > 0

LEMMA WatchBegins == AllInit => WatchInv
BY DEF AllInit, Init, WatchInv, EmptyFile, ReadJSONL, Calls

\* Records are appended behind whatever the watch has seen.
LEMMA WatchMeetsRecord ==
    ASSUME Writer, Numbered', WatchInv, LedgerStep
    PROVE  WatchInv'
<1>1. /\ events.lines \subseteq events'.lines
      /\ \A r \in events.lines : r \in events'.glued <=> r \in events.glued
  BY TrailGrows DEF Writer, LedgerStep
<1>2. /\ UNCHANGED <<watch, offset, size, skipped, shown>> /\ late \subseteq late'
      /\ watch = "scan" => events'.lines \ events.lines \subseteq late'
  BY DEF LedgerStep
<1>3. \A r \in events'.lines \ events.lines : r.id \in Calls /\ shown[r.id] = 0
  <2> SUFFICES ASSUME NEW r \in events'.lines \ events.lines, shown[r.id] # 0 PROVE FALSE
    BY DEF Numbered
  <2>1. r.id \in Calls /\ shown[r.id] > 0
    BY DEF Numbered, WatchInv
  <2>2. PICK q \in events.lines : q.id = r.id
    BY <2>1 DEF WatchInv
  <2> QED
    BY <1>1, <2>2 DEF Numbered
<1>4. (\A r \in events.lines :
           /\ shown[r.id] <= 2 /\ (shown[r.id] = 2 => r \in offset.lines /\ r \in late)
           /\ r \notin offset.lines /\ shown[r.id] = 1 => r \in late)'
  BY <1>1, <1>2, <1>3 DEF WatchInv
<1>5. (\A r \in (offset.lines \cap ReadJSONL(events)) \ skipped : shown[r.id] > 0)'
  BY <1>1, <1>2 DEF WatchInv, ReadJSONL
<1>6. (watch = "scan" =>
           /\ offset.lines \subseteq size.lines /\ size.lines \subseteq events.lines
           /\ \A r \in events.lines \ size.lines : r \in late /\ shown[r.id] = 0)'
  BY <1>1, <1>2, <1>3 DEF WatchInv
<1> QED
  BY <1>1, <1>2, <1>4, <1>5, <1>6 DEF WatchInv

\* A poll shows what is new behind the offset, each record once.
LEMMA WatchScans ==
    ASSUME Writer, WatchInv, WatchScan
    PROVE  WatchInv'
<1>1. PICK S \in Scanned : Prints(S)
  BY DEF WatchScan
<1>2. /\ watch = "scan" /\ watch' = "poll" /\ offset' = size
      /\ UNCHANGED <<events, size, skipped, late>>
  BY DEF WatchScan, vars
<1>3. S \subseteq events.lines \ offset.lines /\ (events.lines \ offset.lines) \ events.glued \subseteq S
  BY <1>1 DEF Scanned
<1>4. \A r \in events.lines : r.id \in Calls /\ shown[r.id] \in Nat
  BY DEF Writer, Numbered, WatchInv
<1>5. /\ shown' \in [Calls -> Nat]
      /\ \A r \in events.lines : shown'[r.id] = IF r \in S THEN shown[r.id] + 1 ELSE shown[r.id]
  <2>1. \A r \in events.lines : r \in S <=> \E q \in S : q.id = r.id
    BY <1>3 DEF Writer, Numbered
  <2>2. \A i \in Calls : shown[i] + 1 \in Nat /\ shown[i] + 0 = shown[i]
    BY DEF WatchInv
  <2>3. shown' = [i \in Calls |-> shown[i] + (IF \E r \in S : r.id = i THEN 1 ELSE 0)]
    BY <1>1 DEF Prints
  <2> QED
    BY <1>4, <2>1, <2>2, <2>3 DEF WatchInv
<1>6. \A i \in Calls : shown'[i] > 0 => \E r \in events.lines : r.id = i
  <2> SUFFICES ASSUME NEW i \in Calls, ~ \E r \in events.lines : r.id = i PROVE ~ (shown'[i] > 0)
    OBVIOUS
  <2>1. ~ \E r \in S : r.id = i
    BY <1>3
  <2> QED
    BY <1>1, <2>1 DEF Prints, WatchInv
<1>7. \A r \in events.lines :
          /\ shown'[r.id] <= 2 /\ (shown'[r.id] = 2 => r \in size.lines /\ r \in late)
          /\ r \notin size.lines /\ shown'[r.id] = 1 => r \in late
  <2> SUFFICES ASSUME NEW r \in events.lines
               PROVE  /\ shown'[r.id] <= 2 /\ (shown'[r.id] = 2 => r \in size.lines /\ r \in late)
                      /\ r \notin size.lines /\ shown'[r.id] = 1 => r \in late
    OBVIOUS
  <2>1. CASE r \notin size.lines
    <3>1. r \in late /\ shown[r.id] = 0
      BY <1>2, <2>1 DEF WatchInv
    <3> QED
      BY <1>5, <2>1, <3>1
  <2>2. CASE r \in size.lines /\ r \notin S
    BY <1>2, <1>5, <2>2 DEF WatchInv
  <2>3. CASE r \in size.lines /\ r \in S
    <3>1. r \notin offset.lines
      BY <1>3, <2>3
    <3>2. shown[r.id] <= 1 /\ (shown[r.id] = 1 => r \in late)
      BY <1>4, <3>1 DEF WatchInv
    <3> QED
      BY <1>4, <1>5, <2>3, <3>2
  <2> QED
    BY <2>1, <2>2, <2>3
<1>8. \A r \in (size.lines \cap ReadJSONL(events)) \ skipped : shown'[r.id] > 0
  <2> SUFFICES ASSUME NEW r \in (size.lines \cap ReadJSONL(events)) \ skipped PROVE shown'[r.id] > 0
    OBVIOUS
  <2>1. r \in events.lines /\ r \notin events.glued
    BY DEF ReadJSONL
  <2>2. CASE r \in offset.lines
    BY <1>4, <1>5, <2>1, <2>2 DEF WatchInv
  <2>3. CASE r \notin offset.lines
    BY <1>3, <1>4, <1>5, <2>1, <2>3
  <2> QED
    BY <2>2, <2>3
<1> QED
  BY <1>2, <1>5, <1>6, <1>7, <1>8 DEF WatchInv

LEMMA WatchPreserves ==
    ASSUME Writer, Numbered', WatchInv, [AllNext]_allVars
    PROVE  WatchInv'
<1>1. CASE LedgerStep
  BY <1>1, WatchMeetsRecord
<1>2. CASE WatchStarts
  BY <1>2 DEF WatchStarts, WatchInv, Mark, vars, Writer, Numbered
<1>3. CASE WatchStat
  BY <1>3 DEF WatchStat, WatchInv, Mark, vars
<1>4. CASE WatchScan
  BY <1>4, WatchScans
<1>5. CASE WatchEnds
  BY <1>5 DEF WatchEnds, WatchInv, vars
<1>6. CASE UNCHANGED <<events, watchVars>>
  BY <1>6 DEF WatchInv, watchVars
<1> QED
  BY <1>1, <1>2, <1>3, <1>4, <1>5, <1>6
     DEF AllNext, allVars, vars, Exporting, ReadSubject, ReadTimeline, ReadAgain, WriteMarkdown, WriteSTIX,
         ExportFails, ExportStarts, ExportStep, BoardStarts, ReadDir, BoardShows, ListDossier, BoardStep, exportVars

\* A watch misses no record that could be read, and shows none twice but such as
\* were appended between the Stat and the scan of a poll.
THEOREM WatchMissesNothing == AllSpec => []WatchComplete
<1>1. Writer /\ WatchInv => WatchComplete
  BY DEF Writer, Numbered, WatchInv, WatchComplete
<1> QED
  BY <1>1, WatchBegins, WatchPreserves, WriterInvariant, ReadersLeaveLedger, PTL DEF AllSpec, Writer

-----------------------------------------------------------------------------
\* What a reader finds in a dossier.

\* The dossier of ip accounts for S, or will when the update in progress is over.
Kept(ip, S) == S \subseteq dossier[ip].folded \/ \E c \in At("write", ip) : S \subseteq buf[c]

\* A dossier that does not parse, of an address with an acknowledged record, is
\* being written, if nothing failed.
LEMMA KnownParses ==
    ASSUME Writer, faults = 0, NEW ip \in IPs, OfAddress(acked, ip) # {}, ~Parses(ip)
    PROVE  Torn(ip)
<1> USE DEF Writer, Critical
<1>1. PICK r \in acked : r.ip = ip
  BY DEF OfAddress
<1>2. r \in OfAddress(events.lines, ip) /\ dossier[ip].folded = {}
  BY <1>1 DEF PrimaryInv, AuditIsPrimary, OfAddress, Parses
<1>3. PICK c \in Callers : pc[c] \in Critical /\ call[c].ip = ip
  BY <1>2 DEF ExactInv, Quiet
<1>4. Exact(c) /\ r # call[c]
  BY <1>1, <1>3 DEF ExactInv, Numbered
<1>5. pc[c] # "truncate"
  BY <1>2, <1>3, <1>4 DEF Exact, Loaded
<1> QED
  BY <1>2, <1>3, <1>4, <1>5 DEF Exact, Torn, At

\* A dossier that nobody is writing misses at most the records in progress.
LEMMA ListedMissesBusy ==
    ASSUME Writer, faults = 0, NEW ip \in IPs, ~Torn(ip),
           NEW r \in OfAddress(events.lines, ip), r \notin dossier[ip].folded
    PROVE  r.id \in InProgress
<1> USE DEF Writer, Critical
<1>1. PICK c \in Callers : pc[c] \in Critical /\ call[c].ip = ip
  BY DEF ExactInv, Quiet
<1>2. Exact(c)
  BY DEF ExactInv
<1>3. pc[c] # "write"
  BY <1>1 DEF Torn, At
<1>4. r = call[c]
  BY <1>1, <1>2, <1>3 DEF Exact, Loaded
<1> QED
  BY <1>1, <1>4 DEF InProgress

\* Until something fails a dossier loses nothing, but while it is written.
LEMMA KeptStays ==
    ASSUME Writer, [Next]_vars, faults' = 0, NEW ip \in IPs, NEW S, Kept(ip, S)
    PROVE  Kept(ip, S)'
<1> USE DEF Writer, TypeOK, Critical, At, Kept
<1>0. faults = 0
  BY AckedGrows
<1>z. \A c \in Callers : call[c].ip \in IPs /\ Exact(c)
  BY <1>0 DEF ExactInv, Record
<1>1. ASSUME NEW c \in Callers, TruncateDossier(c) PROVE Kept(ip, S)'
  <2>1. CASE call[c].ip # ip
    BY <1>1, <2>1 DEF TruncateDossier, Goto
  <2>2. CASE call[c].ip = ip
    <3>1. S \subseteq dossier[ip].folded
      BY <1>1, <2>2 DEF TruncateDossier, Goto, Alone
    <3>2. S \subseteq buf[c]
      BY <1>0, <1>1, <2>2, <3>1 DEF TruncateDossier, Goto, Loaded
    <3> QED
      BY <1>1, <2>2, <3>2 DEF TruncateDossier, Goto
  <2> QED
    BY <2>1, <2>2
<1>2. ASSUME NEW c \in Callers, WriteDossier(c) PROVE Kept(ip, S)'
  <2>1. CASE call[c].ip # ip
    BY <1>2, <2>1 DEF WriteDossier, Goto
  <2>2. CASE call[c].ip = ip
    <3>1. pc[c] = "write" /\ dossier[ip] = EmptyDossier
      BY <1>2, <1>z, <2>2 DEF WriteDossier, Goto, Exact
    <3>2. dossier'[ip].folded = buf[c]
      <4>1. Overwrite(EmptyDossier, buf[c]) = {[folded |-> buf[c], text |-> TRUE]}
        BY DEF Overwrite, EmptyDossier
      <4> QED
        BY <1>2, <2>2, <3>1, <4>1 DEF WriteDossier
    <3>3. S \subseteq buf[c]
      BY <2>2, <3>1 DEF EmptyDossier, Alone
    <3> QED
      BY <3>2, <3>3
  <2> QED
    BY <2>1, <2>2
<1>3. ASSUME NEW c \in Callers, ReadDossier(c) PROVE Kept(ip, S)'
  BY <1>3 DEF ReadDossier, Goto
<1>4. ASSUME NEW c \in Callers, Call(c) \/ Lock(c) \/ AppendEvent(c) \/ AppendShard(c) \/ StartHook(c)
                               \/ Return(c)
      PROVE  Kept(ip, S)'
  BY <1>4 DEF Call, Lock, AppendEvent, AppendShard, StartHook, Return, Leave, Goto
<1>5. CASE RunHook \/ UNCHANGED vars
  BY <1>5 DEF RunHook, vars
<1>6. ~Fault
  BY <1>0 DEF Fault
<1> QED
  BY <1>1, <1>2, <1>3, <1>4, <1>5, <1>6 DEF Next, Advance, Fails, Finished, AppendFails, ShardFails,
     ReadFails, OpenFails, WriteFails, Crash

-----------------------------------------------------------------------------
\* The abuse packs.

Pack == [at : {"idle", "dossier", "events", "stix", "markdown", "observed", "done", "failed"},
         ip : IPs, known : BOOLEAN, dossier : SUBSET Record, timeline : SUBSET Record,
         again : SUBSET Record, torn : BOOLEAN, met : BOOLEAN]

\* What a pack has read of its address, compared with what can be read now.
PackGood(e) ==
    LET x == export[e] IN
    /\ x.at = "idle" => ~x.met
    /\ x.known => OfAddress(acked, x.ip) # {}
    /\ x.at = "failed" /\ x.known => x.torn \/ faults + misses > 0
    /\ x.dossier \subseteq OfAddress(events.lines, x.ip)
    /\ x.at \in {"stix", "markdown", "observed", "done"} =>
           IsFiniteSet(Missing(x)) /\ Cardinality(Missing(x)) <= faults
    /\ faults = 0 /\ x.at \in {"events", "stix"} => Kept(x.ip, x.dossier)
    /\ faults = 0 /\ x.at \in {"markdown", "observed", "done"} => x.dossier \subseteq x.again

PackInv ==
    /\ export \in [Exports -> Pack] /\ misses \in Nat
    /\ \A e \in Exports : PackGood(e)

\* The dossiers a pack may find are those of events in the trail.
LEMMA FoundIsLogged ==
    ASSUME Writer, NEW ip \in IPs
    PROVE  /\ dossier[ip].folded \in SUBSET Record
           /\ dossier[ip].folded \subseteq OfAddress(events.lines, ip)
BY DEF Writer, TypeOK, DossierFile, PrimaryInv, AuditIsPrimary

LEMMA RecentIsLogged ==
    ASSUME Writer, NEW limit
    PROVE  ListRecent(limit) \in SUBSET Record /\ ListRecent(limit) \subseteq events.lines
BY DEF Writer, TypeOK, File, PrimaryInv, AuditIsPrimary, ListRecent, Last, ReadJSONL

\* A timeline misses only events whose lines do not parse, and what its limits cut.
LEMMA TimelineMissesFew ==
    ASSUME Writer, NEW ip \in IPs, NEW S \in SUBSET OfAddress(events.lines, ip)
    PROVE  /\ IsFiniteSet({r \in S \ ListByIP(ip) : ~Overtaken(r)})
           /\ Cardinality({r \in S \ ListByIP(ip) : ~Overtaken(r)}) <= faults
<1> DEFINE D == {r \in S \ ListByIP(ip) : ~Overtaken(r)}
           R == ReadJSONL(events)
           recent == ListRecent(RecentLimit)
<1>1. ASSUME NEW r \in D, r \notin events.glued PROVE FALSE
  <2>1. r \in R /\ r.ip = ip /\ IsFiniteSet(R) /\ R \subseteq events.lines
    BY <1>1, FS_Subset DEF OfAddress, ReadJSONL, Writer, FiniteTrail
  <2>2. /\ IsFiniteSet(After(r, R)) /\ IsFiniteSet(After(r, OfAddress(R, ip)))
        /\ Cardinality(After(r, R)) \in Nat /\ Cardinality(After(r, OfAddress(R, ip))) \in Nat
    BY <2>1, FS_Subset, FS_CardinalityType DEF After, OfAddress
  <2>3. Cardinality(After(r, R)) < RecentLimit /\ Cardinality(After(r, OfAddress(R, ip))) < TimelineLimit
    BY <1>1, <2>1, <2>2, ReadersAssumption DEF Overtaken
  <2>4. recent = Last(R, RecentLimit)
    BY <2>1 DEF ListRecent
  <2>5. r \in OfAddress(recent, ip)
    BY <2>1, <2>3, <2>4 DEF Last, OfAddress
  <2>6. After(r, OfAddress(recent, ip)) \in SUBSET After(r, OfAddress(R, ip))
    BY <2>4 DEF After, Last, OfAddress
  <2>7. Cardinality(After(r, OfAddress(recent, ip))) < TimelineLimit
    <3>1. /\ Cardinality(After(r, OfAddress(recent, ip))) <= Cardinality(After(r, OfAddress(R, ip)))
          /\ Cardinality(After(r, OfAddress(recent, ip))) \in Nat
      BY <2>2, <2>6, FS_Subset, FS_CardinalityType
    <3> QED
      BY <2>2, <2>3, <3>1, ReadersAssumption
  <2>8. r \in ListByIP(ip)
    BY <2>5, <2>7 DEF ListByIP, Last
  <2> QED
    BY <1>1, <2>8
<1>2. D \in SUBSET events.glued
  BY <1>1
<1> HIDE DEF D
<1>3. /\ IsFiniteSet(D) /\ Cardinality(D) <= Cardinality(events.glued)
      /\ Cardinality(D) \in Nat /\ Cardinality(events.glued) \in Nat
  BY <1>2, FS_Subset, FS_CardinalityType DEF Writer, LossInv
<1>4. Cardinality(D) <= faults
  BY <1>3 DEF Writer, LossInv, TypeOK, File
<1> QED
  BY <1>3, <1>4 DEF D

\* What was overtaken stays so.
LEMMA OvertakenStays ==
    ASSUME Writer, Writer', [AllNext]_allVars, NEW r, Overtaken(r)
    PROVE  Overtaken(r)'
<1> DEFINE R == ReadJSONL(events)
<1>1. R \subseteq R' /\ R \subseteq events.lines /\ events.lines \subseteq events'.lines
  BY ReaderSteps, TrailGrows DEF Writer, ReadJSONL
<1>2. \A t \in events.lines : before'[t.id] = before[t.id]
  <2>1. CASE LedgerStep
    <3>1. \A t \in events.lines : t.id \in Calls
      BY DEF Writer, Numbered
    <3>2. \A t \in events.lines : ~ \E q \in events'.lines \ events.lines : q.id = t.id
      BY <1>1 DEF Writer, Numbered
    <3> QED
      BY <2>1, <3>1, <3>2 DEF LedgerStep
  <2>2. CASE before' = before
    BY <2>2
  <2> QED
    BY <2>1, <2>2 DEF AllNext, allVars, WatchStarts, WatchStat, WatchScan, WatchEnds, Exporting,
       ReadSubject, ReadTimeline, ReadAgain, WriteMarkdown, WriteSTIX, ExportFails, ExportStarts,
       ExportStep, BoardStarts, ReadDir, BoardShows, ListDossier, BoardStep
<1>3. /\ After(r, R) \in SUBSET After(r, R)'
      /\ After(r, OfAddress(R, r.ip)) \in SUBSET After(r, OfAddress(R, r.ip))'
  BY <1>1, <1>2 DEF After, OfAddress
<1>4. /\ IsFiniteSet(After(r, R)') /\ IsFiniteSet(After(r, OfAddress(R, r.ip))')
  <2>1. /\ After(r, R)' \in SUBSET events'.lines /\ After(r, OfAddress(R, r.ip))' \in SUBSET events'.lines
        /\ IsFiniteSet(events'.lines)
    BY DEF After, OfAddress, ReadJSONL, Writer, FiniteTrail
  <2> QED
    BY <2>1, FS_Subset
<1>5. /\ Cardinality(After(r, R)) <= Cardinality(After(r, R)')
      /\ Cardinality(After(r, R)) \in Nat /\ Cardinality(After(r, R)') \in Nat
      /\ Cardinality(After(r, OfAddress(R, r.ip))) <= Cardinality(After(r, OfAddress(R, r.ip))')
      /\ Cardinality(After(r, OfAddress(R, r.ip))) \in Nat /\ Cardinality(After(r, OfAddress(R, r.ip))') \in Nat
  BY <1>3, <1>4, FS_Subset, FS_CardinalityType
<1>6. CASE Cardinality(After(r, R)) >= RecentLimit
  <2>1. Cardinality(After(r, R)') >= RecentLimit
    BY <1>5, <1>6, ReadersAssumption
  <2> QED
    BY <2>1 DEF Overtaken
<1>7. CASE Cardinality(After(r, OfAddress(R, r.ip))) >= TimelineLimit
  <2>1. Cardinality(After(r, OfAddress(R, r.ip))') >= TimelineLimit
    BY <1>5, <1>7, ReadersAssumption
  <2> QED
    BY <2>1 DEF Overtaken
<1> QED
  BY <1>6, <1>7 DEF Overtaken

LEMMA PackBegins == AllInit => PackInv
<1> SUFFICES ASSUME AllInit PROVE PackInv
  OBVIOUS
<1>1. NoPack \in Pack /\ NoPack.at = "idle" /\ ~NoPack.met /\ ~NoPack.known /\ NoPack.dossier = {}
  BY LedgerAssumption DEF NoPack, Pack
<1>2. export = [e \in Exports |-> NoPack] /\ misses = 0
  BY DEF AllInit
<1> QED
  BY <1>1, <1>2 DEF PackInv, PackGood

\* Nothing that others do takes back what a pack has read.
LEMMA PackStays ==
    ASSUME Writer, PackInv, [Next]_vars, misses' \in Nat, misses' >= misses, NEW e \in Exports,
           \A r \in Record : Overtaken(r) => Overtaken(r)',
           \/ export'[e] = export[e]
           \/ export[e].at # "idle" /\ export'[e] = [export[e] EXCEPT !.met = TRUE]
    PROVE  PackGood(e)'
<1>1. /\ export'[e].at = export[e].at /\ export'[e].ip = export[e].ip /\ export'[e].known = export[e].known
      /\ export'[e].dossier = export[e].dossier /\ export'[e].timeline = export[e].timeline
      /\ export'[e].again = export[e].again /\ export'[e].torn = export[e].torn
      /\ export'[e].at = "idle" /\ export'[e].met => export[e].met
      /\ export[e].ip \in IPs
  BY DEF PackInv, Pack
<1>2. acked \subseteq acked' /\ faults \in Nat /\ faults' \in Nat /\ faults' >= faults
      /\ events.lines \subseteq events'.lines
  BY AckedGrows, TrailGrows DEF Writer
<1>3. PICK ip \in IPs : ip = export[e].ip
  BY <1>1
<1>4. PICK S : S = export[e].dossier
  OBVIOUS
<1>5. PackGood(e)
  BY DEF PackInv
<1>6. ASSUME faults' = 0, export[e].at \in {"events", "stix"} PROVE Kept(ip, S)'
  <2>1. Kept(ip, S)
    BY <1>2, <1>3, <1>4, <1>5, <1>6 DEF PackGood
  <2> QED
    BY <1>6, <2>1, KeptStays
<1>7. (faults = 0 /\ export[e].at \in {"events", "stix"} => Kept(export[e].ip, export[e].dossier))'
  BY <1>1, <1>3, <1>4, <1>6 DEF Kept, At
<1>8. IsFiniteSet(Missing(export[e])) =>
          /\ IsFiniteSet(Missing(export[e])') /\ Cardinality(Missing(export[e])) \in Nat
          /\ Cardinality(Missing(export[e])') <= Cardinality(Missing(export[e]))
          /\ Cardinality(Missing(export[e])') \in Nat
  <2>1. Missing(export[e])' \in SUBSET Missing(export[e])
    BY <1>1 DEF Missing, PackInv, Pack
  <2> QED
    BY <2>1, FS_Subset, FS_CardinalityType
<1>9. misses \in Nat /\ misses' \in Nat /\ misses' >= misses
  BY DEF PackInv
<1>10. (export[e].at = "failed" /\ export[e].known => export[e].torn \/ faults + misses > 0)'
  BY <1>1, <1>2, <1>5, <1>9 DEF PackGood
<1>11. (export[e].known => OfAddress(acked, export[e].ip) # {})'
  BY <1>1, <1>2, <1>5 DEF PackGood, OfAddress
<1>12. (export[e].dossier \subseteq OfAddress(events.lines, export[e].ip))'
  BY <1>1, <1>2, <1>5 DEF PackGood, OfAddress
<1>13. (export[e].at \in {"stix", "markdown", "observed", "done"} =>
           /\ IsFiniteSet(Missing(export[e])) /\ Cardinality(Missing(export[e])) <= faults)'
  BY <1>1, <1>2, <1>5, <1>8 DEF PackGood
<1>14. (faults = 0 /\ export[e].at \in {"markdown", "observed", "done"} => export[e].dossier \subseteq export[e].again)'
  BY <1>1, <1>2, <1>5 DEF PackGood
<1>15. (export[e].at = "idle" => ~export[e].met)'
  BY <1>1, <1>5 DEF PackGood
<1> QED
  BY <1>7, <1>10, <1>11, <1>12, <1>13, <1>14, <1>15 DEF PackGood

\* A pack that is asked for begins with nothing read.
LEMMA PackStarts ==
    ASSUME Writer, Writer', PackInv, NEW e \in Exports, NEW ip \in IPs, ExportStarts(e, ip)
    PROVE  PackInv'
<1>0. \A r \in Record : Overtaken(r) => Overtaken(r)'
  BY DEF ExportStarts, Overtaken, After, vars
<1>1. /\ export[e].at = "idle" /\ UNCHANGED <<vars, misses>>
      /\ \A d \in Exports \ {e} :
             \/ export'[d] = export[d]
             \/ export[d].at # "idle" /\ export'[d] = [export[d] EXCEPT !.met = TRUE]
      /\ DOMAIN export' = Exports
  BY DEF ExportStarts, Rivals
<1>2. /\ export'[e] \in Pack /\ export'[e].at = "dossier" /\ export'[e].dossier = {}
      /\ export'[e].ip = ip /\ export'[e].known = (OfAddress(acked, ip) # {})
  BY DEF ExportStarts, NoPack, Pack
<1>3. PackGood(e)'
  BY <1>1, <1>2 DEF PackGood, vars
<1>4. \A d \in Exports \ {e} : PackGood(d)' /\ export'[d] \in Pack
  <2> SUFFICES ASSUME NEW d \in Exports \ {e} PROVE PackGood(d)' /\ export'[d] \in Pack
    OBVIOUS
  <2>1. export'[d] \in Pack
    BY <1>1 DEF PackInv, Pack
  <2> QED
    BY <1>0, <1>1, <2>1, PackStays DEF PackInv
<1>5. export' \in [Exports -> Pack]
  BY <1>2, <1>4 DEF ExportStarts
<1> QED
  BY <1>1, <1>3, <1>4, <1>5 DEF PackInv

\* One step of a pack, by what becomes of it.
LEMMA PackTurns ==
    ASSUME Writer, PackInv, NEW e \in Exports, NEW to \in Pack, UNCHANGED <<vars, before>>,
           export' = [export EXCEPT ![e] = to], misses' = misses \/ misses' = misses + 1,
           to.at # "idle", to.ip = export[e].ip, to.known = export[e].known,
           to.at = "failed" /\ to.known => to.torn \/ faults + misses' > 0,
           to.dossier \subseteq OfAddress(events.lines, to.ip),
           to.at \in {"stix", "markdown", "observed", "done"} =>
               IsFiniteSet(Missing(to)) /\ Cardinality(Missing(to)) <= faults,
           faults = 0 /\ to.at \in {"events", "stix"} => Kept(to.ip, to.dossier),
           faults = 0 /\ to.at \in {"markdown", "observed", "done"} => to.dossier \subseteq to.again
    PROVE  PackInv'
<1>1. export'[e] = to /\ export' \in [Exports -> Pack] /\ \A d \in Exports \ {e} : export'[d] = export[d]
  BY DEF PackInv
<1>2. misses \in Nat /\ misses' \in Nat /\ misses' >= misses
  BY DEF PackInv
<1>3. \A d \in Exports \ {e} : PackGood(d)'
  <2>1. \A r \in Record : Overtaken(r) => Overtaken(r)'
    BY DEF Overtaken, After, vars
  <2> QED
    BY <1>1, <1>2, <2>1, PackStays
<1>4. PackGood(e)'
  <2>1. to.known => OfAddress(acked, to.ip) # {}
    BY DEF PackInv, PackGood
  <2> QED
    BY <1>1, <2>1 DEF PackGood, vars, Kept, At, Missing, Overtaken, After
<1> QED
  BY <1>1, <1>2, <1>3, <1>4 DEF PackInv

\* A pack goes on, or fails.
LEMMA PackGoesOn ==
    ASSUME Writer, PackInv, NEW e \in Exports, Exporting(e)
    PROVE  PackInv'
<1>1. PICK x \in Pack : x = export[e]
  BY DEF PackInv
<1>2. /\ x.known => OfAddress(acked, x.ip) # {}
      /\ x.dossier \subseteq OfAddress(events.lines, x.ip)
      /\ x.at \in {"stix", "markdown", "observed", "done"} =>
             IsFiniteSet(Missing(x)) /\ Cardinality(Missing(x)) <= faults
      /\ faults = 0 /\ x.at \in {"events", "stix"} => Kept(x.ip, x.dossier)
      /\ faults = 0 /\ x.at \in {"markdown", "observed", "done"} => x.dossier \subseteq x.again
  BY <1>1 DEF PackInv, PackGood
<1>3. /\ x.ip \in IPs /\ x.dossier \in SUBSET Record /\ x.timeline \in SUBSET Record
      /\ x.again \in SUBSET Record /\ x.torn \in BOOLEAN /\ x.known \in BOOLEAN
  BY DEF Pack
<1>4. faults \in Nat /\ misses \in Nat
  BY DEF Writer, TypeOK, PackInv
<1>5. /\ dossier[x.ip].folded \in SUBSET Record
      /\ dossier[x.ip].folded \subseteq OfAddress(events.lines, x.ip)
  BY <1>3, FoundIsLogged
<1>6. faults = 0 /\ ~Parses(x.ip) /\ x.known => Torn(x.ip)
  BY <1>2, <1>3, KnownParses
<1>6A. faults # 0 => faults + misses > 0 /\ faults + (misses + 1) > 0
  BY <1>4
<1>6B. faults + (misses + 1) > 0
  BY <1>4
<1>7. Torn(x.ip) \in BOOLEAN
  BY DEF Torn
<1>8. CASE ReadSubject(e)
  <2> DEFINE to == [x EXCEPT !.at = IF Parses(x.ip) THEN "events" ELSE "failed",
                             !.dossier = dossier[x.ip].folded, !.torn = Torn(x.ip)]
  <2>1. x.at = "dossier" /\ export' = [export EXCEPT ![e] = to] /\ UNCHANGED <<vars, before>> /\ misses' = misses
    BY <1>1, <1>8 DEF ReadSubject, ExportStep
  <2>2. /\ to \in Pack /\ to.ip = x.ip /\ to.known = x.known /\ to.dossier = dossier[x.ip].folded
        /\ to.at = (IF Parses(x.ip) THEN "events" ELSE "failed") /\ to.torn = Torn(x.ip)
    BY <1>3, <1>5, <1>7 DEF Pack
  <2>3. Kept(x.ip, dossier[x.ip].folded)
    BY DEF Kept
  <2> HIDE DEF to
  <2>4. to.at = "failed" /\ to.known => to.torn \/ faults + misses' > 0
    BY <1>6, <1>6A, <2>1, <2>2, Zenon
  <2>5. to.at \in {"events", "failed"} /\ to.at # "idle"
    BY <2>2
  <2> QED
    BY <1>1, <1>5, <2>1, <2>2, <2>3, <2>4, <2>5, PackTurns
<1>9. CASE ReadTimeline(e)
  <2> DEFINE to == [x EXCEPT !.at = "stix", !.timeline = ListByIP(x.ip)]
  <2>1. x.at = "events" /\ export' = [export EXCEPT ![e] = to] /\ UNCHANGED <<vars, before>> /\ misses' = misses
    BY <1>1, <1>9 DEF ReadTimeline, ExportStep
  <2>2. ListByIP(x.ip) \in SUBSET Record
    BY RecentIsLogged DEF ListByIP, Last, OfAddress
  <2>3. /\ to \in Pack /\ to.ip = x.ip /\ to.known = x.known /\ to.dossier = x.dossier /\ to.at = "stix"
        /\ to.timeline = ListByIP(x.ip)
    BY <2>2 DEF Pack
  <2>4. IsFiniteSet(Missing(to)) /\ Cardinality(Missing(to)) <= faults
    <3>1. Missing(to) = {r \in x.dossier \ ListByIP(x.ip) : ~Overtaken(r)}
      BY <2>3 DEF Missing
    <3> QED
      BY <1>2, <1>3, <3>1, TimelineMissesFew
  <2> HIDE DEF to
  <2> QED
    BY <1>1, <1>2, <2>1, <2>3, <2>4, PackTurns
<1>10. CASE ReadAgain(e)
  <2> DEFINE to == [x EXCEPT !.at = IF Parses(x.ip) THEN "markdown" ELSE "failed",
                             !.again = dossier[x.ip].folded, !.torn = x.torn \/ Torn(x.ip)]
  <2>1. x.at = "stix" /\ export' = [export EXCEPT ![e] = to] /\ UNCHANGED <<vars, before>> /\ misses' = misses
    BY <1>1, <1>10 DEF ReadAgain, ExportStep
  <2>2. /\ to \in Pack /\ to.ip = x.ip /\ to.known = x.known /\ to.dossier = x.dossier
        /\ to.timeline = x.timeline /\ to.again = dossier[x.ip].folded
        /\ to.at = (IF Parses(x.ip) THEN "markdown" ELSE "failed") /\ to.torn = (x.torn \/ Torn(x.ip))
    BY <1>3, <1>5, <1>7 DEF Pack
  <2>3. faults = 0 /\ Parses(x.ip) => x.dossier \subseteq dossier[x.ip].folded
    <3> SUFFICES ASSUME faults = 0, Parses(x.ip), NEW c \in At("write", x.ip) PROVE FALSE
      BY <1>2, <2>1 DEF Kept
    <3> QED
      BY DEF Writer, Updating, At, EmptyDossier, Parses
  <2> HIDE DEF to
  <2>4. to.at = "failed" /\ to.known => to.torn \/ faults + misses' > 0
    BY <1>6, <1>6A, <2>1, <2>2, Zenon
  <2>5. to.at \in {"markdown", "failed"} /\ (to.at = "markdown" => Parses(x.ip))
    BY <2>2
  <2>6. Missing(to) = Missing(x)
    BY <2>2 DEF Missing
  <2> QED
    BY <1>1, <1>2, <2>1, <2>2, <2>3, <2>4, <2>5, <2>6, PackTurns
<1>11. CASE WriteMarkdown(e) \/ WriteSTIX(e)
  <2> DEFINE to(s) == [x EXCEPT !.at = s]
  <2>1. PICK s \in {"observed", "done"} :
           /\ x.at \in {"markdown", "observed"} /\ export' = [export EXCEPT ![e] = to(s)]
           /\ UNCHANGED <<vars, before>> /\ misses' = misses
    BY <1>1, <1>11 DEF WriteMarkdown, WriteSTIX, ExportStep
  <2>2. /\ to(s) \in Pack /\ to(s).ip = x.ip /\ to(s).known = x.known /\ to(s).dossier = x.dossier
        /\ to(s).timeline = x.timeline /\ to(s).again = x.again /\ to(s).at = s
    BY DEF Pack
  <2> HIDE DEF to
  <2>3. Missing(to(s)) = Missing(x)
    BY <2>2 DEF Missing
  <2> QED
    BY <1>1, <1>2, <2>1, <2>2, <2>3, PackTurns
<1>12. CASE ExportFails(e)
  <2> DEFINE to == [x EXCEPT !.at = "failed"]
  <2>1. export' = [export EXCEPT ![e] = to] /\ UNCHANGED <<vars, before>> /\ misses' = misses + 1
    BY <1>1, <1>12 DEF ExportFails
  <2>2. to \in Pack /\ to.ip = x.ip /\ to.known = x.known /\ to.dossier = x.dossier /\ to.at = "failed"
    BY DEF Pack
  <2> HIDE DEF to
  <2> QED
    BY <1>1, <1>2, <1>6B, <2>1, <2>2, PackTurns
<1> QED
  BY <1>8, <1>9, <1>10, <1>11, <1>12 DEF Exporting

LEMMA PackPreserves ==
    ASSUME Writer, Writer', PackInv, [AllNext]_allVars
    PROVE  PackInv'
<1>0. \A r \in Record : Overtaken(r) => Overtaken(r)'
  BY OvertakenStays
<1>1. ASSUME NEW e \in Exports, Exporting(e) PROVE PackInv'
  BY <1>1, PackGoesOn
<1>2. ASSUME NEW e \in Exports, NEW ip \in IPs, ExportStarts(e, ip) PROVE PackInv'
  BY <1>2, PackStarts
<1>3. ASSUME [Next]_vars, UNCHANGED exportVars PROVE PackInv'
  <2>1. export' = export /\ misses' = misses
    BY <1>3 DEF exportVars
  <2> QED
    BY <1>0, <1>3, <2>1, PackStays DEF PackInv
<1> QED
  BY <1>1, <1>2, <1>3 DEF AllNext, allVars, LedgerStep, WatchStarts, WatchStat, WatchScan, WatchEnds,
     BoardStarts, ReadDir, BoardShows, ListDossier, BoardStep

\* The packs that are being made.
Making == {e \in Exports : export[e].at \notin {"idle", "failed", "done"}}

Unmet(ip) == \A e \in Exports : export[e].ip = ip => ~export[e].met

\* Packs of one address that are made together know it, and one that is made
\* alone finds, before its second write, the Markdown it wrote.
EvidenceInv ==
    /\ evidence \in [IPs -> [md : SUBSET Record, stix : SUBSET Record]]
    /\ \A d, e \in Making : d # e /\ export[d].ip = export[e].ip => export[d].met
    /\ faults + misses = 0 =>
           \A ip \in IPs : Unmet(ip) =>
               /\ \A e \in Exports : export[e].ip = ip /\ export[e].at = "observed" =>
                      evidence[ip].md \subseteq export[e].again
               /\ (\A e \in Exports : export[e].ip = ip => export[e].at # "observed") =>
                      evidence[ip].md \subseteq evidence[ip].stix

LEMMA EvidenceBegins == AllInit => EvidenceInv
<1> SUFFICES ASSUME AllInit PROVE EvidenceInv
  OBVIOUS
<1>1. /\ \A e \in Exports : export[e].at = "idle"
      /\ evidence = [ip \in IPs |-> [md |-> {}, stix |-> {}]]
  BY DEF AllInit, NoPack, None
<1> QED
  BY <1>1 DEF EvidenceInv, Making

\* A pack reads: the files stay as they are.
LEMMA EvidenceStays ==
    ASSUME EvidenceInv, UNCHANGED evidence, faults + misses # 0 => faults' + misses' # 0,
           \A e \in Exports :
               /\ export'[e].ip = export[e].ip /\ export'[e].met = export[e].met
               /\ \/ export'[e] = export[e]
                  \/ /\ export[e].at \in {"dossier", "events", "stix"}
                     /\ export'[e].at \in {"events", "stix", "markdown", "failed"}
    PROVE  EvidenceInv'
<1>1. Making' \subseteq Making
  BY DEF Making
<1>2. \A e \in Exports : (export[e].at = "observed" <=> export'[e].at = "observed")
                          /\ (export[e].at = "observed" => export'[e].again = export[e].again)
  BY Zenon
<1>3. \A d, e \in Making' : d # e /\ export'[d].ip = export'[e].ip => export'[d].met
  BY <1>1 DEF EvidenceInv, Making
<1>4. \A ip \in IPs : Unmet(ip)' => Unmet(ip)
  BY DEF Unmet
<1>5. (faults + misses = 0 =>
           \A ip \in IPs : Unmet(ip) =>
               /\ \A e \in Exports : export[e].ip = ip /\ export[e].at = "observed" =>
                      evidence[ip].md \subseteq export[e].again
               /\ (\A e \in Exports : export[e].ip = ip => export[e].at # "observed") =>
                      evidence[ip].md \subseteq evidence[ip].stix)'
  <2> SUFFICES ASSUME faults' + misses' = 0, NEW ip \in IPs, Unmet(ip)'
               PROVE  /\ \A e \in Exports : export'[e].ip = ip /\ export'[e].at = "observed" =>
                             evidence[ip].md \subseteq export'[e].again
                      /\ (\A e \in Exports : export'[e].ip = ip => export'[e].at # "observed") =>
                             evidence[ip].md \subseteq evidence[ip].stix
    OBVIOUS
  <2>1. faults + misses = 0 /\ Unmet(ip)
    BY <1>4
  <2> QED
    BY <1>2, <2>1 DEF EvidenceInv
<1> QED
  BY <1>3, <1>5 DEF EvidenceInv

\* A pack that is asked for, and those it meets.
LEMMA EvidenceAsked ==
    ASSUME Writer, PackInv, EvidenceInv, NEW e \in Exports, NEW ip \in IPs, ExportStarts(e, ip)
    PROVE  EvidenceInv'
<1>1. /\ export[e].at = "idle" /\ UNCHANGED <<vars, misses, evidence>>
      /\ \A d \in Exports \ {e} :
             IF d \in Rivals(ip) THEN export'[d] = [export[d] EXCEPT !.met = TRUE]
             ELSE export'[d] = export[d]
  BY DEF ExportStarts, Rivals
<1>2. /\ export'[e].at = "dossier" /\ export'[e].ip = ip
      /\ Rivals(ip) # {} => export'[e].met
  BY DEF ExportStarts, NoPack
<1>3. \A d \in Exports \ {e} :
          /\ export'[d].ip = export[d].ip /\ export'[d].at = export[d].at /\ export'[d].again = export[d].again
          /\ export[d].met => export'[d].met
          /\ d \in Rivals(ip) => export'[d].met
  BY <1>1 DEF PackInv, Pack
<1>4. ~export[e].met
  BY <1>1 DEF PackInv, PackGood
<1>5. (\A d, f \in Making : d # f /\ export[d].ip = export[f].ip => export[d].met)'
  <2> SUFFICES ASSUME NEW d \in Making', NEW f \in Making', d # f, export'[d].ip = export'[f].ip
               PROVE  export'[d].met
    BY Zenon
  <2>1. d \in Exports /\ f \in Exports
    BY DEF Making
  <2>2. CASE d = e
    <3>1. f \in Rivals(ip)
      BY <1>2, <1>3, <2>1, <2>2 DEF Rivals, Making
    <3> QED
      BY <1>2, <2>2, <3>1
  <2>3. CASE f = e
    <3>1. d \in Rivals(ip)
      BY <1>2, <1>3, <2>1, <2>3 DEF Rivals, Making
    <3> QED
      BY <1>3, <2>1, <2>3, <3>1
  <2>4. CASE d # e /\ f # e
    <3>1. d \in Making /\ f \in Making /\ export[d].ip = export[f].ip
      BY <1>3, <2>1, <2>4 DEF Making
    <3> QED
      BY <1>3, <2>1, <2>4, <3>1 DEF EvidenceInv
  <2> QED
    BY <2>2, <2>3, <2>4
<1>6. \A i \in IPs : Unmet(i)' => Unmet(i)
  BY <1>3, <1>4 DEF Unmet
<1>7. (faults + misses = 0 =>
           \A i \in IPs : Unmet(i) =>
               /\ \A d \in Exports : export[d].ip = i /\ export[d].at = "observed" =>
                      evidence[i].md \subseteq export[d].again
               /\ (\A d \in Exports : export[d].ip = i => export[d].at # "observed") =>
                      evidence[i].md \subseteq evidence[i].stix)'
  <2> SUFFICES ASSUME faults' + misses' = 0, NEW i \in IPs, Unmet(i)'
               PROVE  /\ \A d \in Exports : export'[d].ip = i /\ export'[d].at = "observed" =>
                             evidence[i].md \subseteq export'[d].again
                      /\ (\A d \in Exports : export'[d].ip = i => export'[d].at # "observed") =>
                             evidence[i].md \subseteq evidence[i].stix
    BY <1>1
  <2>1. faults + misses = 0 /\ Unmet(i)
    BY <1>1, <1>6 DEF vars
  <2>2. /\ \A d \in Exports : export[d].ip = i /\ export[d].at = "observed" =>
                evidence[i].md \subseteq export[d].again
        /\ (\A d \in Exports : export[d].ip = i => export[d].at # "observed") =>
                evidence[i].md \subseteq evidence[i].stix
    BY <2>1 DEF EvidenceInv
  <2>3. \A d \in Exports : export'[d].at = "observed" => d # e
    BY <1>2
  <2> QED
    BY <1>1, <1>3, <2>2, <2>3
<1> QED
  BY <1>1, <1>5, <1>7 DEF EvidenceInv

\* A pack that met no other writes its two files with no other in between.
LEMMA EvidenceWritten ==
    ASSUME Writer, PackInv, EvidenceInv, NEW e \in Exports, WriteMarkdown(e) \/ WriteSTIX(e)
    PROVE  EvidenceInv'
<1>1. PICK x \in Pack : x = export[e]
  BY DEF PackInv
<1>2. /\ x.ip \in IPs /\ x.dossier \in SUBSET Record /\ x.again \in SUBSET Record
      /\ x.at \in {"markdown", "observed"} /\ UNCHANGED <<faults, misses>>
  BY <1>1 DEF Pack, WriteMarkdown, WriteSTIX, ExportStep, vars
<1>3. PICK s \in {"observed", "done"} :
          /\ export' = [export EXCEPT ![e] = [x EXCEPT !.at = s]]
          /\ s = "observed" => x.at = "markdown" /\ evidence' = [evidence EXCEPT ![x.ip].md = x.dossier]
          /\ s = "done" => x.at = "observed" /\ evidence' = [evidence EXCEPT ![x.ip].stix = x.again]
  BY <1>1 DEF WriteMarkdown, WriteSTIX, ExportStep
<1>4. /\ export'[e].at = s /\ export'[e].ip = x.ip /\ export'[e].met = x.met /\ export'[e].again = x.again
      /\ \A d \in Exports \ {e} : export'[d] = export[d]
  BY <1>3 DEF PackInv, Pack
<1>5. /\ evidence' \in [IPs -> [md : SUBSET Record, stix : SUBSET Record]]
      /\ \A ip \in IPs \ {x.ip} : evidence'[ip] = evidence[ip]
      /\ s = "observed" => evidence'[x.ip].md = x.dossier
      /\ s = "done" => evidence'[x.ip].stix = x.again /\ evidence'[x.ip].md = evidence[x.ip].md
  BY <1>2, <1>3 DEF EvidenceInv
<1>6. e \in Making /\ Making' \subseteq Making
  BY <1>1, <1>2, <1>4 DEF Making
<1>7. (\A d, f \in Making : d # f /\ export[d].ip = export[f].ip => export[d].met)'
  BY <1>1, <1>4, <1>6 DEF EvidenceInv, Making
<1>8. \A ip \in IPs : Unmet(ip)' => Unmet(ip)
  BY <1>1, <1>4 DEF Unmet
<1>9. ASSUME faults + misses = 0, Unmet(x.ip)
      PROVE  /\ x.dossier \subseteq x.again
             /\ x.at = "observed" => evidence[x.ip].md \subseteq x.again
             /\ \A d \in Exports \ {e} : export[d].ip = x.ip => export[d].at # "observed"
  <2>1. faults = 0
    BY <1>9 DEF Writer, TypeOK, PackInv
  <2>2. x.dossier \subseteq x.again
    BY <1>1, <1>2, <2>1 DEF PackInv, PackGood
  <2>3. x.at = "observed" => evidence[x.ip].md \subseteq x.again
    BY <1>1, <1>2, <1>9 DEF EvidenceInv
  <2>4. \A d \in Exports \ {e} : export[d].ip = x.ip => export[d].at # "observed"
    <3> SUFFICES ASSUME NEW d \in Exports \ {e}, export[d].ip = x.ip, export[d].at = "observed" PROVE FALSE
      OBVIOUS
    <3>1. d \in Making
      BY DEF Making
    <3> QED
      BY <1>1, <1>6, <1>9, <3>1 DEF EvidenceInv, Unmet
  <2> QED
    BY <2>2, <2>3, <2>4
<1>10. (faults + misses = 0 =>
           \A ip \in IPs : Unmet(ip) =>
               /\ \A d \in Exports : export[d].ip = ip /\ export[d].at = "observed" =>
                      evidence[ip].md \subseteq export[d].again
               /\ (\A d \in Exports : export[d].ip = ip => export[d].at # "observed") =>
                      evidence[ip].md \subseteq evidence[ip].stix)'
  <2> SUFFICES ASSUME faults' + misses' = 0, NEW ip \in IPs, Unmet(ip)'
               PROVE  /\ \A d \in Exports : export'[d].ip = ip /\ export'[d].at = "observed" =>
                             evidence'[ip].md \subseteq export'[d].again
                      /\ (\A d \in Exports : export'[d].ip = ip => export'[d].at # "observed") =>
                             evidence'[ip].md \subseteq evidence'[ip].stix
    OBVIOUS
  <2>1. faults + misses = 0 /\ Unmet(ip)
    BY <1>2, <1>8
  <2>2. CASE ip # x.ip
    <3>1. /\ \A d \in Exports : export[d].ip = ip /\ export[d].at = "observed" =>
                  evidence[ip].md \subseteq export[d].again
          /\ (\A d \in Exports : export[d].ip = ip => export[d].at # "observed") =>
                  evidence[ip].md \subseteq evidence[ip].stix
      BY <2>1 DEF EvidenceInv
    <3> QED
      BY <1>1, <1>4, <1>5, <2>2, <3>1
  <2>3. CASE ip = x.ip
    <3>1. /\ x.dossier \subseteq x.again
          /\ x.at = "observed" => evidence[x.ip].md \subseteq x.again
          /\ \A d \in Exports \ {e} : export[d].ip = x.ip => export[d].at # "observed"
      BY <1>9, <2>1, <2>3
    <3> QED
      BY <1>3, <1>4, <1>5, <2>3, <3>1
  <2> QED
    BY <2>2, <2>3
<1> QED
  BY <1>5, <1>7, <1>10 DEF EvidenceInv

LEMMA EvidencePreserves ==
    ASSUME Writer, PackInv, EvidenceInv, [AllNext]_allVars
    PROVE  EvidenceInv'
<1>1. ASSUME NEW e \in Exports, NEW ip \in IPs, ExportStarts(e, ip) PROVE EvidenceInv'
  BY <1>1, EvidenceAsked
<1>2. ASSUME NEW e \in Exports, WriteMarkdown(e) \/ WriteSTIX(e) PROVE EvidenceInv'
  BY <1>2, EvidenceWritten
<1>3. ASSUME NEW e \in Exports, ReadSubject(e) \/ ReadTimeline(e) \/ ReadAgain(e) PROVE EvidenceInv'
  <2>1. PICK x \in Pack : x = export[e]
    BY DEF PackInv
  <2>2. UNCHANGED <<vars, misses, evidence>> /\ x.at \in {"dossier", "events", "stix"}
    BY <1>3, <2>1 DEF ReadSubject, ReadTimeline, ReadAgain, ExportStep
  <2>3. PICK y \in {"events", "stix", "markdown", "failed"} : \E S, T, U, b :
            export' = [export EXCEPT ![e] =
                [x EXCEPT !.at = y, !.dossier = S, !.timeline = T, !.again = U, !.torn = b]]
    <3>1. CASE ReadSubject(e)
      <4>1. export' = [export EXCEPT ![e] = [x EXCEPT
                !.at = IF Parses(x.ip) THEN "events" ELSE "failed", !.dossier = dossier[x.ip].folded,
                !.timeline = x.timeline, !.again = x.again, !.torn = Torn(x.ip)]]
        BY <2>1, <3>1 DEF ReadSubject, ExportStep, Pack
      <4> QED
        BY <4>1
    <3>2. CASE ReadTimeline(e)
      <4>1. export' = [export EXCEPT ![e] = [x EXCEPT
                !.at = "stix", !.dossier = x.dossier,
                !.timeline = ListByIP(x.ip), !.again = x.again, !.torn = x.torn]]
        BY <2>1, <3>2 DEF ReadTimeline, ExportStep, Pack
      <4> QED
        BY <4>1
    <3>3. CASE ReadAgain(e)
      <4>1. export' = [export EXCEPT ![e] = [x EXCEPT
                !.at = IF Parses(x.ip) THEN "markdown" ELSE "failed", !.dossier = x.dossier,
                !.timeline = x.timeline, !.again = dossier[x.ip].folded, !.torn = x.torn \/ Torn(x.ip)]]
        BY <2>1, <3>3 DEF ReadAgain, ExportStep, Pack
      <4> QED
        BY <4>1
    <3> QED
      BY <1>3, <3>1, <3>2, <3>3
  <2>4. /\ export'[e].at = y /\ export'[e].ip = export[e].ip /\ export'[e].met = export[e].met
        /\ \A d \in Exports \ {e} : export'[d] = export[d]
    BY <2>1, <2>3 DEF PackInv, Pack
  <2> QED
    BY <2>1, <2>2, <2>4, EvidenceStays DEF vars
<1>4. ASSUME NEW e \in Exports, ExportFails(e) PROVE EvidenceInv'
  <2>1. PICK x \in Pack : x = export[e]
    BY DEF PackInv
  <2>2. /\ export' = [export EXCEPT ![e] = [x EXCEPT !.at = "failed"]] /\ misses' = misses + 1
        /\ UNCHANGED faults
    BY <1>4, <2>1 DEF ExportFails, vars
  <2>3. faults' + misses' # 0
    BY <2>2 DEF Writer, TypeOK, PackInv
  <2>4. evidence' \in [IPs -> [md : SUBSET Record, stix : SUBSET Record]]
    <3>1. CASE evidence' = evidence
      BY <3>1 DEF EvidenceInv
    <3>2. CASE evidence' = [evidence EXCEPT ![x.ip] = IF x.at = "markdown" THEN [@ EXCEPT !.md = None]
                                                      ELSE [@ EXCEPT !.stix = None]]
      <4>1. \A v \in [md : SUBSET Record, stix : SUBSET Record] :
                /\ [v EXCEPT !.md = {}] \in [md : SUBSET Record, stix : SUBSET Record]
                /\ [v EXCEPT !.stix = {}] \in [md : SUBSET Record, stix : SUBSET Record]
        OBVIOUS
      <4> QED
        BY <3>2, <4>1 DEF EvidenceInv, None
    <3> QED
      BY <1>4, <2>1, <3>1, <3>2 DEF ExportFails
  <2>5. /\ export'[e].at = "failed" /\ \A d \in Exports \ {e} : export'[d] = export[d]
    BY <2>1, <2>2 DEF PackInv, Pack
  <2>6. (\A d, f \in Making : d # f /\ export[d].ip = export[f].ip => export[d].met)'
    BY <2>5 DEF EvidenceInv, Making
  <2> QED
    BY <2>3, <2>4, <2>6 DEF EvidenceInv
<1>5. ASSUME [Next]_vars, UNCHANGED exportVars PROVE EvidenceInv'
  <2>1. faults + misses # 0 => faults' + misses' # 0
    BY <1>5, AckedGrows DEF Writer, PackInv, exportVars
  <2> QED
    BY <1>5, <2>1, EvidenceStays DEF exportVars
<1> QED
  BY <1>1, <1>2, <1>3, <1>4, <1>5 DEF AllNext, allVars, Exporting, LedgerStep, WatchStarts, WatchStat,
     WatchScan, WatchEnds, BoardStarts, ReadDir, BoardShows, ListDossier, BoardStep

\* A pack's parts fit together, and so do the two files of an address.
THEOREM PacksFit == AllSpec => []PackConsistent
<1>1. Writer /\ PackInv /\ EvidenceInv => PackConsistent
  <2> SUFFICES ASSUME Writer, PackInv, EvidenceInv PROVE PackConsistent
    OBVIOUS
  <2>1. ASSUME NEW ip \in IPs, faults + misses = 0,
               \A e \in Exports : export[e].ip = ip => export[e].at # "observed" /\ ~export[e].met
        PROVE  evidence[ip].md \subseteq evidence[ip].stix
    BY <2>1 DEF EvidenceInv, Unmet
  <2> QED
    BY <2>1 DEF PackConsistent, PackInv, PackGood
<1> QED
  BY <1>1, PackBegins, PackPreserves, EvidenceBegins, EvidencePreserves, WriterInvariant,
     ReadersLeaveLedger, PTL DEF AllSpec

-----------------------------------------------------------------------------
\* What a dossier says besides its hits.

AllPaths == {PathOf[i] : i \in Calls}

\* A value added to a list with a cap is in it, and others leave it only if it is
\* full.
LEMMA CapKeeps ==
    ASSUME NEW s \in Seq(AllPaths), Len(s) <= PathCap, NEW v \in AllPaths, NEW t,
           t = CapSlice(AppendUnique(s, v))
    PROVE  /\ t \in Seq(AllPaths) /\ Len(t) <= PathCap /\ v \in Range(t)
           /\ Len(s) = PathCap => Len(t) = PathCap
           /\ \A w \in Range(s) : w \in Range(t) \/ Len(t) = PathCap
<1>0. PathCap \in Nat \ {0}
  BY ReadersAssumption
<1> USE <1>0 DEF Range
<1>1. CASE v \in Range(s)
  BY <1>1 DEF AppendUnique, CapSlice
<1>2. CASE v \notin Range(s)
  <2> DEFINE u == Append(s, v)
  <2>1. /\ u \in Seq(AllPaths) /\ Len(u) = Len(s) + 1 /\ u[Len(u)] = v
        /\ \A i \in 1 .. Len(s) : u[i] = s[i]
    OBVIOUS
  <2>2. t = CapSlice(u)
    BY <1>2 DEF AppendUnique
  <2> HIDE DEF u
  <2>3. CASE Len(u) <= PathCap
    <3>1. t = u
      BY <2>2, <2>3 DEF CapSlice
    <3>2. Len(u) \in DOMAIN u /\ DOMAIN s = 1 .. Len(s) /\ DOMAIN u = 1 .. Len(u) /\ Len(s) \in Nat
      BY <2>1
    <3>3. Len(u) \in DOMAIN u /\ u[Len(u)] = v
      BY <2>1, <3>2
    <3>4. \A i \in DOMAIN s : i \in DOMAIN u /\ u[i] = s[i]
      BY <2>1, <3>2
    <3>5. v \in Range(u) /\ Range(s) \subseteq Range(u)
      BY <3>3, <3>4, Zenon
    <3>6. Len(s) # PathCap
      BY <2>1, <2>3, <3>2
    <3> QED
      BY <2>1, <2>3, <3>1, <3>5, <3>6
  <2>4. CASE ~(Len(u) <= PathCap)
    <3>0. Len(s) \in Nat /\ Len(u) = PathCap + 1
      BY <2>1, <2>4
    <3>1. t = SubSeq(u, Len(u) - PathCap + 1, Len(u)) /\ Len(u) = PathCap + 1
      BY <2>2, <2>4, <3>0 DEF CapSlice
    <3>2. t = SubSeq(u, 2, PathCap + 1)
      BY <3>1
    <3>3. t \in Seq(AllPaths) /\ Len(t) = PathCap /\ t[PathCap] = v
      BY <2>1, <3>1, <3>2
    <3> QED
      BY <3>3
  <2> QED
    BY <2>3, <2>4
<1> QED
  BY <1>1, <1>2

\* A call in progress overlaps every call that began after it.
OverlapInv ==
    /\ overlap \in [Calls -> SUBSET Nat]
    /\ \A c \in Callers : pc[c] # "idle" =>
           \A i \in Calls : call[c].id < i /\ i < nextId => call[c].id \in overlap[i]

\* The dates and the list of the dossier of ip, for the records in B.
Dated(B, ip) ==
    /\ stamp[ip].first \in Calls /\ stamp[ip].last \in Calls
    /\ stamp[ip].first < nextId
    /\ \A r \in B :
           /\ r.id > stamp[ip].last => stamp[ip].last \in overlap[r.id]
           /\ r.id < stamp[ip].first => r.id \in overlap[stamp[ip].first]
           /\ PathOf[r.id] \notin Range(stamp[ip].paths) => Len(stamp[ip].paths) = PathCap
    /\ PathOf[stamp[ip].last] \in Range(stamp[ip].paths)

StampInv ==
    /\ stamp \in [IPs -> [first : 0 .. MaxRecords, last : 0 .. MaxRecords, paths : Seq(AllPaths)]]
    /\ \A ip \in IPs : Len(stamp[ip].paths) <= PathCap
    /\ \A ip \in IPs : dossier[ip].folded # {} => Dated(dossier[ip].folded, ip)
    /\ \A c \in Callers : pc[c] \in {"truncate", "write"} /\ buf[c] # {call[c]} =>
           Dated(buf[c] \ {call[c]}, call[c].ip)

LEMMA StampBegins == AllInit => OverlapInv /\ StampInv
<1> SUFFICES ASSUME AllInit PROVE OverlapInv /\ StampInv
  OBVIOUS
<1>1. <<>> \in Seq(AllPaths) /\ Len(<<>>) = 0 /\ 0 \in 0 .. MaxRecords /\ 0 <= PathCap
  BY LedgerAssumption, ReadersAssumption
<1> QED
  BY <1>1 DEF AllInit, Init, OverlapInv, StampInv, EmptyDossier

\* Who begins a call finds the calls in progress.
LEMMA OverlapPreserves ==
    ASSUME Writer, OverlapInv, LedgerStep
    PROVE  OverlapInv'
<1> USE DEF Writer, TypeOK, Numbered, OverlapInv, Calls
<1>1. InProgress \in SUBSET Nat
  BY DEF InProgress, Record
<1>2. ASSUME NEW c \in Callers, Call(c) PROVE OverlapInv'
  <2>1. /\ nextId' = nextId + 1 /\ nextId \in Calls /\ nextId' # nextId
        /\ overlap' = [overlap EXCEPT ![nextId] = InProgress]
    BY <1>2 DEF Call, LedgerStep
  <2>2. PICK ip \in IPs, b \in Flags[c] :
            call' = [call EXCEPT ![c] = [id |-> nextId, ip |-> ip, blocked |-> b]]
    BY <1>2 DEF Call
  <2>3. /\ call'[c].id = nextId
        /\ \A d \in Callers : d # c => call'[d] = call[d] /\ pc'[d] = pc[d]
    BY <1>2, <2>2 DEF Call, Goto
  <2>4. \A d \in Callers : d # c /\ pc[d] # "idle" => call[d].id \in InProgress
    BY DEF InProgress
  <2>5. overlap' \in [Calls -> SUBSET Nat]
    BY <1>1, <2>1
  <2>6. \A i \in Calls : overlap'[i] = IF i = nextId THEN InProgress ELSE overlap[i]
    BY <2>1
  <2> SUFFICES ASSUME NEW d \in Callers, pc'[d] # "idle", NEW i \in Calls, call'[d].id < i, i < nextId'
               PROVE  call'[d].id \in overlap'[i]
    BY <2>5
  <2>7. d # c
    BY <2>1, <2>3
  <2>8. CASE i = nextId
    BY <2>3, <2>4, <2>6, <2>7, <2>8
  <2>9. CASE i # nextId
    BY <2>1, <2>3, <2>6, <2>7, <2>9
  <2> QED
    BY <2>8, <2>9
<1>3. ASSUME UNCHANGED nextId,
             \A d \in Callers : pc'[d] # "idle" => pc[d] # "idle" /\ call'[d] = call[d]
      PROVE  OverlapInv'
  BY <1>3 DEF LedgerStep
<1>4. ASSUME NEW c \in Callers, NEW s \in Steps, NEW t \in Steps, s # "idle", Goto(c, s, t),
             UNCHANGED <<nextId, call>>
      PROVE  OverlapInv'
  BY <1>3, <1>4 DEF Goto
<1>5. ASSUME NEW c \in Callers, NEW s \in Steps, Leave(c, s), UNCHANGED nextId PROVE OverlapInv'
  BY <1>3, <1>5 DEF Leave, Goto
<1>6. ASSUME NEW c \in Callers, Lock(c) \/ Advance(c) PROVE OverlapInv'
  BY <1>4, <1>5, <1>6 DEF Lock, Advance, AppendEvent, AppendShard, ReadDossier, TruncateDossier,
                          WriteDossier, StartHook, Return, Steps
<1>7. ASSUME NEW c \in Callers, Fails(c) PROVE OverlapInv'
  BY <1>4, <1>5, <1>7 DEF Fails, AppendFails, ShardFails, ReadFails, OpenFails, WriteFails, Steps
<1>8. CASE RunHook \/ Crash \/ Finished
  BY <1>3, <1>8 DEF RunHook, Crash, Finished, vars
<1> QED
  BY <1>2, <1>6, <1>7, <1>8 DEF LedgerStep, Next

\* The step that writes a dossier.
LEMMA WritingIsWrite ==
    ASSUME Writer, Next, NEW c \in Callers
    PROVE  Writing(c) <=> WriteDossier(c)
<1> USE DEF Writer, TypeOK, Writing
<1>1. WriteDossier(c) => Writing(c)
  BY DEF WriteDossier, Goto
<1>2. ASSUME Writing(c), ~WriteDossier(c) PROVE FALSE
  <2>1. ASSUME NEW d \in Callers, Call(d) \/ Lock(d) \/ Advance(d) PROVE FALSE
    BY <1>2, <2>1 DEF Call, Lock, Advance, AppendEvent, AppendShard, ReadDossier, TruncateDossier,
                      WriteDossier, StartHook, Return, Leave, Goto
  <2>2. ASSUME NEW d \in Callers, Fails(d) PROVE FALSE
    BY <1>2, <2>2 DEF Fails, AppendFails, ShardFails, ReadFails, OpenFails, WriteFails, Leave, Goto
  <2> QED
    BY <1>2, <2>1, <2>2 DEF Next, RunHook, Crash, Finished, vars
<1> QED
  BY <1>1, <1>2

LEMMA StampMoves ==
    ASSUME Writer, LedgerStep, NEW ip \in IPs
    PROVE  /\ (\A c \in Callers : WriteDossier(c) => call[c].ip # ip) => stamp'[ip] = stamp[ip]
           /\ \A c \in Callers : WriteDossier(c) /\ call[c].ip = ip => stamp'[ip] = Stamped(c)
<1>1. \A c \in Callers : Writing(c) <=> WriteDossier(c)
  BY WritingIsWrite DEF LedgerStep
<1>2. \A c, d \in Callers : Writing(c) /\ Writing(d) => c = d
  BY DEF Writing, Writer, Alone, Critical
<1>3. ASSUME NEW c \in Callers, Writing(c), call[c].ip = ip
      PROVE  (CHOOSE d \in Callers : Writing(d) /\ call[d].ip = ip) = c
  BY <1>2, <1>3
<1>4. stamp'[ip] = IF \E c \in Callers : Writing(c) /\ call[c].ip = ip
                   THEN Stamped(CHOOSE c \in Callers : Writing(c) /\ call[c].ip = ip)
                   ELSE stamp[ip]
  BY DEF LedgerStep
<1> QED
  BY <1>1, <1>3, <1>4

\* A dossier changes by being written, or folds nothing.
LEMMA DossierMoves ==
    ASSUME Writer, Next, NEW ip \in IPs
    PROVE  \/ dossier'[ip].folded \in {dossier[ip].folded, {}}
           \/ \E c \in Callers : WriteDossier(c) /\ call[c].ip = ip /\ dossier'[ip].folded \in {buf[c], {}}
<1> USE DEF Writer, TypeOK
<1>1. ASSUME NEW c \in Callers, WriteDossier(c)
      PROVE  \/ dossier'[ip].folded \in {dossier[ip].folded, {}}
             \/ WriteDossier(c) /\ call[c].ip = ip /\ dossier'[ip].folded \in {buf[c], {}}
  <2>1. PICK d \in Overwrite(dossier[call[c].ip], buf[c]) :
            dossier' = [dossier EXCEPT ![call[c].ip] = d]
    BY <1>1 DEF WriteDossier
  <2>2. d.folded = buf[c] \/ d.folded = {}
    BY <2>1, OverwriteFile
  <2> QED
    BY <1>1, <2>1, <2>2
<1>2. ASSUME NEW c \in Callers, WriteFails(c) PROVE dossier'[ip].folded \in {dossier[ip].folded, {}}
  <2>1. call[c].ip \in IPs
    BY DEF Record
  <2>2. PICK d \in FailedWrite(dossier[call[c].ip]) :
            dossier' = [dossier EXCEPT ![call[c].ip] = d]
    BY <1>2 DEF WriteFails
  <2>3. d.folded = dossier[call[c].ip].folded \/ d.folded = {}
    BY <2>1, <2>2, FailedWriteFile
  <2> QED
    BY <2>2, <2>3
<1>3. ASSUME NEW c \in Callers, TruncateDossier(c) PROVE dossier'[ip].folded \in {dossier[ip].folded, {}}
  BY <1>3 DEF TruncateDossier, EmptyDossier
<1>4. ASSUME ~ \E c \in Callers : WriteDossier(c) \/ WriteFails(c) \/ TruncateDossier(c)
      PROVE  dossier' = dossier
  BY <1>4 DEF Next, Advance, Fails, Finished, vars, RunHook, Crash, Call, Lock, AppendEvent, AppendFails,
     AppendShard, ShardFails, ReadDossier, ReadFails, OpenFails, StartHook, Return
<1> QED
  BY <1>1, <1>2, <1>3, <1>4

\* What was right of some records stays so while the dossier is not written.
LEMMA DatedStays ==
    ASSUME Writer, OverlapInv, LedgerStep, NEW ip \in IPs, NEW B, B \subseteq events.lines,
           Dated(B, ip), stamp'[ip] = stamp[ip]
    PROVE  Dated(B, ip)'
<1>1. \A r \in B : r.id < nextId /\ r.id \in Calls
  BY DEF Writer, Fresh, Numbered
<1>2. \A i \in Calls : i < nextId => overlap'[i] = overlap[i]
  BY DEF LedgerStep, OverlapInv, Calls, Writer, TypeOK
<1>3. nextId' >= nextId /\ nextId \in Nat /\ nextId' \in Nat
  BY DEF LedgerStep, Writer, TypeOK, Next, Advance, Fails, Finished, vars, RunHook, Crash, Call, Lock,
     AppendEvent, AppendFails, AppendShard, ShardFails, ReadDossier, ReadFails, TruncateDossier,
     OpenFails, WriteDossier, WriteFails, StartHook, Return
<1>4. /\ stamp[ip].first \in Calls /\ stamp[ip].first < nextId
      /\ overlap'[stamp[ip].first] = overlap[stamp[ip].first]
  BY <1>2 DEF Dated
<1>5. stamp[ip].first < nextId'
  BY <1>3, <1>4 DEF Calls
<1> QED
  BY <1>1, <1>2, <1>4, <1>5 DEF Dated

\* The dossier that is written is right about what it accounts for.
LEMMA DatedOnWrite ==
    ASSUME Writer, OverlapInv, StampInv, LedgerStep, NEW c \in Callers, WriteDossier(c),
           NEW ip \in IPs, ip = call[c].ip, NEW B, B = buf[c]
    PROVE  /\ stamp'[ip] \in [first : 0 .. MaxRecords, last : 0 .. MaxRecords, paths : Seq(AllPaths)]
           /\ Len(stamp'[ip].paths) <= PathCap
           /\ Dated(B, ip)'
<1> DEFINE k == call[c].id
           s == stamp[ip]
           old == IF B = {call[c]} THEN <<>> ELSE s.paths
<1>0. stamp'[ip] = Stamped(c)
  BY StampMoves
<1>1. /\ stamp'[ip] = Stamped(c) /\ pc[c] = "write" /\ UNCHANGED nextId /\ overlap' = overlap
  <2>1. pc[c] = "write" /\ nextId' = nextId
    BY DEF WriteDossier, Goto
  <2> QED
    BY <1>0, <2>1 DEF LedgerStep
<1>2. k \in Calls /\ k < nextId /\ PathOf[k] \in AllPaths /\ nextId \in Nat
  BY <1>1 DEF Writer, Numbered, Fresh, AllPaths, TypeOK
<1>3. s \in [first : 0 .. MaxRecords, last : 0 .. MaxRecords, paths : Seq(AllPaths)] /\ Len(s.paths) <= PathCap
  BY DEF StampInv
<1>4. old \in Seq(AllPaths) /\ Len(old) <= PathCap
  BY <1>3, ReadersAssumption
<1>5. Before(c) = IF B = {call[c]} THEN [first |-> k, last |-> k, paths |-> <<>>] ELSE s
  BY DEF Before
<1>6. /\ stamp'[ip].last = k
      /\ stamp'[ip].first = IF B = {call[c]} THEN k ELSE s.first
      /\ stamp'[ip].paths = CapSlice(AppendUnique(old, PathOf[k]))
      /\ stamp'[ip] = [first |-> stamp'[ip].first, last |-> k, paths |-> stamp'[ip].paths]
  <2>1. Before(c) \in [first : 0 .. MaxRecords, last : 0 .. MaxRecords, paths : Seq(AllPaths)]
    <3>1. k \in 0 .. MaxRecords /\ <<>> \in Seq(AllPaths)
      BY <1>2 DEF Calls
    <3> QED
      BY <1>3, <1>5, <3>1
  <2>2. Before(c).paths = old /\ Before(c).first = IF B = {call[c]} THEN k ELSE s.first
    BY <1>5
  <2>3. stamp'[ip] = [Before(c) EXCEPT !.last = k, !.paths = CapSlice(AppendUnique(@, PathOf[k]))]
    BY <1>1 DEF Stamped
  <2> HIDE DEF k, old, s
  <2> QED
    BY <2>1, <2>2, <2>3
<1>7. PICK t : t = stamp'[ip].paths
  OBVIOUS
<1>8. /\ t \in Seq(AllPaths) /\ Len(t) <= PathCap /\ PathOf[k] \in Range(t)
      /\ Len(old) = PathCap => Len(t) = PathCap
      /\ \A w \in Range(old) : w \in Range(t) \/ Len(t) = PathCap
  <2> HIDE DEF old, k
  <2> QED
    BY <1>2, <1>4, <1>6, <1>7, CapKeeps
<1>9. k \in 0 .. MaxRecords
  BY <1>2 DEF Calls
<1>10. \A r \in B : r \in events.lines /\ r.id \in Calls /\ r.id < nextId
  BY <1>1 DEF Writer, PrimaryInv, InFlightLogged, OfAddress, Critical, Fresh, Numbered
<1>11. \A i \in Calls : k < i /\ i < nextId => k \in overlap[i]
  BY <1>1 DEF OverlapInv
<1>12. CASE B = {call[c]}
  BY <1>1, <1>2, <1>6, <1>7, <1>8, <1>9, <1>12 DEF Dated, Calls
<1>13. CASE B # {call[c]}
  <2>1. Dated(B \ {call[c]}, ip)
    BY <1>1, <1>13 DEF StampInv
  <2>2. s.first \in Calls /\ s.first < nextId /\ stamp'[ip].first = s.first /\ old = s.paths
    BY <1>6, <1>13, <2>1 DEF Dated
  <2>3. ASSUME NEW r \in B
        PROVE  /\ r.id > k => k \in overlap[r.id]
               /\ r.id < s.first => r.id \in overlap[s.first]
               /\ PathOf[r.id] \notin Range(t) => Len(t) = PathCap
    <3>1. r.id > k => k \in overlap[r.id]
      BY <1>2, <1>10, <1>11 DEF Calls
    <3>2. r.id < s.first => r.id \in overlap[s.first]
      BY <1>11, <2>1, <2>2 DEF Dated
    <3>3. PathOf[r.id] \notin Range(t) => Len(t) = PathCap
      BY <1>8, <2>1, <2>2 DEF Dated
    <3> QED
      BY <3>1, <3>2, <3>3
  <2>4. Dated(B, ip)'
    BY <1>1, <1>2, <1>6, <1>7, <1>8, <2>2, <2>3 DEF Dated
  <2> QED
    BY <1>3, <1>6, <1>7, <1>8, <1>9, <2>2, <2>4
<1> QED
  BY <1>12, <1>13

\* What a caller about to truncate or to write holds is right too: it was just
\* read, or was so before.
LEMMA BufferMoves ==
    ASSUME Writer, Next, NEW c \in Callers, pc'[c] \in {"truncate", "write"}, buf'[c] # {call'[c]}
    PROVE  /\ call'[c] = call[c] /\ call[c].ip \in IPs /\ ~WriteDossier(c) /\ pc[c] \in Critical
           /\ \/ pc[c] \in {"truncate", "write"} /\ buf'[c] = buf[c]
              \/ /\ buf'[c] \ {call[c]} = dossier[call[c].ip].folded
                 /\ dossier[call[c].ip].folded # {}
<1> USE DEF Writer, TypeOK, Critical
<1>0. call[c].ip \in IPs
  BY DEF Record
<1>1. ASSUME ReadDossier(c)
      PROVE  /\ call'[c] = call[c] /\ pc[c] = "read"
             /\ buf'[c] \ {call[c]} = dossier[call[c].ip].folded /\ dossier[call[c].ip].folded # {}
  <2>1. buf'[c] = dossier[call[c].ip].folded \cup {call[c]} /\ call' = call /\ pc[c] = "read"
    BY <1>1 DEF ReadDossier, Goto
  <2>2. call[c] \notin dossier[call[c].ip].folded
    BY <2>1 DEF Updating
  <2> QED
    BY <2>1, <2>2
<1>2. ~ReadFails(c) /\ ~WriteDossier(c)
  BY DEF ReadFails, WriteDossier, Goto
<1>3. CASE ~ReadDossier(c)
  <2>1. pc[c] \in {"truncate", "write"} /\ buf'[c] = buf[c] /\ call'[c] = call[c]
    <3>1. ASSUME NEW d \in Callers, Call(d) \/ Lock(d) \/ Advance(d)
          PROVE  pc[c] \in {"truncate", "write"} /\ buf'[c] = buf[c] /\ call'[c] = call[c]
      BY <1>3, <3>1 DEF Call, Lock, Advance, AppendEvent, AppendShard, ReadDossier, TruncateDossier,
                        WriteDossier, StartHook, Return, Leave, Goto
    <3>2. ASSUME NEW d \in Callers, Fails(d)
          PROVE  pc[c] \in {"truncate", "write"} /\ buf'[c] = buf[c] /\ call'[c] = call[c]
      BY <1>2, <3>2 DEF Fails, AppendFails, ShardFails, ReadFails, OpenFails, WriteFails, Leave, Goto
    <3> QED
      BY <3>1, <3>2 DEF Next, RunHook, Crash, Finished, vars
  <2> QED
    BY <1>0, <1>2, <2>1
<1> QED
  BY <1>0, <1>1, <1>2, <1>3

LEMMA StampPreserves ==
    ASSUME Writer, OverlapInv, StampInv, LedgerStep
    PROVE  StampInv'
<1>0. Next
  BY DEF LedgerStep
<1>1. ASSUME NEW ip \in IPs
      PROVE  /\ stamp'[ip] \in [first : 0 .. MaxRecords, last : 0 .. MaxRecords, paths : Seq(AllPaths)]
             /\ Len(stamp'[ip].paths) <= PathCap
  <2>1. CASE \A c \in Callers : WriteDossier(c) => call[c].ip # ip
    BY <2>1, StampMoves DEF StampInv
  <2>2. ASSUME NEW c \in Callers, WriteDossier(c), call[c].ip = ip
        PROVE  /\ stamp'[ip] \in [first : 0 .. MaxRecords, last : 0 .. MaxRecords, paths : Seq(AllPaths)]
               /\ Len(stamp'[ip].paths) <= PathCap
    <3>1. PICK B : B = buf[c]
      OBVIOUS
    <3> QED
      BY <2>2, <3>1, DatedOnWrite
  <2> QED
    BY <2>1, <2>2
<1>2. ASSUME NEW ip \in IPs, dossier'[ip].folded # {}
      PROVE  (Dated(dossier[ip].folded, ip))'
  <2>1. CASE \E c \in Callers : WriteDossier(c) /\ call[c].ip = ip
    <3>1. PICK c \in Callers : WriteDossier(c) /\ call[c].ip = ip
      BY <2>1
    <3>2. PICK B : B = buf[c]
      OBVIOUS
    <3>3. Dated(B, ip)'
      BY <3>1, <3>2, DatedOnWrite
    <3>4. dossier'[ip].folded = B
      <4>1. \A d \in Callers : WriteDossier(d) => d = c
        BY <3>1 DEF WriteDossier, Goto, Writer, Alone, Critical
      <4>2. dossier' = [dossier EXCEPT ![ip] = dossier'[ip]]
             /\ dossier'[ip] \in Overwrite(dossier[ip], buf[c])
        BY <3>1 DEF WriteDossier, Writer, TypeOK
      <4>3. dossier'[ip].folded = buf[c] \/ dossier'[ip].folded = {}
        BY <4>2, OverwriteFile DEF Writer, TypeOK
      <4> QED
        BY <1>2, <3>2, <4>3
    <3> QED
      BY <3>3, <3>4 DEF Dated
  <2>2. CASE \A c \in Callers : WriteDossier(c) => call[c].ip # ip
    <3>1. dossier'[ip].folded = dossier[ip].folded /\ stamp'[ip] = stamp[ip]
      BY <1>0, <1>2, <2>2, DossierMoves, StampMoves
    <3>2. PICK B : B = dossier[ip].folded
      OBVIOUS
    <3>3. B \subseteq events.lines /\ Dated(B, ip)
      BY <1>2, <3>1, <3>2, FoundIsLogged DEF StampInv, OfAddress
    <3>4. Dated(B, ip)'
      BY <3>1, <3>3, DatedStays
    <3> QED
      BY <3>1, <3>2, <3>4 DEF Dated
  <2> QED
    BY <2>1, <2>2
<1>3. ASSUME NEW c \in Callers, pc'[c] \in {"truncate", "write"}, buf'[c] # {call'[c]}
      PROVE  (Dated(buf[c] \ {call[c]}, call[c].ip))'
  <2>1. /\ call'[c] = call[c] /\ call[c].ip \in IPs /\ ~WriteDossier(c) /\ pc[c] \in Critical
        /\ \/ pc[c] \in {"truncate", "write"} /\ buf'[c] = buf[c]
           \/ /\ buf'[c] \ {call[c]} = dossier[call[c].ip].folded
              /\ dossier[call[c].ip].folded # {}
    BY <1>0, <1>3, BufferMoves
  <2>2. PICK ip \in IPs : ip = call[c].ip
    BY <2>1
  <2>3. \A d \in Callers : ~WriteDossier(d)
    BY <2>1 DEF WriteDossier, Goto, Writer, Alone, Critical
  <2>4. stamp'[ip] = stamp[ip]
    BY <2>3, StampMoves
  <2>5. PICK B : B = buf'[c] \ {call[c]}
    OBVIOUS
  <2>6. B \subseteq events.lines /\ Dated(B, ip)
    <3>1. CASE pc[c] \in {"truncate", "write"} /\ buf'[c] = buf[c]
      <4>1. buf[c] # {call[c]}
        BY <1>3, <2>1, <3>1
      <4>2. Dated(buf[c] \ {call[c]}, ip)
        BY <2>2, <3>1, <4>1 DEF StampInv
      <4>3. B \subseteq events.lines
        BY <2>5, <3>1 DEF Writer, PrimaryInv, InFlightLogged, OfAddress
      <4> QED
        BY <2>5, <3>1, <4>2, <4>3
    <3>2. CASE buf'[c] \ {call[c]} = dossier[call[c].ip].folded /\ dossier[call[c].ip].folded # {}
      <4>1. dossier[ip].folded = B /\ dossier[ip].folded # {}
        BY <2>2, <2>5, <3>2
      <4>2. Dated(dossier[ip].folded, ip)
        BY <4>1 DEF StampInv
      <4>3. B \subseteq events.lines
        BY <4>1, FoundIsLogged DEF OfAddress
      <4> QED
        BY <4>1, <4>2, <4>3
    <3> QED
      BY <2>1, <3>1, <3>2
  <2>7. Dated(B, ip)'
    BY <2>4, <2>6, DatedStays
  <2> QED
    BY <2>1, <2>2, <2>5, <2>7 DEF Dated
<1>4. stamp' \in [IPs -> [first : 0 .. MaxRecords, last : 0 .. MaxRecords, paths : Seq(AllPaths)]]
  BY <1>1 DEF LedgerStep
<1> QED
  BY <1>1, <1>2, <1>3, <1>4 DEF StampInv

LEMMA StampInvariant == AllSpec => [](OverlapInv /\ StampInv)
<1>1. Writer /\ OverlapInv /\ StampInv /\ [AllNext]_allVars => OverlapInv' /\ StampInv'
  <2> SUFFICES ASSUME Writer, OverlapInv, StampInv, [AllNext]_allVars PROVE OverlapInv' /\ StampInv'
    OBVIOUS
  <2>1. CASE LedgerStep
    BY <2>1, OverlapPreserves, StampPreserves
  <2>2. CASE UNCHANGED <<vars, stamp, overlap>>
    BY <2>2 DEF vars, OverlapInv, StampInv, Dated
  <2> QED
    BY <2>1, <2>2 DEF AllNext, allVars, WatchStarts, WatchStat, WatchScan, WatchEnds, Exporting,
       ReadSubject, ReadTimeline, ReadAgain, WriteMarkdown, WriteSTIX, ExportFails, ExportStarts,
       ExportStep, BoardStarts, ReadDir, BoardShows, ListDossier, BoardStep
<1> QED
  BY <1>1, StampBegins, WriterInvariant, ReadersLeaveLedger, PTL DEF AllSpec

\* The dates of a dossier leave out only records whose calls overlapped, and its
\* lists drop an entry only when they are full.
THEOREM DossierIsNearlyRight == AllSpec => []DossierNearlyRight
<1>1. StampInv => DossierNearlyRight
  BY DEF StampInv, Dated, DossierNearlyRight
<1> QED
  BY <1>1, StampInvariant, PTL

-----------------------------------------------------------------------------
\* The summary.

Board ==
    [at : {"idle", "dir", "dossiers", "shown"}, recs : SUBSET Record, left : SUBSET IPs,
     list : [IPs -> SUBSET Record], last : [IPs -> 0 .. MaxRecords], hot : SUBSET IPs,
     busy : [IPs -> SUBSET Nat], torn : SUBSET IPs]

\* What the dossiers that were listed, or were not there, leave out of the events
\* read before; and what is shown of those listed.
BoardInv ==
    /\ board \in Board
    /\ IsFiniteSet(Listed)
    /\ board.recs \subseteq events.lines
    /\ board.at \in {"dossiers", "shown"} /\ faults = 0 =>
           \A ip \in IPs \ (board.left \cup board.torn) :
               \A r \in OfAddress(board.recs, ip) \ board.list[ip] : r.id \in board.busy[ip]
    /\ board.at \in {"idle", "dir"} => Listed = {}
    /\ board.at = "shown" => board.left = {} /\ (Listed \subseteq board.hot \/ Cardinality(board.hot) = HotLimit)

LEMMA BoardBegins == AllInit => BoardInv
<1> SUFFICES ASSUME AllInit PROVE BoardInv
  OBVIOUS
<1>1. board = NoBoard /\ events = EmptyFile
  BY DEF AllInit, Init
<1>2. NoBoard \in Board /\ NoBoard.at = "idle" /\ NoBoard.recs = {}
  BY LedgerAssumption DEF NoBoard, Board
<1>3. Listed = {}
  BY <1>1 DEF Listed, NoBoard
<1> QED
  BY <1>1, <1>2, <1>3, FS_EmptySet DEF BoardInv

\* A cut leaves everything, or is full.
LEMMA CutIsFull ==
    ASSUME NEW S, IsFiniteSet(S), NEW n \in Nat, NEW key, NEW T \in First(S, n, key)
    PROVE  T \subseteq S /\ IsFiniteSet(T) /\ (T = S \/ Cardinality(T) = n)
<1>1. T \in SUBSET S /\ Cardinality(T) = IF Cardinality(S) <= n THEN Cardinality(S) ELSE n
  BY DEF First
<1>2. IsFiniteSet(T) /\ (Cardinality(S) = Cardinality(T) => S = T) /\ Cardinality(S) \in Nat
  BY <1>1, FS_Subset, FS_CardinalityType
<1> QED
  BY <1>1, <1>2

LEMMA BoardCuts ==
    ASSUME IsFiniteSet(Listed), NEW new \in First(Listed, DossierLimit, board.last),
           NEW hot \in First(new, HotLimit, Heat)
    PROVE  hot \subseteq Listed /\ (Listed \subseteq hot \/ Cardinality(hot) = HotLimit)
<1>1. DossierLimit \in Nat /\ HotLimit \in Nat /\ HotLimit <= DossierLimit
  BY ReadersAssumption
<1>2. /\ new \subseteq Listed /\ IsFiniteSet(new)
      /\ new = Listed \/ Cardinality(new) = DossierLimit
  BY <1>1, CutIsFull
<1>3. hot \subseteq new /\ (hot = new \/ Cardinality(hot) = HotLimit)
  BY <1>1, <1>2, CutIsFull
<1>4. Cardinality(hot) = IF Cardinality(new) <= HotLimit THEN Cardinality(new) ELSE HotLimit
  BY DEF First
<1>5. new = Listed \/ Cardinality(hot) = HotLimit
  BY <1>1, <1>2, <1>4
<1> QED
  BY <1>2, <1>3, <1>5

\* The directory is read: a dossier that is not there leaves out what is busy.
LEMMA BoardReadsDir ==
    ASSUME Writer, BoardInv, ReadDir
    PROVE  BoardInv'
<1>1. PICK gone \in SUBSET {ip \in IPs : dossier[ip] = EmptyDossier} :
          board' = [board EXCEPT !.at = "dossiers", !.left = IPs \ gone,
                                 !.busy = [ip \in IPs |-> IF ip \in gone THEN InProgress ELSE {}],
                                 !.torn = {ip \in gone : Torn(ip)}]
  BY DEF ReadDir
<1>2. UNCHANGED vars /\ board.at = "dir"
  BY DEF ReadDir, BoardStep
<1>3. InProgress \in SUBSET Nat
  BY DEF InProgress, Writer, TypeOK, Record
<1>4. /\ board'.at = "dossiers" /\ board'.recs = board.recs /\ board'.left = IPs \ gone
      /\ board'.list = board.list /\ board'.torn = {ip \in gone : Torn(ip)}
      /\ board'.busy = [ip \in IPs |-> IF ip \in gone THEN InProgress ELSE {}]
      /\ board' \in Board
  BY <1>1, <1>3 DEF BoardInv, Board
<1>5. Listed' = Listed
  BY <1>4 DEF Listed
<1>6. ASSUME faults = 0, NEW ip \in IPs \ (board'.left \cup board'.torn), NEW r \in OfAddress(board.recs, ip)
      PROVE  r.id \in board'.busy[ip]
  <2>1. ip \in gone /\ ~Torn(ip) /\ board'.busy[ip] = InProgress
    BY <1>4, <1>6
  <2>2. r \notin dossier[ip].folded
    BY <1>1, <2>1 DEF EmptyDossier
  <2>3. r \in OfAddress(events.lines, ip)
    BY DEF BoardInv, OfAddress
  <2> QED
    BY <1>6, <2>1, <2>2, <2>3, ListedMissesBusy
<1> QED
  BY <1>2, <1>4, <1>5, <1>6 DEF BoardInv, vars

\* One dossier more is read.
LEMMA BoardLists ==
    ASSUME Writer, StampInv, BoardInv, NEW ip \in IPs, ListDossier(ip)
    PROVE  BoardInv'
<1>1. /\ board.at = "dossiers" /\ ip \in board.left /\ UNCHANGED vars
      /\ board' = [board EXCEPT !.left = @ \ {ip}, !.list[ip] = dossier[ip].folded,
                                !.last[ip] = stamp[ip].last, !.busy[ip] = InProgress,
                                !.torn = IF Torn(ip) THEN @ \cup {ip} ELSE @]
  BY DEF ListDossier, BoardStep
<1>2. dossier[ip].folded \in SUBSET Record /\ stamp[ip].last \in 0 .. MaxRecords
  BY FoundIsLogged DEF StampInv
<1>3. InProgress \in SUBSET Nat
  BY DEF InProgress, Writer, TypeOK, Record
<1>4. /\ board'.at = "dossiers" /\ board'.recs = board.recs /\ board'.left = board.left \ {ip}
      /\ board'.list = [board.list EXCEPT ![ip] = dossier[ip].folded]
      /\ board'.busy = [board.busy EXCEPT ![ip] = InProgress]
      /\ board'.torn = IF Torn(ip) THEN board.torn \cup {ip} ELSE board.torn
      /\ board' \in Board
  BY <1>1, <1>2, <1>3 DEF BoardInv, Board
<1>5. ASSUME faults = 0, NEW i \in IPs \ (board'.left \cup board'.torn),
             NEW r \in OfAddress(board.recs, i) \ board'.list[i]
      PROVE  r.id \in board'.busy[i]
  <2>1. CASE i # ip
    <3>1. i \notin board.left \cup board.torn /\ r \notin board.list[i] /\ board'.busy[i] = board.busy[i]
      BY <1>4, <1>5, <2>1 DEF BoardInv, Board
    <3> QED
      BY <1>1, <1>5, <2>1, <3>1 DEF BoardInv
  <2>2. CASE i = ip
    <3>1. ~Torn(ip) /\ r \notin dossier[ip].folded /\ board'.busy[ip] = InProgress
      BY <1>4, <1>5, <2>2 DEF BoardInv, Board
    <3>2. r \in OfAddress(events.lines, ip)
      BY <1>5, <2>2 DEF BoardInv, OfAddress
    <3> QED
      BY <1>5, <2>2, <3>1, <3>2, ListedMissesBusy
  <2> QED
    BY <2>1, <2>2
<1>6. IsFiniteSet(Listed')
  <2>1. Listed' \in SUBSET (Listed \cup {ip})
    BY <1>4 DEF Listed, BoardInv, Board
  <2> QED
    BY <2>1, FS_AddElement, FS_Subset DEF BoardInv
<1> QED
  BY <1>1, <1>4, <1>5, <1>6 DEF BoardInv, vars

LEMMA BoardPreserves ==
    ASSUME Writer, StampInv, BoardInv, [AllNext]_allVars
    PROVE  BoardInv'
<1>1. CASE BoardStarts
  <2>1. board' = [NoBoard EXCEPT !.at = "dir", !.recs = ListRecent(StatsLimit)] /\ UNCHANGED vars
    BY <1>1 DEF BoardStarts, BoardStep
  <2>2. ListRecent(StatsLimit) \in SUBSET Record /\ ListRecent(StatsLimit) \subseteq events.lines
    BY RecentIsLogged
  <2>3. NoBoard \in Board /\ NoBoard.list = [ip \in IPs |-> {}]
    BY LedgerAssumption DEF NoBoard, Board
  <2>4. /\ board' \in Board /\ board'.at = "dir" /\ board'.recs = ListRecent(StatsLimit)
        /\ board'.list = [ip \in IPs |-> {}]
    BY <2>1, <2>2, <2>3 DEF Board
  <2>5. Listed' = {}
    BY <2>4 DEF Listed
  <2> QED
    BY <2>1, <2>2, <2>4, <2>5, FS_EmptySet DEF BoardInv, vars
<1>2. CASE BoardShows
  <2>1. PICK new \in First(Listed, DossierLimit, board.last) : \E hot \in First(new, HotLimit, Heat) :
            board' = [board EXCEPT !.at = "shown", !.hot = hot]
    BY <1>2 DEF BoardShows
  <2>2. PICK hot \in First(new, HotLimit, Heat) : board' = [board EXCEPT !.at = "shown", !.hot = hot]
    BY <2>1
  <2>3. board.left = {} /\ UNCHANGED vars /\ board.at = "dossiers"
    BY <1>2 DEF BoardShows, BoardStep
  <2>4. hot \subseteq Listed /\ (Listed \subseteq hot \/ Cardinality(hot) = HotLimit) /\ Listed \subseteq IPs
    BY BoardCuts DEF BoardInv, Listed
  <2>5. /\ board'.at = "shown" /\ board'.recs = board.recs /\ board'.left = board.left
        /\ board'.list = board.list /\ board'.busy = board.busy /\ board'.torn = board.torn
        /\ board'.hot = hot /\ board' \in Board
    BY <2>2, <2>4 DEF BoardInv, Board
  <2>6. Listed' = Listed
    BY <2>5 DEF Listed
  <2> QED
    BY <2>3, <2>4, <2>5, <2>6 DEF BoardInv, vars
<1>3. ASSUME NEW ip \in IPs, ListDossier(ip) PROVE BoardInv'
  BY <1>3, BoardLists
<1>4. CASE ReadDir
  BY <1>4, BoardReadsDir
<1>5. ASSUME [Next]_vars, UNCHANGED board PROVE BoardInv'
  <2>1. events.lines \subseteq events'.lines /\ (faults' = 0 => faults = 0)
    BY <1>5, TrailGrows, AckedGrows DEF Writer
  <2>2. Listed' = Listed
    BY <1>5 DEF Listed
  <2> QED
    BY <1>5, <2>1, <2>2 DEF BoardInv
<1> QED
  BY <1>1, <1>2, <1>3, <1>4, <1>5 DEF AllNext, allVars, Exporting, LedgerStep, WatchStarts, WatchStat,
     WatchScan, WatchEnds, ReadSubject, ReadTimeline, ReadAgain, WriteMarkdown, WriteSTIX, ExportFails,
     ExportStarts, ExportStep

\* Unless something failed, a summary counts no hit that its dossiers leave out,
\* but those that were being recorded, and shows those dossiers until its list is
\* full.
THEOREM SummaryIsHonest == AllSpec => []BoardHonest
<1>1. BoardInv => BoardHonest
  <2> SUFFICES ASSUME BoardInv, board.at = "shown", faults = 0, NEW ip \in IPs \ board.torn,
                      NEW r \in OfAddress(board.recs, ip), r.id \notin board.busy[ip]
               PROVE  r \in board.list[ip] /\ (ip \in board.hot \/ Cardinality(board.hot) = HotLimit)
    BY DEF BoardHonest
  <2>1. r \in board.list[ip]
    BY DEF BoardInv
  <2>2. ip \in Listed
    BY <2>1 DEF Listed
  <2> QED
    BY <2>1, <2>2 DEF BoardInv
<1> QED
  BY <1>1, BoardBegins, BoardPreserves, StampInvariant, WriterInvariant, ReadersLeaveLedger, PTL DEF AllSpec
=============================================================================
