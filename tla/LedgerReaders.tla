---------------------------- MODULE LedgerReaders ----------------------------
(***************************************************************************)
(* Those who read the catch ledger while Records go on: catch/watch.go,    *)
(* query.go, export_ext.go and stats.go.  None of them takes Ledger.mu, and *)
(* most are other processes: "atde -mode watch" follows events.jsonl from  *)
(* where it ends; an abuse pack, made by the policy engine or by "atde     *)
(* -mode abuse", reads the dossier, then the events, then the dossier      *)
(* again, and writes two files; the summary of the console reads the       *)
(* events and then the dossiers.  Module CatchLedger is the writer.        *)
(*                                                                         *)
(* The module also follows what a dossier says besides its hits: FirstSeen *)
(* and LastSeen, and a list of bounded length, Paths, which stands for all *)
(* of them.  A record's CaughtAt is its number: it is taken before the     *)
(* lock.                                                                   *)
(*                                                                         *)
(* A scan of events.jsonl is one step: the file only grows, and a scan     *)
(* returns what it holds when the scan meets its end.  What is made of it  *)
(* is cut: to the last lines of the file, to the last of an address, to the *)
(* dossiers seen last and the most severe of those.                        *)
(*                                                                         *)
(* Left out: all daily shards but one, the sums of the summary, the other  *)
(* pages of the console, which are the same reads, and a file that         *)
(* shrinks, which nothing in the program makes.                            *)
(***************************************************************************)
EXTENDS CatchLedger, Sequences, Functions

CONSTANTS
    Exports,    \* the abuse packs that are made
    MaxKinds,   \* bound: how many of a watch, a summary and packs a behaviour has
    MaxMisses,  \* bound: evidence files that cannot be written
    PathOf,     \* PathOf[i]: the path of record i
    PathCap,    \* entries that a dossier keeps of Paths: 50 in the code
    SeverityOf, \* SeverityOf[i]: the severity of record i
    \* What is read of the ledger at once, in the code: 10000 and 2000 events, of
    RecentLimit, StatsLimit,           \* a timeline and a summary; 100
    TimelineLimit,                     \* events of the address of a timeline; 500
    DossierLimit, HotLimit             \* dossiers, and 15 that a summary shows

\* What a dossier is built from is followed for callers of one Ledger.
ASSUME ReadersAssumption ==
    /\ MaxKinds \in Nat /\ MaxMisses \in Nat /\ PathCap \in Nat \ {0}
    /\ DOMAIN PathOf = 1 .. MaxRecords
    /\ SeverityOf \in [1 .. MaxRecords -> Nat]
    /\ {RecentLimit, StatsLimit, TimelineLimit, DossierLimit, HotLimit} \subseteq Nat \ {0}
    /\ HotLimit <= DossierLimit
    /\ \A c, d \in Callers : LedgerOf[c] = LedgerOf[d]

VARIABLES
    stamp,    \* stamp[ip]: FirstSeen, LastSeen and Paths of the dossier of ip
    overlap,  \* ghost: overlap[i]: calls in progress when call i began
    before,   \* before[i]: the lines of events.jsonl before that of record i
    watch,    \* where the watch is
    offset,   \* its offset: the lines before it, and whether it is inside one
    size,     \* the size of the file as drainFrom saw it, likewise
    skipped,  \* ghost: the lines before the first offset
    shown,    \* shown[i]: how often the watch printed record i
    late,     \* ghost: records appended between a Stat and its scan
    export,   \* export[e]: how far pack e is and what it has read
    evidence, \* evidence[ip]: the hits the two files of ip account for
    misses,   \* evidence files that could not be written so far
    board     \* the summary: where it is and what it has read

watchVars  == <<watch, offset, size, skipped, shown, late>>
exportVars == <<export, evidence, misses>>
allVars    == <<vars, stamp, overlap, before, watchVars, exportVars, board>>

Calls == 1 .. MaxRecords

\* No file.  Every dossier that parses folds a record.
None == {}

\* A pack that was not asked for.  dossier, timeline, again: the three reads;
\* torn: ghost, a Record was between truncating and writing at a read of the dossier;
\* met: ghost, another pack of the same address was made at the same time.
NoPack == [at |-> "idle", ip |-> CHOOSE ip \in IPs : TRUE, known |-> FALSE,
           dossier |-> {}, timeline |-> {}, again |-> {}, torn |-> FALSE, met |-> FALSE]

\* No summary.  left: dossiers to be read; list: those read, last: their LastSeen;
\* hot: those it shows; busy: ghost, the calls in progress when a dossier was read
\* or was not there, torn: those then being written.
NoBoard == [at |-> "idle", recs |-> {}, left |-> {},
            list |-> [ip \in IPs |-> {}], last |-> [ip \in IPs |-> 0], hot |-> {},
            busy |-> [ip \in IPs |-> {}], torn |-> {}]

AllInit ==
    /\ Init
    /\ stamp = [ip \in IPs |-> [first |-> 0, last |-> 0, paths |-> <<>>]]
    /\ overlap = [i \in Calls |-> {}]
    /\ before = [i \in Calls |-> {}]
    /\ watch = "new"
    /\ offset = [lines |-> {}, open |-> FALSE] /\ size = [lines |-> {}, open |-> FALSE]
    /\ skipped = {}
    /\ shown = [i \in Calls |-> 0]
    /\ late = {}
    /\ export = [e \in Exports |-> NoPack]
    /\ evidence = [ip \in IPs |-> [md |-> None, stix |-> None]] /\ misses = 0
    /\ board = NoBoard

-----------------------------------------------------------------------------
\* The writer.

AppendUnique(s, v) == IF v \in Range(s) THEN s ELSE Append(s, v)

CapSlice(s) == IF Len(s) <= PathCap THEN s ELSE SubSeq(s, Len(s) - PathCap + 1, Len(s))

\* What upsertDossier has read: a dossier that is new begins with this record.
Before(c) ==
    IF buf[c] = {call[c]} THEN [first |-> call[c].id, last |-> call[c].id, paths |-> <<>>]
    ELSE stamp[call[c].ip]

\* Mutant: LastSeen is set where FirstSeen is.
StampedOnce(c) ==
    [Before(c) EXCEPT !.paths = CapSlice(AppendUnique(@, PathOf[call[c].id]))]

\* What it writes.
Stamped(c) ==
    [Before(c) EXCEPT !.last = call[c].id,
                      !.paths = CapSlice(AppendUnique(@, PathOf[call[c].id]))]

Writing(c) == pc[c] = "write" /\ pc'[c] = "hook"

\* The kinds of readers there have been.
Kinds ==
    {k \in {"watch", "board", "export"} :
        \/ k = "watch" /\ watch # "new"
        \/ k = "board" /\ board.at # "idle"
        \/ k = "export" /\ \E e \in Exports : export[e].at # "idle"}

May(kind) == Cardinality(Kinds \cup {kind}) <= MaxKinds

InProgress == {call[c].id : c \in {c \in Callers : pc[c] # "idle"}}

LedgerStep ==
    /\ Next
    /\ stamp' = [ip \in IPs |->
                    IF \E c \in Callers : Writing(c) /\ call[c].ip = ip
                    THEN Stamped(CHOOSE c \in Callers : Writing(c) /\ call[c].ip = ip)
                    ELSE stamp[ip]]
    /\ overlap' = IF nextId' # nextId THEN [overlap EXCEPT ![nextId] = InProgress] ELSE overlap
    /\ before' = [i \in Calls |-> IF \E r \in events'.lines \ events.lines : r.id = i
                                  THEN events.lines ELSE before[i]]
    /\ late' = IF watch = "scan" THEN late \cup (events'.lines \ events.lines) ELSE late
    /\ UNCHANGED <<watch, offset, size, skipped, shown, exportVars, board>>

-----------------------------------------------------------------------------
\* Watch and drainFrom.

Mark == [lines |-> events.lines, open |-> events.open]

WatchStarts ==
    /\ watch = "new" /\ May("watch")
    /\ watch' = "poll"
    /\ offset' = Mark
    /\ skipped' = events.lines
    /\ UNCHANGED <<vars, stamp, overlap, before, size, shown, late, exportVars, board>>

\* drainFrom opens the file and takes its size ...
WatchStat ==
    /\ watch = "poll"
    /\ watch' = "scan"
    /\ size' = Mark
    /\ UNCHANGED <<vars, stamp, overlap, before, offset, skipped, shown, late, exportVars, board>>

\* The records a scan from the offset may give: a line that does not parse from
\* its beginning may do so from the offset, if that is inside it.
Scanned ==
    LET new == events.lines \ offset.lines
    IN {new \ events.glued} \cup
           (IF offset.open THEN {(new \ events.glued) \cup {r} : r \in new \cap events.glued} ELSE {})

Prints(S) == shown' = [i \in Calls |-> shown[i] + (IF \E r \in S : r.id = i THEN 1 ELSE 0)]

\* Mutant: the size is taken after the scan.
WatchScanFirst ==
    /\ watch = "scan"
    /\ watch' = "poll"
    /\ \E S \in Scanned : Prints(S \cap size.lines)
    /\ offset' = Mark
    /\ UNCHANGED <<vars, stamp, overlap, before, size, skipped, late, exportVars, board>>

\* ... scans to where the file ends by then, and returns the size it took.
WatchScan ==
    /\ watch = "scan"
    /\ watch' = "poll"
    /\ \E S \in Scanned : Prints(S)
    /\ offset' = size
    /\ UNCHANGED <<vars, stamp, overlap, before, size, skipped, late, exportVars, board>>

\* A signal, or an output that is closed.
WatchEnds ==
    /\ watch = "poll"
    /\ watch' = "off"
    /\ UNCHANGED <<vars, stamp, overlap, before, offset, size, skipped, shown, late, exportVars, board>>

-----------------------------------------------------------------------------
\* ExportAbuseBundle.

\* Those of R, records of one file, that follow r in it.
After(r, R) == {t \in R : r \in before[t.id]}

\* The last n of them.
Last(R, n) == {r \in R : Cardinality(After(r, R)) < n}

\* The daily shard stands in for an audit trail without a record.
ListRecent(limit) ==
    Last(IF ReadJSONL(events) # {} THEN ReadJSONL(events) ELSE ReadJSONL(shard), limit)

ListByIP(ip) == Last(OfAddress(ListRecent(RecentLimit), ip), TimelineLimit)

ExportStep(e, from, to) ==
    /\ export[e].at = from
    /\ export' = [export EXCEPT ![e] = to]
    /\ UNCHANGED <<vars, stamp, overlap, before, misses, watchVars, board>>

\* GetDossier: a file that is missing or does not parse is an error.
Parses(ip) == dossier[ip].folded # {}

Torn(ip) == At("write", ip) # {}

\* The packs of ip that are being made.
Rivals(ip) == {e \in Exports : export[e].ip = ip /\ export[e].at \notin {"idle", "failed", "done"}}

\* The policy engine starts a goroutine for each, "atde -mode abuse" a process:
\* two packs of one address, whose files have the same names, may well meet.
ExportStarts(e, ip) ==
    /\ May("export")
    /\ export[e].at = "idle"
    /\ export' = [d \in Exports |->
           IF d = e THEN [NoPack EXCEPT !.at = "dossier", !.ip = ip, !.known = OfAddress(acked, ip) # {},
                                        !.met = Rivals(ip) # {}]
           ELSE IF d \in Rivals(ip) THEN [export[d] EXCEPT !.met = TRUE]
           ELSE export[d]]
    /\ UNCHANGED <<vars, stamp, overlap, before, misses, evidence, watchVars, board>>

\* ExportMarkdown reads the dossier ...
ReadSubject(e) ==
    LET x == export[e] IN
    /\ ExportStep(e, "dossier",
           [x EXCEPT !.at = IF Parses(x.ip) THEN "events" ELSE "failed",
                     !.dossier = dossier[x.ip].folded, !.torn = Torn(x.ip)])
    /\ UNCHANGED evidence

\* ... and then ListByIP reads the events.
ReadTimeline(e) ==
    LET x == export[e] IN
    /\ ExportStep(e, "events", [x EXCEPT !.at = "stix", !.timeline = ListByIP(x.ip)])
    /\ UNCHANGED evidence

\* Mutant: the dossier is read once for both files, after the events.
ReadOnce(e) ==
    LET x == export[e] IN
    /\ ExportStep(e, "stix",
           [x EXCEPT !.at = IF Parses(x.ip) THEN "markdown" ELSE "failed",
                     !.dossier = dossier[x.ip].folded, !.again = dossier[x.ip].folded,
                     !.torn = @ \/ Torn(x.ip)])
    /\ UNCHANGED evidence

\* ExportSTIX reads the dossier once more.
ReadAgain(e) ==
    LET x == export[e] IN
    /\ ExportStep(e, "stix",
           [x EXCEPT !.at = IF Parses(x.ip) THEN "markdown" ELSE "failed",
                     !.again = dossier[x.ip].folded, !.torn = @ \/ Torn(x.ip)])
    /\ UNCHANGED evidence

WriteMarkdown(e) ==
    LET x == export[e] IN
    /\ ExportStep(e, "markdown", [x EXCEPT !.at = "observed"])
    /\ evidence' = [evidence EXCEPT ![x.ip].md = x.dossier]

\* Mutant: a STIX file of the address that is there is kept.
WriteSTIXOnce(e) ==
    LET x == export[e] IN
    /\ ExportStep(e, "observed", [x EXCEPT !.at = "done"])
    /\ evidence' = [evidence EXCEPT ![x.ip].stix = IF @ = None THEN x.again ELSE @]

WriteSTIX(e) ==
    LET x == export[e] IN
    /\ ExportStep(e, "observed", [x EXCEPT !.at = "done"])
    /\ evidence' = [evidence EXCEPT ![x.ip].stix = x.again]

\* WriteFile fails, and may leave the file without its text.
ExportFails(e) ==
    LET x == export[e] IN
    /\ misses < MaxMisses /\ misses' = misses + 1
    /\ x.at \in {"markdown", "observed"}
    /\ export' = [export EXCEPT ![e].at = "failed"]
    /\ evidence' \in {evidence, [evidence EXCEPT ![x.ip] =
                          IF x.at = "markdown" THEN [@ EXCEPT !.md = None] ELSE [@ EXCEPT !.stix = None]]}
    /\ UNCHANGED <<vars, stamp, overlap, before, watchVars, board>>

Exporting(e) ==
    \/ ReadSubject(e) \/ ReadTimeline(e) \/ ReadAgain(e)
    \/ WriteMarkdown(e) \/ WriteSTIX(e) \/ ExportFails(e)

-----------------------------------------------------------------------------
\* BuildStats, for a request of the console.

BoardStep == UNCHANGED <<vars, stamp, overlap, before, watchVars, exportVars>>

BoardStarts ==
    /\ May("board") /\ board.at = "idle"
    /\ board' = [NoBoard EXCEPT !.at = "dir", !.recs = ListRecent(StatsLimit)]
    /\ BoardStep

\* ListDossiers takes the names of the files there are: one without text may be
\* missing ...
ReadDir ==
    /\ board.at = "dir"
    /\ \E gone \in SUBSET {ip \in IPs : dossier[ip] = EmptyDossier} :
          board' = [board EXCEPT !.at = "dossiers", !.left = IPs \ gone,
                                 !.busy = [ip \in IPs |-> IF ip \in gone THEN InProgress ELSE {}],
                                 !.torn = {ip \in gone : Torn(ip)}]
    /\ BoardStep

\* ... and reads one after the other, but lists none that does not parse.
ListDossier(ip) ==
    /\ board.at = "dossiers" /\ ip \in board.left
    /\ board' = [board EXCEPT !.left = @ \ {ip}, !.list[ip] = dossier[ip].folded,
                              !.last[ip] = stamp[ip].last, !.busy[ip] = InProgress,
                              !.torn = IF Torn(ip) THEN @ \cup {ip} ELSE @]
    /\ BoardStep

Listed == {ip \in IPs : board.list[ip] # {}}

\* What sorting S by falling key and cutting it to n may leave: sort.Slice is
\* free to order what is equal.
First(S, n, key) ==
    {T \in SUBSET S : /\ Cardinality(T) = IF Cardinality(S) <= n THEN Cardinality(S) ELSE n
                      /\ \A s \in S \ T, t \in T : key[s] <= key[t]}

MaxSeverity(ip) ==
    CHOOSE m \in {SeverityOf[r.id] : r \in board.list[ip]} :
        \A r \in board.list[ip] : SeverityOf[r.id] <= m

\* MaxSeverity, and HitCount among those of equal severity.
Heat == [ip \in Listed |-> MaxSeverity(ip) * (MaxRecords + 1) + Cardinality(board.list[ip])]

\* Mutant: the events are read after the dossiers.
BoardShowsLatest ==
    /\ board.at = "dossiers" /\ board.left = {}
    /\ \E new \in First(Listed, DossierLimit, board.last) : \E hot \in First(new, HotLimit, Heat) :
          board' = [board EXCEPT !.at = "shown", !.recs = ListRecent(StatsLimit), !.hot = hot]
    /\ BoardStep

\* ListDossiers cuts to those seen last, BuildStats to the hottest of them.
BoardShows ==
    /\ board.at = "dossiers" /\ board.left = {}
    /\ \E new \in First(Listed, DossierLimit, board.last) : \E hot \in First(new, HotLimit, Heat) :
          board' = [board EXCEPT !.at = "shown", !.hot = hot]
    /\ BoardStep

-----------------------------------------------------------------------------
AllNext ==
    \/ LedgerStep
    \/ WatchStarts \/ WatchStat \/ WatchScan \/ WatchEnds
    \/ \E e \in Exports : Exporting(e) \/ \E ip \in IPs : ExportStarts(e, ip)
    \/ BoardStarts \/ ReadDir \/ BoardShows \/ \E ip \in IPs : ListDossier(ip)

AllSpec == AllInit /\ [][AllNext]_allVars

-----------------------------------------------------------------------------
\* A watch misses no record that a reader of the file could be given: whatever
\* is appended between its polls, while it polls or next to debris, its offset
\* never passes a record that it did not print.  For that it prints some twice,
\* but only such as were appended between the Stat and the scan of one poll.
WatchComplete ==
    /\ \A r \in (offset.lines \cap ReadJSONL(events)) \ skipped : shown[r.id] > 0
    /\ \A r \in events.lines : shown[r.id] > 1 => r \in late /\ shown[r.id] = 2

\* Too many records of the file, or of its address, follow r for a timeline.
Overtaken(r) ==
    \/ Cardinality(After(r, ReadJSONL(events))) >= RecentLimit
    \/ Cardinality(After(r, OfAddress(ReadJSONL(events), r.ip))) >= TimelineLimit

\* The hits of a pack that its timeline should list and does not.
Missing(x) == {r \in x.dossier \ x.timeline : ~Overtaken(r)}

\* A pack of an address the ledger knows fails only if one of its reads fell
\* between the truncation and the write of a Record, or something failed.
\* Otherwise its Markdown counts no hit that its own timeline does not list, but
\* for one per failure and for hits with a whole timeline, or a whole scan, behind
\* them, and, unless something failed, none that its STIX does not count: the three
\* reads come in the order of Record's writes, the other way round.  So do the two
\* files of an address, between packs, as long as no two packs of it met: those
\* write the same files, and may leave one file each.
PackConsistent ==
    /\ \A e \in Exports :
           LET x == export[e] IN
           /\ x.at = "failed" /\ x.known => x.torn \/ faults + misses > 0
           /\ x.at \in {"stix", "markdown", "observed", "done"} =>
                  Cardinality(Missing(x)) <= faults
           /\ x.at \in {"markdown", "observed", "done"} /\ faults = 0 =>
                  x.dossier \subseteq x.again
    /\ \A ip \in IPs :
           /\ faults + misses = 0
           /\ \A e \in Exports : export[e].ip = ip => export[e].at # "observed" /\ ~export[e].met
           => evidence[ip].md \subseteq evidence[ip].stix

\* Unless something failed, every hit that a summary counts is in a dossier it
\* shows, if it has room for one more, or else in one it has read: but for hits
\* whose Record was not over when the dossier was read, or was not there yet, and
\* for an address whose dossier was just being written.
BoardHonest ==
    board.at = "shown" /\ faults = 0 =>
        \A ip \in IPs \ board.torn : \A r \in OfAddress(board.recs, ip) :
            \/ r.id \in board.busy[ip]
            \/ r \in board.list[ip] /\ (ip \in board.hot \/ Cardinality(board.hot) = HotLimit)

\* FirstSeen and LastSeen of a dossier, and with them the period of observation
\* that a pack states, leave out a record it counts only if its Record overlapped
\* the one the date is taken from.  CaughtAt is taken before the lock, so LastSeen
\* may well lie before FirstSeen.  And of a list that is cut an entry is only ever
\* missing while the list is full, and never the one of the record written last.
DossierNearlyRight ==
    \A ip \in IPs :
        /\ \A r \in dossier[ip].folded :
               /\ r.id > stamp[ip].last => stamp[ip].last \in overlap[r.id]
               /\ r.id < stamp[ip].first => r.id \in overlap[stamp[ip].first]
               /\ PathOf[r.id] \notin Range(stamp[ip].paths) => Len(stamp[ip].paths) = PathCap
        /\ dossier[ip].folded # {} => PathOf[stamp[ip].last] \in Range(stamp[ip].paths)
=============================================================================
