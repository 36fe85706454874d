------------------------- MODULE CatchLedgerProofs -------------------------
(***************************************************************************)
(* Theorems about CatchLedger, for every number of callers, Ledger values, *)
(* addresses and failures.                                                 *)
(***************************************************************************)
EXTENDS CatchLedger, FiniteSetTheorems, TLAPS

\* A caller past its append has its record in the audit trail, and the dossier
\* it is about to write folds events of that address only.
InFlightLogged ==
    \A c \in Callers :
        /\ pc[c] \in Critical \ {"append"} => call[c] \in events.lines
        /\ pc[c] \in {"truncate", "write"} =>
              buf[c] \subseteq OfAddress(events.lines, call[c].ip)

\* A caller between the lock and the return holds the mutex of its Ledger value.
LockHeld == \A c \in Callers : pc[c] \in Critical => mu[LedgerOf[c]] = c

\* What an append that failed leaves is a file with the same records.
LEMMA FailedAppendFile ==
    ASSUME NEW f \in File, NEW g \in FailedAppend(f)
    PROVE  g \in File /\ g.lines = f.lines /\ g.glued = f.glued
<1>1. CASE g = f
  BY <1>1 DEF File
<1>2. CASE g = [f EXCEPT !.open = TRUE]
  BY <1>2 DEF File
<1> QED
  BY <1>1, <1>2 DEF FailedAppend

\* Overwriting a dossier leaves the new dossier, or a file that folds nothing.
LEMMA OverwriteFile ==
    ASSUME NEW old, NEW new \in SUBSET Record, NEW d \in Overwrite(old, new)
    PROVE  d \in DossierFile /\ (d.folded = new \/ d.folded = {})
<1>1. CASE d = [folded |-> new, text |-> TRUE]
  BY <1>1 DEF DossierFile
<1>2. CASE d = [folded |-> {}, text |-> TRUE]
  BY <1>2 DEF DossierFile
<1>3. CASE old.text
  BY <1>1, <1>2, <1>3 DEF Overwrite
<1>4. CASE ~old.text
  BY <1>1, <1>4 DEF Overwrite
<1> QED
  BY <1>3, <1>4

\* A failed write leaves the file as it was, or one that folds nothing.
LEMMA FailedWriteFile ==
    ASSUME NEW old \in DossierFile, NEW d \in FailedWrite(old)
    PROVE  d \in DossierFile /\ (d.folded = old.folded \/ d.folded = {})
<1>1. CASE d = old
  BY <1>1
<1>2. CASE d = [folded |-> {}, text |-> TRUE]
  BY <1>2 DEF DossierFile
<1> QED
  BY <1>1, <1>2 DEF FailedWrite

\* The locals and files of Record are well typed.
THEOREM TypeCorrect == Spec => []TypeOK
<1> USE LedgerAssumption
<1>1. NoCall \in Record
  BY DEF NoCall, Record
<1>2. Init => TypeOK
  BY <1>1 DEF Init, TypeOK, Steps, EmptyFile, File, EmptyDossier, DossierFile
<1>3. TypeOK /\ [Next]_vars => TypeOK'
  <2> SUFFICES ASSUME TypeOK, [Next]_vars PROVE TypeOK'
    OBVIOUS
  <2> USE <1>1 DEF TypeOK, Steps
  <2>1. ASSUME NEW c \in Callers, Call(c) PROVE TypeOK'
    BY <2>1 DEF Call, Goto, Record
  <2>2. ASSUME NEW c \in Callers, Lock(c) PROVE TypeOK'
    BY <2>2 DEF Lock, Goto
  <2>3. ASSUME NEW c \in Callers, AppendEvent(c) PROVE TypeOK'
    BY <2>3 DEF AppendEvent, Goto, AppendLine, File
  <2>4. ASSUME NEW c \in Callers, AppendFails(c) PROVE TypeOK'
    <3>1. events' \in File
      BY <2>4, FailedAppendFile DEF AppendFails
    <3> QED
      BY <2>4, <3>1 DEF AppendFails, Leave, Goto, Fault
  <2>5. ASSUME NEW c \in Callers, AppendShard(c) PROVE TypeOK'
    BY <2>5 DEF AppendShard, Goto, AppendLine, File
  <2>6. ASSUME NEW c \in Callers, ShardFails(c) PROVE TypeOK'
    <3>1. shard' \in File
      BY <2>6, FailedAppendFile DEF ShardFails
    <3> QED
      BY <2>6, <3>1 DEF ShardFails, Goto, Fault
  <2>7. ASSUME NEW c \in Callers, ReadDossier(c) PROVE TypeOK'
    <3>1. call[c].ip \in IPs
      BY DEF Record
    <3>2. dossier[call[c].ip].folded \subseteq Record
      BY <3>1 DEF DossierFile
    <3> QED
      BY <2>7, <3>2 DEF ReadDossier, Goto
  <2>8. ASSUME NEW c \in Callers, ReadFails(c) PROVE TypeOK'
    BY <2>8 DEF ReadFails, Goto, Fault
  <2>9. ASSUME NEW c \in Callers, TruncateDossier(c) PROVE TypeOK'
    BY <2>9 DEF TruncateDossier, Goto, EmptyDossier, DossierFile
  <2>10. ASSUME NEW c \in Callers, OpenFails(c) PROVE TypeOK'
    BY <2>10 DEF OpenFails, Leave, Goto, Fault
  <2>11. ASSUME NEW c \in Callers, WriteDossier(c) PROVE TypeOK'
    <3>1. PICK d \in Overwrite(dossier[call[c].ip], buf[c]) :
              dossier' = [dossier EXCEPT ![call[c].ip] = d]
      BY <2>11 DEF WriteDossier
    <3>2. d \in DossierFile
      BY <3>1, OverwriteFile
    <3>3. dossier' \in [IPs -> DossierFile]
      BY <3>1, <3>2
    <3> QED
      BY <2>11, <3>3 DEF WriteDossier, Goto
  <2>12. ASSUME NEW c \in Callers, WriteFails(c) PROVE TypeOK'
    <3>1. call[c].ip \in IPs
      BY DEF Record
    <3>2. PICK d \in FailedWrite(dossier[call[c].ip]) :
              dossier' = [dossier EXCEPT ![call[c].ip] = d]
      BY <2>12 DEF WriteFails
    <3>3. d \in DossierFile
      BY <3>1, <3>2, FailedWriteFile
    <3>4. dossier' \in [IPs -> DossierFile]
      BY <3>2, <3>3
    <3> QED
      BY <2>12, <3>4 DEF WriteFails, Leave, Goto, Fault
  <2>13. ASSUME NEW c \in Callers, Return(c) PROVE TypeOK'
    BY <2>13 DEF Return, Leave, Goto
  <2>14. CASE RunHook
    BY <2>14 DEF RunHook
  <2>15. CASE Crash
    BY <2>15 DEF Crash, Fault
  <2>16. CASE UNCHANGED vars
    BY <2>16 DEF vars
  <2>17. ASSUME NEW c \in Callers, StartHook(c) PROVE TypeOK'
    BY <2>17 DEF StartHook, Goto
  <2> QED
    BY <2>1, <2>2, <2>3, <2>4, <2>5, <2>6, <2>7, <2>8, <2>9, <2>10, <2>11, <2>12,
       <2>13, <2>14, <2>15, <2>16, <2>17 DEF Next, Advance, Fails, Finished
<1> QED
  BY <1>2, <1>3, PTL DEF Spec

-----------------------------------------------------------------------------
\* The inductive invariant behind AuditIsPrimary: what a caller holds in
\* memory is in the audit trail too.
PrimaryInv == AuditIsPrimary /\ InFlightLogged

LEMMA PrimaryInvariant == Spec => []PrimaryInv
<1> USE LedgerAssumption
<1>1. Init => PrimaryInv
  BY DEF Init, PrimaryInv, AuditIsPrimary, InFlightLogged, EmptyFile, EmptyDossier, OfAddress, Critical
<1>2. TypeOK /\ PrimaryInv /\ [Next]_vars => PrimaryInv'
  <2> SUFFICES ASSUME TypeOK, PrimaryInv, [Next]_vars PROVE PrimaryInv'
    OBVIOUS
  <2> USE DEF PrimaryInv, AuditIsPrimary, InFlightLogged, OfAddress, Critical, TypeOK
  <2>1. ASSUME NEW c \in Callers, Call(c) PROVE PrimaryInv'
    BY <2>1 DEF Call, Goto
  <2>2. ASSUME NEW c \in Callers, Lock(c) PROVE PrimaryInv'
    BY <2>2 DEF Lock, Goto
  <2>3. ASSUME NEW c \in Callers, AppendEvent(c) PROVE PrimaryInv'
    <3>1. events'.lines = events.lines \cup {call[c]}
      BY <2>3 DEF AppendEvent, AppendLine
    <3> QED
      BY <2>3, <3>1 DEF AppendEvent, Goto
  <2>4. ASSUME NEW c \in Callers, AppendFails(c) PROVE PrimaryInv'
    <3>1. events'.lines = events.lines
      BY <2>4, FailedAppendFile DEF AppendFails
    <3> QED
      BY <2>4, <3>1 DEF AppendFails, Leave, Goto
  <2>5. ASSUME NEW c \in Callers, AppendShard(c) PROVE PrimaryInv'
    <3>1. shard'.lines = shard.lines \cup {call[c]}
      BY <2>5 DEF AppendShard, AppendLine
    <3> QED
      BY <2>5, <3>1 DEF AppendShard, Goto
  <2>6. ASSUME NEW c \in Callers, ShardFails(c) PROVE PrimaryInv'
    <3>1. shard'.lines = shard.lines
      BY <2>6, FailedAppendFile DEF ShardFails
    <3> QED
      BY <2>6, <3>1 DEF ShardFails, Goto
  <2>7. ASSUME NEW c \in Callers, ReadDossier(c) PROVE PrimaryInv'
    <3>1. call[c].ip \in IPs
      BY DEF Record
    <3>2. dossier[call[c].ip].folded \cup {call[c]} \subseteq OfAddress(events.lines, call[c].ip)
      BY <2>7, <3>1 DEF ReadDossier, Goto
    <3> QED
      BY <2>7, <3>2 DEF ReadDossier, Goto
  <2>8. ASSUME NEW c \in Callers, ReadFails(c) PROVE PrimaryInv'
    BY <2>8 DEF ReadFails, Goto
  <2>9. ASSUME NEW c \in Callers, TruncateDossier(c) PROVE PrimaryInv'
    BY <2>9 DEF TruncateDossier, Goto, EmptyDossier
  <2>10. ASSUME NEW c \in Callers, OpenFails(c) PROVE PrimaryInv'
    BY <2>10 DEF OpenFails, Leave, Goto
  <2>11. ASSUME NEW c \in Callers, WriteDossier(c) PROVE PrimaryInv'
    <3>1. PICK d \in Overwrite(dossier[call[c].ip], buf[c]) :
              dossier' = [dossier EXCEPT ![call[c].ip] = d]
      BY <2>11 DEF WriteDossier
    <3>2. d.folded = buf[c] \/ d.folded = {}
      BY <3>1, OverwriteFile
    <3> QED
      BY <2>11, <3>1, <3>2 DEF WriteDossier, Goto
  <2>12. ASSUME NEW c \in Callers, WriteFails(c) PROVE PrimaryInv'
    <3>1. call[c].ip \in IPs
      BY DEF Record
    <3>2. PICK d \in FailedWrite(dossier[call[c].ip]) :
              dossier' = [dossier EXCEPT ![call[c].ip] = d]
      BY <2>12 DEF WriteFails
    <3>3. d.folded = dossier[call[c].ip].folded \/ d.folded = {}
      BY <3>1, <3>2, FailedWriteFile
    <3> QED
      BY <2>12, <3>1, <3>2, <3>3 DEF WriteFails, Leave, Goto
  <2>13. ASSUME NEW c \in Callers, Return(c) PROVE PrimaryInv'
    BY <2>13 DEF Return, Leave, Goto
  <2>14. CASE RunHook
    BY <2>14 DEF RunHook
  <2>15. CASE Crash
    BY <2>15 DEF Crash
  <2>16. CASE UNCHANGED vars
    BY <2>16 DEF vars
  <2>17. ASSUME NEW c \in Callers, StartHook(c) PROVE PrimaryInv'
    BY <2>17 DEF StartHook, Goto
  <2> QED
    BY <2>1, <2>2, <2>3, <2>4, <2>5, <2>6, <2>7, <2>8, <2>9, <2>10, <2>11, <2>12,
       <2>13, <2>14, <2>15, <2>16, <2>17 DEF Next, Advance, Fails, Finished
<1> QED
  BY <1>1, <1>2, TypeCorrect, PTL DEF Spec

\* Nothing derived mentions an event that events.jsonl does not hold.
THEOREM PrimaryAudit == Spec => []AuditIsPrimary
BY PrimaryInvariant, PTL DEF PrimaryInv

\* The mutex of a Ledger value is held from the lock to the return.
LEMMA MutexHeld == Spec => []LockHeld
<1> USE LedgerAssumption
<1>1. Init => LockHeld
  BY DEF Init, LockHeld, Critical
<1>2. TypeOK /\ LockHeld /\ [Next]_vars => LockHeld'
  <2> SUFFICES ASSUME TypeOK, LockHeld, [Next]_vars PROVE LockHeld'
    OBVIOUS
  <2> USE DEF LockHeld, Critical, TypeOK
  <2>1. ASSUME NEW c \in Callers, Call(c) PROVE LockHeld'
    BY <2>1 DEF Call, Goto
  <2>2. ASSUME NEW c \in Callers, Lock(c) PROVE LockHeld'
    BY <2>2 DEF Lock, Goto
  <2>3. ASSUME NEW c \in Callers, NEW s, Leave(c, s), s \in Critical PROVE LockHeld'
    BY <2>3 DEF Leave, Goto
  <2>4. ASSUME NEW c \in Callers, NEW s, NEW t \in Critical, s \in Critical, Goto(c, s, t),
               UNCHANGED mu
        PROVE  LockHeld'
    BY <2>4 DEF Goto
  <2>5. CASE Crash
    BY <2>5 DEF Crash
  <2>6. CASE UNCHANGED <<pc, mu>>
    BY <2>6
  <2>7. ASSUME NEW c \in Callers, Advance(c) PROVE LockHeld'
    BY <2>3, <2>4, <2>7 DEF Advance, AppendEvent, AppendShard, ReadDossier, TruncateDossier,
       WriteDossier, StartHook, Return
  <2>8. ASSUME NEW c \in Callers, Fails(c) PROVE LockHeld'
    BY <2>3, <2>4, <2>8 DEF Fails, AppendFails, ShardFails, ReadFails, OpenFails, WriteFails
  <2> QED
    BY <2>1, <2>2, <2>5, <2>6, <2>7, <2>8 DEF Next, Finished, vars, RunHook
<1> QED
  BY <1>1, <1>2, TypeCorrect, PTL DEF Spec

-----------------------------------------------------------------------------
\* The lines that do not parse, and the debris the next one will be glued to:
\* each was paid for with a failure.
LossInv ==
    /\ IsFiniteSet(events.glued)
    /\ Cardinality(events.glued) + (IF events.open THEN 1 ELSE 0) <= faults

\* Appending a line spends the debris, if there is any, on that line.
LEMMA AppendLinePays ==
    ASSUME NEW f \in File, NEW r, IsFiniteSet(f.glued)
    PROVE  /\ IsFiniteSet(AppendLine(f, r).glued)
           /\ ~AppendLine(f, r).open
           /\ Cardinality(AppendLine(f, r).glued)
                  <= Cardinality(f.glued) + (IF f.open THEN 1 ELSE 0)
<1>1. CASE f.open
  <2>1. AppendLine(f, r).glued = f.glued \cup {r} /\ ~AppendLine(f, r).open
    BY <1>1 DEF AppendLine
  <2>2. /\ IsFiniteSet(f.glued \cup {r})
        /\ Cardinality(f.glued \cup {r}) =
              IF r \in f.glued THEN Cardinality(f.glued) ELSE Cardinality(f.glued) + 1
    BY FS_AddElement
  <2>3. Cardinality(f.glued) \in Nat
    BY FS_CardinalityType
  <2> QED
    BY <1>1, <2>1, <2>2, <2>3
<1>2. CASE ~f.open
  BY <1>2, FS_CardinalityType DEF AppendLine
<1> QED
  BY <1>1, <1>2 DEF File

\* A failed append leaves at most one piece of debris at the end of the file.
LEMMA FailedAppendPays ==
    ASSUME NEW f \in File, NEW g \in FailedAppend(f), IsFiniteSet(f.glued)
    PROVE  /\ g.glued = f.glued
           /\ Cardinality(g.glued) + (IF g.open THEN 1 ELSE 0)
                  <= Cardinality(f.glued) + (IF f.open THEN 1 ELSE 0) + 1
<1>1. g.glued = f.glued /\ Cardinality(f.glued) \in Nat
  BY FailedAppendFile, FS_CardinalityType
<1> QED
  BY <1>1 DEF File

LEMMA LossInvariant == Spec => []LossInv
<1>1. Init => LossInv
  BY FS_EmptySet DEF Init, LossInv, EmptyFile
<1>2. TypeOK /\ LossInv /\ [Next]_vars => LossInv'
  <2> SUFFICES ASSUME TypeOK, LossInv, [Next]_vars PROVE LossInv'
    OBVIOUS
  <2> USE DEF LossInv
  <2>0. /\ events \in File /\ faults \in Nat /\ Cardinality(events.glued) \in Nat
        /\ IsFiniteSet(events.glued)
    BY FS_CardinalityType DEF TypeOK
  <2>1. ASSUME NEW c \in Callers, AppendEvent(c) PROVE LossInv'
    <3>1. events' = AppendLine(events, call[c]) /\ faults' = faults
      BY <2>1 DEF AppendEvent
    <3> QED
      BY <2>0, <3>1, AppendLinePays, FS_CardinalityType
  <2>2. ASSUME NEW c \in Callers, AppendFails(c) PROVE LossInv'
    <3>1. events' \in FailedAppend(events) /\ faults' = faults + 1
      BY <2>2 DEF AppendFails, Fault
    <3> QED
      BY <2>0, <3>1, FailedAppendPays
  <2>3. ASSUME events' = events, faults' = faults \/ faults' = faults + 1 PROVE LossInv'
    BY <2>0, <2>3
  <2> QED
    BY <2>1, <2>2, <2>3 DEF Next, Advance, Fails, Finished, vars, Call, Lock, AppendShard,
       ShardFails, ReadDossier, ReadFails, TruncateDossier, OpenFails, WriteDossier, WriteFails,
       StartHook, Return, RunHook, Crash, Fault
<1> QED
  BY <1>1, <1>2, TypeCorrect, PTL DEF Spec

\* Of the events whose Record returned nil, the readers miss one per failure at
\* most, although the line after a failed append is lost too.
THEOREM LossIsBounded == Spec => []AuditLossBounded
<1>1. TypeOK /\ PrimaryInv /\ LossInv => AuditLossBounded
  <2> SUFFICES ASSUME TypeOK, PrimaryInv, LossInv PROVE AuditLossBounded
    OBVIOUS
  <2>1. acked \ ReadJSONL(events) \in SUBSET events.glued
    BY DEF ReadJSONL, PrimaryInv, AuditIsPrimary
  <2>2. Cardinality(acked \ ReadJSONL(events)) <= Cardinality(events.glued)
    BY <2>1, FS_Subset DEF LossInv
  <2>3. /\ Cardinality(events.glued) \in Nat /\ faults \in Nat
        /\ Cardinality(acked \ ReadJSONL(events)) \in Nat
    BY <2>1, FS_CardinalityType, FS_Subset DEF LossInv, TypeOK
  <2> QED
    BY <2>2, <2>3 DEF AuditLossBounded, LossInv, TypeOK, File
<1> QED
  BY <1>1, LossInvariant, PrimaryInvariant, TypeCorrect, PTL

-----------------------------------------------------------------------------
\* From here on every caller uses the same Ledger value.

SharedLedger == \A a, b \in Callers : LedgerOf[a] = LedgerOf[b]

Alone == \A a, b \in Callers : pc[a] \in Critical /\ pc[b] \in Critical => a = b

\* Mutual exclusion over the whole directory.
LEMMA OneUpdater ==
    ASSUME SharedLedger
    PROVE  LockHeld => Alone
BY DEF SharedLedger, LockHeld, Alone

\* Where the dossier of the record being made stands, at each step of a call
\* during which nothing has failed yet.
Exact(c) ==
    LET ip == call[c].ip
        logged == OfAddress(events.lines, ip)
    IN  /\ pc[c] \in {"append", "hook", "return"} => dossier[ip].folded = logged
        /\ pc[c] \in {"shard", "read", "truncate"} => dossier[ip].folded \cup {call[c]} = logged
        /\ pc[c] \in {"truncate", "write"} => buf[c] = logged
        /\ pc[c] = "write" => dossier[ip] = EmptyDossier

ExactInv ==
    faults = 0 =>
        /\ \A c \in Callers : Exact(c)
        /\ \A ip \in IPs : Quiet(ip) => dossier[ip].folded = OfAddress(events.lines, ip)

\* Until something fails, the dossiers are where Exact says.
LEMMA ExactInvariant ==
    ASSUME SharedLedger
    PROVE  Spec => []ExactInv
<1> USE LedgerAssumption
<1>1. Init => ExactInv
  BY DEF Init, ExactInv, Exact, EmptyFile, EmptyDossier, OfAddress
<1>2. TypeOK /\ LockHeld /\ Alone /\ ExactInv /\ [Next]_vars => ExactInv'
  <2> SUFFICES ASSUME TypeOK, LockHeld, Alone, ExactInv, [Next]_vars, faults' = 0
               PROVE  /\ \A c \in Callers : Exact(c)'
                      /\ \A ip \in IPs : Quiet(ip)' =>
                            dossier'[ip].folded = OfAddress(events'.lines, ip)
    BY DEF ExactInv
  <2> DEFINE Goal == /\ \A c \in Callers : Exact(c)'
                     /\ \A ip \in IPs : Quiet(ip)' =>
                            dossier'[ip].folded = OfAddress(events'.lines, ip)
  <2> USE DEF TypeOK, Alone, Exact, Quiet, OfAddress, Critical
  <2>0. ASSUME ~Fault PROVE faults = 0 \/ UNCHANGED vars
    BY <2>0 DEF Next, Advance, Fails, Finished, vars, Call, Lock, AppendEvent, AppendFails,
       AppendShard, ShardFails, ReadDossier, ReadFails, TruncateDossier, OpenFails,
       WriteDossier, WriteFails, StartHook, Return, RunHook, Crash
  <2>a. ~Fault
    BY DEF Fault
  <2>b. CASE UNCHANGED vars
    BY <2>b DEF vars, ExactInv
  <2>c. CASE faults = 0
    <3>0. /\ \A c \in Callers : Exact(c)
          /\ \A ip \in IPs : Quiet(ip) => dossier[ip].folded = OfAddress(events.lines, ip)
      BY <2>c DEF ExactInv
    <3>z. \A c \in Callers : call[c].ip \in IPs
      BY DEF Record
    <3>1. ASSUME NEW c \in Callers, Call(c) PROVE Goal
      BY <3>0, <3>1 DEF Call, Goto
    <3>2. ASSUME NEW c \in Callers, Lock(c) PROVE Goal
      <4>1. \A b \in Callers : pc[b] \notin Critical
        BY <3>2 DEF Lock, LockHeld, SharedLedger
      <4> QED
        BY <3>0, <3>z, <3>2, <4>1 DEF Lock, Goto
    <3>3. ASSUME NEW c \in Callers, AppendEvent(c) PROVE Goal
      <4>1. events'.lines = events.lines \cup {call[c]}
        BY <3>3 DEF AppendEvent, AppendLine
      <4> QED
        BY <3>0, <3>3, <4>1 DEF AppendEvent, Goto
    <3>4. ASSUME NEW c \in Callers, AppendShard(c) PROVE Goal
      BY <3>0, <3>4 DEF AppendShard, Goto
    <3>5. ASSUME NEW c \in Callers, ReadDossier(c) PROVE Goal
      BY <3>0, <3>5 DEF ReadDossier, Goto
    <3>6. ASSUME NEW c \in Callers, TruncateDossier(c) PROVE Goal
      BY <3>0, <3>z, <3>6 DEF TruncateDossier, Goto, EmptyDossier
    <3>7. ASSUME NEW c \in Callers, WriteDossier(c) PROVE Goal
      <4>1. dossier' = [dossier EXCEPT ![call[c].ip] = [folded |-> buf[c], text |-> TRUE]]
        <5>1. dossier[call[c].ip] = EmptyDossier
          BY <3>0, <3>7 DEF WriteDossier, Goto
        <5>2. Overwrite(EmptyDossier, buf[c]) = {[folded |-> buf[c], text |-> TRUE]}
          BY DEF Overwrite, EmptyDossier
        <5> QED
          BY <3>7, <5>1, <5>2 DEF WriteDossier
      <4> QED
        BY <3>0, <3>z, <3>7, <4>1 DEF WriteDossier, Goto
    <3>8. ASSUME NEW c \in Callers, Return(c) PROVE Goal
      BY <3>0, <3>8 DEF Return, Leave, Goto
    <3>9. CASE RunHook
      BY <3>0, <3>9 DEF RunHook
    <3>10. CASE Finished
      BY <3>0, <3>10 DEF Finished, vars
    <3>11. ASSUME NEW c \in Callers, StartHook(c) PROVE Goal
      BY <3>0, <3>11 DEF StartHook, Goto
    <3> QED
      BY <2>a, <2>b, <3>1, <3>2, <3>3, <3>4, <3>5, <3>6, <3>7, <3>8, <3>9, <3>10, <3>11
         DEF Next, Advance, Fails, AppendFails, ShardFails, ReadFails, OpenFails, WriteFails, Crash
  <2> QED
    BY <2>0, <2>a, <2>b, <2>c
<1> QED
  BY <1>1, <1>2, OneUpdater, MutexHeld, TypeCorrect, PTL DEF Spec

\* With one Ledger value, and until a system call fails, the hit count of a
\* dossier is the number of events of its address in the audit trail.
THEOREM ExactHitCount ==
    ASSUME SharedLedger
    PROVE  Spec => []HitCountExact
<1>1. ExactInv => HitCountExact
  BY DEF ExactInv, HitCountExact, HitCount
<1> QED
  BY <1>1, ExactInvariant, PTL

-----------------------------------------------------------------------------
\* Calls are numbered: the record a call is making is nowhere before its step.
Fresh ==
    /\ \A r \in events.lines : r.id < nextId
    /\ \A c \in Callers : pc[c] # "idle" => call[c].id < nextId
    /\ \A a, b \in Callers :
          a # b /\ pc[a] # "idle" /\ pc[b] # "idle" => call[a].id # call[b].id
    /\ \A c \in Callers : pc[c] \in {"lock", "append"} =>
          \A r \in events.lines : r.id # call[c].id

LEMMA FreshCalls == Spec => []Fresh
<1> USE LedgerAssumption
<1>1. Init => Fresh
  BY DEF Init, Fresh, EmptyFile
<1>2. TypeOK /\ Fresh /\ [Next]_vars => Fresh'
  <2> SUFFICES ASSUME TypeOK, Fresh, [Next]_vars PROVE Fresh'
    OBVIOUS
  <2> USE DEF TypeOK, Fresh
  <2>1. ASSUME NEW c \in Callers, Call(c) PROVE Fresh'
    <3>1. PICK ip \in IPs, b \in Flags[c] :
              call' = [call EXCEPT ![c] = [id |-> nextId, ip |-> ip, blocked |-> b]]
      BY <2>1 DEF Call
    <3>2. call'[c].id = nextId /\ \A d \in Callers : d # c => call'[d] = call[d]
      BY <3>1
    <3>3. pc'[c] = "lock" /\ \A d \in Callers : d # c => pc'[d] = pc[d]
      BY <2>1 DEF Call, Goto
    <3>4. events' = events /\ nextId' = nextId + 1
      BY <2>1 DEF Call
    <3>5. \A r \in Record : r.id \in Nat
      BY DEF Record
    <3>6. \A r \in events.lines : r.id \in Nat
      BY <3>5 DEF File
    <3>7. \A d \in Callers : call[d].id \in Nat
      BY <3>5
    <3> QED
      BY <3>2, <3>3, <3>4, <3>6, <3>7
  <2>2. ASSUME NEW c \in Callers, Lock(c) PROVE Fresh'
    BY <2>2 DEF Lock, Goto
  <2>3. ASSUME NEW c \in Callers, AppendEvent(c) PROVE Fresh'
    <3>1. events'.lines = events.lines \cup {call[c]}
      BY <2>3 DEF AppendEvent, AppendLine
    <3> QED
      BY <2>3, <3>1 DEF AppendEvent, Goto
  <2>4. ASSUME NEW c \in Callers, NEW s, Leave(c, s), events'.lines = events.lines,
               nextId' = nextId
        PROVE  Fresh'
    BY <2>4 DEF Leave, Goto
  <2>5. ASSUME NEW c \in Callers, NEW s, NEW t \in Critical \ {"append"}, s # "idle",
               Goto(c, s, t), UNCHANGED <<call, events, nextId>>
        PROVE  Fresh'
    BY <2>5 DEF Goto, Critical
  <2>6. CASE Crash
    BY <2>6 DEF Crash
  <2>7. CASE UNCHANGED <<pc, call, events, nextId>>
    BY <2>7
  <2>8. ASSUME NEW c \in Callers, AppendFails(c) PROVE Fresh'
    <3>1. events'.lines = events.lines
      BY <2>8, FailedAppendFile DEF AppendFails
    <3> QED
      BY <2>4, <2>8, <3>1 DEF AppendFails
  <2>9. ASSUME NEW c \in Callers, Advance(c) PROVE Fresh'
    BY <2>3, <2>4, <2>5, <2>9 DEF Advance, AppendShard, ReadDossier, TruncateDossier,
       WriteDossier, StartHook, Return, Critical
  <2>10. ASSUME NEW c \in Callers, Fails(c) PROVE Fresh'
    BY <2>4, <2>5, <2>8, <2>10 DEF Fails, ShardFails, ReadFails, OpenFails, WriteFails, Critical
  <2> QED
    BY <2>1, <2>2, <2>6, <2>7, <2>9, <2>10 DEF Next, Finished, vars, RunHook
<1> QED
  BY <1>1, <1>2, TypeCorrect, PTL DEF Spec

-----------------------------------------------------------------------------
\* A hook belongs to a call that is past its update, and every other call is
\* about another record.
Noted ==
    /\ \A r \in hooks : r \in acked \/ \E c \in Callers : pc[c] = "return" /\ call[c] = r
    /\ \A r \in hooks \cup told : \A c \in Callers :
           pc[c] \in (Steps \ {"idle", "return"}) => call[c] # r

LEMMA NotedInvariant == Spec => []Noted
<1> USE LedgerAssumption
<1>1. Init => Noted
  BY DEF Init, Noted
<1>2. TypeOK /\ PrimaryInv /\ Fresh /\ Noted /\ [Next]_vars => Noted'
  <2> SUFFICES ASSUME TypeOK, PrimaryInv, Fresh, Noted, [Next]_vars PROVE Noted'
    OBVIOUS
  <2> USE DEF TypeOK, Noted, Steps
  <2>1. ASSUME NEW c \in Callers, Call(c) PROVE Noted'
    <3>1. \A r \in hooks \cup told : r.id < nextId
      BY DEF PrimaryInv, AuditIsPrimary, Fresh
    <3>2. \A r \in Record : r.id \in Nat
      BY DEF Record
    <3>3. \A r \in hooks \cup told : r.id # nextId
      BY <3>1, <3>2
    <3>4. call'[c].id = nextId
      BY <2>1 DEF Call
    <3>5. \A d \in Callers \ {c} : call'[d] = call[d] /\ pc'[d] = pc[d]
      BY <2>1 DEF Call, Goto
    <3>6. pc[c] = "idle" /\ pc'[c] = "lock" /\ UNCHANGED <<hooks, told, acked>>
      BY <2>1 DEF Call, Goto
    <3> QED
      BY <3>3, <3>4, <3>5, <3>6
  <2>2. ASSUME NEW c \in Callers, StartHook(c) PROVE Noted'
    <3>1. \A d \in Callers \ {c} : pc[d] # "idle" => call[d] # call[c]
      BY <2>2 DEF StartHook, Goto, Fresh
    <3> QED
      BY <2>2, <3>1 DEF StartHook, Goto
  <2>3. ASSUME NEW c \in Callers, Return(c) PROVE Noted'
    BY <2>3 DEF Return, Leave, Goto
  <2>4. ASSUME NEW c \in Callers, NEW s \in Steps \ {"return"}, Leave(c, s),
               UNCHANGED <<hooks, told, acked>>
        PROVE  Noted'
    BY <2>4 DEF Leave, Goto
  <2>5. ASSUME NEW c \in Callers, NEW s \in Steps \ {"idle", "return"},
               NEW t \in Steps \ {"idle", "return"}, Goto(c, s, t),
               UNCHANGED <<call, hooks, told, acked>>
        PROVE  Noted'
    BY <2>5 DEF Goto
  <2>6. ASSUME NEW c \in Callers, Lock(c) \/ Advance(c) PROVE Noted'
    BY <2>2, <2>3, <2>5, <2>6 DEF Lock, Advance, AppendEvent, AppendShard, ReadDossier,
       TruncateDossier, WriteDossier
  <2>7. ASSUME NEW c \in Callers, Fails(c) PROVE Noted'
    BY <2>4, <2>5, <2>7 DEF Fails, AppendFails, ShardFails, ReadFails, OpenFails, WriteFails
  <2>8. CASE RunHook
    BY <2>8 DEF RunHook
  <2>9. CASE Crash
    BY <2>9 DEF Crash
  <2>10. CASE UNCHANGED vars
    BY <2>10 DEF vars
  <2> QED
    BY <2>1, <2>6, <2>7, <2>8, <2>9, <2>10 DEF Next, Finished
<1> QED
  BY <1>1, <1>2, FreshCalls, PrimaryInvariant, TypeCorrect, PTL DEF Spec

\* Nobody is notified of a record whose call did not succeed; and with one
\* Ledger value, until a system call fails, the dossier of its address has the
\* record by then, and keeps it while other calls rewrite it.
THEOREM HookIsLate ==
    ASSUME SharedLedger
    PROVE  Spec => []HookAfterSuccess
<1>1. TypeOK /\ PrimaryInv /\ ExactInv /\ Noted => HookAfterSuccess
  <2> SUFFICES ASSUME TypeOK, PrimaryInv, ExactInv, Noted, faults = 0, NEW r \in hooks \cup told
               PROVE  r \in dossier[r.ip].folded \/ \E c \in At("write", r.ip) : r \in buf[c]
    BY DEF HookAfterSuccess, Noted
  <2>1. r \in OfAddress(events.lines, r.ip) /\ r.ip \in IPs
    BY DEF PrimaryInv, AuditIsPrimary, OfAddress, TypeOK, Record
  <2>2. CASE Quiet(r.ip)
    BY <2>1, <2>2 DEF ExactInv
  <2>3. ASSUME NEW c \in Callers, pc[c] \in Critical, call[c].ip = r.ip
        PROVE  r \in dossier[r.ip].folded \/ (c \in At("write", r.ip) /\ r \in buf[c])
    <3>1. Exact(c)
      BY DEF ExactInv
    <3>2. CASE pc[c] \in {"append", "hook", "return"}
      BY <2>1, <2>3, <3>1, <3>2 DEF Exact
    <3>3. CASE pc[c] \in {"shard", "read", "truncate"}
      <4>1. call[c] # r
        BY <3>3 DEF Noted, Steps
      <4> QED
        BY <2>1, <2>3, <3>1, <3>3, <4>1 DEF Exact
    <3>4. CASE pc[c] = "write"
      BY <2>1, <2>3, <3>1, <3>4 DEF Exact, At
    <3> QED
      BY <2>3, <3>2, <3>3, <3>4 DEF Critical
  <2> QED
    BY <2>2, <2>3 DEF Quiet
<1> QED
  BY <1>1, NotedInvariant, ExactInvariant, PrimaryInvariant, TypeCorrect, PTL

-----------------------------------------------------------------------------
\* The dossier a caller is updating, seen from that caller.
Updating ==
    \A c \in Callers :
        /\ pc[c] \in {"shard", "read", "truncate"} =>
              call[c] \notin dossier[call[c].ip].folded
        /\ pc[c] \in {"truncate", "write"} => call[c] \in buf[c]
        /\ pc[c] = "write" => dossier[call[c].ip] = EmptyDossier

LEMMA UpdatingInvariant ==
    ASSUME SharedLedger
    PROVE  Spec => []Updating
<1> USE LedgerAssumption
<1>1. Init => Updating
  BY DEF Init, Updating
<1>2. TypeOK /\ Alone /\ Fresh /\ PrimaryInv /\ Updating /\ [Next]_vars => Updating'
  <2> SUFFICES ASSUME TypeOK, Alone, Fresh, PrimaryInv, Updating, [Next]_vars
               PROVE  Updating'
    OBVIOUS
  <2> USE DEF TypeOK, Alone, Updating, Critical
  <2>z. \A c \in Callers : call[c].ip \in IPs
    BY DEF Record
  <2>1. ASSUME NEW c \in Callers, Call(c) PROVE Updating'
    BY <2>1 DEF Call, Goto
  <2>2. ASSUME NEW c \in Callers, Lock(c) PROVE Updating'
    BY <2>2 DEF Lock, Goto
  <2>3. ASSUME NEW c \in Callers, AppendEvent(c) PROVE Updating'
    <3>1. call[c] \notin events.lines
      BY <2>3 DEF AppendEvent, Goto, Fresh
    <3>2. call[c] \notin dossier[call[c].ip].folded
      BY <2>z, <3>1 DEF PrimaryInv, AuditIsPrimary, OfAddress
    <3> QED
      BY <2>3, <3>2 DEF AppendEvent, Goto
  <2>4. ASSUME NEW c \in Callers, NEW s, Leave(c, s), s \in Critical,
               \A ip \in IPs : ip # call[c].ip => dossier'[ip] = dossier[ip]
        PROVE  Updating'
    BY <2>4 DEF Leave, Goto
  <2>5. ASSUME NEW c \in Callers, AppendShard(c) PROVE Updating'
    BY <2>5 DEF AppendShard, Goto
  <2>6. ASSUME NEW c \in Callers, ShardFails(c) PROVE Updating'
    BY <2>6 DEF ShardFails, Goto
  <2>7. ASSUME NEW c \in Callers, ReadDossier(c) PROVE Updating'
    BY <2>7 DEF ReadDossier, Goto
  <2>8. ASSUME NEW c \in Callers, ReadFails(c) PROVE Updating'
    BY <2>8 DEF ReadFails, Goto
  <2>9. ASSUME NEW c \in Callers, TruncateDossier(c) PROVE Updating'
    BY <2>z, <2>9 DEF TruncateDossier, Goto, EmptyDossier
  <2>10. ASSUME NEW c \in Callers, WriteDossier(c) PROVE Updating'
    BY <2>10 DEF WriteDossier, Goto
  <2>11. ASSUME NEW c \in Callers, WriteFails(c) PROVE Updating'
    BY <2>4, <2>11 DEF WriteFails
  <2>12. CASE Crash
    BY <2>12 DEF Crash
  <2>13. CASE UNCHANGED <<pc, call, buf, dossier>>
    BY <2>13
  <2>14. ASSUME NEW c \in Callers, AppendFails(c) \/ OpenFails(c) \/ Return(c) PROVE Updating'
    BY <2>4, <2>14 DEF AppendFails, OpenFails, Return
  <2>15. ASSUME NEW c \in Callers, StartHook(c) PROVE Updating'
    BY <2>15 DEF StartHook, Goto
  <2> QED
    BY <2>1, <2>2, <2>3, <2>5, <2>6, <2>7, <2>8, <2>9, <2>10, <2>11, <2>12, <2>13, <2>14, <2>15
       DEF Next, Advance, Fails, Finished, vars, RunHook
<1> QED
  BY <1>1, <1>2, OneUpdater, MutexHeld, FreshCalls, PrimaryInvariant, TypeCorrect, PTL DEF Spec

\* What the abstract store is told a dossier accounts for is in the trail.
LEMMA CommittedIsLogged ==
    PrimaryInv => \A ip \in IPs : Committed(ip) \subseteq OfAddress(events.lines, ip)
BY DEF PrimaryInv, AuditIsPrimary, InFlightLogged, Committed, At, OfAddress

RefInv == TypeOK /\ Alone /\ Fresh /\ PrimaryInv /\ Updating

\* Each step of the code is a step of the abstract store, or changes nothing
\* the store can see.
LEMMA StepRefines ==
    ASSUME RefInv, [Next]_vars,
           \A ip \in IPs : Committed(ip)' \subseteq OfAddress(events'.lines, ip)
    PROVE  [Store!Next]_(Store!vars)
<1> USE LedgerAssumption DEF RefInv, TypeOK, Alone, Critical
<1> DEFINE Same == \A ip \in IPs : Committed(ip)' = Committed(ip)
<1>a. \A c \in Callers : call[c] \in Record /\ call[c].ip \in IPs
  BY DEF Record
<1>b. ASSUME events'.lines = events.lines, told' = told, faults' = faults + 1
      PROVE  Store!Next
  <2>1. \A ip \in IPs : Committed(ip)' \in SUBSET events.lines
    BY <1>b DEF OfAddress
  <2>2. [ip \in IPs |-> Committed(ip)]' \in [IPs -> SUBSET events.lines]
    BY <2>1
  <2>3. Store!Damage
    BY <1>b, <2>2 DEF Store!Damage, OfAddress, Store!OfAddress
  <2> QED
    BY <2>3 DEF Store!Next
<1>c. ASSUME events'.lines = events.lines, UNCHANGED <<told, faults>>, Same
      PROVE  UNCHANGED Store!vars
  BY <1>c DEF Store!vars
<1>d. ASSUME NEW c \in Callers, NEW s, NEW t, Goto(c, s, t), UNCHANGED <<call, buf, dossier>>,
             events'.lines = events.lines,
             {s, t} \cap {"truncate", "write"} = {}
      PROVE  Same
  <2>1. \A ip \in IPs : /\ At("truncate", ip)' = At("truncate", ip)
                        /\ At("write", ip)' = At("write", ip)
    BY <1>d DEF Goto, At
  <2> QED
    BY <1>d, <2>1 DEF Committed
<1>1. ASSUME NEW c \in Callers, Call(c) PROVE UNCHANGED Store!vars
  <2>1. Same
    BY <1>1 DEF Call, Goto, Committed, At
  <2> QED
    BY <1>1, <1>c, <2>1 DEF Call
<1>2. ASSUME NEW c \in Callers, Lock(c) \/ AppendShard(c) \/ StartHook(c)
      PROVE  UNCHANGED Store!vars
  BY <1>2, <1>c, <1>d DEF Lock, AppendShard, StartHook
<1>3. ASSUME NEW c \in Callers, AppendEvent(c) PROVE Store!Log(call[c])
  <2>1. events'.lines = events.lines \cup {call[c]}
    BY <1>3 DEF AppendEvent, AppendLine
  <2>2. call[c] \notin events.lines
    BY <1>3 DEF AppendEvent, Goto, Fresh
  <2>3. \A ip \in IPs : call[c] \notin dossier[ip].folded
    BY <2>2 DEF PrimaryInv, AuditIsPrimary, OfAddress
  <2>4. \A ip \in IPs : At("truncate", ip)' = {} /\ At("write", ip)' = {}
    BY <1>3 DEF AppendEvent, Goto, At
  <2>5. \A ip \in IPs : At("truncate", ip) = {} /\ At("write", ip) = {}
    BY <1>3 DEF AppendEvent, Goto, At
  <2>6. dossier' = dossier
    BY <1>3 DEF AppendEvent
  <2>7. Same
    BY <2>1, <2>3, <2>4, <2>5, <2>6 DEF Committed
  <2> QED
    BY <1>3, <2>1, <2>2, <2>7 DEF Store!Log, AppendEvent
<1>4. ASSUME NEW c \in Callers, ReadDossier(c) PROVE UNCHANGED Store!vars
  <2>1. \A ip \in IPs : At("truncate", ip) = {} /\ At("write", ip) = {}
    BY <1>4 DEF ReadDossier, Goto, At
  <2>2. \A ip \in IPs : /\ At("write", ip)' = {}
                        /\ At("truncate", ip)' = IF ip = call[c].ip THEN {c} ELSE {}
    BY <1>4 DEF ReadDossier, Goto, At
  <2>3. buf'[c] \ {call[c]} = dossier[call[c].ip].folded
    BY <1>4 DEF ReadDossier, Goto, Updating
  <2>4. UNCHANGED <<dossier, events, call>>
    BY <1>4 DEF ReadDossier
  <2>5. Same
    BY <2>1, <2>2, <2>3, <2>4 DEF Committed
  <2> QED
    BY <1>4, <1>c, <2>5 DEF ReadDossier
<1>5. ASSUME NEW c \in Callers, TruncateDossier(c) PROVE Store!Summarise(call[c])
  <2>0. PICK ip0 \in IPs : ip0 = call[c].ip
    BY <1>a
  <2>1. \A ip \in IPs : /\ At("write", ip) = {}
                        /\ At("truncate", ip) = IF ip = ip0 THEN {c} ELSE {}
    BY <1>5, <2>0 DEF TruncateDossier, Goto, At
  <2>2. \A ip \in IPs : /\ At("truncate", ip)' = {}
                        /\ At("write", ip)' = IF ip = ip0 THEN {c} ELSE {}
    BY <1>5, <2>0 DEF TruncateDossier, Goto, At
  <2>3. call[c] \in buf[c] /\ call[c] \in events.lines
    BY <1>5 DEF TruncateDossier, Goto, Updating, PrimaryInv, InFlightLogged
  <2>4. /\ UNCHANGED <<events, call, buf, told, faults>>
        /\ \A ip \in IPs : ip # ip0 => dossier'[ip] = dossier[ip]
        /\ dossier'[ip0].folded = {}
    BY <1>5, <2>0 DEF TruncateDossier, EmptyDossier
  <2>5. Committed(ip0)' = Committed(ip0) \cup {call[c]}
    <3>1. At("write", ip0) = {} /\ At("truncate", ip0) = {c}
      BY <2>1
    <3>2. At("truncate", ip0)' = {} /\ At("write", ip0)' = {c}
      BY <2>2
    <3>3. Committed(ip0) = {r \in events.lines : r \in buf[c] \ {call[c]}}
      BY <3>1 DEF Committed
    <3>4. Committed(ip0)' = {r \in events.lines : r \in buf[c]}
      BY <2>4, <3>2 DEF Committed
    <3> QED
      BY <2>3, <3>3, <3>4
  <2>6. \A ip \in IPs : ip # ip0 => Committed(ip)' = Committed(ip)
    BY <2>1, <2>2, <2>4 DEF Committed
  <2>7. [ip \in IPs |-> Committed(ip)]' =
            [[ip \in IPs |-> Committed(ip)] EXCEPT ![ip0] = @ \cup {call[c]}]
    BY <2>5, <2>6
  <2> QED
    BY <2>0, <2>3, <2>4, <2>7 DEF Store!Summarise
<1>6. ASSUME NEW c \in Callers, WriteDossier(c) PROVE UNCHANGED Store!vars
  <2>0. PICK ip0 \in IPs : ip0 = call[c].ip
    BY <1>a
  <2>1. \A ip \in IPs : /\ At("truncate", ip) = {}
                        /\ At("write", ip) = IF ip = ip0 THEN {c} ELSE {}
    BY <1>6, <2>0 DEF WriteDossier, Goto, At
  <2>2. \A ip \in IPs : At("truncate", ip)' = {} /\ At("write", ip)' = {}
    BY <1>6, <2>0 DEF WriteDossier, Goto, At
  <2>3. dossier[ip0] = EmptyDossier
    BY <1>6, <2>0 DEF WriteDossier, Goto, Updating
  <2>4. Overwrite(EmptyDossier, buf[c]) = {[folded |-> buf[c], text |-> TRUE]}
    BY DEF Overwrite, EmptyDossier
  <2>5. dossier' = [dossier EXCEPT ![ip0] = [folded |-> buf[c], text |-> TRUE]]
    BY <1>6, <2>0, <2>3, <2>4 DEF WriteDossier
  <2>6. UNCHANGED <<events, buf, told, faults>>
    BY <1>6 DEF WriteDossier
  <2>7. Committed(ip0)' = Committed(ip0)
    <3>1. At("truncate", ip0) = {} /\ At("write", ip0) = {c}
      BY <2>1
    <3>2. At("truncate", ip0)' = {} /\ At("write", ip0)' = {}
      BY <2>2
    <3>3. Committed(ip0) = {r \in events.lines : r \in buf[c]}
      BY <2>3, <3>1 DEF Committed, EmptyDossier
    <3>4. Committed(ip0)' = {r \in events.lines : r \in buf[c]}
      BY <2>5, <2>6, <3>2 DEF Committed
    <3> QED
      BY <3>3, <3>4
  <2>8. \A ip \in IPs : ip # ip0 => Committed(ip)' = Committed(ip)
    BY <2>1, <2>2, <2>5, <2>6 DEF Committed
  <2> QED
    <3>1. Same
      BY <2>7, <2>8
    <3> QED
      BY <1>c, <2>6, <3>1
<1>7. ASSUME NEW c \in Callers, Return(c) PROVE UNCHANGED Store!vars
  <2>1. \A ip \in IPs : /\ At("truncate", ip) = {} /\ At("truncate", ip)' = {}
                        /\ At("write", ip) = {} /\ At("write", ip)' = {}
    BY <1>7 DEF Return, Leave, Goto, At
  <2>2. Same
    BY <1>7, <2>1 DEF Return, Committed
  <2> QED
    BY <1>7, <1>c, <2>2 DEF Return
<1>8. ASSUME NEW c \in Callers, Fails(c) PROVE Store!Next
  <2>1. events'.lines = events.lines
    BY <1>8, FailedAppendFile DEF Fails, AppendFails, ShardFails, ReadFails, OpenFails, WriteFails
  <2> QED
    BY <1>8, <1>b, <2>1 DEF Fails, AppendFails, ShardFails, ReadFails, OpenFails, WriteFails, Fault
<1>9. CASE RunHook
  <2>1. PICK r \in hooks : told' = told \cup {r}
    BY <1>9 DEF RunHook
  <2>2. r \in events.lines /\ r \in Record
    BY <2>1 DEF PrimaryInv, AuditIsPrimary
  <2>3. Same
    BY <1>9 DEF RunHook, Committed, At
  <2>4. Store!Tell(r)
    BY <1>9, <2>1, <2>2, <2>3 DEF Store!Tell, RunHook
  <2> QED
    BY <2>2, <2>4 DEF Store!Next
<1>10. CASE Crash
  BY <1>10, <1>b DEF Crash, Fault
<1>11. CASE UNCHANGED vars
  <2>1. Same
    BY <1>11 DEF vars, Committed, At
  <2> QED
    BY <1>11, <1>c, <2>1 DEF vars
<1> QED
  BY <1>a, <1>1, <1>2, <1>3, <1>4, <1>5, <1>6, <1>7, <1>8, <1>9, <1>10, <1>11
     DEF Next, Advance, Finished, Store!Next

\* Callers that share one Ledger value implement the abstract store: no update
\* of a dossier is ever undone by another, whatever fails.
THEOREM LedgerImplementsStore ==
    ASSUME SharedLedger
    PROVE  Spec => ImplementsStore
<1>1. Init => Store!Init
  BY DEF Init, Store!Init, EmptyFile, Committed
<1>2. RefInv /\ RefInv' /\ [Next]_vars => [Store!Next]_(Store!vars)
  <2> SUFFICES ASSUME RefInv, RefInv', [Next]_vars PROVE [Store!Next]_(Store!vars)
    OBVIOUS
  <2>1. (PrimaryInv => \A ip \in IPs : Committed(ip) \subseteq OfAddress(events.lines, ip))'
    BY CommittedIsLogged, PTL
  <2> QED
    BY <2>1, StepRefines DEF RefInv
<1>3. Spec => []RefInv
  BY OneUpdater, MutexHeld, FreshCalls, PrimaryInvariant, UpdatingInvariant, TypeCorrect, PTL
     DEF RefInv
<1> QED
  BY <1>1, <1>2, <1>3, PTL DEF Spec, ImplementsStore, Store!Spec

=============================================================================
