------------------------ MODULE EmployeeImportProofs ------------------------
(***************************************************************************)
(* Theorems about EmployeeImport, for any number of importers, any         *)
(* directories BambooHR may answer with, any configurations, edited at any *)
(* moment, and any combination of faults.                                  *)
(***************************************************************************)
EXTENDS EmployeeImport, FiniteSetTheorems, SequenceTheorems, TLAPS

-----------------------------------------------------------------------------
(* What importer i's run knows.  Its configuration lets it run; what it has *)
(* collected was built under that configuration; and each position it has   *)
(* seen is blank, in the table or collected.                                *)

BuiltUnder(c, row) ==
    /\ InScope(c, row.email)
    /\ row.processed = c.baseline
    /\ c.baseline => ~row.active

Seen(i, x) == IsBlank(x) \/ Exists(x.id) \/ x.id \in IdsIn(batch[i])

RunInv(i) ==
    /\ ipc[i] # "idle" => ImportOn(icfg[i])
    /\ ipc[i] \in {"idle", "fetch"} => batch[i] = <<>>
    /\ \A k \in DOMAIN batch[i] : BuiltUnder(icfg[i], batch[i][k].row)
    /\ ipc[i] = "scan" =>
          /\ unseen[i] \subseteq PositionsInScope(icfg[i], entries[i])
          /\ \A k \in PositionsInScope(icfg[i], entries[i]) \ unseen[i] : Seen(i, entries[i][k])
    /\ ipc[i] = "report" =>
          \A k \in PositionsInScope(icfg[i], entries[i]) :
              IsBlank(entries[i][k]) \/ Exists(entries[i][k].id)

ImportInv ==
    /\ TypeOK
    /\ IsFiniteSet(DOMAIN staging)
    /\ \A i \in Importers : RunInv(i)

Locals(i) == <<ipc[i], icfg[i], entries[i], unseen[i], batch[i]>>

(* A run is disturbed by nobody as long as rows only appear. *)
LEMMA RunKept ==
    ASSUME NEW i \in Importers, RunInv(i), UNCHANGED Locals(i),
           DOMAIN staging \subseteq DOMAIN staging'
    PROVE  RunInv(i)'
BY DEF RunInv, Locals, Seen, Exists, IdsIn, PositionsInScope, IsStagingEmployee, IsBlank,
       BuiltUnder, InScope, ImportOn

-----------------------------------------------------------------------------
(* An entry that is neither blank nor there becomes a row of its type, and  *)
(* one the flags of the run ask for.                                        *)
LEMMA RowType ==
    ASSUME ImportInv, NEW i \in Importers, ipc[i] = "scan", NEW k \in unseen[i],
           ~IsBlank(entries[i][k]), NEW place \in Nat
    PROVE  LET x == entries[i][k]
               row == StagedRow(icfg[i], x, place)
           IN  /\ [id |-> x.id, storable |-> x.storable, row |-> row] \in NewRow
               /\ BuiltUnder(icfg[i], row)
<1> DEFINE x == entries[i][k]
           row == StagedRow(icfg[i], x, place)
<1>1. k \in DOMAIN entries[i] /\ IsStagingEmployee(icfg[i], x)
  BY DEF ImportInv, RunInv, PositionsInScope
<1>2. x \in Entry
  <2>1. entries[i] \in Seq(Entry)
    BY DEF ImportInv, TypeOK
  <2> QED  BY <1>1, <2>1
<1>3. x.id \in EmployeeIds /\ x.email \in Email /\ x.active \in BOOLEAN /\ x.storable \in BOOLEAN
  BY <1>2 DEF Entry, IsBlank
<1>4. Cardinality(DOMAIN staging) + place \in Nat
  BY FS_CardinalityType DEF ImportInv
<1>5. icfg[i].baseline \in BOOLEAN
  BY ImportAssumption DEF ImportInv, TypeOK, Config
<1>6. row \in StagingRow
  BY <1>3, <1>4, <1>5 DEF StagedRow, StagingRow
<1>7. BuiltUnder(icfg[i], row)
  BY <1>1, <1>5 DEF BuiltUnder, StagedRow, IsStagingEmployee, InScope
<1> QED  BY <1>3, <1>6, <1>7 DEF NewRow

(* Storing a batch adds its rows and touches no other. *)
LEMMA InsertEffect ==
    ASSUME ImportInv, NEW b \in Seq(NewRow), InsertAll(b), UNCHANGED <<history, audit>>
    PROVE  /\ DOMAIN staging' = DOMAIN staging \cup IdsIn(b)
           /\ \A e \in DOMAIN staging : staging'[e] = staging[e]
           /\ \A e \in IdsIn(b) \ DOMAIN staging :
                \E k \in DOMAIN b : staging'[e] = b[k].row
           /\ DbTypeOK'
           /\ IsFiniteSet(DOMAIN staging')
<1>1. /\ DOMAIN staging' = DOMAIN staging \cup IdsIn(b)
      /\ \A e \in DOMAIN staging : staging'[e] = staging[e]
      /\ \A e \in IdsIn(b) \ DOMAIN staging : staging'[e] = RowFor(b, e)
  BY DEF InsertAll
<1>2. ASSUME NEW e \in IdsIn(b) PROVE \E k \in DOMAIN b : RowFor(b, e) = b[k].row
  <2>1. \E k \in DOMAIN b : b[k].id = e
    BY <1>2 DEF IdsIn
  <2> QED  BY <2>1 DEF RowFor
<1>3. \A k \in DOMAIN b : b[k].row \in StagingRow /\ b[k].id \in EmployeeIds
  <2>1. \A k \in DOMAIN b : b[k] \in NewRow
    OBVIOUS
  <2> QED  BY <2>1 DEF NewRow
<1>4. IdsIn(b) \subseteq EmployeeIds
  BY <1>3 DEF IdsIn
<1>5. DbTypeOK'
  <2>1. \A e \in DOMAIN staging' : staging'[e] \in StagingRow
    BY <1>1, <1>2, <1>3 DEF ImportInv, TypeOK, DbTypeOK
  <2>2. staging' = [e \in DOMAIN staging' |-> staging'[e]]
    BY DEF InsertAll
  <2>3. staging' \in [DOMAIN staging' -> StagingRow]
    BY <2>1, <2>2
  <2> QED  BY <1>1, <1>4, <2>3 DEF ImportInv, TypeOK, DbTypeOK
<1>6. IsFiniteSet(IdsIn(b))
  <2> DEFINE f == [k \in 1..Len(b) |-> b[k].id]
  <2>1. DOMAIN b = 1..Len(b) /\ Len(b) \in Nat
    OBVIOUS
  <2>2. f \in Surjection(1..Len(b), IdsIn(b))
    BY <2>1 DEF Surjection, IdsIn
  <2>3. IsFiniteSet(1..Len(b))
    BY <2>1, FS_Interval
  <2> QED  BY <2>2, <2>3, FS_Surjection
<1>7. IsFiniteSet(DOMAIN staging')
  BY <1>1, <1>6, FS_Union DEF ImportInv
<1> QED  BY <1>1, <1>2, <1>5, <1>7

-----------------------------------------------------------------------------
LEMMA ImportInit == Init => ImportInv
<1> SUFFICES ASSUME Init PROVE ImportInv
  OBVIOUS
<1>1. TypeOK
  BY ImportAssumption DEF Init, TypeOK, DbTypeOK, IPCs
<1>2. IsFiniteSet(DOMAIN staging)
  <2>1. DOMAIN staging = {}
    BY DEF Init
  <2> QED  BY <2>1, FS_EmptySet
<1>3. \A i \in Importers : RunInv(i)
  BY DEF Init, RunInv
<1> QED  BY <1>1, <1>2, <1>3 DEF ImportInv

(* The end of a run leaves nothing of it. *)
LEMMA EndEffect ==
    ASSUME ImportInv, NEW i \in Importers, EndImport(i),
           DOMAIN staging \subseteq DOMAIN staging'
    PROVE  /\ ipc' \in [Importers -> IPCs] /\ icfg' = icfg
           /\ entries' \in [Importers -> Seq(Entry)]
           /\ unseen' \in [Importers -> SUBSET Nat]
           /\ batch' \in [Importers -> Seq(NewRow)]
           /\ \A j \in Importers : RunInv(j)'
<1>1. /\ ipc' \in [Importers -> IPCs] /\ icfg' = icfg
      /\ entries' \in [Importers -> Seq(Entry)]
      /\ unseen' \in [Importers -> SUBSET Nat]
      /\ batch' \in [Importers -> Seq(NewRow)]
      /\ ipc'[i] = "idle" /\ batch'[i] = <<>>
  BY DEF EndImport, IGoto, IPCs, ImportInv, TypeOK
<1>2. RunInv(i)'
  BY <1>1 DEF RunInv
<1>3. ASSUME NEW j \in Importers, j # i PROVE RunInv(j)'
  <2>1. UNCHANGED Locals(j)
    BY <1>3 DEF EndImport, IGoto, Locals, ImportInv, TypeOK
  <2> QED  BY <2>1, RunKept DEF ImportInv
<1> QED  BY <1>1, <1>2, <1>3

LEMMA ImportNext == ImportInv /\ [Next]_vars => ImportInv'
<1> SUFFICES ASSUME ImportInv, [Next]_vars PROVE ImportInv'
  OBVIOUS
<1>0. TypeOK /\ IsFiniteSet(DOMAIN staging)
  BY DEF ImportInv
<1>1. ASSUME NEW i \in Importers, BeginImport(i) PROVE ImportInv'
  <2>1. TypeOK'
    <3>1. ipc' \in [Importers -> IPCs] /\ icfg' \in [Importers -> Configs]
      BY <1>0, <1>1 DEF BeginImport, IGoto, IPCs, TypeOK
    <3>2. DbTypeOK'
      BY <1>0, <1>1 DEF BeginImport, TypeOK, DbTypeOK, LogAudit, AuditEntry
    <3> QED  BY <1>0, <1>1, <3>1, <3>2 DEF BeginImport, TypeOK
  <2>2. RunInv(i)'
    BY <1>0, <1>1 DEF BeginImport, IGoto, TypeOK, ImportInv, RunInv, ImportOn
  <2>3. ASSUME NEW j \in Importers, j # i PROVE RunInv(j)'
    <3>1. UNCHANGED Locals(j) /\ DOMAIN staging \subseteq DOMAIN staging'
      BY <1>0, <1>1, <2>3 DEF BeginImport, IGoto, Locals, TypeOK
    <3> QED  BY <3>1, RunKept DEF ImportInv
  <2> QED  BY <1>0, <1>1, <2>1, <2>2, <2>3 DEF ImportInv, BeginImport
<1>2. ASSUME NEW i \in Importers, FetchDirectory(i) PROVE ImportInv'
  <2>1. CASE NobodyInScope(icfg[i])
    <3>1. EndImport(i) /\ LogAudit("EmployeeImport", "Skipped", NoEmployee)
          /\ UNCHANGED <<staging, history, config>>
      BY <1>2, <2>1 DEF FetchDirectory
    <3>2. DbTypeOK'
      BY <1>0, <3>1 DEF TypeOK, DbTypeOK, LogAudit, AuditEntry
    <3> QED  BY <1>0, <3>1, <3>2, EndEffect DEF ImportInv, TypeOK
  <2>2. ASSUME NEW d \in Directories,
               ipc[i] = "fetch",
               entries' = [entries EXCEPT ![i] = d],
               unseen' = [unseen EXCEPT ![i] = PositionsInScope(icfg[i], d)],
               IGoto(i, "scan"),
               UNCHANGED <<staging, history, audit, config, icfg, batch>>
        PROVE  ImportInv'
    <3>1. d \in Seq(Entry)
      BY ImportAssumption
    <3>2. PositionsInScope(icfg[i], d) \subseteq Nat
      BY <3>1 DEF PositionsInScope
    <3>3. TypeOK'
      BY <1>0, <2>2, <3>1, <3>2 DEF TypeOK, DbTypeOK, IGoto, IPCs
    <3>4. /\ ipc'[i] = "scan" /\ entries'[i] = d
          /\ unseen'[i] = PositionsInScope(icfg[i], d)
          /\ batch'[i] = <<>> /\ ImportOn(icfg[i])
      BY <1>0, <2>2 DEF TypeOK, IGoto, ImportInv, RunInv
    <3>5. RunInv(i)'
      BY <2>2, <3>4 DEF RunInv, PositionsInScope, IsStagingEmployee, InScope, ImportOn
    <3>6. ASSUME NEW j \in Importers, j # i PROVE RunInv(j)'
      <4>1. UNCHANGED Locals(j) /\ DOMAIN staging \subseteq DOMAIN staging'
        BY <1>0, <2>2, <3>6 DEF IGoto, Locals, TypeOK
      <4> QED  BY <4>1, RunKept DEF ImportInv
    <3> QED  BY <1>0, <2>2, <3>3, <3>5, <3>6 DEF ImportInv
  <2> QED  BY <1>2, <2>1, <2>2 DEF FetchDirectory
<1>3. ASSUME NEW i \in Importers, ScanEntry(i) PROVE ImportInv'
  <2>1. PICK k \in unseen[i] :
            /\ \/ /\ IsBlank(entries[i][k]) \/ Exists(entries[i][k].id)
                  /\ UNCHANGED batch
               \/ /\ ~IsBlank(entries[i][k])
                  /\ batch' = [batch EXCEPT ![i] = Append(@,
                        [id |-> entries[i][k].id, storable |-> entries[i][k].storable,
                         row |-> StagedRow(icfg[i], entries[i][k], Len(@) + 1)])]
            /\ unseen' = [unseen EXCEPT ![i] = @ \ {k}]
    BY <1>3 DEF ScanEntry
  <2>2. ipc[i] = "scan" /\ UNCHANGED <<staging, history, audit, config, ipc, icfg, entries>>
    BY <1>3 DEF ScanEntry
  <2> DEFINE x == entries[i][k]
  <2>3. /\ batch' \in [Importers -> Seq(NewRow)]
        /\ \A n \in DOMAIN batch'[i] : BuiltUnder(icfg[i], batch'[i][n].row)
        /\ IdsIn(batch[i]) \subseteq IdsIn(batch'[i])
        /\ IsBlank(x) \/ Exists(x.id) \/ x.id \in IdsIn(batch'[i])
        /\ \A j \in Importers \ {i} : batch'[j] = batch[j]
    <3>1. batch[i] \in Seq(NewRow) /\ \A n \in DOMAIN batch[i] : BuiltUnder(icfg[i], batch[i][n].row)
      BY <1>0 DEF TypeOK, ImportInv, RunInv
    <3>2. CASE (IsBlank(x) \/ Exists(x.id)) /\ UNCHANGED batch
      BY <1>0, <3>1, <3>2 DEF TypeOK
    <3>3. CASE ~IsBlank(x) /\ ~((IsBlank(x) \/ Exists(x.id)) /\ UNCHANGED batch)
      <4> DEFINE place == Len(batch[i]) + 1
                 new == [id |-> x.id, storable |-> x.storable,
                         row |-> StagedRow(icfg[i], x, place)]
      <4>1. place \in Nat
        BY <3>1
      <4>2. new \in NewRow /\ BuiltUnder(icfg[i], new.row) /\ new.id = x.id
        BY <2>2, <3>3, <4>1, RowType
      <4>3. batch' = [batch EXCEPT ![i] = Append(batch[i], new)]
        BY <2>1, <3>3
      <4> HIDE DEF new
      <4>4. batch'[i] = Append(batch[i], new) /\ \A j \in Importers \ {i} : batch'[j] = batch[j]
        BY <1>0, <4>3 DEF TypeOK
      <4>5. /\ batch'[i] \in Seq(NewRow)
            /\ DOMAIN batch'[i] = DOMAIN batch[i] \cup {place}
            /\ batch'[i][place] = new
            /\ \A n \in DOMAIN batch[i] : batch'[i][n] = batch[i][n]
        BY <3>1, <4>2, <4>4
      <4>6. batch' \in [Importers -> Seq(NewRow)]
        BY <1>0, <4>3, <4>4, <4>5 DEF TypeOK
      <4>7. \A n \in DOMAIN batch'[i] : BuiltUnder(icfg[i], batch'[i][n].row)
        BY <3>1, <4>2, <4>5
      <4>8. IdsIn(batch[i]) \subseteq IdsIn(batch'[i]) /\ x.id \in IdsIn(batch'[i])
        BY <4>2, <4>5 DEF IdsIn
      <4> QED  BY <4>4, <4>6, <4>7, <4>8
    <3> QED  BY <2>1, <3>2, <3>3
  <2>4. /\ unseen' \in [Importers -> SUBSET Nat] /\ unseen'[i] = unseen[i] \ {k}
        /\ \A j \in Importers \ {i} : unseen'[j] = unseen[j]
    BY <1>0, <2>1 DEF TypeOK
  <2>5. TypeOK'
    BY <1>0, <2>2, <2>3, <2>4 DEF TypeOK, DbTypeOK
  <2>6. RunInv(i)'
    <3>1. /\ ImportOn(icfg[i])
          /\ unseen[i] \subseteq PositionsInScope(icfg[i], entries[i])
          /\ \A l \in PositionsInScope(icfg[i], entries[i]) \ unseen[i] : Seen(i, entries[i][l])
      BY <2>2 DEF ImportInv, RunInv
    <3>2. PositionsInScope(icfg[i], entries[i])' = PositionsInScope(icfg[i], entries[i])
      BY <2>2 DEF PositionsInScope, IsStagingEmployee, InScope
    <3>3. ASSUME NEW l \in PositionsInScope(icfg[i], entries[i]), l \notin unseen'[i]
          PROVE  Seen(i, entries[i][l])'
      <4>1. CASE l = k
        BY <2>2, <2>3, <4>1 DEF Seen, Exists, IsBlank
      <4>2. CASE l # k
        <5>1. Seen(i, entries[i][l])
          BY <2>4, <3>1, <3>3, <4>2
        <5> QED  BY <2>2, <2>3, <5>1 DEF Seen, Exists, IsBlank
      <4> QED  BY <4>1, <4>2
    <3>4. \A n \in DOMAIN batch[i]' : BuiltUnder(icfg[i], batch[i][n].row)'
      BY <2>2, <2>3 DEF BuiltUnder, InScope
    <3>5. unseen[i]' \subseteq PositionsInScope(icfg[i], entries[i])'
      BY <2>4, <3>1, <3>2
    <3>6. \A l \in (PositionsInScope(icfg[i], entries[i]) \ unseen[i])' : Seen(i, entries[i][l])'
      BY <3>2, <3>3
    <3> QED  BY <2>2, <3>1, <3>4, <3>5, <3>6 DEF RunInv, ImportOn
  <2>7. ASSUME NEW j \in Importers, j # i PROVE RunInv(j)'
    <3>1. UNCHANGED Locals(j) /\ DOMAIN staging \subseteq DOMAIN staging'
      BY <2>2, <2>3, <2>4, <2>7 DEF Locals
    <3> QED  BY <3>1, RunKept DEF ImportInv
  <2> QED  BY <1>0, <2>2, <2>5, <2>6, <2>7 DEF ImportInv
<1>4. ASSUME NEW i \in Importers, SaveBatch(i) PROVE ImportInv'
  <2>1. CASE BatchFails(batch[i])
    <3>1. EndImport(i) /\ UNCHANGED <<staging, history, audit, config>>
      BY <1>4, <2>1 DEF SaveBatch
    <3> QED  BY <1>0, <3>1, EndEffect DEF ImportInv, TypeOK, DbTypeOK
  <2>2. CASE ~BatchFails(batch[i])
    <3>1. /\ InsertAll(batch[i]) /\ IGoto(i, "report") /\ ipc[i] = "scan" /\ unseen[i] = {}
          /\ UNCHANGED <<history, audit, config, icfg, entries, unseen, batch>>
      BY <1>4, <2>2 DEF SaveBatch
    <3>2. /\ DOMAIN staging' = DOMAIN staging \cup IdsIn(batch[i])
          /\ DbTypeOK' /\ IsFiniteSet(DOMAIN staging')
      BY <1>0, <3>1, InsertEffect DEF TypeOK
    <3>3. TypeOK'
      BY <1>0, <3>1, <3>2 DEF TypeOK, IGoto, IPCs
    <3>4. ipc'[i] = "report" /\ \A j \in Importers \ {i} : ipc'[j] = ipc[j]
      BY <1>0, <3>1 DEF TypeOK, IGoto
    <3>5. RunInv(i)'
      <4>1. \A k \in PositionsInScope(icfg[i], entries[i]) : Seen(i, entries[i][k])
        BY <3>1 DEF ImportInv, RunInv
      <4>2. \A k \in PositionsInScope(icfg[i], entries[i]) :
                IsBlank(entries[i][k]) \/ entries[i][k].id \in DOMAIN staging'
        BY <3>2, <4>1 DEF Seen, Exists
      <4>3. PositionsInScope(icfg[i], entries[i])' = PositionsInScope(icfg[i], entries[i])
        BY <3>1 DEF PositionsInScope, IsStagingEmployee, InScope
      <4>4. ImportOn(icfg[i])' /\ \A k \in DOMAIN batch[i]' : BuiltUnder(icfg[i], batch[i][k].row)'
        BY <3>1 DEF ImportInv, RunInv, ImportOn, BuiltUnder, InScope
      <4>5. \A k \in PositionsInScope(icfg[i], entries[i])' :
                IsBlank(entries[i][k])' \/ Exists(entries[i][k].id)'
        BY <3>1, <4>2, <4>3 DEF IsBlank, Exists
      <4> QED  BY <3>4, <4>4, <4>5 DEF RunInv
    <3>6. ASSUME NEW j \in Importers, j # i PROVE RunInv(j)'
      <4>1. UNCHANGED Locals(j) /\ DOMAIN staging \subseteq DOMAIN staging'
        BY <3>1, <3>2, <3>4, <3>6 DEF Locals
      <4> QED  BY <4>1, RunKept DEF ImportInv
    <3> QED  BY <3>2, <3>3, <3>5, <3>6 DEF ImportInv
  <2> QED  BY <2>1, <2>2
<1>5. ASSUME NEW i \in Importers, Report(i) PROVE ImportInv'
  <2>1. EndImport(i) /\ LogAudit("EmployeeImport", "Completed", NoEmployee)
        /\ UNCHANGED <<staging, history, config>>
    BY <1>5 DEF Report
  <2>2. DbTypeOK'
    BY <1>0, <2>1 DEF TypeOK, DbTypeOK, LogAudit, AuditEntry
  <2> QED  BY <1>0, <2>1, <2>2, EndEffect DEF ImportInv, TypeOK
<1>6. ASSUME NEW i \in Importers, AbortImport(i) PROVE ImportInv'
  <2>1. EndImport(i) /\ UNCHANGED <<staging, history, audit, config>>
    BY <1>6 DEF AbortImport
  <2> QED  BY <1>0, <2>1, EndEffect DEF ImportInv, TypeOK, DbTypeOK
<1>7. ASSUME NEW c \in Configs, Reload(c) PROVE ImportInv'
  <2>1. \A j \in Importers : UNCHANGED Locals(j)
    BY <1>7 DEF Reload, importVars, Locals
  <2>2. TypeOK' /\ UNCHANGED staging
    BY <1>0, <1>7 DEF Reload, importVars, TypeOK, DbTypeOK
  <2> QED  BY <1>0, <2>1, <2>2, RunKept DEF ImportInv
<1>8. CASE Crash
  <2>1. TypeOK' /\ UNCHANGED staging
    BY <1>0, <1>8 DEF Crash, TypeOK, DbTypeOK, IPCs
  <2>2. \A j \in Importers : RunInv(j)'
    BY <1>8 DEF Crash, RunInv
  <2> QED  BY <1>0, <2>1, <2>2 DEF ImportInv
<1>9. CASE UNCHANGED vars
  <2>1. TypeOK' /\ UNCHANGED staging /\ \A j \in Importers : UNCHANGED Locals(j)
    BY <1>0, <1>9 DEF vars, importVars, Locals, TypeOK, DbTypeOK
  <2> QED  BY <1>0, <2>1, RunKept DEF ImportInv
<1> QED
  BY <1>1, <1>2, <1>3, <1>4, <1>5, <1>6, <1>7, <1>8, <1>9
     DEF Next, ImporterStep, AdvanceImport

LEMMA ImportInvariant == Spec => []ImportInv
BY ImportInit, ImportNext, PTL DEF Spec

(* Only a batch that is stored touches the table. *)
LEMMA StagingSteps ==
    ASSUME ImportInv, [Next]_vars, staging' # staging
    PROVE  \E i \in Importers :
               /\ ipc[i] = "scan" /\ ipc'[i] = "report" /\ ImportOn(icfg[i])
               /\ InsertAll(batch[i]) /\ batch[i] \in Seq(NewRow)
               /\ UNCHANGED <<history, audit>>
<1>1. PICK i \in Importers : SaveBatch(i)
  BY DEF Next, ImporterStep, AdvanceImport, BeginImport, FetchDirectory, ScanEntry, Report,
         AbortImport, Reload, Crash, vars
<1>2. /\ InsertAll(batch[i]) /\ IGoto(i, "report") /\ ipc[i] = "scan"
      /\ UNCHANGED <<history, audit>>
  BY <1>1 DEF SaveBatch
<1>3. ipc'[i] = "report" /\ ImportOn(icfg[i]) /\ batch[i] \in Seq(NewRow)
  BY <1>2 DEF IGoto, ImportInv, TypeOK, RunInv
<1> QED  BY <1>2, <1>3

-----------------------------------------------------------------------------
(* The table, the log and what every run holds are of their types.          *)
THEOREM TypeCorrect == Spec => []TypeOK
<1>1. ImportInv => TypeOK
  BY DEF ImportInv
<1> QED  BY <1>1, ImportInvariant, PTL

(* A run that reports completion leaves nobody out whom it was shown and    *)
(* may stage.                                                               *)
THEOREM ReportedImportIsCompleteHolds == Spec => []ReportedImportIsComplete
<1>1. ImportInv => ReportedImportIsComplete
  BY DEF ImportInv, RunInv, ReportedImportIsComplete, PositionsInScope
<1> QED  BY <1>1, ImportInvariant, PTL

(* The row of a newcomer, and the run it comes from. *)
LEMMA NewcomersStep ==
    ASSUME ImportInv, [Next]_vars, NEW e \in DOMAIN staging' \ DOMAIN staging
    PROVE  \E i \in Importers :
               /\ ipc[i] = "scan" /\ ipc'[i] = "report"
               /\ ImportOn(icfg[i]) /\ BuiltUnder(icfg[i], staging'[e])
<1>1. PICK i \in Importers :
          /\ ipc[i] = "scan" /\ ipc'[i] = "report" /\ ImportOn(icfg[i])
          /\ InsertAll(batch[i]) /\ batch[i] \in Seq(NewRow)
          /\ UNCHANGED <<history, audit>>
  BY StagingSteps
<1>2. PICK k \in DOMAIN batch[i] : staging'[e] = batch[i][k].row
  BY <1>1, InsertEffect
<1>3. BuiltUnder(icfg[i], staging'[e])
  BY <1>2 DEF ImportInv, RunInv
<1> QED  BY <1>1, <1>3

(* Rows are born under the flags of the run that stores them.               *)
THEOREM ImportedUnderFlagsHolds == Spec => ImportedUnderFlags
<1> DEFINE Born == \A e \in DOMAIN staging' \ DOMAIN staging :
             \E i \in Importers :
                 /\ ipc[i] = "scan" /\ ipc'[i] = "report"
                 /\ ImportOn(icfg[i]) /\ InScope(icfg[i], staging'[e].email)
                 /\ staging'[e].processed = icfg[i].baseline
                 /\ icfg[i].baseline => ~staging'[e].active
<1>1. ImportInv /\ [Next]_vars => [Born]_vars
  BY NewcomersStep DEF BuiltUnder
<1> QED  BY <1>1, ImportInvariant, PTL DEF Spec, ImportedUnderFlags

-----------------------------------------------------------------------------
(* A directory with an entry in scope that does not fit, or an id in it     *)
(* twice.                                                                   *)
HasMisfit(c, d) ==
    LET new == {k \in PositionsInScope(c, d) : ~IsBlank(d[k])}
    IN  \/ \E k \in new : ~d[k].storable
        \/ \E k, l \in new : k # l /\ d[k].id = d[l].id

(* All or nothing, for ever: as long as BambooHR lists one employee who     *)
(* cannot be stored, no import stores anybody, for everything a run has     *)
(* collected goes in one SaveChanges and the next run collects it again.    *)
MisfitBlocksAll ==
    (\A c \in Configs, d \in Directories : NobodyInScope(c) \/ HasMisfit(c, d))
        => DOMAIN staging = {}

(* One misfit blocks the import.  While the table is empty no entry is      *)
(* skipped as known, so what a run has passed in its directory is in its    *)
(* batch, as it is and as often as it is there; a directory with a misfit   *)
(* then makes a batch that fails.                                           *)

Passed(i) ==
    {k \in PositionsInScope(icfg[i], entries[i]) \ unseen[i] : ~IsBlank(entries[i][k])}

CollectedInv(i) ==
    ipc[i] = "scan" =>
        /\ entries[i] \in Directories
        /\ ~NobodyInScope(icfg[i])
        /\ \A k \in Passed(i) : \E n \in DOMAIN batch[i] :
              /\ batch[i][n].id = entries[i][k].id
              /\ batch[i][n].storable = entries[i][k].storable
        /\ \A k, l \in Passed(i) : k # l => \E n, m \in DOMAIN batch[i] :
              /\ n # m
              /\ batch[i][n].id = entries[i][k].id
              /\ batch[i][m].id = entries[i][l].id

BlockedInv == DOMAIN staging = {} /\ \A i \in Importers : CollectedInv(i)

LEMMA MisfitFails ==
    ASSUME ImportInv, NEW i \in Importers, CollectedInv(i), ipc[i] = "scan", unseen[i] = {},
           HasMisfit(icfg[i], entries[i])
    PROVE  BatchFails(batch[i])
<1>1. Passed(i) = {k \in PositionsInScope(icfg[i], entries[i]) : ~IsBlank(entries[i][k])}
  BY DEF Passed
<1>2. CASE \E k \in Passed(i) : ~entries[i][k].storable
  BY <1>2 DEF CollectedInv, BatchFails
<1>3. CASE \E k, l \in Passed(i) : k # l /\ entries[i][k].id = entries[i][l].id
  BY <1>3 DEF CollectedInv, BatchFails
<1> QED  BY <1>1, <1>2, <1>3 DEF HasMisfit

LEMMA CollectedScan ==
    ASSUME ImportInv, DOMAIN staging = {}, NEW i \in Importers, CollectedInv(i), ScanEntry(i)
    PROVE  CollectedInv(i)'
<1> DEFINE b == batch[i]
           d == entries[i]
<1>1. PICK k \in unseen[i] :
          /\ unseen' = [unseen EXCEPT ![i] = @ \ {k}]
          /\ \/ IsBlank(d[k]) /\ UNCHANGED batch
             \/ /\ ~IsBlank(d[k])
                /\ batch' = [batch EXCEPT ![i] = Append(@,
                      [id |-> d[k].id, storable |-> d[k].storable,
                       row |-> StagedRow(icfg[i], d[k], Len(@) + 1)])]
  BY DEF ScanEntry, Exists
<1>2. /\ ipc[i] = "scan" /\ UNCHANGED <<ipc, icfg, entries>>
      /\ unseen'[i] = unseen[i] \ {k}
      /\ k \in PositionsInScope(icfg[i], d)
      /\ b \in Seq(NewRow)
  BY <1>1 DEF ScanEntry, ImportInv, TypeOK, RunInv
<1>3. CASE IsBlank(d[k]) /\ UNCHANGED batch
  <2>1. Passed(i)' = Passed(i)
    BY <1>1, <1>2, <1>3 DEF Passed, PositionsInScope, IsStagingEmployee, IsBlank
  <2> QED  BY <1>2, <1>3, <2>1 DEF CollectedInv
<1>4. ASSUME ~IsBlank(d[k]),
             NEW new, new = [id |-> d[k].id, storable |-> d[k].storable,
                             row |-> StagedRow(icfg[i], d[k], Len(b) + 1)],
             batch' = [batch EXCEPT ![i] = Append(b, new)]
      PROVE  CollectedInv(i)'
  <2>1. new \in NewRow
    BY <1>2, <1>4, RowType
  <2>2. batch'[i] = Append(b, new)
    BY <1>4 DEF ImportInv, TypeOK
  <2>3. /\ DOMAIN batch'[i] = DOMAIN b \cup {Len(b) + 1}
        /\ batch'[i][Len(b) + 1] = new /\ Len(b) + 1 \notin DOMAIN b
        /\ \A n \in DOMAIN b : batch'[i][n] = b[n]
    BY <1>2, <2>1, <2>2
  <2>4. Passed(i)' = Passed(i) \cup {k} /\ k \notin Passed(i)
    BY <1>2, <1>4 DEF Passed, PositionsInScope, IsStagingEmployee, IsBlank
  <2>5. new.id = d[k].id /\ new.storable = d[k].storable
    BY <1>4
  <2> QED  BY <1>2, <2>3, <2>4, <2>5 DEF CollectedInv
<1> QED  BY <1>1, <1>3, <1>4

LEMMA BlockedNext ==
    ASSUME ImportInv, BlockedInv, [Next]_vars,
           \A c \in Configs, d \in Directories : NobodyInScope(c) \/ HasMisfit(c, d)
    PROVE  BlockedInv'
<1>1. DOMAIN staging' = {}
  <2> SUFFICES ASSUME NEW i \in Importers, SaveBatch(i), staging' # staging PROVE FALSE
    BY DEF BlockedInv, Next, ImporterStep, AdvanceImport, BeginImport, FetchDirectory,
       ScanEntry, Report, AbortImport, Reload, Crash, vars
  <2>1. ipc[i] = "scan" /\ unseen[i] = {} /\ ~BatchFails(batch[i]) /\ CollectedInv(i)
    BY DEF SaveBatch, BlockedInv
  <2>2. icfg[i] \in Configs /\ entries[i] \in Directories /\ ~NobodyInScope(icfg[i])
    BY <2>1 DEF CollectedInv, ImportInv, TypeOK
  <2> QED  BY <2>1, <2>2, MisfitFails
<1>2. ASSUME NEW i \in Importers PROVE CollectedInv(i)'
  <2>1. CASE UNCHANGED Locals(i)
    <3>1. /\ ipc'[i] = ipc[i] /\ icfg'[i] = icfg[i] /\ entries'[i] = entries[i]
          /\ unseen'[i] = unseen[i] /\ batch'[i] = batch[i]
      BY <2>1 DEF Locals
    <3>2. Passed(i)' = Passed(i)
      BY <3>1 DEF Passed, PositionsInScope, IsStagingEmployee, InScope, IsBlank
    <3>3. NobodyInScope(icfg[i])' <=> NobodyInScope(icfg[i])
      BY <3>1 DEF NobodyInScope
    <3>4. CollectedInv(i)
      BY DEF BlockedInv
    <3> QED  BY <3>1, <3>2, <3>3, <3>4 DEF CollectedInv
  <2>2. CASE ScanEntry(i)
    BY <2>2, CollectedScan DEF BlockedInv
  <2>3. CASE FetchDirectory(i) /\ ipc'[i] = "scan"
    <3>1. PICK d \in Directories :
              /\ entries' = [entries EXCEPT ![i] = d]
              /\ unseen' = [unseen EXCEPT ![i] = PositionsInScope(icfg[i], d)]
              /\ ~NobodyInScope(icfg[i]) /\ UNCHANGED icfg
      BY <2>3 DEF FetchDirectory, EndImport, IGoto, ImportInv, TypeOK
    <3>2. entries'[i] = d /\ unseen'[i] = PositionsInScope(icfg'[i], entries'[i])
      BY <3>1 DEF ImportInv, TypeOK
    <3>3. Passed(i)' = {}
      BY <3>1, <3>2 DEF Passed, PositionsInScope, IsStagingEmployee
    <3> QED  BY <3>1, <3>2, <3>3 DEF CollectedInv, NobodyInScope
  <2>4. CASE ipc'[i] # "scan"
    BY <2>4 DEF CollectedInv
  <2>5. \/ UNCHANGED Locals(i) \/ ScanEntry(i) \/ ipc'[i] # "scan"
        \/ FetchDirectory(i) /\ ipc'[i] = "scan"
    <3>1. ASSUME NEW j \in Importers, j # i, ImporterStep(j) PROVE UNCHANGED Locals(i)
      BY <3>1 DEF ImporterStep, AdvanceImport, BeginImport, FetchDirectory, ScanEntry,
         SaveBatch, Report, AbortImport, EndImport, IGoto, Locals, ImportInv, TypeOK
    <3>2. ASSUME ImporterStep(i)
          PROVE  ScanEntry(i) \/ ipc'[i] # "scan" \/ (FetchDirectory(i) /\ ipc'[i] = "scan")
      BY <3>2 DEF ImporterStep, AdvanceImport, BeginImport, SaveBatch, Report, AbortImport,
         EndImport, IGoto, ImportInv, TypeOK
    <3>3. CASE Crash
      BY <3>3 DEF Crash
    <3>4. ASSUME NEW c \in Configs, Reload(c) PROVE UNCHANGED Locals(i)
      BY <3>4 DEF Reload, importVars, Locals
    <3>5. CASE UNCHANGED vars
      BY <3>5 DEF vars, importVars, Locals
    <3> QED  BY <3>1, <3>2, <3>3, <3>4, <3>5 DEF Next
  <2> QED  BY <2>1, <2>2, <2>3, <2>4, <2>5
<1> QED  BY <1>1, <1>2 DEF BlockedInv

(* One employee who cannot be stored keeps everybody out, for any number of *)
(* importers, with and without faults.                                      *)
THEOREM MisfitBlocksAllHolds == Spec => []MisfitBlocksAll
<1> DEFINE Always == \A c \in Configs, d \in Directories : NobodyInScope(c) \/ HasMisfit(c, d)
<1>1. CASE Always
  <2>1. Init => BlockedInv
    BY DEF Init, BlockedInv, CollectedInv
  <2>2. ImportInv /\ BlockedInv /\ [Next]_vars => BlockedInv'
    BY <1>1, BlockedNext
  <2>3. BlockedInv => MisfitBlocksAll
    BY DEF BlockedInv, MisfitBlocksAll
  <2> QED  BY <2>1, <2>2, <2>3, ImportInvariant, PTL DEF Spec
<1>2. CASE ~Always
  <2>1. MisfitBlocksAll
    BY <1>2 DEF MisfitBlocksAll
  <2> QED  BY <2>1, PTL
<1> QED  BY <1>1, <1>2

=============================================================================
