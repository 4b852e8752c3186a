------------------------- MODULE StoreCreditorProofs -------------------------
(***************************************************************************)
(* Theorems about StoreCreditor: both jobs on one database, any number of  *)
(* credit workers and importers, any directories and configurations, and   *)
(* any combination of faults.  Each job's own proofs are used as they are: *)
(* a step of one job disturbs nothing the steps of the other depend on.    *)
(***************************************************************************)
EXTENDS StoreCreditor, CreditIssuingProofs, FiniteSetTheorems, SequenceTheorems

-----------------------------------------------------------------------------
(* The import by itself, with the faults it has here: a module of its own,  *)
(* whose invariant and lemmas hold of the import inside the system because  *)
(* its steps are the same.                                                  *)
ByItself == INSTANCE EmployeeImportProofs
              WITH Faults <- FetchFaults \cup (Faults \cap {"dbError", "crash"})

(* What EmployeeImport assumes of its constants, the system assumes too. *)
LEMMA ImportAssumptionsHold ==
    /\ Configs \subseteq ByItself!Config
    /\ Directories \subseteq Seq(ByItself!Entry)
    /\ FetchFaults \cup (Faults \cap {"dbError", "crash"}) \subseteq ByItself!ImportFaults
    /\ NoEmail \notin ByItself!Email
BY SystemAssumption, CreditAssumption DEF Config, ByItself!Config, Import!Entry,
   ByItself!Entry, ByItself!ImportFaults, Email, Import!Email, ByItself!Email

LEMMA SameStart == Import!Init => ByItself!Init
BY DEF Import!Init, ByItself!Init

LEMMA SameCrash == Import!Crash => ByItself!Crash
BY DEF Import!Crash, ByItself!Crash

LEMMA SameSteps ==
    ASSUME NEW i \in Importers, Import!ImporterStep(i)
    PROVE  ByItself!ImporterStep(i)
<1> USE DEF ByItself!ImporterStep, ByItself!AdvanceImport, Import!IGoto, ByItself!IGoto,
        Import!EndImport, ByItself!EndImport, Import!LogAudit, ByItself!LogAudit
<1>1. CASE Import!BeginImport(i)
  BY <1>1 DEF Import!BeginImport, ByItself!BeginImport, Import!ImportOn, ByItself!ImportOn
<1>2. CASE Import!FetchDirectory(i)
  BY <1>2 DEF Import!FetchDirectory, ByItself!FetchDirectory, Import!NobodyInScope,
     ByItself!NobodyInScope, Import!PositionsInScope, ByItself!PositionsInScope,
     Import!IsStagingEmployee, ByItself!IsStagingEmployee, Import!InScope, ByItself!InScope
<1>3. CASE Import!ScanEntry(i)
  <2>1. \A S : Import!Cardinality(S) = ByItself!Cardinality(S)
    BY DEF Import!Cardinality, ByItself!Cardinality
  <2> QED
    BY <1>3, <2>1 DEF Import!ScanEntry, ByItself!ScanEntry, Import!IsBlank, ByItself!IsBlank,
       Import!Exists, ByItself!Exists, Import!StagedRow, ByItself!StagedRow
<1>4. CASE Import!SaveBatch(i)
  BY <1>4 DEF Import!SaveBatch, ByItself!SaveBatch, Import!BatchFails, ByItself!BatchFails,
     Import!Exists, ByItself!Exists, Import!InsertAll, ByItself!InsertAll, Import!IdsIn,
     ByItself!IdsIn, Import!RowFor, ByItself!RowFor
<1>5. CASE Import!Report(i) \/ Import!AbortImport(i)
  BY <1>5 DEF Import!Report, ByItself!Report, Import!AbortImport, ByItself!AbortImport
<1> QED
  BY <1>1, <1>2, <1>3, <1>4, <1>5 DEF Import!ImporterStep, Import!AdvanceImport

-----------------------------------------------------------------------------
(* Whoever a credit run is beyond the validation with is active. *)
ActiveInv ==
    \A w \in Workers :
        pc[w] \in {"checkEmail", "settle", "post", "record"} => staging[emp[w]].active

(* What each job needs of its own state. *)
CreditInv == WorkerInv /\ SettleInv /\ ActiveInv /\ AloneInv

SystemInv == CreditInv /\ ByItself!ImportInv

-----------------------------------------------------------------------------
(* A batch is born done and inactive, all of it, or open, all of it; the    *)
(* table grows by the rows of one batch, or not at all.                     *)

Baselined(c, row) ==
    /\ row.processed = c.baseline
    /\ c.baseline => ~row.active

Grows(c, ids) ==
    /\ c \in Config
    /\ ids \subseteq EmployeeIds \ DOMAIN staging
    /\ DOMAIN staging' = DOMAIN staging \cup ids
    /\ staging' \in [DOMAIN staging' -> StagingRow]
    /\ \A e \in DOMAIN staging : staging'[e] = staging[e]
    /\ \A e \in ids : Baselined(c, staging'[e])

LEMMA ImportGrows ==
    ASSUME SystemInv, NEW i \in Importers, ImportStep(i), staging' # staging
    PROVE  \E c, ids : Grows(c, ids)
<1>0. ByItself!ImportInv /\ [ByItself!Next]_ByItself!vars
  BY SameSteps DEF SystemInv, ImportStep, ByItself!Next
<1>1. PICK j \in Importers :
          /\ ByItself!InsertAll(batch[j]) /\ batch[j] \in Seq(ByItself!NewRow)
          /\ UNCHANGED <<history, audit>>
  BY <1>0, ByItself!StagingSteps, ImportAssumptionsHold, DbAssumption
<1> DEFINE ids == ByItself!IdsIn(batch[j]) \ DOMAIN staging
<1>2. /\ DOMAIN staging' = DOMAIN staging \cup ByItself!IdsIn(batch[j])
      /\ \A e \in DOMAIN staging : staging'[e] = staging[e]
      /\ \A e \in ids : \E k \in DOMAIN batch[j] : staging'[e] = batch[j][k].row
      /\ ByItself!DbTypeOK'
  BY <1>0, <1>1, ByItself!InsertEffect, ImportAssumptionsHold, DbAssumption
<1>3. \A k \in DOMAIN batch[j] : Baselined(icfg[j], batch[j][k].row)
  BY <1>0 DEF ByItself!ImportInv, ByItself!RunInv, ByItself!BuiltUnder, Baselined
<1>4. DOMAIN staging' \subseteq EmployeeIds /\ staging' \in [DOMAIN staging' -> StagingRow]
  BY <1>2 DEF ByItself!DbTypeOK, ByItself!StagingRow, ByItself!Email, StagingRow, Email
<1>5. icfg[j] \in Config
  BY <1>0, CreditAssumption DEF ByItself!ImportInv, ByItself!TypeOK
<1> HIDE DEF ids
<1>6. Grows(icfg[j], ids)
  BY <1>2, <1>3, <1>4, <1>5 DEF Grows, ids
<1> QED  BY <1>6

(* An import's step, seen from the tables. *)
LEMMA ImportTables ==
    ASSUME SystemInv, NEW i \in Importers, ImportStep(i)
    PROVE  /\ UNCHANGED <<history, config>>
           /\ UNCHANGED creditVars
           /\ audit' \subseteq AuditEntry
           /\ \A a \in audit' \ audit : a.action \in {"Skipped", "Completed"}
           /\ UNCHANGED staging \/ \E c, ids : Grows(c, ids)
<1>1. audit \subseteq AuditEntry
  BY DEF SystemInv, CreditInv, WorkerInv, TypeOK, DbTypeOK
<1>2. UNCHANGED <<history, config>> /\ UNCHANGED creditVars
  BY DEF ImportStep, Import!ImporterStep, Import!AdvanceImport, Import!BeginImport,
     Import!FetchDirectory, Import!ScanEntry, Import!SaveBatch, Import!Report,
     Import!AbortImport
<1>3. /\ audit' \subseteq AuditEntry
      /\ \A a \in audit' \ audit : a.action \in {"Skipped", "Completed"}
  <2>1. \/ audit' = audit
        \/ Import!LogAudit("EmployeeImport", "Skipped", NoEmployee)
        \/ Import!LogAudit("EmployeeImport", "Completed", NoEmployee)
    BY DEF ImportStep, Import!ImporterStep, Import!AdvanceImport, Import!BeginImport,
       Import!FetchDirectory, Import!ScanEntry, Import!SaveBatch, Import!Report,
       Import!AbortImport
  <2> QED  BY <1>1, <2>1 DEF Import!LogAudit, AuditEntry
<1> QED  BY <1>2, <1>3, ImportGrows

(* The credit job does not notice.                                          *)
LEMMA ImportKeepsCredit ==
    ASSUME SystemInv, NEW i \in Importers, ImportStep(i)
    PROVE  CreditInv'
<1>1. /\ UNCHANGED <<history, config>>
      /\ UNCHANGED creditVars
      /\ audit' \subseteq AuditEntry
      /\ DOMAIN staging \subseteq DOMAIN staging'
      /\ DOMAIN staging' \subseteq EmployeeIds
      /\ staging' \in [DOMAIN staging' -> StagingRow]
      /\ \A e \in DOMAIN staging : staging'[e] = staging[e]
  BY ImportTables DEF Grows, SystemInv, CreditInv, WorkerInv, TypeOK, DbTypeOK
<1>2. UNCHANGED <<pc, cfg, todo, emp, outcome, tries, credits>>
  BY <1>1 DEF creditVars, runVars
<1>3. TypeOK /\ EmpInv
  BY DEF SystemInv, CreditInv, WorkerInv
<1>4. WorkerInv'
  <2>1. TypeOK'
    BY <1>1, <1>2, <1>3 DEF TypeOK, DbTypeOK
  <2> QED  BY <1>2, <2>1 DEF SystemInv, CreditInv, WorkerInv, EmpInv, OutcomeInv, InLoop
<1>5. \A w \in Workers : pc[w] \in InLoop => emp[w] \in DOMAIN staging
  BY <1>3 DEF TypeOK, EmpInv
<1>6. SettleInv'
  BY <1>1, <1>2, <1>5 DEF SystemInv, CreditInv, SettleInv, Evidence, HistoryRows, InLoop
<1>7. ActiveInv'
  BY <1>1, <1>2, <1>5 DEF SystemInv, CreditInv, ActiveInv, InLoop
<1>8. AloneInv'
  BY <1>1, <1>2, <1>5 DEF SystemInv, CreditInv, AloneInv, NoAttempt, HistoryRows, InLoop,
     HasNewEmployeeCreditAttempt
<1> QED  BY <1>4, <1>6, <1>7, <1>8 DEF CreditInv

-----------------------------------------------------------------------------
(* The other way round: a step of the credit job leaves the import alone.   *)
LEMMA CreditKeepsImport ==
    ASSUME SystemInv, [Next]_vars, UNCHANGED importVars
    PROVE  ByItself!ImportInv'
<1>1. DOMAIN staging' = DOMAIN staging
  BY StepMonotone DEF Monotone, SystemInv, CreditInv
<1>2. DbTypeOK' /\ config' \in Configs
  BY WorkerNext DEF SystemInv, CreditInv, WorkerInv, TypeOK
<1>3. ByItself!TypeOK'
  <2>1. ByItself!DbTypeOK'
    BY <1>2 DEF DbTypeOK, ByItself!DbTypeOK, StagingRow, ByItself!StagingRow, Email,
       ByItself!Email, HistoryRow, ByItself!HistoryRow, AuditEntry, ByItself!AuditEntry
  <2> QED
    BY <1>2, <2>1 DEF SystemInv, ByItself!ImportInv, ByItself!TypeOK, importVars,
       ByItself!IPCs, ByItself!Entry, ByItself!NewRow, ByItself!StagingRow
<1>4. ASSUME NEW i \in Importers PROVE ByItself!RunInv(i)'
  <2>1. ByItself!RunInv(i) /\ UNCHANGED ByItself!Locals(i)
    BY DEF SystemInv, ByItself!ImportInv, importVars, ByItself!Locals
  <2> QED  BY <1>1, <2>1, ByItself!RunKept, ImportAssumptionsHold, DbAssumption
<1> QED  BY <1>1, <1>3, <1>4 DEF SystemInv, ByItself!ImportInv

(* The activity a run has seen is not taken back. *)
LEMMA ActiveNext == WorkerInv /\ ActiveInv /\ [Next]_vars => ActiveInv'
<1> SUFFICES ASSUME WorkerInv, ActiveInv, [Next]_vars, NEW w \in Workers,
                    pc'[w] \in {"checkEmail", "settle", "post", "record"}
             PROVE  staging'[emp'[w]].active
  BY DEF ActiveInv
<1>0. TypeOK /\ Monotone
  BY StepMonotone DEF WorkerInv
<1>1. CASE CheckEmployee(w)
  <2>1. PICK e \in todo[w] : IsValid(staging[e]) /\ emp' = [emp EXCEPT ![w] = e]
    BY <1>0, <1>1 DEF CheckEmployee, Earliest, Goto, TypeOK
  <2>2. e \in DOMAIN staging /\ emp'[w] = e
    BY <1>0, <2>1 DEF TypeOK
  <2> QED  BY <1>0, <2>1, <2>2 DEF IsValid, Monotone
<1>2. CASE pc[w] \in {"checkEmail", "settle", "post", "record"} /\ emp'[w] = emp[w]
  <2>1. emp[w] \in DOMAIN staging /\ staging[emp[w]].active
    BY <1>0, <1>2 DEF ActiveInv, WorkerInv, EmpInv, InLoop, TypeOK
  <2> QED  BY <1>0, <1>2, <2>1 DEF Monotone
<1>3. \/ CheckEmployee(w)
      \/ pc[w] \in {"checkEmail", "settle", "post", "record"} /\ emp'[w] = emp[w]
  BY <1>0 DEF Next, WorkerStep, Advance, vars, runVars, Goto, Finish, Answer, TypeOK,
     BeginRun, LoadPending, CheckEmployee, CheckAttempt, SettleDuplicate, Record, Audit,
     EndRun, AbortRun, Reload, Crash, PostAnswered, PostUnanswered, PostAccepted, PostRefused,
     PostGarbled, PostExhausted, PostRetried, PostTimesOut
<1> QED  BY <1>1, <1>2, <1>3

LEMMA CreditNext == CreditInv /\ [Next]_vars => CreditInv'
BY WorkerNext, SettleInvNext, ActiveNext, AloneNext DEF CreditInv

-----------------------------------------------------------------------------
LEMMA SystemStart == SystemInit => SystemInv
<1> SUFFICES ASSUME SystemInit PROVE SystemInv
  OBVIOUS
<1>1. WorkerInv
  BY WorkerInit DEF SystemInit
<1>2. SettleInv /\ ActiveInv /\ AloneInv
  BY DEF SystemInit, Init, SettleInv, ActiveInv, AloneInv
<1>3. ByItself!ImportInv
  BY SameStart, ByItself!ImportInit, ImportAssumptionsHold, DbAssumption DEF SystemInit
<1> QED  BY <1>1, <1>2, <1>3 DEF SystemInv, CreditInv

(* Every step of either job is one of the credit job's actions, which the   *)
(* import does not notice, or one of the import's.                          *)
LEMMA SystemSteps ==
    ASSUME [SystemNext]_systemVars
    PROVE  \/ [Next]_vars /\ (UNCHANGED importVars \/ (Crash /\ Import!Crash))
           \/ \E i \in Importers : ImportStep(i)
<1>1. CASE UNCHANGED systemVars
  BY <1>1 DEF systemVars
<1>2. CASE SystemNext
  <2>1. ASSUME NEW w \in Workers, CreditStep(w) PROVE Next /\ UNCHANGED importVars
    BY <2>1 DEF CreditStep, Next
  <2>2. ASSUME NEW c \in Configs, Edit(c) PROVE Next /\ UNCHANGED importVars
    BY <2>2 DEF Edit, Next
  <2>3. ASSUME ProcessDies PROVE Next /\ Crash /\ Import!Crash
    BY <2>3 DEF ProcessDies, Next
  <2> QED  BY <1>2, <2>1, <2>2, <2>3 DEF SystemNext
<1> QED  BY <1>1, <1>2

LEMMA SystemKept == SystemInv /\ [SystemNext]_systemVars => SystemInv'
<1> SUFFICES ASSUME SystemInv, [SystemNext]_systemVars PROVE SystemInv'
  OBVIOUS
<1>0. [ByItself!Next]_ByItself!vars => ByItself!ImportInv'
  BY ByItself!ImportNext, ImportAssumptionsHold, DbAssumption DEF SystemInv
<1>1. CASE [Next]_vars /\ UNCHANGED importVars
  BY <1>1, CreditNext, CreditKeepsImport DEF SystemInv
<1>2. CASE [Next]_vars /\ Crash /\ Import!Crash
  BY <1>0, <1>2, SameCrash, CreditNext DEF SystemInv, ByItself!Next
<1>3. ASSUME NEW i \in Importers, ImportStep(i) PROVE SystemInv'
  BY <1>0, <1>3, SameSteps, ImportKeepsCredit DEF SystemInv, ImportStep, ByItself!Next
<1> QED  BY <1>1, <1>2, <1>3, SystemSteps

LEMMA SystemInvariant == SystemSpec => []SystemInv
BY SystemStart, SystemKept, PTL DEF SystemSpec

-----------------------------------------------------------------------------
(* What the credit job promises of the tables and of Axomo's side, with the *)
(* facts its own proofs rest on: a row that appears is neither settled and  *)
(* active at once nor on anybody's list, and the import books nothing.      *)

PromiseInv ==
    /\ UniqueSuccess
    /\ BackedInv /\ SuccessRowBacked
    /\ ProcessedHasEvidence
    /\ AuditInv
    /\ AuthInv
    /\ RowsSettled
    /\ Faults \subseteq {"transient", "garbled"} =>
          \A w \in Workers : BoundOf(w) /\ RecordOf(w)

LEMMA PromisesAtStart == Init => PromiseInv
BY CreditAssumption DEF Init, PromiseInv, UniqueSuccess, BackedInv, SuccessRowBacked,
   ProcessedHasEvidence, AuditInv, AuthInv, RowsSettled, BoundOf, RecordOf, HistoryRows,
   SendsPerRequest

LEMMA CreditKeepsPromises == WorkerInv /\ SettleInv /\ PromiseInv /\ [Next]_vars => PromiseInv'
<1> SUFFICES ASSUME WorkerInv, SettleInv, PromiseInv, [Next]_vars PROVE PromiseInv'
  OBVIOUS
<1> USE DEF PromiseInv
<1>1. WorkerInv'
  BY WorkerNext
<1>2. UniqueSuccess' /\ BackedInv' /\ SuccessRowBacked'
  BY <1>1, UniqueNext, BackedInvNext, BackedNext
<1>3. ProcessedHasEvidence' /\ AuditInv' /\ AuthInv' /\ RowsSettled'
  BY ProcessedNext, AuditInvNext, AuthInvNext, RowsSettledNext
<1>4. ASSUME Faults \subseteq {"transient", "garbled"}, NEW w \in Workers
      PROVE  BoundOf(w)' /\ RecordOf(w)'
  BY <1>4, BoundOfNext, RecordOfNext
<1> QED  BY <1>2, <1>3, <1>4

LEMMA ImportKeepsPromises ==
    ASSUME SystemInv, PromiseInv, NEW i \in Importers, ImportStep(i)
    PROVE  PromiseInv'
<1>1. /\ UNCHANGED <<history, pc, cfg, todo, emp, outcome, tries, credits>>
      /\ \A a \in audit' \ audit : a.action \in {"Skipped", "Completed"}
      /\ DOMAIN staging \subseteq DOMAIN staging'
      /\ \A e \in DOMAIN staging : staging'[e] = staging[e]
      /\ \A e \in DOMAIN staging' \ DOMAIN staging :
            staging'[e].processed => ~staging'[e].active
  <2>1. \A c, ids : Grows(c, ids) =>
            /\ DOMAIN staging \subseteq DOMAIN staging'
            /\ \A e \in DOMAIN staging : staging'[e] = staging[e]
            /\ \A e \in DOMAIN staging' \ DOMAIN staging :
                  staging'[e].processed => ~staging'[e].active
    BY DEF Grows, Baselined
  <2> QED  BY <2>1, ImportTables DEF creditVars, runVars
<1>2. TypeOK /\ EmpInv
  BY DEF SystemInv, CreditInv, WorkerInv
<1>3. \A w \in Workers : /\ todo[w] \subseteq DOMAIN staging
                         /\ pc[w] \in InLoop => emp[w] \in DOMAIN staging
  BY <1>2 DEF TypeOK, EmpInv
<1>4. \A e : Settled(e) => Settled(e)'
  BY <1>1 DEF Settled
<1>5. UniqueSuccess' /\ BackedInv' /\ SuccessRowBacked'
  BY <1>1 DEF PromiseInv, UniqueSuccess, BackedInv, SuccessRowBacked, HistoryRows
<1>6. ProcessedHasEvidence'
  BY <1>1 DEF PromiseInv, ProcessedHasEvidence, HistoryRows
<1>7. AuditInv'
  <2>1. \A a, e : Truth(a, e) => Truth(a, e)'
    BY <1>1, <1>4 DEF Truth, HistoryRows
  <2>2. \A e : Truth("Skipped", e)' /\ Truth("Completed", e)'
    BY DEF Truth
  <2>3. \A w \in Workers : pc'[w] = "audit" => Truth(outcome[w], emp[w])'
    BY <1>1, <2>1 DEF PromiseInv, AuditInv, Truth, Settled
  <2>4. ASSUME NEW a \in audit' PROVE Truth(a.action, a.employee)'
    BY <1>1, <2>1, <2>2, <2>4 DEF PromiseInv, AuditInv
  <2> QED  BY <1>1, <2>3, <2>4 DEF AuditInv, Truth, Settled
<1>8. AuthInv'
  BY <1>1, <1>3 DEF PromiseInv, AuthInv, InScope, IsValid, InLoop
<1>9. RowsSettled'
  BY <1>1, <1>4 DEF PromiseInv, RowsSettled, HistoryRows
<1>10. ASSUME Faults \subseteq {"transient", "garbled"}, NEW w \in Workers
       PROVE  BoundOf(w)' /\ RecordOf(w)'
  BY <1>1, <1>4, <1>10 DEF PromiseInv, BoundOf, RecordOf, OnRecord, HistoryRows
<1> QED  BY <1>5, <1>6, <1>7, <1>8, <1>9, <1>10 DEF PromiseInv

LEMMA PromisesKept == SystemInv /\ PromiseInv /\ [SystemNext]_systemVars => PromiseInv'
BY SystemSteps, CreditKeepsPromises, ImportKeepsPromises DEF SystemInv, CreditInv

LEMMA PromiseInvariant == SystemSpec => []PromiseInv
BY PromisesAtStart, PromisesKept, SystemInvariant, PTL DEF SystemSpec, SystemInit

(* What is proved of the credit job alone it keeps while imports insert     *)
(* under it: unique and backed successes, evidence for whoever left the     *)
(* queue, and a truthful audit log.                                         *)
THEOREM CreditPromisesKept ==
    SystemSpec => [](UniqueSuccess /\ SuccessRowBacked /\ ProcessedHasEvidence /\ AuditTruthful)
<1>1. PromiseInv => UniqueSuccess /\ SuccessRowBacked /\ ProcessedHasEvidence /\ AuditTruthful
  BY DEF PromiseInv, AuditInv, AuditTruthful, Truth, Settled
<1> QED  BY <1>1, PromiseInvariant, PTL

(* So are, when nothing worse happens than failed or unreadable answers,    *)
(* the bound on a worker's credits and the record of each of them.          *)
THEOREM CreditBoundsKept ==
    SystemSpec => [](CreditsBoundedPerWorker /\ CreditOnRecordUnlessCut)
<1>1. SystemInv /\ PromiseInv => CreditsBoundedPerWorker
  <2> SUFFICES ASSUME SystemInv, PromiseInv, Faults \subseteq {"transient", "garbled"},
                      NEW w \in Workers, NEW e \in EmployeeIds
               PROVE  credits[w][e] <= SendsPerRequest
    BY DEF CreditsBoundedPerWorker
  <2>1. credits[w][e] \in Nat /\ SendsPerRequest \in Nat
    BY CreditAssumption DEF SystemInv, CreditInv, WorkerInv, TypeOK, SendsPerRequest
  <2>2. credits[w][e] > 0 => credits[w][e] <= SendsPerRequest
    BY DEF PromiseInv, BoundOf
  <2> QED  BY <2>1, <2>2
<1>2. PromiseInv => CreditOnRecordUnlessCut
  BY DEF PromiseInv, RecordOf, OnRecord, CreditOnRecordUnlessCut
<1> QED  BY <1>1, <1>2, SystemInvariant, PromiseInvariant, PTL

(* A credit worker that gets every answer gives nobody two credits, however *)
(* many imports run beside it.                                              *)
THEOREM OneTimeCreditInSystem ==
    ASSUME NEW w, Workers = {w}, Faults \subseteq {"garbled"}
    PROVE  SystemSpec => []OneTimeCredit
<1>1. SystemInv /\ CreditsBoundedPerWorker => OneTimeCredit
  BY DEF SystemInv, CreditInv, WorkerInv, TypeOK, CreditsBoundedPerWorker, OneTimeCredit,
     SendsPerRequest
<1> QED  BY <1>1, SystemInvariant, CreditBoundsKept, PTL

(* Money moves only under flags that allow it, also for an employee whom an *)
(* import staged after the run began.                                       *)
THEOREM CreditsAuthorisedInSystem == SystemSpec => CreditsAuthorised
<1> DEFINE Allowed == \A w \in Workers, e \in EmployeeIds :
              credits'[w][e] # credits[w][e] => Authorises(cfg[w], staging[e])
<1>1. SystemInv /\ PromiseInv /\ [SystemNext]_systemVars => [Allowed]_vars
  <2> SUFFICES ASSUME SystemInv, PromiseInv, [SystemNext]_systemVars,
                      NEW w \in Workers, NEW e \in EmployeeIds,
                      credits'[w][e] # credits[w][e]
               PROVE  Authorises(cfg[w], staging[e])
    OBVIOUS
  <2>1. [Next]_vars
    BY SystemSteps DEF ImportStep, creditVars
  <2>2. pc[w] = "post" /\ e = emp[w] /\ e \in todo[w]
    BY <2>1, CreditsMove DEF SystemInv, CreditInv
  <2> QED  BY <2>2 DEF PromiseInv, AuthInv, Authorises
<1> QED  BY <1>1, SystemInvariant, PromiseInvariant, PTL DEF SystemSpec, CreditsAuthorised

(* An import that reports completion has left nobody out, whatever credit   *)
(* runs did to the table meanwhile.                                         *)
THEOREM ReportedImportIsCompleteInSystem == SystemSpec => []Import!ReportedImportIsComplete
<1>1. ByItself!ImportInv => Import!ReportedImportIsComplete
  BY DEF ByItself!ImportInv, ByItself!RunInv, ByItself!PositionsInScope,
     ByItself!IsStagingEmployee, ByItself!IsBlank, ByItself!InScope, ByItself!Exists,
     Import!ReportedImportIsComplete, Import!IsStagingEmployee, Import!IsBlank,
     Import!InScope, Import!Exists
<1>2. SystemInv => Import!ReportedImportIsComplete
  BY <1>1 DEF SystemInv
<1> QED  BY <1>2, SystemInvariant, PTL

(* And rows are born the way the flags of the importing run say: the credit *)
(* job adds none.                                                           *)
THEOREM ImportedUnderFlagsInSystem == SystemSpec => Import!ImportedUnderFlags
<1> DEFINE Born == \A e \in DOMAIN staging' \ DOMAIN staging :
             \E i \in Importers :
                 /\ ipc[i] = "scan" /\ ipc'[i] = "report"
                 /\ Import!ImportOn(icfg[i]) /\ Import!InScope(icfg[i], staging'[e].email)
                 /\ staging'[e].processed = icfg[i].baseline
                 /\ icfg[i].baseline => ~staging'[e].active
<1>1. SystemInv /\ [SystemNext]_systemVars => [Born]_Import!vars
  <2> SUFFICES ASSUME SystemInv, [SystemNext]_systemVars PROVE Born
    OBVIOUS
  <2>1. CASE [Next]_vars
    BY <2>1, StepMonotone DEF SystemInv, CreditInv, Monotone
  <2>2. ASSUME NEW i \in Importers, ImportStep(i) PROVE Born
    <3>1. ByItself!ImportInv /\ [ByItself!Next]_ByItself!vars
      BY <2>2, SameSteps DEF SystemInv, ImportStep, ByItself!Next
    <3> QED
      BY <3>1, ByItself!NewcomersStep, ImportAssumptionsHold, DbAssumption
      DEF ByItself!BuiltUnder, ByItself!ImportOn, ByItself!InScope, Import!ImportOn,
          Import!InScope
  <2> QED  BY <2>1, <2>2, SystemSteps
<1> QED  BY <1>1, SystemInvariant, PTL DEF SystemSpec, Import!ImportedUnderFlags

-----------------------------------------------------------------------------
(* With one credit worker, nobody is credited whose mailbox has an attempt  *)
(* on record, however late and under whatever id the import stages it.      *)
THEOREM RehireNotCreditedHolds == SystemSpec => RehireNotCredited
<1> DEFINE Once == \A w \in Workers, e \in EmployeeIds :
              Workers = {w} /\ credits'[w][e] # credits[w][e] =>
                  \A r \in HistoryRows :
                      ~r.email.leading /\ r.description = cfg[w].description
                          => r.email.box # staging[e].email.box
<1>1. SystemInv /\ [SystemNext]_systemVars => [Once]_vars
  <2> SUFFICES ASSUME SystemInv, [SystemNext]_systemVars PROVE Once
    OBVIOUS
  <2>1. CASE [Next]_vars
    BY <2>1, AloneCredits DEF SystemInv, CreditInv
  <2>2. CASE \E i \in Importers : ImportStep(i)
    BY <2>2 DEF ImportStep, creditVars
  <2> QED  BY <2>1, <2>2, SystemSteps
<1> QED  BY <1>1, SystemInvariant, PTL DEF SystemSpec, RehireNotCredited, MailboxCreditedOnce

-----------------------------------------------------------------------------
(* The books: what the refinement makes of the tables.                      *)

BookEntry(row) ==
    [person |-> row.employee, box |-> row.email.box,
     purpose |-> row.description, success |-> row.success]

MailboxesOf == [e \in DOMAIN staging |-> staging[e].email.box]
ExistingOf == {e \in DOMAIN staging : IsExisting(staging[e])}
SettledOf == {e \in DOMAIN staging : staging[e].processed}
BookOf == [k \in DOMAIN history |-> BookEntry(history[k])]

LEMMA BooksAtStart ==
    ASSUME DOMAIN MailboxesOf \subseteq EmployeeIds,
           MailboxesOf \in [DOMAIN MailboxesOf -> Mailboxes],
           ExistingOf \in SUBSET DOMAIN MailboxesOf,
           SettledOf = ExistingOf,
           BookOf = <<>>
    PROVE  Ledger!Init
BY DEF Ledger!Init, MailboxesOf, ExistingOf, SettledOf, BookOf, BookEntry

LEMMA BooksKept ==
    ASSUME UNCHANGED <<MailboxesOf, ExistingOf, SettledOf, BookOf>>
    PROVE  UNCHANGED Ledger!vars
BY DEF Ledger!vars, MailboxesOf, ExistingOf, SettledOf, BookOf, BookEntry

LEMMA TablesKept ==
    ASSUME UNCHANGED <<staging, history>>
    PROVE  UNCHANGED Ledger!vars
BY BooksKept DEF MailboxesOf, ExistingOf, SettledOf, BookOf, BookEntry, IsExisting

LEMMA LedgerStart == SystemInit => Ledger!Init
<1> SUFFICES ASSUME SystemInit PROVE Ledger!Init
  OBVIOUS
<1>1. DOMAIN staging = {} /\ history = <<>>
  BY DEF SystemInit, Import!Init
<1>2. DOMAIN MailboxesOf = {} /\ ExistingOf = {} /\ SettledOf = {}
  BY <1>1 DEF MailboxesOf, ExistingOf, SettledOf
<1>3. MailboxesOf \in [DOMAIN MailboxesOf -> Mailboxes]
  BY <1>2 DEF MailboxesOf
<1>4. BookOf = <<>>
  BY <1>1 DEF BookOf
<1> QED  BY <1>2, <1>3, <1>4, BooksAtStart

(* Rows of a batch join as one group, new hires or existing staff. *)
LEMMA GrowthEnrols ==
    ASSUME SystemInv, NEW c, NEW ids, Grows(c, ids), UNCHANGED history
    PROVE  Ledger!Next
<1> DEFINE boxes == [e \in ids |-> staging'[e].email.box]
<1>1. ids \in SUBSET (EmployeeIds \ DOMAIN MailboxesOf)
  BY DEF Grows, MailboxesOf
<1>2. boxes \in [ids -> Mailboxes]
  BY DEF Grows, StagingRow, Email
<1>3. MailboxesOf' = [e \in DOMAIN MailboxesOf \cup ids |->
                        IF e \in ids THEN boxes[e] ELSE MailboxesOf[e]]
  BY DEF Grows, MailboxesOf
<1>4. BookOf' = BookOf
  BY DEF BookOf, BookEntry
<1>5. \/ UNCHANGED <<ExistingOf, SettledOf>>
      \/ ExistingOf' = ExistingOf \cup ids /\ SettledOf' = SettledOf \cup ids
  <2>1. c.baseline \in BOOLEAN
    BY DEF Grows, Config
  <2>2. CASE c.baseline
    BY <2>2 DEF Grows, Baselined, ExistingOf, SettledOf, IsExisting
  <2>3. CASE ~c.baseline
    BY <2>3 DEF Grows, Baselined, ExistingOf, SettledOf, IsExisting
  <2> QED  BY <2>1, <2>2, <2>3
<1>6. Ledger!Enrol(ids, boxes)
  BY <1>3, <1>4, <1>5 DEF Ledger!Enrol, MailboxesOf, ExistingOf, SettledOf, BookOf, BookEntry
<1> QED  BY <1>1, <1>2, <1>6 DEF Ledger!Next, Ledger!Enrol, MailboxesOf

(* Setting the flag of an active employee settles that employee, and is     *)
(* all the books see of it.                                                 *)
LEMMA MarkSettles ==
    ASSUME WorkerInv, NEW e \in DOMAIN staging, staging[e].active, MarkProcessed(e)
    PROVE  /\ UNCHANGED <<MailboxesOf, ExistingOf>>
           /\ SettledOf' = SettledOf \cup {e}
<1>1. staging \in [DOMAIN staging -> StagingRow]
  BY DEF WorkerInv, TypeOK, DbTypeOK
<1>2. /\ DOMAIN staging' = DOMAIN staging
      /\ \A f \in DOMAIN staging : /\ staging'[f].email = staging[f].email
                                   /\ staging'[f].active = staging[f].active
                                   /\ staging'[f].processed = (f = e \/ staging[f].processed)
  BY <1>1 DEF MarkProcessed, StagingRow
<1> QED  BY <1>2 DEF MailboxesOf, ExistingOf, SettledOf, IsExisting

LEMMA BookGrows ==
    ASSUME history \in Seq(HistoryRow), NEW row \in HistoryRow, AddHistory(row)
    PROVE  BookOf' = Append(BookOf, BookEntry(row))
<1> DEFINE n == Len(history)
<1>1. /\ history' = Append(history, row) /\ n \in Nat
      /\ DOMAIN history = 1..n /\ DOMAIN history' = 1..(n + 1)
      /\ \A k \in 1..n : history'[k] = history[k]
      /\ history'[n + 1] = row
  BY DEF AddHistory
<1>2. /\ BookOf = [k \in 1..n |-> BookEntry(history[k])]
      /\ BookOf' = [k \in 1..(n + 1) |-> BookEntry(history'[k])]
  BY <1>1 DEF BookOf, BookEntry
<1>3. BookOf \in Seq({BookEntry(r) : r \in HistoryRow}) /\ Len(BookOf) = n
  BY <1>1, <1>2
<1>4. /\ DOMAIN Append(BookOf, BookEntry(row)) = 1..(n + 1)
      /\ Append(BookOf, BookEntry(row))[n + 1] = BookEntry(row)
      /\ \A k \in 1..n : Append(BookOf, BookEntry(row))[k] = BookOf[k]
      /\ Append(BookOf, BookEntry(row)) \in Seq({BookEntry(r) : r \in HistoryRow})
  BY <1>3, AppendProperties
<1> HIDE DEF n
<1>5. /\ BookOf' \in Seq({BookEntry(r) : r \in HistoryRow}) /\ Len(BookOf') = n + 1
      /\ \A k \in 1..(n + 1) : BookOf'[k] = Append(BookOf, BookEntry(row))[k]
  BY <1>1, <1>2, <1>4
<1> QED  BY <1>3, <1>4, <1>5, SeqEqual

LEMMA SettleBooks ==
    ASSUME SystemInv, NEW w \in Workers, SettleDuplicate(w)
    PROVE  Ledger!Next \/ UNCHANGED Ledger!vars
<1> DEFINE e == emp[w]
<1>1. /\ e \in DOMAIN staging /\ e \in EmployeeIds /\ staging[e].active
      /\ Evidence(e) /\ MarkProcessed(e) /\ UNCHANGED history
  BY DEF SettleDuplicate, SystemInv, CreditInv, SettleInv, ActiveInv, WorkerInv, TypeOK,
     DbTypeOK, EmpInv, InLoop
<1>2. /\ UNCHANGED <<MailboxesOf, ExistingOf, BookOf>>
      /\ SettledOf' = SettledOf \cup {e}
  BY <1>1, MarkSettles DEF SystemInv, CreditInv, BookOf, BookEntry
<1>3. CASE e \in SettledOf
  BY <1>2, <1>3, BooksKept
<1>4. CASE e \notin SettledOf
  <2>1. PICK k \in DOMAIN history :
            history[k].employee = e \/ history[k].email.box = staging[e].email.box
    BY <1>1 DEF Evidence, HistoryRows
  <2>2. \E b \in Ledger!Booked : b.person = e \/ b.box = MailboxesOf[e]
    <3>1. BookEntry(history[k]) \in Ledger!Booked
      BY <2>1 DEF Ledger!Booked, BookEntry
    <3> QED  BY <1>1, <2>1, <3>1 DEF BookEntry, MailboxesOf
  <2>3. Ledger!SettleWithout(e)
    BY <1>1, <1>2, <1>4, <2>2 DEF Ledger!SettleWithout, MailboxesOf, ExistingOf, SettledOf,
       BookOf, BookEntry
  <2> QED  BY <1>1, <2>3 DEF Ledger!Next, Ledger!SettleWithout
<1> QED  BY <1>3, <1>4

LEMMA RecordBooks ==
    ASSUME SystemInv, NEW w \in Workers, Record(w)
    PROVE  Ledger!Next \/ UNCHANGED Ledger!vars
<1>0. WorkerInv
  BY DEF SystemInv, CreditInv
<1>1. CASE IsDuplicateSuccess(NewHistoryRow(w))
  BY <1>1, RejectEffect, TablesKept
<1>2. CASE ~IsDuplicateSuccess(NewHistoryRow(w))
  <2> DEFINE row == NewHistoryRow(w)
             a == BookEntry(row)
             e == emp[w]
  <2>1. /\ e \in DOMAIN staging /\ row \in HistoryRow /\ AddHistory(row) /\ MarkProcessed(e)
        /\ staging[e].active
    BY <1>0, <1>2, RecordEffect DEF Record, SystemInv, CreditInv, ActiveInv
  <2>2. /\ UNCHANGED <<MailboxesOf, ExistingOf>>
        /\ SettledOf' = SettledOf \cup {e}
        /\ BookOf' = Append(BookOf, a)
    BY <1>0, <2>1, MarkSettles, BookGrows DEF WorkerInv, TypeOK, DbTypeOK
  <2>3. a \in Ledger!Attempts
    BY <2>1 DEF Ledger!Attempts, BookEntry, HistoryRow, Email
  <2>4. /\ a.person = e /\ a.person \in DOMAIN MailboxesOf \ ExistingOf
        /\ a.box = MailboxesOf[e]
    BY <2>1 DEF BookEntry, NewHistoryRow, MailboxesOf, ExistingOf, IsExisting
  <2>5. a.success => ~\E b \in Ledger!Booked :
            b.person = a.person /\ b.purpose = a.purpose /\ b.success
    BY <1>2 DEF IsDuplicateSuccess, HasSuccessfulNewEmployeeCredit, HistoryRows,
       Ledger!Booked, BookEntry
  <2> HIDE DEF a
  <2>6. Ledger!Attempt(a)
    BY <2>2, <2>4, <2>5 DEF Ledger!Attempt, MailboxesOf, ExistingOf, SettledOf, BookOf, BookEntry
  <2> QED  BY <2>3, <2>6 DEF Ledger!Next, Ledger!Attempt
<1> QED  BY <1>1, <1>2

(* The tables, whatever the two jobs, the operator and the faults do to     *)
(* them, are books kept as CreditLedger says.                               *)
THEOREM KeepsLedgerHolds == SystemSpec => KeepsLedger
<1>1. SystemInv /\ [SystemNext]_systemVars => [Ledger!Next]_Ledger!vars
  <2> SUFFICES ASSUME SystemInv, [SystemNext]_systemVars
               PROVE  Ledger!Next \/ UNCHANGED Ledger!vars
    OBVIOUS
  <2>1. CASE UNCHANGED <<staging, history>>
    BY <2>1, TablesKept
  <2>2. ASSUME NEW i \in Importers, ImportStep(i) PROVE Ledger!Next \/ UNCHANGED Ledger!vars
    <3>1. UNCHANGED history /\ (UNCHANGED staging \/ \E c, ids : Grows(c, ids))
      BY <2>2, ImportTables
    <3> QED  BY <2>1, <3>1, GrowthEnrols
  <2>3. ASSUME NEW w \in Workers, SettleDuplicate(w) \/ Record(w)
        PROVE  Ledger!Next \/ UNCHANGED Ledger!vars
    BY <2>3, SettleBooks, RecordBooks
  <2>4. \/ UNCHANGED <<staging, history>>
        \/ \E i \in Importers : ImportStep(i)
        \/ \E w \in Workers : SettleDuplicate(w) \/ Record(w)
    BY SystemSteps, StepKinds DEF PostAnswered, PostUnanswered
  <2> QED  BY <2>1, <2>2, <2>3, <2>4
<1> QED  BY <1>1, LedgerStart, SystemInvariant, PTL DEF SystemSpec, KeepsLedger, Ledger!Spec

-----------------------------------------------------------------------------
(* So what CreditLedgerProofs shows of such books is true of the tables.    *)

Books == INSTANCE CreditLedgerProofs
            WITH People   <- EmployeeIds,
                 Boxes    <- Mailboxes,
                 Purposes <- Descriptions,
                 mailbox  <- MailboxesOf,
                 existing <- ExistingOf,
                 settled  <- SettledOf,
                 book     <- BookOf

(* Every history row is of somebody staged, at the address staged, who is   *)
(* out of the queue and was not baselined; and nobody else is out of the    *)
(* queue but with a row to show for it.                                     *)
TablesInOrder ==
    /\ \A r \in HistoryRows :
        /\ r.employee \in DOMAIN staging
        /\ staging[r.employee].processed
        /\ ~IsExisting(staging[r.employee])
        /\ staging[r.employee].email.box = r.email.box
    /\ \A e \in DOMAIN staging :
        staging[e].processed /\ ~IsExisting(staging[e]) =>
            \E r \in HistoryRows : r.employee = e \/ r.email.box = staging[e].email.box

LEMMA BooksAreTables == Books!LedgerInv => TablesInOrder
<1> SUFFICES ASSUME Books!LedgerInv PROVE TablesInOrder
  OBVIOUS
<1>1. ASSUME NEW r \in HistoryRows
      PROVE  /\ r.employee \in DOMAIN staging
             /\ staging[r.employee].processed
             /\ ~IsExisting(staging[r.employee])
             /\ staging[r.employee].email.box = r.email.box
  <2>1. BookEntry(r) \in Books!Booked
    BY DEF HistoryRows, Books!Booked, BookOf
  <2>2. /\ r.employee \in SettledOf \ ExistingOf
        /\ r.email.box = MailboxesOf[r.employee]
    BY <2>1 DEF Books!LedgerInv, Books!AttemptsInOrder, BookEntry
  <2> QED  BY <2>2 DEF SettledOf, ExistingOf, MailboxesOf
<1>2. ASSUME NEW e \in DOMAIN staging, staging[e].processed, ~IsExisting(staging[e])
      PROVE  \E r \in HistoryRows : r.employee = e \/ r.email.box = staging[e].email.box
  <2>1. PICK b \in Books!Booked : b.person = e \/ b.box = MailboxesOf[e]
    BY <1>2 DEF Books!LedgerInv, Books!SettledHaveAttempt, SettledOf, ExistingOf
  <2>2. PICK r \in HistoryRows : b = BookEntry(r)
    BY <2>1 DEF HistoryRows, Books!Booked, BookOf
  <2> QED  BY <2>1, <2>2 DEF BookEntry, MailboxesOf
<1> QED  BY <1>1, <1>2 DEF TablesInOrder

(* No step takes back an attempt or a settlement, moves a staged employee   *)
(* to another mailbox, or makes existing staff a new hire or the reverse.   *)
NothingTakenBack ==
    /\ \A k \in DOMAIN history :
        k \in DOMAIN history' /\ BookEntry(history'[k]) = BookEntry(history[k])
    /\ \A e \in DOMAIN staging :
        /\ e \in DOMAIN staging'
        /\ staging'[e].email.box = staging[e].email.box
        /\ staging[e].processed => staging'[e].processed
        /\ IsExisting(staging'[e]) <=> IsExisting(staging[e])

LEMMA GrowthOfTables == [Books!OnlyGrows]_Books!vars => [NothingTakenBack]_<<staging, history>>
<1> SUFFICES ASSUME [Books!OnlyGrows]_Books!vars PROVE NothingTakenBack
  OBVIOUS
<1>1. /\ \A k \in DOMAIN BookOf : k \in DOMAIN BookOf' /\ BookOf'[k] = BookOf[k]
      /\ SettledOf \subseteq SettledOf'
      /\ \A e \in DOMAIN MailboxesOf :
          /\ e \in DOMAIN MailboxesOf' /\ MailboxesOf'[e] = MailboxesOf[e]
          /\ e \in ExistingOf' <=> e \in ExistingOf
  BY DEF Books!OnlyGrows, Books!vars
<1>2. ASSUME NEW k \in DOMAIN history
      PROVE  k \in DOMAIN history' /\ BookEntry(history'[k]) = BookEntry(history[k])
  BY <1>1 DEF BookOf
<1>3. ASSUME NEW e \in DOMAIN staging
      PROVE  /\ e \in DOMAIN staging'
             /\ staging'[e].email.box = staging[e].email.box
             /\ staging[e].processed => staging'[e].processed
             /\ IsExisting(staging'[e]) <=> IsExisting(staging[e])
  BY <1>1 DEF MailboxesOf, SettledOf, ExistingOf
<1> QED  BY <1>2, <1>3 DEF NothingTakenBack

LEMMA SameBooks == Ledger!Spec => Books!Spec
<1> USE DEF MailboxesOf, ExistingOf, SettledOf, BookOf, BookEntry
<1>1. Ledger!Init <=> Books!Init
  BY DEF Ledger!Init, Books!Init
<1>2. UNCHANGED Ledger!vars <=> UNCHANGED Books!vars
  BY DEF Ledger!vars, Books!vars
<1>3. Ledger!Next <=> Books!Next
  BY DEF Ledger!Next, Books!Next, Ledger!Enrol, Books!Enrol, Ledger!Attempt, Books!Attempt,
     Ledger!SettleWithout, Books!SettleWithout, Ledger!Attempts, Books!Attempts,
     Ledger!Booked, Books!Booked
<1> QED  BY <1>1, <1>2, <1>3, PTL DEF Ledger!Spec, Books!Spec

(* The staging table and the credit history agree at any time, through both *)
(* jobs, every fault and every crash ...                                    *)
THEOREM TablesInOrderHolds == SystemSpec => []TablesInOrder
BY SameBooks, KeepsLedgerHolds, BooksAreTables, Books!BooksInOrder, PTL DEF KeepsLedger

(* ... and what they say of anybody is never withdrawn.                     *)
THEOREM NothingTakenBackHolds == SystemSpec => [][NothingTakenBack]_<<staging, history>>
BY SameBooks, KeepsLedgerHolds, GrowthOfTables, Books!BooksOnlyGrow, PTL DEF KeepsLedger

=============================================================================
