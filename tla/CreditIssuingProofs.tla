------------------------- MODULE CreditIssuingProofs -------------------------
(***************************************************************************)
(* Theorems about CreditIssuing, for any number of workers and employees,  *)
(* any configurations, any initial queue and any combination of faults     *)
(* unless a theorem says which.                                            *)
(***************************************************************************)
EXTENDS CreditIssuing, WellFoundedInduction, TLAPS

-----------------------------------------------------------------------------
(* Where a worker is tells what its local variables hold. *)

EmpInv == \A w \in Workers : pc[w] \in InLoop => emp[w] \in todo[w]

OutcomeInv ==
    \A w \in Workers :
        /\ pc[w] = "record" => outcome[w] \in {"Issued", "IssueFailed"}
        /\ pc[w] = "settle" => outcome[w] = "DuplicateSkipped"
        /\ pc[w] = "audit" => outcome[w] \in Outcomes

WorkerInv == TypeOK /\ EmpInv /\ OutcomeInv

LEMMA HistoryRowsType ==
    ASSUME DbTypeOK, NEW r \in HistoryRows
    PROVE  r \in HistoryRow
BY DEF DbTypeOK, HistoryRows

(* Appending a row adds it to the rows, and takes none away. *)
LEMMA AddHistoryRows ==
    ASSUME history \in Seq(HistoryRow), NEW row \in HistoryRow, AddHistory(row)
    PROVE  /\ history' \in Seq(HistoryRow)
           /\ HistoryRows' = HistoryRows \cup {row}
<1>1. history' \in Seq(HistoryRow) /\ Len(history') = Len(history) + 1
  BY DEF AddHistory
<1>2. \A i \in 1..Len(history) : history'[i] = history[i]
  BY DEF AddHistory
<1>3. history'[Len(history) + 1] = row
  BY DEF AddHistory
<1>4. /\ DOMAIN history = 1..Len(history)
      /\ DOMAIN history' = 1..Len(history) \cup {Len(history) + 1}
  BY <1>1
<1> QED  BY <1>1, <1>2, <1>3, <1>4 DEF HistoryRows

(* Marking a row touches nothing but its processed flag. *)
LEMMA MarkProcessedEffect ==
    ASSUME DbTypeOK, NEW e \in DOMAIN staging, MarkProcessed(e)
    PROVE  /\ DOMAIN staging' = DOMAIN staging
           /\ staging' \in [DOMAIN staging -> StagingRow]
           /\ staging'[e].processed
           /\ \A f \in DOMAIN staging :
                /\ staging'[f].email = staging[f].email
                /\ staging'[f].active = staging[f].active
                /\ staging'[f].created = staging[f].created
                /\ f # e => staging'[f] = staging[f]
BY DEF DbTypeOK, MarkProcessed, StagingRow

LEMMA NewHistoryRowType ==
    ASSUME TypeOK, NEW w \in Workers, emp[w] \in DOMAIN staging
    PROVE  NewHistoryRow(w) \in HistoryRow
BY CreditAssumption DEF TypeOK, DbTypeOK, NewHistoryRow, HistoryRow, StagingRow, Config

LEMMA LogAuditType ==
    ASSUME DbTypeOK, NEW a \in Outcomes \cup {"Skipped"},
           NEW e \in EmployeeIds \cup {NoEmployee}, LogAudit("StoreCredit", a, e)
    PROVE  audit' \subseteq AuditEntry
BY DEF DbTypeOK, LogAudit, AuditEntry, Outcomes

(* A request that Axomo executes raises one count, by one or not at all     *)
(* when it is at its cap, and leaves it positive.                           *)
LEMMA ApplyEffect ==
    ASSUME TypeOK, NEW w \in Workers, emp[w] \in EmployeeIds, Apply(w)
    PROVE  /\ credits' \in [Workers -> [EmployeeIds -> 0..CreditCap]]
           /\ credits'[w][emp[w]] \in 1..(credits[w][emp[w]] + 1)
           /\ \A v \in Workers, e \in EmployeeIds :
                /\ credits'[v][e] >= credits[v][e]
                /\ v # w \/ e # emp[w] => credits'[v][e] = credits[v][e]
<1> DEFINE n == credits[w][emp[w]]
           m == IF n < CreditCap THEN n + 1 ELSE n
<1>1. credits \in [Workers -> [EmployeeIds -> 0..CreditCap]] /\ CreditCap \in Nat \ {0}
  BY CreditAssumption DEF TypeOK
<1>2. n \in 0..CreditCap
  BY <1>1
<1>3. m \in 1..(n + 1) /\ m \in 0..CreditCap /\ m >= n
  BY <1>1, <1>2
<1>4. credits' = [credits EXCEPT ![w] = [credits[w] EXCEPT ![emp[w]] = m]]
  BY <1>1 DEF Apply
<1> HIDE DEF m
<1>5. credits' \in [Workers -> [EmployeeIds -> 0..CreditCap]]
  BY <1>1, <1>3, <1>4
<1>6. credits'[w][emp[w]] = m
  BY <1>1, <1>4
<1>7. ASSUME NEW v \in Workers, NEW e \in EmployeeIds, v # w \/ e # emp[w]
      PROVE  credits'[v][e] = credits[v][e]
  BY <1>1, <1>4, <1>7
<1>8. ASSUME NEW v \in Workers, NEW e \in EmployeeIds
      PROVE  credits'[v][e] >= credits[v][e]
  <2>1. credits[v][e] \in Nat
    BY <1>1
  <2> QED  BY <1>3, <1>6, <1>7, <2>1
<1> QED  BY <1>3, <1>5, <1>6, <1>7, <1>8

LEMMA WorkerInit == Init => WorkerInv
BY CreditAssumption DEF Init, WorkerInv, TypeOK, DbTypeOK, EmpInv, OutcomeInv, InLoop, PCs

LEMMA WorkerNext == WorkerInv /\ [Next]_vars => WorkerInv'
<1> SUFFICES ASSUME WorkerInv, [Next]_vars PROVE WorkerInv'
  OBVIOUS
<1> USE DEF WorkerInv, TypeOK, EmpInv, OutcomeInv, InLoop, PCs, Outcomes
<1>1. ASSUME NEW w \in Workers, BeginRun(w) PROVE WorkerInv'
  BY <1>1, LogAuditType DEF BeginRun, Goto, DbTypeOK
<1>2. ASSUME NEW w \in Workers, LoadPending(w) PROVE WorkerInv'
  BY <1>2, LogAuditType DEF LoadPending, Goto, DbTypeOK, Pending
<1>3. ASSUME NEW w \in Workers, CheckEmployee(w) PROVE WorkerInv'
  <2>1. PICK e \in todo[w] : emp' = [emp EXCEPT ![w] = e]
    BY <1>3 DEF CheckEmployee, Earliest
  <2>2. outcome' \in [Workers -> Outcomes \cup {"None"}] /\ pc' \in [Workers -> PCs]
    BY <1>3 DEF CheckEmployee, Goto
  <2>3. \A v \in Workers \ {w} : pc'[v] = pc[v] /\ outcome'[v] = outcome[v]
    BY <1>3 DEF CheckEmployee, Goto
  <2>4. \/ pc'[w] = "audit" /\ outcome'[w] = "ValidationFailed"
        \/ pc'[w] = "settle" /\ outcome'[w] = "DuplicateSkipped"
        \/ pc'[w] = "checkEmail"
    BY <1>3 DEF CheckEmployee, Goto
  <2>5. UNCHANGED <<staging, history, audit, config, cfg, todo, tries, credits>>
    BY <1>3 DEF CheckEmployee
  <2> QED  BY <2>1, <2>2, <2>3, <2>4, <2>5 DEF DbTypeOK
<1>4. ASSUME NEW w \in Workers, CheckAttempt(w) PROVE WorkerInv'
  BY <1>4 DEF CheckAttempt, Goto, DbTypeOK
<1>5. ASSUME NEW w \in Workers, SettleDuplicate(w) PROVE WorkerInv'
  BY <1>5, MarkProcessedEffect DEF SettleDuplicate, Goto, DbTypeOK
<1>6. ASSUME NEW w \in Workers, PostAnswered(w) PROVE WorkerInv'
  BY <1>6, ApplyEffect DEF PostAnswered, PostAccepted, PostRefused, PostGarbled,
     PostExhausted, MayApply, Answer, Goto, DbTypeOK
<1>7. ASSUME NEW w \in Workers, PostUnanswered(w) PROVE WorkerInv'
  <2>1. credits' \in [Workers -> [EmployeeIds -> 0..CreditCap]]
    BY <1>7, ApplyEffect DEF PostUnanswered, PostRetried, PostTimesOut, MayApply, DbTypeOK
  <2>2. CASE PostRetried(w)
    BY <1>7, <2>1, <2>2, CreditAssumption DEF PostUnanswered, PostRetried, DbTypeOK
  <2>3. CASE PostTimesOut(w)
    BY <1>7, <2>1, <2>3, CreditAssumption DEF PostUnanswered, PostTimesOut, Finish, Goto, DbTypeOK
  <2> QED  BY <1>7, <2>2, <2>3 DEF PostUnanswered
<1>8. ASSUME NEW w \in Workers, Record(w) PROVE WorkerInv'
  <2>1. emp[w] \in DOMAIN staging
    BY <1>8 DEF Record
  <2>2. CASE IsDuplicateSuccess(NewHistoryRow(w))
    <3>1. Finish(w) /\ UNCHANGED <<staging, history, audit, config, credits>>
      BY <1>8, <2>2 DEF Record
    <3> QED  BY <3>1, CreditAssumption DEF Finish, Goto, DbTypeOK
  <2>3. CASE ~IsDuplicateSuccess(NewHistoryRow(w))
    <3>1. /\ AddHistory(NewHistoryRow(w))
          /\ MarkProcessed(emp[w])
          /\ pc' = [pc EXCEPT ![w] = "audit"]
          /\ UNCHANGED <<audit, config, cfg, todo, emp, outcome, tries, credits>>
      BY <1>8, <2>3 DEF Record, Goto
    <3>2. DbTypeOK' /\ DOMAIN staging' = DOMAIN staging
      BY <2>1, <3>1, MarkProcessedEffect, AddHistoryRows, NewHistoryRowType DEF DbTypeOK
    <3> QED  BY <1>8, <3>1, <3>2 DEF Record
  <2> QED  BY <2>2, <2>3
<1>9. ASSUME NEW w \in Workers, Audit(w) PROVE WorkerInv'
  <2>1. emp[w] \in EmployeeIds /\ outcome[w] \in Outcomes
    BY <1>9 DEF Audit, DbTypeOK
  <2>2. DbTypeOK'
    BY <1>9, <2>1, LogAuditType DEF Audit, DbTypeOK
  <2> QED  BY <1>9, <2>2, CreditAssumption DEF Audit, Goto
<1>10. ASSUME NEW w \in Workers, EndRun(w) PROVE WorkerInv'
  BY <1>10, CreditAssumption DEF EndRun, Finish, Goto, DbTypeOK
<1>11. ASSUME NEW w \in Workers, AbortRun(w) PROVE WorkerInv'
  BY <1>11, CreditAssumption DEF AbortRun, Finish, Goto, DbTypeOK
<1>12. CASE Crash
  BY <1>12, CreditAssumption DEF Crash, DbTypeOK
<1>13. ASSUME NEW c \in Configs, Reload(c) PROVE WorkerInv'
  BY <1>13 DEF Reload, runVars, DbTypeOK
<1>14. CASE UNCHANGED vars
  BY <1>14 DEF vars, runVars, DbTypeOK
<1> QED
  BY <1>1, <1>2, <1>3, <1>4, <1>5, <1>6, <1>7, <1>8, <1>9, <1>10, <1>11, <1>12, <1>13, <1>14
  DEF Next, WorkerStep, Advance

(* Every variable keeps its type: in particular a run never holds an        *)
(* employee that is not in the table, and Polly never counts past its limit.*)
THEOREM TypeCorrect == Spec => []TypeOK
<1>1. WorkerInv => TypeOK
  BY DEF WorkerInv
<1> QED  BY WorkerInit, WorkerNext, <1>1, PTL DEF Spec

-----------------------------------------------------------------------------
(* The tables and Axomo's side only ever move in one direction. *)

Monotone ==
    /\ DOMAIN staging' = DOMAIN staging
    /\ \A e \in DOMAIN staging :
        /\ staging'[e].email = staging[e].email
        /\ staging'[e].active = staging[e].active
        /\ staging[e].processed => staging'[e].processed
    /\ HistoryRows \subseteq HistoryRows'
    /\ \A w \in Workers, e \in EmployeeIds : credits'[w][e] >= credits[w][e]

(* Only four actions touch them. *)
LEMMA StepKinds ==
    ASSUME [Next]_vars
    PROVE  \/ UNCHANGED <<staging, history, credits>>
           \/ \E w \in Workers : \/ SettleDuplicate(w) \/ Record(w)
                                  \/ PostAnswered(w) \/ PostUnanswered(w)
BY DEF Next, WorkerStep, Advance, vars, BeginRun, LoadPending, CheckEmployee, CheckAttempt,
   Audit, EndRun, AbortRun, Reload, Crash

(* What a SaveChanges of Record does, when the index lets the row in. *)
LEMMA RecordEffect ==
    ASSUME WorkerInv, NEW w \in Workers, Record(w), ~IsDuplicateSuccess(NewHistoryRow(w))
    PROVE  /\ emp[w] \in DOMAIN staging
           /\ NewHistoryRow(w) \in HistoryRow
           /\ AddHistory(NewHistoryRow(w))
           /\ HistoryRows' = HistoryRows \cup {NewHistoryRow(w)}
           /\ MarkProcessed(emp[w])
           /\ staging'[emp[w]].processed
           /\ pc' = [pc EXCEPT ![w] = "audit"]
           /\ UNCHANGED <<audit, config, cfg, todo, emp, outcome, tries, credits>>
<1>1. emp[w] \in DOMAIN staging
  BY DEF Record, WorkerInv, TypeOK, EmpInv, InLoop
<1>2. NewHistoryRow(w) \in HistoryRow
  BY <1>1, NewHistoryRowType DEF WorkerInv
<1>3. /\ AddHistory(NewHistoryRow(w)) /\ MarkProcessed(emp[w])
      /\ pc' = [pc EXCEPT ![w] = "audit"]
      /\ UNCHANGED <<audit, config, cfg, todo, emp, outcome, tries, credits>>
  BY DEF Record, Goto
<1> QED
  BY <1>1, <1>2, <1>3, AddHistoryRows, MarkProcessedEffect DEF WorkerInv, TypeOK, DbTypeOK

(* ... and when it does not. *)
LEMMA RejectEffect ==
    ASSUME NEW w \in Workers, Record(w), IsDuplicateSuccess(NewHistoryRow(w))
    PROVE  Finish(w) /\ UNCHANGED <<staging, history, audit, config, credits>>
BY DEF Record

LEMMA StepMonotone == WorkerInv /\ [Next]_vars => Monotone
<1> SUFFICES ASSUME WorkerInv, [Next]_vars PROVE Monotone
  OBVIOUS
<1>0. TypeOK
  BY DEF WorkerInv
<1>1. CASE UNCHANGED <<staging, history, credits>>
  BY <1>0, <1>1 DEF Monotone, HistoryRows, TypeOK
<1>2. ASSUME NEW w \in Workers, SettleDuplicate(w) PROVE Monotone
  <2>1. emp[w] \in DOMAIN staging /\ MarkProcessed(emp[w]) /\ UNCHANGED <<history, credits>>
    BY <1>2 DEF SettleDuplicate, WorkerInv, TypeOK, EmpInv, InLoop
  <2> QED  BY <1>0, <2>1, MarkProcessedEffect DEF Monotone, HistoryRows, TypeOK
<1>3. ASSUME NEW w \in Workers, Record(w) PROVE Monotone
  <2>1. CASE IsDuplicateSuccess(NewHistoryRow(w))
    BY <1>0, <1>3, <2>1, RejectEffect DEF Monotone, HistoryRows, TypeOK
  <2>2. CASE ~IsDuplicateSuccess(NewHistoryRow(w))
    BY <1>0, <1>3, <2>2, RecordEffect, MarkProcessedEffect DEF Monotone, TypeOK
  <2> QED  BY <2>1, <2>2
<1>4. ASSUME NEW w \in Workers, PostAnswered(w) \/ PostUnanswered(w) PROVE Monotone
  <2>1. UNCHANGED <<staging, history>> /\ MayApply(w)
    BY <1>4 DEF PostAnswered, PostUnanswered, PostAccepted, PostRefused, PostGarbled,
       PostExhausted, PostRetried, PostTimesOut, MayApply
  <2>2. emp[w] \in EmployeeIds
    BY <1>4 DEF PostAnswered, PostUnanswered, WorkerInv, TypeOK, DbTypeOK, EmpInv, InLoop
  <2>3. \A v \in Workers, e \in EmployeeIds : credits'[v][e] >= credits[v][e]
    BY <1>0, <2>1, <2>2, ApplyEffect DEF MayApply, TypeOK
  <2> QED  BY <2>1, <2>3 DEF Monotone, HistoryRows
<1> QED  BY <1>1, <1>2, <1>3, <1>4, StepKinds

-----------------------------------------------------------------------------
LEMMA UniqueNext == WorkerInv /\ UniqueSuccess /\ [Next]_vars => UniqueSuccess'
<1> SUFFICES ASSUME WorkerInv, UniqueSuccess, [Next]_vars PROVE UniqueSuccess'
  OBVIOUS
<1>1. CASE UNCHANGED history
  BY <1>1 DEF UniqueSuccess
<1>2. ASSUME NEW w \in Workers, Record(w), ~IsDuplicateSuccess(NewHistoryRow(w))
      PROVE  UniqueSuccess'
  <2> DEFINE row == NewHistoryRow(w)
             n == Len(history) + 1
  <2>1. history \in Seq(HistoryRow) /\ history' = Append(history, row)
    BY <1>2, RecordEffect DEF AddHistory, WorkerInv, TypeOK, DbTypeOK
  <2>2. /\ DOMAIN history' = DOMAIN history \cup {n}
        /\ \A i \in DOMAIN history : history'[i] = history[i] /\ i # n
        /\ history'[n] = row
    BY <1>2, <2>1, RecordEffect
  <2>3. row.success => \A i \in DOMAIN history :
            ~(/\ history[i].employee = row.employee
              /\ history[i].description = row.description /\ history[i].success)
    BY <1>2 DEF IsDuplicateSuccess, HasSuccessfulNewEmployeeCredit, HistoryRows
  <2> HIDE DEF row, n
  <2> QED  BY <2>2, <2>3 DEF UniqueSuccess
<1>3. UNCHANGED history \/ \E w \in Workers : Record(w)
  BY StepKinds DEF SettleDuplicate, PostAnswered, PostUnanswered
<1> QED  BY <1>1, <1>2, <1>3, RejectEffect

(* Whatever the interleaving, the faults and the crashes, no two successful *)
(* rows share employee and description.                                     *)
THEOREM UniqueSuccessHolds == Spec => []UniqueSuccess
<1>1. Init => UniqueSuccess
  BY DEF Init, UniqueSuccess
<1> QED  BY <1>1, WorkerInit, WorkerNext, UniqueNext, PTL DEF Spec

-----------------------------------------------------------------------------
(* A run that is about to record success has Axomo's credit behind it. *)

BackedInv ==
    \A w \in Workers :
        pc[w] = "record" /\ outcome[w] = "Issued" => credits[w][emp[w]] > 0

LEMMA BackedInvNext ==
    WorkerInv /\ WorkerInv' /\ BackedInv /\ [Next]_vars => BackedInv'
<1> SUFFICES ASSUME WorkerInv, WorkerInv', BackedInv, [Next]_vars,
                    NEW w \in Workers, pc'[w] = "record", outcome'[w] = "Issued"
             PROVE  credits'[w][emp'[w]] > 0
  BY DEF BackedInv
<1>0. TypeOK /\ Monotone
  BY StepMonotone DEF WorkerInv
<1>1. CASE pc[w] = "record" /\ outcome[w] = "Issued" /\ emp'[w] = emp[w]
  <2>1. emp[w] \in EmployeeIds
    BY <1>1 DEF WorkerInv, TypeOK, DbTypeOK, EmpInv, InLoop
  <2>2. credits[w][emp[w]] \in Nat /\ credits'[w][emp[w]] \in Nat
    BY <2>1 DEF WorkerInv, TypeOK
  <2> QED  BY <1>0, <1>1, <2>1, <2>2 DEF BackedInv, Monotone
<1>2. CASE PostAccepted(w) /\ pc[w] = "post"
  <2>1. emp[w] \in EmployeeIds /\ Apply(w) /\ emp' = emp
    BY <1>2 DEF PostAccepted, Answer, WorkerInv, TypeOK, DbTypeOK, EmpInv, InLoop
  <2>2. credits[w][emp[w]] \in Nat
    BY <2>1 DEF WorkerInv, TypeOK
  <2> QED  BY <1>0, <2>1, <2>2, ApplyEffect
<1>3. \/ pc[w] = "record" /\ outcome[w] = "Issued" /\ emp'[w] = emp[w]
      \/ PostAccepted(w) /\ pc[w] = "post"
  BY <1>0 DEF Next, WorkerStep, Advance, vars, runVars, Goto, Finish, Answer, TypeOK,
     BeginRun, LoadPending, CheckEmployee, CheckAttempt, SettleDuplicate, Record, Audit,
     EndRun, AbortRun, Reload, Crash, PostAnswered, PostUnanswered, PostAccepted, PostRefused,
     PostGarbled, PostExhausted, PostRetried, PostTimesOut
<1> QED  BY <1>1, <1>2, <1>3

LEMMA BackedNext ==
    WorkerInv /\ BackedInv /\ SuccessRowBacked /\ [Next]_vars => SuccessRowBacked'
<1> SUFFICES ASSUME WorkerInv, BackedInv, SuccessRowBacked, [Next]_vars,
                    NEW r \in HistoryRows', r.success
             PROVE  \E w \in Workers : credits'[w][r.employee] > 0
  BY DEF SuccessRowBacked
<1>0. Monotone
  BY StepMonotone
<1>1. CASE r \in HistoryRows
  <2>1. PICK w \in Workers : credits[w][r.employee] > 0
    BY <1>1 DEF SuccessRowBacked
  <2>2. r.employee \in EmployeeIds
    BY <1>1, HistoryRowsType DEF WorkerInv, TypeOK, HistoryRow
  <2>3. TypeOK /\ TypeOK'
    BY WorkerNext DEF WorkerInv
  <2>4. credits[w][r.employee] \in Nat /\ credits'[w][r.employee] \in Nat
    BY <2>2, <2>3 DEF TypeOK
  <2>5. credits'[w][r.employee] >= credits[w][r.employee]
    BY <1>0, <2>2 DEF Monotone
  <2> QED  BY <2>1, <2>4, <2>5
<1>2. ASSUME NEW w \in Workers, Record(w), ~IsDuplicateSuccess(NewHistoryRow(w)),
             r = NewHistoryRow(w)
      PROVE  credits'[w][r.employee] > 0
  BY <1>2, RecordEffect DEF NewHistoryRow, BackedInv, Record
<1>3. \/ r \in HistoryRows
      \/ \E w \in Workers : /\ Record(w) /\ ~IsDuplicateSuccess(NewHistoryRow(w))
                            /\ r = NewHistoryRow(w)
  <2>1. UNCHANGED history \/ \E w \in Workers : Record(w)
    BY StepKinds DEF SettleDuplicate, PostAnswered, PostUnanswered
  <2> QED  BY <2>1, RecordEffect, RejectEffect DEF HistoryRows
<1> QED  BY <1>1, <1>2, <1>3

(* A success the books show was really paid out, whatever failed meanwhile. *)
THEOREM SuccessRowBackedHolds == Spec => []SuccessRowBacked
<1>1. Init => BackedInv /\ SuccessRowBacked
  BY DEF Init, BackedInv, SuccessRowBacked, HistoryRows
<1> QED  BY <1>1, WorkerInit, WorkerNext, BackedInvNext, BackedNext, PTL DEF Spec

-----------------------------------------------------------------------------
(* A run that is about to settle a duplicate has seen the evidence, and     *)
(* evidence does not go away.                                               *)

Evidence(e) ==
    \E r \in HistoryRows : r.employee = e \/ r.email.box = staging[e].email.box

SettleInv == \A w \in Workers : pc[w] = "settle" => Evidence(emp[w])

LEMMA EvidenceKept ==
    ASSUME Monotone, NEW e \in DOMAIN staging, Evidence(e)
    PROVE  Evidence(e)'
BY DEF Monotone, Evidence

LEMMA SettleInvNext == WorkerInv /\ SettleInv /\ [Next]_vars => SettleInv'
<1> SUFFICES ASSUME WorkerInv, SettleInv, [Next]_vars,
                    NEW w \in Workers, pc'[w] = "settle", NEW e, e = emp'[w]
             PROVE  Evidence(e)'
  BY DEF SettleInv, Evidence
<1>0. TypeOK /\ Monotone
  BY StepMonotone DEF WorkerInv
<1>1. CASE pc[w] = "settle" /\ emp'[w] = emp[w]
  <2>1. e \in DOMAIN staging /\ Evidence(e)
    BY <1>1 DEF SettleInv, WorkerInv, TypeOK, EmpInv, InLoop
  <2> QED  BY <1>0, <2>1, EvidenceKept
<1>2. CASE CheckEmployee(w)
  <2>1. e \in DOMAIN staging /\ HasSuccessfulNewEmployeeCredit(e, cfg[w].description)
    BY <1>0, <1>2 DEF CheckEmployee, Earliest, Goto, TypeOK
  <2>2. Evidence(e)
    BY <2>1 DEF Evidence, HasSuccessfulNewEmployeeCredit
  <2> QED  BY <1>0, <2>1, <2>2, EvidenceKept
<1>3. CASE CheckAttempt(w)
  <2>1. e \in DOMAIN staging /\ e = emp[w]
    BY <1>3 DEF CheckAttempt, WorkerInv, TypeOK, EmpInv, InLoop
  <2>2. HasNewEmployeeCreditAttempt(staging[e].email, cfg[w].description)
    BY <1>0, <1>3, <2>1 DEF CheckAttempt, Goto, TypeOK
  <2>3. Evidence(e)
    BY <2>2 DEF Evidence, HasNewEmployeeCreditAttempt
  <2> QED  BY <1>0, <2>1, <2>3, EvidenceKept
<1>4. \/ pc[w] = "settle" /\ emp'[w] = emp[w]
      \/ CheckEmployee(w)
      \/ CheckAttempt(w)
  BY <1>0 DEF Next, WorkerStep, Advance, vars, runVars, Goto, Finish, Answer, TypeOK,
     BeginRun, LoadPending, CheckEmployee, CheckAttempt, SettleDuplicate, Record, Audit,
     EndRun, AbortRun, Reload, Crash, PostAnswered, PostUnanswered, PostAccepted, PostRefused,
     PostGarbled, PostExhausted, PostRetried, PostTimesOut
<1> QED  BY <1>1, <1>2, <1>3, <1>4

LEMMA ProcessedNext ==
    WorkerInv /\ SettleInv /\ ProcessedHasEvidence /\ [Next]_vars => ProcessedHasEvidence'
<1> SUFFICES ASSUME WorkerInv, SettleInv, ProcessedHasEvidence, [Next]_vars,
                    NEW e \in DOMAIN staging', staging'[e].processed, staging'[e].active
             PROVE  Evidence(e)'
  BY DEF ProcessedHasEvidence, Evidence
<1>0. Monotone /\ e \in DOMAIN staging /\ staging[e].active
  BY StepMonotone DEF Monotone
<1>1. CASE staging[e].processed
  BY <1>0, <1>1, EvidenceKept DEF ProcessedHasEvidence, Evidence
<1>2. ASSUME NEW w \in Workers, SettleDuplicate(w), ~staging[e].processed PROVE Evidence(e)'
  <2>1. emp[w] \in DOMAIN staging /\ MarkProcessed(emp[w]) /\ Evidence(emp[w])
    BY <1>2 DEF SettleDuplicate, SettleInv, WorkerInv, TypeOK, EmpInv, InLoop
  <2>2. e = emp[w]
    BY <1>0, <1>2, <2>1, MarkProcessedEffect DEF WorkerInv, TypeOK
  <2> QED  BY <1>0, <2>1, <2>2, EvidenceKept
<1>3. ASSUME NEW w \in Workers, Record(w), ~staging[e].processed PROVE Evidence(e)'
  <2>1. ~IsDuplicateSuccess(NewHistoryRow(w))
    BY <1>3, RejectEffect
  <2>2. e = emp[w]
    BY <1>0, <1>3, <2>1, RecordEffect, MarkProcessedEffect DEF WorkerInv, TypeOK
  <2>3. NewHistoryRow(w) \in HistoryRows' /\ NewHistoryRow(w).employee = e
    BY <1>3, <2>1, <2>2, RecordEffect DEF NewHistoryRow
  <2> QED  BY <2>3 DEF Evidence
<1>4. staging' = staging \/ \E w \in Workers : SettleDuplicate(w) \/ Record(w)
  BY StepKinds DEF PostAnswered, PostUnanswered
<1> QED  BY <1>1, <1>2, <1>3, <1>4

(* No employee is taken out of the queue without an attempt on record.      *)
THEOREM ProcessedHasEvidenceHolds == Spec => []ProcessedHasEvidence
<1>1. Init => SettleInv /\ ProcessedHasEvidence
  BY CreditAssumption DEF Init, SettleInv, ProcessedHasEvidence
<1> QED  BY <1>1, WorkerInit, WorkerNext, SettleInvNext, ProcessedNext, PTL DEF Spec

-----------------------------------------------------------------------------
(* The bound.  A worker that has moved money for an employee either is      *)
(* still at it, or has had the employee settled; and it has the employee in *)
(* its list no longer, unless it is still at it.  So no later run of the    *)
(* worker requests a credit for the employee again, and the one request it  *)
(* makes is sent at most once per try.                                      *)

Locals(w) == <<pc[w], cfg[w], todo[w], emp[w], outcome[w], tries[w], credits[w]>>

(* A step changes the locals of at most one worker, unless all are killed.  *)
LEMMA StepLocal ==
    ASSUME WorkerInv, [Next]_vars, NEW v \in Workers
    PROVE  UNCHANGED Locals(v) \/ WorkerStep(v) \/ Crash
<1>0. TypeOK
  BY DEF WorkerInv
<1>1. ASSUME NEW w \in Workers, w # v, WorkerStep(w) PROVE UNCHANGED Locals(v)
  <2>1. pc'[v] = pc[v] /\ cfg'[v] = cfg[v] /\ todo'[v] = todo[v] /\ emp'[v] = emp[v]
    BY <1>0, <1>1 DEF WorkerStep, Advance, Goto, Finish, Answer, TypeOK,
       BeginRun, LoadPending, CheckEmployee, CheckAttempt, SettleDuplicate, Record, Audit,
       EndRun, AbortRun, PostAnswered, PostUnanswered, PostAccepted, PostRefused,
       PostGarbled, PostExhausted, PostRetried, PostTimesOut
  <2>2. outcome'[v] = outcome[v] /\ tries'[v] = tries[v]
    BY <1>0, <1>1 DEF WorkerStep, Advance, Finish, Answer, TypeOK,
       BeginRun, LoadPending, CheckEmployee, CheckAttempt, SettleDuplicate, Record, Audit,
       EndRun, AbortRun, PostAnswered, PostUnanswered, PostAccepted, PostRefused,
       PostGarbled, PostExhausted, PostRetried, PostTimesOut
  <2>3. credits'[v] = credits[v]
    BY <1>0, <1>1 DEF WorkerStep, Advance, TypeOK, Apply, MayApply,
       BeginRun, LoadPending, CheckEmployee, CheckAttempt, SettleDuplicate, Record, Audit,
       EndRun, AbortRun, PostAnswered, PostUnanswered, PostAccepted, PostRefused,
       PostGarbled, PostExhausted, PostRetried, PostTimesOut
  <2> QED  BY <2>1, <2>2, <2>3 DEF Locals
<1>2. ASSUME NEW c \in Configs, Reload(c) PROVE UNCHANGED Locals(v)
  BY <1>2 DEF Reload, runVars, Locals
<1>3. CASE UNCHANGED vars
  BY <1>3 DEF vars, runVars, Locals
<1> QED  BY <1>1, <1>2, <1>3 DEF Next

Settled(e) == e \in DOMAIN staging /\ staging[e].processed

BoundOf(w) ==
    /\ pc[w] \in {"idle", "load"} => todo[w] = {}
    /\ pc[w] \notin {"post", "record", "audit"} => tries[w] = 0
    /\ tries[w] < SendsPerRequest
    /\ pc[w] = "post" => credits[w][emp[w]] <= tries[w]
    /\ \A e \in EmployeeIds : credits[w][e] > 0 =>
        /\ credits[w][e] <= SendsPerRequest
        /\ Settled(e) \/ (pc[w] \in {"post", "record"} /\ emp[w] = e)
        /\ e \in todo[w] => emp[w] = e /\ pc[w] \in {"post", "record", "audit"}

(* Whoever has a row is settled: both are stored in one transaction. *)
RowsSettled == \A r \in HistoryRows : Settled(r.employee)

BoundInv == RowsSettled /\ \A w \in Workers : BoundOf(w)

LEMMA RowsSettledNext == WorkerInv /\ RowsSettled /\ [Next]_vars => RowsSettled'
<1> SUFFICES ASSUME WorkerInv, RowsSettled, [Next]_vars, NEW r \in HistoryRows'
             PROVE  Settled(r.employee)'
  BY DEF RowsSettled, Settled
<1>0. Monotone
  BY StepMonotone
<1>1. CASE r \in HistoryRows
  BY <1>0, <1>1 DEF RowsSettled, Settled, Monotone
<1>2. ASSUME NEW w \in Workers, Record(w), ~IsDuplicateSuccess(NewHistoryRow(w)),
             r = NewHistoryRow(w)
      PROVE  Settled(r.employee)'
  BY <1>0, <1>2, RecordEffect DEF NewHistoryRow, Settled, Monotone
<1>3. UNCHANGED history \/ \E w \in Workers : Record(w)
  BY StepKinds DEF SettleDuplicate, PostAnswered, PostUnanswered
<1> QED  BY <1>1, <1>2, <1>3, RecordEffect, RejectEffect DEF HistoryRows

LEMMA BoundOfNext ==
    ASSUME Faults \subseteq {"transient", "garbled"}, WorkerInv, RowsSettled, [Next]_vars,
           NEW w \in Workers, BoundOf(w)
    PROVE  BoundOf(w)'
<1>0. TypeOK /\ TypeOK' /\ Monotone
  BY StepMonotone, WorkerNext DEF WorkerInv
<1>d. SendsPerRequest \in Nat \ {0}
  BY CreditAssumption DEF SendsPerRequest
<1>a. \A e \in EmployeeIds : credits[w][e] \in Nat /\ credits'[w][e] \in Nat
  BY <1>0 DEF TypeOK
<1>b. \A e : Settled(e) => Settled(e)'
  BY <1>0 DEF Settled, Monotone
<1>c. pc[w] \in InLoop => emp[w] \in todo[w] /\ emp[w] \in DOMAIN staging /\ emp[w] \in EmployeeIds
  BY <1>0 DEF WorkerInv, TypeOK, DbTypeOK, EmpInv, InLoop
<1>1. CASE UNCHANGED Locals(w)
  BY <1>1, <1>b DEF BoundOf, Locals
<1>2. CASE BeginRun(w)
  BY <1>0, <1>2, <1>b DEF BeginRun, Goto, BoundOf, TypeOK
<1>3. CASE LoadPending(w)
  <2>1. \A e \in todo'[w] : ~Settled(e)
    BY <1>0, <1>3 DEF LoadPending, Pending, BoundOf, Settled, TypeOK
  <2>2. /\ pc[w] = "load" /\ pc'[w] \in {"idle", "next"}
        /\ pc'[w] = "idle" => todo'[w] = {}
        /\ UNCHANGED <<emp, tries, credits>>
    BY <1>0, <1>3 DEF LoadPending, Goto, BoundOf, TypeOK
  <2> QED  BY <2>1, <2>2, <1>b DEF BoundOf
<1>4. CASE CheckEmployee(w)
  <2>1. /\ pc[w] = "next" /\ pc'[w] \in {"checkEmail", "settle", "audit"}
        /\ UNCHANGED <<todo, tries, credits>>
    BY <1>0, <1>4 DEF CheckEmployee, Goto, TypeOK
  <2> QED  BY <2>1, <1>b DEF BoundOf
<1>5. CASE CheckAttempt(w)
  <2>1. /\ pc[w] = "checkEmail" /\ pc'[w] \in {"settle", "audit", "post"}
        /\ UNCHANGED <<todo, emp, tries, credits>>
    BY <1>0, <1>5 DEF CheckAttempt, Goto, TypeOK
  <2>2. ~(credits[w][emp[w]] > 0)
    BY <1>c, <2>1 DEF BoundOf, InLoop
  <2> QED  BY <1>a, <1>b, <1>c, <2>1, <2>2 DEF BoundOf, InLoop
<1>6. CASE SettleDuplicate(w)
  <2>1. /\ pc[w] = "settle" /\ pc'[w] = "audit"
        /\ UNCHANGED <<todo, emp, tries, credits>>
    BY <1>0, <1>6 DEF SettleDuplicate, Goto, TypeOK
  <2> QED  BY <2>1, <1>b DEF BoundOf
<1>7. CASE PostAnswered(w)
  <2>1. /\ pc[w] = "post" /\ pc'[w] = "record" /\ MayApply(w)
        /\ UNCHANGED <<todo, emp, tries>>
    BY <1>0, <1>7 DEF PostAnswered, PostAccepted, PostRefused, PostGarbled, PostExhausted,
       Answer, MayApply, Goto, TypeOK
  <2>2. /\ credits'[w][emp[w]] <= credits[w][emp[w]] + 1
        /\ \A e \in EmployeeIds : e # emp[w] => credits'[w][e] = credits[w][e]
    BY <1>0, <1>a, <1>c, <2>1, ApplyEffect DEF MayApply, InLoop
  <2>3. tries[w] \in Nat /\ tries[w] < SendsPerRequest /\ credits[w][emp[w]] <= tries[w]
    BY <1>0, <2>1 DEF TypeOK, BoundOf
  <2>4. credits'[w][emp[w]] <= SendsPerRequest
    BY <1>d, <1>a, <1>c, <2>1, <2>2, <2>3 DEF InLoop
  <2> QED  BY <1>b, <2>1, <2>2, <2>4 DEF BoundOf
<1>8. CASE PostUnanswered(w)
  <2>1. /\ pc[w] = "post" /\ MayApply(w)
        /\ tries[w] < RetryCount /\ "transient" \in Faults
        /\ tries' = [tries EXCEPT ![w] = tries[w] + 1]
        /\ UNCHANGED <<pc, todo, emp>>
    BY <1>8 DEF PostUnanswered, PostRetried, PostTimesOut
  <2>2. /\ credits'[w][emp[w]] <= credits[w][emp[w]] + 1
        /\ \A e \in EmployeeIds : e # emp[w] => credits'[w][e] = credits[w][e]
    BY <1>0, <1>a, <1>c, <2>1, ApplyEffect DEF MayApply, InLoop
  <2>3. tries[w] \in Nat /\ credits[w][emp[w]] <= tries[w] /\ tries'[w] = tries[w] + 1
    BY <1>0, <2>1 DEF TypeOK, BoundOf
  <2>4. tries'[w] < SendsPerRequest
    BY <2>1, <2>3, CreditAssumption DEF SendsPerRequest
  <2>5. credits'[w][emp[w]] <= tries'[w] /\ credits'[w][emp[w]] <= SendsPerRequest
    BY <1>a, <1>c, <1>d, <2>1, <2>2, <2>3, <2>4 DEF InLoop
  <2> QED  BY <1>b, <2>1, <2>2, <2>4, <2>5 DEF BoundOf
<1>9. CASE Record(w)
  <2>1. CASE IsDuplicateSuccess(NewHistoryRow(w))
    <3>1. Settled(emp[w])
      BY <2>1 DEF IsDuplicateSuccess, HasSuccessfulNewEmployeeCredit, NewHistoryRow, RowsSettled
    <3>2. pc'[w] = "idle" /\ todo'[w] = {} /\ tries'[w] = 0 /\ credits' = credits
      BY <1>0, <1>9, <2>1, RejectEffect DEF Finish, Goto, TypeOK
    <3> QED  BY <1>d, <1>b, <3>1, <3>2 DEF BoundOf
  <2>2. CASE ~IsDuplicateSuccess(NewHistoryRow(w))
    <3>1. Settled(emp[w])'
      BY <1>0, <1>9, <2>2, RecordEffect DEF Settled, Monotone
    <3>2. pc[w] = "record" /\ pc'[w] = "audit" /\ UNCHANGED <<todo, emp, tries, credits>>
      BY <1>0, <1>9, <2>2, RecordEffect DEF Record, TypeOK
    <3> QED  BY <1>b, <3>1, <3>2 DEF BoundOf, Settled
  <2> QED  BY <2>1, <2>2
<1>10. CASE Audit(w)
  <2>1. /\ pc[w] = "audit" /\ pc'[w] = "next" /\ todo'[w] = todo[w] \ {emp[w]}
        /\ tries'[w] = 0 /\ credits' = credits
    BY <1>0, <1>10 DEF Audit, Goto, TypeOK
  <2> QED  BY <1>d, <1>b, <2>1 DEF BoundOf
<1>11. CASE EndRun(w) \/ AbortRun(w)
  <2>1. /\ pc[w] = "next" /\ pc'[w] = "idle" /\ todo'[w] = {} /\ tries'[w] = 0
        /\ credits' = credits
    BY <1>0, <1>11 DEF EndRun, AbortRun, Finish, Goto, TypeOK
  <2> QED  BY <1>d, <1>b, <2>1 DEF BoundOf
<1>12. ~Crash
  BY DEF Crash
<1> QED
  BY <1>1, <1>2, <1>3, <1>4, <1>5, <1>6, <1>7, <1>8, <1>9, <1>10, <1>11, <1>12, StepLocal
  DEF WorkerStep, Advance

(* As long as nothing worse happens than failed or unreadable answers, the  *)
(* runs of a worker together credit nobody more often than one request is   *)
(* sent, for every number of workers and employees.                         *)
THEOREM CreditsBoundedPerWorkerHolds == Spec => []CreditsBoundedPerWorker
<1>1. CASE Faults \subseteq {"transient", "garbled"}
  <2>1. Init => BoundInv
    BY CreditAssumption DEF Init, BoundInv, BoundOf, RowsSettled, HistoryRows, SendsPerRequest
  <2>2. WorkerInv /\ BoundInv /\ [Next]_vars => BoundInv'
    BY <1>1, BoundOfNext, RowsSettledNext DEF BoundInv
  <2>3. WorkerInv /\ BoundInv => CreditsBoundedPerWorker
    <3> SUFFICES ASSUME WorkerInv, BoundInv, NEW w \in Workers, NEW e \in EmployeeIds
                 PROVE  credits[w][e] <= SendsPerRequest
      BY DEF CreditsBoundedPerWorker
    <3>1. credits[w][e] \in Nat /\ SendsPerRequest \in Nat
      BY CreditAssumption DEF WorkerInv, TypeOK, SendsPerRequest
    <3>2. credits[w][e] > 0 => credits[w][e] <= SendsPerRequest
      BY DEF BoundInv, BoundOf
    <3> QED  BY <3>1, <3>2
  <2> QED  BY <2>1, <2>2, <2>3, WorkerInit, WorkerNext, PTL DEF Spec
<1>2. CASE ~(Faults \subseteq {"transient", "garbled"})
  <2>1. CreditsBoundedPerWorker
    BY <1>2 DEF CreditsBoundedPerWorker
  <2> QED  BY <2>1, PTL
<1> QED  BY <1>1, <1>2

(* With a single worker and answers that all arrive, the credit is one-time.*)
THEOREM OneTimeCreditOfOneWorker ==
    ASSUME NEW w, Workers = {w}, Faults \subseteq {"garbled"}
    PROVE  Spec => []OneTimeCredit
<1>1. TypeOK /\ CreditsBoundedPerWorker => OneTimeCredit
  BY DEF TypeOK, CreditsBoundedPerWorker, OneTimeCredit, SendsPerRequest
<1> QED  BY <1>1, TypeCorrect, CreditsBoundedPerWorkerHolds, PTL

-----------------------------------------------------------------------------
(* Progress, as far as it is a matter of steps: a run that has somebody on  *)
(* its list finds whom to take next, and what it does brings it further.    *)

LEMMA EarliestExists ==
    ASSUME TypeOK, NEW S \in SUBSET DOMAIN staging, S # {}
    PROVE  Earliest(S) # {}
<1> DEFINE dates == {staging[e].created : e \in S}
           less == OpToRel(<, Nat)
<1>1. dates \subseteq Nat /\ dates # {}
  BY DEF TypeOK, DbTypeOK, StagingRow
<1>2. PICK d \in dates : \A f \in dates : ~(<<f, d>> \in less)
  <2>1. IsWellFoundedOn(less, Nat)
    BY NatLessThanWellFounded
  <2> HIDE DEF less, dates
  <2> QED  BY <1>1, <2>1, WFMin
<1>3. ASSUME NEW f \in dates PROVE d <= f
  <2>1. f \in Nat /\ d \in Nat
    BY <1>1
  <2>2. f < d => <<f, d>> \in less
    <3> HIDE DEF dates
    <3> QED  BY <2>1 DEF OpToRel
  <2>3. ~(f < d)
    BY <1>2, <2>2
  <2> QED  BY <2>1, <2>3
<1>4. PICK e \in S : staging[e].created = d
  BY <1>2
<1> QED  BY <1>3, <1>4 DEF Earliest

(* A run that is between two employees and has some left never lacks a next *)
(* one.                                                                     *)
THEOREM NextEmployeeExists ==
    Spec => [](\A w \in Workers :
                  pc[w] = "next" /\ todo[w] # {} => Earliest(todo[w]) # {})
<1>1. TypeOK => \A w \in Workers :
          pc[w] = "next" /\ todo[w] # {} => Earliest(todo[w]) # {}
  BY EarliestExists DEF TypeOK
<1> QED  BY <1>1, TypeCorrect, PTL

(* Each step of a run ends it, is the last with an employee, or gets        *)
(* further with the employee; which also bounds the length of a run.        *)
LEMMA Advances ==
    ASSUME WorkerInv, [Next]_vars, NEW w \in Workers, pc[w] \in InLoop \cup {"next"}, Moves(w)
    PROVE  \/ pc'[w] = "idle"
           \/ todo'[w] = todo[w] /\ Place(w)' > Place(w)
           \/ emp[w] \in todo[w] /\ todo'[w] = todo[w] \ {emp[w]}
<1>0. TypeOK /\ RetryCount \in Nat /\ tries[w] \in 0..RetryCount
  BY CreditAssumption DEF WorkerInv, TypeOK
<1> DEFINE Onward(from, to) ==
             pc[w] = from /\ pc'[w] = to /\ todo' = todo /\ tries' = tries
<1>1. CASE CheckEmployee(w)
  <2>1. \E to \in {"checkEmail", "settle", "audit"} : Onward("next", to)
    BY <1>0, <1>1 DEF CheckEmployee, Goto, TypeOK
  <2> QED  BY <1>0, <2>1 DEF Place
<1>2. CASE CheckAttempt(w)
  <2>1. \E to \in {"settle", "audit", "post"} : Onward("checkEmail", to)
    BY <1>0, <1>2 DEF CheckAttempt, Goto, TypeOK
  <2> QED  BY <1>0, <2>1 DEF Place
<1>3. CASE SettleDuplicate(w)
  <2>1. Onward("settle", "audit")
    BY <1>0, <1>3 DEF SettleDuplicate, Goto, TypeOK
  <2> QED  BY <1>0, <2>1 DEF Place
<1>4. CASE PostAnswered(w)
  <2>1. Onward("post", "record")
    BY <1>0, <1>4 DEF PostAnswered, PostAccepted, PostRefused, PostGarbled, PostExhausted,
       Answer, Goto, TypeOK
  <2> QED  BY <1>0, <2>1 DEF Place
<1>5. CASE PostUnanswered(w) /\ PostRetried(w)
  <2>1. /\ pc[w] = "post" /\ pc' = pc /\ todo' = todo
        /\ tries'[w] = tries[w] + 1
    BY <1>0, <1>5 DEF PostUnanswered, PostRetried, TypeOK
  <2> QED  BY <1>0, <2>1 DEF Place
<1>6. CASE Record(w) /\ ~IsDuplicateSuccess(NewHistoryRow(w))
  <2>1. Onward("record", "audit")
    BY <1>0, <1>6 DEF Record, Goto, TypeOK
  <2> QED  BY <1>0, <2>1 DEF Place
<1>7. CASE Audit(w)
  <2>1. emp[w] \in todo[w]
    BY <1>7 DEF Audit, WorkerInv, EmpInv, InLoop
  <2> QED  BY <1>0, <1>7, <2>1 DEF Audit, TypeOK
<1>8. CASE \/ Record(w) /\ IsDuplicateSuccess(NewHistoryRow(w))
           \/ PostUnanswered(w) /\ PostTimesOut(w)
           \/ EndRun(w) \/ AbortRun(w)
  BY <1>0, <1>8 DEF Record, PostTimesOut, EndRun, AbortRun, Finish, Goto, TypeOK
<1>9. CASE Crash
  BY <1>9 DEF Crash
<1>10. ~BeginRun(w) /\ ~LoadPending(w) /\ ~UNCHANGED Locals(w)
  BY DEF BeginRun, LoadPending, InLoop, Locals, Moves
<1> QED
  BY <1>1, <1>2, <1>3, <1>4, <1>5, <1>6, <1>7, <1>8, <1>9, <1>10, StepLocal
  DEF WorkerStep, Advance, PostUnanswered

THEOREM RunAdvancesHolds == Spec => RunAdvances
<1> DEFINE Further ==
        \A w \in Workers : pc[w] \in InLoop \cup {"next"} /\ Moves(w) =>
            \/ pc'[w] = "idle"
            \/ todo'[w] = todo[w] /\ Place(w)' > Place(w)
            \/ emp[w] \in todo[w] /\ todo'[w] = todo[w] \ {emp[w]}
<1>1. WorkerInv /\ [Next]_vars => [Further]_vars
  BY Advances
<1> QED  BY <1>1, WorkerInit, WorkerNext, PTL DEF Spec, RunAdvances

-----------------------------------------------------------------------------
(* Money moves only under flags that allow it: what the run decided at its  *)
(* start, at the load and at each check still holds at the request, since   *)
(* its configuration is its own and rows keep address and activity.         *)

AuthInv ==
    \A w \in Workers :
        /\ pc[w] \in {"idle", "load"} => todo[w] = {}
        /\ pc[w] # "idle" => CreditsOn(cfg[w])
        /\ \A e \in todo[w] : InScope(cfg[w], staging[e].email)
        /\ pc[w] \in {"checkEmail", "post"} => IsValid(staging[emp[w]])
        /\ pc[w] = "post" => ~cfg[w].dryRun

LEMMA AuthInvNext == WorkerInv /\ AuthInv /\ [Next]_vars => AuthInv'
<1> SUFFICES ASSUME WorkerInv, AuthInv, [Next]_vars, NEW w \in Workers
             PROVE  /\ pc'[w] \in {"idle", "load"} => todo'[w] = {}
                    /\ pc'[w] # "idle" => CreditsOn(cfg'[w])
                    /\ \A e \in todo'[w] : InScope(cfg'[w], staging'[e].email)
                    /\ pc'[w] \in {"checkEmail", "post"} => IsValid(staging'[emp'[w]])
                    /\ pc'[w] = "post" => ~cfg'[w].dryRun
  BY DEF AuthInv, CreditsOn, InScope, IsValid
<1>0. TypeOK /\ Monotone
  BY StepMonotone DEF WorkerInv
<1>1. /\ todo[w] \subseteq DOMAIN staging
      /\ pc[w] \in InLoop => emp[w] \in DOMAIN staging
  BY <1>0 DEF WorkerInv, TypeOK, EmpInv, InLoop
<1>2. \A e \in DOMAIN staging : /\ staging'[e].email = staging[e].email
                                /\ staging'[e].active = staging[e].active
  BY <1>0 DEF Monotone
<1>3. CASE UNCHANGED Locals(w)
  BY <1>1, <1>2, <1>3 DEF AuthInv, Locals, InScope, IsValid, InLoop
<1>4. CASE BeginRun(w)
  BY <1>0, <1>4 DEF BeginRun, Goto, AuthInv, TypeOK
<1>5. CASE LoadPending(w)
  BY <1>0, <1>5 DEF LoadPending, Goto, AuthInv, TypeOK
<1>6. CASE CheckEmployee(w)
  <2>1. /\ pc[w] = "next" /\ pc'[w] \in {"audit", "settle", "checkEmail"}
        /\ pc'[w] = "checkEmail" => IsValid(staging[emp'[w]])
        /\ UNCHANGED <<staging, cfg, todo>>
    BY <1>0, <1>6 DEF CheckEmployee, Goto, TypeOK
  <2> QED  BY <2>1 DEF AuthInv
<1>7. CASE CheckAttempt(w)
  <2>1. /\ pc[w] = "checkEmail" /\ pc'[w] \in {"audit", "settle", "post"}
        /\ pc'[w] = "post" => ~cfg[w].dryRun
        /\ UNCHANGED <<staging, cfg, todo, emp>>
    BY <1>0, <1>7 DEF CheckAttempt, Goto, TypeOK
  <2> QED  BY <2>1 DEF AuthInv
<1>8. CASE PostUnanswered(w)
  BY <1>0, <1>8 DEF PostUnanswered, PostRetried, PostTimesOut, Finish, Goto, AuthInv, TypeOK
<1>9. CASE SettleDuplicate(w) \/ PostAnswered(w) \/ Audit(w)
  <2>1. /\ pc[w] # "idle" /\ pc'[w] \in {"audit", "record", "next"}
        /\ todo'[w] \subseteq todo[w] /\ cfg' = cfg
    BY <1>0, <1>9 DEF SettleDuplicate, PostAnswered, PostAccepted, PostRefused, PostGarbled,
       PostExhausted, Answer, Audit, Goto, TypeOK
  <2> QED  BY <1>1, <1>2, <2>1 DEF AuthInv, InScope
<1>10. CASE Record(w)
  <2>1. CASE IsDuplicateSuccess(NewHistoryRow(w))
    BY <1>0, <1>10, <2>1, RejectEffect DEF Finish, Goto, TypeOK
  <2>2. CASE ~IsDuplicateSuccess(NewHistoryRow(w))
    <3>1. pc[w] = "record" /\ pc'[w] = "audit" /\ UNCHANGED <<todo, cfg>>
      BY <1>0, <1>10, <2>2, RecordEffect DEF Record, TypeOK
    <3> QED  BY <1>1, <1>2, <3>1 DEF AuthInv, InScope
  <2> QED  BY <2>1, <2>2
<1>11. CASE EndRun(w) \/ AbortRun(w)
  BY <1>0, <1>11 DEF EndRun, AbortRun, Finish, Goto, TypeOK
<1>12. CASE Crash
  BY <1>12 DEF Crash
<1> QED
  BY <1>3, <1>4, <1>5, <1>6, <1>7, <1>8, <1>9, <1>10, <1>11, <1>12, StepLocal
  DEF WorkerStep, Advance

(* Only the request of a run's current employee moves money. *)
LEMMA CreditsMove ==
    ASSUME WorkerInv, [Next]_vars, NEW w \in Workers, NEW e \in EmployeeIds,
           credits'[w][e] # credits[w][e]
    PROVE  pc[w] = "post" /\ e = emp[w] /\ e \in todo[w]
<1>0. TypeOK
  BY DEF WorkerInv
<1>1. pc[w] = "post" /\ MayApply(w)
  <2>1. WorkerStep(w)
    BY StepLocal DEF Locals, Crash
  <2> QED
    BY <2>1 DEF WorkerStep, Advance, MayApply, BeginRun, LoadPending, CheckEmployee,
       CheckAttempt, SettleDuplicate, Record, Audit, EndRun, AbortRun, PostAnswered,
       PostUnanswered, PostAccepted, PostRefused, PostGarbled, PostExhausted, PostRetried,
       PostTimesOut
<1>2. emp[w] \in todo[w] /\ emp[w] \in EmployeeIds
  BY <1>1 DEF WorkerInv, TypeOK, DbTypeOK, EmpInv, InLoop
<1>3. e = emp[w]
  BY <1>0, <1>1, <1>2, ApplyEffect DEF MayApply
<1> QED  BY <1>1, <1>2, <1>3

(* Whoever is credited is valid, and the configuration the run started with *)
(* allows it.                                                               *)
THEOREM CreditsAuthorisedHolds == Spec => CreditsAuthorised
<1>1. Init => AuthInv
  BY DEF Init, AuthInv
<1>2. ASSUME WorkerInv, AuthInv, [Next]_vars, NEW w \in Workers, NEW e \in EmployeeIds,
             credits'[w][e] # credits[w][e]
      PROVE  Authorises(cfg[w], staging[e])
  <2>1. pc[w] = "post" /\ e = emp[w] /\ e \in todo[w]
    BY <1>2, CreditsMove
  <2> QED  BY <1>2, <2>1 DEF AuthInv, Authorises
<1>3. WorkerInv /\ AuthInv /\ [Next]_vars =>
        [\A w \in Workers, e \in EmployeeIds :
            credits'[w][e] # credits[w][e] => Authorises(cfg[w], staging[e])]_vars
  BY <1>2
<1> QED  BY <1>1, <1>3, WorkerInit, WorkerNext, AuthInvNext, PTL DEF Spec, CreditsAuthorised

-----------------------------------------------------------------------------
(* A worker that has moved money for an employee is still at it, or the     *)
(* employee has a row: an exchange that ends is recorded in the same run.   *)

OnRecord(e) == \E r \in HistoryRows : r.employee = e

RecordOf(w) ==
    \A e \in EmployeeIds : credits[w][e] > 0 =>
        OnRecord(e) \/ (pc[w] \in {"post", "record"} /\ emp[w] = e)

LEMMA RecordOfNext ==
    ASSUME Faults \subseteq {"transient", "garbled"}, WorkerInv, [Next]_vars,
           NEW w \in Workers, RecordOf(w)
    PROVE  RecordOf(w)'
<1>0. TypeOK /\ Monotone
  BY StepMonotone DEF WorkerInv
<1>a. \A e : OnRecord(e) => OnRecord(e)'
  BY <1>0 DEF OnRecord, Monotone
<1>1. CASE pc[w] = "post"
  <2>1. WorkerStep(w) \/ UNCHANGED Locals(w)
    BY StepLocal DEF Crash
  <2>2. CASE UNCHANGED Locals(w)
    BY <2>2, <1>a DEF RecordOf, Locals
  <2>3. CASE WorkerStep(w)
    <3>1. pc'[w] \in {"post", "record"} /\ emp' = emp
      BY <1>0, <1>1, <2>3 DEF WorkerStep, Advance, BeginRun, LoadPending, CheckEmployee,
         CheckAttempt, SettleDuplicate, Record, Audit, EndRun, AbortRun, PostAnswered,
         PostUnanswered, PostAccepted, PostRefused, PostGarbled, PostExhausted, PostRetried,
         PostTimesOut, Answer, Goto, TypeOK
    <3>2. \A e \in EmployeeIds : e # emp[w] => credits'[w][e] = credits[w][e]
      BY CreditsMove
    <3> QED  BY <1>1, <1>a, <3>1, <3>2 DEF RecordOf
  <2> QED  BY <2>1, <2>2, <2>3
<1>2. CASE Record(w)
  <2>1. ASSUME NEW e, e = emp[w] PROVE OnRecord(e)'
    <3>1. CASE IsDuplicateSuccess(NewHistoryRow(w))
      BY <1>a, <2>1, <3>1 DEF IsDuplicateSuccess, HasSuccessfulNewEmployeeCredit, NewHistoryRow,
         OnRecord
    <3>2. CASE ~IsDuplicateSuccess(NewHistoryRow(w))
      BY <1>2, <2>1, <3>2, RecordEffect DEF OnRecord, NewHistoryRow
    <3> QED  BY <3>1, <3>2
  <2>2. UNCHANGED credits /\ pc[w] = "record"
    BY <1>2 DEF Record
  <2> QED  BY <1>a, <2>1, <2>2 DEF RecordOf
<1>3. CASE pc[w] # "post" /\ ~Record(w)
  <2>1. UNCHANGED credits[w]
    <3>1. credits' \in [Workers -> [EmployeeIds -> 0..CreditCap]]
      BY WorkerNext DEF WorkerInv, TypeOK
    <3>2. \A e \in EmployeeIds : credits'[w][e] = credits[w][e]
      BY <1>3, CreditsMove
    <3> QED  BY <1>0, <3>1, <3>2 DEF TypeOK
  <2>2. pc[w] = "record" => UNCHANGED <<pc[w], emp[w]>>
    BY <1>0, <1>3, StepLocal DEF WorkerStep, Advance, Locals, Crash, BeginRun, LoadPending,
       CheckEmployee, CheckAttempt, SettleDuplicate, Audit, EndRun, AbortRun, PostAnswered,
       PostUnanswered
  <2> QED  BY <1>3, <1>a, <2>1, <2>2 DEF RecordOf
<1> QED  BY <1>1, <1>2, <1>3

(* Whatever Axomo answers, what it paid out is on record as soon as the     *)
(* worker turns to the next employee.                                       *)
THEOREM CreditOnRecordUnlessCutHolds == Spec => []CreditOnRecordUnlessCut
<1>1. CASE Faults \subseteq {"transient", "garbled"}
  <2>1. Init => \A w \in Workers : RecordOf(w)
    BY DEF Init, RecordOf
  <2>2. WorkerInv /\ (\A w \in Workers : RecordOf(w)) /\ [Next]_vars
          => (\A w \in Workers : RecordOf(w))'
    BY <1>1, RecordOfNext
  <2>3. (\A w \in Workers : RecordOf(w)) => CreditOnRecordUnlessCut
    BY DEF RecordOf, OnRecord, CreditOnRecordUnlessCut
  <2> QED  BY <2>1, <2>2, <2>3, WorkerInit, WorkerNext, PTL DEF Spec
<1>2. CASE ~(Faults \subseteq {"transient", "garbled"})
  <2>1. CreditOnRecordUnlessCut
    BY <1>2 DEF CreditOnRecordUnlessCut
  <2> QED  BY <2>1, PTL
<1> QED  BY <1>1, <1>2

(* So between runs the books name everybody who was credited: the claim the *)
(* run CreditIssuing_record refutes holds when no exchange is cut short.    *)
THEOREM EveryCreditOnRecordUncut ==
    ASSUME Faults \subseteq {"transient", "garbled"}
    PROVE  Spec => []EveryCreditOnRecord
<1>1. CreditOnRecordUnlessCut => EveryCreditOnRecord
  BY DEF CreditOnRecordUnlessCut, EveryCreditOnRecord
<1> QED  BY <1>1, CreditOnRecordUnlessCutHolds, PTL

-----------------------------------------------------------------------------
(* A worker alone with the database: between its look at the history and    *)
(* its request nobody adds a row.                                           *)

NoAttempt(w) == ~HasNewEmployeeCreditAttempt(staging[emp[w]].email, cfg[w].description)

AloneInv == \A w \in Workers : Workers = {w} /\ pc[w] = "post" => NoAttempt(w)

LEMMA AloneNext == WorkerInv /\ AloneInv /\ [Next]_vars => AloneInv'
<1> SUFFICES ASSUME WorkerInv, AloneInv, [Next]_vars,
                    NEW w \in Workers, Workers = {w}, pc'[w] = "post"
             PROVE  NoAttempt(w)'
  BY DEF AloneInv, NoAttempt, HasNewEmployeeCreditAttempt, HistoryRows
<1>1. CASE CheckAttempt(w)
  <2>1. ~HasNewEmployeeCreditAttempt(staging[emp[w]].email, cfg[w].description)
    BY <1>1 DEF CheckAttempt, Goto, WorkerInv, TypeOK
  <2>2. UNCHANGED <<staging, history, cfg, emp>>
    BY <1>1 DEF CheckAttempt
  <2> QED  BY <2>1, <2>2 DEF NoAttempt, HasNewEmployeeCreditAttempt, HistoryRows
<1>2. CASE pc[w] = "post" /\ UNCHANGED <<staging, history, cfg, emp>>
  BY <1>2 DEF AloneInv, NoAttempt, HasNewEmployeeCreditAttempt, HistoryRows
<1>3. CheckAttempt(w) \/ (pc[w] = "post" /\ UNCHANGED <<staging, history, cfg, emp>>)
  BY DEF WorkerInv, TypeOK, Next, WorkerStep, Advance, vars, runVars, Goto, Finish, Answer,
     BeginRun, LoadPending, CheckEmployee, CheckAttempt, SettleDuplicate, Record, Audit,
     EndRun, AbortRun, Reload, Crash, PostAnswered, PostUnanswered, PostAccepted, PostRefused,
     PostGarbled, PostExhausted, PostRetried, PostTimesOut
<1> QED  BY <1>1, <1>2, <1>3

LEMMA AloneCredits ==
    ASSUME WorkerInv, AloneInv, [Next]_vars, NEW w \in Workers, NEW e \in EmployeeIds,
           Workers = {w}, credits'[w][e] # credits[w][e],
           NEW r \in HistoryRows, ~r.email.leading, r.description = cfg[w].description
    PROVE  r.email.box # staging[e].email.box
<1>1. pc[w] = "post" /\ e = emp[w]
  BY CreditsMove
<1> QED  BY <1>1 DEF AloneInv, NoAttempt, HasNewEmployeeCreditAttempt

(* A single worker never credits a mailbox with an attempt on record.       *)
THEOREM MailboxCreditedOnceHolds == Spec => MailboxCreditedOnce
<1>1. Init => AloneInv
  BY DEF Init, AloneInv
<1>2. WorkerInv /\ AloneInv /\ [Next]_vars =>
        [\A w \in Workers, e \in EmployeeIds :
            Workers = {w} /\ credits'[w][e] # credits[w][e] =>
                \A r \in HistoryRows :
                    ~r.email.leading /\ r.description = cfg[w].description
                        => r.email.box # staging[e].email.box]_vars
  BY AloneCredits
<1> QED  BY <1>1, <1>2, WorkerInit, WorkerNext, AloneNext, PTL DEF Spec, MailboxCreditedOnce

-----------------------------------------------------------------------------
(* The audit log.  What an entry will say is already true when the run      *)
(* reaches the audit step, and nothing makes it false before the entry is   *)
(* written or after.                                                        *)

Truth(action, e) ==
    /\ action = "Issued" => \E r \in HistoryRows : r.employee = e /\ r.success
    /\ action = "IssueFailed" => \E r \in HistoryRows : r.employee = e /\ ~r.success
    /\ action = "DuplicateSkipped" => Settled(e)

AuditInv ==
    /\ \A a \in audit : Truth(a.action, a.employee)
    /\ \A w \in Workers : pc[w] = "audit" => Truth(outcome[w], emp[w])

LEMMA TruthKept ==
    ASSUME Monotone, NEW a, NEW e, Truth(a, e)
    PROVE  Truth(a, e)'
BY DEF Monotone, Truth, Settled

LEMMA AuditInvNext == WorkerInv /\ AuditInv /\ [Next]_vars => AuditInv'
<1> SUFFICES ASSUME WorkerInv, AuditInv, [Next]_vars PROVE AuditInv'
  OBVIOUS
<1>0. TypeOK /\ Monotone
  BY StepMonotone DEF WorkerInv
<1>1. ASSUME NEW w \in Workers, NEW e, NEW o, pc'[w] = "audit", o = outcome'[w], e = emp'[w]
      PROVE  Truth(o, e)'
  <2>1. CASE UNCHANGED Locals(w)
    <3>1. Truth(o, e)
      BY <1>1, <2>1 DEF AuditInv, Locals
    <3> QED  BY <1>0, <3>1, TruthKept
  <2>2. CASE CheckEmployee(w) \/ CheckAttempt(w)
    BY <1>0, <1>1, <2>2 DEF CheckEmployee, CheckAttempt, Goto, Truth, TypeOK
  <2>3. CASE SettleDuplicate(w)
    <3>1. emp[w] \in DOMAIN staging /\ MarkProcessed(emp[w]) /\ emp' = emp
      BY <2>3 DEF SettleDuplicate, WorkerInv, TypeOK, EmpInv, InLoop
    <3>2. o = "DuplicateSkipped"
      BY <1>1, <2>3 DEF SettleDuplicate, WorkerInv, OutcomeInv
    <3>3. Settled(e)'
      BY <1>0, <1>1, <3>1, MarkProcessedEffect DEF Settled, TypeOK
    <3> QED  BY <3>2, <3>3 DEF Truth
  <2>4. CASE Record(w) /\ ~IsDuplicateSuccess(NewHistoryRow(w))
    <3>1. o \in {"Issued", "IssueFailed"} /\ o = outcome[w] /\ e = emp[w]
      BY <1>1, <2>4, RecordEffect DEF Record, WorkerInv, OutcomeInv
    <3>2. NewHistoryRow(w) \in HistoryRows'
      BY <2>4, RecordEffect
    <3>3. /\ NewHistoryRow(w).employee = e
          /\ NewHistoryRow(w).success <=> o = "Issued"
      BY <3>1 DEF NewHistoryRow
    <3> QED  BY <3>1, <3>2, <3>3 DEF Truth
  <2>5. \/ UNCHANGED Locals(w) \/ CheckEmployee(w) \/ CheckAttempt(w) \/ SettleDuplicate(w)
        \/ Record(w) /\ ~IsDuplicateSuccess(NewHistoryRow(w))
    BY <1>0, <1>1, StepLocal, RejectEffect DEF WorkerStep, Advance, Goto, Finish, Answer, TypeOK,
       BeginRun, LoadPending, Audit, EndRun, AbortRun, Crash, PostAnswered, PostUnanswered,
       PostAccepted, PostRefused, PostGarbled, PostExhausted, PostRetried, PostTimesOut
  <2> QED  BY <2>1, <2>2, <2>3, <2>4, <2>5
<1>2. ASSUME NEW a \in audit' PROVE Truth(a.action, a.employee)'
  <2>1. CASE a \in audit
    BY <1>0, <2>1, TruthKept DEF AuditInv
  <2>2. ASSUME NEW w \in Workers, Audit(w), a \notin audit
        PROVE  Truth(a.action, a.employee)'
    <3>1. Truth(outcome[w], emp[w]) /\ a.action = outcome[w] /\ a.employee = emp[w]
      BY <2>2 DEF Audit, LogAudit, AuditInv
    <3> QED  BY <1>0, <3>1, TruthKept
  <2>3. CASE a.action = "Skipped"
    BY <2>3 DEF Truth
  <2>4. \/ a \in audit \/ a.action = "Skipped" \/ \E w \in Workers : Audit(w)
    BY <1>2 DEF Next, WorkerStep, Advance, vars, LogAudit, BeginRun, LoadPending, CheckEmployee,
       CheckAttempt, SettleDuplicate, Record, EndRun, AbortRun, Reload, Crash, PostAnswered,
       PostUnanswered
  <2> QED  BY <2>1, <2>2, <2>3, <2>4
<1> QED  BY <1>1, <1>2 DEF AuditInv, Truth, Settled

(* The audit log never tells an operator something the tables deny.         *)
THEOREM AuditTruthfulHolds == Spec => []AuditTruthful
<1>1. Init => AuditInv
  BY DEF Init, AuditInv
<1>2. AuditInv => AuditTruthful
  BY DEF AuditInv, AuditTruthful, Truth, Settled
<1> QED  BY <1>1, <1>2, WorkerInit, WorkerNext, AuditInvNext, PTL DEF Spec

=============================================================================
