---------------------------- MODULE CreditIssuing ----------------------------
(***************************************************************************)
(* The store-credit job (CreditIssuingService), run by any number of       *)
(* Hangfire workers at once: the recurring trigger, the manual "enqueue"   *)
(* of JobsController and Hangfire's own retries start runs independently   *)
(* of each other, each in a scope with its own DbContext.                  *)
(*                                                                         *)
(* A step is one call that leaves the process: a database query or         *)
(* SaveChanges, or one HTTP attempt on Axomo.  The ghost variable credits  *)
(* is Axomo's side: how many times a worker's requests put money on an     *)
(* employee's account.  The job never reads it.                            *)
(***************************************************************************)
EXTENDS StoreCreditorDb

CONSTANTS Workers,     \* Hangfire worker threads
          Configs,     \* feature flags and credit options that can be configured
          Stagings,    \* contents EmployeeStaging may have at the start:
                       \* queued rows, and existing staff (done, inactive)
          RetryCount,  \* Polly retries of one HTTP call
          Faults,      \* which of AllFaults the environment may cause
          CreditCap    \* credits counts exactly up to here, then saturates

AllFaults == {"transient", "garbled", "timeout", "crash", "dbError"}

ASSUME CreditAssumption ==
    /\ Configs \subseteq Config
    /\ \A s \in Stagings :
        /\ DOMAIN s \subseteq EmployeeIds
        /\ s \in [DOMAIN s -> StagingRow]
        /\ \A e \in DOMAIN s : s[e].processed => ~s[e].active
    /\ RetryCount \in Nat
    /\ Faults \subseteq AllFaults
    /\ CreditCap \in Nat \ {0}

VARIABLES config,   \* what IOptionsMonitor.CurrentValue returns now
          pc,       \* where each worker's run is
          cfg,      \* the configuration its run read at the start
          todo,     \* pending employees it loaded and has not finished
          emp,      \* the employee it is processing
          outcome,  \* what it is about to record or audit for emp
          tries,    \* Polly retries made for emp
          credits   \* credits[w][e]: requests of w that Axomo applied to e

runVars == <<pc, cfg, todo, emp, outcome, tries>>
vars == <<staging, history, audit, config, runVars, credits>>

Outcomes == {"Issued", "IssueFailed", "DuplicateSkipped", "DryRun", "ValidationFailed"}

PCs == {"idle", "load", "next", "checkEmail", "settle", "post", "record", "audit"}

-----------------------------------------------------------------------------
(* What a configuration allows the job to do for a row. *)
Authorises(c, row) ==
    CreditsOn(c) /\ ~c.dryRun /\ InScope(c, row.email) /\ IsValid(row)

Init ==
    /\ staging \in Stagings
    /\ history = <<>>
    /\ audit = {}
    /\ config \in Configs
    /\ pc = [w \in Workers |-> "idle"]
    /\ cfg = [w \in Workers |-> config]
    /\ todo = [w \in Workers |-> {}]
    /\ emp = [w \in Workers |-> NoEmployee]
    /\ outcome = [w \in Workers |-> "None"]
    /\ tries = [w \in Workers |-> 0]
    /\ credits = [w \in Workers |-> [e \in EmployeeIds |-> 0]]

Goto(w, label) == pc' = [pc EXCEPT ![w] = label]

(* The run is over, normally or by an exception: its scope is disposed. *)
Finish(w) ==
    /\ Goto(w, "idle")
    /\ todo' = [todo EXCEPT ![w] = {}]
    /\ emp' = [emp EXCEPT ![w] = NoEmployee]
    /\ outcome' = [outcome EXCEPT ![w] = "None"]
    /\ tries' = [tries EXCEPT ![w] = 0]
    /\ UNCHANGED cfg

-----------------------------------------------------------------------------
(* appsettings.json is watched: an operator's edit is seen by the next run. *)
Reload(c) ==
    /\ config' = c
    /\ UNCHANGED <<staging, history, audit, runVars, credits>>

(* A run reads both option monitors once; a disabled job only says so. *)
BeginRun(w) ==
    /\ pc[w] = "idle"
    /\ cfg' = [cfg EXCEPT ![w] = config]
    /\ \/ /\ CreditsOn(config)
          /\ Goto(w, "load")
          /\ UNCHANGED audit
       \/ /\ ~CreditsOn(config)
          /\ LogAudit("StoreCredit", "Skipped", NoEmployee)
          /\ UNCHANGED pc
    /\ UNCHANGED <<staging, history, config, todo, emp, outcome, tries, credits>>

(* Mutant of LoadPending: the list is not filtered. *)
LoadAllPending(w) ==
    /\ pc[w] = "load"
    /\ todo' = [todo EXCEPT ![w] = Pending]
    /\ Goto(w, "next")
    /\ UNCHANGED <<staging, history, audit, config, cfg, emp, outcome, tries, credits>>

(* One query loads every pending row; staging mode filters the list. *)
LoadPending(w) ==
    /\ pc[w] = "load"
    /\ \/ /\ NobodyInScope(cfg[w])
          /\ LogAudit("StoreCredit", "Skipped", NoEmployee)
          /\ Goto(w, "idle")
          /\ UNCHANGED todo
       \/ /\ ~NobodyInScope(cfg[w])
          /\ todo' = [todo EXCEPT ![w] = {e \in Pending : InScope(cfg[w], staging[e].email)}]
          /\ Goto(w, "next")
          /\ UNCHANGED audit
    /\ UNCHANGED <<staging, history, config, cfg, emp, outcome, tries, credits>>

(* The next employee of the list: validated, then looked up by id in the    *)
(* credit history.                                                          *)
CheckEmployee(w) ==
    /\ pc[w] = "next"
    /\ \E e \in Earliest(todo[w]) :
        /\ emp' = [emp EXCEPT ![w] = e]
        /\ \/ /\ ~IsValid(staging[e])
              /\ outcome' = [outcome EXCEPT ![w] = "ValidationFailed"]
              /\ Goto(w, "audit")
           \/ /\ IsValid(staging[e])
              /\ HasSuccessfulNewEmployeeCredit(e, cfg[w].description)
              /\ outcome' = [outcome EXCEPT ![w] = "DuplicateSkipped"]
              /\ Goto(w, "settle")
           \/ /\ IsValid(staging[e])
              /\ ~HasSuccessfulNewEmployeeCredit(e, cfg[w].description)
              /\ Goto(w, "checkEmail")
              /\ UNCHANGED outcome
    /\ UNCHANGED <<staging, history, audit, config, cfg, todo, tries, credits>>

(* The second query of the duplicate check, by e-mail and for any attempt.  *)
CheckAttempt(w) ==
    /\ pc[w] = "checkEmail"
    /\ LET attempted == HasNewEmployeeCreditAttempt(staging[emp[w]].email, cfg[w].description)
       IN  \/ /\ attempted
              /\ outcome' = [outcome EXCEPT ![w] = "DuplicateSkipped"]
              /\ Goto(w, "settle")
           \/ /\ ~attempted /\ cfg[w].dryRun
              /\ outcome' = [outcome EXCEPT ![w] = "DryRun"]
              /\ Goto(w, "audit")
           \/ /\ ~attempted /\ ~cfg[w].dryRun
              /\ Goto(w, "post")
              /\ UNCHANGED outcome
    /\ UNCHANGED <<staging, history, audit, config, cfg, todo, emp, tries, credits>>

(* Mutant of SettleDuplicate: the flag is set but not saved. *)
SettleUnsaved(w) ==
    /\ pc[w] = "settle"
    /\ Goto(w, "audit")
    /\ UNCHANGED <<staging, history, audit, config, cfg, todo, emp, outcome, tries, credits>>

(* An employee with a credit on record is taken out of the queue. *)
SettleDuplicate(w) ==
    /\ pc[w] = "settle"
    /\ MarkProcessed(emp[w])
    /\ Goto(w, "audit")
    /\ UNCHANGED <<history, audit, config, cfg, todo, emp, outcome, tries, credits>>

-----------------------------------------------------------------------------
(* One HTTP attempt of GiveCredit, by how it ends.  Axomo adds a credit for *)
(* every request it executes: the request carries no idempotency key.       *)

Apply(w) ==
    credits' = [credits EXCEPT ![w][emp[w]] = IF @ < CreditCap THEN @ + 1 ELSE @]

MayApply(w) == Apply(w) \/ UNCHANGED credits

Answer(w, result) ==
    /\ outcome' = [outcome EXCEPT ![w] = result]
    /\ Goto(w, "record")
    /\ UNCHANGED <<cfg, todo, emp, tries>>

PostAccepted(w) ==
    /\ Apply(w)
    /\ Answer(w, "Issued")

(* A 4xx answer, or a 200 whose body says success: false. *)
PostRefused(w) ==
    /\ UNCHANGED credits
    /\ Answer(w, "IssueFailed")

(* Mutant of PostGarbled: an unreadable answer is retried like a lost one. *)
PostGarbledResent(w) ==
    /\ "garbled" \in Faults
    /\ Apply(w)
    /\ UNCHANGED runVars

(* Executed, but the body is empty, is no JSON, or lacks the success field. *)
PostGarbled(w) ==
    /\ "garbled" \in Faults
    /\ Apply(w)
    /\ Answer(w, "IssueFailed")

(* Mutant of PostRetried: one retry too many. *)
PostRetriedOnceMore(w) ==
    /\ "transient" \in Faults
    /\ tries[w] <= RetryCount
    /\ tries' = [tries EXCEPT ![w] = @ + 1]
    /\ MayApply(w)
    /\ UNCHANGED <<pc, cfg, todo, emp, outcome>>

(* A 5xx, a 408 or a broken connection: the request may have been executed. *)
(* Polly sends it again ...                                                 *)
PostRetried(w) ==
    /\ "transient" \in Faults
    /\ tries[w] < RetryCount
    /\ tries' = [tries EXCEPT ![w] = @ + 1]
    /\ MayApply(w)
    /\ UNCHANGED <<pc, cfg, todo, emp, outcome>>

(* ... and the failure of the last attempt becomes an exception.            *)
PostExhausted(w) ==
    /\ "transient" \in Faults
    /\ tries[w] = RetryCount
    /\ MayApply(w)
    /\ Answer(w, "IssueFailed")

(* HttpClient.Timeout spans all attempts; its TaskCanceledException (like   *)
(* a cancelled job token) is excluded from the catch and ends the run.      *)
PostTimesOut(w) ==
    /\ "timeout" \in Faults
    /\ MayApply(w)
    /\ Finish(w)

(* The call ends with something the job can record. *)
PostAnswered(w) ==
    /\ pc[w] = "post"
    /\ PostAccepted(w) \/ PostRefused(w) \/ PostGarbled(w) \/ PostExhausted(w)
    /\ UNCHANGED <<staging, history, audit, config>>

(* It goes on, or it is abandoned. *)
PostUnanswered(w) ==
    /\ pc[w] = "post"
    /\ PostRetried(w) \/ PostTimesOut(w)
    /\ UNCHANGED <<staging, history, audit, config>>

-----------------------------------------------------------------------------
(* Mutant of NewHistoryRow: what Axomo answered is not looked at. *)
NewSuccessRow(w) ==
    [employee |-> emp[w], email |-> staging[emp[w]].email,
     description |-> cfg[w].description, success |-> TRUE]

NewHistoryRow(w) ==
    [employee |-> emp[w], email |-> staging[emp[w]].email,
     description |-> cfg[w].description, success |-> outcome[w] = "Issued"]

(* Mutant of Record: a failure leaves no row and stays in the queue. *)
RecordSuccessOnly(w) ==
    /\ pc[w] = "record"
    /\ IF outcome[w] = "Issued" /\ ~IsDuplicateSuccess(NewHistoryRow(w))
       THEN AddHistory(NewHistoryRow(w)) /\ MarkProcessed(emp[w])
       ELSE UNCHANGED <<staging, history>>
    /\ Goto(w, "audit")
    /\ UNCHANGED <<audit, config, cfg, todo, emp, outcome, tries, credits>>

(* Mutant of Record: a failure is marked processed without a row. *)
RecordFailureUnbooked(w) ==
    /\ pc[w] = "record"
    /\ IF outcome[w] = "Issued" /\ ~IsDuplicateSuccess(NewHistoryRow(w))
       THEN AddHistory(NewHistoryRow(w))
       ELSE UNCHANGED history
    /\ MarkProcessed(emp[w])
    /\ Goto(w, "audit")
    /\ UNCHANGED <<audit, config, cfg, todo, emp, outcome, tries, credits>>

(* The history row and the processed flag go in one SaveChanges; when the   *)
(* unique index rejects the row, neither is stored and the exception ends   *)
(* the run.                                                                 *)
Record(w) ==
    /\ pc[w] = "record"
    /\ \/ /\ IsDuplicateSuccess(NewHistoryRow(w))
          /\ Finish(w)
          /\ UNCHANGED <<staging, history>>
       \/ /\ ~IsDuplicateSuccess(NewHistoryRow(w))
          /\ AddHistory(NewHistoryRow(w))
          /\ MarkProcessed(emp[w])
          /\ Goto(w, "audit")
          /\ UNCHANGED <<cfg, todo, emp, outcome, tries>>
    /\ UNCHANGED <<audit, config, credits>>

(* The audit entry is a SaveChanges of its own, after the fact. *)
Audit(w) ==
    /\ pc[w] = "audit"
    /\ LogAudit("StoreCredit", outcome[w], emp[w])
    /\ todo' = [todo EXCEPT ![w] = @ \ {emp[w]}]
    /\ emp' = [emp EXCEPT ![w] = NoEmployee]
    /\ outcome' = [outcome EXCEPT ![w] = "None"]
    /\ tries' = [tries EXCEPT ![w] = 0]
    /\ Goto(w, "next")
    /\ UNCHANGED <<staging, history, config, cfg, credits>>

EndRun(w) ==
    /\ pc[w] = "next"
    /\ todo[w] = {}
    /\ Finish(w)
    /\ UNCHANGED <<staging, history, audit, config, credits>>

(* A query or SaveChanges throws, or the job's token is cancelled in it. *)
AbortRun(w) ==
    /\ "dbError" \in Faults
    /\ pc[w] \notin {"idle", "post"}
    /\ Finish(w)
    /\ UNCHANGED <<staging, history, audit, config, credits>>

(* The process dies; Hangfire hands the jobs out again after a restart. *)
Crash ==
    /\ "crash" \in Faults
    /\ pc' = [w \in Workers |-> "idle"]
    /\ todo' = [w \in Workers |-> {}]
    /\ emp' = [w \in Workers |-> NoEmployee]
    /\ outcome' = [w \in Workers |-> "None"]
    /\ tries' = [w \in Workers |-> 0]
    /\ UNCHANGED <<staging, history, audit, config, cfg, credits>>

-----------------------------------------------------------------------------
(* What a run does by itself, and what its surroundings do to it. *)

Advance(w) ==
    \/ LoadPending(w) \/ CheckEmployee(w) \/ CheckAttempt(w) \/ SettleDuplicate(w)
    \/ Record(w) \/ Audit(w) \/ EndRun(w)

WorkerStep(w) ==
    \/ BeginRun(w) \/ Advance(w) \/ PostAnswered(w) \/ PostUnanswered(w) \/ AbortRun(w)

Next ==
    \/ \E w \in Workers : WorkerStep(w)
    \/ \E c \in Configs : Reload(c)
    \/ Crash

Spec == Init /\ [][Next]_vars

(* Hangfire keeps starting runs (the recurring trigger), a run's own steps  *)
(* are not suspended for ever, and a call repeated for ever is answered     *)
(* once: Axomo is not down for good.                                        *)
Fairness ==
    \A w \in Workers :
        WF_vars(BeginRun(w)) /\ WF_vars(Advance(w)) /\ SF_vars(PostAnswered(w))

FairSpec == Spec /\ Fairness

-----------------------------------------------------------------------------
TypeOK ==
    /\ DbTypeOK
    /\ config \in Configs
    /\ pc \in [Workers -> PCs]
    /\ cfg \in [Workers -> Configs]
    /\ todo \in [Workers -> SUBSET DOMAIN staging]
    /\ emp \in [Workers -> DOMAIN staging \cup {NoEmployee}]
    /\ outcome \in [Workers -> Outcomes \cup {"None"}]
    /\ tries \in [Workers -> 0..RetryCount]
    /\ credits \in [Workers -> [EmployeeIds -> 0..CreditCap]]

(* Two successful rows never share employee and description: the promise    *)
(* the filtered unique index makes, kept although the job checks for it in  *)
(* another transaction than it inserts in.                                  *)
UniqueSuccess ==
    \A i, j \in DOMAIN history :
        /\ history[i].success /\ history[j].success
        /\ history[i].employee = history[j].employee
        /\ history[i].description = history[j].description
        => i = j

(* A row that claims success is backed by a credit Axomo really gave to     *)
(* that employee, whichever worker wrote it and whatever failed since.      *)
SuccessRowBacked ==
    \A r \in HistoryRows : r.success => \E w \in Workers : credits[w][r.employee] > 0

(* Nobody silently drops out of the queue: an employee the job processed    *)
(* has an attempt on record, under the own id or for the own mailbox.       *)
(* (Baselined rows are stored processed and inactive by the import.)        *)
ProcessedHasEvidence ==
    \A e \in DOMAIN staging :
        staging[e].processed /\ staging[e].active =>
            \E r \in HistoryRows :
                r.employee = e \/ r.email.box = staging[e].email.box

(* What the audit log tells an operator is true of the tables: an entry is  *)
(* written after the transaction it reports, never instead of it.           *)
AuditTruthful ==
    \A a \in audit :
        /\ a.action = "Issued" =>
             \E r \in HistoryRows : r.employee = a.employee /\ r.success
        /\ a.action = "IssueFailed" =>
             \E r \in HistoryRows : r.employee = a.employee /\ ~r.success
        /\ a.action = "DuplicateSkipped" => staging[a.employee].processed

(* Money moves only for a valid employee and only under flags that allow it *)
(* in the configuration this run started with: job on, not paused, no dry   *)
(* run, and the address on the list when staging mode is on.                *)
CreditsAuthorised ==
    [][\A w \in Workers, e \in EmployeeIds :
          credits'[w][e] # credits[w][e] => Authorises(cfg[w], staging[e])]_vars

(* How often the HTTP client may send one request. *)
SendsPerRequest == IF "transient" \in Faults THEN RetryCount + 1 ELSE 1

(* Without timeouts, crashes and database errors a worker's runs together   *)
(* credit an employee at most once per sending of a single request: no      *)
(* later run of that worker comes back to the employee.                     *)
CreditsBoundedPerWorker ==
    Faults \subseteq {"transient", "garbled"} =>
        \A w \in Workers, e \in EmployeeIds : credits[w][e] <= SendsPerRequest

(* Without timeouts, crashes and database errors the only credit that is    *)
(* not on record yet is the one the worker is just asking for: what Axomo   *)
(* answered, readable or not, becomes a row before the run moves on.        *)
CreditOnRecordUnlessCut ==
    Faults \subseteq {"transient", "garbled"} =>
        \A w \in Workers, e \in EmployeeIds : credits[w][e] > 0 =>
            \/ \E r \in HistoryRows : r.employee = e
            \/ pc[w] \in {"post", "record"} /\ emp[w] = e

(* A worker that has the database to itself never credits somebody whose    *)
(* mailbox has an attempt on record, under whatever employee id and with    *)
(* whatever result (but for rows whose address begins with a blank): the    *)
(* list a run works from may be old, the history it looks at is not.        *)
MailboxCreditedOnce ==
    [][\A w \in Workers, e \in EmployeeIds :
          Workers = {w} /\ credits'[w][e] # credits[w][e] =>
              \A r \in HistoryRows :
                  ~r.email.leading /\ r.description = cfg[w].description
                      => r.email.box # staging[e].email.box]_vars

(* The credit is one-time: no employee is credited twice, by one worker or  *)
(* by two.                                                                  *)
OneTimeCredit ==
    \A v, w \in Workers, e \in EmployeeIds :
        credits[v][e] > 0 /\ credits[w][e] > 0 => v = w /\ credits[v][e] = 1

(* EmployeeCreditHistory holds every attempt: when no run is under way,     *)
(* whoever was credited has a row.                                          *)
EveryCreditOnRecord ==
    (\A w \in Workers : pc[w] = "idle") =>
        \A w \in Workers, e \in EmployeeIds :
            credits[w][e] > 0 => \E r \in HistoryRows : r.employee = e

(* How far a run is with its current employee, sendings of the request      *)
(* included.                                                                *)
Place(w) ==
    CASE pc[w] = "next" -> 0
      [] pc[w] = "checkEmail" -> 1
      [] pc[w] = "settle" -> 2
      [] pc[w] = "post" -> 3 + tries[w]
      [] pc[w] = "record" -> 4 + RetryCount
      [] pc[w] = "audit" -> 5 + RetryCount

InLoop == {"checkEmail", "settle", "post", "record", "audit"}

Moves(w) == \/ pc'[w] # pc[w] \/ todo'[w] # todo[w] \/ tries'[w] # tries[w]
            \/ credits'[w] # credits[w]

(* A run never goes round in circles: from the list it loaded each step, a  *)
(* repeated sending included, gets further with the employee, is done with  *)
(* that employee for good, or ends the run.  Whatever answers, repeats and  *)
(* rejections it meets, it takes at most RetryCount + 6 steps a person.     *)
RunAdvances ==
    [][\A w \in Workers :
          pc[w] \in InLoop \cup {"next"} /\ Moves(w) =>
              \/ pc'[w] = "idle"
              \/ todo'[w] = todo[w] /\ Place(w)' > Place(w)
              \/ emp[w] \in todo[w] /\ todo'[w] = todo[w] \ {emp[w]}]_vars

(* An employee the configuration in force lets the job credit is not left   *)
(* in the queue for ever.                                                   *)
NoStarvation ==
    \A e \in EmployeeIds :
        []<>~(e \in Pending /\ Authorises(config, staging[e]))

=============================================================================
