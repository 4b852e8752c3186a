--------------------------- MODULE StoreCreditorDb ---------------------------
(***************************************************************************)
(* The SQL tables the jobs share (StoreCreditor.Data) and the queries the  *)
(* repositories run on them.  A query and a SaveChanges are each one       *)
(* database transaction; the modules that extend this one decide in which  *)
(* order, and how far apart, the jobs issue them.                          *)
(*                                                                         *)
(* EmployeeStaging is a function from the ids that have a row to the row;  *)
(* EmployeeCreditHistory is the sequence of its rows in insertion order;   *)
(* AuditLogs is the set of entries written, by job, action and employee.   *)
(* An e-mail address is what the code can tell apart: the mailbox its      *)
(* trimmed, case-folded text names, and whether the stored text begins     *)
(* with blanks (it is stored as BambooHR sent it, see EmployeeImport).     *)
(***************************************************************************)
EXTENDS FeatureFlags, Naturals, Sequences

CONSTANTS EmployeeIds,         \* BambooHR employee ids
          NoEmployee,          \* an absent id
          MalformedMailboxes   \* mailboxes MailAddress cannot parse

ASSUME DbAssumption == /\ MalformedMailboxes \subseteq Mailboxes
                       /\ NoEmployee \notin EmployeeIds

VARIABLES staging,   \* table EmployeeStaging
          history,   \* table EmployeeCreditHistory
          audit      \* table AuditLogs

Email == [box : Mailboxes, leading : BOOLEAN]

StagingRow == [email : Email, active : BOOLEAN, processed : BOOLEAN, created : Nat]

HistoryRow == [employee : EmployeeIds, email : Email, description : Descriptions,
               success : BOOLEAN]

AuditEntry == [job : {"StoreCredit", "EmployeeImport"},
               action : {"Skipped", "Completed", "Issued", "IssueFailed",
                         "DuplicateSkipped", "DryRun", "ValidationFailed"},
               employee : EmployeeIds \cup {NoEmployee}]

DbTypeOK ==
    /\ DOMAIN staging \subseteq EmployeeIds
    /\ staging \in [DOMAIN staging -> StagingRow]
    /\ history \in Seq(HistoryRow)
    /\ audit \subseteq AuditEntry

-----------------------------------------------------------------------------
(* Queries on EmployeeStaging. *)

Exists(e) == e \in DOMAIN staging

Pending == {e \in DOMAIN staging : ~staging[e].processed}

(* ORDER BY CreatedDate: rows of one import may carry the same date, and    *)
(* SQL leaves their order open.                                             *)
Earliest(S) == {e \in S : \A f \in S : staging[e].created <= staging[f].created}

(* The validator the credit job applies to a row. Ids are never blank: the  *)
(* import, the only writer of the table, skips those.                       *)
IsValid(row) == row.active /\ row.email.box \notin MalformedMailboxes

-----------------------------------------------------------------------------
(* Queries on EmployeeCreditHistory. *)

HistoryRows == {history[i] : i \in DOMAIN history}

HasSuccessfulNewEmployeeCredit(e, d) ==
    \E r \in HistoryRows : r.employee = e /\ r.description = d /\ r.success

(* Mutant of the next query: "attempt" taken for "failed attempt". *)
HasFailedAttempt(email, d) ==
    \E r \in HistoryRows :
        /\ r.email.box = email.box /\ ~r.email.leading /\ r.description = d
        /\ ~r.success

(* The argument is trimmed, the stored column is not; SQL compares without  *)
(* trailing blanks, so a stored address is missed only for leading ones.    *)
HasNewEmployeeCreditAttempt(email, d) ==
    \E r \in HistoryRows :
        r.email.box = email.box /\ ~r.email.leading /\ r.description = d

(* Mutant of IsDuplicateSuccess: the index is missing. *)
NoUniqueIndex(row) == FALSE

(* The filtered unique index (EmployeeId, Description, Success = 1). *)
IsDuplicateSuccess(row) ==
    row.success /\ HasSuccessfulNewEmployeeCredit(row.employee, row.description)

-----------------------------------------------------------------------------
(* Writes, each one SaveChanges. *)

MarkProcessed(e) == staging' = [staging EXCEPT ![e].processed = TRUE]

AddHistory(row) == history' = Append(history, row)

LogAudit(job, action, e) ==
    audit' = audit \cup {[job |-> job, action |-> action, employee |-> e]}

=============================================================================
