--------------------------- MODULE EmployeeImport ---------------------------
(***************************************************************************)
(* The employee-import job (EmployeeImportService), run by any number of   *)
(* Hangfire workers at once.  A run fetches the BambooHR directory, tests  *)
(* each entry against EmployeeStaging with a query of its own, collects    *)
(* the new ones in its DbContext and stores them all in one SaveChanges.   *)
(***************************************************************************)
EXTENDS StoreCreditorDb, FiniteSets

CONSTANTS Importers,    \* Hangfire worker threads
          Configs,      \* feature flags that can be configured
          Directories,  \* answers BambooHR may give, each a sequence
          Faults,       \* which of ImportFaults the environment may cause
          NoEmail       \* a workEmail that is absent or blank

ImportFaults == {"fetchError", "dbError", "crash"}

(* What the import can tell apart of a directory entry; storable says that  *)
(* every text fits its column and the names are not null.                   *)
Entry == [id : EmployeeIds \cup {NoEmployee}, email : Email \cup {NoEmail},
          active : BOOLEAN, storable : BOOLEAN]

ASSUME ImportAssumption ==
    /\ Configs \subseteq Config
    /\ Directories \subseteq Seq(Entry)
    /\ Faults \subseteq ImportFaults
    /\ NoEmail \notin Email

VARIABLES config,   \* what IOptionsMonitor.CurrentValue returns now
          ipc,      \* where each importer's run is
          icfg,     \* the configuration its run read at the start
          entries,  \* the directory it fetched
          unseen,   \* positions in it that are in scope and to be looked at
          batch     \* rows added to its DbContext, not yet saved

importVars == <<ipc, icfg, entries, unseen, batch>>
vars == <<staging, history, audit, config, importVars>>

IPCs == {"idle", "fetch", "scan", "report"}

NewRow == [id : EmployeeIds, row : StagingRow, storable : BOOLEAN]

-----------------------------------------------------------------------------
Init ==
    /\ staging = [e \in {} |-> 0]
    /\ history = <<>>
    /\ audit = {}
    /\ config \in Configs
    /\ ipc = [i \in Importers |-> "idle"]
    /\ icfg = [i \in Importers |-> config]
    /\ entries = [i \in Importers |-> <<>>]
    /\ unseen = [i \in Importers |-> {}]
    /\ batch = [i \in Importers |-> <<>>]

IGoto(i, label) == ipc' = [ipc EXCEPT ![i] = label]

(* The run is over; its scope, and what it tracked, is disposed. *)
EndImport(i) ==
    /\ IGoto(i, "idle")
    /\ entries' = [entries EXCEPT ![i] = <<>>]
    /\ unseen' = [unseen EXCEPT ![i] = {}]
    /\ batch' = [batch EXCEPT ![i] = <<>>]
    /\ UNCHANGED icfg

-----------------------------------------------------------------------------
Reload(c) ==
    /\ config' = c
    /\ UNCHANGED <<staging, history, audit, importVars>>

BeginImport(i) ==
    /\ ipc[i] = "idle"
    /\ icfg' = [icfg EXCEPT ![i] = config]
    /\ \/ /\ ImportOn(config)
          /\ IGoto(i, "fetch")
          /\ UNCHANGED audit
       \/ /\ ~ImportOn(config)
          /\ LogAudit("EmployeeImport", "Skipped", NoEmployee)
          /\ UNCHANGED ipc
    /\ UNCHANGED <<staging, history, config, entries, unseen, batch>>

IsStagingEmployee(c, x) ==
    c.stagingMode => x.email # NoEmail /\ InScope(c, x.email)

PositionsInScope(c, d) == {k \in DOMAIN d : IsStagingEmployee(c, d[k])}

(* The directory is fetched even when staging mode then refuses to use it. *)
FetchDirectory(i) ==
    /\ ipc[i] = "fetch"
    /\ \/ /\ NobodyInScope(icfg[i])
          /\ LogAudit("EmployeeImport", "Skipped", NoEmployee)
          /\ EndImport(i)
       \/ /\ ~NobodyInScope(icfg[i])
          /\ \E d \in Directories :
                /\ entries' = [entries EXCEPT ![i] = d]
                /\ unseen' = [unseen EXCEPT ![i] = PositionsInScope(icfg[i], d)]
          /\ IGoto(i, "scan")
          /\ UNCHANGED <<audit, icfg, batch>>
    /\ UNCHANGED <<staging, history, config>>

(* Mutant of IsBlank: the id is not looked at. *)
HasNoAddress(x) == x.email = NoEmail

IsBlank(x) == x.id = NoEmployee \/ x.email = NoEmail

(* Mutants of StagedRow: a baselined row is left open, or left active. *)
StagedOpen(c, x, place) ==
    [email |-> x.email, active |-> ~c.baseline /\ x.active, processed |-> FALSE,
     created |-> Cardinality(DOMAIN staging) + place]

StagedActive(c, x, place) ==
    [email |-> x.email, active |-> x.active, processed |-> c.baseline,
     created |-> Cardinality(DOMAIN staging) + place]

(* CreatedDate is the time the row is built, measured in rows: the table's  *)
(* size, plus the row's place in the batch.                                 *)
StagedRow(c, x, place) ==
    [email     |-> x.email,
     active    |-> ~c.baseline /\ x.active,
     processed |-> c.baseline,
     created   |-> Cardinality(DOMAIN staging) + place]

(* One turn of the loop, in the order of the directory.  ExistsAsync asks   *)
(* the database, so it sees neither this run's own unsaved rows nor another *)
(* run's.                                                                   *)
ScanEntry(i) ==
    /\ ipc[i] = "scan"
    /\ \E k \in unseen[i] :
        LET x == entries[i][k]
        IN  /\ \A l \in unseen[i] : k <= l
            /\ \/ /\ IsBlank(x) \/ Exists(x.id)
                  /\ UNCHANGED batch
               \/ /\ ~IsBlank(x) /\ ~Exists(x.id)
                  /\ batch' = [batch EXCEPT ![i] = Append(@,
                        [id |-> x.id, storable |-> x.storable,
                         row |-> StagedRow(icfg[i], x, Len(@) + 1)])]
            /\ unseen' = [unseen EXCEPT ![i] = @ \ {k}]
    /\ UNCHANGED <<staging, history, audit, config, ipc, icfg, entries>>

(* What makes SaveChanges throw: a value that does not fit, or an id that   *)
(* the unique index already has, from the table or from this batch.         *)
BatchFails(b) ==
    \/ \E k \in DOMAIN b : ~b[k].storable \/ Exists(b[k].id)
    \/ \E k, l \in DOMAIN b : k # l /\ b[k].id = b[l].id

IdsIn(b) == {b[k].id : k \in DOMAIN b}

RowFor(b, e) == b[CHOOSE k \in DOMAIN b : b[k].id = e].row

InsertAll(b) ==
    staging' = [e \in DOMAIN staging \cup IdsIn(b) |->
                  IF e \in DOMAIN staging THEN staging[e] ELSE RowFor(b, e)]

(* Mutant of SaveBatch: the exception is swallowed. *)
SaveBatchQuietly(i) ==
    /\ ipc[i] = "scan"
    /\ unseen[i] = {}
    /\ IF BatchFails(batch[i]) THEN UNCHANGED staging ELSE InsertAll(batch[i])
    /\ IGoto(i, "report")
    /\ UNCHANGED <<history, audit, config, icfg, entries, unseen, batch>>

SaveBatch(i) ==
    /\ ipc[i] = "scan"
    /\ unseen[i] = {}
    /\ \/ /\ BatchFails(batch[i])
          /\ EndImport(i)
          /\ UNCHANGED staging
       \/ /\ ~BatchFails(batch[i])
          /\ InsertAll(batch[i])
          /\ IGoto(i, "report")
          /\ UNCHANGED <<icfg, entries, unseen, batch>>
    /\ UNCHANGED <<history, audit, config>>

Report(i) ==
    /\ ipc[i] = "report"
    /\ LogAudit("EmployeeImport", "Completed", NoEmployee)
    /\ EndImport(i)
    /\ UNCHANGED <<staging, history, config>>

(* BambooHR cannot be reached or read, or a database call throws. *)
AbortImport(i) ==
    /\ \/ ipc[i] = "fetch" /\ "fetchError" \in Faults
       \/ ipc[i] \in {"scan", "report"} /\ "dbError" \in Faults
    /\ EndImport(i)
    /\ UNCHANGED <<staging, history, audit, config>>

(* The process dies. *)
Crash ==
    /\ "crash" \in Faults
    /\ ipc' = [i \in Importers |-> "idle"]
    /\ entries' = [i \in Importers |-> <<>>]
    /\ unseen' = [i \in Importers |-> {}]
    /\ batch' = [i \in Importers |-> <<>>]
    /\ UNCHANGED <<staging, history, audit, config, icfg>>

-----------------------------------------------------------------------------
AdvanceImport(i) ==
    FetchDirectory(i) \/ ScanEntry(i) \/ SaveBatch(i) \/ Report(i)

ImporterStep(i) == BeginImport(i) \/ AdvanceImport(i) \/ AbortImport(i)

Next ==
    \/ \E i \in Importers : ImporterStep(i)
    \/ \E c \in Configs : Reload(c)
    \/ Crash

Spec == Init /\ [][Next]_vars

-----------------------------------------------------------------------------
TypeOK ==
    /\ DbTypeOK
    /\ config \in Configs
    /\ ipc \in [Importers -> IPCs]
    /\ icfg \in [Importers -> Configs]
    /\ entries \in [Importers -> Seq(Entry)]
    /\ unseen \in [Importers -> SUBSET Nat]
    /\ batch \in [Importers -> Seq(NewRow)]

(* When a run reports completion, nobody it was shown and may stage is      *)
(* missing from the queue, whatever other imports did in the meantime.      *)
ReportedImportIsComplete ==
    \A i \in Importers : ipc[i] = "report" =>
        \A k \in DOMAIN entries[i] :
            LET x == entries[i][k]
            IN  IsStagingEmployee(icfg[i], x) /\ ~IsBlank(x) => Exists(x.id)

(* Rows are born the way the flags of the importing run say: in its scope,  *)
(* and, when it baselines, done and inactive; otherwise open.               *)
ImportedUnderFlags ==
    [][\A e \in DOMAIN staging' \ DOMAIN staging :
          \E i \in Importers :
              /\ ipc[i] = "scan" /\ ipc'[i] = "report"
              /\ ImportOn(icfg[i]) /\ InScope(icfg[i], staging'[e].email)
              /\ staging'[e].processed = icfg[i].baseline
              /\ icfg[i].baseline => ~staging'[e].active]_vars

=============================================================================
