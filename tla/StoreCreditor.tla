---------------------------- MODULE StoreCreditor ----------------------------
(***************************************************************************)
(* Both jobs at work on one database: the import stages employees while    *)
(* credit runs that loaded an older queue are still under way.  The        *)
(* process is one: a crash ends every run of either job.                   *)
(***************************************************************************)
EXTENDS CreditIssuing

CONSTANTS NoEmail, Directories, Importers,   \* see EmployeeImport
          FetchFaults   \* {"fetchError"} if BambooHR may fail, or {}

VARIABLES ipc, icfg, entries, unseen, batch

importVars == <<ipc, icfg, entries, unseen, batch>>
creditVars == <<runVars, credits>>
systemVars == <<vars, importVars>>

Import == INSTANCE EmployeeImport
            WITH Faults <- FetchFaults \cup (Faults \cap {"dbError", "crash"})

ASSUME SystemAssumption ==
    /\ Stagings = {<<>>}
    /\ Directories \subseteq Seq(Import!Entry)
    /\ FetchFaults \subseteq {"fetchError"}
    /\ NoEmail \notin Email

SystemInit == Init /\ Import!Init

CreditStep(w) == WorkerStep(w) /\ UNCHANGED importVars

ImportStep(i) == Import!ImporterStep(i) /\ UNCHANGED creditVars

Edit(c) == Reload(c) /\ UNCHANGED importVars

ProcessDies == Crash /\ Import!Crash

SystemNext ==
    \/ \E w \in Workers : CreditStep(w)
    \/ \E i \in Importers : ImportStep(i)
    \/ \E c \in Configs : Edit(c)
    \/ ProcessDies

SystemSpec == SystemInit /\ [][SystemNext]_systemVars

(* Both recurring triggers keep starting runs, and runs go on; see Fairness *)
(* of the credit job, which the import shares, and JobScheduling.           *)
SystemFairness ==
    /\ \A w \in Workers :
        /\ WF_systemVars(BeginRun(w) /\ UNCHANGED importVars)
        /\ WF_systemVars(Advance(w) /\ UNCHANGED importVars)
        /\ SF_systemVars(PostAnswered(w) /\ UNCHANGED importVars)
    /\ \A i \in Importers :
        /\ WF_systemVars(Import!BeginImport(i) /\ UNCHANGED creditVars)
        /\ WF_systemVars(Import!AdvanceImport(i) /\ UNCHANGED creditVars)

FairSystem == SystemSpec /\ SystemFairness

-----------------------------------------------------------------------------
IsExisting(row) == row.processed /\ ~row.active

Ledger == INSTANCE CreditLedger
            WITH People   <- EmployeeIds,
                 Boxes    <- Mailboxes,
                 Purposes <- Descriptions,
                 mailbox  <- [e \in DOMAIN staging |-> staging[e].email.box],
                 existing <- {e \in DOMAIN staging : IsExisting(staging[e])},
                 settled  <- {e \in DOMAIN staging : staging[e].processed},
                 book     <- [k \in DOMAIN history |->
                                [person  |-> history[k].employee,
                                 box     |-> history[k].email.box,
                                 purpose |-> history[k].description,
                                 success |-> history[k].success]]

(* The tables, whatever the jobs' interleaving, faults and crashes, are     *)
(* books kept as CreditLedger says: staging rows never change but for being *)
(* settled, a settled hire and the attempt appear together or the attempt   *)
(* is already there, existing staff is never attempted, and no success is   *)
(* booked twice.                                                            *)
KeepsLedger == Ledger!Spec

(* For a system with one credit worker, and so without overlapping credit   *)
(* runs: an employee id that comes with the mailbox of an earlier one (a    *)
(* rehire, a second record) gets no credit once an attempt is on record,    *)
(* however late the import stages it.  Nothing is said of two workers: both *)
(* check before either has stored its row (CreditIssuingService.cs:87), so  *)
(* there it does not hold; see OneTimeCredit.                               *)
RehireNotCredited == MailboxCreditedOnce

(* From the directory to the money: a hire BambooHR keeps listing as active *)
(* with a well-formed address ends up with an attempt on record, for the    *)
(* own id or for the mailbox.                                               *)
EveryHireAttempted ==
    \A e \in EmployeeIds :
        (\A d \in Directories : \E k \in DOMAIN d :
            /\ d[k].id = e /\ d[k].active
            /\ ~Import!IsBlank(d[k]) /\ d[k].email.box \notin MalformedMailboxes)
        => <>(/\ e \in DOMAIN staging
              /\ \E r \in HistoryRows :
                    r.employee = e \/ r.email.box = staging[e].email.box)

=============================================================================
