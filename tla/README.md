# StoreCreditor: specifications and proofs

StoreCreditor is an ASP.NET Core application with two Hangfire jobs. The import
job stages the employees BambooHR lists; the credit job gives each of them one
store credit through the Axomo API. Operators sign in to watch the queue, the
credit history and the audit log.

These TLA+ modules model the two jobs and the tables they share, how the jobs get
their schedules, the HTTP call with its retries and timeout, and the operators'
accounts from registration to recovery. TLC checks them on small instances; TLAPS
proves every safety property of the passing runs, and both refinements, for every
value of the constants; what each job promises by itself is also proved of both
together. Paths below are relative to `src/` of the repository, with
`Services` = `src/StoreCreditor.Services`, `Data` = `src/StoreCreditor.Data`
and `Web` = `src/StoreCreditor.Web`.

## 1. The system

| Component | State | Operations | Talks to |
|---|---|---|---|
| Feature flags, options (`Services/Options`) | `appsettings.json`, reloaded on change | read through `IOptionsMonitor` | both jobs, sign-in |
| Database, repositories (`Data`) | `EmployeeStaging`, `EmployeeCreditHistory`, `AuditLogs`; unique indexes | queries, `SaveChanges` | both jobs, the pages |
| Validation (`Services/Validation`) | none | `IsValid` | credit job |
| Audit log (`Services/AuditService.cs`) | `AuditLogs` | `LogAsync`, a transaction of its own | both jobs |
| Credit job (`Services/CreditIssuingService.cs`) | the run's list, place, outcome | `IssueAsync` | database, Axomo |
| Import job (`Services/EmployeeImportService.cs`) | the run's directory, place, unsaved rows | `ImportAsync` | database, BambooHR |
| Axomo and BambooHR clients (`Services/Clients`) | none | one HTTP call each | jobs |
| Retry policy, client timeout (`Services/DependencyInjection.cs`) | retries made | retry, give up, time out | both clients |
| Schedule registration (`Web/Program.cs`) | recurring jobs in Hangfire | add, fall back, re-register on reload | jobs |
| Accounts, sign-in (`Web/Areas/Identity`, `Web/Controllers/AccountController.cs`) | `AspNetUsers`, roles, logins, lockout, mailed codes, cookies | register, Entra callback, sign in, code, log out | user store, mail |
| Account self-service (same directories) | security stamps, one-time tokens | reset, confirm, change | user store, mail |
| Pages (`HomeController`, `EmployeeQueueController`, ...) | none | read | database |
| Mail, error middleware, dashboard authorization | none | send, answer, allow | |
| Migrations, views, vendored assets | none | | |

What makes each of the parts with state correct:

* **credit job**: a credit is given once, only to a valid employee whom the
  flags allow; what the tables and the log claim happened; nobody drops out of
  the queue without a trace; nobody stays in it for ever;
* **import job**: everybody it was shown and may stage is staged, as the flags
  of that run say; a row that is there is never altered (`KeepsLedger`);
* **both on one database**: the tables are the books of an abstract ledger,
  whatever the interleaving; every listed hire ends with an attempt;
* **schedules**: whatever is written into the settings, each job has a schedule and
  both jobs are on one configuration; runs keep coming;
* **one HTTP call**: it ends, and to its caller it is one request sent a bounded
  number of times;
* **sign-in and self-service**: a reset link works once, a password changes only on
  a good proof, a session that passes validation rests on the password in force or
  on a linked Entra login, no late store ends a lockout;
* **accounts**: one role per account, an administrator exists, later users are
  operators.

### What is hard here

* *Interleaving.* Nothing keeps runs apart. The recurring trigger, the
  buttons of `JobsController` and Hangfire's re-issue of a job it takes for
  abandoned all start runs; each run has its own `DbContext`. Check and act are
  separate transactions, minutes apart, with an HTTP call between them.
* *Failure.* Axomo's call is not idempotent, is retried by Polly, may time out
  after it was executed, and may be answered by something unreadable. The
  process may die between the call and its record. The audit entry is a later
  transaction.
* *Configuration.* Flags change at any moment; a run keeps those it started
  with.
* *Progress.* One employee whose call always times out blocks those behind;
  one directory entry that does not fit blocks the import.
* *Schedules.* The table of recurring jobs outlives the process; two registrations
  are two calls; a change callback can be overtaken by the next edit.
* *Time.* Pauses of 2, 4 and 8 seconds and up to four attempts share one timeout of
  30 seconds.
* *Whole-row stores.* Every account page stores the row it loaded; only the
  concurrency stamp keeps an old password from coming back, or a lockout from
  being undone.
* *Sign-in in two requests.* The password is checked in one request and the mailed
  code in a later one; the cookie between them names the user and nothing else.
* *Provisioning.* "Is this the first user?", creating the account, adding the
  role and linking the login are four calls on the user store.

`PROJECT.json` lists these hazards one by one, at their lines.

## 2. The modules

| Module | Models | State ↔ code |
|---|---|---|
| `FeatureFlags` | `FeatureFlagOptions`, the description of `CreditOptions` | a record per configuration; the staging list is the set of mailboxes `GetStagingEmployeeEmailSet` builds |
| `StoreCreditorDb` | tables, repositories, indexes, validator | `staging`: id → row; `history`: rows in insertion order; `audit`: entries written |
| `CreditIssuing` | `CreditIssuingService`, `AxomoService.GiveCreditAsync`, retry and timeout | per worker: `pc`, `cfg` (options read), `todo` (list loaded), `emp`, `outcome`, `tries`; ghost `credits` = what Axomo executed |
| `EmployeeImport` | `EmployeeImportService`, `GetEmployeeDirectoryAsync` | per importer: `ipc`, `icfg`, `entries` (the directory), `unseen` (positions in scope still to look at), `batch` (rows its `DbContext` tracks) |
| `CreditLedger` | abstract: enrolled people, a book of attempts, who is settled | no code |
| `StoreCreditor` | both jobs on one database and in one process | `CreditIssuing` extended by an instance of `EmployeeImport`; refinement mapping to `CreditLedger` |
| `JobScheduling` | `Program.cs:158-242`, `HangfireJobOptions`, `JobsController` | `config`: the file; `options`, `at`: what is being registered and how far it is; `announce`: a pending change callback; `recurring`: Hangfire's table; `queue`: runs waiting |
| `HttpCall` | abstract: one call, repeated, executed, ended | no code |
| `HttpRetry` | `DependencyInjection.cs:37-54`, `AxomoService.SendAsync` | `phase`, `tries`, `resume` of the retry policy; `now`: the clock; `arrived`, `late`, `executed`: copies at the service; ghost `held` |
| `Accounts` | registration and provisioning by the Entra callback, with the role an account gets | `users`; per browser: `step`, `mail`, `entrance`, `isFirst` of its request, `session` cookie; ghost `founders` |
| `AccountRecovery` | `Areas/Identity/Pages/Account/**`, `AccountController`: sign-in by password, code and Entra, lockout, reset, change | `user`: the row's password, two-factor switch, lockout, security stamp (`stamp`), concurrency stamp (`version`), and whether an Entra login is linked; `links`, `codes`: what was mailed; per browser: `request` (the copy it loaded), `pending` (two-factor cookie), `session` (the stamp in its cookie); ghosts `uses`, and `given` and `typed`, the password a session or a code was got with |
| `CreditIssuingProofs`, `EmployeeImportProofs`, `CreditLedgerProofs`, `StoreCreditorProofs`, `JobSchedulingProofs`, `HttpRetryProofs`, `AccountsProofs`, `AccountRecoveryProofs` | theorems | |
| `MC...` | constants for TLC | |

`StoreCreditorDb` extends `FeatureFlags`; the jobs extend `StoreCreditorDb`;
`StoreCreditor` extends `CreditIssuing` and instantiates `EmployeeImport` over the
same tables: a step of one job leaves the other's variables alone, and a crash ends
every run of both. Two modules justify assumptions of the jobs: `JobScheduling` the
fairness of `BeginRun` and `BeginImport`, and `HttpRetry` the ways a call of
`CreditIssuing` may end (section 4).

**Grain.** A step is one call that leaves the process: a query, a
`SaveChanges`, an HTTP attempt, a call on the user store. What the code does
between two such calls touches only the run's own locals and is part of the
step. A run of the credit job is

    BeginRun → LoadPending → ( CheckEmployee → CheckAttempt → Post... → Record → Audit )* → EndRun

with `SettleDuplicate` in place of the call for somebody who has a row already,
and `Audit` alone for a dry run or an invalid row. `AbortRun` is an exception
of a database call, `PostTimesOut` the one the service's catch excludes
(`CreditIssuingService.cs:122`), `Crash` the end of the process. An import is
`BeginImport → FetchDirectory → ScanEntry* → SaveBatch → Report`. Provisioning
is `Register`, or `EntraCallback → FindByEmail`, then `CountUsers → CreateAccount →
AddToRole (→ LinkLogin)`. A registration is `Start` or `Announce`, then `Register` for the
import job and for the credit job. An HTTP call is `(Execute) → Headers → Body`, with
`Retry → Resend` in between, and a `Tick` per second. A request on an account is a
load (`ResetPassword`, `ChangePassword`, `Login`, `LoginWith2fa`, ...), then, if it
stores anything, `Store` or `Conflict`, then `AskForCode`, `IssueCookie` or nothing:
a sign-in with two factors is `Login → AskForCode`, and in a later request
`LoginWith2fa → (Store →) IssueCookie`. Between any two of these other browsers may
change the password, lock the account or use up its failures.

**Abstractions.**

* An e-mail address is the mailbox its trimmed, case-folded text names, and
  whether the stored text has leading blanks, because the stored column is
  compared untrimmed.
* `created` counts rows in place of time: the queue's order is by
  `CreatedDate`, which follows the order of insertion; rows of equal date may
  come in either order, as in SQL.
* A configuration is read in one step. The code reads two option monitors one
  after the other; an edit that falls between them is not modelled.
* `credits` saturates at `CreditCap`. No action reads it.
* Axomo is external: it executes a request or not; a request it executes adds a
  credit; the answer tells, lies (unreadable) or does not come.
* Audit texts are left out. A text too long for its column is an audit write
  that fails (`AbortRun`).
* `storable` says that an entry's texts fit their columns.
* `JobScheduling`: a setting is one of a set of texts, sorted by what
  `NormalizeCron` and Hangfire's parser do with them (blank, a field short, malformed,
  never due). `AddOrUpdate` parses before it writes, so a malformed text leaves the
  table alone; a storage failure may come before or after the write. Edits are
  announced one callback at a time. The cron calendar itself is external: a schedule
  that is ever due is due again and again.
* `HttpRetry`: one-second ticks; an attempt takes any time, as all steps but `Tick`
  take none. A copy of the request that the client has given up may be executed
  later. The `TaskCanceledException` clause of the policy sends nothing: it is the
  timeout itself that raises the exception, and its cancelled token ends the pause.
* `AccountRecovery`: stamps are random values in the code and never return; here they
  count how often the row was stored. One account, since no step looks at two.
  Display name, confirmation and a failure that is counted are stores that leave
  password and stamp alone (`LoadToUpdate`); any failure may be the one that locks the
  account (`CountFailure`), and the lockout ends by itself (`LockoutEnds`), also for
  those who loaded the row before. Whether failures were counted that a sign-in has to
  clear, and whether `UseOtp` is on, are free choices of `Login`. `NoPassword` stands
  for what a visitor from Entra gave. Codes and links leave the mailbox when they
  expire; a mail that never arrives is one that expires at once.
* `Accounts`: Identity's own calls (`CreateAsync`, `AddToRoleAsync`, ...)
  are one step each, as their optimistic concurrency makes them; a role or a login
  that meets a concurrency conflict is refused. The domain test comes
  before anything is read, so `Emails` are addresses that pass it; there is one
  Entra identity per address; the roles a cookie carries are not modelled. Passwords,
  codes and lockout are in `AccountRecovery`.

Operators whose comment begins "Mutant of" are plausible bugs of the
definition below them. No specification uses them; each makes the property it
is paired with in `PROJECT.json` fail.

## 3. What the runs check

| Run | Instance | Shows |
|---|---|---|
| `CreditIssuing_concurrent` | 2 workers, 2 hires, 1 retry, transient errors and unreadable answers | `UniqueSuccess`: one success per employee and description although both workers check before they insert. `CreditsBoundedPerWorker`: a worker credits an employee at most once per sending of one request, since no later run comes back. `CreditOnRecordUnlessCut`: an answered credit has a row before the run moves on. `RunAdvances`: each step of a run brings it further with an employee, finishes the employee or ends the run |
| `CreditIssuing_faults` | 2 workers, 4 configurations reloaded at any moment, 4 stagings (two rows with one mailbox; a row behind a malformed, baselined or inactive one), every fault | `SuccessRowBacked`, `ProcessedHasEvidence`, `AuditTruthful`: what the tables and the log say is true, even if not complete. `CreditsAuthorised`: money moves only for a valid employee under the flags the run started with |
| `EmployeeImport_concurrent` | 2 importers, 6 directories, 5 configurations, every fault | `ReportedImportIsComplete`, `ImportedUnderFlags` |
| `StoreCreditor_rollout` | 1 credit worker, 1 import; staging mode, dry run and baseline, live, in any order; timeouts, database errors, crashes | `KeepsLedger` with existing staff. `RehireNotCredited`: as credit runs do not overlap here, a second BambooHR record with the mailbox of an earlier one gets no second credit (with two credit workers the property says nothing, and by finding 1 such a record can be credited). `CreditsAuthorised` of rows staged while the run is under way |
| `StoreCreditor_liveness` | 2 credit workers, 1 import, fair; timeouts, errors, no crash | `KeepsLedger` with two workers, `EveryHireAttempted`, `NoStarvation` |
| `JobScheduling_edits` | 3 configurations of 5 texts, storage failures, crashes, fair | `OneConfiguration`, `NothingUnscheduled`; `EditsNotLost`: on a serving application the schedules follow the file, or are on their way; `EditTakesEffect`, `RunsKeepComing` |
| `HttpRetry_clock` | the code's numbers: 3 retries, pauses of 2, 4, 8 seconds, 30 seconds; every fault, fair | `BackoffKept`; `TimedOutWasHeld`: a call that is timed out spent 16 seconds or more at the service, so pauses alone never cut a call off; `KeepsHttpCall`; `CallEnds` |
| `AccountRecovery_stamps` | 2 browsers, 2 passwords, 2 stores, 1 mail at a time, crashes | `LinkWorksOnce`, `PasswordChangeProven`. `SessionRestsOnPassword`: whichever way a sign-in and a change of password overlap, a session that passes validation rests on the password in force, typed by this browser or by the one that had the code mailed, or on a linked Entra login. `LockoutKept`: a lockout ends by time, not by a store of a row that was loaded before it |
| `Accounts_provisioning` | 3 browsers, 3 addresses, store errors and crashes | `OneRolePerAccount`, `AdminNotLost`, `OnlyFoundersAreAdmins` |
| `CreditIssuing_onetime` | 2 workers, no fault | **violated**: `OneTimeCredit` |
| `CreditIssuing_record` | 1 worker, timeouts | **violated**: `EveryCreditOnRecord` |
| `Accounts_twoadmins` | 3 browsers, no fault | **violated**: `SingleAdmin` |

`KeepsLedger` is in two runs because the two go wrong in different ways: the first
with baselined staff and a changing configuration, the second with two workers that
race for the unique index. `CreditsAuthorised` is in two runs because in
`CreditIssuing_faults` the rows are there from the start, and in
`StoreCreditor_rollout` the import stages them, under flags that change, while the
credit run works on its list.

### Bounds

* *Two workers, importers, browsers.* Every race here is between a check and an
  insert of the same row, and needs two actors. The proved properties do not
  depend on the number. Provisioning has three browsers and addresses, so that
  two founders can race while a third registers later.
* *Two employees* give a head and a tail of the queue, a shared and a different
  mailbox; *two mailboxes and a malformed one* separate "same address" from
  "same person".
* `RetryCount` is 3 in the code, and in `HttpRetry_clock`. `CreditIssuing_concurrent`
  takes 1 (a retry and a last attempt); the other passing runs of the jobs take 0,
  where `PostRetried` adds nothing that `PostExhausted` and `PostTimesOut` do not;
  the two violated runs take 3.
* `CreditCap` is above what the property speaks of (`SendsPerRequest` = 2 in
  `CreditIssuing_concurrent`, so 3; first credits only in `CreditIssuing_faults` and
  `StoreCreditor_rollout`, so 2; the properties of the fair run do not look at it, so 1).
* Directories have at most three entries: an ordinary one, a blank one, and one
  that repeats an id or does not fit.
* `MaxSaves` = 2 in `AccountRecovery_stamps`: a store by somebody else between a load
  and its own late store; a store and then a second of the same browser; a change of
  the password that is taken back. `MaxMails` = 1: a code or a link at a time, of any
  stamp so far. The proofs hold for any values of both.
* Deadlock is checked everywhere but in `HttpRetry_clock`, where a call that ended
  takes no further step. An idle worker can always begin a run, and a browser a
  request.

### Fairness

`FairSystem` has weak fairness of `BeginRun` and `BeginImport`: the
recurring triggers keep starting runs, as `JobScheduling` shows (`RunsKeepComing`). It has weak fairness of a run's own steps:
a query returns. And it has strong fairness of `PostAnswered`: a call that is
tried again and again is answered at some time, with success or with an error;
that is, Axomo is not unreachable for good. Nothing is assumed of timeouts,
retries, failures or reloads, which may happen for ever or never. Without the
strong fairness `NoStarvation` fails: a run whose call times out ends, and the
next run starts with the same employee. Database errors and crashes are not in
the fair runs: nothing in the code bounds how often they happen, and a job that
always crashes makes no progress.

`JobScheduling` assumes that the service manager restarts the process and that
change callbacks are made (weak fairness), and that the storage is not unreachable
for good and that the process now and then lives long enough to finish its start-up
and to let a run fall due (strong fairness of `Subscribe`, `Register`, `Trigger` and
`StartRun`). Without the last, a process that always crashes during start-up never
serves. `HttpRetry` assumes that time passes and timers fire; nothing of the service.

### Findings

1. `CreditIssuing_onetime`. Two overlapping runs both pass the duplicate checks
   (`CreditIssuingService.cs:79`, `:87`) and both credit the employee; the
   unique index rejects the second row after the money moved. `README.md:3`
   calls the credit one-time.
2. `CreditIssuing_record`. A call that times out after Axomo executed it leaves
   no row, against `README.md:54` ("every Axomo credit attempt"), and the next
   run gives the credit again.
3. `Accounts_twoadmins`. Two first registrations at once both become
   administrators, against `README.md:70`.

Met while reading, and not the subject of a run:

* All rows of an import go in one `SaveChanges` (`EmployeeImportService.cs:80`); an
  entry that does not fit its column blocks all the others for as long as BambooHR
  lists it. Such a run never reports completion (`ReportedImportIsComplete`), and
  nobody is staged for as long as it is listed (proved: `MisfitBlocksAllHolds`);
  `EveryHireAttempted` holds of directories in which everything fits.
* A two-factor cookie got with a password that has been changed since can still be
  completed by a code that somebody mailed under the new one
  (`LoginWith2fa.cshtml.cs:54`): the cookie carries no stamp. Whoever has that code in
  hand reads the account's mail; `SessionRestsOnPassword` says on whose password such
  a session rests. Likewise a lockout stops a password and a code where they are
  checked; a sign-in past its check goes on (`Login.cshtml.cs:75`, `:100`).
* The result of `AddToRoleAsync` is ignored (`Register.cshtml.cs:67`,
  `Login.cshtml.cs:193`): when a failed sign-in stores the new row in between, the
  account has no role although the page reports success.
* `README.md:187` says timeouts are retried, but `HttpClient.Timeout` spans all
  attempts, so its cancellation ends the retries as well (`HttpRetry`).
* `README.md:62` says that the credit job checks Axomo's credit logs, but nothing
  calls `GetCreditLogsAsync`.
* `StoreCreditRepository.cs:17` trims the address it looks for but not the stored
  one, so an address stored with a leading blank is not found; `RehireNotCredited`
  excepts it.
* An edit between start-up's read of the options and its subscription
  (`Program.cs:164-165`) is announced to nobody; `EditTakesEffect` excepts it.
* The profile page ignores the result of `UpdateAsync` (`Manage/Index.cshtml.cs:46`)
  and says "Profile updated." after a conflict.

## 4. What is proved

Assumptions: `DbAssumption`, `CreditAssumption`, `ImportAssumption`,
`SystemAssumption`, `ScheduleAssumption`, `RetryAssumption`, `AccountAssumption`
and `RecoveryAssumption`, which TLC evaluates in the runs of the modules that state
or extend them. They say that malformed mailboxes are mailboxes, that absent values
are not values, that configurations, directories and initial stagings are of their
type, that an initial row that is processed is an inactive (baselined) one, that the
default schedules are ones Hangfire accepts, and that pauses grow.

`CreditIssuingProofs`, for any number of workers and employees, any set of
configurations, any faults and any retry count:

| Theorem | Strengthening and why it is needed |
|---|---|
| `TypeCorrect` | `WorkerInv` = `TypeOK` + `EmpInv` (inside the loop `emp` is in the list, so it has a row) + `OutcomeInv` (what is to be recorded is an attempt). Without `EmpInv` a row or entry for nobody would be of the wrong type |
| `UniqueSuccessHolds` | inductive with `WorkerInv`: `Record` is the only insert |
| `SuccessRowBackedHolds` | `BackedInv`: a worker that is to record "Issued" has credited that employee, and credits never decrease |
| `ProcessedHasEvidenceHolds` | `SettleInv`: a worker about to settle a duplicate has seen a row, and rows stay |
| `CreditsBoundedPerWorkerHolds` | `BoundInv`: per worker, how many credits an employee may have at each place of the run; rows settle their employee, so a later list does not contain it. `StepLocal` gives the frame: another worker's step leaves this worker's variables alone |
| `OneTimeCreditOfOneWorker` | the same invariant, for one worker and no retried failure: the credit *is* one-time when runs never overlap and Axomo answers. It bounds finding 1 |
| `CreditOnRecordUnlessCutHolds` | `RecordOf`, per worker: a credit without a row is the one being asked for. `RecordOfNext` uses `StepLocal`, that credits of others do not move, and that rows stay |
| `EveryCreditOnRecordUncut` | its consequence for idle workers: finding 2 needs a timeout, a crash or a database error |
| `RunAdvancesHolds` | `Advances`: step by step along the program, `WorkerInv` giving `emp` in the list and the range of `tries`. With `NextEmployeeExists` (`EarliestExists`: dates are well-founded) this is the part of `NoStarvation` that is not temporal |
| `CreditsAuthorisedHolds` | `AuthInv`: whoever is in the loop is in scope, and past the validation is valid, under the run's own `cfg`; rows never lose validity |
| `MailboxCreditedOnceHolds` | for a single worker only, as the formula says (`Workers = {w}`). `AloneInv`: a single worker that is about to post has seen no attempt for the mailbox, and nobody else writes one. It bounds finding 1 from the other side |
| `AuditTruthfulHolds` | `AuditInv`: a pending audit entry is true already; truth is kept because rows and flags only grow (`Monotone`) |

`AccountsProofs`, for any number of browsers and addresses:

| Theorem | Strengthening and why it is needed |
|---|---|
| `TypeCorrect` | `TypeInv` = `TypeOK` + `RequestInv`: a request past its start has an address, and one past `CreateAccount` has an account |
| `OneRolePerAccountHolds` | `RoleInv`: an account has a role, or one request that is about to add it, never both and never two requests |
| `AdminNotLostHolds` | `AdminInv`: if there are accounts, somebody is, will be made, or can no longer be made administrator |
| `OnlyFoundersAreAdminsHolds` | `FoundersInv`: a request that remembers an empty table was on its way when the first account was stored |

Two theorems bound finding 3: `AdminsBounded` (never more administrators than
browsers) and `SingleAdminOfOneBrowser`. Their invariant `FewFounders` counts: the
founders are the addresses of the requests on their way when the first account was
stored (`FoundersStep`), and a browser has one request.

`RoleSteps` reduces a step to one that leaves the roles and requests alone, one
that creates an account and one that promotes it; the three invariants about roles
use it instead of the actions.

`EmployeeImportProofs`, for any number of importers, any directories, any
configurations and faults. `ImportInv` = `TypeOK`, a finite table (its size is the
clock of `created`) and `RunInv`: each position a run has passed is blank, in the
table or in its batch, and the batch was built under the run's own flags. `RunKept`
says that others' steps cannot disturb this, because rows only appear.

| Theorem | Argument |
|---|---|
| `ReportedImportIsCompleteHolds` | at `SaveBatch` nothing is unseen, and the whole batch enters the table |
| `ImportedUnderFlagsHolds` | `StagingSteps`: only a batch that is stored touches the table; `InsertEffect`: what it does |
| `MisfitBlocksAllHolds` | `BlockedInv`: while the table is empty a run skips nothing but blanks, so its batch holds whatever it has passed in its directory, as often as it is there (`CollectedScan`); a directory with a misfit gives a batch that fails (`MisfitFails`) |

`CreditLedgerProofs`, about the abstract ledger: `BooksInOrder` (every attempt is of an
enrolled new hire, at the mailbox enrolled, and settles the person; a settled hire has
an attempt to show; one success per person and purpose) and `BooksOnlyGrow`. Both
follow from one lemma, `LedgerStep`.

`StoreCreditorProofs`, for both jobs together, uses each job's own proofs as they are.
`CreditIssuingProofs` is extended; `EmployeeImportProofs` is instantiated, as
`ByItself`, with the faults the import has in the system. `ImportAssumptionsHold`
discharges what that module assumes of its constants, and `SameStart`, `SameSteps` and
`SameCrash` say that the import inside the system is the one it is about.
`SystemInv` is the credit job's invariants, `ActiveInv` (whoever a run is past the
validation with is active) and `ByItself!ImportInv`. `ImportKeepsCredit` and
`CreditKeepsImport` show that neither job disturbs what the other relies on: an import
only adds rows, and the credit job changes nothing of a row but its flag.

| Theorem | Argument |
|---|---|
| `KeepsLedgerHolds` | refinement: a stored batch is `Enrol` (`GrowthEnrols`), `Record` is `Attempt` (`RecordBooks`), `SettleDuplicate` is `SettleWithout`, for which `SettleInv` gives the evidence, or a stutter (`SettleBooks`); everything else is a stutter |
| `TablesInOrderHolds`, `NothingTakenBackHolds` | the ledger's two theorems, read back through the refinement mapping (`SameBooks`, `BooksAreTables`, `GrowthOfTables`) as statements about `EmployeeStaging` and `EmployeeCreditHistory` |
| `CreditPromisesKept` | `PromiseInv`: the invariants behind `UniqueSuccess`, `SuccessRowBacked`, `ProcessedHasEvidence` and `AuditTruthful`, kept by the credit job by its own lemmas (`CreditKeepsPromises`) and by imports because rows only appear and those born processed are inactive (`ImportKeepsPromises`) |
| `CreditBoundsKept`, `OneTimeCreditInSystem` | `PromiseInv` also holds the bounds of each worker (`BoundOf`, `RecordOf`): whoever was credited has a row already, so an import stages nobody it could concern |
| `CreditsAuthorisedInSystem`, `RehireNotCreditedHolds` | `CreditsMove` and `AloneCredits` for the credit job's steps; imports move no money. The second is, like `MailboxCreditedOnce`, about a system with one credit worker |
| `ReportedImportIsCompleteInSystem`, `ImportedUnderFlagsInSystem` | the import's invariant and `NewcomersStep`; the credit job neither adds nor removes rows |

`JobSchedulingProofs`: `ScheduleInv` = `TypeOK`, `ProgressInv` (the jobs registered so
far are on the options being registered) and `NothingUnscheduled`; `ScheduleAccepted`
says that what is left in the table is accepted by Hangfire, whatever was written.
Theorems `TypeCorrect`, `OneConfigurationHolds`, `NothingUnscheduledHolds`, and
`EditsNotLostHolds`, an action property that needs `ProgressInv` at one place only: when
the credit job has been registered, the import job is on the same options.
`EditsNotLost` is the part of `EditTakesEffect` that is not temporal.

`HttpRetryProofs`, for any number of retries, any growing pauses and any timeout:
`TimeInv` (the clock is what the service held plus the pauses so far) and `CopyInv`
(no more copies are executed or on their way than were sent). Theorems `TypeCorrect`,
`BackoffKeptHolds`, `TimedOutWasHeldHolds`, and `KeepsHttpCallHolds`: the call on the
time line refines `HttpCall`, whose endings are those `CreditIssuing` gives a call.

`AccountRecoveryProofs`, for any number of browsers and passwords and any bounds.
`RecoveryInv` = `TypeOK` and four parts, one for each place where a password or a stamp
is kept:

| Part | Says |
|---|---|
| `RequestInv` | a copy that is current equals the row; a copy under the row's stamp has the row's password; what was typed is the password of the copy, and a request that signs in under the row's stamp has a credential of the row |
| `SessionInv` | a session under the row's stamp rests on a credential of the row |
| `CodeInv` | a code under the row's stamp was mailed to somebody who typed the row's password |
| `LinkInv` | a stamp that is current or yet to come has served no reset |

`CodeInv` is what a sign-in in two requests needs: the second request knows nothing of
the first, so it is the code that must vouch for the password. Theorems `TypeCorrect`,
`LinkWorksOnceHolds`, `SessionRestsOnPasswordHolds`, `PasswordChangeProvenHolds` and
`LockoutKeptHolds` (by `StoreOrNot`: a step stores the row, or ends the lockout, or
leaves the row alone; a store is of a copy that is current, and so as locked as the row).

**Only model-checked.** Liveness, which the prover does not do: `EveryHireAttempted`,
`NoStarvation`, `EditTakesEffect`, `RunsKeepComing`, `CallEnds`. That `HttpCall`'s
endings are `CreditIssuing`'s is read off the two modules, not proved: they share no
variable.

## 5. What is not modelled

* Pages and dashboard (`HomeController`, `EmployeeQueueController`, ...): they read.
  The dashboard's three counts are separate queries and need not add up; nothing
  depends on them.
* In Hangfire's own dashboard an administrator can remove a recurring job by hand;
  `NothingUnscheduled` speaks of a table only the application writes.
* Mail: one message sent or an exception its callers handle. Error middleware and
  the dashboard's role filter: no state.
* `GetUser`, `GetStoreCreditBalance`, `GetCreditLogs`, `GetCompanyInformation`,
  `GetEmployee`, `GetDependents`: nothing calls them.
* Migrations and SQL scripts (generated from the configurations that
  `StoreCreditorDb` models), views, vendored scripts and styles; `wwwroot/js/site.js`
  holds comments only.

## 6. How the project grew, and what could follow

Written in this order: `FeatureFlags`, `StoreCreditorDb`, `CreditIssuing` (the
behaviour that moves money) with its proofs, `EmployeeImport`, `CreditLedger` and
`StoreCreditor`, `Accounts` with its proofs; then `JobScheduling`, `HttpCall` and
`HttpRetry`, `AccountRecovery`, and the proofs of all of these, of the import and of
the composition.

Then, of both jobs together, what each promises by itself; the ledger's own theorems,
carried over by the refinement; and the theorems that bound the findings.

What could follow: `HttpCall` composed with `CreditIssuing` by giving each `Post...`
step the call's variables; provisioning (`Accounts`) composed with sign-in to the same
accounts (`AccountRecovery`).
