--------------------------- MODULE JobScheduling ---------------------------
(***************************************************************************)
(* How the two recurring jobs get their schedules (Program.cs), and what   *)
(* becomes of a schedule: Hangfire's table of recurring jobs outlives the  *)
(* process, appsettings.json can be edited at any moment, and the process  *)
(* registers the jobs at start-up and again whenever the options monitor   *)
(* announces a change.                                                     *)
(*                                                                         *)
(* Hangfire is external.  AddOrUpdate parses the expression before it      *)
(* writes, so a malformed one is an ArgumentException with nothing stored; *)
(* a storage failure is another exception, thrown before or after the      *)
(* write.  The monitor announces one change at a time: what is edited      *)
(* during a callback is announced, once, after it.                         *)
(***************************************************************************)
CONSTANTS Texts,       \* values the two settings can be given
          BlankTexts,  \* the null and blank ones
          FourFields,  \* those of four fields, a field short
          Crons,       \* texts handed to Hangfire
          Trimmed,     \* the text without blanks around it
          WithFifth,   \* the same followed by " *"
          Accepted,    \* what Hangfire's parser accepts
          NeverDue,    \* accepted, but never due, like February 30
          Configs,     \* what the operator writes, job by job
          Fallback,    \* the default schedule of each job
          Faults       \* which of AllFaults may happen

Jobs == {"employee-import", "store-credit"}

AllFaults == {"storage", "crash"}

NoCron == "no cron"

ASSUME ScheduleAssumption ==
    /\ BlankTexts \subseteq Texts /\ FourFields \subseteq Texts
    /\ Trimmed \in [Texts -> Crons] /\ WithFifth \in [Texts -> Crons]
    /\ Accepted \subseteq Crons /\ NoCron \notin Crons
    /\ NeverDue \subseteq Accepted
    /\ Configs \subseteq [Jobs -> Texts]
    /\ Fallback \in [Jobs -> Accepted]
    /\ Faults \subseteq AllFaults

VARIABLES config,     \* the Hangfire section of appsettings.json
          process,    \* "down", "starting" or "running"
          options,    \* what RegisterRecurringJobs was last called with
          at,         \* the job it is about to register, or how it ended
          announce,   \* an edit the subscriber has not been told of
          recurring,  \* Hangfire's table: the expression of each job
          queue       \* jobs that have a run waiting for a worker

vars == <<config, process, options, at, announce, recurring, queue>>

-----------------------------------------------------------------------------
NormalizeCron(j, text) ==
    IF text \in BlankTexts THEN Fallback[j]
    ELSE IF text \in FourFields THEN WithFifth[text] ELSE Trimmed[text]

(* Mutant of Schedule: nothing is rejected. *)
ScheduleUnchecked(j, text) == NormalizeCron(j, text)

(* What RegisterRecurringJob leaves in the table. *)
Schedule(j, text) ==
    LET cron == NormalizeCron(j, text)
    IN  IF cron \in Accepted THEN cron ELSE Fallback[j]

After(j) == IF j = "employee-import" THEN "store-credit" ELSE "done"

Init ==
    /\ config \in Configs
    /\ process = "down"
    /\ options = config
    /\ at = "failed"
    /\ announce = FALSE
    /\ recurring = [j \in Jobs |-> NoCron]
    /\ queue = {}

(* Start-up reads the monitor's current value ... *)
Start ==
    /\ process = "down"
    /\ process' = "starting"
    /\ options' = config
    /\ at' = "employee-import"
    /\ UNCHANGED <<config, announce, recurring, queue>>

(* ... and subscribes to changes after it has registered both jobs; only    *)
(* then do the web server and Hangfire's server start.                      *)
Subscribe ==
    /\ process = "starting"
    /\ at = "done"
    /\ process' = "running"
    /\ UNCHANGED <<config, options, at, announce, recurring, queue>>

(* Mutant of Edit: a change during a callback is not announced. *)
EditForgotten(c) ==
    /\ config' = c
    /\ announce' = (process = "running" /\ at \notin Jobs)
    /\ UNCHANGED <<process, options, at, recurring, queue>>

(* Without a subscriber there is nobody to tell. *)
Edit(c) ==
    /\ config' = c
    /\ announce' = (process = "running")
    /\ UNCHANGED <<process, options, at, recurring, queue>>

(* The change callback begins, with the options as they are by then. *)
Announce ==
    /\ announce
    /\ at \notin Jobs
    /\ announce' = FALSE
    /\ options' = config
    /\ at' = "employee-import"
    /\ UNCHANGED <<config, process, recurring, queue>>

(* Mutant of Register: the monitor is asked again for each job. *)
RegisterCurrent(j) ==
    /\ at = j
    /\ recurring' = [recurring EXCEPT ![j] = Schedule(j, config[j])]
    /\ at' = After(j)
    /\ UNCHANGED <<config, process, options, announce, queue>>

(* Mutant of Register: the ArgumentException is not caught. *)
RegisterUncaught(j) ==
    /\ at = j
    /\ IF NormalizeCron(j, options[j]) \in Accepted
       THEN /\ recurring' = [recurring EXCEPT ![j] = Schedule(j, options[j])]
            /\ at' = After(j)
            /\ UNCHANGED <<process, announce>>
       ELSE /\ at' = "failed"
            /\ process' = IF process = "starting" THEN "down" ELSE process
            /\ UNCHANGED <<announce, recurring>>
    /\ UNCHANGED <<config, options, queue>>

(* One job after the other, from the same options. *)
Register(j) ==
    /\ at = j
    /\ recurring' = [recurring EXCEPT ![j] = Schedule(j, options[j])]
    /\ at' = After(j)
    /\ UNCHANGED <<config, process, options, announce, queue>>

(* Mutant of RegisterFails: the application starts although it failed. *)
RegisterFailsServing(j) ==
    /\ "storage" \in Faults
    /\ at = j
    /\ at' = "failed"
    /\ process' = "running"
    /\ UNCHANGED <<config, options, announce, recurring, queue>>

(* The storage throws.  At start-up that is the end of the process; in the  *)
(* callback the rest of it is skipped, and nobody tries again.              *)
RegisterFails(j) ==
    /\ "storage" \in Faults
    /\ at = j
    /\ at' = "failed"
    /\ \/ UNCHANGED recurring
       \/ recurring' = [recurring EXCEPT ![j] = Schedule(j, options[j])]
    /\ process' = IF process = "starting" THEN "down" ELSE process
    /\ UNCHANGED <<config, options, announce, queue>>

(* The process is stopped or dies; the service manager starts it again. *)
Crash ==
    /\ "crash" \in Faults
    /\ process # "down"
    /\ process' = "down"
    /\ at' = "failed"
    /\ announce' = FALSE
    /\ UNCHANGED <<config, options, recurring, queue>>

-----------------------------------------------------------------------------
(* Hangfire's scheduler finds a job due, or an administrator enqueues one;  *)
(* several waiting runs of a job count as one.                              *)
Trigger(j) ==
    /\ process = "running"
    /\ recurring[j] \notin NeverDue \cup {NoCron}
    /\ queue' = queue \cup {j}
    /\ UNCHANGED <<config, process, options, at, announce, recurring>>

RunByHand(j) ==
    /\ process = "running"
    /\ queue' = queue \cup {j}
    /\ UNCHANGED <<config, process, options, at, announce, recurring>>

(* A worker takes the run: BeginImport or BeginRun of the job's module. *)
StartRun(j) ==
    /\ process = "running"
    /\ j \in queue
    /\ queue' = queue \ {j}
    /\ UNCHANGED <<config, process, options, at, announce, recurring>>

Next ==
    \/ Start \/ Subscribe \/ Announce \/ Crash
    \/ \E c \in Configs : Edit(c)
    \/ \E j \in Jobs :
          Register(j) \/ RegisterFails(j) \/ Trigger(j) \/ RunByHand(j) \/ StartRun(j)

Spec == Init /\ [][Next]_vars

(* The service manager restarts the process and callbacks are made; the     *)
(* storage is not unreachable for good; and the process now and then lives  *)
(* long enough to finish its start-up, and under one schedule long enough   *)
(* for a run to fall due and start.                                         *)
Fairness ==
    /\ WF_vars(Start) /\ SF_vars(Subscribe) /\ WF_vars(Announce)
    /\ \A j \in Jobs : SF_vars(Register(j)) /\ SF_vars(Trigger(j)) /\ SF_vars(StartRun(j))

FairSpec == Spec /\ Fairness

-----------------------------------------------------------------------------
TypeOK ==
    /\ config \in Configs
    /\ process \in {"down", "starting", "running"}
    /\ options \in Configs
    /\ at \in Jobs \cup {"done", "failed"}
    /\ announce \in BOOLEAN
    /\ recurring \in [Jobs -> Accepted \cup {NoCron}]
    /\ queue \subseteq Jobs

(* A registration that ran to its end leaves both jobs on the schedules of  *)
(* one configuration, whatever was edited, failed or cut short before and   *)
(* whatever is being edited meanwhile.                                      *)
OneConfiguration ==
    at = "done" => \A j \in Jobs : recurring[j] = Schedule(j, options[j])

(* While the application serves, each job has a schedule: a wrong text, a   *)
(* storage failure in the middle and a crash all leave the default, the     *)
(* former or the new one, never none.                                       *)
NothingUnscheduled ==
    process = "running" => \A j \in Jobs : recurring[j] # NoCron

InForce(c) == \A j \in Jobs : recurring[j] = Schedule(j, c[j])

(* The schedules are those of the current file, or are on their way there,  *)
(* or the storage failed under the last attempt.                            *)
UpToDate ==
    \/ announce
    \/ options = config /\ (at \in Jobs \/ InForce(config))
    \/ at = "failed"

(* No edit is lost on an application that serves: once the schedules are up *)
(* to date, or a callback that will make them so is due or under way, that  *)
(* stays so until the process goes down, however edits, callbacks, runs and *)
(* failures of the storage fall together.                                   *)
EditsNotLost ==
    [][process = "running" /\ process' = "running" /\ UpToDate => UpToDate']_vars

(* An edit made while the process is down, or of which the subscriber is to *)
(* be told, or which falls into a callback, is in force at some time, unless*)
(* it is edited again or the storage fails under the callback.  (One made   *)
(* between start-up's read and the subscription has no such promise.)       *)
EditTakesEffect ==
    \A c \in Configs :
        /\ config = c
        /\ process = "down" \/ announce \/ (process = "running" /\ at \in Jobs)
        ~> config # c \/ InForce(c) \/ (process = "running" /\ at = "failed")

(* Whatever is written into the two settings, the application serves again  *)
(* and again, and runs of both jobs keep being started, unless the schedule *)
(* it serves with is from some time on a well-formed one that is never due: *)
(* this is what the fairness of CreditIssuing and EmployeeImport rests on.  *)
RunsKeepComing ==
    /\ []<>(process = "running")
    /\ \A j \in Jobs :
        \/ []<><<StartRun(j)>>_vars
        \/ <>[](process = "running" => recurring[j] \in NeverDue)

=============================================================================
