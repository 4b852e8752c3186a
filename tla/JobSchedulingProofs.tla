------------------------- MODULE JobSchedulingProofs -------------------------
(***************************************************************************)
(* Theorems about JobScheduling, for whatever texts the operator may write *)
(* and whatever Hangfire accepts of them, with or without faults.          *)
(***************************************************************************)
EXTENDS JobScheduling, TLAPS

(* What ends up in the table is accepted by Hangfire, whatever was written. *)
LEMMA ScheduleAccepted ==
    ASSUME NEW j \in Jobs, NEW text \in Texts
    PROVE  Schedule(j, text) \in Accepted
BY ScheduleAssumption DEF Schedule

-----------------------------------------------------------------------------
(* How far a registration has come: the import job is registered before the *)
(* credit job.                                                              *)
Registered ==
    IF at = "done" THEN Jobs
    ELSE IF at = "store-credit" THEN {"employee-import"} ELSE {}

ProgressInv == \A j \in Registered : recurring[j] = Schedule(j, options[j])

ScheduleInv == TypeOK /\ ProgressInv /\ NothingUnscheduled

LEMMA ScheduleInit == Init => ScheduleInv
BY ScheduleAssumption
   DEF Init, ScheduleInv, TypeOK, ProgressInv, Registered, NothingUnscheduled, Jobs

(* Writing one job's schedule leaves the table of its type, the other job's *)
(* entry alone, and none without a schedule that had one.                   *)
LEMMA WriteEffect ==
    ASSUME TypeOK, NEW j \in Jobs,
           recurring' = [recurring EXCEPT ![j] = Schedule(j, options[j])]
    PROVE  /\ recurring' \in [Jobs -> Accepted \cup {NoCron}]
           /\ recurring'[j] = Schedule(j, options[j])
           /\ \A k \in Jobs : k # j => recurring'[k] = recurring[k]
           /\ \A k \in Jobs : recurring[k] # NoCron => recurring'[k] # NoCron
<1>1. options[j] \in Texts
  BY ScheduleAssumption DEF TypeOK
<1>2. Schedule(j, options[j]) \in Accepted
  BY <1>1, ScheduleAccepted
<1> HIDE DEF Schedule
<1> QED  BY <1>2, ScheduleAssumption DEF TypeOK

LEMMA ScheduleNext == ScheduleInv /\ [Next]_vars => ScheduleInv'
<1> SUFFICES ASSUME ScheduleInv, [Next]_vars PROVE ScheduleInv'
  OBVIOUS
<1> USE DEF ScheduleInv, TypeOK, ProgressInv, Registered, NothingUnscheduled
<1>1. CASE Start
  BY <1>1 DEF Start, Jobs, Schedule, NormalizeCron
<1>2. CASE Subscribe
  <2>1. \A j \in Jobs : Schedule(j, options[j]) # NoCron
    BY ScheduleAccepted, ScheduleAssumption
  <2> QED  BY <1>2, <2>1 DEF Subscribe
<1>3. CASE Announce
  BY <1>3 DEF Announce, Jobs
<1>4. CASE Crash
  BY <1>4 DEF Crash, Jobs
<1>5. ASSUME NEW c \in Configs, Edit(c) PROVE ScheduleInv'
  BY <1>5 DEF Edit
<1>6. ASSUME NEW j \in Jobs, Register(j) PROVE ScheduleInv'
  <2>1. Registered' = Registered \cup {j} /\ at' \in Jobs \cup {"done", "failed"}
    BY <1>6 DEF Register, After, Jobs
  <2>2. UNCHANGED <<config, process, options, announce, queue>>
    BY <1>6 DEF Register
  <2>3. /\ recurring' \in [Jobs -> Accepted \cup {NoCron}]
        /\ recurring'[j] = Schedule(j, options[j])
        /\ \A k \in Jobs : k # j => recurring'[k] = recurring[k]
        /\ \A k \in Jobs : recurring[k] # NoCron => recurring'[k] # NoCron
    BY <1>6, WriteEffect DEF Register
  <2>4. ProgressInv'
    BY <2>1, <2>2, <2>3 DEF Jobs
  <2> QED  BY <2>1, <2>2, <2>3, <2>4
<1>7. ASSUME NEW j \in Jobs, RegisterFails(j) PROVE ScheduleInv'
  <2>1. /\ at' = "failed" /\ Registered' = {}
        /\ process' \in {process, "down"}
        /\ UNCHANGED <<config, options, announce, queue>>
    BY <1>7 DEF RegisterFails, Jobs
  <2>2. /\ recurring' \in [Jobs -> Accepted \cup {NoCron}]
        /\ \A k \in Jobs : recurring[k] # NoCron => recurring'[k] # NoCron
    BY <1>7, WriteEffect DEF RegisterFails
  <2> QED  BY <2>1, <2>2
<1>8. ASSUME NEW j \in Jobs, Trigger(j) \/ RunByHand(j) \/ StartRun(j) PROVE ScheduleInv'
  BY <1>8 DEF Trigger, RunByHand, StartRun
<1>9. CASE UNCHANGED vars
  BY <1>9 DEF vars
<1> QED
  BY <1>1, <1>2, <1>3, <1>4, <1>5, <1>6, <1>7, <1>8, <1>9 DEF Next

LEMMA ScheduleInvariant == Spec => []ScheduleInv
BY ScheduleInit, ScheduleNext, PTL DEF Spec

-----------------------------------------------------------------------------
(* The table, the queue and the registration are of their types; above all, *)
(* nothing that Hangfire would not accept is ever in the table.             *)
THEOREM TypeCorrect == Spec => []TypeOK
<1>1. ScheduleInv => TypeOK
  BY DEF ScheduleInv
<1> QED  BY <1>1, ScheduleInvariant, PTL

(* A finished registration leaves both jobs on one configuration.           *)
THEOREM OneConfigurationHolds == Spec => []OneConfiguration
<1>1. ScheduleInv => OneConfiguration
  BY DEF ScheduleInv, ProgressInv, Registered, OneConfiguration
<1> QED  BY <1>1, ScheduleInvariant, PTL

(* A serving application has a schedule for each job.                       *)
THEOREM NothingUnscheduledHolds == Spec => []NothingUnscheduled
<1>1. ScheduleInv => NothingUnscheduled
  BY DEF ScheduleInv
<1> QED  BY <1>1, ScheduleInvariant, PTL

(* No edit is lost on an application that serves: only the end of the       *)
(* credit job's registration puts schedules in force, and it finds both     *)
(* jobs registered from the options the callback began with.                *)
THEOREM EditsNotLostHolds == Spec => EditsNotLost
<1> DEFINE Kept == process = "running" /\ process' = "running" /\ UpToDate => UpToDate'
<1>1. ScheduleInv /\ ScheduleInv' /\ [Next]_vars => [Kept]_vars
  <2> SUFFICES ASSUME ScheduleInv, ScheduleInv', [Next]_vars, process = "running",
                      process' = "running", UpToDate
               PROVE  UpToDate'
    OBVIOUS
  <2>1. ASSUME NEW j \in Jobs, Register(j), options = config PROVE UpToDate'
    <3>1. at' \in Jobs \/ at' = "done"
      BY <2>1 DEF Register, After, Jobs
    <3>2. at' = "done" => InForce(config)'
      BY <2>1 DEF Register, ScheduleInv, ProgressInv, Registered, InForce
    <3>3. options' = config'
      BY <2>1 DEF Register
    <3> QED  BY <3>1, <3>2, <3>3 DEF UpToDate, InForce
  <2>2. ASSUME NEW j \in Jobs, Register(j), announce PROVE UpToDate'
    BY <2>2 DEF Register, UpToDate
  <2>3. ASSUME NEW j \in Jobs, Register(j) PROVE announce \/ options = config
    BY <2>3 DEF Register, UpToDate, Jobs
  <2>4. CASE UNCHANGED <<config, options, at, announce, recurring>>
    BY <2>4 DEF UpToDate, InForce, Schedule, NormalizeCron
  <2>5. ASSUME NEW c \in Configs, Edit(c) PROVE UpToDate'
    BY <2>5 DEF Edit, UpToDate
  <2>6. CASE Announce
    BY <2>6 DEF Announce, UpToDate, Jobs
  <2>7. ASSUME NEW j \in Jobs, RegisterFails(j) PROVE UpToDate'
    BY <2>7 DEF RegisterFails, UpToDate
  <2>8. \/ UNCHANGED <<config, options, at, announce, recurring>>
        \/ Announce \/ (\E c \in Configs : Edit(c))
        \/ \E j \in Jobs : Register(j) \/ RegisterFails(j)
    BY DEF Next, vars, Start, Subscribe, Crash, Trigger, RunByHand, StartRun
  <2> QED  BY <2>1, <2>2, <2>3, <2>4, <2>5, <2>6, <2>7, <2>8
<1> QED  BY <1>1, ScheduleInvariant, PTL DEF Spec, EditsNotLost

=============================================================================
