--------------------------- MODULE DemandReporting ---------------------------
(***************************************************************************)
(* How demand travels: task_monitor_thread of the frontend                 *)
(* (main_processes/frontend/routers/api/v2/tasks/root.py) counts the tasks *)
(* of each workload and reports the counts, WorkloadManager collects them. *)
(*                                                                         *)
(* The thread and the manager run many times a second: a clock tick only   *)
(* passes when both have done what is due.  In one tick a workload is      *)
(* requested or not.                                                       *)
(***************************************************************************)
EXTENDS WorkloadManager

CONSTANTS Period,        \* workload_report_period_secs
          Caching,       \* model_caching_timeout_secs
          MaxRestarts    \* bound on restarts of the workload manager

ASSUME ReportingAssumption ==
    /\ {Period, Caching} \subseteq Nat \ {0}
    /\ MaxRestarts \in Nat

VARIABLES
  tasks_data,      \* the keys with tasks that are not yet counted
  task_dict,       \* the keys the monitor thread knows
  task_ts0,        \* the age of a key it knows
  task_fps,        \* the keys with tasks counted since the last report
  t0,              \* the age of the last report
  restarts,
  steady, idle     \* for how many ticks a key was requested, or not

monitor == <<task_dict, task_ts0, task_fps, t0>>
past == <<steady, idle>>
vars == <<wlm, tasks_data, monitor, restarts, past>>

(* When a workload that is requested all the time is served at the latest, *)
(* and for how long one that is not requested any more may be.             *)
Settle == Period + 4
Linger == Period + Timeout + 1

(* The manager must remember a report until the next one.  That is due     *)
(* when more than a period is over, but the period starts again when       *)
(* another workload is new, and a key that is dropped when the report is   *)
(* due is only reported with its next task.                                *)
ASSUME MemoryAssumption == Timeout > Period + 3

Init ==
    /\ ManagerInit
    /\ tasks_data = {}
    /\ task_dict = {}
    /\ task_ts0 = [k \in Keys |-> 0]
    /\ task_fps = {}
    /\ t0 = 0
    /\ restarts = 0
    /\ steady = [k \in Keys |-> 0]
    /\ idle = [k \in Keys |-> Linger]

(* A task arrives: _infer_single records its demand.                       *)
Request(k) ==
    /\ idle[k] > 0
    /\ tasks_data' = tasks_data \cup {k}
    /\ idle' = [idle EXCEPT ![k] = 0]
    /\ steady' = [steady EXCEPT ![k] = Older(@, Settle)]
    /\ UNCHANGED <<wlm, monitor, restarts>>

-----------------------------------------------------------------------------
(* task_monitor_thread.                                                    *)

(* reset all fps.  Mutant: what is not reported is still counted.          *)
CountsLeft(counted, reported) == counted \ reported
ResetCounts(counted, reported) == {}

(* A key goes a while after it was first seen, however much it is in use,  *)
(* and takes along what was counted since the last report.                 *)
Expired(k) == task_ts0[k] > Caching

NewKeys == tasks_data \ task_dict
Triggers == NewKeys # {}

MonitorDue == tasks_data # {} \/ t0 > Period

MonitorStep ==
    /\ MonitorDue
    /\ tasks_data' = {}
    /\ LET known == task_dict \cup tasks_data
           counted == task_fps \cup tasks_data
           ages == [k \in Keys |-> IF k \in NewKeys THEN 0 ELSE task_ts0[k]]
           kept == {k \in known : k \in NewKeys \/ ~Expired(k)}
           reported == kept \cap counted
       IN  IF Triggers \/ t0 > Period
           THEN /\ task_dict' = kept
                /\ task_ts0' = [k \in Keys |-> IF k \in kept THEN ages[k] ELSE 0]
                /\ task_fps' = ResetCounts(counted, reported)
                /\ t0' = 0
                /\ manager' = IF reported = {} THEN manager ELSE Append(manager, Report(reported))
           ELSE /\ task_dict' = known
                /\ task_ts0' = ages
                /\ task_fps' = counted
                /\ UNCHANGED <<t0, manager>>
    /\ UNCHANGED <<uuid2timestamps, pinned_workloads, since, restarts, past>>

-----------------------------------------------------------------------------
SendsToScheduler == ManagerStep /\ ToSchedule(manager)

Manage == ManagerStep /\ UNCHANGED <<tasks_data, monitor, restarts, past>>

(* An operator pins or unpins a workload.                                  *)
Pin(k) ==
    /\ k \notin pinned_workloads
    /\ manager = <<>>
    /\ PinOrUnpin("pin", k)
    /\ UNCHANGED <<tasks_data, monitor, restarts, past>>

Unpin(k) ==
    /\ k \in pinned_workloads
    /\ manager = <<>>
    /\ PinOrUnpin("unpin", k)
    /\ UNCHANGED <<tasks_data, monitor, restarts, past>>

(* What is steady is counted anew after a restart.                         *)
Restart ==
    /\ restarts < MaxRestarts
    /\ ManagerRestart
    /\ restarts' = restarts + 1
    /\ steady' = [k \in Keys |-> 0]
    /\ UNCHANGED <<tasks_data, monitor, idle>>

Tick ==
    /\ ~MonitorDue
    /\ ManagerIdle
    /\ ManagerAges
    /\ t0' = Older(t0, Period + 1)
    /\ task_ts0' = [k \in Keys |-> IF k \in task_dict THEN Older(task_ts0[k], Caching + 1) ELSE 0]
    /\ steady' = [k \in Keys |-> IF idle[k] > 0 THEN 0 ELSE steady[k]]
    /\ idle' = [k \in Keys |-> Older(idle[k], Linger)]
    /\ UNCHANGED <<tasks_data, task_dict, task_fps, restarts>>

Next ==
    \/ \E k \in Keys : Request(k) \/ Pin(k) \/ Unpin(k)
    \/ MonitorStep
    \/ Manage
    \/ Restart
    \/ Tick

Spec == Init /\ [][Next]_vars

-----------------------------------------------------------------------------
(* Properties.                                                             *)

(* Types.  Only known keys have a count or an age.                         *)
TypeOK ==
    /\ task_fps \subseteq task_dict
    /\ task_dict \subseteq Keys
    /\ task_ts0 \in [Keys -> 0 .. Caching + 1]
    /\ \A k \in Keys \ task_dict : task_ts0[k] = 0
    /\ t0 \in 0 .. Period + 1
    /\ tasks_data \subseteq Keys
    /\ uuid2timestamps \in [Keys -> {{}} \cup {{a} : a \in 0 .. Timeout}]
    /\ pinned_workloads \subseteq Keys
    /\ since \in 0 .. Interval + 1
    /\ steady \in [Keys -> 0 .. Settle]
    /\ idle \in [Keys -> 0 .. Linger]

(* A workload that is requested all the time is in every message to the    *)
(* scheduler, although the frontend drops its key, with what it counted,   *)
(* over and over (root.py:239-246), the manager forgets reports by their   *)
(* age (simple_policy.py:106-129) and either may be a period behind; after *)
(* a restart of the manager this takes until the next report.              *)
SteadyServed ==
    [][SendsToScheduler => \A k \in Keys : steady[k] >= Settle => k \in Message(manager)]_vars

(* A workload nobody requests any more, and nobody pinned, is in no        *)
(* message to the scheduler once its last report is forgotten, so that its *)
(* models are given up.                                                    *)
IdleReleased ==
    [][SendsToScheduler =>
          \A k \in Keys : idle[k] >= Linger /\ k \notin pinned_workloads' => k \notin Message(manager)]_vars
=============================================================================
