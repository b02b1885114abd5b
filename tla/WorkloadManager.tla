--------------------------- MODULE WorkloadManager ---------------------------
(***************************************************************************)
(* The workload manager                                                    *)
(* (nxs_libs/interface/workload_manager/__init__.py and simple_policy.py): *)
(* it collects the workload reports of the frontends, forgets the ones     *)
(* that are too old, and tells the scheduler which workloads to serve.     *)
(*                                                                         *)
(* A workload is a key, a pipeline with a session.  What is abstracted is  *)
(* how much of it was requested: reports hold positive counts only, and a  *)
(* workload is demanded while one is remembered, so that of the reports of *)
(* a key the youngest is kept.  Timestamps are kept as ages, up to the     *)
(* greatest one a test can tell apart.                                     *)
(***************************************************************************)
EXTENDS Naturals, Sequences, FiniteSets, SequencesExt

CONSTANTS Keys,
          Timeout,     \* model_timeout_secs
          Interval,    \* report_workloads_interval
          Instant      \* enable_instant_scheduling

ASSUME WorkloadManagerAssumption ==
    /\ {Timeout, Interval} \subseteq Nat \ {0}
    /\ Instant \in BOOLEAN

VARIABLES
  uuid2timestamps,   \* of a key: the age of its youngest report, if any
  pinned_workloads,
  since,             \* the age of self.t0
  manager            \* the topic of the workload manager

wlm == <<uuid2timestamps, pinned_workloads, since, manager>>

Report(keys) == [type |-> "report", keys |-> keys]
Pinning(type, key) == [type |-> type, keys |-> {key}]

ManagerStarts ==
    /\ uuid2timestamps = [k \in Keys |-> {}]
    /\ pinned_workloads = {}
    /\ since = 0

ManagerInit ==
    /\ ManagerStarts
    /\ manager = <<>>

-----------------------------------------------------------------------------
(* process_msgs, for the messages of one pull.                             *)

Reported(msgs) ==
    UNION {msgs[i].keys : i \in {j \in DOMAIN msgs : msgs[j].type = "report"}}

(* Mutant: a workload that is known keeps its first report only.           *)
AddFirst(k, msgs) ==
    IF uuid2timestamps[k] = {} /\ k \in Reported(msgs) THEN {0} ELSE uuid2timestamps[k]

add_workload(k, msgs) ==
    IF k \in Reported(msgs) THEN {0} ELSE uuid2timestamps[k]

NewWorkload(msgs) == \E k \in Reported(msgs) : uuid2timestamps[k] = {}

(* The last message about a key decides whether it is pinned.              *)
PinnedAfter(msgs) ==
    {k \in Keys :
        LET about == SelectSeq(msgs, LAMBDA m : m.type # "report" /\ k \in m.keys)
        IN  IF about = <<>> THEN k \in pinned_workloads ELSE Last(about).type = "pin"}

ToSchedule(msgs) ==
    \/ Instant /\ NewWorkload(msgs)
    \/ \E i \in DOMAIN msgs : msgs[i].type = "pin"
    \/ since > Interval

(* Mutant: a report goes only when it is older than the timeout.           *)
RemoveLater(ages) == {a \in ages : a <= Timeout}
remove_expired(ages) == {a \in ages : a < Timeout}

generate_scheduling_msgs(workloads, pinned) ==
    {k \in Keys : workloads[k] # {}} \cup pinned

Workloads(msgs) == [k \in Keys |-> add_workload(k, msgs)]
Remembered(msgs) == [k \in Keys |-> remove_expired(Workloads(msgs)[k])]

(* What send_workloads_to_scheduler pushes.                                *)
Message(msgs) == generate_scheduling_msgs(Remembered(msgs), PinnedAfter(msgs))

(* One round of run: messages are pulled, processed, and the scheduler is  *)
(* told when there is something to schedule or it is time to.              *)
ManagerStep ==
    /\ manager # <<>> \/ since > Interval
    /\ pinned_workloads' = PinnedAfter(manager)
    /\ IF ToSchedule(manager)
       THEN uuid2timestamps' = Remembered(manager) /\ since' = 0
       ELSE uuid2timestamps' = Workloads(manager) /\ UNCHANGED since
    /\ manager' = <<>>

ManagerIdle == manager = <<>> /\ since <= Interval

(* pin_workload and unpin_workload of the pipelines router.                *)
PinOrUnpin(type, k) ==
    /\ manager' = Append(manager, Pinning(type, k))
    /\ UNCHANGED <<uuid2timestamps, pinned_workloads, since>>

(* The process ends and is started again: its memory is gone.              *)
ManagerRestart ==
    /\ uuid2timestamps' = [k \in Keys |-> {}]
    /\ pinned_workloads' = {}
    /\ since' = 0
    /\ UNCHANGED manager

Older(age, bound) == IF age < bound THEN age + 1 ELSE age

ManagerAges ==
    /\ uuid2timestamps' = [k \in Keys |-> {Older(a, Timeout) : a \in uuid2timestamps[k]}]
    /\ since' = Older(since, Interval + 1)
    /\ UNCHANGED <<pinned_workloads, manager>>
=============================================================================
