----------------------- MODULE DemandReporting_proofs -----------------------
(* Proofs about DemandReporting for any set of workloads and any periods   *)
(* that MemoryAssumption allows.                                           *)
EXTENDS DemandReporting, TLAPS

(* What the topic of the workload manager holds.                           *)
Messages == [type : {"report", "pin", "unpin"}, keys : SUBSET Keys]
ManagerOK == manager \in Seq(Messages)

(* A report of a key is remembered that is not older than "age", or will   *)
(* be once the manager has read its topic, or the key has not been         *)
(* requested for more than "requests" ticks.                               *)
Within(k, age, requests) ==
    \/ k \in Reported(manager)
    \/ steady[k] <= requests
    \/ \E a \in uuid2timestamps[k] : a <= age

(* How old the last report of a steadily requested key may be depends on   *)
(* where its requests are: a dropped key is reported with its next task, a *)
(* counted one when the period is over, which may have started again with  *)
(* the tick that followed its last report.                                 *)
Covered(k) ==
    /\ k \notin task_dict /\ k \in tasks_data => Within(k, Period + 3, Period + 3)
    /\ k \notin task_dict /\ k \notin tasks_data => Within(k, Period + 2 + idle[k], Period + 2)
    /\ k \in task_fps => Within(k, t0 + 1, t0 + 1 - idle[k])
    /\ k \in task_dict \ task_fps /\ k \in tasks_data => Within(k, 1, 1)
    /\ k \in task_dict \ task_fps /\ k \notin tasks_data => Within(k, idle[k], 0)
CoveredInv == \A k \in Keys : steady[k] > 0 => Covered(k)

(* A key that is requested all the time was requested in the last tick,    *)
(* and one with uncounted tasks in this tick.                              *)
PastInv ==
    /\ \A k \in Keys : steady[k] > 0 => idle[k] <= 1
    /\ \A k \in tasks_data : idle[k] = 0

(* A key is reported at most a period after its last task.                 *)
ForgottenInv ==
    /\ \A k \in task_fps : idle[k] <= t0
    /\ \A k \in Reported(manager) : idle[k] <= Period + 1
    /\ \A k \in Keys : \A a \in uuid2timestamps[k] : idle[k] <= a + Period + 1

DemandInv == TypeOK /\ ManagerOK /\ PastInv /\ CoveredInv /\ ForgottenInv

(* The constants are numbers.                                              *)
LEMMA Constants ==
    /\ Period \in Nat \ {0} /\ Caching \in Nat \ {0} /\ MaxRestarts \in Nat
    /\ Timeout \in Nat \ {0} /\ Interval \in Nat \ {0} /\ Timeout > Period + 3
    /\ Settle = Period + 4 /\ Linger = Period + Timeout + 1
  BY ReportingAssumption, WorkloadManagerAssumption, MemoryAssumption DEF Settle, Linger

(* What the topic reports after a message was added to it.                 *)
LEMMA ReportedAppend ==
    ASSUME NEW q \in Seq(Messages), NEW m \in Messages
    PROVE  /\ Append(q, m) \in Seq(Messages)
           /\ Reported(Append(q, m)) = Reported(q) \cup (IF m.type = "report" THEN m.keys ELSE {})
  <1>1. Append(q, m) \in Seq(Messages)
    OBVIOUS
  <1> DEFINE p == Append(q, m)
  <1>2. /\ DOMAIN p = 1 .. Len(q) + 1
        /\ DOMAIN q = 1 .. Len(q)
        /\ Len(q) \in Nat
        /\ p[Len(q) + 1] = m
        /\ \A i \in 1 .. Len(q) : p[i] = q[i]
    OBVIOUS
  <1> HIDE DEF p
  <1>3. \A i : i \in DOMAIN p <=> i \in DOMAIN q \/ i = Len(q) + 1
    BY <1>2
  <1>4. ASSUME NEW k
        PROVE  k \in Reported(p) <=> k \in Reported(q) \/ (m.type = "report" /\ k \in m.keys)
    <2>1. k \in Reported(p) <=> \E i \in DOMAIN p : p[i].type = "report" /\ k \in p[i].keys
      BY DEF Reported
    <2>2. k \in Reported(q) <=> \E i \in DOMAIN q : q[i].type = "report" /\ k \in q[i].keys
      BY DEF Reported
    <2> QED
      BY <2>1, <2>2, <1>2, <1>3
  <1> QED
    BY <1>1, <1>4 DEF p

LEMMA ReportedNone == Reported(<<>>) = {}
  BY DEF Reported

LEMMA ReportedKeys == ManagerOK => Reported(manager) \subseteq Keys
  <1> SUFFICES ASSUME ManagerOK, NEW k \in Reported(manager) PROVE k \in Keys
    OBVIOUS
  <1>1. PICK i \in DOMAIN manager : k \in manager[i].keys
    BY DEF Reported
  <1>2. manager[i] \in Messages
    BY <1>1 DEF ManagerOK
  <1> QED
    BY <1>1, <1>2 DEF Messages

(* Nothing is requested at first.                                          *)
LEMMA DemandInit == Init => DemandInv
  <1> SUFFICES ASSUME Init PROVE DemandInv
    OBVIOUS
  <1> USE Constants DEF Init, ManagerInit, ManagerStarts
  <1>1. TypeOK
    BY DEF TypeOK
  <1>2. ManagerOK /\ PastInv /\ CoveredInv
    BY DEF ManagerOK, PastInv, CoveredInv
  <1>3. ForgottenInv
    BY ReportedNone DEF ForgottenInv
  <1> QED
    BY <1>1, <1>2, <1>3 DEF DemandInv

(* A task arrives.                                                         *)
LEMMA RequestStep ==
    ASSUME DemandInv, NEW j \in Keys, Request(j)
    PROVE  DemandInv'
  <1> USE Constants
  <1>1. /\ tasks_data' = tasks_data \cup {j}
        /\ idle' = [idle EXCEPT ![j] = 0]
        /\ steady' = [steady EXCEPT ![j] = IF steady[j] < Settle THEN steady[j] + 1 ELSE steady[j]]
        /\ idle[j] > 0
        /\ UNCHANGED <<uuid2timestamps, pinned_workloads, since, manager>>
        /\ UNCHANGED <<task_dict, task_ts0, task_fps, t0>>
    BY DEF Request, wlm, monitor, Older
  <1>2. TypeOK'
    BY <1>1 DEF TypeOK, DemandInv
  <1>3. ManagerOK' /\ Reported(manager') = Reported(manager)
    BY <1>1 DEF ManagerOK, DemandInv
  <1>4. PastInv'
    BY <1>1 DEF PastInv, DemandInv, TypeOK
  <1>5. ForgottenInv'
    BY <1>1, <1>3, ReportedKeys DEF ForgottenInv, DemandInv, TypeOK
  <1>6. CoveredInv'
    <2> SUFFICES ASSUME NEW k \in Keys, steady'[k] > 0 PROVE Covered(k)'
      BY DEF CoveredInv
    <2>1. CASE k # j
      BY <2>1, <1>1, <1>3 DEF CoveredInv, Covered, Within, DemandInv, TypeOK
    <2>2. CASE k = j
      <3>1. /\ idle'[k] = 0 /\ k \in tasks_data' /\ k \notin tasks_data
            /\ steady'[k] <= steady[k] + 1
            /\ steady[k] > 0 => idle[k] = 1
        BY <2>2, <1>1 DEF PastInv, DemandInv, TypeOK
      <3> QED
        BY <3>1, <2>2, <1>1, <1>3 DEF CoveredInv, Covered, Within, DemandInv, TypeOK
    <2> QED
      BY <2>1, <2>2
  <1> QED
    BY <1>2, <1>3, <1>4, <1>5, <1>6 DEF DemandInv

(* The monitor thread counts tasks, and reports them when a period is over *)
(* or a key is new: every counted key is reported or dropped.              *)
LEMMA MonitorStepStep ==
    ASSUME DemandInv, MonitorStep
    PROVE  DemandInv'
  <1> USE Constants
  <1> DEFINE known == task_dict \cup tasks_data
             counted == task_fps \cup tasks_data
             ages == [k \in Keys |-> IF k \in NewKeys THEN 0 ELSE task_ts0[k]]
             kept == {k \in known : k \in NewKeys \/ ~Expired(k)}
             reported == kept \cap counted
  <1>1. /\ tasks_data' = {}
        /\ UNCHANGED <<uuid2timestamps, pinned_workloads, since, restarts, steady, idle>>
    BY DEF MonitorStep, past
  <1>2. CASE Triggers \/ t0 > Period
    <2>1. /\ task_dict' = kept
          /\ task_ts0' = [k \in Keys |-> IF k \in kept THEN ages[k] ELSE 0]
          /\ task_fps' = {}
          /\ t0' = 0
          /\ manager' = IF reported = {} THEN manager ELSE Append(manager, Report(reported))
      BY <1>2 DEF MonitorStep, ResetCounts
    <2>2. /\ kept \subseteq Keys
          /\ ages \in [Keys -> 0 .. Caching + 1]
          /\ tasks_data \ task_dict \subseteq kept
      BY DEF DemandInv, TypeOK, NewKeys
    <2> HIDE DEF known, kept, ages
    <2>3. TypeOK'
      <3>1. task_ts0' \in [Keys -> 0 .. Caching + 1] /\ \A k \in Keys \ kept : task_ts0'[k] = 0
        BY <2>1, <2>2
      <3>2. t0' \in 0 .. Period + 1
        BY <2>1
      <3> QED
        BY <1>1, <2>1, <2>2, <3>1, <3>2, Zenon DEF DemandInv, TypeOK
    <2>4. Report(reported) \in Messages
      BY <2>2 DEF Report, Messages
    <2>5. ManagerOK' /\ Reported(manager') = Reported(manager) \cup reported
      <3>1. CASE reported = {}
        BY <2>1, <3>1 DEF DemandInv, ManagerOK
      <3>2. CASE reported # {}
        <4>1. manager' = Append(manager, Report(reported)) /\ manager \in Seq(Messages)
          BY <2>1, <3>2 DEF DemandInv, ManagerOK
        <4>2. /\ manager' \in Seq(Messages)
              /\ Reported(manager') = Reported(manager) \cup
                     (IF Report(reported).type = "report" THEN Report(reported).keys ELSE {})
          BY <4>1, <2>4, ReportedAppend
        <4>3. Report(reported).type = "report" /\ Report(reported).keys = reported
          BY DEF Report
        <4> QED
          BY <4>2, <4>3 DEF ManagerOK
      <3> QED
        BY <3>1, <3>2
    <2>6. PastInv'
      BY <1>1 DEF DemandInv, PastInv
    <2>7. ForgottenInv'
      <3>1. \A k \in reported : idle[k] <= Period + 1
        BY DEF DemandInv, ForgottenInv, PastInv, TypeOK
      <3> QED
        BY <1>1, <2>1, <2>5, <3>1 DEF DemandInv, ForgottenInv
    <2>8. CoveredInv'
      <3> SUFFICES ASSUME NEW k \in Keys, steady'[k] > 0 PROVE Covered(k)'
        BY DEF CoveredInv
      <3>1. steady[k] > 0 /\ Covered(k) /\ idle[k] \in {0, 1}
        BY <1>1 DEF DemandInv, CoveredInv, PastInv, TypeOK
      <3>2. CASE k \in reported
        BY <2>5, <3>2 DEF Covered, Within
      <3>3. CASE k \notin reported /\ k \in kept
        <4>1. k \notin counted /\ k \in task_dict
          BY <3>3 DEF kept, known
        <4>2. Within(k, idle[k], 0)
          BY <3>1, <4>1 DEF Covered
        <4> QED
          BY <4>2, <3>3, <1>1, <2>1, <2>5 DEF Covered, Within
      <3>4. CASE k \notin kept
        <4>1. Within(k, Period + 2 + idle[k], Period + 2)
          <5>1. k \in task_dict \/ k \notin tasks_data
            BY <2>2, <3>4
          <5> QED
            BY <3>1, <5>1 DEF DemandInv, TypeOK, Covered, Within
        <4> QED
          BY <4>1, <3>4, <1>1, <2>1, <2>5 DEF Covered, Within
      <3> QED
        BY <3>2, <3>3, <3>4
    <2> QED
      BY <2>3, <2>5, <2>6, <2>7, <2>8 DEF DemandInv
  <1>3. CASE ~(Triggers \/ t0 > Period)
    <2>1. /\ task_dict' = known
          /\ task_ts0' = ages
          /\ task_fps' = counted
          /\ UNCHANGED <<t0, manager>>
      BY <1>3 DEF MonitorStep
    <2>2. tasks_data \subseteq task_dict
      BY <1>3 DEF Triggers, NewKeys
    <2>3. TypeOK'
      BY <1>1, <2>1, <2>2 DEF DemandInv, TypeOK
    <2>4. ManagerOK' /\ PastInv'
      BY <1>1, <2>1 DEF DemandInv, ManagerOK, PastInv
    <2>5. ForgottenInv'
      BY <1>1, <2>1 DEF DemandInv, ForgottenInv, PastInv, TypeOK
    <2>6. CoveredInv'
      <3> SUFFICES ASSUME NEW k \in Keys, steady'[k] > 0 PROVE Covered(k)'
        BY DEF CoveredInv
      <3>1. steady[k] > 0 /\ Covered(k) /\ idle[k] \in {0, 1} /\ t0 \in Nat
        BY <1>1 DEF DemandInv, CoveredInv, PastInv, TypeOK
      <3>2. k \in tasks_data => idle[k] = 0
        BY DEF DemandInv, PastInv
      <3> QED
        BY <1>1, <2>1, <2>2, <3>1, <3>2 DEF DemandInv, TypeOK, Covered, Within
    <2> QED
      BY <2>3, <2>4, <2>5, <2>6 DEF DemandInv
  <1> QED
    BY <1>2, <1>3

(* The manager reads its topic: it stamps what is reported anew and, when  *)
(* it tells the scheduler, forgets reports that are too old.               *)
LEMMA ManageStep ==
    ASSUME DemandInv, Manage
    PROVE  DemandInv'
  <1> USE Constants
  <1>1. /\ manager' = <<>>
        /\ UNCHANGED <<tasks_data, task_dict, task_ts0, task_fps, t0, restarts, steady, idle>>
    BY DEF Manage, ManagerStep, monitor, past
  <1>2. /\ pinned_workloads' \subseteq Keys
        /\ since' \in 0 .. Interval + 1
    <2>1. pinned_workloads' = PinnedAfter(manager) /\ (since' = 0 \/ since' = since)
      BY DEF Manage, ManagerStep
    <2>2. PinnedAfter(manager) \subseteq Keys
      BY Zenon DEF PinnedAfter
    <2> QED
      BY <2>1, <2>2 DEF DemandInv, TypeOK
  <1>3. uuid2timestamps' = Remembered(manager) \/ uuid2timestamps' = Workloads(manager)
    BY DEF Manage, ManagerStep
  <1>4. ASSUME NEW k \in Keys
        PROVE  /\ uuid2timestamps'[k] \in {{}} \cup {{a} : a \in 0 .. Timeout}
               /\ \A a \in uuid2timestamps'[k] :
                      a \in uuid2timestamps[k] \/ (k \in Reported(manager) /\ a = 0)
               /\ k \in Reported(manager) => 0 \in uuid2timestamps'[k]
               /\ \A a \in uuid2timestamps[k] :
                      a < Timeout /\ k \notin Reported(manager) => a \in uuid2timestamps'[k]
    BY <1>3 DEF Remembered, Workloads, remove_expired, add_workload, DemandInv, TypeOK
  <1>5. TypeOK'
    <2>1. uuid2timestamps' \in [Keys -> {{}} \cup {{a} : a \in 0 .. Timeout}]
      <3>1. uuid2timestamps' = [k \in Keys |-> uuid2timestamps'[k]]
        BY <1>3 DEF Remembered, Workloads
      <3> QED
        BY <3>1, <1>4
    <2> QED
      BY <1>1, <1>2, <2>1 DEF DemandInv, TypeOK
  <1>6. ManagerOK' /\ Reported(manager') = {}
    BY <1>1, ReportedNone DEF ManagerOK
  <1>7. PastInv'
    BY <1>1 DEF DemandInv, PastInv
  <1>8. ForgottenInv'
    BY <1>1, <1>4, <1>6 DEF DemandInv, ForgottenInv, TypeOK
  <1>9. CoveredInv'
    <2> SUFFICES ASSUME NEW k \in Keys, steady'[k] > 0 PROVE Covered(k)'
      BY DEF CoveredInv
    <2>1. steady[k] > 0 /\ Covered(k) /\ idle[k] \in {0, 1} /\ t0 \in 0 .. Period + 1
      BY <1>1 DEF DemandInv, CoveredInv, PastInv, TypeOK
    <2>2. ASSUME NEW x \in 0 .. Period + 3, NEW y \in Int, Within(k, x, y)
          PROVE  steady[k] <= y \/ \E a \in uuid2timestamps'[k] : a <= x
      BY <2>2, <1>4 DEF Within, DemandInv, TypeOK
    <2>3. /\ k \notin task_dict /\ k \in tasks_data =>
                steady[k] <= Period + 3 \/ \E a \in uuid2timestamps'[k] : a <= Period + 3
          /\ k \notin task_dict /\ k \notin tasks_data =>
                steady[k] <= Period + 2 \/ \E a \in uuid2timestamps'[k] : a <= Period + 2 + idle[k]
          /\ k \in task_fps =>
                steady[k] <= t0 + 1 - idle[k] \/ \E a \in uuid2timestamps'[k] : a <= t0 + 1
          /\ k \in task_dict \ task_fps /\ k \in tasks_data =>
                steady[k] <= 1 \/ \E a \in uuid2timestamps'[k] : a <= 1
          /\ k \in task_dict \ task_fps /\ k \notin tasks_data =>
                steady[k] <= 0 \/ \E a \in uuid2timestamps'[k] : a <= idle[k]
      BY <2>1, <2>2 DEF Covered
    <2> QED
      BY <2>3, <1>1 DEF Covered, Within
  <1> QED
    BY <1>5, <1>6, <1>7, <1>8, <1>9 DEF DemandInv

(* An operator pins or unpins a workload.                                  *)
LEMMA PinStep ==
    ASSUME DemandInv, NEW j \in Keys, Pin(j) \/ Unpin(j)
    PROVE  DemandInv'
  <1>1. /\ UNCHANGED <<tasks_data, task_dict, task_ts0, task_fps, t0, restarts, steady, idle>>
        /\ UNCHANGED <<uuid2timestamps, pinned_workloads, since>>
    BY DEF Pin, Unpin, PinOrUnpin, monitor, past
  <1>2. PICK type \in {"pin", "unpin"} : manager' = Append(manager, Pinning(type, j))
    BY DEF Pin, Unpin, PinOrUnpin
  <1>3. Pinning(type, j) \in Messages /\ Pinning(type, j).type # "report"
    BY DEF Pinning, Messages
  <1>4. ManagerOK' /\ Reported(manager') = Reported(manager)
    BY <1>2, <1>3, ReportedAppend DEF DemandInv, ManagerOK
  <1>5. TypeOK' /\ PastInv'
    BY <1>1 DEF DemandInv, TypeOK, PastInv
  <1>6. ForgottenInv'
    BY <1>1, <1>4 DEF DemandInv, ForgottenInv
  <1>7. CoveredInv'
    BY <1>1, <1>4 DEF DemandInv, CoveredInv, Covered, Within
  <1> QED
    BY <1>4, <1>5, <1>6, <1>7 DEF DemandInv

(* The manager loses its memory; what is in its topic stays there.         *)
LEMMA RestartStep ==
    ASSUME DemandInv, Restart
    PROVE  DemandInv'
  <1> USE Constants
  <1>1. /\ UNCHANGED <<tasks_data, task_dict, task_ts0, task_fps, t0, idle, manager>>
        /\ uuid2timestamps' = [k \in Keys |-> {}]
        /\ pinned_workloads' = {}
        /\ since' = 0
        /\ steady' = [k \in Keys |-> 0]
    BY DEF Restart, ManagerRestart, monitor
  <1>2. TypeOK'
    BY <1>1 DEF DemandInv, TypeOK
  <1>3. ManagerOK' /\ PastInv' /\ CoveredInv'
    BY <1>1 DEF DemandInv, ManagerOK, PastInv, CoveredInv
  <1>4. ForgottenInv'
    BY <1>1 DEF DemandInv, ForgottenInv
  <1> QED
    BY <1>2, <1>3, <1>4 DEF DemandInv

(* Time passes only when both loops have done what is due.                 *)
LEMMA TickStep ==
    ASSUME DemandInv, Tick
    PROVE  DemandInv'
  <1> USE Constants
  <1>1. /\ tasks_data = {} /\ t0 <= Period /\ manager = <<>>
        /\ UNCHANGED <<tasks_data, task_dict, task_fps, manager, pinned_workloads>>
    BY DEF Tick, MonitorDue, ManagerIdle, ManagerAges, DemandInv, TypeOK
  <1>2. /\ t0' = t0 + 1
        /\ since' \in 0 .. Interval + 1
        /\ task_ts0' \in [Keys -> 0 .. Caching + 1]
        /\ \A k \in Keys \ task_dict : task_ts0'[k] = 0
    BY <1>1 DEF Tick, ManagerAges, Older, DemandInv, TypeOK
  <1>3. /\ steady' = [k \in Keys |-> IF idle[k] > 0 THEN 0 ELSE steady[k]]
        /\ idle' = [k \in Keys |-> Older(idle[k], Linger)]
        /\ uuid2timestamps' = [k \in Keys |-> {Older(a, Timeout) : a \in uuid2timestamps[k]}]
    BY DEF Tick, ManagerAges
  <1>4. ASSUME NEW k \in Keys
        PROVE  /\ uuid2timestamps'[k] \in {{}} \cup {{a} : a \in 0 .. Timeout}
               /\ \A a \in uuid2timestamps[k] : Older(a, Timeout) \in uuid2timestamps'[k]
               /\ \A b \in uuid2timestamps'[k] : \E a \in uuid2timestamps[k] : b = Older(a, Timeout)
    <2>1. uuid2timestamps'[k] = {Older(a, Timeout) : a \in uuid2timestamps[k]}
      BY <1>3
    <2>2. uuid2timestamps[k] = {} \/ \E a \in 0 .. Timeout : uuid2timestamps[k] = {a}
      BY DEF DemandInv, TypeOK
    <2>3. \A a \in 0 .. Timeout : Older(a, Timeout) \in 0 .. Timeout
      BY DEF Older
    <2> QED
      BY <2>1, <2>2, <2>3
  <1>5. TypeOK'
    <2>1. uuid2timestamps' \in [Keys -> {{}} \cup {{a} : a \in 0 .. Timeout}]
      <3>1. uuid2timestamps' = [k \in Keys |-> uuid2timestamps'[k]]
        BY <1>3
      <3> QED
        BY <3>1, <1>4
    <2>2. steady' \in [Keys -> 0 .. Settle] /\ idle' \in [Keys -> 0 .. Linger]
      BY <1>3 DEF Older, DemandInv, TypeOK
    <2>3. t0' \in 0 .. Period + 1
      BY <1>1, <1>2 DEF DemandInv, TypeOK
    <2> QED
      BY <1>1, <1>2, <2>1, <2>2, <2>3, Zenon DEF DemandInv, TypeOK
  <1>6. ManagerOK' /\ Reported(manager) = {} /\ Reported(manager') = {}
    BY <1>1, ReportedNone DEF DemandInv, ManagerOK
  <1>7. PastInv'
    BY <1>1, <1>3 DEF Older, DemandInv, PastInv, TypeOK
  <1>8. ForgottenInv'
    <2>1. \A k \in task_fps' : idle'[k] <= t0'
      BY <1>1, <1>2, <1>3 DEF Older, DemandInv, ForgottenInv, TypeOK
    <2>2. \A k \in Keys : \A b \in uuid2timestamps'[k] : idle'[k] <= b + Period + 1
      <3> SUFFICES ASSUME NEW k \in Keys, NEW b \in uuid2timestamps'[k]
                   PROVE  idle'[k] <= b + Period + 1
        OBVIOUS
      <3>1. PICK a \in uuid2timestamps[k] : b = Older(a, Timeout)
        BY <1>4
      <3>2. a \in 0 .. Timeout /\ idle[k] \in 0 .. Linger /\ idle[k] <= a + Period + 1
        BY <3>1 DEF DemandInv, ForgottenInv, TypeOK
      <3> QED
        BY <3>1, <3>2, <1>3 DEF Older
    <2> QED
      BY <1>6, <2>1, <2>2 DEF ForgottenInv
  <1>9. CoveredInv'
    <2> SUFFICES ASSUME NEW k \in Keys, steady'[k] > 0 PROVE Covered(k)'
      BY DEF CoveredInv
    <2>1. idle[k] = 0 /\ steady'[k] = steady[k] /\ idle'[k] = 1
      BY <1>3 DEF Older, DemandInv, TypeOK
    <2>2. Covered(k) /\ t0 \in 0 .. Period
      BY <2>1, <1>1 DEF DemandInv, CoveredInv, TypeOK
    <2>3. ASSUME NEW x \in 0 .. Period + 2, NEW y \in Int, Within(k, x, y)
          PROVE  steady[k] <= y \/ \E b \in uuid2timestamps'[k] : b <= x + 1
      <3>1. CASE steady[k] <= y
        BY <3>1
      <3>2. ASSUME NEW a \in uuid2timestamps[k], a <= x
            PROVE  \E b \in uuid2timestamps'[k] : b <= x + 1
        <4>1. a \in 0 .. Timeout
          BY DEF DemandInv, TypeOK
        <4>2. Older(a, Timeout) <= x + 1
          BY <3>2, <4>1 DEF Older
        <4> QED
          BY <4>2, <1>4
      <3> QED
        BY <2>3, <1>6, <3>1, <3>2 DEF Within
    <2>4. /\ k \notin task_dict =>
                steady[k] <= Period + 2 \/ \E a \in uuid2timestamps'[k] : a <= Period + 3
          /\ k \in task_fps => steady[k] <= t0 + 1 \/ \E a \in uuid2timestamps'[k] : a <= t0 + 2
          /\ k \in task_dict \ task_fps =>
                steady[k] <= 0 \/ \E a \in uuid2timestamps'[k] : a <= 1
      BY <2>1, <2>2, <2>3, <1>1 DEF Covered
    <2> QED
      BY <2>1, <2>2, <2>4, <1>1, <1>2 DEF Covered, Within
  <1> QED
    BY <1>5, <1>6, <1>7, <1>8, <1>9 DEF DemandInv

(* Every step keeps the invariant.                                         *)
LEMMA DemandStep == DemandInv /\ [Next]_vars => DemandInv'
  <1> SUFFICES ASSUME DemandInv, [Next]_vars PROVE DemandInv'
    OBVIOUS
  <1>1. CASE UNCHANGED vars
    <2>1. /\ UNCHANGED <<uuid2timestamps, pinned_workloads, since, manager>>
          /\ UNCHANGED <<tasks_data, task_dict, task_ts0, task_fps, t0, steady, idle>>
      BY <1>1 DEF vars, wlm, monitor, past
    <2> QED
      BY <2>1 DEF DemandInv, TypeOK, ManagerOK, PastInv, CoveredInv, Covered, Within, ForgottenInv
  <1>2. CASE Next
    BY <1>2, RequestStep, PinStep, MonitorStepStep, ManageStep, RestartStep, TickStep DEF Next
  <1> QED
    BY <1>1, <1>2

LEMMA DemandCorrect == Spec => []DemandInv
  BY DemandInit, DemandStep, PTL DEF Spec

(* Every variable of the two loops stays in its type; no count and no age  *)
(* outlives its key in the monitor thread.                                 *)
THEOREM DemandTypes == Spec => []TypeOK
  <1>1. DemandInv => TypeOK
    BY DEF DemandInv
  <1> QED
    BY <1>1, DemandCorrect, PTL

(* What the manager tells the scheduler: a key with a report that is not   *)
(* too old, and none without one that is not pinned.                       *)
LEMMA MessageKeys ==
    ASSUME NEW k \in Keys
    PROVE  k \in Message(manager) <=>
             \/ k \in Reported(manager)
             \/ \E a \in uuid2timestamps[k] : a < Timeout
             \/ k \in PinnedAfter(manager)
  <1>1. PinnedAfter(manager) \subseteq Keys
    BY Zenon DEF PinnedAfter
  <1>2. k \in Message(manager) <=>
            Remembered(manager)[k] # {} \/ k \in PinnedAfter(manager)
    BY <1>1 DEF Message, generate_scheduling_msgs
  <1>3. Remembered(manager)[k] = {a \in add_workload(k, manager) : a < Timeout}
    BY DEF Remembered, Workloads, remove_expired
  <1>4. k \in Reported(manager) => 0 \in Remembered(manager)[k]
    BY <1>3, Constants DEF add_workload
  <1>5. k \notin Reported(manager) =>
            Remembered(manager)[k] = {a \in uuid2timestamps[k] : a < Timeout}
    BY <1>3 DEF add_workload
  <1> QED
    BY <1>2, <1>4, <1>5

(* A workload that is requested all the time is in every message to the    *)
(* scheduler, for any number of workloads that come and go and any periods *)
(* with Timeout > Period + 3, from the Settle-th tick on after it started  *)
(* or after the manager was restarted.                                     *)
THEOREM SteadyAlwaysServed == Spec => SteadyServed
  <1> DEFINE Served == SendsToScheduler =>
                 \A k \in Keys : steady[k] >= Settle => k \in Message(manager)
  <1>1. DemandInv => Served
    <2> SUFFICES ASSUME DemandInv, NEW k \in Keys, steady[k] >= Settle
                 PROVE  k \in Message(manager)
      BY Zenon
    <2>1. Covered(k) /\ idle[k] \in {0, 1} /\ t0 \in 0 .. Period + 1 /\ steady[k] >= Period + 4
      BY Constants DEF DemandInv, CoveredInv, PastInv, TypeOK
    <2>2. Within(k, Period + 3, Period + 3)
      BY <2>1, Constants DEF Covered, Within, DemandInv, TypeOK
    <2>3. k \in Reported(manager) \/ \E a \in uuid2timestamps[k] : a < Timeout
      BY <2>1, <2>2, Constants DEF Within, DemandInv, TypeOK
    <2> QED
      BY <2>3, MessageKeys
  <1> QED
    BY <1>1, DemandCorrect, PTL DEF SteadyServed

(* A workload nobody requests any more, and nobody pinned, is in no        *)
(* message to the scheduler after Linger ticks.                            *)
THEOREM IdleAlwaysReleased == Spec => IdleReleased
  <1>1. ASSUME DemandInv, SendsToScheduler
        PROVE  \A k \in Keys :
                   idle[k] >= Linger /\ k \notin pinned_workloads' => k \notin Message(manager)
    <2> SUFFICES ASSUME NEW k \in Keys, idle[k] >= Linger, k \notin pinned_workloads'
                 PROVE  k \notin Message(manager)
      OBVIOUS
    <2>1. k \notin PinnedAfter(manager)
      BY <1>1 DEF SendsToScheduler, ManagerStep
    <2>2. k \notin Reported(manager)
      BY <1>1, Constants DEF DemandInv, ForgottenInv, TypeOK
    <2>3. \A a \in uuid2timestamps[k] : ~(a < Timeout)
      BY <1>1, Constants DEF DemandInv, ForgottenInv, TypeOK
    <2> QED
      BY <2>1, <2>2, <2>3, MessageKeys
  <1> QED
    BY <1>1, DemandCorrect, PTL DEF IdleReleased
=============================================================================
