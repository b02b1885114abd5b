------------------------- MODULE ControlPlane_proofs -------------------------
(* Proofs about the registry of the scheduler and the messages its plans   *)
(* become, for any number of backends, requests, faults and delays; and    *)
(* about the models a backend is left with.                                *)
EXTENDS ControlPlane, SchedulingPasses_proofs

(* What Append returns.                                                    *)
LEMMA AppendElements ==
    ASSUME NEW T, NEW s \in Seq(T), NEW e \in T
    PROVE  /\ Append(s, e) \in Seq(T)
           /\ ToSet(Append(s, e)) = ToSet(s) \cup {e}
           /\ IsInjective(s) /\ e \notin ToSet(s) => IsInjective(Append(s, e))
  <1>1. /\ Append(s, e) \in Seq(T) /\ DOMAIN Append(s, e) = 1 .. (Len(s) + 1) /\ DOMAIN s = 1 .. Len(s)
        /\ \A i \in 1 .. Len(s) : Append(s, e)[i] = s[i]
        /\ Append(s, e)[Len(s) + 1] = e /\ Len(s) \in Nat
    OBVIOUS
  <1>2. \A i \in 1 .. (Len(s) + 1) : i \in 1 .. Len(s) \/ i = Len(s) + 1
    BY <1>1
  <1>3. ToSet(Append(s, e)) = ToSet(s) \cup {e}
    <2>1. ToSet(Append(s, e)) \subseteq ToSet(s) \cup {e}
      BY <1>1, <1>2 DEF ToSet
    <2>2. ToSet(s) \subseteq ToSet(Append(s, e))
      <3> SUFFICES ASSUME NEW i \in 1 .. Len(s) PROVE s[i] \in ToSet(Append(s, e))
        BY <1>1 DEF ToSet
      <3>1. i \in DOMAIN Append(s, e) /\ Append(s, e)[i] = s[i]
        BY <1>1
      <3> QED
        BY <3>1 DEF ToSet
    <2>3. e \in ToSet(Append(s, e))
      <3>1. Len(s) + 1 \in DOMAIN Append(s, e)
        BY <1>1
      <3> QED
        BY <1>1, <3>1 DEF ToSet
    <2> QED
      BY <2>1, <2>2, <2>3
  <1>4. IsInjective(s) /\ e \notin ToSet(s) => IsInjective(Append(s, e))
    <2>1. e \notin ToSet(s) => \A i \in 1 .. Len(s) : s[i] # e
      BY <1>1 DEF ToSet
    <2> QED
      BY <1>1, <1>2, <2>1 DEF IsInjective
  <1> QED
    BY <1>1, <1>3, <1>4

-----------------------------------------------------------------------------
(* A backend that is registered has an entry in the state database, and is *)
(* in the name list unless the handler is about to write it.               *)
RegistryInv ==
    /\ backends \in Seq(Backends) /\ IsInjective(backends)
    /\ dbNames \in Seq(Backends) /\ IsInjective(dbNames)
    /\ inbox \in Seq(Report)
    /\ ToSet(backends) \subseteq dbEntry
    /\ spc \notin {"names", "expired"} => ToSet(backends) \subseteq ToSet(dbNames)

(* It holds of an empty registry.                                          *)
LEMMA InitRegistry ==
    ASSUME Init
    PROVE  RegistryInv
  BY DEF Init, RegistryInv, ToSet, IsInjective

(* Steps that leave the registry alone.                                    *)
LEMMA SameRegistry ==
    ASSUME RegistryInv, UNCHANGED <<backends, dbNames>>, dbEntry \subseteq dbEntry',
           spc' = spc \/ (spc \notin {"names", "expired"}), inbox' \in Seq(Report)
    PROVE  RegistryInv'
  BY DEF RegistryInv

(* The message a handler takes from the topic of the scheduler.            *)
LEMMA HeadReport ==
    ASSUME RegistryInv, inbox # <<>>
    PROVE  /\ Tail(inbox) \in Seq(Report)
           /\ Head(inbox).type \in {"register", "heartbeat"} => Head(inbox).name \in Backends
  <1>1. Tail(inbox) \in Seq(Report) /\ Head(inbox) \in Report
    BY HeadTailProperties DEF RegistryInv
  <1> QED
    BY <1>1 DEF Report

(* process_register_backend keeps the registry.                            *)
LEMMA RegisterKeeps ==
    ASSUME RegistryInv, ProcessRegister
    PROVE  RegistryInv'
  <1> DEFINE b == Head(inbox).name
  <1>1. /\ inbox # <<>> /\ spc = "idle" /\ inbox' = Tail(inbox) /\ dbNames' = dbNames
        /\ \/ Known(b) /\ UNCHANGED <<backends, dbEntry, spc>>
           \/ /\ ~ Known(b) /\ backends' = Append(backends, b)
              /\ dbEntry' = dbEntry \cup {b} /\ spc' = "names"
    BY DEF ProcessRegister, Receives, Ready
  <1>2. b \in Backends /\ Tail(inbox) \in Seq(Report)
    BY <1>1, HeadReport DEF ProcessRegister, Receives
  <1> HIDE DEF b
  <1>3. CASE Known(b) /\ UNCHANGED <<backends, dbEntry, spc>>
    BY <1>1, <1>2, <1>3, SameRegistry
  <1>4. CASE ~ Known(b) /\ backends' = Append(backends, b) /\ dbEntry' = dbEntry \cup {b} /\ spc' = "names"
    <2>1. /\ backends' \in Seq(Backends) /\ IsInjective(backends')
          /\ ToSet(backends') = ToSet(backends) \cup {b}
      BY <1>2, <1>4, AppendElements DEF RegistryInv, Known
    <2> QED
      BY <1>1, <1>2, <1>4, <2>1 DEF RegistryInv
  <1> QED
    BY <1>1, <1>3, <1>4

(* So does every step of the scheduler, its crash and its restart.         *)
LEMMA SchedulerKeeps ==
    ASSUME RegistryInv, SchedulerNext \/ ScheduleWorkloads \/ \E rest \in Leftovers(inbox) : SchedulerCrash(rest)
    PROVE  RegistryInv'
  <1>1. CASE PushOut
    <2>1. UNCHANGED <<backends, dbNames, dbEntry, spc, inbox>>
      BY <1>1 DEF PushOut, dbVars
    <2> QED
      BY <2>1, SameRegistry DEF RegistryInv
  <1>2. CASE ProcessRegister
    BY <1>2, RegisterKeeps
  <1>3. CASE UpdateNames
    <2>1. dbNames' = backends /\ UNCHANGED <<backends, dbEntry, inbox>>
      BY <1>3 DEF UpdateNames, NamesToStore
    <2> QED
      BY <2>1 DEF RegistryInv
  <1>4. CASE ProcessHeartbeat
    <2>1. /\ UNCHANGED <<backends, dbNames, spc>> /\ dbEntry \subseteq dbEntry'
          /\ inbox # <<>> /\ inbox' = Tail(inbox)
      BY <1>4 DEF ProcessHeartbeat, Receives
    <2> QED
      BY <2>1, HeadReport, SameRegistry
  <1>5. CASE Expire
    <2>1. /\ backends' = Only(backends, Backends \ overdue) /\ dbEntry' = dbEntry \ overdue
          /\ spc' = "expired" /\ UNCHANGED <<dbNames, inbox>>
      BY <1>5 DEF Expire
    <2>2. /\ backends' \in Seq(Backends) /\ IsInjective(backends')
          /\ ToSet(backends') \subseteq ToSet(backends) \cap (Backends \ overdue)
      BY <2>1, OnlyElements DEF RegistryInv
    <2> QED
      BY <2>1, <2>2 DEF RegistryInv
  <1>6. CASE ProcessWorkloads
    <2>1. /\ UNCHANGED <<backends, dbNames, dbEntry>> /\ spc = "idle"
          /\ inbox # <<>> /\ inbox' = Tail(inbox)
      BY <1>6 DEF ProcessWorkloads, Receives, Ready, dbVars
    <2> QED
      BY <2>1, HeadReport, SameRegistry
  <1>7. CASE SchedulerRestart
    <2>1. backends' = Only(dbNames, dbEntry) /\ UNCHANGED <<dbNames, dbEntry, inbox, spc>>
      BY <1>7 DEF SchedulerRestart, dbVars
    <2>2. /\ backends' \in Seq(Backends) /\ IsInjective(backends')
          /\ ToSet(backends') \subseteq ToSet(dbNames) \cap dbEntry
      BY <2>1, OnlyElements DEF RegistryInv
    <2> QED
      BY <2>1, <2>2 DEF RegistryInv
  <1>8. CASE ScheduleWorkloads
    <2>1. UNCHANGED <<backends, dbNames, dbEntry, inbox>> /\ spc = "schedule"
      BY <1>8 DEF ScheduleWorkloads, dbVars
    <2> QED
      BY <2>1, SameRegistry DEF RegistryInv
  <1>9. ASSUME NEW rest \in Leftovers(inbox), SchedulerCrash(rest)
        PROVE  RegistryInv'
    <2>1. backends' = <<>> /\ inbox' = rest /\ UNCHANGED <<dbNames, dbEntry>>
      BY <1>9 DEF SchedulerCrash, dbVars
    <2>2. rest \in Seq(Report)
      <3>1. PICK n \in 0 .. Len(inbox) : rest = SubSeq(inbox, n + 1, Len(inbox))
        BY <1>9 DEF Leftovers
      <3>2. Len(inbox) \in Nat /\ \A i \in (n + 1) .. Len(inbox) : inbox[i] \in Report
        BY <3>1 DEF RegistryInv
      <3>3. n + 1 \in Int /\ Len(inbox) \in Int
        BY <3>2
      <3> QED
        BY <3>1, <3>2, <3>3, SubSeqProperties
    <2>3. backends' \in Seq(Backends) /\ IsInjective(backends') /\ ToSet(backends') = {}
      BY <2>1 DEF IsInjective, ToSet
    <2> QED
      BY <2>1, <2>2, <2>3 DEF RegistryInv
  <1> QED
    BY <1>1, <1>2, <1>3, <1>4, <1>5, <1>6, <1>7, <1>8, <1>9 DEF SchedulerNext

(* The backends and the workload manager only send messages.               *)
LEMMA OthersKeep ==
    ASSUME RegistryInv,
           \/ \E reqs \in RequestLists : ReportWorkloads(reqs)
           \/ \E b \in Backends :
                 \/ BecomesOverdue(b) \/ BackendStart(b) \/ Heartbeat(b) \/ Handle(b) \/ HandlerRaises(b)
                 \/ \E rest \in Leftovers(queue[b]) : BackendCrash(b, rest)
    PROVE  RegistryInv'
  <1>1. UNCHANGED <<backends, dbNames, dbEntry, spc>>
    BY DEF ReportWorkloads, BecomesOverdue, BackendStart, Heartbeat, Handle, ChangeInterval, Reregister,
           UnschedulePlan, SchedulePlan, HandlerRaises, BackendCrash, schedVars, dbVars
  <1>2. inbox' = inbox \/ \E m \in Report : inbox' = Append(inbox, m)
    <2>1. ASSUME NEW reqs \in RequestLists, ReportWorkloads(reqs)
          PROVE  \E m \in Report : inbox' = Append(inbox, m)
      <3>1. [type |-> "workloads", reqs |-> reqs] \in Report
        BY DEF Report
      <3> QED
        BY <2>1, <3>1 DEF ReportWorkloads
    <2>2. ASSUME NEW b \in Backends
          PROVE  [type |-> "register", name |-> b] \in Report /\ [type |-> "heartbeat", name |-> b] \in Report
      BY DEF Report
    <2>3. ASSUME NEW b \in Backends, BackendStart(b) \/ Reregister(b)
          PROVE  \E m \in Report : inbox' = Append(inbox, m)
      BY <2>2, <2>3 DEF BackendStart, Reregister, SendRegister
    <2>4. ASSUME NEW b \in Backends, Heartbeat(b)
          PROVE  \E m \in Report : inbox' = Append(inbox, m)
      BY <2>2, <2>4 DEF Heartbeat
    <2>5. ASSUME NEW b \in Backends,
                 \/ BecomesOverdue(b) \/ ChangeInterval(b) \/ UnschedulePlan(b) \/ SchedulePlan(b)
                 \/ \E rest \in Leftovers(queue[b]) : BackendCrash(b, rest)
          PROVE  inbox' = inbox
      BY <2>5 DEF BecomesOverdue, ChangeInterval, UnschedulePlan, SchedulePlan, BackendCrash
    <2>6. ASSUME NEW b \in Backends, HandlerRaises(b)
          PROVE  inbox' = inbox \/ \E m \in Report : inbox' = Append(inbox, m)
      BY <2>2, <2>6 DEF HandlerRaises, SendRegister
    <2> QED
      BY <2>1, <2>3, <2>4, <2>5, <2>6, Zenon DEF Handle
  <1>3. inbox' \in Seq(Report)
    BY <1>2 DEF RegistryInv
  <1> QED
    BY <1>1, <1>3, SameRegistry

(* The registry holds always.                                              *)
LEMMA RegistryHolds == Spec => []RegistryInv
  <1>1. Init => RegistryInv
    BY InitRegistry
  <1>2. RegistryInv /\ [Next]_vars => RegistryInv'
    <2> SUFFICES ASSUME RegistryInv, [Next]_vars
                 PROVE  RegistryInv'
      OBVIOUS
    <2>1. CASE Next
      BY <2>1, SchedulerKeeps, OthersKeep DEF Next
    <2>2. CASE UNCHANGED vars
      <3>1. UNCHANGED <<backends, dbNames, dbEntry, spc, inbox>>
        BY <2>2 DEF vars, schedVars, dbVars
      <3> QED
        BY <3>1, SameRegistry DEF RegistryInv
    <2> QED
      BY <2>1, <2>2
  <1> QED
    BY <1>1, <1>2, PTL DEF Spec

(* A scheduler that crashes between two messages finds every registered    *)
(* backend again in the state database.                                    *)
THEOREM RegistryRestorable == Spec => []RegistryRecoverable
  <1>1. RegistryInv => RegistryRecoverable
    BY DEF RegistryInv, RegistryRecoverable
  <1> QED
    BY <1>1, RegistryHolds, PTL

(* No backend is listed twice, in the dictionary or in the database, and   *)
(* restarts and expiries keep it so.                                       *)
THEOREM RegisteredOnce == Spec => [](IsInjective(backends) /\ IsInjective(dbNames))
  <1>1. RegistryInv => IsInjective(backends) /\ IsInjective(dbNames)
    BY DEF RegistryInv
  <1> QED
    BY <1>1, RegistryHolds, PTL

-----------------------------------------------------------------------------
(* Types, with what the policy keeps between two calls of schedule.        *)
PolicyInv ==
    /\ plans \in SolidDict(Keys(lastReqs), ToSet(lastBacks))
    /\ lastReqs \in Seq(Request) /\ lastBacks \in Seq(Backends) /\ requests \in Seq(Request)

(* The message to a backend, and a pair of both.                           *)
Push == [to : Backends, msg : Msg]

(* SetToSeq lists the elements of a finite set.                            *)
LEMMA SetToSeqType ==
    ASSUME NEW S, IsFiniteSet(S)
    PROVE  SetToSeq(S) \in Seq(S) /\ (S # {} => SetToSeq(S) # <<>>)
  <1> DEFINE n == Cardinality(S)
  <1>1. n \in Nat /\ ExistsBijection(1 .. n, S)
    BY FS_CardinalityType
  <1>2. PICK f \in Bijection(1 .. n, S) : TRUE
    BY <1>1 DEF ExistsBijection
  <1>3. f \in [1 .. n -> S] /\ IsInjective(f)
    BY <1>2 DEF Bijection, Injection, IsInjective
  <1> HIDE DEF n
  <1>4. SetToSeq(S) \in [1 .. n -> S]
    BY <1>3 DEF SetToSeq, n
  <1>5. S # {} => n # 0
    BY FS_EmptySet DEF n
  <1>6. SetToSeq(S) = <<>> => 1 .. n = {}
    BY <1>4
  <1> QED
    BY <1>1, <1>4, <1>5, <1>6

(* The plans of schedule go out as messages to backends.                   *)
LEMMA MessagesType ==
    ASSUME NEW data \in SUBSET (Backends \X Models \X Sessions), NEW type \in {"sched", "unsched"}
    PROVE  MessagesFor(type, data) \in Seq(Push)
  <1> DEFINE S == {x[1] : x \in data}
             names == SetToSeq(S)
  <1>1. S \in SUBSET Backends
    OBVIOUS
  <1>2. IsFiniteSet(S)
    BY <1>1, ControlAssumption, FS_Subset
  <1> HIDE DEF S
  <1>3. names \in Seq(S)
    BY <1>2, SetToSeqType
  <1> HIDE DEF names
  <1>4. DOMAIN names = 1 .. Len(names) /\ Len(names) \in Nat /\ \A i \in 1 .. Len(names) : names[i] \in Backends
    BY <1>1, <1>3
  <1>5. ASSUME NEW b PROVE [type |-> type, plan |-> PlanOf(data, b)] \in Msg
    <2>1. PlanOf(data, b) \in SUBSET Pair
      BY DEF PlanOf, Pair
    <2> QED
      BY <2>1 DEF Msg
  <1> DEFINE ms == [i \in DOMAIN names |-> To(names[i], [type |-> type, plan |-> PlanOf(data, names[i])])]
  <1>6. ms \in [1 .. Len(names) -> Push]
    BY <1>4, <1>5 DEF To, Push
  <1>7. ms \in Seq(Push)
    BY <1>4, <1>6
  <1> QED
    BY <1>7 DEF MessagesFor, names, S

(* One call of schedule: what it leaves, and that it raises nothing.       *)
LEMMA ScheduleTypes ==
    ASSUME TypeOK, PolicyInv, NEW st, st = RunPasses(plans, lastReqs, lastBacks, requests, backends)
    PROVE  /\ st.plans \in SolidDict(Keys(requests), ToSet(backends)) /\ st.raised = {}
           /\ SchedulingData(st.plans) \in SUBSET (Backends \X Models \X Sessions)
           /\ UnschedulingData(st.unsched) \in SUBSET (Backends \X Models \X Sessions)
  <1>1. /\ lastReqs \in Seq(Request) /\ lastBacks \in Seq(Backends) /\ requests \in Seq(Request)
        /\ backends \in Seq(Backends) /\ plans \in SolidDict(Keys(lastReqs), ToSet(lastBacks))
    BY DEF PolicyInv, TypeOK
  <1>2. st \in State(SolidDict(Keys(requests), ToSet(backends)), Exceptions)
    BY <1>1, RunPassesResult
  <1>3. /\ st.plans \in SolidDict(Keys(requests), ToSet(backends)) /\ st.unsched \in Unsched
        /\ st.raised \in SUBSET Exceptions
    BY <1>2, StateFields
  <1>4. Exceptions = {}
    <2>1. \A p \in Pipelines : Len(PipelineModels[p]) = 1
      BY ControlAssumption
    <2>2. \A p \in Pipelines : Len(PipelineModels[p]) <= 1
      <3> TAKE p \in Pipelines
      <3> DEFINE n == Len(PipelineModels[p])
      <3>1. n = 1
        BY <2>1
      <3> HIDE DEF n
      <3>2. n <= 1
        BY <3>1
      <3> QED
        BY <3>2 DEF n
    <2> QED
      BY <2>2 DEF Exceptions
  <1>5. Keys(requests) \in SUBSET Key
    BY <1>1, RequestKeys
  <1>6. ToSet(backends) \in SUBSET Backends
    BY <1>1, ListFinite
  <1>7. st.plans \in Dict(Keys(requests), ToSet(backends))
    BY <1>3 DEF SolidDict
  <1>8. SchedulingData(st.plans) \subseteq Backends \X Models \X Sessions
    BY <1>5, <1>6, <1>7, SchedulingDataType
  <1>9. UnschedulingData(st.unsched) \subseteq Backends \X Models \X Sessions
    BY <1>3, UnschedulingDataType
  <1> QED
    BY <1>3, <1>4, <1>8, <1>9

(* Init has the types.                                                     *)
LEMMA TypesInit == Init => TypeOK /\ PolicyInv
  <1> SUFFICES ASSUME Init PROVE TypeOK /\ PolicyInv
    OBVIOUS
  <1>1. TypeOK
    BY DEF Init, TypeOK, IsInjective
  <1>2. PolicyInv
    BY NoPlans DEF Init, PolicyInv
  <1> QED
    BY <1>1, <1>2

(* What the handlers take from the topics.                                 *)
LEMMA HeadTypes ==
    ASSUME TypeOK
    PROVE  /\ out # <<>> => Tail(out) \in Seq(Push) /\ Head(out) \in Push
           /\ inbox # <<>> =>
                 /\ Tail(inbox) \in Seq(Report) /\ Head(inbox) \in Report
                 /\ Head(inbox).type \in {"register", "heartbeat"} => Head(inbox).name \in Backends
                 /\ Head(inbox).type = "workloads" => Head(inbox).reqs \in RequestLists
           /\ \A b \in Backends : queue[b] # <<>> =>
                 /\ Tail(queue[b]) \in Seq(Msg) /\ Head(queue[b]) \in Msg
                 /\ Head(queue[b]).type \in {"sched", "unsched"} => Head(queue[b]).plan \in SUBSET Pair
  <1>1. out # <<>> => Tail(out) \in Seq(Push) /\ Head(out) \in Push
    BY HeadTailProperties DEF TypeOK, Push
  <1>2. inbox # <<>> => Tail(inbox) \in Seq(Report) /\ Head(inbox) \in Report
    BY HeadTailProperties DEF TypeOK
  <1>3. \A b \in Backends : queue[b] # <<>> => Tail(queue[b]) \in Seq(Msg) /\ Head(queue[b]) \in Msg
    <2> TAKE b \in Backends
    <2>1. queue[b] \in Seq(Msg)
      BY DEF TypeOK
    <2> QED
      BY <2>1, HeadTailProperties
  <1>4. \A r \in Report : /\ r.type \in {"register", "heartbeat"} => r.name \in Backends
                          /\ r.type = "workloads" => r.reqs \in RequestLists
    BY DEF Report
  <1>5. \A r \in Msg : r.type \in {"sched", "unsched"} => r.plan \in SUBSET Pair
    BY DEF Msg
  <1> QED
    BY <1>1, <1>2, <1>3, <1>4, <1>5

(* What a crash leaves in a topic is part of it.                           *)
LEMMA LeftoversType ==
    ASSUME NEW T, NEW q \in Seq(T), NEW rest \in Leftovers(q)
    PROVE  rest \in Seq(T)
  <1>1. PICK n \in 0 .. Len(q) : rest = SubSeq(q, n + 1, Len(q))
    BY DEF Leftovers
  <1>2. Len(q) \in Nat /\ \A i \in (n + 1) .. Len(q) : q[i] \in T
    OBVIOUS
  <1>3. n + 1 \in Int /\ Len(q) \in Int
    BY <1>2
  <1> QED
    BY <1>1, <1>2, <1>3, SubSeqProperties

(* Steps of the scheduler keep the types.                                  *)
LEMMA SchedulerTypes ==
    ASSUME TypeOK, PolicyInv, RegistryInv,
           SchedulerNext \/ ScheduleWorkloads \/ \E rest \in Leftovers(inbox) : SchedulerCrash(rest)
    PROVE  TypeOK' /\ PolicyInv'
  <1>1. CASE PushOut
    <2>1. /\ out # <<>> /\ queue' = [queue EXCEPT ![Head(out).to] = Append(@, Head(out).msg)] /\ out' = Tail(out)
          /\ UNCHANGED <<sup, spc, backends, overdue, plans, lastReqs, lastBacks, requests, dbNames, dbEntry,
                         bpc, hb, deployed, inbox>>
      BY <1>1 DEF PushOut, policyVars, dbVars, backVars
    <2>2. out' \in Seq(Push) /\ Head(out).to \in Backends /\ Head(out).msg \in Msg
      BY <2>1, HeadTypes DEF Push
    <2>3. queue' \in [Backends -> Seq(Msg)]
      BY <2>1, <2>2 DEF TypeOK
    <2> QED
      BY <2>1, <2>2, <2>3 DEF TypeOK, PolicyInv, Push
  <1>2. CASE ProcessRegister
    <2> DEFINE b == Head(inbox).name
    <2>1. /\ inbox # <<>> /\ Head(inbox).type = "register" /\ inbox' = Tail(inbox) /\ out' = <<To(b, Interval)>>
          /\ \/ UNCHANGED <<backends, overdue, dbEntry, spc>>
             \/ /\ ~ Known(b) /\ backends' = Append(backends, b)
                /\ overdue' = overdue \ {b} /\ dbEntry' = dbEntry \cup {b} /\ spc' = "names"
          /\ UNCHANGED <<sup, plans, lastReqs, lastBacks, requests, dbNames, bpc, hb, deployed, queue>>
      BY <1>2 DEF ProcessRegister, Receives, policyVars, backVars
    <2>2. b \in Backends /\ Tail(inbox) \in Seq(Report)
      BY <2>1, HeadTypes
    <2> HIDE DEF b
    <2>3. Interval \in Msg
      BY DEF Interval, Msg
    <2>4. out' \in Seq(Push)
      BY <2>1, <2>2, <2>3 DEF To, Push
    <2>5. ~ Known(b) => Append(backends, b) \in Seq(Backends) /\ IsInjective(Append(backends, b))
      BY <2>2, AppendElements DEF TypeOK, Known
    <2>6. backends' \in Seq(Backends) /\ IsInjective(backends') /\ overdue' \subseteq Backends /\ dbEntry' \subseteq Backends
          /\ spc' \in {"idle", "names", "expired", "schedule"}
      BY <2>1, <2>2, <2>5 DEF TypeOK
    <2> QED
      BY <2>1, <2>2, <2>4, <2>6 DEF TypeOK, PolicyInv, Push
  <1>3. CASE UpdateNames
    <2>1. /\ dbNames' = backends /\ spc' \in {"schedule", "idle"}
          /\ UNCHANGED <<sup, out, backends, overdue, plans, lastReqs, lastBacks, requests, dbEntry,
                         bpc, hb, deployed, inbox, queue>>
      BY <1>3 DEF UpdateNames, NamesToStore, policyVars, backVars
    <2> QED
      BY <2>1 DEF TypeOK, PolicyInv
  <1>4. CASE ProcessHeartbeat
    <2> DEFINE b == Head(inbox).name
    <2>1. /\ inbox # <<>> /\ Head(inbox).type = "heartbeat" /\ inbox' = Tail(inbox)
          /\ \/ overdue' = overdue \ {b} /\ dbEntry' = dbEntry \cup {b} /\ out' = out
             \/ out' = <<To(b, Rereg)>> /\ UNCHANGED <<overdue, dbEntry>>
          /\ UNCHANGED <<sup, spc, backends, plans, lastReqs, lastBacks, requests, dbNames, bpc, hb, deployed, queue>>
      BY <1>4 DEF ProcessHeartbeat, Receives, ReplyToUnknown, policyVars, backVars
    <2>2. b \in Backends /\ Tail(inbox) \in Seq(Report)
      BY <2>1, HeadTypes
    <2> HIDE DEF b
    <2>3. Rereg \in Msg
      BY DEF Rereg, Msg
    <2>4. <<To(b, Rereg)>> \in Seq(Push) /\ out \in Seq(Push)
      BY <2>2, <2>3 DEF To, Push, TypeOK
    <2>5. out' \in Seq(Push) /\ overdue' \subseteq Backends /\ dbEntry' \subseteq Backends
      BY <2>1, <2>2, <2>4 DEF TypeOK
    <2> QED
      BY <2>1, <2>2, <2>5 DEF TypeOK, PolicyInv, Push
  <1>5. CASE Expire
    <2>1. /\ backends' = Only(backends, Backends \ overdue) /\ dbEntry' = dbEntry \ overdue /\ overdue' = {}
          /\ spc' = "expired"
          /\ UNCHANGED <<sup, out, plans, lastReqs, lastBacks, requests, dbNames, bpc, hb, deployed, inbox, queue>>
      BY <1>5 DEF Expire, policyVars, backVars
    <2>2. backends' \in Seq(Backends) /\ IsInjective(backends')
      BY <2>1, OnlyElements DEF TypeOK
    <2> QED
      BY <2>1, <2>2 DEF TypeOK, PolicyInv
  <1>6. CASE ProcessWorkloads
    <2>1. /\ inbox # <<>> /\ Head(inbox).type = "workloads" /\ inbox' = Tail(inbox)
          /\ requests' = Head(inbox).reqs /\ spc' = "schedule"
          /\ UNCHANGED <<sup, out, backends, overdue, plans, lastReqs, lastBacks, dbNames, dbEntry,
                         bpc, hb, deployed, queue>>
      BY <1>6 DEF ProcessWorkloads, Receives, dbVars, backVars
    <2>2. requests' \in Seq(Request) /\ Tail(inbox) \in Seq(Report)
      BY <2>1, HeadTypes, ControlAssumption
    <2> QED
      BY <2>1, <2>2 DEF TypeOK, PolicyInv
  <1>7. CASE SchedulerRestart
    <2>1. /\ sup' = TRUE /\ backends' = Only(dbNames, dbEntry)
          /\ UNCHANGED <<spc, out, overdue, plans, lastReqs, lastBacks, requests, dbNames, dbEntry,
                         bpc, hb, deployed, inbox, queue>>
      BY <1>7 DEF SchedulerRestart, policyVars, dbVars, backVars
    <2>2. backends' \in Seq(Backends) /\ IsInjective(backends')
      BY <2>1, OnlyElements DEF RegistryInv
    <2> QED
      BY <2>1, <2>2 DEF TypeOK, PolicyInv
  <1>8. CASE ScheduleWorkloads
    <2> DEFINE st == RunPasses(plans, lastReqs, lastBacks, requests, backends)
               stops == UnschedulingData(st.unsched)
               starts == SchedulingData(st.plans)
    <2>1. /\ spc' = "idle" /\ plans' = st.plans /\ lastReqs' = requests /\ lastBacks' = backends
          /\ out' = MessagesFor("unsched", stops) \o MessagesFor("sched", starts)
          /\ UNCHANGED <<sup, backends, overdue, requests, dbNames, dbEntry, bpc, hb, deployed, inbox, queue>>
      BY <1>8 DEF ScheduleWorkloads, PlansToSend, dbVars, backVars
    <2>2. /\ st.plans \in SolidDict(Keys(requests), ToSet(backends))
          /\ starts \in SUBSET (Backends \X Models \X Sessions)
          /\ stops \in SUBSET (Backends \X Models \X Sessions)
      BY ScheduleTypes
    <2> HIDE DEF st, stops, starts
    <2>3. MessagesFor("unsched", stops) \in Seq(Push) /\ MessagesFor("sched", starts) \in Seq(Push)
      BY <2>2, MessagesType
    <2>4. out' \in Seq(Push)
      BY <2>1, <2>3
    <2>5. PolicyInv'
      BY <2>1, <2>2 DEF PolicyInv, TypeOK
    <2>6. TypeOK'
      BY <2>1, <2>4 DEF TypeOK, Push
    <2> QED
      BY <2>5, <2>6
  <1>9. ASSUME NEW rest \in Leftovers(inbox), SchedulerCrash(rest)
        PROVE  TypeOK' /\ PolicyInv'
    <2>1. /\ sup' = FALSE /\ spc' = "idle" /\ out' = <<>> /\ backends' = <<>> /\ overdue' = {}
          /\ plans' = <<>> /\ lastReqs' = <<>> /\ lastBacks' = <<>> /\ requests' = <<>> /\ inbox' = rest
          /\ UNCHANGED <<dbNames, dbEntry, bpc, hb, deployed, queue>>
      BY <1>9 DEF SchedulerCrash, dbVars, backVars
    <2>2. rest \in Seq(Report)
      <3>1. inbox \in Seq(Report)
        BY DEF TypeOK
      <3> QED
        BY <1>9, <3>1, LeftoversType
    <2>3. PolicyInv'
      BY <2>1, NoPlans DEF PolicyInv
    <2>4. <<>> \in Seq(Push) /\ <<>> \in Seq(Backends) /\ IsInjective(<<>>)
      BY DEF IsInjective
    <2>5. TypeOK'
      BY <2>1, <2>2, <2>4 DEF TypeOK, Push
    <2> QED
      BY <2>3, <2>5
  <1> QED
    BY <1>1, <1>2, <1>3, <1>4, <1>5, <1>6, <1>7, <1>8, <1>9 DEF SchedulerNext

(* What the handlers of a backend make of infer_runtime_map.               *)
LEMMA RuntimeTypes ==
    ASSUME NEW rts \in SUBSET Runtime, NEW plan \in SUBSET Pair, NEW dropped
    PROVE  Deployed(rts, plan) \in SUBSET Runtime /\ WithoutSessions(rts, dropped) \in SUBSET Runtime
  <1> DEFINE Of(m) == {s \in Sessions : <<m, s>> \in plan}
             new == {m \in Models : Of(m) # {} /\ \A r \in rts : r.model # m}
  <1>1. \A m : Of(m) \in SUBSET Sessions
    OBVIOUS
  <1>2. \A r \in rts : r \in Runtime /\ r.live \in SUBSET Sessions
    BY DEF Runtime
  <1>3. Deployed(rts, plan) = {[r EXCEPT !.live = @ \cup Of(r.model)] : r \in rts}
                                \cup {[model |-> m, plan |-> Of(m), live |-> Of(m)] : m \in new}
    BY DEF Deployed
  <1>4. new \in SUBSET Models
    OBVIOUS
  <1> HIDE DEF Of, new
  <1>5. \A r \in rts : [r EXCEPT !.live = @ \cup Of(r.model)] \in Runtime
    BY <1>1, <1>2 DEF Runtime
  <1>6. \A m \in new : [model |-> m, plan |-> Of(m), live |-> Of(m)] \in Runtime
    BY <1>1, <1>4 DEF Runtime
  <1>7. \A r \in rts : [r EXCEPT !.live = @ \ dropped[r]] \in Runtime
    BY <1>2 DEF Runtime
  <1> QED
    BY <1>3, <1>5, <1>6, <1>7 DEF WithoutSessions

(* Steps of the backends and of the workload manager keep the types.       *)
LEMMA BackendTypes ==
    ASSUME TypeOK, PolicyInv, RegistryInv, RegistryInv',
           \/ \E reqs \in RequestLists : ReportWorkloads(reqs)
           \/ \E b \in Backends :
                 \/ BecomesOverdue(b) \/ BackendStart(b) \/ Heartbeat(b) \/ Handle(b) \/ HandlerRaises(b)
                 \/ \E rest \in Leftovers(queue[b]) : BackendCrash(b, rest)
    PROVE  TypeOK' /\ PolicyInv'
  <1>1. inbox' \in Seq(Report)
    BY DEF RegistryInv
  <1>2. ASSUME NEW reqs \in RequestLists, ReportWorkloads(reqs)
        PROVE  TypeOK' /\ PolicyInv'
    BY <1>1, <1>2 DEF ReportWorkloads, schedVars, policyVars, dbVars, backVars, TypeOK, PolicyInv
  <1>3. ASSUME NEW b \in Backends, BecomesOverdue(b)
        PROVE  TypeOK' /\ PolicyInv'
    BY <1>1, <1>3 DEF BecomesOverdue, policyVars, dbVars, backVars, TypeOK, PolicyInv
  <1>4. ASSUME NEW b \in Backends, BackendStart(b)
        PROVE  TypeOK' /\ PolicyInv'
    BY <1>1, <1>4 DEF BackendStart, schedVars, policyVars, dbVars, TypeOK, PolicyInv
  <1>5. ASSUME NEW b \in Backends, Heartbeat(b)
        PROVE  TypeOK' /\ PolicyInv'
    BY <1>1, <1>5 DEF Heartbeat, schedVars, policyVars, dbVars, backVars, TypeOK, PolicyInv
  <1>6. ASSUME NEW b \in Backends, Handle(b) \/ HandlerRaises(b)
        PROVE  TypeOK' /\ PolicyInv'
    <2>1. queue[b] # <<>> /\ Consume(b)
      BY <1>6 DEF Handle, ChangeInterval, Reregister, UnschedulePlan, SchedulePlan, HandlerRaises, Gets
    <2>2. queue' \in [Backends -> Seq(Msg)]
      <3>1. Tail(queue[b]) \in Seq(Msg)
        BY <2>1, HeadTypes
      <3> QED
        BY <2>1, <3>1 DEF Consume, TypeOK
    <2>3. UNCHANGED <<sup, spc, out, backends, overdue, plans, lastReqs, lastBacks, requests, dbNames, dbEntry>>
      BY <1>6 DEF Handle, ChangeInterval, Reregister, UnschedulePlan, SchedulePlan, HandlerRaises,
                  schedVars, policyVars, dbVars
    <2>4. deployed[b] \in SUBSET Runtime
      BY DEF TypeOK
    <2>5. /\ bpc' \in [Backends -> {"up", "stuck", "down"}] /\ hb' \in [Backends -> BOOLEAN]
          /\ deployed' \in [Backends -> SUBSET Runtime]
      <3>1. CASE ChangeInterval(b)
        BY <3>1 DEF ChangeInterval, TypeOK
      <3>2. CASE Reregister(b)
        <4> DEFINE new == WithoutSessions(deployed[b], [r \in deployed[b] |-> r.plan])
        <4>1. new \in SUBSET Runtime
          BY <2>4, RuntimeTypes
        <4>2. deployed' = [deployed EXCEPT ![b] = new] /\ UNCHANGED <<bpc, hb>>
          BY <3>2 DEF Reregister
        <4> HIDE DEF new
        <4> QED
          BY <4>1, <4>2 DEF TypeOK
      <3>3. CASE UnschedulePlan(b)
        <4> DEFINE drop == [r \in deployed[b] |-> {s \in Sessions : <<r.model, s>> \in Head(queue[b]).plan}]
                   new == WithoutSessions(deployed[b], drop)
        <4>1. deployed' = [deployed EXCEPT ![b] = new] /\ UNCHANGED <<bpc, hb>>
          BY <3>3 DEF UnschedulePlan
        <4> HIDE DEF drop
        <4>2. new \in SUBSET Runtime
          BY <2>4, RuntimeTypes
        <4> HIDE DEF new
        <4> QED
          BY <4>1, <4>2 DEF TypeOK
      <3>4. CASE SchedulePlan(b)
        <4> DEFINE new == Deployed(deployed[b], Head(queue[b]).plan)
        <4>1. Head(queue[b]).type = "sched"
          BY <3>4 DEF SchedulePlan, Gets
        <4>2. Head(queue[b]).plan \in SUBSET Pair
          BY <2>1, <4>1, HeadTypes
        <4>3. new \in SUBSET Runtime
          BY <2>4, <4>2, RuntimeTypes
        <4>4. deployed' = [deployed EXCEPT ![b] = new] /\ UNCHANGED <<bpc, hb>>
          BY <3>4 DEF SchedulePlan
        <4> HIDE DEF new
        <4> QED
          BY <4>3, <4>4 DEF TypeOK
      <3>5. CASE HandlerRaises(b)
        BY <3>5 DEF HandlerRaises, TypeOK
      <3> QED
        BY <1>6, <3>1, <3>2, <3>3, <3>4, <3>5 DEF Handle
    <2> QED
      BY <1>1, <2>2, <2>3, <2>5 DEF TypeOK, PolicyInv
  <1>7. ASSUME NEW b \in Backends, NEW rest \in Leftovers(queue[b]), BackendCrash(b, rest)
        PROVE  TypeOK' /\ PolicyInv'
    <2>1. rest \in Seq(Msg)
      <3>1. queue[b] \in Seq(Msg)
        BY DEF TypeOK
      <3> QED
        BY <3>1, LeftoversType
    <2> QED
      BY <1>1, <1>7, <2>1 DEF BackendCrash, schedVars, policyVars, dbVars, TypeOK, PolicyInv
  <1> QED
    BY <1>2, <1>3, <1>4, <1>5, <1>6, <1>7

(* Types hold always.                                                      *)
LEMMA TypesHold == Spec => [](TypeOK /\ PolicyInv)
  <1>1. Init => TypeOK /\ PolicyInv
    BY TypesInit
  <1>2. (TypeOK /\ PolicyInv) /\ RegistryInv /\ RegistryInv' /\ [Next]_vars => (TypeOK /\ PolicyInv)'
    <2> SUFFICES ASSUME TypeOK, PolicyInv, RegistryInv, RegistryInv', [Next]_vars
                 PROVE  TypeOK' /\ PolicyInv'
      OBVIOUS
    <2>1. CASE Next
      BY <2>1, SchedulerTypes, BackendTypes DEF Next
    <2>2. CASE UNCHANGED vars
      BY <2>2 DEF vars, schedVars, policyVars, dbVars, backVars, TypeOK, PolicyInv
    <2> QED
      BY <2>1, <2>2
  <1> QED
    BY <1>1, <1>2, RegistryHolds, PTL DEF Spec

(* Every variable keeps its type: the plans of the policy become messages  *)
(* to backends that name known models and sessions, whatever crashes,      *)
(* restarts, expires or registers in between.                              *)
THEOREM TypeCorrect == Spec => []TypeOK
  BY TypesHold, PTL

(* A call of schedule raises nothing, in whatever state the crashes and    *)
(* expiries leave the scheduler: the passes look up only what is there.    *)
THEOREM ScheduleReturns ==
    Spec => [](RunPasses(plans, lastReqs, lastBacks, requests, backends).raised = {})
  <1>1. TypeOK /\ PolicyInv => RunPasses(plans, lastReqs, lastBacks, requests, backends).raised = {}
    BY ScheduleTypes
  <1> QED
    BY <1>1, TypesHold, PTL

-----------------------------------------------------------------------------
(* Models without a plan.  With one backend and one session a message on   *)
(* its way begins or ends the service of a model; a model that is not      *)
(* planned is ended by a message behind every one that begins it, and, if  *)
(* it is deployed, by some message.                                        *)
Begins(msg, m, s) == msg.type = "sched" /\ <<m, s>> \in msg.plan
Ends(msg, m, s) == msg.type = "rereg" \/ (msg.type = "unsched" /\ <<m, s>> \in msg.plan)

(* The messages backend b has not handled: its topic, then the pushes the  *)
(* scheduler has still to make.                                            *)
MsgsOf(ps) == [i \in DOMAIN ps |-> ps[i].msg]
Ahead(b) == queue[b] \o MsgsOf(out)
Hosted(b, m) == \E r \in deployed[b] : r.model = m

Ended(here, q, m, s) ==
    /\ here => \E j \in DOMAIN q : Ends(q[j], m, s)
    /\ \A i \in DOMAIN q : Begins(q[i], m, s) => \E j \in DOMAIN q : j > i /\ Ends(q[j], m, s)

(* The inductive invariant.  A backend that never joins a second session   *)
(* to a model clears all it runs when it is asked to re-register.          *)
OrphanInv(b, s) ==
    /\ schedCrashes \in Nat /\ failures \in Nat
    /\ spc \in {"expired", "schedule"} => out = <<>>
    /\ \A r \in deployed[b] : r.plan = {s} /\ r.live = {s}
    /\ schedCrashes = 0 /\ failures = 0 =>
          \A m \in Models : <<b, m, s>> \notin Planned => Ended(Hosted(b, m), Ahead(b), m, s)

(* A concatenation, element by element.                                    *)
LEMMA ConcatAt ==
    ASSUME NEW T, NEW q \in Seq(T), NEW n \in Seq(T), NEW x, x = q \o n
    PROVE  /\ Len(q) \in Nat /\ Len(n) \in Nat /\ DOMAIN q = 1 .. Len(q) /\ DOMAIN n = 1 .. Len(n)
           /\ x \in Seq(T) /\ DOMAIN x = 1 .. (Len(q) + Len(n))
           /\ \A i \in 1 .. Len(q) : x[i] = q[i]
           /\ \A i \in 1 .. Len(n) : x[Len(q) + i] = n[i]
           /\ \A i \in DOMAIN x : i \in 1 .. Len(q) \/ (i - Len(q) \in 1 .. Len(n) /\ x[i] = n[i - Len(q)])
  OBVIOUS

(* Messages that begin nothing are pushed behind q; or one of them ends m. *)
LEMMA EndedMore ==
    ASSUME NEW q \in Seq(Msg), NEW n \in Seq(Msg), NEW m, NEW s, NEW here,
           \A i \in DOMAIN n : ~ Begins(n[i], m, s),
           Ended(here, q, m, s) \/ \E j \in DOMAIN n : Ends(n[j], m, s)
    PROVE  Ended(here, q \o n, m, s)
  <1> DEFINE x == q \o n
  <1>1. /\ Len(q) \in Nat /\ Len(n) \in Nat /\ DOMAIN q = 1 .. Len(q) /\ DOMAIN n = 1 .. Len(n)
        /\ DOMAIN x = 1 .. (Len(q) + Len(n))
        /\ \A i \in 1 .. Len(q) : x[i] = q[i]
        /\ \A i \in 1 .. Len(n) : x[Len(q) + i] = n[i]
        /\ \A i \in DOMAIN x : i \in 1 .. Len(q) \/ (i - Len(q) \in 1 .. Len(n) /\ x[i] = n[i - Len(q)])
    BY ConcatAt
  <1> HIDE DEF x
  <1>2. \A i \in DOMAIN x : Begins(x[i], m, s) => i \in 1 .. Len(q) /\ Begins(q[i], m, s)
    BY <1>1
  <1>3. CASE Ended(here, q, m, s)
    <2>1. \A j \in DOMAIN q : j \in DOMAIN x /\ x[j] = q[j]
      BY <1>1
    <2> QED
      BY <1>1, <1>2, <1>3, <2>1 DEF Ended, x
  <1>4. CASE \E j \in DOMAIN n : Ends(n[j], m, s)
    <2>1. PICK j \in DOMAIN n : Ends(n[j], m, s)
      BY <1>4
    <2>2. Len(q) + j \in DOMAIN x /\ Ends(x[Len(q) + j], m, s) /\ \A i \in 1 .. Len(q) : Len(q) + j > i
      BY <1>1, <2>1
    <2> QED
      BY <1>2, <2>2 DEF Ended, x
  <1> QED
    BY <1>3, <1>4

(* The first message is handled.                                           *)
LEMMA EndedTail ==
    ASSUME NEW q \in Seq(Msg), q # <<>>, NEW m, NEW s, NEW here, NEW after,
           Ended(here, q, m, s),
           after => (here /\ ~ Ends(Head(q), m, s)) \/ Begins(Head(q), m, s)
    PROVE  Ended(after, Tail(q), m, s)
  <1> DEFINE x == Tail(q)
  <1>1. /\ Len(q) \in Nat \ {0} /\ DOMAIN q = 1 .. Len(q) /\ DOMAIN x = 1 .. (Len(q) - 1)
        /\ \A i \in DOMAIN x : x[i] = q[i + 1] /\ i + 1 \in DOMAIN q
        /\ Head(q) = q[1] /\ 1 \in DOMAIN q
    OBVIOUS
  <1> HIDE DEF x
  <1>2. \A j \in DOMAIN q : j > 1 => j - 1 \in DOMAIN x /\ x[j - 1] = q[j]
    BY <1>1
  <1>3. ASSUME after PROVE \E j \in DOMAIN x : Ends(x[j], m, s)
    <2>1. PICK j \in DOMAIN q : Ends(q[j], m, s) /\ j > 1
      <3>1. CASE here /\ ~ Ends(Head(q), m, s)
        <4>1. PICK j \in DOMAIN q : Ends(q[j], m, s)
          BY <3>1 DEF Ended
        <4>2. j > 1
          BY <1>1, <3>1, <4>1
        <4> QED
          BY <4>1, <4>2
      <3>2. CASE Begins(Head(q), m, s)
        BY <1>1, <3>2 DEF Ended
      <3> QED
        BY <1>3, <3>1, <3>2
    <2> QED
      BY <1>2, <2>1
  <1>4. ASSUME NEW i \in DOMAIN x, Begins(x[i], m, s) PROVE \E j \in DOMAIN x : j > i /\ Ends(x[j], m, s)
    <2>1. PICK j \in DOMAIN q : j > i + 1 /\ Ends(q[j], m, s)
      BY <1>1, <1>4 DEF Ended
    <2>2. j > 1 /\ j - 1 > i
      BY <1>1, <2>1
    <2> QED
      BY <1>2, <2>1, <2>2
  <1> QED
    BY <1>3, <1>4 DEF Ended, x

(* A crash loses the first messages and all that is deployed.              *)
LEMMA EndedSuffix ==
    ASSUME NEW q \in Seq(Msg), NEW p \in Seq(Msg), NEW m, NEW s, NEW here,
           NEW rest \in Leftovers(q), Ended(here, q \o p, m, s)
    PROVE  Ended(FALSE, rest \o p, m, s)
  <1> DEFINE x == q \o p
             y == rest \o p
  <1>1. PICK n \in 0 .. Len(q) : rest = SubSeq(q, n + 1, Len(q))
    BY DEF Leftovers
  <1>2. rest \in Seq(Msg) /\ Len(rest) = Len(q) - n /\ \A i \in 1 .. Len(rest) : rest[i] = q[i + n]
    <2>1. rest \in Seq(Msg)
      BY LeftoversType
    <2>2. n + 1 \in 1 .. (Len(q) + 1) /\ Len(q) \in Nat /\ n \in Nat
      OBVIOUS
    <2>3. Len(SubSeq(q, n + 1, Len(q))) = Len(q) - n
      BY <2>2
    <2>4. \A i \in 1 .. (Len(q) - n) : SubSeq(q, n + 1, Len(q))[i] = q[i + n]
      BY <2>2
    <2> QED
      BY <1>1, <2>1, <2>3, <2>4
  <1>3. /\ Len(q) \in Nat /\ Len(p) \in Nat /\ DOMAIN x = 1 .. (Len(q) + Len(p))
        /\ \A i \in 1 .. Len(q) : x[i] = q[i]
        /\ \A i \in 1 .. Len(p) : x[Len(q) + i] = p[i]
    BY ConcatAt
  <1>3a. /\ Len(rest) \in Nat /\ DOMAIN y = 1 .. (Len(rest) + Len(p))
         /\ \A i \in 1 .. Len(rest) : y[i] = rest[i]
         /\ \A i \in DOMAIN y : i \in 1 .. Len(rest) \/ (i - Len(rest) \in 1 .. Len(p) /\ y[i] = p[i - Len(rest)])
    <2>1. rest \in Seq(Msg) /\ y = rest \o p
      BY <1>2
    <2> HIDE DEF y
    <2> QED
      BY <2>1, ConcatAt
  <1> HIDE DEF x, y
  <1>4. ASSUME NEW i \in DOMAIN y PROVE i + n \in DOMAIN x /\ y[i] = x[i + n]
    <2>1. i + n \in DOMAIN x
      BY <1>2, <1>3, <1>3a
    <2>2. CASE i \in 1 .. Len(rest)
      <3>1. y[i] = q[i + n] /\ i + n \in 1 .. Len(q)
        BY <1>2, <1>3, <1>3a, <2>2
      <3> QED
        BY <1>3, <2>1, <3>1
    <2>3. CASE i - Len(rest) \in 1 .. Len(p) /\ y[i] = p[i - Len(rest)]
      <3>1. Len(q) + (i - Len(rest)) = i + n
        BY <1>2, <1>3, <1>3a
      <3>2. x[Len(q) + (i - Len(rest))] = p[i - Len(rest)]
        BY <1>3, <2>3
      <3> QED
        BY <2>1, <2>3, <3>1, <3>2
    <2> QED
      BY <1>3a, <2>2, <2>3
  <1>5. ASSUME NEW i \in DOMAIN y, Begins(y[i], m, s) PROVE \E j \in DOMAIN y : j > i /\ Ends(y[j], m, s)
    <2>1. PICK j \in DOMAIN x : j > i + n /\ Ends(x[j], m, s)
      BY <1>4, <1>5 DEF Ended, x
    <2>2. n \in Nat /\ i \in Nat \ {0} /\ j \in Nat /\ j <= Len(q) + Len(p)
      BY <1>3, <1>3a, <2>1
    <2>3. Len(rest) + Len(p) = (Len(q) + Len(p)) - n
      BY <1>2, <1>3, <2>2
    <2>4. j - n \in 1 .. (Len(rest) + Len(p)) /\ j - n > i /\ (j - n) + n = j
      BY <1>3, <1>3a, <2>1, <2>2, <2>3
    <2> QED
      BY <1>3a, <1>4, <2>1, <2>4
  <1> QED
    BY <1>5 DEF Ended, y

(* The messages of a handler.                                              *)
LEMMA MsgsType ==
    ASSUME NEW ps \in Seq(Push)
    PROVE  MsgsOf(ps) \in Seq(Msg)
  <1>1. Len(ps) \in Nat /\ DOMAIN ps = 1 .. Len(ps) /\ \A i \in 1 .. Len(ps) : ps[i] \in Push
    OBVIOUS
  <1>2. \A x \in Push : x.msg \in Msg
    BY DEF Push
  <1> DEFINE f == [i \in 1 .. Len(ps) |-> ps[i].msg]
  <1>3. f \in [1 .. Len(ps) -> Msg]
    BY <1>1, <1>2
  <1> HIDE DEF f
  <1>4. f \in Seq(Msg)
    BY <1>1, <1>3
  <1> QED
    BY <1>1, <1>4 DEF MsgsOf, f

(* The messages ahead of a backend that is the only one.                   *)
LEMMA AheadType ==
    ASSUME TypeOK, NEW b \in Backends
    PROVE  /\ queue[b] \in Seq(Msg) /\ MsgsOf(out) \in Seq(Msg) /\ Ahead(b) \in Seq(Msg)
           /\ out = <<>> => MsgsOf(out) = <<>> /\ Ahead(b) = queue[b]
  <1>1. queue[b] \in Seq(Msg) /\ out \in Seq(Push)
    BY DEF TypeOK, Push
  <1>2. MsgsOf(out) \in Seq(Msg)
    BY <1>1, MsgsType
  <1>3. out = <<>> => MsgsOf(out) = <<>>
    BY DEF MsgsOf
  <1> QED
    BY <1>1, <1>2, <1>3 DEF Ahead

(* A sequence with a new first element.                                    *)
LEMMA ConsAt ==
    ASSUME NEW T, NEW e \in T, NEW r \in Seq(T), NEW x, x = <<e>> \o r
    PROVE  x \in Seq(T) /\ Len(x) = Len(r) + 1 /\ x[1] = e /\ \A i \in 1 .. Len(r) : x[i + 1] = r[i]
  OBVIOUS

(* The first element moves from one sequence to the other.                 *)
LEMMA MoveFirst ==
    ASSUME NEW T, NEW q \in Seq(T), NEW t \in Seq(T), t # <<>>
    PROVE  /\ Tail(t) = [i \in 1 .. (Len(t) - 1) |-> t[i + 1]]
           /\ Append(q, t[1]) \o Tail(t) = q \o t
  <1>1. /\ Tail(t) \in Seq(T) /\ Len(t) \in Nat \ {0} /\ Len(Tail(t)) = Len(t) - 1 /\ t[1] \in T
        /\ \A i \in 1 .. (Len(t) - 1) : Tail(t)[i] = t[i + 1]
    OBVIOUS
  <1>2. Tail(t) = [i \in 1 .. (Len(t) - 1) |-> t[i + 1]]
    <2>1. Tail(t) \in [1 .. (Len(t) - 1) -> T]
      BY <1>1, LenProperties
    <2> QED
      BY <1>1, <2>1
  <1>3. <<t[1]>> \in Seq(T) /\ <<t[1]>> \o Tail(t) \in Seq(T)
    BY <1>1
  <1>4. <<t[1]>> \o Tail(t) = t
    <2> DEFINE r == Tail(t)
               x == <<t[1]>> \o r
    <2>1. r \in Seq(T) /\ Len(r) = Len(t) - 1 /\ \A i \in 1 .. (Len(t) - 1) : r[i] = t[i + 1]
      BY <1>1
    <2>2. t[1] \in T /\ x = <<t[1]>> \o r /\ Len(t) \in Nat \ {0}
      BY <1>1
    <2> HIDE DEF r, x
    <2>3. x \in Seq(T) /\ Len(x) = Len(r) + 1 /\ x[1] = t[1] /\ \A i \in 1 .. Len(r) : x[i + 1] = r[i]
      BY <2>1, <2>2, ConsAt
    <2>4. ASSUME NEW i \in 1 .. Len(t), i # 1 PROVE x[i] = t[i]
      <3> DEFINE j == i - 1
      <3>1. j \in 1 .. (Len(t) - 1) /\ j + 1 = i
        BY <2>2, <2>4
      <3> HIDE DEF j
      <3> QED
        BY <2>1, <2>3, <3>1
    <2>5. Len(x) = Len(t)
      BY <2>1, <2>2, <2>3
    <2> QED
      BY <2>3, <2>4, <2>5, SeqEqual DEF r, x
  <1>5. Append(q, t[1]) = q \o <<t[1]>>
    BY <1>1
  <1>6. (q \o <<t[1]>>) \o Tail(t) = q \o (<<t[1]>> \o Tail(t))
    BY <1>1, <1>3, ConcatAssociative
  <1> QED
    BY <1>2, <1>4, <1>5, <1>6

(* A push moves a message from the scheduler to the topic of the backend.  *)
LEMMA PushAhead ==
    ASSUME TypeOK, NEW b, Backends = {b}, PushOut
    PROVE  Ahead(b)' = Ahead(b)
  <1>1. /\ out # <<>> /\ queue' = [queue EXCEPT ![Head(out).to] = Append(@, Head(out).msg)] /\ out' = Tail(out)
    BY DEF PushOut
  <1>2. out \in Seq(Push) /\ Head(out) \in Push /\ queue \in [Backends -> Seq(Msg)]
    BY <1>1, HeadTypes DEF TypeOK, Push
  <1>3. Head(out).to = b /\ b \in Backends
    BY <1>2 DEF Push
  <1>4. queue'[b] = Append(queue[b], Head(out).msg)
    BY <1>1, <1>2, <1>3
  <1>5. queue[b] \in Seq(Msg) /\ MsgsOf(out) \in Seq(Msg)
    BY <1>3, AheadType
  <1>6. /\ Len(out) \in Nat \ {0} /\ DOMAIN out = 1 .. Len(out) /\ Head(out) = out[1]
        /\ DOMAIN Tail(out) = 1 .. (Len(out) - 1)
        /\ \A i \in 1 .. (Len(out) - 1) : Tail(out)[i] = out[i + 1] /\ i + 1 \in 1 .. Len(out)
    BY <1>1, <1>2
  <1>7. MsgsOf(out) # <<>> /\ Len(MsgsOf(out)) = Len(out)
    BY <1>5, <1>6 DEF MsgsOf
  <1>8. DOMAIN MsgsOf(out) = 1 .. Len(out) /\ \A i \in 1 .. Len(out) : MsgsOf(out)[i] = out[i].msg
    BY <1>6 DEF MsgsOf
  <1>9. /\ Tail(MsgsOf(out)) = [i \in 1 .. (Len(out) - 1) |-> MsgsOf(out)[i + 1]]
        /\ Append(queue[b], MsgsOf(out)[1]) \o Tail(MsgsOf(out)) = queue[b] \o MsgsOf(out)
    BY <1>5, <1>7, MoveFirst
  <1>10. MsgsOf(Tail(out)) = [i \in 1 .. (Len(out) - 1) |-> MsgsOf(out)[i + 1]]
    BY <1>6, <1>8 DEF MsgsOf
  <1>11. Head(out).msg = MsgsOf(out)[1]
    BY <1>6, <1>8
  <1> QED
    BY <1>1, <1>4, <1>9, <1>10, <1>11 DEF Ahead

(* A message is handled.                                                   *)
LEMMA ConsumeAhead ==
    ASSUME TypeOK, NEW b \in Backends, queue[b] # <<>>, Consume(b), out' = out
    PROVE  /\ Ahead(b) # <<>> /\ Ahead(b)' = Tail(Ahead(b)) /\ Head(Ahead(b)) = Head(queue[b])
  <1>1. queue[b] \in Seq(Msg) /\ MsgsOf(out) \in Seq(Msg)
    BY AheadType
  <1>2. queue'[b] = Tail(queue[b])
    BY DEF Consume, TypeOK
  <1>3. MsgsOf(out') = MsgsOf(out)
    OBVIOUS
  <1> DEFINE q == queue[b]
             ms == MsgsOf(out)
  <1> HIDE DEF q, ms
  <1>4. q \in Seq(Msg) /\ ms \in Seq(Msg) /\ q # <<>>
    BY <1>1 DEF q, ms
  <1>5. q \o ms # <<>> /\ Tail(q) \o ms = Tail(q \o ms) /\ Head(q \o ms) = Head(q)
    BY <1>4
  <1> QED
    BY <1>2, <1>3, <1>5 DEF Ahead, q, ms

(* Steps that leave the plans, the messages and the models alone.          *)
LEMMA OrphanSame ==
    ASSUME NEW b, NEW s, OrphanInv(b, s), UNCHANGED <<queue, out, plans, deployed, schedCrashes, failures>>,
           spc' \in {"expired", "schedule"} => spc' = spc \/ out = <<>>
    PROVE  OrphanInv(b, s)'
  BY DEF OrphanInv, Ahead, Hosted, Planned

(* A push.                                                                 *)
LEMMA OrphanPush ==
    ASSUME TypeOK, NEW b, NEW s, Backends = {b}, OrphanInv(b, s), PushOut
    PROVE  OrphanInv(b, s)'
  <1>1. Ahead(b)' = Ahead(b)
    BY PushAhead
  <1>2. UNCHANGED <<plans, deployed, schedCrashes, failures, spc>> /\ out # <<>>
    BY DEF PushOut, policyVars, backVars, boundVars
  <1>3. \A m : Hosted(b, m)' = Hosted(b, m) /\ Planned' = Planned
    BY <1>2 DEF Hosted, Planned
  <1> QED
    BY <1>1, <1>2, <1>3 DEF OrphanInv

(* The answer to a registration or a heartbeat begins no model.            *)
LEMMA OrphanReply ==
    ASSUME TypeOK, NEW b, NEW s, Backends = {b}, OrphanInv(b, s),
           NEW msg \in {Interval, Rereg}, out = <<>>, out' = <<To(b, msg)>>,
           UNCHANGED <<queue, plans, deployed, schedCrashes, failures>>, spc' \in {"idle", "names"}
    PROVE  OrphanInv(b, s)'
  <1> DEFINE n == <<msg>>
  <1>1. msg \in Msg /\ msg.type \in {"interval", "rereg"}
    BY DEF Interval, Rereg, Msg
  <1>2. n \in Seq(Msg) /\ DOMAIN n = {1} /\ n[1] = msg
    BY <1>1
  <1>3. MsgsOf(out') = n
    <2>1. DOMAIN out' = 1 .. 1 /\ out'[1] = To(b, msg)
      OBVIOUS
    <2>2. \A i \in DOMAIN out' : out'[i].msg = msg
      BY <2>1 DEF To
    <2> QED
      BY <2>1, <2>2 DEF MsgsOf
  <1> HIDE DEF n
  <1>4. queue[b] \in Seq(Msg) /\ Ahead(b) = queue[b] /\ Ahead(b)' = queue[b] \o n
    <2>1. queue[b] \in Seq(Msg) /\ Ahead(b) = queue[b]
      BY AheadType
    <2> QED
      BY <1>3, <2>1 DEF Ahead
  <1>5. ASSUME NEW m, NEW here, Ended(here, Ahead(b), m, s) PROVE Ended(here, Ahead(b)', m, s)
    <2>1. \A i \in DOMAIN n : ~ Begins(n[i], m, s)
      BY <1>1, <1>2 DEF Begins
    <2> QED
      BY <1>2, <1>4, <1>5, <2>1, EndedMore
  <1>6. \A m : Hosted(b, m)' = Hosted(b, m) /\ Planned' = Planned
    BY DEF Hosted, Planned
  <1> QED
    BY <1>5, <1>6 DEF OrphanInv

(* The models of a backend, each of which serves the only session s.       *)
OneSession(s) == Sessions = {s}
Joined(D, s) == OneSession(s) /\ D \in SUBSET Runtime /\ \A r \in D : r.plan = {s} /\ r.live = {s}

(* With one session a backend that is asked to re-register stops all.      *)
LEMMA StopsAll ==
    ASSUME NEW s, NEW D, Joined(D, s)
    PROVE  WithoutSessions(D, [r \in D |-> r.plan]) = {}
  BY DEF WithoutSessions, Runtime, Joined

(* An unscheduling plan leaves the models it does not name.                *)
LEMMA StopsNamed ==
    ASSUME NEW s, NEW D, Joined(D, s),
           NEW plan,
           NEW r \in WithoutSessions(D, [x \in D |-> {y \in Sessions : <<x.model, y>> \in plan}])
    PROVE  r.plan = {s} /\ r.live = {s} /\ <<r.model, s>> \notin plan /\ \E x \in D : x.model = r.model
  <1> DEFINE drop == [x \in D |-> {y \in Sessions : <<x.model, y>> \in plan}]
  <1>1. PICK x \in D : r = [x EXCEPT !.live = @ \ drop[x]] /\ r.live # {}
    BY DEF WithoutSessions
  <1>2. drop[x] = {y \in Sessions : <<x.model, y>> \in plan}
    OBVIOUS
  <1> HIDE DEF drop
  <1>3. x \in Runtime /\ x.plan = {s} /\ x.live = {s}
    BY DEF Joined
  <1>4. r.model = x.model /\ r.plan = x.plan /\ r.live = x.live \ drop[x]
    BY <1>1, <1>3 DEF Runtime
  <1>5. s \notin drop[x]
    BY <1>1, <1>3, <1>4
  <1> QED
    BY <1>2, <1>3, <1>4, <1>5 DEF Joined, OneSession

(* A scheduling plan adds the models it names.                             *)
LEMMA StartsNamed ==
    ASSUME NEW s, NEW D, Joined(D, s),
           NEW plan, NEW r \in Deployed(D, plan)
    PROVE  r.plan = {s} /\ r.live = {s} /\ (<<r.model, s>> \in plan \/ \E x \in D : x.model = r.model)
  <1> DEFINE Of(m) == {y \in Sessions : <<m, y>> \in plan}
  <1>1. \A m : Of(m) \subseteq {s} /\ (Of(m) # {} => Of(m) = {s} /\ <<m, s>> \in plan)
    BY DEF Joined, OneSession
  <1>2. CASE \E x \in D : r = [x EXCEPT !.live = @ \cup Of(x.model)]
    <2>1. PICK x \in D : r = [x EXCEPT !.live = @ \cup Of(x.model)]
      BY <1>2
    <2> HIDE DEF Of
    <2>2. x \in Runtime /\ x.plan = {s} /\ x.live = {s}
      BY DEF Joined
    <2>3. r.model = x.model /\ r.plan = x.plan /\ r.live = x.live \cup Of(x.model)
      BY <2>1, <2>2 DEF Runtime
    <2> QED
      BY <1>1, <2>2, <2>3
  <1>3. CASE \E m \in Models : Of(m) # {} /\ r = [model |-> m, plan |-> Of(m), live |-> Of(m)]
    <2>1. PICK m \in Models : Of(m) # {} /\ r = [model |-> m, plan |-> Of(m), live |-> Of(m)]
      BY <1>3
    <2> HIDE DEF Of
    <2>2. r.model = m /\ r.plan = Of(m) /\ r.live = Of(m)
      BY <2>1
    <2> QED
      BY <1>1, <2>1, <2>2
  <1> QED
    BY <1>2, <1>3 DEF Deployed

(* A backend handles a message.                                            *)
LEMMA OrphanHandle ==
    ASSUME TypeOK, NEW b, NEW s, Backends = {b}, OneSession(s), OrphanInv(b, s), Handle(b)
    PROVE  OrphanInv(b, s)'
  <1> DEFINE q == Ahead(b)
             h == Head(queue[b])
  <1>1. /\ b \in Backends /\ queue[b] # <<>> /\ Consume(b)
        /\ UNCHANGED <<spc, out, plans, schedCrashes, failures>>
    BY DEF Handle, ChangeInterval, Reregister, UnschedulePlan, SchedulePlan, Gets, schedVars, policyVars, boundVars
  <1>2. q \in Seq(Msg) /\ q # <<>> /\ Ahead(b)' = Tail(q) /\ Head(q) = h
    BY <1>1, AheadType, ConsumeAhead
  <1>3. deployed \in [Backends -> SUBSET Runtime]
    BY DEF TypeOK
  <1>4. Joined(deployed[b], s)
    BY <1>1, <1>3 DEF OrphanInv, Joined
  <1>6. /\ \A r \in deployed'[b] : r.plan = {s} /\ r.live = {s}
        /\ \A m : Hosted(b, m)' => (Hosted(b, m) /\ ~ Ends(h, m, s)) \/ Begins(h, m, s)
    <2> HIDE DEF h
    <2>1. CASE ChangeInterval(b)
      <3>1. h.type = "interval" /\ deployed' = deployed
        BY <2>1 DEF ChangeInterval, Gets, h
      <3> QED
        BY <1>4, <3>1 DEF Hosted, Ends, Joined
    <2>2. CASE Reregister(b)
      <3>1. deployed'[b] = {}
        BY <1>1, <1>3, <1>4, <2>2, StopsAll DEF Reregister
      <3> QED
        BY <3>1 DEF Hosted
    <2>3. CASE UnschedulePlan(b)
      <3>1. h.type = "unsched"
        BY <2>3 DEF UnschedulePlan, Gets, h
      <3>2. deployed'[b] = WithoutSessions(deployed[b], [x \in deployed[b] |-> {y \in Sessions : <<x.model, y>> \in h.plan}])
        BY <1>1, <1>3, <2>3 DEF UnschedulePlan, h
      <3>3. \A r \in deployed'[b] : r.plan = {s} /\ r.live = {s} /\ <<r.model, s>> \notin h.plan
                                    /\ \E x \in deployed[b] : x.model = r.model
        <4> DEFINE D == deployed[b]
                   new == WithoutSessions(D, [x \in D |-> {y \in Sessions : <<x.model, y>> \in h.plan}])
        <4>1. Joined(D, s)
          BY <1>4
        <4> HIDE DEF D
        <4>2. \A r \in new : r.plan = {s} /\ r.live = {s} /\ <<r.model, s>> \notin h.plan
                                 /\ \E x \in D : x.model = r.model
          BY <4>1, StopsNamed
        <4> QED
          BY <3>2, <4>2 DEF D
      <3> QED
        BY <3>1, <3>3 DEF Hosted, Ends
    <2>4. CASE SchedulePlan(b)
      <3>1. h.type = "sched"
        BY <2>4 DEF SchedulePlan, Gets, h
      <3>2. deployed'[b] = Deployed(deployed[b], h.plan)
        BY <1>1, <1>3, <2>4 DEF SchedulePlan, h
      <3>3. \A r \in deployed'[b] : r.plan = {s} /\ r.live = {s}
                                    /\ (<<r.model, s>> \in h.plan \/ \E x \in deployed[b] : x.model = r.model)
        <4> DEFINE D == deployed[b]
                   plan == h.plan
        <4>1. Joined(D, s)
          BY <1>4
        <4> HIDE DEF D, plan
        <4>2. ASSUME NEW r \in Deployed(D, plan)
              PROVE  r.plan = {s} /\ r.live = {s} /\ (<<r.model, s>> \in plan \/ \E x \in D : x.model = r.model)
          BY <4>1, StartsNamed, SMTT(30)
        <4> QED
          BY <3>2, <4>2 DEF D, plan
      <3> QED
        BY <3>1, <3>3 DEF Hosted, Ends, Begins
    <2> QED
      BY <2>1, <2>2, <2>3, <2>4 DEF Handle
  <1>7. ASSUME NEW m, Ended(Hosted(b, m), q, m, s) PROVE Ended(Hosted(b, m)', Tail(q), m, s)
    BY <1>2, <1>6, <1>7, EndedTail
  <1>8. Planned' = Planned
    BY <1>1 DEF Planned
  <1> QED
    BY <1>1, <1>2, <1>6, <1>7, <1>8 DEF OrphanInv

(* The backend crashes.                                                    *)
LEMMA OrphanCrash ==
    ASSUME TypeOK, NEW b, NEW s, Backends = {b}, OrphanInv(b, s),
           NEW rest \in Leftovers(queue[b]), BackendCrash(b, rest)
    PROVE  OrphanInv(b, s)'
  <1>1. queue[b] \in Seq(Msg) /\ MsgsOf(out) \in Seq(Msg)
    BY AheadType
  <1>2. /\ UNCHANGED <<spc, out, plans, schedCrashes, failures>>
        /\ queue'[b] = rest /\ deployed'[b] = {}
    BY DEF BackendCrash, schedVars, policyVars, TypeOK
  <1>3. Ahead(b)' = rest \o MsgsOf(out)
    BY <1>2 DEF Ahead
  <1>4. \A m : Hosted(b, m)' = FALSE /\ Planned' = Planned
    BY <1>2 DEF Hosted, Planned
  <1>5. ASSUME NEW m, Ended(Hosted(b, m), Ahead(b), m, s) PROVE Ended(FALSE, Ahead(b)', m, s)
    BY <1>1, <1>3, <1>5, EndedSuffix DEF Ahead
  <1> QED
    BY <1>2, <1>4, <1>5 DEF OrphanInv

(* A plan that is lost counts as a fault.                                  *)
LEMMA OrphanFault ==
    ASSUME NEW b \in Backends, NEW s, OrphanInv(b, s),
           HandlerRaises(b) \/ \E rest \in Leftovers(inbox) : SchedulerCrash(rest)
    PROVE  OrphanInv(b, s)'
  <1>1. CASE HandlerRaises(b)
    <2>1. UNCHANGED <<spc, out, deployed, schedCrashes>> /\ failures' = failures + 1
      BY <1>1 DEF HandlerRaises, schedVars
    <2>2. failures' \in Nat /\ failures' # 0
      BY <2>1 DEF OrphanInv
    <2> QED
      BY <2>1, <2>2 DEF OrphanInv
  <1>2. CASE \E rest \in Leftovers(inbox) : SchedulerCrash(rest)
    <2>1. out' = <<>> /\ UNCHANGED <<deployed, failures>> /\ schedCrashes' = schedCrashes + 1
      BY <1>2 DEF SchedulerCrash, backVars
    <2>2. schedCrashes' \in Nat /\ schedCrashes' # 0
      BY <2>1 DEF OrphanInv
    <2> QED
      BY <2>1, <2>2 DEF OrphanInv
  <1> QED
    BY <1>1, <1>2

(* The messages for data on a single backend: one, with all of it.         *)
LEMMA OneMessage ==
    ASSUME NEW b, NEW s, Backends = {b}, NEW data \in SUBSET (Backends \X Models \X Sessions),
           NEW type \in {"sched", "unsched"}, NEW ms, ms = MessagesFor(type, data)
    PROVE  /\ \A i \in DOMAIN ms : ms[i].msg.type = type
           /\ \A i \in DOMAIN ms : \A m : <<m, s>> \in ms[i].msg.plan <=> <<b, m, s>> \in data
           /\ data # {} => 1 \in DOMAIN ms
  <1> DEFINE S == {x[1] : x \in data}
             names == SetToSeq(S)
  <1>1. S \in SUBSET Backends /\ (data # {} => S # {})
    OBVIOUS
  <1>2. IsFiniteSet(S)
    BY <1>1, ControlAssumption, FS_Subset
  <1>3. ms = [i \in DOMAIN names |-> To(names[i], [type |-> type, plan |-> PlanOf(data, names[i])])]
    BY DEF MessagesFor
  <1>4. \A x \in data : x = <<x[1], x[2], x[3]>>
    OBVIOUS
  <1> HIDE DEF S
  <1>5. names \in Seq(S)
    BY <1>2, SetToSeqType
  <1>6. S # {} => names # <<>>
    BY <1>2, SetToSeqType
  <1> HIDE DEF names
  <1>7. \A i \in DOMAIN names : names[i] = b
    BY <1>1, <1>5
  <1>8. \A i \in DOMAIN ms : ms[i].msg = [type |-> type, plan |-> PlanOf(data, b)]
    BY <1>3, <1>7 DEF To
  <1>9. \A m : <<m, s>> \in PlanOf(data, b) <=> <<b, m, s>> \in data
    <2> TAKE m
    <2>1. ASSUME <<m, s>> \in PlanOf(data, b) PROVE <<b, m, s>> \in data
      <3>1. PICK x \in data : x[1] = b /\ <<m, s>> = <<x[2], x[3]>>
        BY <2>1 DEF PlanOf
      <3> QED
        BY <1>4, <3>1
    <2>2. ASSUME <<b, m, s>> \in data PROVE <<m, s>> \in PlanOf(data, b)
      <3> DEFINE x == <<b, m, s>>
      <3>1. x \in data /\ x[1] = b /\ x[2] = m /\ x[3] = s
        BY <2>2
      <3> HIDE DEF x
      <3> QED
        BY <3>1 DEF PlanOf
    <2> QED
      BY <2>1, <2>2
  <1>10. DOMAIN ms = DOMAIN names
    BY <1>3
  <1>11. names # <<>> => 1 \in DOMAIN names
    BY <1>5
  <1> QED
    BY <1>1, <1>6, <1>8, <1>9, <1>10, <1>11

(* A model of the only backend that schedule plans no longer is stopped    *)
(* there.                                                                  *)
LEMMA StoppedHere ==
    ASSUME Alone, TypeOK, PolicyInv, NEW b, NEW s, Backends = {b}, NEW m,
           NEW st, st = RunPasses(plans, lastReqs, lastBacks, requests, backends),
           <<b, m, s>> \in Planned, <<b, m, s>> \notin SchedulingData(st.plans)
    PROVE  <<b, m, s>> \in UnschedulingData(st.unsched)
  <1>1. /\ lastReqs \in Seq(Request) /\ lastBacks \in Seq(Backends) /\ requests \in Seq(Request)
        /\ backends \in Seq(Backends) /\ plans \in SolidDict(Keys(lastReqs), ToSet(lastBacks))
    BY DEF PolicyInv, TypeOK
  <1>2. st \in State(SolidDict(Keys(requests), ToSet(backends)), Exceptions)
    BY <1>1, RunPassesResult
  <1>3. Outcome(plans, st, ToSet(lastBacks), requests, ToSet(backends))
    BY <1>1, RunPassesResult
  <1>4. st.plans \in Dict(Keys(requests), ToSet(backends)) /\ st.unsched \in Unsched
    BY <1>2, StateFields DEF SolidDict
  <1>5. Keys(lastReqs) \in SUBSET Key /\ Keys(requests) \in SUBSET Key
    BY <1>1, RequestKeys
  <1>6. plans \in Dict(Keys(lastReqs), ToSet(lastBacks))
    BY <1>1 DEF SolidDict
  <1>7. PICK k \in Keys(lastReqs) : k[2] = s /\ Placed(plans, k, m, b)
    BY <1>5, <1>6, Announced DEF Planned
  <1>8. k \in Key /\ m \in ToSet(ModelsOf(k))
    BY <1>5, <1>6, <1>7, PlacedModel
  <1>9. ~ Placed(st.plans, k, m, b)
    <2> SUFFICES ASSUME Placed(st.plans, k, m, b) PROVE FALSE
      OBVIOUS
    <2>1. k \in Keys(requests)
      BY <1>4, PlacedModel
    <2> QED
      BY <1>4, <1>5, <1>7, <2>1, Announced
  <1>10. k \in DOMAIN st.unsched /\ st.unsched[k] # {}
    BY <1>3, <1>7, <1>9 DEF Outcome
  <1>11. PICK x \in st.unsched[k] : TRUE
    BY <1>10
  <1>12. x = <<x[1], x[2]>> /\ x[1] \in ToSet(ModelsOf(k))
    BY <1>4, <1>10, <1>11, StopAnnounced
  <1>13. x[2] = b
    <2>1. PICK D \in SUBSET Key : st.unsched \in [D -> SUBSET (Models \X Backends)]
      BY <1>4 DEF Unsched
    <2> QED
      BY <1>10, <1>11, <2>1
  <1>14. x[1] = m
    BY <1>8, <1>12, OneModel
  <1>15. <<m, b>> \in st.unsched[k]
    BY <1>11, <1>12, <1>13, <1>14
  <1> QED
    BY <1>4, <1>7, <1>10, <1>15, StopAnnounced

(* schedule_workloads begins nothing it does not plan, and ends what it    *)
(* plans no longer.                                                        *)
LEMMA OrphanSchedule ==
    ASSUME Alone, TypeOK, PolicyInv, TypeOK', NEW b, NEW s, Backends = {b}, OrphanInv(b, s), ScheduleWorkloads
    PROVE  OrphanInv(b, s)'
  <1>1. out = <<>> /\ spc' = "idle" /\ UNCHANGED <<queue, deployed, schedCrashes, failures>>
    BY DEF ScheduleWorkloads, OrphanInv, backVars, boundVars
  <1>2. PICK st : /\ st = RunPasses(plans, lastReqs, lastBacks, requests, backends)
                  /\ plans' = st.plans
                  /\ out' = MessagesFor("unsched", UnschedulingData(st.unsched))
                               \o MessagesFor("sched", SchedulingData(st.plans))
    BY DEF ScheduleWorkloads, PlansToSend
  <1> DEFINE U == MessagesFor("unsched", UnschedulingData(st.unsched))
             S == MessagesFor("sched", SchedulingData(st.plans))
             n == MsgsOf(out')
  <1>3. /\ SchedulingData(st.plans) \in SUBSET (Backends \X Models \X Sessions)
        /\ UnschedulingData(st.unsched) \in SUBSET (Backends \X Models \X Sessions)
    BY <1>2, ScheduleTypes
  <1>4. U \in Seq(Push) /\ S \in Seq(Push)
    BY <1>3, MessagesType
  <1>5. queue[b] \in Seq(Msg) /\ Ahead(b) = queue[b]
    BY <1>1, AheadType
  <1>6. n \in Seq(Msg)
    BY MsgsType DEF TypeOK, Push
  <1>7. Ahead(b)' = queue[b] \o n
    BY <1>1 DEF Ahead
  <1>8. /\ \A i \in DOMAIN U : U[i].msg.type = "unsched"
        /\ \A i \in DOMAIN U : \A m : <<m, s>> \in U[i].msg.plan <=> <<b, m, s>> \in UnschedulingData(st.unsched)
        /\ UnschedulingData(st.unsched) # {} => 1 \in DOMAIN U
    BY <1>3, OneMessage
  <1>9. /\ \A i \in DOMAIN S : S[i].msg.type = "sched"
        /\ \A i \in DOMAIN S : \A m : <<m, s>> \in S[i].msg.plan <=> <<b, m, s>> \in SchedulingData(st.plans)
    BY <1>3, OneMessage
  <1>10. out' = U \o S
    BY <1>2
  <1>11. DOMAIN n = DOMAIN out' /\ \A i \in DOMAIN out' : n[i] = out'[i].msg
    BY DEF MsgsOf
  <1> HIDE DEF U, S, n
  <1>12. /\ DOMAIN U = 1 .. Len(U) /\ DOMAIN S = 1 .. Len(S)
         /\ \A i \in DOMAIN U : i \in DOMAIN out' /\ out'[i] = U[i]
         /\ \A i \in DOMAIN out' : (i \in DOMAIN U /\ out'[i] = U[i]) \/ \E j \in DOMAIN S : out'[i] = S[j]
    <2>1. /\ Len(U) \in Nat /\ Len(S) \in Nat /\ DOMAIN U = 1 .. Len(U) /\ DOMAIN S = 1 .. Len(S)
          /\ DOMAIN out' = 1 .. (Len(U) + Len(S))
          /\ \A i \in 1 .. Len(U) : out'[i] = U[i]
          /\ \A i \in DOMAIN out' : i \in 1 .. Len(U) \/ (i - Len(U) \in 1 .. Len(S) /\ out'[i] = S[i - Len(U)])
      BY <1>4, <1>10, ConcatAt
    <2> QED
      BY <2>1
  <1>13. ASSUME NEW m \in Models, <<b, m, s>> \notin SchedulingData(st.plans),
                <<b, m, s>> \notin Planned => Ended(Hosted(b, m), Ahead(b), m, s)
         PROVE  Ended(Hosted(b, m), Ahead(b)', m, s)
    <2>1. \A i \in DOMAIN n : ~ Begins(n[i], m, s)
      <3> SUFFICES ASSUME NEW i \in DOMAIN n, Begins(n[i], m, s) PROVE FALSE
        OBVIOUS
      <3>1. i \in DOMAIN out' /\ out'[i].msg.type = "sched" /\ <<m, s>> \in out'[i].msg.plan
        BY <1>11 DEF Begins
      <3>2. CASE i \in DOMAIN U /\ out'[i] = U[i]
        BY <1>8, <3>1, <3>2
      <3>3. CASE \E j \in DOMAIN S : out'[i] = S[j]
        BY <1>9, <1>13, <3>1, <3>3
      <3> QED
        BY <1>12, <3>1, <3>2, <3>3
    <2>2. CASE <<b, m, s>> \notin Planned
      <3>1. Ended(Hosted(b, m), queue[b], m, s)
        BY <1>5, <1>13, <2>2
      <3> QED
        BY <1>5, <1>6, <1>7, <2>1, <3>1, EndedMore
    <2>3. CASE <<b, m, s>> \in Planned
      <3>1. <<b, m, s>> \in UnschedulingData(st.unsched)
        BY <1>2, <1>13, <2>3, StoppedHere
      <3>2. 1 \in DOMAIN U /\ U[1].msg.type = "unsched" /\ <<m, s>> \in U[1].msg.plan
        BY <1>8, <3>1
      <3>3. 1 \in DOMAIN n /\ Ends(n[1], m, s)
        BY <1>11, <1>12, <3>2 DEF Ends
      <3> QED
        BY <1>5, <1>6, <1>7, <2>1, <3>3, EndedMore
    <2> QED
      BY <2>2, <2>3
  <1>14. Planned' = SchedulingData(st.plans)
    BY <1>2 DEF Planned
  <1>15. \A m : Hosted(b, m)' = Hosted(b, m)
    BY <1>1 DEF Hosted
  <1> QED
    BY <1>1, <1>13, <1>14, <1>15 DEF OrphanInv

(* Every step keeps the invariant.                                         *)
LEMMA OrphanStep ==
    ASSUME Alone, TypeOK, PolicyInv, TypeOK', NEW b, NEW s, Backends = {b}, OneSession(s), OrphanInv(b, s), [Next]_vars
    PROVE  OrphanInv(b, s)'
  <1>1. CASE SchedulerNext
    <2>1. CASE PushOut
      BY <2>1, OrphanPush
    <2>2. CASE ProcessRegister
      <3>1. inbox # <<>> /\ Head(inbox).type = "register" /\ out = <<>> /\ spc = "idle"
        BY <2>2 DEF ProcessRegister, Receives, Ready
      <3>2. Head(inbox).name = b
        BY <3>1, HeadTypes
      <3>3. out' = <<To(b, Interval)>> /\ spc' \in {"idle", "names"}
        BY <2>2, <3>1, <3>2 DEF ProcessRegister
      <3>4. UNCHANGED <<queue, plans, deployed, schedCrashes, failures>>
        BY <2>2 DEF ProcessRegister, policyVars, backVars, boundVars
      <3> QED
        BY <3>1, <3>3, <3>4, OrphanReply
    <2>3. CASE ProcessHeartbeat
      <3>1. inbox # <<>> /\ Head(inbox).type = "heartbeat" /\ out = <<>> /\ spc = "idle"
        BY <2>3 DEF ProcessHeartbeat, Receives, Ready
      <3>2. Head(inbox).name = b
        BY <3>1, HeadTypes
      <3>3. UNCHANGED <<queue, plans, deployed, schedCrashes, failures, spc>>
        BY <2>3 DEF ProcessHeartbeat, policyVars, backVars, boundVars
      <3>4. out' = out \/ out' = <<To(b, Rereg)>>
        BY <2>3, <3>2 DEF ProcessHeartbeat, ReplyToUnknown
      <3>5. CASE out' = out
        BY <3>3, <3>5, OrphanSame
      <3>6. CASE out' = <<To(b, Rereg)>>
        BY <3>1, <3>3, <3>6, OrphanReply
      <3> QED
        BY <3>4, <3>5, <3>6
    <2>4. CASE UpdateNames \/ Expire \/ ProcessWorkloads \/ SchedulerRestart
      <3>1. UNCHANGED <<queue, out, plans, deployed, schedCrashes, failures>>
        BY <2>4 DEF UpdateNames, Expire, ProcessWorkloads, SchedulerRestart, policyVars, backVars, boundVars
      <3>2. spc' = spc \/ out = <<>>
        BY <2>4 DEF UpdateNames, Expire, ProcessWorkloads, SchedulerRestart, Ready, Receives
      <3> QED
        BY <3>1, <3>2, OrphanSame
    <2> QED
      BY <1>1, <2>1, <2>2, <2>3, <2>4 DEF SchedulerNext
  <1>2. CASE ScheduleWorkloads
    BY <1>2, OrphanSchedule
  <1>3. CASE \E rest \in Leftovers(inbox) : SchedulerCrash(rest)
    BY <1>3, OrphanFault
  <1>4. CASE \E reqs \in RequestLists : ReportWorkloads(reqs)
    <2>1. UNCHANGED <<queue, out, plans, deployed, schedCrashes, failures, spc>>
      BY <1>4 DEF ReportWorkloads, schedVars, policyVars, backVars, boundVars
    <2> QED
      BY <2>1, OrphanSame
  <1>5. CASE BecomesOverdue(b) \/ BackendStart(b) \/ Heartbeat(b)
    <2>1. UNCHANGED <<queue, out, plans, deployed, schedCrashes, failures, spc>>
      BY <1>5 DEF BecomesOverdue, BackendStart, Heartbeat, schedVars, policyVars, backVars, boundVars
    <2> QED
      BY <2>1, OrphanSame
  <1>6. CASE Handle(b)
    BY <1>6, OrphanHandle
  <1>7. CASE HandlerRaises(b)
    BY <1>7, OrphanFault
  <1>8. CASE \E rest \in Leftovers(queue[b]) : BackendCrash(b, rest)
    BY <1>8, OrphanCrash
  <1>9. CASE UNCHANGED vars
    <2>1. UNCHANGED <<queue, out, plans, deployed, schedCrashes, failures, spc>>
      BY <1>9 DEF vars, schedVars, policyVars, backVars, boundVars
    <2> QED
      BY <2>1, OrphanSame
  <1> QED
    BY <1>1, <1>2, <1>3, <1>4, <1>5, <1>6, <1>7, <1>8, <1>9 DEF Next

(* With one backend and one session, and a model of its own for each       *)
(* pipeline: when no message is under way, the backend runs nothing the    *)
(* plan of the scheduler does not place on it, for any number of           *)
(* pipelines, crashes of the backend, expiries and re-registrations, as    *)
(* long as no plan is lost.                                                *)
THEOREM NoOrphans ==
    ASSUME Alone, NEW b, NEW s, Backends = {b}, OneSession(s)
    PROVE  Spec => []NoOrphanedModels
  <1>1. Init => OrphanInv(b, s)
    <2> SUFFICES ASSUME Init PROVE OrphanInv(b, s)
      OBVIOUS
    <2>1. queue[b] = <<>> /\ MsgsOf(out) = <<>> /\ deployed[b] = {}
      BY DEF Init, MsgsOf
    <2>2. Ahead(b) = <<>>
      BY <2>1 DEF Ahead
    <2>3. \A m : Ended(Hosted(b, m), Ahead(b), m, s)
      BY <2>1, <2>2 DEF Ended, Hosted
    <2> QED
      BY <2>1, <2>3 DEF Init, OrphanInv
  <1>2. TypeOK /\ PolicyInv /\ OrphanInv(b, s) /\ TypeOK' /\ [Next]_vars => OrphanInv(b, s)'
    BY OrphanStep
  <1>3. TypeOK /\ OrphanInv(b, s) => NoOrphanedModels
    <2> SUFFICES ASSUME TypeOK, OrphanInv(b, s), Quiet, schedCrashes = 0, failures = 0,
                        NEW c \in ToSet(backends), NEW x \in Runs(c)
                 PROVE  x \in PlanOf(Planned, c)
      BY DEF NoOrphanedModels
    <2>1. c = b
      BY ListFinite DEF TypeOK
    <2>2. PICK r \in deployed[b] : \E y \in Sessions : x = <<r.model, y>>
      BY <2>1 DEF Runs
    <2>3. x = <<r.model, s>> /\ r.model \in Models
      <3>1. r \in Runtime
        BY <2>2 DEF TypeOK
      <3> QED
        BY <2>2, <3>1 DEF Runtime, OneSession
    <2>4. queue[b] = <<>> /\ out = <<>>
      BY DEF Quiet, Ready
    <2>5. DOMAIN Ahead(b) = {}
      BY <2>4, AheadType
    <2>6. ~ Ended(Hosted(b, r.model), Ahead(b), r.model, s)
      BY <2>2, <2>5 DEF Ended, Hosted
    <2>7. <<b, r.model, s>> \in Planned
      BY <2>3, <2>6 DEF OrphanInv
    <2> DEFINE y == <<b, r.model, s>>
    <2>8. y \in Planned /\ y[1] = b /\ y[2] = r.model /\ y[3] = s
      BY <2>7
    <2> HIDE DEF y
    <2> QED
      BY <2>1, <2>3, <2>8 DEF PlanOf
  <1> QED
    BY <1>1, <1>2, <1>3, TypesHold, PTL DEF Spec
=============================================================================
