------------------------ MODULE SchedulingPolicy_proofs ------------------------
(***************************************************************************)
(* Proofs about SimpleSchedulingPolicyv2 over any number of calls of       *)
(* schedule, for any pipelines, sessions, models, backends, requests and   *)
(* demands.  What a call makes of the plans is in SchedulingPasses_proofs. *)
(***************************************************************************)
EXTENDS SchedulingPolicy, SchedulingPasses_proofs

(* Between the calls the plans are for sessions that were requested, on    *)
(* backends that were registered; the first plan of a session for a model  *)
(* has a backend; and only pipelines of several models raise anything.     *)
PolicyInv ==
    /\ plans \in SolidDict(Keys(lastReqs), ToSet(lastBacks))
    /\ raised \subseteq Exceptions
    /\ sched = SchedulingData(plans)

(* The last lists of requests and backends are such lists.                 *)
LEMMA LastLists ==
    ASSUME lastReqs \in RequestLists \cup {<<>>}, lastBacks \in BackendLists \cup {<<>>}
    PROVE  lastReqs \in Seq(Request) /\ lastBacks \in Seq(Backends)
  <1>1. RequestLists \subseteq Seq(Request) /\ BackendLists \subseteq Seq(Backends)
    BY CallAssumption
  <1>2. <<>> \in Seq(Request) /\ <<>> \in Seq(Backends)
    OBVIOUS
  <1> QED
    BY <1>1, <1>2

(* Init establishes the invariant and the types.                           *)
LEMMA InitHolds ==
    ASSUME Init
    PROVE  PolicyInv /\ TypeOK /\ DemandMet
  <1>1. AllObjs(<<>>) = {} /\ ToSet(<<>>) = {} /\ Keys(<<>>) = {}
    BY NoPlans
  <1>2. <<>> \in SolidDict({}, {})
    BY <1>1, NoPlans
  <1>3. SchedulingData(<<>>) = {}
    BY <1>1 DEF SchedulingData
  <1>4. \A m : Hosts(<<>>, m) = {}
    BY <1>1 DEF Hosts
  <1>5. PolicyInv
    BY <1>1, <1>2, <1>3 DEF Init, PolicyInv
  <1>6. TypeOK
    BY <1>1, CallAssumption DEF Init, TypeOK
  <1>7. DemandMet
    BY <1>4 DEF Init, DemandMet
  <1> QED
    BY <1>5, <1>6, <1>7

(* What a call of schedule does, from the invariant.                       *)
Called(reqs, cur, st) ==
    /\ reqs \in RequestLists /\ cur \in BackendLists
    /\ reqs \in Seq(Request) /\ cur \in Seq(Backends)
    /\ st \in State(SolidDict(Keys(reqs), ToSet(cur)), Exceptions)
    /\ Alone => Outcome(plans, st, ToSet(lastBacks), reqs, ToSet(cur))
    /\ plans' = st.plans /\ raised' = st.raised
    /\ sched' = SchedulingData(st.plans) /\ unsched' = UnschedulingData(st.unsched)
    /\ lastReqs' = reqs /\ lastBacks' = cur
    /\ rounds < MaxRounds /\ rounds' = rounds + 1

(* Every step of Next is such a call.                                      *)
LEMMA NextCalled ==
    ASSUME TypeOK, PolicyInv, Next
    PROVE  \E reqs, cur, st : Called(reqs, cur, st)
  <1>1. PICK reqs \in RequestLists, cur \in BackendLists : Schedule(reqs, cur)
    BY DEF Next
  <1>2. reqs \in Seq(Request) /\ cur \in Seq(Backends)
    BY <1>1, CallAssumption
  <1>3. lastReqs \in Seq(Request) /\ lastBacks \in Seq(Backends)
    BY LastLists DEF TypeOK
  <1> DEFINE st == RunPasses(plans, lastReqs, lastBacks, reqs, cur)
  <1>4. /\ plans' = st.plans /\ raised' = st.raised
        /\ sched' = SchedulingData(st.plans) /\ unsched' = UnschedulingData(st.unsched)
        /\ lastReqs' = reqs /\ lastBacks' = cur
        /\ rounds < MaxRounds /\ rounds' = rounds + 1
    BY <1>1 DEF Schedule
  <1>5. plans \in SolidDict(Keys(lastReqs), ToSet(lastBacks)) /\ st = RunPasses(plans, lastReqs, lastBacks, reqs, cur)
    BY DEF PolicyInv
  <1> HIDE DEF st
  <1>6. /\ st \in State(SolidDict(Keys(reqs), ToSet(cur)), Exceptions)
        /\ Alone => Outcome(plans, st, ToSet(lastBacks), reqs, ToSet(cur))
    BY <1>2, <1>3, <1>5, RunPassesResult
  <1>7. Called(reqs, cur, st)
    BY <1>1, <1>2, <1>4, <1>6 DEF Called
  <1> QED
    BY <1>7

(* The parts of such a call.                                               *)
LEMMA CalledFields ==
    ASSUME NEW reqs, NEW cur, NEW st, Called(reqs, cur, st)
    PROVE  /\ Keys(reqs) \in SUBSET Key /\ ToSet(cur) \in SUBSET Backends
           /\ st.plans \in SolidDict(Keys(reqs), ToSet(cur)) /\ st.plans \in Dict(Keys(reqs), ToSet(cur))
           /\ st.unsched \in Unsched /\ st.raised \subseteq Exceptions
  <1>1. Keys(reqs) \in SUBSET Key
    BY RequestKeys DEF Called
  <1>2. ToSet(cur) \in SUBSET Backends
    BY ListFinite DEF Called
  <1>3. st \in State(SolidDict(Keys(reqs), ToSet(cur)), Exceptions)
    BY DEF Called
  <1>4. /\ st.plans \in SolidDict(Keys(reqs), ToSet(cur)) /\ st.unsched \in Unsched /\ st.raised \in SUBSET Exceptions
    BY <1>3, StateFields
  <1> QED
    BY <1>1, <1>2, <1>4 DEF SolidDict

(* The entries of a dictionary are well-typed.                             *)
LEMMA EntriesTyped ==
    ASSUME NEW K \in SUBSET Key, NEW B \in SUBSET Backends, NEW d \in Dict(K, B)
    PROVE  /\ \A e \in ToSet(d) : e.key \in Key /\ \A o \in ToSet(e.objs) : o \in Obj
           /\ \A e \in ToSet(d) : e.key \in K /\ \A o \in ToSet(e.objs) : ToSet(o.backs) \subseteq B
  <1> SUFFICES ASSUME NEW e \in ToSet(d)
               PROVE  e.key \in K /\ \A o \in ToSet(e.objs) : o \in Obj /\ ToSet(o.backs) \subseteq B
    OBVIOUS
  <1>1. PICK i \in DOMAIN d : e = d[i]
    BY DEF ToSet
  <1>2. e.key \in K /\ ToSet(e.objs) \subseteq AllObjs(d)
    BY <1>1, DictEntries
  <1>3. ASSUME NEW o \in ToSet(e.objs) PROVE o \in Obj /\ ToSet(o.backs) \subseteq B
    <2>1. o \in Plan(B)
      BY <1>2, DictObjs
    <2>2. o.backs \in Seq(B) /\ o.backs \in Seq(Backends)
      BY <2>1 DEF Plan
    <2>3. ToSet(o.backs) \subseteq B
      BY <2>2 DEF ToSet
    <2> QED
      BY <2>1, <2>2, <2>3 DEF Plan, Obj
  <1> QED
    BY <1>2, <1>3

(* Every call keeps the invariant and the types.                           *)
LEMMA StepKeeps ==
    ASSUME TypeOK, PolicyInv, [Next]_vars
    PROVE  TypeOK' /\ PolicyInv'
  <1>1. CASE Next
    <2>1. PICK reqs, cur, st : Called(reqs, cur, st)
      BY <1>1, NextCalled
    <2>2. /\ Keys(reqs) \in SUBSET Key /\ ToSet(cur) \in SUBSET Backends
          /\ st.plans \in SolidDict(Keys(reqs), ToSet(cur)) /\ st.plans \in Dict(Keys(reqs), ToSet(cur))
          /\ st.unsched \in Unsched /\ st.raised \subseteq Exceptions
      BY <2>1, CalledFields
    <2>3. PolicyInv'
      BY <2>1, <2>2 DEF PolicyInv, Called
    <2>4. \A e \in ToSet(st.plans) : e.key \in Key /\ \A o \in ToSet(e.objs) : o \in Obj
      BY <2>2, EntriesTyped
    <2>5. /\ SchedulingData(st.plans) \subseteq Backends \X Models \X Sessions
          /\ UnschedulingData(st.unsched) \subseteq Backends \X Models \X Sessions
      BY <2>2, SchedulingDataType, UnschedulingDataType
    <2>6. (sched \cup unsched \subseteq Backends \X Models \X Sessions)'
      BY <2>1, <2>5 DEF Called, TypeOK
    <2>7. rounds' \in 0 .. MaxRounds
      BY <2>1, CallAssumption DEF Called, TypeOK
    <2>8. raised' \subseteq {"KeyError", "AttributeError"}
      BY <2>1, <2>2 DEF Called, Exceptions
    <2>9. lastReqs' \in RequestLists \cup {<<>>} /\ lastBacks' \in BackendLists \cup {<<>>} /\ plans' = st.plans
      BY <2>1 DEF Called
    <2> QED
      BY <2>3, <2>4, <2>6, <2>7, <2>8, <2>9 DEF TypeOK
  <1>2. CASE UNCHANGED vars
    <2>1. TypeOK'
      BY <1>2 DEF TypeOK, vars
    <2>2. PolicyInv'
      BY <1>2 DEF PolicyInv, vars
    <2> QED
      BY <2>1, <2>2
  <1> QED
    BY <1>1, <1>2

(* The invariant holds after any number of calls.                          *)
THEOREM PolicyInvariant == Spec => [](TypeOK /\ PolicyInv)
  <1>1. Init => TypeOK /\ PolicyInv
    BY InitHolds
  <1>2. (TypeOK /\ PolicyInv) /\ [Next]_vars => (TypeOK /\ PolicyInv)'
    BY StepKeeps
  <1> QED
    BY <1>1, <1>2, PTL DEF Spec

(* Every variable keeps its type: schedule makes plans of known sessions,  *)
(* models and backends, whatever it is called with.                        *)
THEOREM TypeCorrect == Spec => []TypeOK
  BY PolicyInvariant, PTL

(* schedule never looks up what is not in a dictionary, whatever sessions  *)
(* and backends come and go between the calls.                             *)
THEOREM KeysAreThere == Spec => []NoKeyError
  <1>1. PolicyInv => NoKeyError
    BY DEF PolicyInv, NoKeyError, Exceptions
  <1> QED
    BY <1>1, PolicyInvariant, PTL

(* With pipelines of one model schedule raises nothing at all: the plan    *)
(* that is read as a backend plan needs a pipeline of several models.      *)
THEOREM SingleModelNeverRaises ==
    ASSUME \A p \in Pipelines : Len(PipelineModels[p]) <= 1
    PROVE  Spec => [](raised = {})
  <1>1. PolicyInv => raised = {}
    BY DEF PolicyInv, Exceptions
  <1> QED
    BY <1>1, PolicyInvariant, PTL

(* After every call the plans are for requested sessions on registered     *)
(* backends.                                                               *)
THEOREM CurrentPlans == Spec => []PlansAreCurrent
  <1>1. TypeOK /\ PolicyInv => PlansAreCurrent
    <2> SUFFICES ASSUME TypeOK, PolicyInv PROVE PlansAreCurrent
      OBVIOUS
    <2>1. Keys(lastReqs) \in SUBSET Key /\ ToSet(lastBacks) \in SUBSET Backends
      BY LastLists, RequestKeys, ListFinite DEF TypeOK
    <2>2. plans \in Dict(Keys(lastReqs), ToSet(lastBacks))
      BY DEF PolicyInv, SolidDict
    <2>3. \A e \in ToSet(plans) : e.key \in Keys(lastReqs) /\ \A o \in ToSet(e.objs) : ToSet(o.backs) \subseteq ToSet(lastBacks)
      BY <2>1, <2>2, EntriesTyped
    <2>4. \A k \in Keys(lastReqs) : \E r \in ToSet(lastReqs) : r.key = k
      BY DEF Keys, ToSet
    <2> QED
      BY <2>3, <2>4 DEF PlansAreCurrent
  <1> QED
    BY <1>1, PolicyInvariant, PTL

-----------------------------------------------------------------------------
(* Pipelines of one model each that share none (Alone): the sessions of a  *)
(* pipeline share its model, as the instances of policy_single do.         *)

(* README.md: a session that shares a model is announced to every backend  *)
(* of its plans, although _add_scheduling_plan and                         *)
(* _assign_backends_to_unscheduled_sessions make its plans.                *)
THEOREM SharersAnnounced ==
    ASSUME Alone
    PROVE  Spec => []SessionsAnnounced
  <1>1. TypeOK /\ PolicyInv => SessionsAnnounced
    <2> SUFFICES ASSUME TypeOK, PolicyInv,
                        NEW e \in ToSet(plans), NEW o \in ToSet(e.objs), NEW b \in ToSet(o.backs)
                 PROVE  <<b, o.model, e.key[2]>> \in sched
      BY DEF SessionsAnnounced
    <2>1. Keys(lastReqs) \in SUBSET Key
      BY LastLists, RequestKeys DEF TypeOK
    <2>2. plans \in Dict(Keys(lastReqs), ToSet(lastBacks)) /\ sched = SchedulingData(plans)
      BY DEF PolicyInv, SolidDict
    <2>3. Placed(plans, e.key, o.model, b)
      BY DEF Placed
    <2>4. e.key \in Keys(lastReqs)
      BY <2>2, <2>3, PlacedModel
    <2> QED
      BY <2>1, <2>2, <2>3, <2>4, Announced
  <1> QED
    BY <1>1, PolicyInvariant, PTL

(* After every call the demand of each planned model is met, or every CPU  *)
(* backend runs it: _scale_sessions, after all the passes before it.       *)
THEOREM DemandIsMet ==
    ASSUME Alone
    PROVE  Spec => []DemandMet
  <1>1. Init => DemandMet
    BY InitHolds
  <1>2. (TypeOK /\ PolicyInv) /\ DemandMet /\ [Next]_vars => DemandMet'
    <2> SUFFICES ASSUME TypeOK, PolicyInv, DemandMet, [Next]_vars PROVE DemandMet'
      OBVIOUS
    <2>1. CASE Next
      <3>1. PICK reqs, cur, st : Called(reqs, cur, st)
        BY <2>1, NextCalled
      <3>2. st.plans \in Dict(Keys(reqs), ToSet(cur))
        BY <3>1, CalledFields
      <3>3. ASSUME NEW m \in Models, Hosts(st.plans, m) # {}
            PROVE  Met(st.plans, m, reqs, ToSet(cur))
        <4>1. PICK b : b \in Hosts(st.plans, m)
          BY <3>3
        <4>2. PICK k : Placed(st.plans, k, m, b)
          BY <4>1, HostsPlaced
        <4>3. k \in Keys(reqs) /\ m \in ToSet(ModelsOf(k))
          BY <3>2, <4>2, PlacedModel
        <4>4. m \in UsedBy(Keys(reqs))
          BY <4>3 DEF UsedBy
        <4> QED
          BY <3>1, <4>4 DEF Called, Outcome
      <3>4. plans' = st.plans /\ lastReqs' = reqs /\ lastBacks' = cur
        BY <3>1 DEF Called
      <3> QED
        BY <3>3, <3>4 DEF DemandMet, Met, FewModels
    <2>2. CASE UNCHANGED vars
      BY <2>2 DEF DemandMet, vars
    <2> QED
      BY <2>1, <2>2
  <1> QED
    BY <1>1, <1>2, PolicyInvariant, PTL DEF Spec

(* A call that loses no backend stops no session on a backend it goes on   *)
(* to plan: _scale_sessions takes a model from a backend for good.         *)
THEOREM NothingStoppedNeedlessly ==
    ASSUME Alone
    PROVE  Spec => NoNeedlessStop
  <1>1. TypeOK /\ PolicyInv /\ [Next]_vars =>
            [ToSet(lastBacks) \subseteq ToSet(lastBacks') => unsched' \cap sched' = {}]_vars
    <2> SUFFICES ASSUME TypeOK, PolicyInv, Next, ToSet(lastBacks) \subseteq ToSet(lastBacks'),
                        NEW t \in unsched', t \in sched'
                 PROVE  FALSE
      OBVIOUS
    <2>1. PICK reqs, cur, st : Called(reqs, cur, st)
      BY NextCalled
    <2>2. /\ Keys(reqs) \in SUBSET Key /\ ToSet(cur) \in SUBSET Backends
          /\ st.plans \in Dict(Keys(reqs), ToSet(cur)) /\ st.unsched \in Unsched
      BY <2>1, CalledFields
    <2>3. t \in UnschedulingData(st.unsched) /\ t \in SchedulingData(st.plans) /\ lastBacks' = cur
      BY <2>1 DEF Called
    <2>4. PICK b, m, s : t = <<b, m, s>>
      <3>1. t \in Backends \X Models \X Sessions
        BY <2>2, <2>3, UnschedulingDataType
      <3> QED
        BY <3>1
    <2>5. PICK k \in DOMAIN st.unsched : k[2] = s /\ <<m, b>> \in st.unsched[k]
      BY <2>2, <2>3, <2>4, StopAnnounced
    <2>6. k \in Key /\ m \in ToSet(ModelsOf(k))
      BY <2>2, <2>5, StopAnnounced
    <2>7. PICK q \in Keys(reqs) : q[2] = s /\ Placed(st.plans, q, m, b)
      BY <2>2, <2>3, <2>4, Announced
    <2>8. m \in ToSet(ModelsOf(q)) /\ b \in Hosts(st.plans, m)
      BY <2>2, <2>7, PlacedModel
    <2>9. k = q
      BY <2>2, <2>5, <2>6, <2>7, <2>8, SameSession
    <2>10. \E n, c : st.unsched[k] = {<<n, c>>} /\ c \notin Hosts(st.plans, n)
      <3>1. Outcome(plans, st, ToSet(lastBacks), reqs, ToSet(cur)) /\ ToSet(lastBacks) \subseteq ToSet(cur)
        BY <2>1, <2>3 DEF Called
      <3>2. k \in Keys(reqs) \cap DOMAIN st.unsched
        BY <2>5, <2>7, <2>9
      <3> QED
        BY <3>1, <3>2 DEF Outcome
    <2> QED
      BY <2>5, <2>8, <2>10
  <1> QED
    BY <1>1, PolicyInvariant, PTL DEF Spec, NoNeedlessStop

(* What a backend is no longer planned to serve it is told to stop, or, if *)
(* the session is still requested, one of the session's backends is: the   *)
(* plans each pass of schedule takes are recorded.                         *)
THEOREM StopsAreAnnounced ==
    ASSUME Alone
    PROVE  Spec => StopsAnnounced
  <1> DEFINE A == \A x \in sched \ sched' : x[1] \in ToSet(lastBacks') =>
                     \/ x \in unsched'
                     \/ /\ \E y \in unsched' : y[2] = x[2] /\ y[3] = x[3]
                        /\ \E k \in Keys(lastReqs') : k[2] = x[3] /\ x[2] \in ToSet(ModelsOf(k))
  <1>1. TypeOK /\ PolicyInv /\ [Next]_vars => [A]_vars
    <2> SUFFICES ASSUME TypeOK, PolicyInv, Next, NEW x \in sched \ sched', x[1] \in ToSet(lastBacks'),
                        x \notin unsched'
                 PROVE  /\ \E y \in unsched' : y[2] = x[2] /\ y[3] = x[3]
                        /\ \E k \in Keys(lastReqs') : k[2] = x[3] /\ x[2] \in ToSet(ModelsOf(k))
      OBVIOUS
    <2>1. PICK reqs, cur, st : Called(reqs, cur, st)
      BY NextCalled
    <2>2. /\ Keys(reqs) \in SUBSET Key
          /\ st.plans \in Dict(Keys(reqs), ToSet(cur)) /\ st.unsched \in Unsched
      BY <2>1, CalledFields
    <2>3. /\ unsched' = UnschedulingData(st.unsched) /\ sched' = SchedulingData(st.plans)
          /\ lastBacks' = cur /\ lastReqs' = reqs
      BY <2>1 DEF Called
    <2>4. /\ Keys(lastReqs) \in SUBSET Key
          /\ plans \in Dict(Keys(lastReqs), ToSet(lastBacks)) /\ sched = SchedulingData(plans)
      <3>1. Keys(lastReqs) \in SUBSET Key
        BY LastLists, RequestKeys DEF TypeOK
      <3> QED
        BY <3>1 DEF PolicyInv, SolidDict
    <2>5. PICK b, m, s : x = <<b, m, s>>
      <3>1. x \in Backends \X Models \X Sessions
        BY DEF TypeOK
      <3> QED
        BY <3>1
    <2>6. PICK k \in Keys(lastReqs) : k[2] = s /\ Placed(plans, k, m, b)
      BY <2>4, <2>5, Announced
    <2>7. m \in ToSet(ModelsOf(k)) /\ k \in Key
      BY <2>4, <2>6, PlacedModel
    <2>8. ~ Placed(st.plans, k, m, b)
      <3>1. ASSUME Placed(st.plans, k, m, b) PROVE FALSE
        <4>1. k \in Keys(reqs)
          BY <2>2, <3>1, PlacedModel
        <4>2. <<b, m, s>> \in SchedulingData(st.plans)
          BY <2>2, <2>6, <3>1, <4>1, Announced
        <4> QED
          BY <2>3, <2>5, <4>2
      <3> QED
        BY <3>1
    <2>9. \/ k \in DOMAIN st.unsched /\ k \notin Keys(reqs) /\ <<m, b>> \in st.unsched[k]
          \/ k \in DOMAIN st.unsched /\ k \in Keys(reqs) /\ st.unsched[k] # {}
      <3>1. Outcome(plans, st, ToSet(lastBacks), reqs, ToSet(cur)) /\ b \in ToSet(cur)
        BY <2>1, <2>3, <2>5 DEF Called
      <3> QED
        BY <2>6, <2>8, <3>1 DEF Outcome
    <2>10. ~ (k \in DOMAIN st.unsched /\ <<m, b>> \in st.unsched[k])
      BY <2>2, <2>3, <2>5, <2>6, StopAnnounced
    <2>11. k \in DOMAIN st.unsched /\ k \in Keys(reqs) /\ st.unsched[k] # {}
      BY <2>9, <2>10
    <2>12. PICK z \in st.unsched[k] : TRUE
      BY <2>11
    <2>13. z = <<z[1], z[2]>> /\ z[1] \in ToSet(ModelsOf(k))
      BY <2>2, <2>11, StopAnnounced
    <2>14. z[1] = m
      BY <2>7, <2>13, OneModel
    <2>15. <<m, z[2]>> \in st.unsched[k]
      BY <2>12, <2>13, <2>14
    <2>16. <<z[2], m, s>> \in UnschedulingData(st.unsched)
      BY <2>2, <2>6, <2>11, <2>15, StopAnnounced
    <2>17. \E y \in unsched' : y[2] = x[2] /\ y[3] = x[3]
      <3> DEFINE y == <<z[2], m, s>>
      <3>1. y \in unsched' /\ y[2] = x[2] /\ y[3] = x[3]
        BY <2>3, <2>5, <2>16
      <3> HIDE DEF y
      <3> QED
        BY <3>1
    <2>18. k[2] = x[3] /\ x[2] \in ToSet(ModelsOf(k)) /\ k \in Keys(lastReqs')
      BY <2>3, <2>5, <2>6, <2>7, <2>11
    <2> QED
      BY <2>17, <2>18
  <1> QED
    BY <1>1, PolicyInvariant, PTL DEF Spec, StopsAnnounced
=============================================================================
