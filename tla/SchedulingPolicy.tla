--------------------------- MODULE SchedulingPolicy ---------------------------
(***************************************************************************)
(* SimpleSchedulingPolicyv2 of                                             *)
(* nxs_libs/interface/scheduling_policy/simple_policy_v2.py called by the  *)
(* scheduler any number of times, with any requests and any backends: what *)
(* it keeps between the calls and what the backends are told to run.       *)
(***************************************************************************)
EXTENDS SchedulingPasses

CONSTANTS RequestLists,     \* the lists of requests schedule is called with
          BackendLists,     \* the lists of backends schedule is called with
          MaxRounds         \* bound on the calls of schedule

ASSUME CallAssumption ==
    /\ RequestLists \subseteq Seq(Request)
    /\ \A r \in RequestLists : IsInjective(KeySeq(r))
    /\ BackendLists \subseteq {l \in Seq(Backends) : IsInjective(l)}
    /\ MaxRounds \in Nat

VARIABLES
  plans,       \* scheduling_plans_dict
  lastReqs,    \* last_requests_dict
  lastBacks,   \* last_backends_dict
  sched,       \* <<backend, model, session>> the last plan schedules
  unsched,     \* <<backend, model, session>> the last plan unschedules
  raised,      \* exceptions schedule raised, which end the scheduler
  rounds       \* calls of schedule so far

vars == <<plans, lastReqs, lastBacks, sched, unsched, raised, rounds>>

-----------------------------------------------------------------------------
Init ==
    /\ plans = <<>>
    /\ lastReqs = <<>>
    /\ lastBacks = <<>>
    /\ sched = {}
    /\ unsched = {}
    /\ raised = {}
    /\ rounds = 0

(* One call.                                                               *)
Schedule(reqs, cur) ==
    /\ rounds < MaxRounds
    /\ raised = {}
    /\ rounds' = rounds + 1
    /\ \E st \in {RunPasses(plans, lastReqs, lastBacks, reqs, cur)} :
          /\ raised' = st.raised
          /\ plans' = st.plans
          /\ sched' = SchedulingData(st.plans)
          /\ unsched' = UnschedulingData(st.unsched)
    /\ lastReqs' = reqs
    /\ lastBacks' = cur

Next == \E reqs \in RequestLists, cur \in BackendLists : Schedule(reqs, cur)

Spec == Init /\ [][Next]_vars

-----------------------------------------------------------------------------
(* Properties.                                                             *)

Obj == [id : Nat, model : Models, owner : Key, backs : Seq(Backends)]

(* Every variable keeps its type.                                          *)
TypeOK ==
    /\ \A e \in ToSet(plans) : e.key \in Key /\ \A o \in ToSet(e.objs) : o \in Obj
    /\ lastReqs \in RequestLists \cup {<<>>}
    /\ lastBacks \in BackendLists \cup {<<>>}
    /\ sched \cup unsched \subseteq Backends \X Models \X Sessions
    /\ raised \subseteq {"KeyError", "AttributeError"}
    /\ rounds \in 0 .. MaxRounds

(* schedule never looks up a session, a model or a backend that is not in  *)
(* the dictionary it reads, whatever sessions and backends come and go     *)
(* between its calls, and although the passes before it drop sessions.     *)
NoKeyError == "KeyError" \notin raised

(* After a call every plan is for a session that is requested, and every   *)
(* backend of a plan is registered.                                        *)
PlansAreCurrent ==
    \A e \in ToSet(plans) :
        /\ \E r \in ToSet(lastReqs) : r.key = e.key
        /\ \A o \in ToSet(e.objs) : ToSet(o.backs) \subseteq ToSet(lastBacks)

(* After a call a model that is planned at all has the number of backends  *)
(* its demand needs; a CPU model has less only when every CPU backend runs *)
(* it (_scale_sessions).  It is stated of at most MAX_MODELS_PER_BACKEND   *)
(* models: with more, a backend too full for one model has room again once *)
(* a later model is scaled down.  Pipelines that share a model and lose a  *)
(* backend can end up with the same plan twice, of which                   *)
(* _remove_cmodel_from_backend cleans only the first: the property is      *)
(* checked of pipelines that share none.                                   *)
DemandMet ==
    \A m \in Models : Hosts(plans, m) # {} =>
        LET have == Cardinality(Hosts(plans, m))
        IN  /\ have <= Need(lastReqs, m)
            /\ have < Need(lastReqs, m) /\ IsFiniteSet(Models) /\ Cardinality(Models) <= MaxModelsPerBackend =>
                  \A b \in ToSet(lastBacks) \ Hosts(plans, m) :
                      ModelMem[m] > 0 \/ BackendMem[b] > 0

(* README.md, "NXS allows models to be shared and batched across multiple  *)
(* users/sessions": a session with a plan for a model on a backend is      *)
(* announced to that backend.                                              *)
SessionsAnnounced ==
    \A e \in ToSet(plans) : \A o \in ToSet(e.objs) : \A b \in ToSet(o.backs) :
        <<b, o.model, e.key[2]>> \in sched

(* A call that loses no backend tells no backend to stop a session it is   *)
(* to go on serving: the passes that drop sessions and backends and those  *)
(* that place them agree.                                                  *)
NoNeedlessStop ==
    [][ToSet(lastBacks) \subseteq ToSet(lastBacks') => unsched' \cap sched' = {}]_vars

(* What a backend is no longer planned to serve, it is told to stop:       *)
(* everything, if the session is not requested any more.  A session that   *)
(* is still requested and loses several backends in one call is told for   *)
(* one of them only, as _remove_cmodel_from_backend records no unscheduling*)
(* for a session that has some already.                                    *)
StopsAnnounced ==
    [][\A x \in sched \ sched' : x[1] \in ToSet(lastBacks') =>
          \/ x \in unsched'
          \/ /\ \E y \in unsched' : y[2] = x[2] /\ y[3] = x[3]
             /\ \E k \in Keys(lastReqs') : k[2] = x[3] /\ x[2] \in ToSet(ModelsOf(k))]_vars
=============================================================================
