--------------------------- MODULE SchedulingPasses ---------------------------
(***************************************************************************)
(* SimpleSchedulingPolicyv2 of                                             *)
(* nxs_libs/interface/scheduling_policy/simple_policy_v2.py: the passes of *)
(* schedule() as functions, and the plans it makes of their result.        *)
(*                                                                         *)
(* A session key is <<pipeline, session>>, the prefixed session_uuid.  The *)
(* dictionary scheduling_plans_dict is ordered, and the passes depend on   *)
(* its order: it is a sequence of [key, objs].  A plan is a mutable Python *)
(* object that two sessions may share, so a plan carries an identity, and  *)
(* a change of a plan changes it in every session that holds it.  The      *)
(* identity of a new plan is the least one not in use.                     *)
(*                                                                         *)
(* The passes are functions of a record                                    *)
(*   plans   scheduling_plans_dict                                         *)
(*   unsched unscheduling_plans_dict, from key to a set of <<model,        *)
(*           backend>>                                                     *)
(*   mem     GPU memory left in the copies of the backend infos            *)
(*   raised  the exceptions raised: "KeyError", of a dictionary read with  *)
(*           a key it does not hold, and "AttributeError", of a plan read  *)
(*           in place of a backend plan                                    *)
(***************************************************************************)
EXTENDS Integers, Sequences, FiniteSets, SequencesExt

CONSTANTS Pipelines, Sessions, Models, Backends,
          PipelineModels,   \* from a pipeline to the sequence of its models
          ModelFps,         \* fps of a model's best profile
          ModelMem,         \* GPU memory of the best profile; 0: a CPU model
          BackendMem        \* gpu_total_mem of a backend; 0: no GPU

MaxModelsPerBackend == 5
NoBackend == "none"

Key == Pipelines \X Sessions
Request == [key : Key, fps : Nat]

ASSUME PolicyAssumption ==
    /\ PipelineModels \in [Pipelines -> Seq(Models)]
    /\ \A p \in Pipelines : IsInjective(PipelineModels[p])
    /\ ModelFps \in [Models -> Nat \ {0}]
    /\ ModelMem \in [Models -> Nat]
    /\ BackendMem \in [Backends -> Nat]
    /\ NoBackend \notin Backends

-----------------------------------------------------------------------------
(* Sequences.                                                              *)

(* The elements of s at the positions I, in their order: the n-th is the   *)
(* one with n of the positions up to it.                                   *)
At(s, I) ==
    LET Nth(n) == CHOOSE i \in I : Cardinality({j \in I : j <= i}) = n
    IN  [n \in 1 .. Cardinality(I) |-> s[Nth(n)]]

Only(s, S) == At(s, {i \in DOMAIN s : s[i] \in S})
Distinct(s) == At(s, {i \in DOMAIN s : \A j \in 1 .. (i - 1) : s[j] # s[i]})
Concat(ss) == FoldLeft(LAMBDA acc, s : acc \o s, <<>>, ss)

-----------------------------------------------------------------------------
(* Dictionaries and plan objects.                                          *)

ModelsOf(k) == PipelineModels[k[1]]
Keys(d) == {d[i].key : i \in DOMAIN d}
KeySeq(d) == [i \in DOMAIN d |-> d[i].key]
IndexOf(d, k) == CHOOSE i \in DOMAIN d : d[i].key = k
ObjsOf(d, k) == IF k \in Keys(d) THEN d[IndexOf(d, k)].objs ELSE <<>>
AllObjs(d) == UNION {ToSet(d[i].objs) : i \in DOMAIN d}
Hosts(d, m) == UNION {ToSet(o.backs) : o \in {x \in AllObjs(d) : x.model = m}}

SetObjs(d, k, objs) ==
    LET entry == [key |-> k, objs |-> objs]
    IN  IF k \in Keys(d) THEN [i \in DOMAIN d |-> IF d[i].key = k THEN entry ELSE d[i]]
                         ELSE Append(d, entry)

DropKeys(d, ks) == At(d, {i \in DOMAIN d : d[i].key \notin ks})

(* The assignment of the backend plans of the plan object with this id.    *)
SetBacks(d, id, backs) ==
    [i \in DOMAIN d |->
        [d[i] EXCEPT !.objs = [j \in DOMAIN @ |->
            IF @[j].id = id THEN [@[j] EXCEPT !.backs = backs] ELSE @[j]]]]

NewId(d) ==
    LET used == {o.id : o \in AllObjs(d)}
    IN  CHOOSE n \in 0 .. Cardinality(used) :
            n \notin used /\ \A q \in 0 .. (n - 1) : q \in used

CopiedObj(d, m, k, backs) ==             \* mutant: session of the plan copied from
    LET old == {o \in AllObjs(d) : o.model = m}
    IN  [id |-> NewId(d), model |-> m, backs |-> backs,
         owner |-> IF old = {} THEN k ELSE (CHOOSE o \in old : TRUE).owner]
NewObj(d, m, k, backs) == [id |-> NewId(d), model |-> m, owner |-> k, backs |-> backs]

(* The plans for model m of a session, and of all sessions.                *)
PlansFor(objs, m) == At(objs, {i \in DOMAIN objs : objs[i].model = m})
AllPlansFor(d, m) == Concat([i \in DOMAIN d |-> PlansFor(d[i].objs, m)])

(* Backends that run model m, in the order the plans name them.            *)
HostSeq(d, m) ==
    LET found == AllPlansFor(d, m)
    IN  Distinct(Concat([i \in DOMAIN found |-> found[i].backs]))

(* unscheduling_plans_dict[k] = S                                          *)
Put(u, k, S) == [x \in DOMAIN u \cup {k} |-> IF x = k THEN S ELSE u[x]]

Raise(st, exception, when) ==
    [st EXCEPT !.raised = IF when THEN @ \cup {exception} ELSE @]

-----------------------------------------------------------------------------
(* _remove_expired_backends.  A plan shared by several sessions is cleaned *)
(* when the first of them is visited, so only that one is unscheduled.     *)

(* The backend named by the unscheduling plan: the loop variable of the    *)
(* loop above, which is the last known backend, not the expired one.       *)
UnscheduledFrom(last) == last[Len(last)]

(* The plans of objs on the backends in B.                                 *)
LeftOn(objs, B) ==
    LET left == [j \in DOMAIN objs |-> [objs[j] EXCEPT !.backs = Only(@, B)]]
    IN  At(left, {j \in DOMAIN left : left[j].backs # <<>>})

RemoveExpiredBackends(st, last, cur) ==
    LET expired == ToSet(last) \ ToSet(cur)
        d == st.plans
        Hit(i, o) == /\ ToSet(o.backs) \cap expired # {}
                     /\ \A h \in 1 .. (i - 1) : o \notin ToSet(d[h].objs)
        HitKeys == {d[i].key : i \in {h \in DOMAIN d : \E o \in ToSet(d[h].objs) : Hit(h, o)}}
        Outs(k) == {<<o.model, UnscheduledFrom(last)>> :
                       o \in {x \in ToSet(ObjsOf(d, k)) : Hit(IndexOf(d, k), x)}}
        cleaned == [i \in DOMAIN d |->
                       [d[i] EXCEPT !.objs = LeftOn(@, Backends \ expired)]]
    IN  [st EXCEPT !.plans = At(cleaned, {i \in DOMAIN d : cleaned[i].objs # <<>>}),
                   !.unsched = [k \in HitKeys |-> Outs(k)]]

-----------------------------------------------------------------------------
(* _remove_cmodel_from_backend.                                            *)

ReturnResource(mem, m, b) == [mem EXCEPT ![b] = @ + ModelMem[m]]
TakeResource(mem, m, b) == [mem EXCEPT ![b] = @ - ModelMem[m]]

(* The first plan of a session for model m is the only one looked at.      *)
HasPlan(d, k, m) == PlansFor(ObjsOf(d, k), m) # <<>>
FirstPlan(d, k, m) == PlansFor(ObjsOf(d, k), m)[1]
Serves(d, k, m, b) == HasPlan(d, k, m) /\ b \in ToSet(FirstPlan(d, k, m).backs)

(* One session: the unscheduling is recorded only if the session has none  *)
(* yet; a plan left without backends takes all plans of the session with   *)
(* it (the plans to keep go to the wrong list, which stays reachable       *)
(* through the emptied plan: a session that shares it next reads a plan as *)
(* a backend plan).                                                        *)
RemoveFromSession(st, k, m, b, generate) ==
    LET d == st.plans
        o == FirstPlan(d, k, m)
        left == Only(o.backs, Backends \ {b})
        d2 == SetBacks(d, o.id, left)
        others == {x \in ToSet(ObjsOf(d, k)) : x.model # m}
        shared == \E e \in ToSet(d) : e.key # k /\ o \in ToSet(e.objs)
        st2 == [st EXCEPT
                  !.plans = IF left = <<>> THEN SetObjs(d2, k, <<>>) ELSE d2,
                  !.unsched = IF generate /\ Serves(d, k, m, b) /\ k \notin DOMAIN @
                              THEN Put(st.unsched, k, {<<m, b>>}) ELSE @]
    IN  IF HasPlan(d, k, m)
        THEN Raise(st2, "AttributeError", left = <<>> /\ others # {} /\ shared)
        ELSE st

RemoveFromSessions(st, ks, m, b, generate) ==
    FoldLeft(LAMBDA acc, k : RemoveFromSession(acc, k, m, b, generate), st, ks)

RemoveCmodelFromBackend(st, m, b, generate) ==
    LET found == \E k \in Keys(st.plans) : Serves(st.plans, k, m, b)
        acc == RemoveFromSessions(st, KeySeq(st.plans), m, b, generate)
        empty == {e.key : e \in {x \in ToSet(acc.plans) : x.objs = <<>>}}
    IN  [acc EXCEPT !.plans = DropKeys(acc.plans, empty),
                    !.mem = IF found THEN ReturnResource(acc.mem, m, b) ELSE @]

(* The removal of each <<model, backend>> of a sequence.                   *)
RemoveEach(st, pairs, generate) ==
    FoldLeft(LAMBDA acc, x : RemoveCmodelFromBackend(acc, x[1], x[2], generate), st, pairs)

-----------------------------------------------------------------------------
(* _remove_unused_sessions and _remove_session.  A session whose plans the *)
(* removal of an earlier one took would be looked up in vain.              *)

PairsOf(objs) ==
    Concat([j \in DOMAIN objs |->
               [i \in DOMAIN objs[j].backs |-> <<objs[j].model, objs[j].backs[i]>>]])

RemoveSession(st, k, known, cur) ==
    LET d == st.plans
        pairs == PairsOf(ObjsOf(d, k))
        Shared(b) == \E e \in ToSet(d) : e.key # k /\ \E o \in ToSet(e.objs) : b \in ToSet(o.backs)
        freed == At(pairs, {i \in DOMAIN pairs : ~ Shared(pairs[i][2])})
        old == IF k \in DOMAIN st.unsched THEN st.unsched[k] ELSE {}
        st2 == Raise([st EXCEPT !.unsched = Put(st.unsched, k, old \cup ToSet(pairs))], "KeyError",
                     k \notin Keys(d) \/ ~ (ToSet(freed) \subseteq known \X cur))
        st3 == RemoveEach(st2, freed, FALSE)
    IN  [st3 EXCEPT !.plans = DropKeys(st3.plans, {k})]

RemoveSessions(st, ks, known, cur) ==
    FoldLeft(LAMBDA acc, k : RemoveSession(acc, k, known, cur), st, ks)

EverySession(d, reqs) == KeySeq(d)                     \* mutant: no test
UnusedSessions(d, reqs) == Only(KeySeq(d), Keys(d) \ Keys(reqs))

KeepUnusedSessions(st, reqs, known, cur) == st         \* mutant: pass left out
RemoveUnusedSessions(st, reqs, known, cur) ==
    RemoveSessions(st, UnusedSessions(st.plans, reqs), known, cur)

-----------------------------------------------------------------------------
(* _remove_unused_pipelines.                                               *)

(* _compute_pipeline_uuids_to_add: pipelines with a model no plan deploys. *)
PipelinesToAdd(d, reqs) ==
    LET deployed == {o.model : o \in {x \in AllObjs(d) : x.backs # <<>>}}
        missing == At(KeySeq(reqs), {i \in DOMAIN reqs :
                                        ~ (ToSet(ModelsOf(reqs[i].key)) \subseteq deployed)})
    IN  Distinct([i \in DOMAIN missing |-> missing[i][1]])

(* _compute_pipeline_uuids_to_remove.                                      *)
PipelinesToRemove(last, reqs) == {k[1] : k \in Keys(last)} \ {k[1] : k \in Keys(reqs)}

UsersOf(reqs, m) == {r \in ToSet(reqs) : m \in ToSet(ModelsOf(r.key))}

(* The models whose reference count drops to zero: every session that used *)
(* them belongs to a pipeline that left, and still has plans.              *)
ModelsToRemove(d, last, reqs) ==
    LET gone == PipelinesToRemove(last, reqs)
        added == ToSet(PipelinesToAdd(d, reqs))
        Dropped(m) == {r \in UsersOf(last, m) : r.key \in Keys(d) /\ r.key[1] \in gone}
        New(m) == {r \in UsersOf(reqs, m) : r.key[1] \in added}
    IN  {m \in Models : Dropped(m) # {} /\ Dropped(m) = UsersOf(last, m) /\ New(m) = {}}

(* One model.  A session that lost all its plans to an earlier model of    *)
(* the loop is looked up again for the next one.                           *)
Undeploy(st, m, d, cur) ==
    LET users == {e.key : e \in {x \in ToSet(d) : \E o \in ToSet(x.objs) : o.model = m}}
        hosts == HostSeq(st.plans, m)
        st2 == Raise(st, "KeyError", ~ (users \subseteq Keys(st.plans)) \/ ~ (ToSet(hosts) \subseteq cur))
    IN  RemoveEach(st2, [i \in DOMAIN hosts |-> <<m, hosts[i]>>], TRUE)

UndeployEach(st, ms, d, cur) == FoldLeft(LAMBDA acc, m : Undeploy(acc, m, d, cur), st, ms)

RemoveUnusedPipelines(st, last, reqs, cur) ==
    LET d == st.plans
        used == Concat([i \in DOMAIN d |-> [j \in DOMAIN d[i].objs |-> d[i].objs[j].model]])
    IN  UndeployEach(st, Only(Distinct(used), ModelsToRemove(d, last, reqs)), d, cur)

-----------------------------------------------------------------------------
(* _find_potential_backends, _find_best_backend and _deploy_cmodel.        *)

PotentialBackends(st, m, cur) ==
    At(cur, {i \in DOMAIN cur : /\ cur[i] \notin Hosts(st.plans, m)
                                /\ (BackendMem[cur[i]] > 0) = (ModelMem[m] > 0)
                                /\ ModelMem[m] > 0 => st.mem[cur[i]] > ModelMem[m]})

RunningModels(d, b) == {o.model : o \in {x \in AllObjs(d) : b \in ToSet(x.backs)}}

(* The first backend with the most GPU memory left, or with the fewest     *)
(* models, which must be less than the limit.                              *)
BestBackend(st, m, potential) ==
    LET Load(b) == IF ModelMem[m] > 0 THEN - st.mem[b] ELSE Cardinality(RunningModels(st.plans, b))
        load == [i \in DOMAIN potential |-> Load(potential[i])]
        fit == {i \in DOMAIN load : ModelMem[m] > 0 \/ load[i] < MaxModelsPerBackend}
        best == {i \in fit : \A j \in fit : load[i] < load[j] \/ (load[i] = load[j] /\ i <= j)}
    IN  IF best = {} THEN NoBackend ELSE potential[CHOOSE i \in best : TRUE]

(* _add_scheduling_plan.                                                   *)
AddSchedulingPlan(d, k, m, b) ==
    IF HasPlan(d, k, m)
    THEN SetBacks(d, FirstPlan(d, k, m).id, Append(FirstPlan(d, k, m).backs, b))
    ELSE SetObjs(d, k, Append(ObjsOf(d, k), NewObj(d, m, k, <<b>>)))

AddSchedulingPlans(d, ks, m, b) ==
    FoldLeft(LAMBDA acc, k : AddSchedulingPlan(acc, k, m, b), d, ks)

ChosenBackend(st, m, cur) == BestBackend(st, m, PotentialBackends(st, m, cur))

(* The caller has chosen b with ChosenBackend.                             *)
DeployCmodel(st, m, b, ks) ==
    [st EXCEPT !.mem = TakeResource(st.mem, m, b),
               !.plans = AddSchedulingPlans(st.plans, ks, m, b)]

-----------------------------------------------------------------------------
(* _deploy_new_pipelines: models some plan already names are shared, the   *)
(* others are deployed; one that cannot be deployed undoes the others.     *)

(* One model that no plan names.                                           *)
PlaceModel(acc, m, ks, cur) ==
    LET b == ChosenBackend(acc.st, m, cur)
    IN  IF ~ acc.ok THEN acc
        ELSE IF b = NoBackend THEN [acc EXCEPT !.ok = FALSE]
        ELSE [acc EXCEPT !.st = DeployCmodel(acc.st, m, b, ks), !.new = Append(@, <<m, b>>)]

PlaceModels(st, ms, ks, cur) ==
    FoldLeft(LAMBDA acc, m : PlaceModel(acc, m, ks, cur),
             [st |-> st, ok |-> TRUE, new |-> <<>>], ms)

(* Every session of ks gets the plans, which are not copied.               *)
ShareWith(d, k, objs) == IF objs = <<>> THEN d ELSE SetObjs(d, k, ObjsOf(d, k) \o objs)
SharePlans(d, ks, objs) == FoldLeft(LAMBDA acc, k : ShareWith(acc, k, objs), d, ks)

DeployPipeline(st, p, reqs, cur) ==
    LET ks == At(KeySeq(reqs), {i \in DOMAIN reqs : reqs[i].key[1] = p})
        named == {o.model : o \in AllObjs(st.plans)}
        existing == Only(PipelineModels[p], named)
        res == PlaceModels(st, Only(PipelineModels[p], Models \ named), ks, cur)
        shared == Concat([i \in DOMAIN existing |-> AllPlansFor(res.st.plans, existing[i])])
    IN  IF res.ok THEN [res.st EXCEPT !.plans = SharePlans(res.st.plans, ks, shared)]
                  ELSE RemoveEach(res.st, res.new, FALSE)

DeployPipelines(st, ps, reqs, cur) ==
    FoldLeft(LAMBDA acc, p : DeployPipeline(acc, p, reqs, cur), st, ps)
DeployNewPipelines(st, reqs, cur) ==
    DeployPipelines(st, PipelinesToAdd(st.plans, reqs), reqs, cur)

-----------------------------------------------------------------------------
(* _assign_backends_to_unscheduled_sessions: a session without plans gets  *)
(* plans of its own on the backends that run all of its models.            *)
AssignModel(d, k, m, hosts) ==
    SetObjs(d, k, Append(ObjsOf(d, k), NewObj(d, m, k, hosts)))

AssignModels(d, k, ms, old) ==
    FoldLeft(LAMBDA acc, m : AssignModel(acc, k, m, HostSeq(old, m)), d, ms)

AssignSession(st, k) ==
    LET d == st.plans
    IN  IF k \in Keys(d) \/ ~ (ToSet(ModelsOf(k)) \subseteq {o.model : o \in AllObjs(d)}) THEN st
        ELSE [st EXCEPT !.plans = AssignModels(d, k, ModelsOf(k), d)]

AssignBackends(st, reqs) ==
    FoldLeft(LAMBDA acc, r : AssignSession(acc, r.key), st, reqs)

-----------------------------------------------------------------------------
(* _scale_sessions: as many backends per model as the demand needs.        *)

CeilDiv(a, b) == (a + b - 1) \div b
AddFps(fps, r, m) == IF m \in ToSet(ModelsOf(r.key)) THEN fps + r.fps ELSE fps
RequestedFps(reqs, m) == FoldLeft(LAMBDA acc, r : AddFps(acc, r, m), 0, reqs)

Need(reqs, m) == CeilDiv(RequestedFps(reqs, m), ModelFps[m])

ScaleDownSilently(st, m, cur) ==         \* mutant: no unscheduling plans
    LET hosts == HostSeq(st.plans, m)
    IN  IF hosts = <<>> THEN st ELSE RemoveCmodelFromBackend(st, m, hosts[1], FALSE)
ScaleDown(st, m, cur) ==
    LET hosts == HostSeq(st.plans, m)
        st2 == Raise(st, "KeyError", ~ (ToSet(hosts) \subseteq cur))
    IN  IF hosts = <<>> THEN st ELSE RemoveCmodelFromBackend(st2, m, hosts[1], TRUE)

ScaleUp(st, m, ks, cur) ==
    LET b == ChosenBackend(st, m, cur)
    IN  IF b = NoBackend THEN st ELSE DeployCmodel(st, m, b, ks)

MissingButOne(need, have) == need - have - 1           \* mutant: off by one
Missing(need, have) == need - have

Times(n) == [i \in 1 .. n |-> i]
ScaleDownBy(st, m, n, cur) == FoldLeft(LAMBDA acc, i : ScaleDown(acc, m, cur), st, Times(n))
ScaleUpBy(st, m, n, ks, cur) == FoldLeft(LAMBDA acc, i : ScaleUp(acc, m, ks, cur), st, Times(n))

(* Sessions and numbers of backends are those before the pass.             *)
ScaleModel(st, m, before, reqs, cur) ==
    LET users == {i \in DOMAIN before : \E o \in ToSet(before[i].objs) : o.model = m}
        have == Cardinality(Hosts(before, m))
        need == Need(reqs, m)
    IN  IF users = {} THEN st
        ELSE IF have > need THEN ScaleDownBy(st, m, have - need, ToSet(cur))
        ELSE ScaleUpBy(st, m, Missing(need, have), At(KeySeq(before), users), cur)

ScaleModels(st, ms, before, reqs, cur) ==
    FoldLeft(LAMBDA acc, m : ScaleModel(acc, m, before, reqs, cur), st, ms)

ScaleSessions(st, reqs, known, cur) ==
    LET ms == Distinct(Concat([i \in DOMAIN reqs |-> ModelsOf(reqs[i].key)]))
        st2 == Raise(st, "KeyError", \E o \in AllObjs(st.plans) : o.model \notin known)
    IN  ScaleModels(st2, ms, st.plans, reqs, cur)

-----------------------------------------------------------------------------
(* schedule: the passes in their order, then the plans per backend.  The   *)
(* plan sent out names the session the plan object was made for, without   *)
(* its pipeline.                                                           *)

RunPasses(d, last, lastB, reqs, cur) ==
    LET known == UNION {ToSet(ModelsOf(k)) : k \in Keys(last) \cup Keys(reqs)}
        st0 == [plans |-> d, unsched |-> <<>>, mem |-> BackendMem, raised |-> {}]
        st1 == RemoveExpiredBackends(st0, lastB, cur)
        st2 == RemoveUnusedSessions(st1, reqs, known, ToSet(cur))
        st3 == RemoveUnusedPipelines(st2, last, reqs, ToSet(cur))
        st4 == DeployNewPipelines(st3, reqs, cur)
        st5 == AssignBackends(st4, reqs)
    IN  ScaleSessions(st5, reqs, known, cur)

SchedulingData(d) ==
    UNION {{<<b, o.model, o.owner[2]>> : b \in ToSet(o.backs)} : o \in AllObjs(d)}

UnschedulingSwapped(u) ==                \* mutant: arguments swapped
    UNION {{<<x[1], x[2], k[2]>> : x \in u[k]} : k \in DOMAIN u}
UnschedulingData(u) ==
    UNION {{<<x[2], x[1], k[2]>> : x \in u[k]} : k \in DOMAIN u}
=============================================================================
