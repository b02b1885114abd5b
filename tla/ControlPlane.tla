----------------------------- MODULE ControlPlane -----------------------------
(***************************************************************************)
(* The scheduler process (main_processes/scheduler/main.py with            *)
(* nxs_libs/object/backend_runtime.py), the control loop of the backends   *)
(* (main_processes/backend/main.py) and the Redis topics between them.     *)
(*                                                                         *)
(* The scheduler handles one message at a time.  Its pushes to backends    *)
(* and its writes to the state database are steps of their own, so that a  *)
(* crash can fall between any two of them.  The placement is computed by   *)
(* the passes of SchedulingPasses.  Time is not counted: a backend becomes *)
(* overdue when backend_timeout_secs have passed since its last heartbeat  *)
(* was handled.                                                            *)
(***************************************************************************)
EXTENDS SchedulingPasses

CONSTANTS RequestLists,     \* the workloads the workload manager may report
          MaxQueue,         \* bound: no new report while a queue is that long
          MaxDelays,        \* bound on live backends becoming overdue
          MaxFaults         \* bound on crashes of backends and the scheduler
                            \* and handlers of a backend that raise, together

(* With one model to a pipeline schedule raises nothing (the theorem       *)
(* SingleModelNeverRaises of SchedulingPolicy_proofs); an exception would  *)
(* end the scheduler as a crash does.                                      *)
ASSUME ControlAssumption ==
    /\ \A p \in Pipelines : Len(PipelineModels[p]) = 1
    /\ IsFiniteSet(Backends)
    /\ RequestLists \subseteq Seq(Request)
    /\ \A r \in RequestLists : IsInjective(KeySeq(r))
    /\ {MaxQueue, MaxDelays, MaxFaults} \subseteq Nat

VARIABLES
  sup,        \* the scheduler process runs
  spc,        \* what the handler does once its pushes are out
  out,        \* pushes of the current handler still to be made
  backends,   \* self.backends, in the order of the dictionary
  overdue,    \* backends whose last_alive_ts is older than the timeout
  plans, lastReqs, lastBacks,    \* the state of the scheduling policy
  requests,   \* self.last_requests
  dbNames,    \* value of the key "backends" in the state database
  dbEntry,    \* backends b whose key backend_<b> exists
  inbox,      \* topic of the scheduler
  bpc,        \* bpc[b]: "up", "stuck" (main thread died), "down"
  hb,         \* hb[b]: the heartbeat thread runs
  queue,      \* queue[b]: topic of backend b
  deployed,   \* deployed[b]: infer_runtime_map, see Runtime below
  delays, crashes, schedCrashes, failures

schedVars  == <<sup, spc, out, backends, overdue>>
policyVars == <<plans, lastReqs, lastBacks, requests>>
dbVars     == <<dbNames, dbEntry>>
backVars   == <<bpc, hb, deployed>>
boundVars  == <<delays, crashes, schedCrashes, failures>>
Faults == crashes + schedCrashes + failures
vars == <<schedVars, policyVars, dbVars, backVars, boundVars, inbox, queue>>

(* An entry of infer_runtime_map: the sessions of the plan that deployed   *)
(* the model, and those its input process serves now.                      *)
Runtime == [model : Models, plan : SUBSET Sessions, live : SUBSET Sessions]

Pair == Models \X Sessions
Msg == [type : {"interval", "rereg"}] \cup [type : {"sched", "unsched"}, plan : SUBSET Pair]
Report == [type : {"register", "heartbeat"}, name : Backends]
              \cup [type : {"workloads"}, reqs : RequestLists]

Interval == [type |-> "interval"]
Rereg == [type |-> "rereg"]
To(b, m) == [to |-> b, msg |-> m]

Init ==
    /\ sup = TRUE
    /\ spc = "idle"
    /\ out = <<>>
    /\ backends = <<>>
    /\ overdue = {}
    /\ plans = <<>>
    /\ lastReqs = <<>>
    /\ lastBacks = <<>>
    /\ requests = <<>>
    /\ dbNames = <<>>
    /\ dbEntry = {}
    /\ inbox = <<>>
    /\ bpc = [b \in Backends |-> "down"]
    /\ hb = [b \in Backends |-> FALSE]
    /\ queue = [b \in Backends |-> <<>>]
    /\ deployed = [b \in Backends |-> {}]
    /\ delays = 0
    /\ crashes = 0
    /\ schedCrashes = 0
    /\ failures = 0

-----------------------------------------------------------------------------
(* Scheduler.                                                              *)

Ready == sup /\ spc = "idle" /\ out = <<>>
Receives(t) == Ready /\ inbox # <<>> /\ Head(inbox).type = t
Known(b) == b \in ToSet(backends)

(* queue_pusher.push of the running handler.                               *)
PushOut ==
    /\ sup
    /\ out # <<>>
    /\ queue' = [queue EXCEPT ![Head(out).to] = Append(@, Head(out).msg)]
    /\ out' = Tail(out)
    /\ UNCHANGED <<sup, spc, backends, overdue, policyVars, dbVars, backVars,
                   boundVars, inbox>>

(* process_register_backend: a known backend only gets its interval again  *)
(* (deploy_models_on_single_backend does nothing), a new one is added to   *)
(* the dictionary and to the database before the name list is written.     *)
ProcessRegister ==
    /\ Receives("register")
    /\ inbox' = Tail(inbox)
    /\ LET b == Head(inbox).name
       IN  /\ out' = <<To(b, Interval)>>
           /\ IF Known(b)
              THEN UNCHANGED <<backends, overdue, dbEntry, spc>>
              ELSE /\ backends' = Append(backends, b)
                   /\ overdue' = overdue \ {b}
                   /\ dbEntry' = dbEntry \cup {b}
                   /\ spc' = "names"
    /\ UNCHANGED <<sup, policyVars, dbNames, backVars, boundVars, queue>>

(* _update_backend_name_list_in_db.                                        *)
StaleNames == dbNames                                  \* mutant: not written
NamesToStore == backends

UpdateNames ==
    /\ sup
    /\ out = <<>>
    /\ spc \in {"names", "expired"}
    /\ dbNames' = NamesToStore
    /\ spc' = IF spc = "expired" THEN "schedule" ELSE "idle"
    /\ UNCHANGED <<sup, out, backends, overdue, policyVars, dbEntry, backVars,
                   boundVars, inbox, queue>>

(* process_heartbeat_msg.                                                  *)
NoReply(b) == <<>>                                     \* mutant: ignored
ReplyToUnknown(b) == <<To(b, Rereg)>>

ProcessHeartbeat ==
    /\ Receives("heartbeat")
    /\ inbox' = Tail(inbox)
    /\ LET b == Head(inbox).name
       IN  IF Known(b)
           THEN /\ overdue' = overdue \ {b}
                /\ dbEntry' = dbEntry \cup {b}
                /\ UNCHANGED out
           ELSE /\ out' = ReplyToUnknown(b)
                /\ UNCHANGED <<overdue, dbEntry>>
    /\ UNCHANGED <<sup, spc, backends, policyVars, dbNames, backVars,
                   boundVars, queue>>

(* has_expired_backends, and the reschedule_workloads that follows it.     *)
Expire ==
    /\ Ready
    /\ overdue # {}
    /\ backends' = Only(backends, Backends \ overdue)
    /\ dbEntry' = dbEntry \ overdue
    /\ overdue' = {}
    /\ spc' = "expired"
    /\ UNCHANGED <<sup, out, policyVars, dbNames, backVars, boundVars, inbox,
                   queue>>

(* The plan of one backend as the set of its pairs of model and session.   *)
RawPlanOf(data, b) == {y \in data : y[1] = b}          \* mutant: no grouping
PlanOf(data, b) == {<<x[2], x[3]>> : x \in {y \in data : y[1] = b}}
Planned == SchedulingData(plans)

(* The plans schedule returned: the whole plan, not only what is new.      *)
OnlyNew(data) == data \ Planned                        \* mutant: differences
PlansToSend(data) == data

MessagesFor(type, data) ==
    LET names == SetToSeq({x[1] : x \in data})
    IN  [i \in DOMAIN names |-> To(names[i], [type |-> type, plan |-> PlanOf(data, names[i])])]

(* process_register_workloads.                                             *)
ProcessWorkloads ==
    /\ Receives("workloads")
    /\ inbox' = Tail(inbox)
    /\ requests' = Head(inbox).reqs
    /\ spc' = "schedule"
    /\ UNCHANGED <<sup, out, backends, overdue, plans, lastReqs, lastBacks,
                   dbVars, backVars, boundVars, queue>>

(* schedule_workloads, of new requests or, by reschedule_workloads, of the *)
(* last ones: unscheduling plans go out before scheduling plans.           *)
ScheduleWorkloads ==
    /\ sup
    /\ spc = "schedule"
    /\ spc' = "idle"
    /\ \E st \in {RunPasses(plans, lastReqs, lastBacks, requests, backends)} :
          /\ plans' = st.plans
          /\ out' = MessagesFor("unsched", UnschedulingData(st.unsched))
                        \o MessagesFor("sched", PlansToSend(SchedulingData(st.plans)))
    /\ lastReqs' = requests
    /\ lastBacks' = backends
    /\ UNCHANGED <<sup, backends, overdue, requests, dbVars, backVars,
                   boundVars, inbox, queue>>

(* A crash loses the dictionaries, the state of the policy and the         *)
(* messages already pulled.                                                *)
SchedulerCrash(rest) ==
    /\ sup
    /\ Faults < MaxFaults
    /\ schedCrashes' = schedCrashes + 1
    /\ sup' = FALSE
    /\ spc' = "idle"
    /\ out' = <<>>
    /\ backends' = <<>>
    /\ overdue' = {}
    /\ plans' = <<>>
    /\ lastReqs' = <<>>
    /\ lastBacks' = <<>>
    /\ requests' = <<>>
    /\ inbox' = rest
    /\ UNCHANGED <<dbVars, backVars, delays, crashes, failures, queue>>

(* restore_scheduler_states.                                               *)
SchedulerRestart ==
    /\ ~ sup
    /\ sup' = TRUE
    /\ backends' = Only(dbNames, dbEntry)
    /\ UNCHANGED <<spc, out, overdue, policyVars, dbVars, backVars, boundVars,
                   inbox, queue>>

-----------------------------------------------------------------------------
(* The environment of the scheduler.                                       *)

Silent(b) == bpc[b] = "down" \/ ~ hb[b]

(* No heartbeat of b was handled for backend_timeout_secs: b is silent, or *)
(* its heartbeats are late.                                                *)
BecomesOverdue(b) ==
    /\ sup
    /\ Known(b)
    /\ b \notin overdue
    /\ IF Silent(b) THEN UNCHANGED delays
       ELSE delays < MaxDelays /\ delays' = delays + 1
    /\ overdue' = overdue \cup {b}
    /\ UNCHANGED <<sup, spc, out, backends, policyVars, dbVars, backVars,
                   crashes, schedCrashes, failures, inbox, queue>>

Pending(t) == {i \in DOMAIN inbox : inbox[i].type = t}

(* The periodic report of the workload manager.                            *)
ReportWorkloads(reqs) ==
    /\ Pending("workloads") = {}
    /\ \A b \in ToSet(backends) : Len(queue[b]) < MaxQueue
    /\ inbox' = Append(inbox, [type |-> "workloads", reqs |-> reqs])
    /\ UNCHANGED <<schedVars, policyVars, dbVars, backVars, boundVars, queue>>

-----------------------------------------------------------------------------
(* Backends.                                                               *)

SendRegister(b) == inbox' = Append(inbox, [type |-> "register", name |-> b])

BackendStart(b) ==
    /\ bpc[b] = "down"
    /\ bpc' = [bpc EXCEPT ![b] = "up"]
    /\ SendRegister(b)
    /\ UNCHANGED <<schedVars, policyVars, dbVars, hb, deployed, boundVars, queue>>

(* The heartbeat thread.  It outlives a main thread that died.             *)
Heartbeat(b) ==
    /\ bpc[b] # "down"
    /\ hb[b]
    /\ \A i \in Pending("heartbeat") : inbox[i].name # b
    /\ Known(b) \/ Len(queue[b]) < MaxQueue
    /\ inbox' = Append(inbox, [type |-> "heartbeat", name |-> b])
    /\ UNCHANGED <<schedVars, policyVars, dbVars, backVars, boundVars, queue>>

Gets(b, t) == bpc[b] = "up" /\ queue[b] # <<>> /\ Head(queue[b]).type = t
Consume(b) == queue' = [queue EXCEPT ![b] = Tail(@)]

(* _process_change_heartbeat_interval.                                     *)
ChangeInterval(b) ==
    /\ Gets(b, "interval")
    /\ Consume(b)
    /\ hb' = [hb EXCEPT ![b] = TRUE]
    /\ UNCHANGED <<schedVars, policyVars, dbVars, bpc, deployed, boundVars,
                   inbox>>

(* remove_session_uuid for the sessions named; a model without sessions is *)
(* stopped and leaves infer_runtime_map (_process_unscheduling_plan).      *)
KeepSessions(rts, dropped) == rts                      \* mutant: not removed
WithoutSessions(rts, dropped) ==
    {r \in {[x EXCEPT !.live = @ \ dropped[x]] : x \in rts} : r.live # {}}

(* REQUEST_REREGISTER_BACKEND: register, then unschedule every model for   *)
(* the sessions of the plan that deployed it.                              *)
Reregister(b) ==
    /\ Gets(b, "rereg")
    /\ Consume(b)
    /\ SendRegister(b)
    /\ deployed' = [deployed EXCEPT ![b] = 
           WithoutSessions(@, [r \in @ |-> r.plan])]
    /\ UNCHANGED <<schedVars, policyVars, dbVars, bpc, hb, boundVars>>

(* UNSCHEDULE_PLAN.                                                        *)
UnschedulePlan(b) ==
    /\ Gets(b, "unsched")
    /\ Consume(b)
    /\ LET plan == Head(queue[b]).plan
       IN  deployed' = [deployed EXCEPT ![b] =
               WithoutSessions(@, [r \in @ |-> {s \in Sessions : <<r.model, s>> \in plan}])]
    /\ UNCHANGED <<schedVars, policyVars, dbVars, bpc, hb, boundVars, inbox>>

(* SCHEDULE_PLAN: a model that runs gets the new sessions, the others are  *)
(* deployed (_deploy_compository_model_plan).                              *)
Deployed(rts, plan) ==
    LET Of(m) == {s \in Sessions : <<m, s>> \in plan}
        new == {m \in Models : Of(m) # {} /\ \A r \in rts : r.model # m}
    IN  {[r EXCEPT !.live = @ \cup Of(r.model)] : r \in rts}
            \cup {[model |-> m, plan |-> Of(m), live |-> Of(m)] : m \in new}

SchedulePlan(b) ==
    /\ Gets(b, "sched")
    /\ Consume(b)
    /\ deployed' = [deployed EXCEPT ![b] = Deployed(@, Head(queue[b]).plan)]
    /\ UNCHANGED <<schedVars, policyVars, dbVars, bpc, hb, boundVars, inbox>>

(* A download, a process start or the removal of a model directory raises: *)
(* the main thread ends, the heartbeat thread goes on.  A backend that is  *)
(* to re-register has done so before it removes its models.  How far the   *)
(* handler came with them is left out: nothing reads deployed[b] any more. *)
HandlerRaises(b) ==
    /\ \/ (Gets(b, "sched") \/ Gets(b, "unsched")) /\ UNCHANGED inbox
       \/ /\ Gets(b, "rereg")
          /\ \E r \in deployed[b] : r.live \subseteq r.plan
          /\ SendRegister(b)
    /\ Faults < MaxFaults
    /\ failures' = failures + 1
    /\ Consume(b)
    /\ bpc' = [bpc EXCEPT ![b] = "stuck"]
    /\ UNCHANGED <<schedVars, policyVars, dbVars, hb, deployed, delays,
                   crashes, schedCrashes>>

(* The process ends and loses the messages already pulled.                 *)
BackendCrash(b, rest) ==
    /\ bpc[b] # "down"
    /\ Faults < MaxFaults
    /\ crashes' = crashes + 1
    /\ bpc' = [bpc EXCEPT ![b] = "down"]
    /\ hb' = [hb EXCEPT ![b] = FALSE]
    /\ deployed' = [deployed EXCEPT ![b] = {}]
    /\ queue' = [queue EXCEPT ![b] = rest]
    /\ UNCHANGED <<schedVars, policyVars, dbVars, delays, schedCrashes,
                   failures, inbox>>

-----------------------------------------------------------------------------
(* What a crash leaves in a topic: pull returns a list, so any number of   *)
(* messages may have been pulled and not handled yet.                      *)
Leftovers(q) == {SubSeq(q, n + 1, Len(q)) : n \in 0 .. Len(q)}

SchedulerNext ==
    \/ PushOut
    \/ ProcessRegister
    \/ UpdateNames
    \/ ProcessHeartbeat
    \/ Expire
    \/ ProcessWorkloads
    \/ SchedulerRestart

Handle(b) ==
    \/ ChangeInterval(b)
    \/ Reregister(b)
    \/ UnschedulePlan(b)
    \/ SchedulePlan(b)

Next ==
    \/ SchedulerNext
    \/ ScheduleWorkloads
    \/ \E rest \in Leftovers(inbox) : SchedulerCrash(rest)
    \/ \E reqs \in RequestLists : ReportWorkloads(reqs)
    \/ \E b \in Backends :
          \/ BecomesOverdue(b)
          \/ BackendStart(b)
          \/ Heartbeat(b)
          \/ Handle(b)
          \/ HandlerRaises(b)
          \/ \E rest \in Leftovers(queue[b]) : BackendCrash(b, rest)

Spec == Init /\ [][Next]_vars

(* Both loops go on, heartbeats and workload reports are periodic, and the *)
(* time of a silent backend runs out.  Crashes, delays and failures are    *)
(* never forced, and nothing restarts a backend.  The second conjunct says *)
(* that a call of the policy ends, which is weak fairness of               *)
(* ScheduleWorkloads: it is enabled as long as the call lasts.             *)
Fairness ==
    /\ WF_vars(SchedulerNext)
    /\ []<>(spc # "schedule")
    /\ WF_vars(\E reqs \in RequestLists : ReportWorkloads(reqs))
    /\ \A b \in Backends :
          /\ WF_vars(Handle(b))
          /\ WF_vars(Heartbeat(b))
          /\ WF_vars(Silent(b) /\ BecomesOverdue(b))

FairSpec == Spec /\ Fairness

-----------------------------------------------------------------------------
(* Properties.                                                             *)

(* Types.  A backend is registered once; plans name models and sessions.   *)
TypeOK ==
    /\ sup \in BOOLEAN
    /\ spc \in {"idle", "names", "expired", "schedule"}
    /\ out \in Seq([to : Backends, msg : Msg])
    /\ backends \in Seq(Backends) /\ IsInjective(backends)
    /\ overdue \subseteq Backends
    /\ dbNames \in Seq(Backends)
    /\ dbEntry \subseteq Backends
    /\ inbox \in Seq(Report)
    /\ bpc \in [Backends -> {"up", "stuck", "down"}]
    /\ hb \in [Backends -> BOOLEAN]
    /\ queue \in [Backends -> Seq(Msg)]
    /\ deployed \in [Backends -> SUBSET Runtime]

(* Between two messages every registered backend is in the name list and   *)
(* has its entry in the state database, so a scheduler that crashes there  *)
(* and restarts knows it again (add_new_backend, has_expired_backends,     *)
(* restore_scheduler_states).                                              *)
RegistryRecoverable ==
    sup /\ spc = "idle" /\ out = <<>> =>
        \A b \in ToSet(backends) : b \in ToSet(dbNames) /\ b \in dbEntry

Runs(b) == {<<r.model, s>> : r \in deployed[b], s \in Sessions}
               \cap UNION {{r.model} \X r.live : r \in deployed[b]}

Quiet == Ready /\ inbox = <<>> /\ \A b \in Backends : queue[b] = <<>>

(* When no message is under way, a registered backend runs nothing the     *)
(* scheduler's plan does not place on it, although the backend crashes, is *)
(* expired while alive and re-registers.  It holds of a single backend     *)
(* only: with more, _remove_expired_backends may address the unscheduling  *)
(* to another backend than the expired one; of a single session only: a    *)
(* backend that re-registers keeps the sessions that joined a model later; *)
(* and only as long as no plan is lost, with a scheduler that crashes or a *)
(* handler that raises.                                                    *)
NoOrphanedModels ==
    Quiet /\ schedCrashes = 0 /\ failures = 0 =>
        \A b \in ToSet(backends) : Runs(b) \subseteq PlanOf(Planned, b)

(* A backend whose main loop runs is registered in the end, although its   *)
(* heartbeats come late or it restarts (process_heartbeat_msg asks it to   *)
(* re-register).  A scheduler that crashes with the registration in hand   *)
(* loses it, and a backend that was never answered sends no heartbeats.    *)
EventuallyRegistered ==
    \A b \in Backends : bpc[b] = "up" ~> (Known(b) \/ bpc[b] # "up" \/ schedCrashes > 0)

(* A model that stays planned for a backend that stays up gets deployed:   *)
(* schedule_workloads sends the whole plan each time.                      *)
PlannedRuns ==
    \A b \in Backends : \A x \in Pair :
        <>[](bpc[b] = "up" /\ x \in PlanOf(Planned, b)) => <>[](x \in Runs(b))
=============================================================================
