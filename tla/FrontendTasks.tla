---------------------------- MODULE FrontendTasks ----------------------------
(***************************************************************************)
(* The tasks router of the frontend                                        *)
(* (main_processes/frontend/routers/api/v2/tasks/root.py): the endpoints,  *)
(* the coroutines that push a task and wait for its result, and the thread *)
(* that receives results, composed with InferenceService as the model that *)
(* serves the tasks.  The table of results is shared by the thread and the *)
(* event loop without a lock.                                              *)
(*                                                                         *)
(* Time is abstracted to what a test of a clock can find: a task has or    *)
(* has not waited longer than its infer_timeout, an entry of the result    *)
(* table is or is not older than three minutes.  What the key-value server *)
(* tells of backends and plans may change at any time, so that what a task *)
(* finds in the caches of it, however old, may be anything; the caches are *)
(* not part of the state.                                                  *)
(***************************************************************************)
EXTENDS Naturals, Sequences, FiniteSets, FiniteSetsExt

CONSTANTS Calls,           \* calls of the endpoints
          Tasks,           \* the inferences they start
          TasksOf,         \* the tasks of a call; several for a batch
          Endpoint,        \* the kind of endpoint of a call
          WaitForModels,   \* args.wait_for_models
          Registries,      \* the tasks whose pipelines may be in the database
          MaxFaults        \* bound on lost replies and repeated results

Kinds == {"file", "url", "fields", "tensors"}

ASSUME FrontendAssumption ==
    /\ TasksOf \in [Calls -> SUBSET Tasks]
    /\ \A c, d \in Calls : c # d => TasksOf[c] \cap TasksOf[d] = {}
    /\ Tasks = UNION {TasksOf[c] : c \in Calls}
    /\ Endpoint \in [Calls -> Kinds]
    /\ WaitForModels \in BOOLEAN
    /\ Registries \subseteq {UNION {TasksOf[c] : c \in C} : C \in SUBSET Calls}
    /\ MaxFaults \in Nat

VARIABLES
  pc,            \* of a task: "idle", "download", "enter", "push", "wait", "ended"
  outcome,       \* of an ended task: its status or the exception it raised
  response,      \* of a call
  tasks_data,    \* tasks whose demand was recorded, also those that the
                 \* monitor thread has reported since
  lost,          \* replies lost while a task was pushed
  registered,    \* the tasks whose pipeline is in the database
  topic,         \* results on their way to this frontend
  receiving,     \* the result the thread has stored and not yet stamped
  task_result_dict,                        \* the results stored, and
  task_result_t0_dict,                     \* the tasks with a stamp
  expired,       \* waiting tasks whose infer_timeout is over
  aged,          \* entries older than three minutes
  fate, rejected, degraded,                \* InferenceService
  faults

api == <<pc, outcome, response, tasks_data, lost, expired>>
table == <<receiving, task_result_dict, task_result_t0_dict, aged>>
delivery == <<topic, faults>>
service == <<fate, rejected, degraded>>
vars == <<api, registered, table, delivery, service>>

(* What the model that serves the tasks sees are messages.  A task is sent *)
(* once more for every reply that is lost while it is pushed, and the      *)
(* result of any of these messages is the result of the task.              *)
Requests == Tasks \X (1 .. MaxFaults + 1)
TaskOf(r) == r[1]

Service == INSTANCE InferenceService WITH Requests <- Requests

CallOf(t) == CHOOSE c \in Calls : t \in TasksOf[c]

Errors == {"unreachable", "no backend", "invalid pipeline", "not ready", "timeout"}
Outcomes == {"none", "completed", "failed"} \cup Errors
Responses == {"none", "results", "bad request"}

Init ==
    /\ pc = [t \in Tasks |-> "idle"]
    /\ outcome = [t \in Tasks |-> "none"]
    /\ response = [c \in Calls |-> "none"]
    /\ tasks_data = {}
    /\ lost = [t \in Tasks |-> 0]
    /\ registered \in Registries
    /\ topic = <<>>
    /\ receiving = {}
    /\ task_result_dict = {}
    /\ task_result_t0_dict = {}
    /\ expired = {}
    /\ aged = {}
    /\ Service!Init
    /\ faults = 0

-----------------------------------------------------------------------------
(* Endpoints.                                                              *)

(* A push blocks the thread of the event loop until Redis has answered.    *)
LoopFree == \A t \in Tasks : pc[t] # "push"

(* A call with a url or a path in a blob store downloads each input first. *)
Submit(c) ==
    /\ LoopFree
    /\ \A t \in TasksOf[c] : pc[t] = "idle"
    /\ LET first == IF Endpoint[c] = "url" THEN "download" ELSE "enter"
       IN  pc' = [t \in Tasks |-> IF t \in TasksOf[c] THEN first ELSE pc[t]]
    /\ UNCHANGED <<outcome, response, tasks_data, lost, expired, registered, table, delivery, service>>

Ends(t, result) ==
    /\ pc' = [pc EXCEPT ![t] = "ended"]
    /\ outcome' = [outcome EXCEPT ![t] = result]

Download(t) ==
    /\ LoopFree
    /\ pc[t] = "download"
    /\ \/ pc' = [pc EXCEPT ![t] = "enter"] /\ UNCHANGED outcome
       \/ Ends(t, "unreachable")
    /\ UNCHANGED <<response, tasks_data, lost, expired, registered, table, delivery, service>>

(* Exceptions become a result with status FAILED, one for every input, or, *)
(* from the endpoints that return the fields of a result, an HTTP error,   *)
(* which is also what a result of another type than expected becomes.      *)
(* Mutant: the result itself in place of the list of results.              *)
RawAnswers(c) ==
    IF Endpoint[c] = "fields" THEN {"bad request"} ELSE {outcome[t] : t \in TasksOf[c]}

Answers(c) ==
    IF Endpoint[c] # "fields" THEN {"results"}
    ELSE IF \A t \in TasksOf[c] : outcome[t] = "completed" THEN {"results", "bad request"}
    ELSE {"bad request"}

Return(c) ==
    /\ LoopFree
    /\ response[c] = "none"
    /\ \A t \in TasksOf[c] : pc[t] = "ended"
    /\ \E answer \in Answers(c) : response' = [response EXCEPT ![c] = answer]
    /\ UNCHANGED <<pc, outcome, tasks_data, lost, expired, registered, table, delivery, service>>

-----------------------------------------------------------------------------
(* _infer_single and _infer_tensors.  Up to the push nothing is awaited.   *)

ChecksPlan(t) == ~WaitForModels /\ Endpoint[CallOf(t)] # "tensors"

(* Why a task is turned away, given what it is told of backends and plans. *)
Blocked(t, backend_infos, scheduler_info) ==
    IF ~backend_infos THEN "no backend"
    ELSE IF t \notin registered THEN "invalid pipeline"
    ELSE IF ChecksPlan(t) /\ ~scheduler_info THEN "not ready"
    ELSE "none"

(* The demand is recorded before a task is turned away because its models  *)
(* are not ready, so that they will be.                                    *)
(* Mutant: it is recorded before the pipeline is known.                    *)
RecordsAny(error) == error # "no backend"
RecordsDemand(error) == error \in {"none", "not ready"}

Enter(t) ==
    /\ LoopFree
    /\ pc[t] = "enter"
    /\ \E backend_infos, scheduler_info \in BOOLEAN :
          LET error == Blocked(t, backend_infos, scheduler_info)
          IN  /\ tasks_data' = IF RecordsDemand(error) THEN tasks_data \cup {t} ELSE tasks_data
              /\ IF error = "none"
                 THEN pc' = [pc EXCEPT ![t] = "push"] /\ UNCHANGED outcome
                 ELSE Ends(t, error)
    /\ UNCHANGED <<response, lost, expired, registered, table, delivery, service>>

(* Mutant: a lost reply is an error of the task.                           *)
PushOnce(t) ==
    /\ pc[t] = "push"
    /\ fate' = [fate EXCEPT ![<<t, lost[t] + 1>>] = "queued"]
    /\ \/ pc' = [pc EXCEPT ![t] = "wait"] /\ UNCHANGED <<outcome, faults>>
       \/ faults < MaxFaults /\ faults' = faults + 1 /\ Ends(t, "unreachable")
    /\ UNCHANGED <<response, tasks_data, lost, expired, registered, table, topic, rejected, degraded>>

(* The retry loop of the pusher: a reply that is lost after Redis took the *)
(* message makes it send the task again.                                   *)
push_to_session(t) ==
    /\ pc[t] = "push"
    /\ fate' = [fate EXCEPT ![<<t, lost[t] + 1>>] = "queued"]
    /\ \/ pc' = [pc EXCEPT ![t] = "wait"] /\ UNCHANGED <<lost, faults>>
       \/ /\ faults < MaxFaults
          /\ faults' = faults + 1
          /\ lost' = [lost EXCEPT ![t] = @ + 1]
          /\ UNCHANGED pc
    /\ UNCHANGED <<outcome, response, tasks_data, expired, registered, table, topic, rejected, degraded>>

(* Mutant: the loop has no timeout.                                        *)
PollForever(t) ==
    /\ LoopFree
    /\ pc[t] = "wait"
    /\ \E r \in task_result_dict :
          /\ TaskOf(r) = t
          /\ task_result_dict' = task_result_dict \ {r}
          /\ Ends(t, fate[r])
    /\ UNCHANGED <<response, tasks_data, lost, expired, registered, receiving, task_result_t0_dict, aged,
                   delivery, service>>

(* One round of the loop that waits for the result.  The timeout is tested *)
(* first, whether or not the result is there.                              *)
Poll(t) ==
    /\ LoopFree
    /\ pc[t] = "wait"
    /\ IF t \in expired
       THEN Ends(t, "timeout") /\ UNCHANGED task_result_dict
       ELSE \E r \in task_result_dict :
               /\ TaskOf(r) = t
               /\ task_result_dict' = task_result_dict \ {r}
               /\ Ends(t, fate[r])
    /\ UNCHANGED <<response, tasks_data, lost, expired, registered, receiving, task_result_t0_dict, aged,
                   delivery, service>>

-----------------------------------------------------------------------------
(* task_result_recv_thread.                                                *)

Receive ==
    /\ receiving = {}
    /\ topic # <<>>
    /\ LET result == Head(topic)
       IN  /\ receiving' = {TaskOf(result)}
           /\ task_result_dict' =
                  {r \in task_result_dict : TaskOf(r) # TaskOf(result)} \cup {result}
    /\ topic' = Tail(topic)
    /\ UNCHANGED <<api, registered, task_result_t0_dict, aged, faults, service>>

(* Mutant: only results somebody waits for are stamped.                    *)
StampAwaited ==
    /\ receiving # {}
    /\ task_result_t0_dict' = task_result_t0_dict \cup {t \in receiving : pc[t] = "wait"}
    /\ aged' = aged \ receiving
    /\ receiving' = {}
    /\ UNCHANGED <<api, registered, task_result_dict, delivery, service>>

Stamp ==
    /\ receiving # {}
    /\ task_result_t0_dict' = task_result_t0_dict \cup receiving
    /\ aged' = aged \ receiving
    /\ receiving' = {}
    /\ UNCHANGED <<api, registered, task_result_dict, delivery, service>>

(* What a cleanup removes from the table, by the age of the stamps.        *)
(* Mutant: the stamps go, the results stay.                                *)
RemovedNone == {}
Removed == task_result_t0_dict \cap aged

Cleanup ==
    /\ receiving = {}
    /\ aged # {}
    /\ task_result_t0_dict' = task_result_t0_dict \ aged
    /\ task_result_dict' = {r \in task_result_dict : TaskOf(r) \notin Removed}
    /\ aged' = {}
    /\ UNCHANGED <<api, registered, receiving, delivery, service>>

-----------------------------------------------------------------------------
(* The model that serves the tasks pushes a result when it has one, with a *)
(* pusher whose retries may deliver the result again.  When it rejects a   *)
(* request, or is degraded, shows here when it fails or loses one.         *)

Serve(r) ==
    /\ \E f \in {"pending", "completed", "failed", "lost"} \ {fate[r]} :
          /\ degraded' = (degraded \/ f = "lost")
          /\ rejected' = IF f = "failed" THEN rejected \cup {r} ELSE rejected
          /\ f \in Service!MayBecome(r)
          /\ fate' = [fate EXCEPT ![r] = f]
          /\ topic' = IF f \in {"completed", "failed"} THEN Append(topic, r) ELSE topic
    /\ UNCHANGED <<api, registered, table, faults>>

Redeliver(r) ==
    /\ faults < MaxFaults
    /\ fate[r] \in {"completed", "failed"}
    /\ topic' = Append(topic, r)
    /\ faults' = faults + 1
    /\ UNCHANGED <<api, registered, table, service>>

-----------------------------------------------------------------------------
(* Time passes.  Unless a push blocks the event loop, a result is taken by *)
(* a task that waits for it long before it is three minutes old.           *)

Expire(t) ==
    /\ pc[t] = "wait"
    /\ t \notin expired
    /\ expired' = expired \cup {t}
    /\ UNCHANGED <<pc, outcome, response, tasks_data, lost, registered, table, delivery, service>>

HasResult(t) == \E r \in task_result_dict : TaskOf(r) = t

EntryAges(t) ==
    /\ t \in task_result_t0_dict \ aged
    /\ ~(LoopFree /\ pc[t] = "wait" /\ HasResult(t))
    /\ aged' = aged \cup {t}
    /\ UNCHANGED <<api, registered, receiving, task_result_dict, task_result_t0_dict, delivery, service>>

-----------------------------------------------------------------------------
Next ==
    \/ \E c \in Calls : Submit(c) \/ Return(c)
    \/ \E t \in Tasks : Download(t) \/ Enter(t) \/ push_to_session(t) \/ Poll(t)
    \/ Receive \/ Stamp \/ Cleanup
    \/ \E r \in Requests : Serve(r) \/ Redeliver(r)
    \/ \E t \in Tasks : Expire(t) \/ EntryAges(t)

Spec == Init /\ [][Next]_vars

(* The event loop and the thread keep running, Redis answers the pusher at *)
(* last, and clocks advance.  Nothing is assumed of the clients, of the    *)
(* scheduler, of the model that serves the tasks or of its queue.          *)
FairSpec ==
    /\ Spec
    /\ \A c \in Calls : WF_vars(Return(c))
    /\ \A t \in Tasks :
          /\ WF_vars(Download(t)) /\ WF_vars(Enter(t))
          /\ WF_vars(push_to_session(t)) /\ WF_vars(Poll(t))
          /\ WF_vars(Expire(t)) /\ WF_vars(EntryAges(t))
    /\ WF_vars(Receive) /\ WF_vars(Stamp) /\ WF_vars(Cleanup)

-----------------------------------------------------------------------------
(* Properties.                                                             *)

(* Types.  Only stored results carry a stamp that can age; one result is   *)
(* received at a time.                                                     *)
TypeOK ==
    /\ pc \in [Tasks -> {"idle", "download", "enter", "push", "wait", "ended"}]
    /\ outcome \in [Tasks -> Outcomes]
    /\ response \in [Calls -> Responses]
    /\ degraded \in BOOLEAN
    /\ registered \in Registries
    /\ UNION {tasks_data, expired, task_result_t0_dict} \subseteq Tasks
    /\ task_result_dict \cup rejected \subseteq Requests
    /\ lost \in [Tasks -> 0 .. MaxFaults]
    /\ aged \subseteq task_result_t0_dict
    /\ topic \in Seq(Requests)
    /\ receiving \in {{}} \cup {{t} : t \in Tasks}
    /\ fate \in [Requests -> Service!Fates]
    /\ faults \in 0 .. MaxFaults

(* The cleanup finds results by their stamps (root.py:302-312), which the  *)
(* thread writes in a second assignment and no task removes: a result in   *)
(* the table that has no stamp would stay for good.                        *)
ResultsStamped ==
    \A r \in task_result_dict : TaskOf(r) \in task_result_t0_dict \cup receiving

(* The demand of a task is recorded (root.py:1132) exactly when a backend  *)
(* is known and the pipeline exists: also for a task that is turned away   *)
(* because its models are not ready, never for a pipeline nobody knows.    *)
DemandRecorded ==
    \A t \in Tasks :
        t \in tasks_data <=>
            pc[t] \in {"push", "wait"} \/ outcome[t] \in {"completed", "failed", "timeout", "not ready"}

(* Every call of an endpoint returns, whatever becomes of its tasks: lost  *)
(* by the model, answered too late, turned away or never downloaded.       *)
CallsReturn ==
    \A c \in Calls : (\E t \in TasksOf[c] : pc[t] # "idle") ~> response[c] # "none"

(* A result nobody waits for any more, because it is late, delivered twice *)
(* or the result of a message that was sent again, leaves the table.       *)
ResultsGo == \A t \in Tasks : []<>~HasResult(t)

(* What a client is told a task has become is what the model made of one   *)
(* of the messages the task was sent in, and stays so when the pusher sent *)
(* it again or results come late or twice (root.py:1166-1181).  A task     *)
(* that was turned away ("Please try again later", root.py:1135) was never *)
(* sent and is never served afterwards: a client may repeat the call.      *)
StatusTrue ==
    \A t \in Tasks :
        /\ outcome[t] \in {"completed", "failed"} =>
               \E r \in Requests : TaskOf(r) = t /\ fate[r] = outcome[t]
        /\ outcome[t] \in Errors \ {"timeout"} =>
               \A r \in Requests : TaskOf(r) = t => fate[r] = "new"
=============================================================================
