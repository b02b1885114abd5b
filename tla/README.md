# A TLA+ model of NXS

NXS runs inference models for many users: HTTP frontends accept requests, Redis
topics carry them, backends run models as chains of processes, a workload
manager measures the demand and a scheduler places models on backends. An
application on top of it counts vehicles in video streams. This directory models
the parts whose correctness depends on interleavings, failures and long
histories of calls, checks small instances with TLC and proves the safety
properties with TLAPS, for every value of the constants.

## 1. Inventory

| Component | State | Operations | Hard behaviour | What makes it correct |
|---|---|---|---|---|
| Redis queue (`nxs_libs/queue/nxs_redis_queue.py`) | partition lists and partition count in Redis; per pusher a cached count and a round robin index; per puller a shared buffer, reader threads with alive flags, a monitor thread | push, create_topic, pull, pull_buffered_and_close, set_buf_size, set_num_partitions | threads sharing lists without locks, stale caches, Redis calls that raise after taking effect | nothing acknowledged is dropped, FIFO per partition, close drains and returns |
| Scheduling policy (`nxs_libs/interface/scheduling_policy/simple_policy_v2.py`) | plans per session (objects shared between sessions), requests and backends of the last call | schedule: six passes | order of dictionaries, aliasing, partial placement, long histories | plans follow demand, backends are told everything, no exception |
| Scheduler process (`main_processes/scheduler/main.py`, `nxs_libs/object/backend_runtime.py`) | registered backends, last requests; copy of the registry in the state database | register, heartbeat, workloads, expiry, restore | crash between two writes, false expiry, restart | registry recoverable, live backends registered, plans carried out |
| Backend control loop (`main_processes/backend/main.py`) | running models with their sessions, heartbeat thread | register, re-register, schedule, unschedule, change interval | crash, handler that raises, message lost with the process | runs what the plan says |
| Backend pipeline processes (`main_processes/backend/*_process.py`) and their interfaces (`nxs_libs/interface/backend/`) | a chain of processes per model: queues with feeder threads, stop flags, batches, sessions served | input, preprocessing, compute, custom model, output loops; add and remove a session; stop | stop flags overtaking data, several readers of a queue, functions that raise, processes that an exception ends, a kill after three seconds | every request is answered once, with the status it earned; a stop reaches every process |
| Frontend tasks (`main_processes/frontend/routers/api/v2/tasks/root.py`) | table of results and their stamps, caches of what the scheduler and the backend monitor publish, demand not yet counted | infer endpoints, monitoring endpoints, reply thread, monitor thread | a late answer racing the timeout, a table shared without a lock, requests sent and results delivered twice | every call returns with what became of its tasks, no result stays, refused calls count as demand |
| Workload manager (`nxs_libs/interface/workload_manager/`) | reports per workload with their times, pinned workloads | process_msgs, send_workloads_to_scheduler | forgetting reports against late reports, restart | steady demand is always passed on, old demand is not |
| Vehicle counting (`apps/vehicle_counting/`) | chunks, frames and their times in lists shared by three threads, flags, the status of the job in a database shared with the API | download, decode, track; submit, terminate | flags read and written without locks, downloads that fail, terminate racing the end | frames are processed once and in order, jobs end, an outcome stays |
| Frontend models, pipelines and v1 routers | none of their own | CRUD over the database, pin, unpin | none | - |
| Backend monitor (`main_processes/backend_monitor/main.py`) | last log per backend | collect, expire, publish | none: one thread | logs of live backends are published |
| Model cache (`nxs_libs/storage_cache/`) | LRU list of files | get, evict | none: one user | size bound |
| Databases, storage, types, utilities, deployment, `examples/` | - | - | I/O and data classes | not modelled |

Frontends push requests to the topic of a session, backends pull them from
there and push results to the topic of the frontend. Frontends report their
workloads to the workload manager; it reports demand to the scheduler; the
scheduler pushes plans to the topic of each backend; backends register and send
heartbeats to the topic of the scheduler. All of this goes through the Redis
queue. The vehicle counting workers are clients of the frontends.

## 2. Modules

| Module | Models | State and actions |
|---|---|---|
| `RedisQueue` | the queue | One topic. `log[k]`/`head[k]` are the Redis list `topic_k` kept as a log and the number of elements popped from it, so an element keeps its name (partition, position) for life. Every Python statement that touches state shared between threads is a step of its own: the test of the buffer's length, BLPOP, the append, each flag reset, each join, each `pop(0)` of `pull`. `RPushRaises` and `ReaderPopRaises` are Redis calls that take effect and raise in the client. |
| `SchedulingPasses` | the passes of `schedule` as functions | Dictionaries are sequences of entries because their order decides; plans carry an identity because two sessions may hold the same object. A lookup that would raise is recorded in `raised`. No variables. |
| `SchedulingPolicy` | the policy over many calls | `Schedule(reqs, cur)` is one call, with any requests and any backends; `sched` and `unsched` are what its result tells the backends to run and to stop, `raised` the exceptions it raised, after which there is no further call |
| `ControlPlane` | scheduler, backends, their topics and the state database; uses `SchedulingPasses` for the placement | The scheduler handles one message at a time; each push (`PushOut`), each write of the name list (`UpdateNames`) and the call of the policy (`ScheduleWorkloads`) are steps, so a crash may fall between them. Backends handle messages in order; `HandlerRaises` ends a main loop, in the handler of a plan or of a re-registration, while its heartbeat thread lives on. Topics here are FIFO queues, which the queue provides for the one partition these topics have. |
| `InferenceService` | what a deployed model promises its callers | The abstract specification: a request is queued, taken over, and then completed, forwarded or failed, failed exactly when it was rejected; lost only by a model that is being stopped or has lost a process. |
| `BackendPipeline` | the processes of one deployed model | A component model is a stage of input, preprocessing, compute (with its reader threads) or custom, and output processes. Each process reads a batch in one step and passes it on in another; `Feed` is the feeder thread of a `multiprocessing.Queue`, so that what was put is not yet there for `empty()`. `InferRaises` and `OutputRaises` are exceptions outside of any `try`, which end a process. `SetStopFlag` and `Terminate` are the main process unscheduling the model. It implements `InferenceService` under the mapping `Fate`, `Degraded`. |
| `FrontendTasks` | the tasks router, composed with `InferenceService` | A call starts one task, or several for a batch. `Enter` is the coroutine up to the push (backends, pipeline, plan, demand); `push_to_session` is one round of the pusher's retry loop, which sends the task again when the reply of Redis was lost and blocks the event loop meanwhile; `Poll` is one round of the waiting loop; `Receive`, `Stamp` and `Cleanup` are the reply thread, with storing and stamping a result as two steps. `Serve` is a step of the service, `Redeliver` a result its pusher sends again. The requests the service sees are messages `<<task, number>>`, so that a task may be served twice; the push does not test whether a message is new. The caches of what the key-value server knows are no state: backends and plans may change at any time and a cache be of any age, so what `Enter` finds there is any value. |
| `WorkloadManager` | the workload manager | `ManagerStep` is one round of `run`: all pulled messages are processed and the scheduler is told, or not. Times are ages. |
| `DemandReporting` | the monitor thread of the frontend, composed with `WorkloadManager` | `MonitorStep` is one round of `task_monitor_thread`; a `Tick` of the clock passes when both loops have done what is due. |
| `VideoWorker` | a job of the vehicle counting application | The downloading, decoding and main threads of both kinds of worker, `worker.py`'s `main`, and `terminate_job` of the API. Every look at a list or a flag another thread writes is a step; the offline decoder looks at the list of chunks up to three times a round (`OfflineLoop`, `OfflineNone`, `OfflineAgain`). |
| `SchedulingPasses_proofs` | - | Lemmas about each pass of `schedule`, which the next two rest on |
| `SchedulingPolicy_proofs`, `ControlPlane_proofs`, `RedisQueue_proofs`, `BackendPipeline_proofs`, `FrontendTasks_proofs`, `DemandReporting_proofs`, `VideoWorker_proofs` | - | Theorems about these modules |
| `MC*` | - | the small instances |

`PROJECT.json` maps each definition to the lines it stands for. A definition
marked *mutant* is a plausible bug of the definition after it; replacing the
one by the other makes the property named in `PROJECT.json` fail.

Abstractions. A message is its kind and what it is about; clocks are events
(`CacheExpires`, `BecomesOverdue`, `Expire`) or ages up to the greatest a test
can tell apart; component models, batch sizes, duty cycles and logs of the
scheduler are carried along unchanged by the code and left out; a download or a
process start either succeeds or raises (a custom model whose archive cannot be
unzipped, which the backend silently ignores, is left out). The division of the
scaling pass is exact, where the code divides floats. Tensors are left out: a
user-supplied function accepts a request or raises. Of a workload the model
knows whether it was requested, not how much. Of a frame it knows the number.

## 3. Runs

| Run | Result | Shows |
|---|---|---|
| `queue_safety` | pass | `PartitionFifo`, `AckedAccounted`, `NoDuplicateWithoutFault`, `BufOverrunBounded`, `CloseDrains`, `OneReaderPerPartition` under rescaling, closing and one Redis fault |
| `queue_live` | pass | elements of partitions that remain are delivered while the topic is rescaled, and a close outside of a rescaling returns |
| `queue_close_race` | violation | "stop all threads" fails when a close overlaps a rescaling |
| `policy_single` | pass | with pipelines of one model, every session is announced to the backends of its plans, a model is on as many backends as the demand needs, what is no longer planned is stopped, and nothing is stopped needlessly |
| `policy_shared` | pass | with shared models on a GPU and a CPU backend `schedule` never looks up a missing key and plans are current |
| `policy_announce` | violation | a session that shares another pipeline's model is never announced to its backend |
| `control_registry` | pass | with crashes on both sides the registry in the database is complete between two messages; an expired or restarted backend is registered again, planned models run, nothing else does |
| `pipeline_service` | pass | the processes of a model implement `InferenceService`; no request is copied, or kept back while the model serves; the compute process drains its queues; a stop reaches every process |
| `pipeline_shared` | violation | a request of a session other than the last one ends the input process of a shared model |
| `frontend_tasks` | pass | every call returns, whatever the service does, and its client is told what the service made of the task, also when the task was sent twice; results leave the table, by a task or by the cleanup; demand is recorded for what is refused as not ready, and for no pipeline nobody knows |
| `demand_reporting` | pass | what is requested all the time is in every message to the scheduler, what is not requested any more is in none |
| `video_worker` | pass | frames and times stay together, frames are processed once and in order, jobs end and keep their outcome |

What the properties leave out because the code does not keep it, each read off
the code and tried in the model:

- The readers overrun the "maximum size" of the buffer by one element each;
  `BufOverrunBounded` gives the bound they keep. EXPIRE is never called, so
  lists of abandoned topics stay in Redis.
- With shared models, `_remove_cmodel_from_backend` records only the first
  unscheduling plan of a session per call, so a second model it loses goes on
  running, and a pipeline that is deployed again gets the plans of its models
  twice, of which only the first is cleaned (`DemandMet` fails after four calls
  with three backends). Both are checked of pipelines that share no model, and
  even there `StopsAnnounced` can only ask that a session which loses several
  backends in one call is stopped on one of them. `DemandMet` is restricted to
  five models (`MAX_MODELS_PER_BACKEND`): with more, a backend too full for one
  model has room again once a later one is scaled down.
- When a session with several models loses the last backend of one of them,
  `simple_policy_v2.py:249` appends its other plans to the emptied list of
  backends. With shared models and three backends a later session then reads a
  plan as a backend plan, an AttributeError. `NoKeyError` leaves this exception
  out; the two backends of `policy_shared` do not reach it.
- The GPU memory a call takes is free again in the next call. After a restart
  the policy has forgotten its plans.
- "resend DEPLOY_MODEL requests" (`scheduler/main.py:189`) is not done: a backend
  that restarts before it is expired idles until the next report of workloads.
  "remove all models" (`backend/main.py:206`) keeps a model whose sessions joined
  after it was deployed. `NoOrphanedModels` holds of one backend and one
  session: with two sessions, a session that joins a running model is not in the
  plan the model was deployed with; with two backends, the unscheduling plan of an expired backend may be
  addressed to the other one (`UnscheduledFrom`).
- A stopped model may lose requests that are still in a feeder thread, although
  it "wait[s] few seconds to process all pending requests"
  (`backend/main.py:351`); `InferenceService` allows it. An exception of an
  inference kills a compute process that nobody restarts; its readers go on
  swallowing requests. A result that cannot be made the inputs of the next model
  ends the output process in the same way (`OutputRaises`); at the end of a pipeline
  a result in the wrong format is sent as completed. For a
  model with a transforming function, and for a batch whose first request has its
  result from preprocessing, `compute_process.py` puts out only the
  first request of a batch (`batch_metadata[0]`), so such a model must not batch
  across requests: nothing in the code forbids it, the instances keep to it and
  the theorem about the refinement assumes it (`TransformAlone`).
- A task that was turned away because its models are not ready counts as demand
  (`DemandRecorded`), and the next message to the scheduler after the frontend's
  report has it (`SteadyServed` says so of demand that goes on). It is not said
  that the models are planned at last: the frontend drops what it has reported
  (`root.py:218-219`) and the manager forgets it after `model_timeout_secs`
  (`simple_policy.py:106-116`), so after a longer outage of the backends the client
  has to call again, as the error message asks it to.
- The pusher's retry sends a task twice when only the reply of Redis was lost, so a
  backend may serve a task twice. `StatusTrue` holds all the same: the result a
  task returns is that of one of the two, which the service does not change, and
  `ResultsGo` says that the other does not stay.
- The workload manager splits keys at underscores, so a session whose name has
  one ends it.
- A video processed to its end may be stored as FAILED: the decoding thread sets
  `video_ended` first and `job_completed` later, and the main thread may read the
  second in between. A chunk without a number in its name ends the downloading
  thread and the job waits for ever. The user's stop may overwrite COMPLETED.

Bounds. *Queue*: two pushers and two partitions suffice to add and remove a reader, to wrap the
round robin and to have a stale index; two messages let one overtake another
and overrun the buffer; one fault separates lost and duplicated from
delivered. *Policy*: two models and three keys cover sharing, scale up, scale down and the
loss of backends; each key is requested with every demand of `Demand` or not at
all. `policy_shared` tries every order of two backends in each of four calls,
after which all combinations of "new, changed, gone" in consecutive calls have
occurred; `policy_single` makes three calls with the lists of `FewBackendLists`,
in which up to three backends come and go, so that one call can lose several. *Control plane*: one backend, one late heartbeat, one fault and
topics up to `MaxQueue`. *Pipeline*: three deployments (two preprocessors with two
readers; two output processes before a custom model; a custom model before a
transforming one), two requests that can share a batch, one of which goes on to
another model, one exception that ends a process, and reads of one item so that a queue can be longer than a read. *Frontend*: a batch of two
downloads and a call that returns fields, one of the two pipelines in the
database, and one fault, which is a lost reply or a repeated result: either makes a
task have two results, one of which nobody waits for. *Demand*: two
workloads, whose reports trigger each other's, with a report period of one tick, a key that
is dropped every three and a memory of five, the shortest that suffices. *Video*: three chunks of two frames, two chunks
remembered and two listed, so that playlists overlap and memory overflows; a
backlog of two, every second frame skipped. The user stops online jobs only: a
stop sets no flag of the worker, which runs on until its pod is killed;
`terminate_job` and the kill are the same for both kinds of job.

The policy, queue, pipeline, frontend and video runs end when all calls, messages,
requests and frames are used up, so they do not check for deadlock;
`control_registry` and `demand_reporting` do.

Fairness. *Queue*: threads are scheduled by the operating system, so every
thread's next step is weakly fair; pushing, resizing, closing and faults are
never forced. *Control plane*: both main loops and the heartbeat thread are
endless loops, the workload manager reports periodically, the policy returns,
and the clock makes a silent backend overdue. Crashes, delays and failures are
not forced and nothing restarts a backend. `EventuallyRegistered` promises
nothing once the scheduler has crashed: a REGISTER message lost in the crash
leaves a backend that has no heartbeat thread yet unregistered for ever.
*Pipeline*: every process, reader and feeder thread runs, and a model whose last session is removed is
stopped; nothing forces requests, faults or the kill. *Frontend*: the event loop
and the reply thread run, clocks advance, and Redis answers the pusher at last (its
retry loop has no limit and blocks the event loop, so without Redis no call
returns); nothing is assumed of the service, its topic or the scheduler. *Video*: threads run, requests are handled,
pods of deleted jobs are killed and time passes; downloads may always fail.

## 4. Proofs

The theorems hold for every value of the constants that the assumptions beside
their declaration admit; these ask for the types of the constants, and for what
is said below. Each rests on an invariant that is stronger than the property,
because the property is not inductive; the proofs take the steps of `Next` one
by one.

*Queue* (`QueueAssumption`: positive bounds).

- `TypeCorrect`: `Spec => []TypeOK`. `TypeOK` is not inductive: the index
  stays in range only if a fresh cache holds a positive count above the index
  (`CacheInv`), and `pull` pops a non-empty buffer only because the count it
  took at its start is at most the length (`PullInv`). With `ThreadInv` (a
  reader outside the list of threads has ended) this is `BaseInv`, the base of
  the other proofs.
- `FifoCorrect`: `Spec => []PartitionFifo`, by `FifoInv`: what is in the
  stream was popped, and what a reader holds is newer than everything of its
  partition in the stream. `StepKinds` reduces the steps to four cases.
- `NothingDropped`: `Spec => []AckedAccounted`, by `PoppedInv` (everything
  popped is held, buffered, delivered or lost by Redis) and `WrittenInv`.
- `CloseCorrect`: `Spec => []CloseDrains`, by `PoppedInv` and `CloseInv`: the
  last pull starts after the monitor and every reader were joined, so nothing
  is appended behind it.
- `ReadersCorrect`: `Spec => []OneReaderPerPartition`, by `ScaleInv` (how many
  readers there are inside of the scaling loop) and `AliveInv` (until the owner
  closes, only the reader the monitor is removing may have ended).
- `OverrunBounded`: `Spec => []BufOverrunBounded`. The append leaves the sum of
  the buffer and the elements under way alone, and the test of the length
  raises it only below the limit; the rest is counting.
- `NoDuplicates`: `Spec => []NoDuplicateWithoutFault`, by `DistinctInv` (without
  faults the messages in the logs are pairwise different, and none of them is
  being sent) and `PositionInv`, which ties the stream to positions of the logs,
  where `FifoInv` shows that a position comes once.

*Backend pipeline* (`PipelineAssumption`: finitely many requests, models of at
least one component). A *slot* is a batch and the place that holds it.

- `CustodyHolds`: `Spec => [](PipelineTypes /\ CustodyInv)`. A request is in one
  slot, marked as failed exactly when it was rejected, and in none before it is
  taken over and after it is answered. The steps of the processes are first
  reduced to a few ways to hand requests over (`StepMoves`).
- `TypeCorrect`: `Spec => []TypeOK`: `PipelineTypes` and the lists of sessions,
  which are folds over the commands the input process was sent.
- `NothingDuplicated`: `Spec => []NeverDuplicated`. `NeverDuplicated` adds the
  cardinalities of sets of places; `CustodyInv` makes all but one of them zero.
- `NothingLeftAtCompute`: `Spec => []ComputeDrains`, by `ComputeInv`: a reader
  ends only after the preprocessor before it, with an empty queue (`Drain`), and
  the compute process only after all its readers.
- `PipelineServes`: `TransformAlone => (Spec => ImplementsService)`, the
  refinement of `InferenceService` under `Fate` and `Degraded`, step by step from
  the same invariants, the exceptions that end a process included. `TransformAlone` is explained in section 3.

*Frontend* (`FrontendInv`).

- `FrontendTypes`, `NoResultUnstamped`, `DemandTrue` and `ClientsToldTruth`: `TypeOK`,
  `ResultsStamped`, `DemandRecorded` and `StatusTrue` are invariants. They need that a task has
  no outcome before it ends and is not sent before it waits (`ProgressInv`), and
  that only answered tasks have results under way or in the table (`ResultInv`).
- `UsesService`: `Spec => Service!Spec /\ []SentOncePerReply`. Each message is new
  to the service when it is sent, which `push_to_session` nowhere tests and the
  proof gets from `SentOncePerReply`: the messages of a task that were sent are as
  many as the replies that were lost, and one more once the push has returned. A
  second push of one message would break the refinement. The steps of the service
  itself (`Serve`) are an assumption here, which `PipelineServes` discharges for the
  backend: the theorems join the two sides at the interface both are written against.

*Demand* (`MemoryAssumption`: the manager remembers a report for more than the
period of the frontend and three ticks; by default the two are 30 seconds and 1).

- `DemandTypes`, `SteadyAlwaysServed` and `IdleAlwaysReleased`: `TypeOK` and the
  action properties `SteadyServed` and `IdleReleased`. `CoveredInv` bounds the age
  of the last report of a key by where its requests are: in the uncounted tasks,
  counted, or dropped with the key; `ForgottenInv` bounds how long after its last
  task a key is still reported.

*Video worker* (`WorkerAssumption`: a playlist is not longer than what the
worker remembers of it, and a batch not longer than the backlog and one frame).

- `OutcomeIsKept`: the action property `OutcomeKept`, by `StatusInv`, which
  relates the final status, the place of the main program and what
  `terminate_job` has decided to write.
- `BuffersAreSound`: `Spec => []BuffersSound`, by `ListsInv`: where each thread is
  between the two lists.
- `FramesAreInOrder`: `Spec => []FramesInOrder`, by `StreamInv`: every listed
  chunk up to the latest one that was downloaded is remembered (`DownloadInv`), so
  that none is fetched again, and what is yet to come is later than all that was
  handed over (`OrderInv`).

*Scheduling policy* (`CallAssumption`: a list of requests has each session once,
a list of backends each backend once). The passes are folds over dictionaries.
`SchedulingPasses_proofs` unfolds a fold into the sequence of its values; a
property of these values is then a set of indices that contains zero and is
closed under successor, so that no induction rule with an operator for a
parameter is needed (`UpTo`). On this rest lemmas on what each pass makes of
the plans, and on what `schedule` makes of them (`RunPassesResult`).

- `PolicyInvariant`: `Spec => [](TypeOK /\ PolicyInv)`. Between two calls the
  plans are a `SolidDict`: of sessions that were requested, on backends that were
  registered, each session once, objects of one identity equal, and the first plan
  of a session for a model not empty. The last conjunct is what the lookups need:
  `_remove_cmodel_from_backend` reads the first plan for a model only.
- `TypeCorrect`, `KeysAreThere` and `CurrentPlans`: `TypeOK`, `NoKeyError` and
  `PlansAreCurrent` are invariants, for any pipelines, shared models included.
- `SingleModelNeverRaises`: with pipelines of one model nothing is raised at all.
- `SharersAnnounced`, `DemandIsMet`, `NothingStoppedNeedlessly` and
  `StopsAreAnnounced`: the properties of `policy_single`, under the hypothesis
  `Alone`: a pipeline has at most one model, which no other pipeline has; any number
  of sessions may share it. Without it the code does not keep them: `policy_announce`
  shows it of the first; as a shared plan stays under the name of the session it
  was made for, `NoNeedlessStop` fails when that session ends and the other goes
  on; section 3 explains the other two.

*Control plane* (`ControlAssumption`: pipelines of one model, so that `schedule`
returns, and finitely many backends).

- `RegistryRestorable`: `Spec => []RegistryRecoverable`, by `RegistryInv`: also
  within a handler every registered backend has its entry in the database, and
  is in the list of names unless the handler is about to write it.
- `RegisteredOnce`: no backend is twice in the registry or the list of names.
- `TypeCorrect`: `Spec => []TypeOK`, with `PolicyInv`: the dictionary of the policy
  is a `SolidDict` of its last call also after crashes and restarts.
- `ScheduleReturns`: in every reachable state a call of `schedule` would raise
  nothing. This is why `ScheduleWorkloads` needs no failing case.
- `NoOrphans`: `NoOrphanedModels`, for one backend, one session and `Alone`, any
  number of pipelines, crashes of the backend and expiries. `OrphanInv` looks at
  the messages ahead of the backend: those in its topic and those the scheduler
  has still to push. A model that is not planned, and is deployed or is begun by
  one of these messages, is ended by a later one.

Only model-checked: the liveness properties, which need fairness and `ENABLED`,
and the runs that expect a violation. Every invariant and action property of a passing run is
stated by a theorem; for `SessionsAnnounced`, `DemandMet`, `NoNeedlessStop`,
`StopsAnnounced` and `NoOrphanedModels` the hypotheses above are those of the
instances the runs use.

## 5. Not modelled

- Frontend routers of models and pipelines: validation and single database
  calls. Pinning and unpinning are actions of `WorkloadManager`.
- Tasks router: the benchmark endpoint (disabled by default, and waiting without
  a timeout), the scaling of the cluster (calls of Kubernetes), the parameters of
  sessions, decoding of request bodies and summaries of tasks.
- Backend: downloads, unzipping, the dispatcher thread's statistics, the first version of
  the scheduling code, which nothing calls, and pausing, which nothing requests.
- Vehicle counting: detection, tracking, counting, drawing and logs, which are
  numerical; read-only endpoints; the script that cleans the cluster.
- Backend monitor and model cache: one thread with a dictionary of its own each.
- Databases, storage, types, utilities and deployment: wrappers of external
  services and data classes. The key-value server appears in `ControlPlane` and
  `FrontendTasks` through its use.

## 6. Plan

All modules, runs and theorems above are done. What is worth adding when the code
changes:

1. The policy theorems without `Alone`, once `_remove_cmodel_from_backend`
   records every plan it takes and shared models are announced (sections 3, 4).
2. `NoOrphans` for several backends and sessions, once an unscheduling plan is
   addressed to the backend that lost the model.
3. A supervisor for processes that die, as a step of `BackendPipeline`.

## 7. Running

    tlc -config queue_safety.cfg MCRedisQueue
    tlapm RedisQueue_proofs.tla

and so for the other runs of section 3 and the other modules whose names end in
`_proofs`. `SchedulingPasses_proofs` and
`BackendPipeline_proofs` take several minutes each.
