--------------------------- MODULE BackendPipeline ---------------------------
(***************************************************************************)
(* The processes that run one compository model on a backend               *)
(* (main_processes/backend/input_process.py, preprocessing_process.py,     *)
(* compute_process.py, custom_model_process.py, output_process.py), the    *)
(* multiprocessing queues and stop flags between them as                   *)
(* main_processes/backend/main.py wires them, and the handlers of the main *)
(* process that add and remove sessions and stop the model.                *)
(*                                                                         *)
(* A component model is a stage: an input process, its preprocessors, a    *)
(* compute process with one reader thread per preprocessor (or, for a      *)
(* custom model, one process instead of these), and its output processes.  *)
(* A stop flag carries the name of the queue its readers read: raising it  *)
(* tells them that no more will be put.                                    *)
(*                                                                         *)
(* An item put into a multiprocessing.Queue sits in the buffer of the      *)
(* feeder thread until it is written to the pipe.  empty() sees the pipe,  *)
(* qsize() counts both.  The order within a queue is left out.             *)
(***************************************************************************)
EXTENDS Integers, Sequences, FiniteSets, SequencesExt, FiniteSetsExt

CONSTANTS Requests,
          Sessions,
          SessionOf,     \* the session of a request
          Hops,          \* the number of topics in exec_pipelines
          Cmodels,       \* the deployments: sequences of component models
          MaxItems,      \* what one get_batch reads without max_items
          MaxFaults,     \* bound on processes that an exception ends
          MaxUpdates     \* bound on sessions added and removed

Component ==
    [custom : BOOLEAN,      \* is_custom_model
     pre : Nat \ {0},       \* num_preprocessors
     post : Nat \ {0},      \* num_postprocessors
     bs : Nat \ {0},        \* the batch size of the plan
     sizes : SUBSET Nat,    \* batch sizes of the profile, up to bs
     cross : BOOLEAN,       \* cross_requests_batching
     transform : BOOLEAN,   \* the model has a transforming function
     skips : BOOLEAN]       \* its preprocessing may provide the result itself

ASSUME PipelineAssumption ==
    /\ IsFiniteSet(Requests)
    /\ SessionOf \in [Requests -> Sessions]
    /\ Hops \in [Requests -> Nat \ {0}]
    /\ \A cm \in Cmodels : cm \in Seq(Component) /\ cm # <<>>
    /\ \A cm \in Cmodels : \A i \in DOMAIN cm : {1, cm[i].bs} \subseteq cm[i].sizes
    /\ MaxItems \in Nat \ {0}
    /\ {MaxFaults, MaxUpdates} \subseteq Nat

VARIABLES
  cmodel,     \* the deployed component models
  unsent,     \* requests not pushed yet
  topic,      \* requests in the Redis topics of the model
  args,       \* input_interface_args_dict of the first input process
  cmds,       \* process_update_shared_list
  served,     \* input_dict of the first input process, in its order
  main,       \* the main process: "serving", "removed", "stopping", "killed"
  raised,     \* the stop flags that are set
  buf, pipe,  \* buf[q], pipe[q]: batches in the feeder thread, in the pipe
  qbuf,       \* qbuf[i]: queue_buffer of the compute process of stage i
  pc,         \* pc[p]: "loop", "last" (its stop flag was seen), "exited", "dead"
  hold,       \* hold[p]: the batches process p has read and not passed on
  answers,    \* answers[r]: what was pushed for r to topics outside
  rejected,   \* requests a user-supplied function raised on
  faults, updates

wiring == <<cmodel, args, cmds, served, main>>
queues == <<raised, buf, pipe, qbuf>>
procs  == <<pc, hold>>
tasks  == <<unsent, answers, rejected>>
bounds == <<faults, updates>>
vars == <<wiring, queues, procs, topic, tasks, bounds>>

Stages == 1 .. Len(cmodel)
IsLast(i) == i = Len(cmodel)

Item(r, ok) == [req |-> r, ok |-> ok]
Singletons(items) == {{x} : x \in items}
ReqsOf(batches) == {x.req : x \in UNION batches}

-----------------------------------------------------------------------------
(* Queues, named by the stage, the processes that read them and a number.  *)

InQ(i) == <<i, "in", 1>>
PreQ(i) == <<i, "pre", 1>>
CmpQ(i, k) == <<i, "cmp", k>>
OutQ(i) == <<i, "out", 1>>

Preprocessors(i) == IF cmodel[i].custom THEN {} ELSE 1 .. cmodel[i].pre

Queues ==
    UNION {{InQ(i), PreQ(i), OutQ(i)} \cup {CmpQ(i, k) : k \in Preprocessors(i)} : i \in Stages}

(* Processes and reader threads.                                           *)
Input(i) == <<i, "input", 1>>
Preproc(i, k) == <<i, "preproc", k>>
Reader(i, k) == <<i, "reader", k>>
Compute(i) == <<i, "compute", 1>>
Custom(i) == <<i, "custom", 1>>
Output(i, k) == <<i, "output", k>>

Outputs(i) == {Output(i, k) : k \in 1 .. cmodel[i].post}
Processes(i) ==
    {Input(i)} \cup Outputs(i)
        \cup IF cmodel[i].custom THEN {Custom(i)}
             ELSE {Compute(i)} \cup {Preproc(i, k) : k \in Preprocessors(i)}
                               \cup {Reader(i, k) : k \in Preprocessors(i)}

Procs == UNION {Processes(i) : i \in Stages}

Init ==
    /\ cmodel \in Cmodels
    /\ unsent = Requests
    /\ topic = {}
    /\ args \in {<<s>> : s \in Sessions}
    /\ cmds = <<>>
    /\ served = args
    /\ main = "serving"
    /\ raised = {}
    /\ buf = [q \in Queues |-> {}]
    /\ pipe = [q \in Queues |-> {}]
    /\ qbuf = [i \in Stages |-> {}]
    /\ pc = [p \in Procs |-> "loop"]
    /\ hold = [p \in Procs |-> {}]
    /\ answers = [r \in Requests |-> <<>>]
    /\ rejected = {}
    /\ faults = 0
    /\ updates = 0

-----------------------------------------------------------------------------
(* multiprocessing.Queue: put_batch, the feeder thread and get_batch.      *)

Put(b, q, batches) == [b EXCEPT ![q] = @ \cup batches]

Feed(q) ==
    /\ main # "killed"
    /\ \E b \in buf[q] :
          /\ buf' = [buf EXCEPT ![q] = @ \ {b}]
          /\ pipe' = [pipe EXCEPT ![q] = @ \cup {b}]
    /\ UNCHANGED <<wiring, raised, qbuf, procs, topic, tasks, bounds>>

(* get_batch returns what is in the pipe, at most limit items of it.       *)
Taken(q, limit) ==
    {S \in SUBSET pipe[q] : Cardinality(S) = Min({Cardinality(pipe[q]), limit})}

(* What a loop reads from q: at most limit items; once the flag is set,    *)
(* close_and_get_remains, which is one get_batch with the default limit.   *)
Reads(q, limit) == Taken(q, IF q \in raised THEN MaxItems ELSE limit)
Looks(p, q) == pc[p] = "loop" /\ (q \in raised \/ pipe[q] # {})
After(q) == IF q \in raised THEN "last" ELSE "loop"

(* The end of a loop: a process that saw its flag exits and sets the next. *)
ForgottenFlag(q) == UNCHANGED raised           \* mutant: flag not set
SetNextFlag(q) == raised' = raised \cup {q}

-----------------------------------------------------------------------------
(* Input process of the first stage.                                       *)

(* Requests of a session that the reader thread of its puller has buffered *)
(* are what pull and pull_buffered_and_close return; others stay in Redis. *)
OfSessions(ss) == {r \in topic : SessionOf[r] \in ss}

(* The commands of process_update_shared_list, all of them, in their order.*)
ApplyArgs(ss, c) == Append(ss, c)                 \* mutant: the args, not their uuid
Apply(ss, c) ==
    IF c.cmd = "remove" THEN RemoveFirst(ss, c.session)
    ELSE IF c.session \in ToSet(ss) THEN ss ELSE Append(ss, c.session)

ServedAfter(cs) == FoldLeft(Apply, served, cs)

(* The requests request_entering is called for: those of the session that  *)
(* the loop over input_dict reads last.  The others are dispatched without *)
(* carry_over_extras, which raises.                                        *)
Entered(got, ss) == {r \in got : ss # <<>> /\ SessionOf[r] = ss[Len(ss)]}

(* One iteration.  cs are the commands read in it, none when the period    *)
(* has not passed; sessions that are closed give their remains, which are  *)
(* not entered.                                                            *)
InputLoop(cs, remains, new) ==
    LET p == Input(1)
        got == remains \cup new
    IN  /\ cmds' = IF cs = <<>> THEN cmds ELSE <<>>
        /\ served' = ServedAfter(cs)
        /\ topic' = topic \ got
        /\ IF Entered(new, served') # got
           THEN /\ pc' = [pc EXCEPT ![p] = "dead"]
                /\ UNCHANGED <<buf, raised>>
           ELSE /\ buf' = Put(buf, PreQ(1), Singletons({Item(r, TRUE) : r \in got}))
                /\ IF InQ(1) \in raised
                   THEN pc' = [pc EXCEPT ![p] = "exited"] /\ SetNextFlag(PreQ(1))
                   ELSE UNCHANGED <<pc, raised>>
        /\ UNCHANGED <<cmodel, args, main, pipe, qbuf, hold, tasks, bounds>>

Closing(cs) == {c.session : c \in {d \in ToSet(cs) : d.cmd = "remove"}}

InputStep ==
    /\ main # "killed"
    /\ pc[Input(1)] = "loop"
    /\ \E cs \in {cmds, <<>>} :
       \E remains \in SUBSET OfSessions(Closing(cs)) :
       \E new \in SUBSET (OfSessions(ToSet(ServedAfter(cs))) \ remains) :
          /\ cs # <<>> \/ new # {} \/ InQ(1) \in raised
          /\ InputLoop(cs, remains, new)

(* The later input processes read the queue of the stage before them.      *)
ForwardStep(i) ==
    LET p == Input(i) IN
    /\ main # "killed"
    /\ Looks(p, InQ(i))
    /\ \E S \in Reads(InQ(i), MaxItems) :
          /\ pipe' = [pipe EXCEPT ![InQ(i)] = @ \ S]
          /\ buf' = Put(buf, PreQ(i), S)
    /\ IF InQ(i) \in raised
       THEN pc' = [pc EXCEPT ![p] = "exited"] /\ SetNextFlag(PreQ(i))
       ELSE UNCHANGED <<pc, raised>>
    /\ UNCHANGED <<wiring, qbuf, hold, topic, tasks, bounds>>

-----------------------------------------------------------------------------
(* Preprocessor.                                                           *)

(* chosen_bs of the batches sent out of n preprocessed requests.           *)
OnlyFull(c, n) == c.bs                            \* mutant: waits for a full batch
ChosenSize(c, n) ==
    IF ~ c.cross THEN 1
    ELSE IF n >= c.bs THEN c.bs
    ELSE Max({k \in c.sizes : k <= n})

(* The requests that go on to be batched: those that neither failed before *)
(* nor fail to be decoded and preprocessed.                                *)
NoContinue(items, bad) == items                   \* mutant: continue missing
Preprocessed(items, bad) == {x \in items : x.ok /\ x.req \notin bad}

(* Read, decode and preprocess; what fails takes the shortcut to the       *)
(* output queue.                                                           *)
PreprocRead(i, k) ==
    LET p == Preproc(i, k) IN
    /\ main # "killed"
    /\ Looks(p, PreQ(i))
    /\ hold[p] = {}
    /\ \E S \in Reads(PreQ(i), cmodel[i].bs) :
       \E bad \in SUBSET {x.req : x \in {y \in UNION S : y.ok}} :
          /\ pipe' = [pipe EXCEPT ![PreQ(i)] = @ \ S]
          /\ hold' = [hold EXCEPT ![p] = Singletons(Preprocessed(UNION S, bad))]
          /\ buf' = Put(buf, OutQ(i),
                        {{Item(x.req, FALSE)} : x \in {y \in UNION S : ~ y.ok \/ y.req \in bad}})
          /\ rejected' = rejected \cup bad
    /\ pc' = [pc EXCEPT ![p] = After(PreQ(i))]
    /\ UNCHANGED <<wiring, raised, qbuf, topic, unsent, answers, bounds>>

(* Send one batch to the own queue of the compute process.                 *)
SendBatch(i, k) ==
    LET p == Preproc(i, k) IN
    /\ main # "killed"
    /\ hold[p] # {}
    /\ \E S \in kSubset(ChosenSize(cmodel[i], Cardinality(hold[p])), hold[p]) :
          /\ hold' = [hold EXCEPT ![p] = @ \ S]
          /\ buf' = Put(buf, CmpQ(i, k), {UNION S})
    /\ UNCHANGED <<wiring, raised, pipe, qbuf, pc, topic, tasks, bounds>>

PreprocExit(i, k) ==
    LET p == Preproc(i, k) IN
    /\ main # "killed"
    /\ pc[p] = "last"
    /\ hold[p] = {}
    /\ pc' = [pc EXCEPT ![p] = "exited"]
    /\ SetNextFlag(CmpQ(i, k))
    /\ UNCHANGED <<wiring, buf, pipe, qbuf, hold, topic, tasks, bounds>>

-----------------------------------------------------------------------------
(* Compute process and its reader threads.                                 *)

(* read_queue_thr.  The threads outlive a main thread that raised.         *)
ReaderRead(i, k) ==
    /\ main # "killed"
    /\ pc[Reader(i, k)] = "loop"
    /\ pipe[CmpQ(i, k)] # {}
    /\ \E S \in Taken(CmpQ(i, k), MaxItems) :
          /\ pipe' = [pipe EXCEPT ![CmpQ(i, k)] = @ \ S]
          /\ qbuf' = [qbuf EXCEPT ![i] = @ \cup S]
    /\ UNCHANGED <<wiring, raised, buf, procs, topic, tasks, bounds>>

(* The reader is told to stop, empties its queue and is joined: in order,  *)
(* up to the first preprocessor that still runs.                           *)
StopsEarly(i, k) == TRUE                          \* mutant: does not drain
Drained(i, k) == pipe[CmpQ(i, k)] = {} /\ buf[CmpQ(i, k)] = {}

ReaderExit(i, k) ==
    /\ main # "killed"
    /\ pc[Compute(i)] = "loop"
    /\ pc[Reader(i, k)] = "loop"
    /\ \A j \in 1 .. k : CmpQ(i, j) \in raised
    /\ Drained(i, k)
    /\ pc' = [pc EXCEPT ![Reader(i, k)] = "exited"]
    /\ UNCHANGED <<wiring, queues, hold, topic, tasks, bounds>>

(* What _process_normal_batchable and _process_unbatchable put out for a   *)
(* batch: only the first request with a transforming function, and when    *)
(* preprocessing has provided the result.                                  *)
FirstOnly(c) == c.transform \/ c.skips
Results(c, b) ==
    (IF c.transform THEN {} ELSE {b}) \cup (IF FirstOnly(c) THEN kSubset(1, b) ELSE {})

Infer(i) ==
    /\ main # "killed"
    /\ pc[Compute(i)] = "loop"
    /\ \E b \in qbuf[i] : \E out \in Results(cmodel[i], b) :
          /\ qbuf' = [qbuf EXCEPT ![i] = @ \ {b}]
          /\ buf' = Put(buf, OutQ(i), Singletons(out))
    /\ UNCHANGED <<wiring, raised, pipe, procs, topic, tasks, bounds>>

(* _infer raises: the main thread of the compute process ends.             *)
InferRaises(i) ==
    /\ main # "killed"
    /\ pc[Compute(i)] = "loop"
    /\ qbuf[i] # {}
    /\ faults < MaxFaults
    /\ faults' = faults + 1
    /\ qbuf' = [qbuf EXCEPT ![i] = {}]
    /\ pc' = [pc EXCEPT ![Compute(i)] = "dead"]
    /\ UNCHANGED <<wiring, raised, buf, pipe, hold, topic, tasks, updates>>

(* All readers are joined and the buffer is empty.                         *)
ComputeExit(i) ==
    /\ main # "killed"
    /\ pc[Compute(i)] = "loop"
    /\ \A k \in Preprocessors(i) : pc[Reader(i, k)] = "exited"
    /\ qbuf[i] = {}
    /\ pc' = [pc EXCEPT ![Compute(i)] = "exited"]
    /\ SetNextFlag(OutQ(i))
    /\ UNCHANGED <<wiring, buf, pipe, qbuf, hold, topic, tasks, bounds>>

-----------------------------------------------------------------------------
(* The process of a custom model.  An input that cannot be decoded sets    *)
(* the status and goes on to infer, as does a request that failed before.  *)
CustomRead(i) ==
    LET p == Custom(i) IN
    /\ main # "killed"
    /\ Looks(p, PreQ(i))
    /\ hold[p] = {}
    /\ \E S \in Reads(PreQ(i), cmodel[i].bs) :
       \E bad \in SUBSET {x.req : x \in {y \in UNION S : y.ok}} :
          /\ pipe' = [pipe EXCEPT ![PreQ(i)] = @ \ S]
          /\ hold' = [hold EXCEPT ![p] =
                 Singletons({Item(x.req, x.ok /\ x.req \notin bad) : x \in UNION S})]
          /\ rejected' = rejected \cup bad
    /\ pc' = [pc EXCEPT ![p] = After(PreQ(i))]
    /\ UNCHANGED <<wiring, raised, buf, qbuf, topic, unsent, answers, bounds>>

(* A batch is inferred; an exception fails all of it.                      *)
CustomInfer(i, raises) ==
    LET p == Custom(i) IN
    /\ main # "killed"
    /\ hold[p] # {}
    /\ \E S \in kSubset(ChosenSize(cmodel[i], Cardinality(hold[p])), hold[p]) :
          /\ hold' = [hold EXCEPT ![p] = @ \ S]
          /\ buf' = Put(buf, OutQ(i), {{Item(x.req, x.ok /\ ~ raises)} : x \in UNION S})
          /\ rejected' = rejected \cup (IF raises THEN ReqsOf(S) ELSE {})
    /\ UNCHANGED <<wiring, raised, pipe, qbuf, pc, topic, unsent, answers, bounds>>

CustomExit(i) ==
    LET p == Custom(i) IN
    /\ main # "killed"
    /\ pc[p] = "last"
    /\ hold[p] = {}
    /\ pc' = [pc EXCEPT ![p] = "exited"]
    /\ SetNextFlag(OutQ(i))
    /\ UNCHANGED <<wiring, buf, pipe, qbuf, hold, topic, tasks, bounds>>

-----------------------------------------------------------------------------
(* Output processes.                                                       *)

OutputRead(i, k) ==
    LET p == Output(i, k) IN
    /\ main # "killed"
    /\ Looks(p, OutQ(i))
    /\ hold[p] = {}
    /\ \E S \in Reads(OutQ(i), MaxItems) :
          /\ pipe' = [pipe EXCEPT ![OutQ(i)] = @ \ S]
          /\ hold' = [hold EXCEPT ![p] = S]
    /\ pc' = [pc EXCEPT ![p] = After(OutQ(i))]
    /\ UNCHANGED <<wiring, raised, buf, qbuf, topic, tasks, bounds>>

(* The outcome of the last stage: a failed request goes to the last topic, *)
(* the others to the next one, the topic of a model or that of the task.   *)
OutcomeOf(x, bad) ==
    IF ~ x.ok \/ x.req \in bad THEN "failed"
    ELSE IF Hops[x.req] > 1 THEN "forwarded" ELSE "completed"

(* The status a request carries to the next stage.                         *)
StatusLost(x, bad) == Item(x.req, x.req \notin bad)  \* mutant: not carried over
NextItem(x, bad) == Item(x.req, x.ok /\ x.req \notin bad)

(* Postprocess items, and pass them on.                                    *)
PassOn(i, items) ==
    \E bad \in SUBSET {x.req : x \in {y \in items : y.ok}} :
       /\ rejected' = rejected \cup bad
       /\ IF IsLast(i)
          THEN /\ answers' = [r \in Requests |->
                      answers[r] \o SetToSeq({OutcomeOf(x, bad) : x \in {y \in items : y.req = r}})]
               /\ UNCHANGED buf
          ELSE /\ buf' = Put(buf, InQ(i + 1), {{NextItem(x, bad)} : x \in items})
               /\ UNCHANGED answers

OutputStep(i, k) ==
    LET p == Output(i, k) IN
    /\ main # "killed"
    /\ hold[p] # {}
    /\ PassOn(i, UNION hold[p])
    /\ hold' = [hold EXCEPT ![p] = {}]
    /\ UNCHANGED <<wiring, raised, pipe, qbuf, pc, topic, unsent, bounds>>

(* A postprocessing function returns what cannot be made the inputs of the *)
(* next model: that raises outside the try, and the process ends, with     *)
(* some of what it read passed on and the rest lost.                       *)
OutputRaises(i, k) ==
    LET p == Output(i, k) IN
    /\ main # "killed"
    /\ faults < MaxFaults
    /\ faults' = faults + 1
    /\ \E x \in UNION hold[p] :
          /\ x.ok
          /\ IsLast(i) => Hops[x.req] > 1
          /\ \E done \in SUBSET (UNION hold[p] \ {x}) : PassOn(i, done)
    /\ hold' = [hold EXCEPT ![p] = {}]
    /\ pc' = [pc EXCEPT ![p] = "dead"]
    /\ UNCHANGED <<wiring, raised, pipe, qbuf, topic, unsent, updates>>

(* Each of the output processes sets the flag of the next stage.           *)
OutputExit(i, k) ==
    LET p == Output(i, k) IN
    /\ main # "killed"
    /\ pc[p] = "last"
    /\ hold[p] = {}
    /\ pc' = [pc EXCEPT ![p] = "exited"]
    /\ IF IsLast(i) THEN UNCHANGED raised ELSE SetNextFlag(InQ(i + 1))
    /\ UNCHANGED <<wiring, buf, pipe, qbuf, hold, topic, tasks, bounds>>

-----------------------------------------------------------------------------
(* Tasks and the main process.                                             *)

(* A request is pushed to the topic of the model and its session.          *)
Push(r) ==
    /\ r \in unsent
    /\ unsent' = unsent \ {r}
    /\ topic' = topic \cup {r}
    /\ UNCHANGED <<wiring, queues, procs, answers, rejected, bounds>>

(* A plan names a session the running model does not serve: add_session.   *)
AddSession(s) ==
    /\ main = "serving"
    /\ updates < MaxUpdates
    /\ s \notin ToSet(args)
    /\ updates' = updates + 1
    /\ cmds' = Append(cmds, [cmd |-> "add", session |-> s])
    /\ args' = Append(args, s)
    /\ UNCHANGED <<cmodel, served, main, queues, procs, topic, tasks, faults>>

(* An unscheduling plan names the session: remove_session_uuid.            *)
RemoveSession(s) ==
    /\ main = "serving"
    /\ updates < MaxUpdates
    /\ s \in ToSet(args)
    /\ updates' = updates + 1
    /\ cmds' = Append(cmds, [cmd |-> "remove", session |-> s])
    /\ args' = RemoveFirst(args, s)
    /\ main' = IF args' = <<>> THEN "removed" ELSE "serving"
    /\ UNCHANGED <<cmodel, served, queues, procs, topic, tasks, faults>>

(* No session is left: the first stop flag is set.                         *)
SetStopFlag ==
    /\ main = "removed"
    /\ main' = "stopping"
    /\ raised' = raised \cup {InQ(1)}
    /\ UNCHANGED <<cmodel, args, cmds, served, buf, pipe, qbuf, procs, topic, tasks, bounds>>

(* Three seconds later every process is terminated.                        *)
Terminate ==
    /\ main = "stopping"
    /\ main' = "killed"
    /\ buf' = [q \in Queues |-> {}]
    /\ pipe' = [q \in Queues |-> {}]
    /\ qbuf' = [i \in Stages |-> {}]
    /\ hold' = [p \in Procs |-> {}]
    /\ UNCHANGED <<cmodel, args, cmds, served, raised, pc, topic, tasks, bounds>>

-----------------------------------------------------------------------------
PreprocStep(i, k) == PreprocRead(i, k) \/ SendBatch(i, k) \/ PreprocExit(i, k)
ReaderStep(i, k) == ReaderRead(i, k) \/ ReaderExit(i, k)
ComputeStep(i) == Infer(i) \/ ComputeExit(i)
CustomStep(i) ==
    \/ CustomRead(i)
    \/ \E raises \in BOOLEAN : CustomInfer(i, raises)
    \/ CustomExit(i)
OutputProcess(i, k) == OutputRead(i, k) \/ OutputStep(i, k) \/ OutputExit(i, k)

StageStep(i) ==
    \/ i > 1 /\ ForwardStep(i)
    \/ \E k \in Preprocessors(i) : PreprocStep(i, k) \/ ReaderStep(i, k)
    \/ ~ cmodel[i].custom /\ (ComputeStep(i) \/ InferRaises(i))
    \/ cmodel[i].custom /\ CustomStep(i)
    \/ \E k \in 1 .. cmodel[i].post : OutputProcess(i, k) \/ OutputRaises(i, k)

MainStep ==
    \/ \E s \in Sessions : AddSession(s) \/ RemoveSession(s)
    \/ SetStopFlag
    \/ Terminate

Next ==
    \/ \E r \in Requests : Push(r)
    \/ MainStep
    \/ InputStep
    \/ \E i \in Stages : StageStep(i)
    \/ \E q \in Queues : Feed(q)

Spec == Init /\ [][Next]_vars

(* Every loop goes on as long as its process lives, the feeder threads     *)
(* write what was put, and the main process sets the flag it is about to   *)
(* set.  Requests, plans and the end of the three seconds are not forced.  *)
MaxStages == Max({Len(cm) : cm \in Cmodels})
MaxWidth == Max({1} \cup UNION {UNION {{cm[i].pre, cm[i].post} : i \in DOMAIN cm} : cm \in Cmodels})

Fairness ==
    /\ WF_vars(InputStep)
    /\ WF_vars(SetStopFlag)
    /\ \A i \in 1 .. MaxStages :
          /\ WF_vars(i \in Stages /\ i > 1 /\ ForwardStep(i))
          /\ WF_vars(i \in Stages /\ ~ cmodel[i].custom /\ ComputeStep(i))
          /\ WF_vars(i \in Stages /\ cmodel[i].custom /\ CustomStep(i))
          /\ WF_vars(i \in Stages /\ \E q \in Queues : q[1] = i /\ Feed(q))
          /\ \A k \in 1 .. MaxWidth :
                /\ WF_vars(i \in Stages /\ k \in Preprocessors(i) /\ PreprocStep(i, k))
                /\ WF_vars(i \in Stages /\ k \in Preprocessors(i) /\ ReaderStep(i, k))
                /\ WF_vars(i \in Stages /\ k <= cmodel[i].post /\ OutputProcess(i, k))

FairSpec == Spec /\ Fairness

-----------------------------------------------------------------------------
(* Properties.                                                             *)

Batch == SUBSET [req : Requests, ok : BOOLEAN]

(* Types.  The process serves uuids of sessions, of those it was told of.  *)
TypeOK ==
    /\ cmodel \in Cmodels
    /\ {unsent, topic, rejected} \subseteq SUBSET Requests
    /\ {args, served} \subseteq Seq(Sessions)
    /\ cmds \in Seq([cmd : {"add", "remove"}, session : Sessions])
    /\ main \in {"serving", "removed", "stopping", "killed"}
    /\ raised \subseteq Queues
    /\ {buf, pipe} \subseteq [Queues -> SUBSET Batch]
    /\ qbuf \in [Stages -> SUBSET Batch]
    /\ pc \in [Procs -> {"loop", "last", "exited", "dead"}]
    /\ hold \in [Procs -> SUBSET Batch]
    /\ answers \in [Requests -> Seq({"completed", "forwarded", "failed"})]
    /\ faults \in 0 .. MaxFaults
    /\ updates \in 0 .. MaxUpdates

(* The places that hold r, the topic and the answers included.             *)
Holders(r) ==
    LET Having(f) == {x \in DOMAIN f : r \in ReqsOf(f[x])}
        B(x) == IF x THEN 1 ELSE 0
    IN  Cardinality(Having(buf)) + Cardinality(Having(pipe)) + Cardinality(Having(qbuf))
            + Cardinality(Having(hold)) + Len(answers[r]) + B(r \in topic) + B(r \in unsent)

(* A request is never in two places, and is answered at most once: the     *)
(* error shortcut, batching, and the processes that read one queue         *)
(* together neither copy a request nor answer one twice.                   *)
NeverDuplicated == \A r \in Requests : Holders(r) <= 1

(* The compute process exits with empty queues: its readers empty theirs,  *)
(* what the feeder threads still hold included, before they are joined, so *)
(* it is not where a stop loses requests (read_queue_thr, _run).           *)
ComputeDrains ==
    main # "killed" =>
        \A i \in Stages : ~ cmodel[i].custom /\ pc[Compute(i)] = "exited" =>
            /\ qbuf[i] = {}
            /\ \A k \in Preprocessors(i) :
                  pipe[CmpQ(i, k)] = {} /\ buf[CmpQ(i, k)] = {} /\ hold[Preproc(i, k)] = {}

InPipeline(r) ==
    \/ \E q \in Queues : r \in ReqsOf(buf[q]) \cup ReqsOf(pipe[q])
    \/ \E i \in Stages : r \in ReqsOf(qbuf[i])
    \/ \E p \in Procs : r \in ReqsOf(hold[p])

Degraded == main # "serving" \/ \E p \in Procs : pc[p] = "dead"

(* What has become of a request, in the terms of InferenceService.         *)
Fate ==
    [r \in Requests |->
        IF r \in unsent THEN "new"
        ELSE IF r \in topic THEN "queued"
        ELSE IF answers[r] # <<>> THEN answers[r][Len(answers[r])]
        ELSE IF InPipeline(r) THEN "pending" ELSE "lost"]

Service == INSTANCE InferenceService WITH fate <- Fate, degraded <- Degraded

(* The processes implement the service: every request taken over is        *)
(* answered once, failed exactly when a decoder, preprocessor, custom      *)
(* model or postprocessor of some stage raised on it, and lost only by a   *)
(* model that is being stopped or has lost a process.                      *)
ImplementsService == Service!Spec

(* A request that is taken over is answered, as long as the model is       *)
(* neither stopped nor loses a process: no queue, batch or reader thread   *)
(* keeps one back.                                                         *)
EveryRequestAnswered ==
    \A r \in Requests : InPipeline(r) ~> (answers[r] # <<>> \/ Degraded)

AllExited == \A p \in Procs : pc[p] = "exited"

(* Once the first stop flag is set every process exits by itself, stage    *)
(* after stage, unless one died or all are terminated.                     *)
StopReachesAll ==
    main = "stopping" ~>
        (AllExited \/ main = "killed" \/ \E p \in Procs : pc[p] = "dead")

(* The README, "NXS allows models to be shared and batched across multiple *)
(* users/sessions": the input process survives a second session.           *)
SharedModelSurvives == pc[Input(1)] # "dead"
=============================================================================
