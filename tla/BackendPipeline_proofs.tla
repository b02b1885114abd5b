----------------------- MODULE BackendPipeline_proofs -----------------------
(* Proofs about BackendPipeline for any number of requests, sessions,      *)
(* component models, preprocessors and output processes.                   *)
EXTENDS BackendPipeline, FiniteSetTheorems, WellFoundedInduction, TLAPS

(* The types of all that holds or has held requests, and of what controls  *)
(* the processes: TypeOK without the lists of sessions and the bounds.     *)
PipelineTypes ==
    /\ cmodel \in Cmodels
    /\ unsent \subseteq Requests /\ topic \subseteq Requests /\ rejected \subseteq Requests
    /\ main \in {"serving", "removed", "stopping", "killed"}
    /\ raised \subseteq Queues
    /\ buf \in [Queues -> SUBSET Batch] /\ pipe \in [Queues -> SUBSET Batch]
    /\ qbuf \in [Stages -> SUBSET Batch]
    /\ pc \in [Procs -> {"loop", "last", "exited", "dead"}]
    /\ hold \in [Procs -> SUBSET Batch]
    /\ answers \in [Requests -> Seq({"completed", "forwarded", "failed"})]

(* A stage and its parts.                                                  *)
LEMMA StageParts ==
    ASSUME cmodel \in Cmodels, NEW i \in Stages
    PROVE  /\ i \in Nat \ {0} /\ Len(cmodel) \in Nat
           /\ cmodel[i] \in Component
           /\ InQ(i) \in Queues /\ PreQ(i) \in Queues /\ OutQ(i) \in Queues
           /\ Input(i) \in Procs
           /\ \A k \in 1 .. cmodel[i].post : Output(i, k) \in Procs
           /\ \A k \in Preprocessors(i) :
                 ~ cmodel[i].custom /\ CmpQ(i, k) \in Queues /\ Preproc(i, k) \in Procs /\ Reader(i, k) \in Procs
           /\ ~ cmodel[i].custom => Compute(i) \in Procs
           /\ cmodel[i].custom => Custom(i) \in Procs
  <1>1. cmodel \in Seq(Component) /\ i \in 1 .. Len(cmodel)
    BY PipelineAssumption DEF Stages
  <1>2. i \in Nat \ {0} /\ Len(cmodel) \in Nat /\ cmodel[i] \in Component
    BY <1>1
  <1>3. InQ(i) \in Queues /\ PreQ(i) \in Queues /\ OutQ(i) \in Queues
    BY DEF Queues
  <1>4. \A k \in Preprocessors(i) : CmpQ(i, k) \in Queues
    BY DEF Queues
  <1>5. Processes(i) \subseteq Procs
    BY DEF Procs
  <1>6. Input(i) \in Processes(i) /\ \A k \in 1 .. cmodel[i].post : Output(i, k) \in Processes(i)
    BY DEF Processes, Outputs
  <1>7. \A k \in Preprocessors(i) : ~ cmodel[i].custom
    BY DEF Preprocessors
  <1>8. \A k \in Preprocessors(i) : Preproc(i, k) \in Processes(i) /\ Reader(i, k) \in Processes(i)
    BY <1>7 DEF Processes
  <1>9. /\ ~ cmodel[i].custom => Compute(i) \in Processes(i)
        /\ cmodel[i].custom => Custom(i) \in Processes(i)
    BY DEF Processes
  <1> QED
    BY <1>2, <1>3, <1>4, <1>5, <1>6, <1>7, <1>8, <1>9

LEMMA FirstStage ==
    ASSUME cmodel \in Cmodels
    PROVE  1 \in Stages
  <1>1. cmodel \in Seq(Component) /\ cmodel # <<>>
    BY PipelineAssumption
  <1> QED
    BY <1>1 DEF Stages

LEMMA NextStage ==
    ASSUME cmodel \in Cmodels, NEW i \in Stages, ~ IsLast(i)
    PROVE  i + 1 \in Stages
  BY StageParts DEF Stages, IsLast

(* The names that depend on the deployment stay what they are.             *)
LEMMA SameNames ==
    ASSUME cmodel' = cmodel
    PROVE  /\ Stages' = Stages /\ Queues' = Queues /\ Procs' = Procs
           /\ \A i \in Stages : Preprocessors(i)' = Preprocessors(i)
  BY DEF Stages, Queues, Procs, Preprocessors, Processes, Outputs

(* Names of different kinds differ.                                        *)
LEMMA Names ==
    ASSUME NEW i, NEW j, NEW k, NEW l
    PROVE  /\ InQ(i) # PreQ(j) /\ InQ(i) # CmpQ(j, k) /\ InQ(i) # OutQ(j)
           /\ PreQ(i) # CmpQ(j, k) /\ PreQ(i) # OutQ(j) /\ CmpQ(j, k) # OutQ(i)
           /\ CmpQ(i, k) = CmpQ(j, l) => i = j /\ k = l
           /\ Preproc(i, k) = Preproc(j, l) => i = j /\ k = l
           /\ Reader(i, k) = Reader(j, l) => i = j /\ k = l
           /\ Compute(i) = Compute(j) => i = j
           /\ Input(i) # Preproc(j, k) /\ Input(i) # Reader(j, k) /\ Input(i) # Compute(j)
           /\ Custom(i) # Preproc(j, k) /\ Custom(i) # Reader(j, k) /\ Custom(i) # Compute(j)
           /\ Output(i, l) # Preproc(j, k) /\ Output(i, l) # Reader(j, k) /\ Output(i, l) # Compute(j)
           /\ Preproc(i, l) # Reader(j, k) /\ Preproc(i, l) # Compute(j) /\ Reader(i, l) # Compute(j)
  BY DEF InQ, PreQ, CmpQ, OutQ, Input, Preproc, Reader, Compute, Custom, Output

-----------------------------------------------------------------------------
(* Types.                                                                  *)

Items == [req : Requests, ok : BOOLEAN]

LEMMA ItemTypes ==
    /\ Batch = SUBSET Items
    /\ \A x \in Items : x.req \in Requests /\ x.ok \in BOOLEAN
    /\ \A r \in Requests : \A ok \in BOOLEAN : Item(r, ok) \in Items /\ Item(r, ok).req = r /\ Item(r, ok).ok = ok
    /\ \A S \in SUBSET Batch : UNION S \subseteq Items
    /\ \A X \in SUBSET Items : Singletons(X) \subseteq Batch
  BY DEF Items, Batch, Item, Singletons

LEMMA PutTypes ==
    ASSUME NEW D, NEW f \in [D -> SUBSET Batch], NEW q \in D, NEW T \in SUBSET Batch
    PROVE  /\ Put(f, q, T) \in [D -> SUBSET Batch]
           /\ [f EXCEPT ![q] = @ \cup T] \in [D -> SUBSET Batch]
           /\ [f EXCEPT ![q] = @ \ T] \in [D -> SUBSET Batch]
           /\ [f EXCEPT ![q] = T] \in [D -> SUBSET Batch]
  BY DEF Put

(* The steps, one by one.                                                  *)
LEMMA NextCases ==
    ASSUME Next
    PROVE  \/ \E r \in Requests : Push(r)
           \/ \E s \in Sessions : AddSession(s)
           \/ \E s \in Sessions : RemoveSession(s)
           \/ SetStopFlag
           \/ Terminate
           \/ InputStep
           \/ \E q \in Queues : Feed(q)
           \/ \E i \in Stages : ForwardStep(i)
           \/ \E i \in Stages : \E k \in Preprocessors(i) : PreprocRead(i, k)
           \/ \E i \in Stages : \E k \in Preprocessors(i) : SendBatch(i, k)
           \/ \E i \in Stages : \E k \in Preprocessors(i) : PreprocExit(i, k)
           \/ \E i \in Stages : \E k \in Preprocessors(i) : ReaderRead(i, k)
           \/ \E i \in Stages : \E k \in Preprocessors(i) : ReaderExit(i, k)
           \/ \E i \in Stages : ~ cmodel[i].custom /\ Infer(i)
           \/ \E i \in Stages : ~ cmodel[i].custom /\ ComputeExit(i)
           \/ \E i \in Stages : ~ cmodel[i].custom /\ InferRaises(i)
           \/ \E i \in Stages : cmodel[i].custom /\ CustomRead(i)
           \/ \E i \in Stages : cmodel[i].custom /\ \E raises \in BOOLEAN : CustomInfer(i, raises)
           \/ \E i \in Stages : cmodel[i].custom /\ CustomExit(i)
           \/ \E i \in Stages : \E k \in 1 .. cmodel[i].post : OutputRead(i, k)
           \/ \E i \in Stages : \E k \in 1 .. cmodel[i].post : OutputStep(i, k)
           \/ \E i \in Stages : \E k \in 1 .. cmodel[i].post : OutputRaises(i, k)
           \/ \E i \in Stages : \E k \in 1 .. cmodel[i].post : OutputExit(i, k)
  BY Zenon DEF Next, MainStep, StageStep, PreprocStep, ReaderStep, ComputeStep, CustomStep, OutputProcess

LEMMA TypesBy ==
    ASSUME cmodel \in Cmodels, cmodel' = cmodel,
           unsent' \subseteq Requests, topic' \subseteq Requests, rejected' \subseteq Requests,
           main' \in {"serving", "removed", "stopping", "killed"},
           raised' \subseteq Queues,
           buf' \in [Queues -> SUBSET Batch], pipe' \in [Queues -> SUBSET Batch],
           qbuf' \in [Stages -> SUBSET Batch],
           pc' \in [Procs -> {"loop", "last", "exited", "dead"}],
           hold' \in [Procs -> SUBSET Batch],
           answers' \in [Requests -> Seq({"completed", "forwarded", "failed"})]
    PROVE  PipelineTypes'
  BY SameNames DEF PipelineTypes, Batch

LEMMA InitTypes ==
    ASSUME Init
    PROVE  PipelineTypes
  BY DEF Init, PipelineTypes, Batch

(* What a process reads is in the pipe.                                    *)
LEMMA ReadsInPipe ==
    ASSUME NEW q, NEW n
    PROVE  /\ \A S \in Taken(q, n) : S \subseteq pipe[q]
           /\ \A S \in Reads(q, n) : S \subseteq pipe[q]
  BY DEF Taken, Reads

LEMMA SetToSeqOf ==
    ASSUME NEW E
    PROVE  /\ SetToSeq({}) = <<>>
           /\ \A e \in E : SetToSeq({e}) = <<e>>
  <1>1. SetToSeq({}) = <<>>
    <2>1. Cardinality({}) = 0
      BY FS_EmptySet
    <2>2. \A f \in [1 .. 0 -> {}] : f = <<>>
      OBVIOUS
    <2>3. \E f \in [1 .. 0 -> {}] : IsInjective(f)
      <3>1. <<>> \in [1 .. 0 -> {}] /\ IsInjective(<<>>)
        BY DEF IsInjective
      <3> QED
        BY <3>1
    <2> QED
      BY <2>1, <2>2, <2>3 DEF SetToSeq
  <1>2. ASSUME NEW e \in E
        PROVE  SetToSeq({e}) = <<e>>
    <2>1. Cardinality({e}) = 1
      BY FS_Singleton
    <2>2. \A f \in [1 .. 1 -> {e}] : f = <<e>>
      OBVIOUS
    <2>3. \E f \in [1 .. 1 -> {e}] : IsInjective(f)
      <3>1. <<e>> \in [1 .. 1 -> {e}] /\ IsInjective(<<e>>)
        BY DEF IsInjective
      <3> QED
        BY <3>1
    <2> QED
      BY <2>1, <2>2, <2>3 DEF SetToSeq
  <1> QED
    BY <1>1, <1>2

-----------------------------------------------------------------------------
(* Who holds a request.  A slot is a batch and the place that holds it: a  *)
(* feeder thread, a pipe, the buffer of a compute process, or a process.   *)

Slots(kind, f) == UNION {{<<kind, x, b>> : b \in f[x]} : x \in DOMAIN f}
At(kind, x, S) == {<<kind, x, b>> : b \in S}

Held == Slots("buf", buf) \cup Slots("pipe", pipe) \cup Slots("qbuf", qbuf) \cup Slots("hold", hold)

(* A request is in one batch of one place, once.                           *)
Unique(H) == \A s, t \in H : \A i \in s[3], j \in t[3] : i.req = j.req => s = t /\ i = j
Carries(H, r) == \E s \in H : \E i \in s[3] : i.req = r
(* A request carries a failed status exactly when it was rejected.         *)
Honest(H, rej) == \A s \in H : \A i \in s[3] : i.ok <=> i.req \notin rej

Answered(r) ==
    \E o \in {"completed", "forwarded", "failed"} : answers[r] = <<o>> /\ (o = "failed" <=> r \in rejected)

(* A request that was not taken over is nowhere in the pipeline, nor is    *)
(* one that was answered, which happened once and with the right outcome.  *)
Apart ==
    \A r \in Requests :
        /\ r \in unsent => r \notin topic
        /\ r \in unsent \/ r \in topic => answers[r] = <<>> /\ r \notin rejected /\ ~ Carries(Held, r)
        /\ answers[r] # <<>> => ~ Carries(Held, r) /\ Answered(r)

CustodyInv == Unique(Held) /\ Honest(Held, rejected) /\ Apart

(* A place gets new contents.                                              *)
Becomes(f, g, q, T) ==
    /\ q \in DOMAIN f /\ DOMAIN g = DOMAIN f
    /\ g[q] = T /\ \A x \in DOMAIN f : x # q => g[x] = f[x]
Gains(f, g, q, S) == Becomes(f, g, q, f[q] \cup S)
Loses(f, g, q, S) == S \subseteq f[q] /\ Becomes(f, g, q, f[q] \ S)

LEMMA SlotsChange ==
    ASSUME NEW k, NEW f, NEW g, NEW q, NEW T, Becomes(f, g, q, T)
    PROVE  /\ Slots(k, g) = (Slots(k, f) \ At(k, q, f[q])) \cup At(k, q, T)
           /\ At(k, q, f[q]) \subseteq Slots(k, f)
           /\ \A S : At(k, q, S) \cap Slots(k, f) \subseteq At(k, q, f[q])
  <1> DEFINE In(e, s) == \E x \in DOMAIN e : \E b \in e[x] : s = <<k, x, b>>
  <1>1. \A e, s : s \in Slots(k, e) <=> In(e, s)
    BY DEF Slots
  <1>2. \A S, s : s \in At(k, q, S) <=> \E b \in S : s = <<k, q, b>>
    BY DEF At
  <1> HIDE DEF In
  <1>3. /\ \A s : In(g, s) => In(f, s) \/ s \in At(k, q, T)
        /\ \A s : In(g, s) /\ s \notin At(k, q, T) => s \notin At(k, q, f[q])
        /\ \A s : In(f, s) /\ s \notin At(k, q, f[q]) => In(g, s)
        /\ \A s \in At(k, q, T) : In(g, s)
    BY <1>2 DEF In, Becomes
  <1>4. \A s \in At(k, q, f[q]) : In(f, s)
    BY <1>2 DEF In, Becomes
  <1>5. \A S, s : s \in At(k, q, S) /\ In(f, s) => s \in At(k, q, f[q])
    BY <1>2 DEF In
  <1> QED
    BY <1>1, <1>3, <1>4, <1>5

LEMMA AtSets ==
    ASSUME NEW k, NEW q, NEW S, NEW T
    PROVE  /\ At(k, q, T \cup S) = At(k, q, T) \cup At(k, q, S)
           /\ At(k, q, T \ S) = At(k, q, T) \ At(k, q, S)
           /\ At(k, q, {}) = {}
           /\ S \subseteq T => At(k, q, S) \subseteq At(k, q, T)
  <1>1. \A X, s : s \in At(k, q, X) <=> \E b \in X : s = <<k, q, b>>
    BY DEF At
  <1> QED
    BY <1>1

LEMMA SlotsPut ==
    ASSUME NEW k, NEW f, NEW g, NEW q, NEW S, Gains(f, g, q, S)
    PROVE  Slots(k, g) = Slots(k, f) \cup At(k, q, S)
  <1> DEFINE T == f[q] \cup S
  <1>1. Becomes(f, g, q, T)
    BY DEF Gains
  <1>2. At(k, q, T) = At(k, q, f[q]) \cup At(k, q, S)
    BY AtSets
  <1> HIDE DEF T
  <1>3. /\ Slots(k, g) = (Slots(k, f) \ At(k, q, f[q])) \cup At(k, q, T)
        /\ At(k, q, f[q]) \subseteq Slots(k, f)
    BY <1>1, SlotsChange
  <1> QED
    BY <1>2, <1>3

LEMMA SlotsTake ==
    ASSUME NEW k, NEW f, NEW g, NEW q, NEW S, Loses(f, g, q, S)
    PROVE  Slots(k, g) = Slots(k, f) \ At(k, q, S) /\ At(k, q, S) \subseteq Slots(k, f)
  <1>1. /\ Slots(k, g) = (Slots(k, f) \ At(k, q, f[q])) \cup At(k, q, f[q] \ S)
        /\ At(k, q, f[q]) \subseteq Slots(k, f)
    BY SlotsChange DEF Loses
  <1>2. At(k, q, S) \subseteq At(k, q, f[q]) /\ At(k, q, f[q] \ S) = At(k, q, f[q]) \ At(k, q, S)
    BY AtSets DEF Loses
  <1> QED
    BY <1>1, <1>2

(* Places of different kinds are apart.                                    *)
LEMMA KindsApart ==
    /\ \A k, f : \A s \in Slots(k, f) : s[1] = k
    /\ \A k, x, S : \A s \in At(k, x, S) : s[1] = k
  BY DEF Slots, At

(* Handing over: the batches O are replaced by the batches N, which carry  *)
(* requests of O, or requests that were not held before.                   *)
Passes(H, O, N, G, rej, rejNext) ==
    /\ O \subseteq H /\ G = (H \ O) \cup N /\ rej \subseteq rejNext
    /\ Unique(H) /\ Unique(N) /\ Honest(H, rej) /\ Honest(N, rejNext)
    /\ \A r : Carries(N, r) => Carries(O, r) \/ ~ Carries(H, r)
    /\ \A r \in rejNext \ rej : Carries(O, r)

LEMMA HandOver ==
    ASSUME NEW H, NEW O, NEW N, NEW G, NEW rej, NEW rejNext, Passes(H, O, N, G, rej, rejNext)
    PROVE  /\ Unique(G)
           /\ Honest(G, rejNext)
           /\ \A r : Carries(G, r) => Carries(H, r) \/ Carries(N, r)
           /\ \A r : Carries(H, r) => Carries(G, r) \/ Carries(O, r)
           /\ \A r : Carries(N, r) => Carries(G, r)
           /\ \A r : Carries(O, r) => Carries(H, r)
           /\ \A r : Carries(O, r) /\ ~ Carries(N, r) => ~ Carries(G, r)
  <1> USE DEF Passes
  <1>1. ASSUME NEW s \in H \ O, NEW i \in s[3]
        PROVE  ~ Carries(O, i.req) /\ ~ Carries(N, i.req) /\ Carries(H, i.req)
    <2>1. ~ Carries(O, i.req)
      BY DEF Unique, Carries
    <2>2. Carries(H, i.req)
      BY DEF Carries
    <2> QED
      BY <2>1, <2>2
  <1>2. Unique(G)
    <2> SUFFICES ASSUME NEW s \in G, NEW u \in G, NEW i \in s[3], NEW j \in u[3],
                        i.req = j.req
                 PROVE  s = u /\ i = j
      BY DEF Unique
    <2>1. CASE s \in N /\ u \in N
      BY <2>1 DEF Unique
    <2>2. CASE s \in H \ O /\ u \in H \ O
      BY <2>2 DEF Unique
    <2>3. CASE s \in H \ O /\ u \in N
      BY <1>1, <2>3 DEF Carries
    <2>4. CASE s \in N /\ u \in H \ O
      BY <1>1, <2>4 DEF Carries
    <2> QED
      BY <2>1, <2>2, <2>3, <2>4
  <1>3. Honest(G, rejNext)
    <2> SUFFICES ASSUME NEW s \in G, NEW i \in s[3]
                 PROVE  i.ok <=> i.req \notin rejNext
      BY DEF Honest
    <2>1. CASE s \in N
      BY <2>1 DEF Honest
    <2>2. CASE s \in H \ O
      <3>1. i.req \notin rejNext \ rej
        BY <1>1, <2>2
      <3> QED
        BY <2>2, <3>1 DEF Honest
    <2> QED
      BY <2>1, <2>2
  <1>4. /\ \A r : Carries(G, r) => Carries(H, r) \/ Carries(N, r)
        /\ \A r : Carries(H, r) => Carries(G, r) \/ Carries(O, r)
        /\ \A r : Carries(N, r) => Carries(G, r)
        /\ \A r : Carries(O, r) => Carries(H, r)
    BY DEF Carries
  <1>5. \A r : Carries(O, r) /\ ~ Carries(N, r) => ~ Carries(G, r)
    BY <1>1 DEF Carries
  <1> QED
    BY <1>2, <1>3, <1>4, <1>5

(* What a step does to the requests.                                       *)
Handed ==
    /\ unsent' = unsent /\ topic' \subseteq topic /\ rejected \subseteq rejected'
    /\ Unique(Held)' /\ Honest(Held, rejected)'
    /\ \A r \in Requests :
          /\ Carries(Held, r)' => Carries(Held, r) \/ (r \in topic /\ r \notin topic')
          /\ \/ answers'[r] = answers[r]
             \/ Carries(Held, r) /\ ~ Carries(Held, r)' /\ Answered(r)'
          /\ r \in rejected' => r \in rejected \/ Carries(Held, r)

(* A step loses no request, unless the model is degraded after it.         *)
Kept ==
    /\ Degraded => Degraded'
    /\ \A r \in Requests :
          /\ r \in topic /\ r \notin topic' => Carries(Held, r)' \/ Degraded'
          /\ Carries(Held, r) => Carries(Held, r)' \/ answers'[r] # <<>> \/ Degraded'

LEMMA CustodyKept ==
    ASSUME CustodyInv, Handed
    PROVE  CustodyInv'
  <1>1. ASSUME NEW r \in Requests
        PROVE  /\ r \in unsent' => r \notin topic'
               /\ r \in unsent' \/ r \in topic' =>
                     answers'[r] = <<>> /\ r \notin rejected' /\ ~ Carries(Held, r)'
               /\ answers'[r] # <<>> => ~ Carries(Held, r)' /\ Answered(r)'
    <2>1. /\ r \in unsent => r \notin topic
          /\ r \in unsent \/ r \in topic => answers[r] = <<>> /\ r \notin rejected /\ ~ Carries(Held, r)
          /\ answers[r] # <<>> => ~ Carries(Held, r) /\ Answered(r)
      BY DEF CustodyInv, Apart
    <2>2. unsent' = unsent /\ topic' \subseteq topic /\ rejected \subseteq rejected'
      BY DEF Handed
    <2>3. /\ Carries(Held, r)' => Carries(Held, r) \/ (r \in topic /\ r \notin topic')
          /\ \/ answers'[r] = answers[r]
             \/ Carries(Held, r) /\ ~ Carries(Held, r)' /\ Answered(r)'
          /\ r \in rejected' => r \in rejected \/ Carries(Held, r)
      BY DEF Handed
    <2>4. answers'[r] = answers[r] /\ (r \in rejected <=> r \in rejected') /\ Answered(r) => Answered(r)'
      BY DEF Answered
    <2> QED
      BY <2>1, <2>2, <2>3, <2>4
  <1>2. Apart'
    BY <1>1 DEF Apart
  <1> QED
    BY <1>2 DEF CustodyInv, Handed

(* Steps that move no request.                                             *)
LEMMA NothingMoves ==
    ASSUME CustodyInv, UNCHANGED <<buf, pipe, qbuf, hold, unsent, topic, answers, rejected>>, Degraded => Degraded'
    PROVE  Handed /\ Kept
  <1>1. Held' = Held
    BY DEF Held
  <1> QED
    BY <1>1 DEF Handed, Kept, CustodyInv, Unique, Honest, Carries

-----------------------------------------------------------------------------
(* The fate of a request.                                                  *)

LEMMA SlotsCarry ==
    ASSUME NEW k, NEW d, NEW r
    PROVE  Carries(Slots(k, d), r) <=> \E x \in DOMAIN d : r \in ReqsOf(d[x])
  <1>1. \A s : s \in Slots(k, d) <=> \E x \in DOMAIN d : \E b \in d[x] : s = <<k, x, b>>
    BY DEF Slots
  <1>2. \A x \in DOMAIN d : r \in ReqsOf(d[x]) <=> \E b \in d[x] : \E i \in b : i.req = r
    BY DEF ReqsOf
  <1>3. ASSUME NEW s \in Slots(k, d), NEW i \in s[3], i.req = r
        PROVE  \E x \in DOMAIN d : r \in ReqsOf(d[x])
    <2>1. PICK x \in DOMAIN d : \E b \in d[x] : s = <<k, x, b>>
      BY <1>1
    <2>2. s[3] \in d[x]
      BY <2>1
    <2> QED
      BY <1>2, <1>3, <2>2
  <1>4. ASSUME NEW x \in DOMAIN d, r \in ReqsOf(d[x])
        PROVE  \E s \in Slots(k, d) : \E i \in s[3] : i.req = r
    <2>1. PICK b \in d[x] : \E i \in b : i.req = r
      BY <1>2, <1>4
    <2>2. <<k, x, b>> \in Slots(k, d) /\ <<k, x, b>>[3] = b
      BY <1>1
    <2> QED
      BY <2>1, <2>2
  <1> QED
    BY <1>3, <1>4 DEF Carries

LEMMA PipelineHolds ==
    ASSUME PipelineTypes, NEW r
    PROVE  InPipeline(r) <=> Carries(Held, r)
  <1>1. DOMAIN buf = Queues /\ DOMAIN pipe = Queues /\ DOMAIN qbuf = Stages /\ DOMAIN hold = Procs
    BY DEF PipelineTypes
  <1>2. Held = Slots("buf", buf) \cup Slots("pipe", pipe) \cup Slots("qbuf", qbuf) \cup Slots("hold", hold)
    BY DEF Held, Slots
  <1>3. Carries(Held, r) <=> Carries(Held, r)
    BY DEF Carries
  <1>4. /\ Carries(Slots("buf", buf), r) <=> \E x \in Queues : r \in ReqsOf(buf[x])
        /\ Carries(Slots("pipe", pipe), r) <=> \E x \in Queues : r \in ReqsOf(pipe[x])
        /\ Carries(Slots("qbuf", qbuf), r) <=> \E x \in Stages : r \in ReqsOf(qbuf[x])
        /\ Carries(Slots("hold", hold), r) <=> \E x \in Procs : r \in ReqsOf(hold[x])
    BY <1>1, SlotsCarry
  <1>5. Carries(Held, r) <=> \/ Carries(Slots("buf", buf), r) \/ Carries(Slots("pipe", pipe), r)
                             \/ Carries(Slots("qbuf", qbuf), r) \/ Carries(Slots("hold", hold), r)
    BY <1>2 DEF Carries
  <1>6. InPipeline(r) <=> \/ \E x \in Queues : r \in ReqsOf(buf[x])
                          \/ \E x \in Queues : r \in ReqsOf(pipe[x])
                          \/ \E x \in Stages : r \in ReqsOf(qbuf[x])
                          \/ \E x \in Procs : r \in ReqsOf(hold[x])
    BY DEF InPipeline, ReqsOf
  <1> QED
    BY <1>3, <1>4, <1>5, <1>6, Zenon

LEMMA PipelineHoldsNext ==
    ASSUME PipelineTypes', NEW r
    PROVE  InPipeline(r)' <=> Carries(Held, r)'
  <1>1. DOMAIN buf' = Queues' /\ DOMAIN pipe' = Queues' /\ DOMAIN qbuf' = Stages' /\ DOMAIN hold' = Procs'
    BY DEF PipelineTypes
  <1>2. Held' = Slots("buf", buf') \cup Slots("pipe", pipe') \cup Slots("qbuf", qbuf') \cup Slots("hold", hold')
    BY DEF Held, Slots
  <1>3. Carries(Held, r)' <=> Carries(Held', r)
    BY DEF Carries
  <1>4. /\ Carries(Slots("buf", buf'), r) <=> \E x \in Queues' : r \in ReqsOf(buf'[x])
        /\ Carries(Slots("pipe", pipe'), r) <=> \E x \in Queues' : r \in ReqsOf(pipe'[x])
        /\ Carries(Slots("qbuf", qbuf'), r) <=> \E x \in Stages' : r \in ReqsOf(qbuf'[x])
        /\ Carries(Slots("hold", hold'), r) <=> \E x \in Procs' : r \in ReqsOf(hold'[x])
    BY <1>1, SlotsCarry
  <1>5. Carries(Held', r) <=> \/ Carries(Slots("buf", buf'), r) \/ Carries(Slots("pipe", pipe'), r)
                              \/ Carries(Slots("qbuf", qbuf'), r) \/ Carries(Slots("hold", hold'), r)
    BY <1>2 DEF Carries
  <1>6. InPipeline(r)' <=> \/ \E x \in Queues' : r \in ReqsOf(buf'[x])
                           \/ \E x \in Queues' : r \in ReqsOf(pipe'[x])
                           \/ \E x \in Stages' : r \in ReqsOf(qbuf'[x])
                           \/ \E x \in Procs' : r \in ReqsOf(hold'[x])
    BY DEF InPipeline, ReqsOf
  <1> QED
    BY <1>3, <1>4, <1>5, <1>6, Zenon

(* A step that hands over and keeps the requests is a step of the service. *)
LEMMA ServeStep ==
    ASSUME PipelineTypes, PipelineTypes', CustodyInv, CustodyInv', Handed, Kept
    PROVE  Service!Serve
  <1>1. Degraded' \in {Degraded, TRUE}
    <2>1. Degraded \in BOOLEAN /\ Degraded' \in BOOLEAN /\ (Degraded => Degraded')
      BY DEF Kept, Degraded
    <2> QED
      BY <2>1
  <1>2. rejected' \in SUBSET Requests /\ rejected \subseteq rejected'
    BY DEF PipelineTypes, Handed
  <1> DEFINE fates == {"completed", "forwarded", "failed"}
  <1>3. ASSUME NEW r \in Requests
        PROVE  /\ Fate'[r] \in Service!Fates
               /\ Fate'[r] \in Service!MayBecome(r)
               /\ r \in rejected' /\ r \notin rejected => Fate[r] = "pending"
    <2>1. /\ Fate[r] = IF r \in unsent THEN "new"
                       ELSE IF r \in topic THEN "queued"
                       ELSE IF answers[r] # <<>> THEN answers[r][Len(answers[r])]
                       ELSE IF Carries(Held, r) THEN "pending" ELSE "lost"
          /\ Fate'[r] = IF r \in unsent' THEN "new"
                        ELSE IF r \in topic' THEN "queued"
                        ELSE IF answers'[r] # <<>> THEN answers'[r][Len(answers'[r])]
                        ELSE IF Carries(Held, r)' THEN "pending" ELSE "lost"
      BY PipelineHolds, PipelineHoldsNext DEF Fate
    <2>2. /\ r \in unsent => r \notin topic
          /\ r \in unsent \/ r \in topic => answers[r] = <<>> /\ r \notin rejected /\ ~ Carries(Held, r)
          /\ answers[r] # <<>> => ~ Carries(Held, r) /\ Answered(r)
      BY DEF CustodyInv, Apart
    <2>3. /\ r \in unsent' => r \notin topic'
          /\ r \in unsent' \/ r \in topic' => answers'[r] = <<>> /\ r \notin rejected' /\ ~ Carries(Held, r)'
          /\ answers'[r] # <<>> => ~ Carries(Held, r)' /\ Answered(r)'
      BY DEF CustodyInv, Apart
    <2>4. /\ unsent' = unsent /\ topic' \subseteq topic /\ rejected \subseteq rejected'
          /\ Carries(Held, r)' => Carries(Held, r) \/ (r \in topic /\ r \notin topic')
          /\ \/ answers'[r] = answers[r]
             \/ Carries(Held, r) /\ ~ Carries(Held, r)' /\ Answered(r)'
          /\ r \in rejected' => r \in rejected \/ Carries(Held, r)
      BY DEF Handed
    <2>5. /\ r \in topic /\ r \notin topic' => Carries(Held, r)' \/ Degraded'
          /\ Carries(Held, r) => Carries(Held, r)' \/ answers'[r] # <<>> \/ Degraded'
      BY DEF Kept
    <2>6. /\ answers[r] # <<>> => answers[r][Len(answers[r])] \in fates
          /\ answers'[r] # <<>> =>
                /\ answers'[r][Len(answers'[r])] \in fates
                /\ answers'[r][Len(answers'[r])] = "failed" <=> r \in rejected'
      <3>1. \A o : Len(<<o>>) = 1 /\ <<o>>[1] = o
        OBVIOUS
      <3> QED
        BY <2>2, <2>3, <3>1 DEF Answered
    <2>7. Fate'[r] \in Service!Fates
      BY <2>1, <2>6 DEF Service!Fates
    <2>8. r \in rejected' /\ r \notin rejected => Fate[r] = "pending"
      BY <2>1, <2>2, <2>4
    <2>9. CASE r \in unsent
      <3>1. Fate'[r] = "new" /\ Fate[r] = "new"
        BY <2>1, <2>4, <2>9
      <3>2. Service!MayBecome(r) = {Fate[r]}
        BY <3>1, Zenon DEF Service!MayBecome
      <3> QED
        BY <2>7, <2>8, <3>1, <3>2
    <2>10. CASE r \notin unsent /\ r \in topic
      <3>1. Fate[r] = "queued"
        BY <2>1, <2>10
      <3>2. answers'[r] = <<>> /\ r \notin unsent'
        BY <2>2, <2>4, <2>10
      <3>3. Fate'[r] \in {"queued", "pending"} \/ (Fate'[r] = "lost" /\ Degraded')
        BY <2>1, <2>5, <2>10, <3>2
      <3>4. Service!MayBecome(r) = {"queued", "pending"} \cup (IF Degraded' THEN {"lost"} ELSE {})
        BY <3>1 DEF Service!MayBecome
      <3> QED
        BY <2>7, <2>8, <3>3, <3>4
    <2>11. CASE r \notin unsent /\ r \notin topic /\ answers[r] # <<>>
      <3>1. Fate[r] = answers[r][Len(answers[r])] /\ Fate[r] \in fates
        BY <2>1, <2>6, <2>11
      <3>2. answers'[r] = answers[r] /\ r \notin unsent' /\ r \notin topic'
        BY <2>2, <2>4, <2>11
      <3>3. Fate'[r] = Fate[r]
        BY <2>1, <2>11, <3>2
      <3>4. Fate[r] # "queued" /\ Fate[r] # "pending"
        BY <3>1
      <3>5. Service!MayBecome(r) = {Fate[r]}
        BY <3>4, Zenon DEF Service!MayBecome
      <3> QED
        BY <2>7, <2>8, <3>3, <3>5
    <2>12. CASE r \notin unsent /\ r \notin topic /\ answers[r] = <<>> /\ Carries(Held, r)
      <3>1. Fate[r] = "pending" /\ r \notin unsent' /\ r \notin topic'
        BY <2>1, <2>4, <2>12
      <3>2. \/ Fate'[r] = "pending"
            \/ Fate'[r] \in fates /\ (Fate'[r] = "failed" <=> r \in rejected')
            \/ Fate'[r] = "lost" /\ Degraded'
        BY <2>1, <2>5, <2>6, <2>12, <3>1
      <3>3. Service!MayBecome(r) = {"pending"} \cup Service!Outcome(r) \cup (IF Degraded' THEN {"lost"} ELSE {})
        BY <3>1 DEF Service!MayBecome
      <3>4. Service!Outcome(r) = IF r \in rejected' THEN {"failed"} ELSE {"completed", "forwarded"}
        BY DEF Service!Outcome
      <3> QED
        BY <2>7, <2>8, <3>2, <3>3, <3>4
    <2>13. CASE r \notin unsent /\ r \notin topic /\ answers[r] = <<>> /\ ~ Carries(Held, r)
      <3>1. Fate[r] = "lost" /\ Fate'[r] = "lost"
        BY <2>1, <2>4, <2>13
      <3>2. Service!MayBecome(r) = {Fate[r]}
        BY <3>1, Zenon DEF Service!MayBecome
      <3> QED
        BY <2>7, <2>8, <3>1, <3>2
    <2> QED
      BY <2>9, <2>10, <2>11, <2>12, <2>13
  <1>4. Fate' \in [Requests -> Service!Fates]
    <2>1. Fate' = [r \in Requests |-> Fate'[r]]
      BY DEF Fate
    <2>2. \A r \in Requests : Fate'[r] \in Service!Fates
      BY <1>3
    <2> QED
      BY <2>1, <2>2
  <1>5. /\ \A r \in rejected' \ rejected : Fate[r] = "pending"
        /\ \A r \in Requests : Fate'[r] \in Service!MayBecome(r)
    BY <1>2, <1>3
  <1> QED
    BY <1>1, <1>2, <1>4, <1>5, Zenon DEF Service!Serve

-----------------------------------------------------------------------------
(* The steps that move requests.                                           *)

Clean(T) == \A b, c \in T : \A i \in b, j \in c : i.req = j.req => b = c /\ i = j

LEMMA AtIs ==
    ASSUME NEW k, NEW x, NEW T
    PROVE  /\ Unique(At(k, x, T)) <=> Clean(T)
           /\ \A r : Carries(At(k, x, T), r) <=> r \in ReqsOf(T)
           /\ \A rej : Honest(At(k, x, T), rej) <=> \A i \in UNION T : i.ok <=> i.req \notin rej
           /\ \A r : r \in ReqsOf(T) <=> \E i \in UNION T : i.req = r
           /\ Clean(T) => \A i, j \in UNION T : i.req = j.req => i = j
  <1>1. \A s : s \in At(k, x, T) <=> \E b \in T : s = <<k, x, b>>
    BY DEF At
  <1>2. \A b \in T : <<k, x, b>> \in At(k, x, T) /\ <<k, x, b>>[3] = b
    BY <1>1
  <1>3. \A s \in At(k, x, T) : s[3] \in T /\ s = <<k, x, s[3]>>
    BY <1>1
  <1>4. Unique(At(k, x, T)) => Clean(T)
    <2> SUFFICES ASSUME Unique(At(k, x, T)), NEW b \in T, NEW c \in T, NEW i \in b, NEW j \in c, i.req = j.req
                 PROVE  b = c /\ i = j
      BY DEF Clean
    <2>1. PICK s \in At(k, x, T) : s = <<k, x, b>> /\ s[3] = b
      BY <1>2
    <2>2. PICK u \in At(k, x, T) : u = <<k, x, c>> /\ u[3] = c
      BY <1>2
    <2>3. s = u /\ i = j
      BY <2>1, <2>2 DEF Unique
    <2> QED
      BY <2>1, <2>2, <2>3
  <1>5. Clean(T) => Unique(At(k, x, T))
    BY <1>3 DEF Unique, Clean
  <1>6. \A r : r \in ReqsOf(T) <=> \E i \in UNION T : i.req = r
    BY DEF ReqsOf
  <1>7. \A r : Carries(At(k, x, T), r) <=> r \in ReqsOf(T)
    BY <1>2, <1>3, <1>6 DEF Carries
  <1>8. \A rej : Honest(At(k, x, T), rej) <=> \A i \in UNION T : i.ok <=> i.req \notin rej
    BY <1>2, <1>3 DEF Honest
  <1>9. Clean(T) => \A i, j \in UNION T : i.req = j.req => i = j
    BY DEF Clean
  <1> QED
    BY <1>4, <1>5, <1>6, <1>7, <1>8, <1>9

(* What is known of the batches that are taken from a place.               *)
LEMMA TakenBatches ==
    ASSUME NEW k, NEW x, NEW S, At(k, x, S) \subseteq Held, CustodyInv
    PROVE  /\ Clean(S)
           /\ \A i, j \in UNION S : i.req = j.req => i = j
           /\ \A i \in UNION S : i.ok <=> i.req \notin rejected
           /\ Unique(At(k, x, S))
  <1>1. Unique(At(k, x, S)) /\ Honest(At(k, x, S), rejected)
    BY DEF CustodyInv, Unique, Honest
  <1> QED
    BY <1>1, AtIs

(* A step that replaces the batches O by N.                                *)
LEMMA Moved ==
    ASSUME CustodyInv, NEW O, NEW N,
           O \subseteq Held, Held' = (Held \ O) \cup N,
           Unique(N), Honest(N, rejected'),
           \A r : Carries(N, r) => Carries(O, r),
           rejected \subseteq rejected', \A r \in rejected' \ rejected : Carries(O, r),
           UNCHANGED <<unsent, topic, answers>>
    PROVE  /\ Handed
           /\ (\A r : Carries(O, r) => Carries(N, r)) /\ (Degraded => Degraded') => Kept
  <1> DEFINE H == Held'
  <1>2. /\ Unique(H) /\ Honest(H, rejected')
        /\ \A r : Carries(H, r) => Carries(Held, r) \/ Carries(N, r)
        /\ \A r : Carries(Held, r) => Carries(H, r) \/ Carries(O, r)
        /\ \A r : Carries(N, r) => Carries(H, r)
        /\ \A r : Carries(O, r) => Carries(Held, r)
    <2>1. Passes(Held, O, N, Held', rejected, rejected')
      BY DEF CustodyInv, Passes
    <2> QED
      BY <2>1, HandOver
  <1>3. /\ Unique(Held)' /\ Honest(Held, rejected)'
        /\ \A r : Carries(Held, r)' <=> Carries(H, r)
    BY <1>2 DEF Unique, Honest, Carries
  <1>4. Handed
    BY <1>2, <1>3 DEF Handed
  <1>5. ASSUME \A r : Carries(O, r) => Carries(N, r), Degraded => Degraded'
        PROVE  Kept
    BY <1>2, <1>3, <1>5 DEF Kept
  <1> QED
    BY <1>4, <1>5

LEMMA HeldParts ==
    /\ Held = Slots("buf", buf) \cup Slots("pipe", pipe) \cup Slots("qbuf", qbuf) \cup Slots("hold", hold)
    /\ Held' = Slots("buf", buf') \cup Slots("pipe", pipe') \cup Slots("qbuf", qbuf') \cup Slots("hold", hold')
  BY DEF Held, Slots

LEMMA DegradedKept ==
    ASSUME PipelineTypes, cmodel' = cmodel, main' = main,
           \A p \in Procs : pc[p] = "dead" => pc'[p] = "dead"
    PROVE  Degraded => Degraded'
  BY SameNames DEF Degraded

(* Batches that are passed on as they are.                                 *)
LEMMA SameBatches ==
    ASSUME NEW k, NEW x, NEW l, NEW y, NEW S, At(k, x, S) \subseteq Held, CustodyInv
    PROVE  /\ Unique(At(l, y, S)) /\ Honest(At(l, y, S), rejected)
           /\ \A r : Carries(At(l, y, S), r) <=> Carries(At(k, x, S), r)
  <1>1. Clean(S) /\ \A i \in UNION S : i.ok <=> i.req \notin rejected
    BY TakenBatches
  <1>2. Unique(At(l, y, S)) /\ Honest(At(l, y, S), rejected)
    BY <1>1, AtIs
  <1>3. /\ \A r : Carries(At(l, y, S), r) <=> r \in ReqsOf(S)
        /\ \A r : Carries(At(k, x, S), r) <=> r \in ReqsOf(S)
    BY AtIs
  <1> QED
    BY <1>2, <1>3

LEMMA FeedMoves ==
    ASSUME PipelineTypes, CustodyInv, NEW q \in Queues, Feed(q)
    PROVE  PipelineTypes' /\ Handed /\ Kept
  <1>1. PICK S : /\ S \subseteq buf[q]
                 /\ buf' = [buf EXCEPT ![q] = @ \ S]
                 /\ pipe' = [pipe EXCEPT ![q] = @ \cup S]
    BY DEF Feed
  <1>2. UNCHANGED <<cmodel, main, raised, qbuf, pc, hold, topic, unsent, answers, rejected>>
    BY DEF Feed, wiring, procs, tasks
  <1>3. buf \in [Queues -> SUBSET Batch] /\ pipe \in [Queues -> SUBSET Batch] /\ S \subseteq Batch
    BY <1>1 DEF PipelineTypes
  <1>4. PipelineTypes'
    BY <1>1, <1>2, <1>3, PutTypes, TypesBy DEF PipelineTypes
  <1> DEFINE O == At("buf", q, S)
             N == At("pipe", q, S)
  <1>5. /\ Slots("buf", buf') = Slots("buf", buf) \ O
        /\ Slots("pipe", pipe') = Slots("pipe", pipe) \cup N
        /\ O \subseteq Slots("buf", buf)
    <2>1. Loses(buf, buf', q, S) /\ Gains(pipe, pipe', q, S)
      BY <1>1, <1>3 DEF Loses, Gains, Becomes
    <2> QED
      BY <2>1, SlotsTake, SlotsPut
  <1>6. /\ \A s \in O : s[1] = "buf"
        /\ \A s \in Slots("pipe", pipe) \cup Slots("qbuf", qbuf) \cup Slots("hold", hold) \cup N : s[1] # "buf"
    BY KindsApart
  <1>7. O \subseteq Held /\ Held' = (Held \ O) \cup N
    BY <1>2, <1>5, <1>6, HeldParts
  <1>8. Unique(N) /\ Honest(N, rejected') /\ \A r : Carries(N, r) <=> Carries(O, r)
    BY <1>2, <1>7, SameBatches
  <1>9. Degraded => Degraded'
    BY <1>2, DegradedKept
  <1> QED
    BY <1>2, <1>4, <1>7, <1>8, <1>9, Moved

LEMMA ForwardMoves ==
    ASSUME PipelineTypes, CustodyInv, NEW i \in Stages, ForwardStep(i)
    PROVE  PipelineTypes' /\ Handed /\ Kept
  <1>0. InQ(i) \in Queues /\ PreQ(i) \in Queues /\ Input(i) \in Procs
    BY StageParts DEF PipelineTypes
  <1>1. PICK S : /\ S \subseteq pipe[InQ(i)]
                 /\ pipe' = [pipe EXCEPT ![InQ(i)] = @ \ S]
                 /\ buf' = Put(buf, PreQ(i), S)
    BY ReadsInPipe DEF ForwardStep
  <1>2. UNCHANGED <<cmodel, main, qbuf, hold, topic, unsent, answers, rejected>>
    BY DEF ForwardStep, wiring, tasks
  <1>3. buf \in [Queues -> SUBSET Batch] /\ pipe \in [Queues -> SUBSET Batch] /\ S \subseteq Batch
    BY <1>0, <1>1 DEF PipelineTypes
  <1>4. /\ raised' \subseteq Queues /\ pc' \in [Procs -> {"loop", "last", "exited", "dead"}]
        /\ \A p \in Procs : pc[p] = "dead" => pc'[p] = "dead"
    <2>1. pc[Input(i)] = "loop" /\ (pc' = pc \/ \E v \in {"loop", "last", "exited"} : pc' = [pc EXCEPT ![Input(i)] = v]) /\ raised' \in {raised, raised \cup {PreQ(i)}}
      BY DEF ForwardStep, Looks, After, SetNextFlag, queues, procs
    <2> QED
      BY <1>0, <1>2, <2>1 DEF PipelineTypes
  <1>5. PipelineTypes'
    BY <1>0, <1>1, <1>2, <1>3, <1>4, PutTypes, TypesBy DEF PipelineTypes
  <1> DEFINE O == At("pipe", InQ(i), S)
             N == At("buf", PreQ(i), S)
  <1>6. /\ Slots("pipe", pipe') = Slots("pipe", pipe) \ O
        /\ Slots("buf", buf') = Slots("buf", buf) \cup N
        /\ O \subseteq Slots("pipe", pipe)
    <2>1. Loses(pipe, pipe', InQ(i), S) /\ Gains(buf, buf', PreQ(i), S)
      BY <1>0, <1>1, <1>3 DEF Loses, Gains, Becomes, Put
    <2>2. Slots("pipe", pipe') = Slots("pipe", pipe) \ O /\ O \subseteq Slots("pipe", pipe)
      BY <2>1, SlotsTake
    <2>3. Slots("buf", buf') = Slots("buf", buf) \cup N
      BY <2>1, SlotsPut
    <2> QED
      BY <2>2, <2>3
  <1>7. /\ \A s \in O : s[1] = "pipe"
        /\ \A s \in Slots("buf", buf) \cup Slots("qbuf", qbuf) \cup Slots("hold", hold) \cup N : s[1] # "pipe"
    BY KindsApart
  <1>8. O \subseteq Held /\ Held' = (Held \ O) \cup N
    BY <1>2, <1>6, <1>7, HeldParts
  <1>9. Unique(N) /\ Honest(N, rejected') /\ \A r : Carries(N, r) <=> Carries(O, r)
    BY <1>2, <1>8, SameBatches
  <1>10. Degraded => Degraded'
    BY <1>2, <1>4, DegradedKept
  <1> QED
    BY <1>2, <1>5, <1>8, <1>9, <1>10, Moved

LEMMA ReaderMoves ==
    ASSUME PipelineTypes, CustodyInv, NEW i \in Stages, NEW k \in Preprocessors(i), ReaderRead(i, k)
    PROVE  PipelineTypes' /\ Handed /\ Kept
  <1>0. CmpQ(i, k) \in Queues
    BY StageParts DEF PipelineTypes
  <1>1. PICK S : /\ S \subseteq pipe[CmpQ(i, k)]
                 /\ pipe' = [pipe EXCEPT ![CmpQ(i, k)] = @ \ S]
                 /\ qbuf' = [qbuf EXCEPT ![i] = @ \cup S]
    BY ReadsInPipe DEF ReaderRead
  <1>2. UNCHANGED <<cmodel, main, raised, buf, pc, hold, topic, unsent, answers, rejected>>
    BY DEF ReaderRead, wiring, procs, tasks
  <1>3. pipe \in [Queues -> SUBSET Batch] /\ qbuf \in [Stages -> SUBSET Batch] /\ S \subseteq Batch
    BY <1>0, <1>1 DEF PipelineTypes
  <1>4. /\ raised' \subseteq Queues /\ pc' \in [Procs -> {"loop", "last", "exited", "dead"}]
        /\ \A p \in Procs : pc[p] = "dead" => pc'[p] = "dead"
    BY <1>2 DEF PipelineTypes
  <1>5. PipelineTypes'
    BY <1>0, <1>1, <1>2, <1>3, <1>4, PutTypes, TypesBy DEF PipelineTypes
  <1> DEFINE O == At("pipe", CmpQ(i, k), S)
             N == At("qbuf", i, S)
  <1>6. /\ Slots("pipe", pipe') = Slots("pipe", pipe) \ O
        /\ Slots("qbuf", qbuf') = Slots("qbuf", qbuf) \cup N
        /\ O \subseteq Slots("pipe", pipe)
    <2>1. Loses(pipe, pipe', CmpQ(i, k), S) /\ Gains(qbuf, qbuf', i, S)
      BY <1>0, <1>1, <1>3 DEF Loses, Gains, Becomes, Put
    <2>2. Slots("pipe", pipe') = Slots("pipe", pipe) \ O /\ O \subseteq Slots("pipe", pipe)
      BY <2>1, SlotsTake
    <2>3. Slots("qbuf", qbuf') = Slots("qbuf", qbuf) \cup N
      BY <2>1, SlotsPut
    <2> QED
      BY <2>2, <2>3
  <1>7. /\ \A s \in O : s[1] = "pipe"
        /\ \A s \in Slots("buf", buf) \cup Slots("qbuf", qbuf) \cup Slots("hold", hold) \cup N : s[1] # "pipe"
    BY KindsApart
  <1>8. O \subseteq Held /\ Held' = (Held \ O) \cup N
    BY <1>2, <1>6, <1>7, HeldParts
  <1>9. Unique(N) /\ Honest(N, rejected') /\ \A r : Carries(N, r) <=> Carries(O, r)
    BY <1>2, <1>8, SameBatches
  <1>10. Degraded => Degraded'
    BY <1>2, <1>4, DegradedKept
  <1> QED
    BY <1>2, <1>5, <1>8, <1>9, <1>10, Moved

LEMMA OutputReads ==
    ASSUME PipelineTypes, CustodyInv, NEW i \in Stages, NEW k \in 1 .. cmodel[i].post, OutputRead(i, k)
    PROVE  PipelineTypes' /\ Handed /\ Kept
  <1>0. OutQ(i) \in Queues /\ Output(i, k) \in Procs
    BY StageParts DEF PipelineTypes
  <1>1. PICK S : /\ S \subseteq pipe[OutQ(i)]
                 /\ pipe' = [pipe EXCEPT ![OutQ(i)] = @ \ S]
                 /\ hold' = [hold EXCEPT ![Output(i, k)] = S]
                 /\ hold[Output(i, k)] = {}
    BY ReadsInPipe DEF OutputRead
  <1>2. UNCHANGED <<cmodel, main, raised, buf, qbuf, topic, unsent, answers, rejected>>
    BY DEF OutputRead, wiring, tasks
  <1>3. pipe \in [Queues -> SUBSET Batch] /\ hold \in [Procs -> SUBSET Batch] /\ S \subseteq Batch
    BY <1>0, <1>1 DEF PipelineTypes
  <1>4. /\ raised' \subseteq Queues /\ pc' \in [Procs -> {"loop", "last", "exited", "dead"}]
        /\ \A p \in Procs : pc[p] = "dead" => pc'[p] = "dead"
    <2>1. pc[Output(i, k)] = "loop" /\ (pc' = pc \/ \E v \in {"loop", "last", "exited"} : pc' = [pc EXCEPT ![Output(i, k)] = v])
      BY DEF OutputRead, Looks, After, SetNextFlag, queues, procs
    <2> QED
      BY <1>0, <1>2, <2>1 DEF PipelineTypes
  <1>5. PipelineTypes'
    BY <1>0, <1>1, <1>2, <1>3, <1>4, PutTypes, TypesBy DEF PipelineTypes
  <1> DEFINE O == At("pipe", OutQ(i), S)
             N == At("hold", Output(i, k), S)
  <1>6. /\ Slots("pipe", pipe') = Slots("pipe", pipe) \ O
        /\ Slots("hold", hold') = Slots("hold", hold) \cup N
        /\ O \subseteq Slots("pipe", pipe)
    <2>1. Loses(pipe, pipe', OutQ(i), S) /\ Gains(hold, hold', Output(i, k), S)
      BY <1>0, <1>1, <1>3 DEF Loses, Gains, Becomes, Put
    <2>2. Slots("pipe", pipe') = Slots("pipe", pipe) \ O /\ O \subseteq Slots("pipe", pipe)
      BY <2>1, SlotsTake
    <2>3. Slots("hold", hold') = Slots("hold", hold) \cup N
      BY <2>1, SlotsPut
    <2> QED
      BY <2>2, <2>3
  <1>7. /\ \A s \in O : s[1] = "pipe"
        /\ \A s \in Slots("buf", buf) \cup Slots("qbuf", qbuf) \cup Slots("hold", hold) \cup N : s[1] # "pipe"
    BY KindsApart
  <1>8. O \subseteq Held /\ Held' = (Held \ O) \cup N
    BY <1>2, <1>6, <1>7, HeldParts
  <1>9. Unique(N) /\ Honest(N, rejected') /\ \A r : Carries(N, r) <=> Carries(O, r)
    BY <1>2, <1>8, SameBatches
  <1>10. Degraded => Degraded'
    BY <1>2, <1>4, DegradedKept
  <1> QED
    BY <1>2, <1>5, <1>8, <1>9, <1>10, Moved

LEMMA AtSound ==
    ASSUME NEW k, NEW x, NEW T, NEW rej, Clean(T), \A i \in UNION T : i.ok <=> i.req \notin rej
    PROVE  Unique(At(k, x, T)) /\ Honest(At(k, x, T), rej)
  BY AtIs

(* Batches of one item, each with the status its request has now.          *)
Relabels(S, T, rej) ==
    \A b \in T : \E y \in Items : b = {y} /\ y.req \in ReqsOf(S) /\ (y.ok <=> y.req \notin rej)

LEMMA Relabelled ==
    ASSUME NEW S, NEW T, NEW rej, Relabels(S, T, rej), NEW l, NEW y
    PROVE  /\ T \subseteq Batch /\ Clean(T)
           /\ Unique(At(l, y, T)) /\ Honest(At(l, y, T), rej)
           /\ ReqsOf(T) \subseteq ReqsOf(S)
  <1>1. T \subseteq Batch
    BY ItemTypes DEF Relabels
  <1>2. \A i \in UNION T : i \in Items /\ i.req \in ReqsOf(S) /\ (i.ok <=> i.req \notin rej)
    BY DEF Relabels
  <1>3. \A i, j \in Items : i.req = j.req /\ (i.ok <=> j.ok) => i = j
    BY DEF Items
  <1>4. Clean(T)
    <2> SUFFICES ASSUME NEW b \in T, NEW c \in T, NEW i \in b, NEW j \in c, i.req = j.req
                 PROVE  b = c /\ i = j
      BY DEF Clean
    <2>1. i \in UNION T /\ j \in UNION T
      OBVIOUS
    <2>2. i = j
      BY <1>2, <1>3, <2>1
    <2>3. b = {i} /\ c = {j}
      BY DEF Relabels
    <2> QED
      BY <2>2, <2>3
  <1>5. Unique(At(l, y, T)) /\ Honest(At(l, y, T), rej)
    BY <1>2, <1>4, AtSound
  <1>6. ReqsOf(T) \subseteq ReqsOf(S)
    BY <1>2 DEF ReqsOf
  <1> QED
    BY <1>1, <1>4, <1>5, <1>6

LEMMA CarriedBy ==
    ASSUME NEW k, NEW x, NEW S, NEW l, NEW y, NEW T
    PROVE  /\ ReqsOf(T) \subseteq ReqsOf(S) => \A r : Carries(At(l, y, T), r) => Carries(At(k, x, S), r)
           /\ ReqsOf(S) \subseteq ReqsOf(T) => \A r : Carries(At(k, x, S), r) => Carries(At(l, y, T), r)
           /\ \A r : Carries(At(k, x, S), r) <=> r \in ReqsOf(S)
  <1>1. /\ \A r : Carries(At(k, x, S), r) <=> r \in ReqsOf(S)
        /\ \A r : Carries(At(l, y, T), r) <=> r \in ReqsOf(T)
    BY AtIs
  <1> QED
    BY <1>1

LEMMA BatchMoves ==
    ASSUME PipelineTypes, CustodyInv, NEW i \in Stages, NEW k \in Preprocessors(i), SendBatch(i, k)
    PROVE  PipelineTypes' /\ Handed /\ Kept
  <1>0. CmpQ(i, k) \in Queues /\ Preproc(i, k) \in Procs
    BY StageParts DEF PipelineTypes
  <1>1. PICK S : /\ S \subseteq hold[Preproc(i, k)]
                 /\ hold' = [hold EXCEPT ![Preproc(i, k)] = @ \ S]
                 /\ buf' = Put(buf, CmpQ(i, k), {UNION S})
    BY DEF SendBatch, kSubset
  <1>2. UNCHANGED <<cmodel, main, raised, pipe, qbuf, pc, topic, unsent, answers, rejected>>
    BY DEF SendBatch, wiring, tasks
  <1>3. buf \in [Queues -> SUBSET Batch] /\ hold \in [Procs -> SUBSET Batch] /\ S \subseteq Batch
    BY <1>0, <1>1 DEF PipelineTypes
  <1>4. /\ raised' \subseteq Queues /\ pc' \in [Procs -> {"loop", "last", "exited", "dead"}]
        /\ \A p \in Procs : pc[p] = "dead" => pc'[p] = "dead"
    BY <1>2 DEF PipelineTypes
  <1> DEFINE T == {UNION S}
             O == At("hold", Preproc(i, k), S)
             N == At("buf", CmpQ(i, k), T)
  <1>5. At("hold", Preproc(i, k), S) \subseteq Held
    <2>1. Loses(hold, hold', Preproc(i, k), S)
      BY <1>0, <1>1, <1>3 DEF Loses, Becomes
    <2> QED
      BY <2>1, SlotsTake, HeldParts
  <1>6. /\ Clean(S)
        /\ \A x, y \in UNION S : x.req = y.req => x = y
        /\ \A x \in UNION S : x \in Items /\ x.req \in Requests /\ (x.ok <=> x.req \notin rejected)
        /\ \A r : r \in ReqsOf(S) <=> \E x \in UNION S : x.req = r
        /\ ReqsOf(S) \subseteq Requests
    <2>1. /\ Clean(S)
          /\ \A x, y \in UNION S : x.req = y.req => x = y
          /\ \A x \in UNION S : x.ok <=> x.req \notin rejected
      BY <1>5, TakenBatches
    <2>2. UNION S \subseteq Items /\ \A x \in UNION S : x.req \in Requests
      BY <1>3, ItemTypes
    <2>3. \A r : r \in ReqsOf(S) <=> \E x \in UNION S : x.req = r
      BY DEF ReqsOf
    <2> QED
      BY <2>1, <2>2, <2>3
  <1>7. /\ T \subseteq Batch /\ Unique(N) /\ Honest(N, rejected')
        /\ ReqsOf(T) \subseteq ReqsOf(S) /\ ReqsOf(S) \subseteq ReqsOf(T)
    <2>1. UNION T = UNION S
      OBVIOUS
    <2>2. T \subseteq Batch
      BY <1>6, ItemTypes
    <2>3. Clean(T)
      BY <1>6 DEF Clean
    <2>4. ReqsOf(T) = ReqsOf(S)
      BY <2>1 DEF ReqsOf
    <2>5. \A x \in UNION T : x.ok <=> x.req \notin rejected'
      BY <1>2, <1>6, <2>1
    <2> HIDE DEF T
    <2>6. Unique(N) /\ Honest(N, rejected')
      BY <2>3, <2>5, AtSound
    <2> QED
      BY <2>2, <2>4, <2>6
  <1>8. rejected' = rejected /\ rejected' \subseteq Requests
    BY <1>2 DEF PipelineTypes
  <1>9. PipelineTypes'
    BY <1>0, <1>1, <1>2, <1>3, <1>4, <1>7, <1>8, PutTypes, TypesBy DEF PipelineTypes
  <1> HIDE DEF T
  <1>10. /\ Slots("hold", hold') = Slots("hold", hold) \ O
        /\ Slots("buf", buf') = Slots("buf", buf) \cup N
        /\ O \subseteq Slots("hold", hold)
    <2>1. Loses(hold, hold', Preproc(i, k), S) /\ Gains(buf, buf', CmpQ(i, k), T)
      BY <1>0, <1>1, <1>3 DEF Loses, Gains, Becomes, Put, T
    <2>2. Slots("hold", hold') = Slots("hold", hold) \ O /\ O \subseteq Slots("hold", hold)
      BY <2>1, SlotsTake
    <2>3. Slots("buf", buf') = Slots("buf", buf) \cup N
      BY <2>1, SlotsPut
    <2> QED
      BY <2>2, <2>3
  <1>11. /\ \A s \in O : s[1] = "hold"
        /\ \A s \in Slots("buf", buf) \cup Slots("pipe", pipe) \cup Slots("qbuf", qbuf) \cup N : s[1] # "hold"
    BY KindsApart
  <1>12. O \subseteq Held /\ Held' = (Held \ O) \cup N
    BY <1>2, <1>10, <1>11, HeldParts
  <1>13. \A r : (Carries(N, r) <=> Carries(O, r)) /\ (Carries(O, r) <=> r \in ReqsOf(S))
    BY <1>7, CarriedBy
  <1>14. Degraded => Degraded'
    BY <1>2, <1>4, DegradedKept
  <1> QED
    BY <1>2, <1>8, <1>9, <1>7, <1>12, <1>13, <1>14, Moved

LEMMA InferMoves ==
    ASSUME PipelineTypes, CustodyInv, NEW i \in Stages, Infer(i)
    PROVE  PipelineTypes' /\ Handed /\ (~ FirstOnly(cmodel[i]) \/ (\A b \in qbuf[i] : \E x : b = {x}) => Kept)
  <1>0. OutQ(i) \in Queues
    BY StageParts DEF PipelineTypes
  <1>1. PICK S, out : /\ S \subseteq qbuf[i] /\ out \subseteq UNION S
                      /\ ~ FirstOnly(cmodel[i]) \/ (\A b \in qbuf[i] : \E x : b = {x}) => out = UNION S
                      /\ qbuf' = [qbuf EXCEPT ![i] = @ \ S]
                      /\ buf' = Put(buf, OutQ(i), Singletons(out))
    <2>0. PICK b \in qbuf[i] : \E o \in Results(cmodel[i], b) :
             qbuf' = [qbuf EXCEPT ![i] = @ \ {b}] /\ buf' = Put(buf, OutQ(i), Singletons(o))
      BY DEF Infer
    <2>1. PICK out \in Results(cmodel[i], b) :
             qbuf' = [qbuf EXCEPT ![i] = @ \ {b}] /\ buf' = Put(buf, OutQ(i), Singletons(out))
      BY <2>0
    <2>2. out \subseteq b /\ (~ FirstOnly(cmodel[i]) => out = b)
      BY DEF Results, FirstOnly, kSubset
    <2>3. ASSUME NEW x, b = {x}
          PROVE  out = b
      <3>1. out = b \/ (out \subseteq {x} /\ Cardinality(out) = 1)
        BY <2>3 DEF Results, kSubset
      <3>2. Cardinality(out) = 1 => out # {}
        BY FS_EmptySet
      <3> QED
        BY <2>3, <3>1, <3>2
    <2>4. /\ {b} \subseteq qbuf[i] /\ out \subseteq UNION {b}
          /\ ~ FirstOnly(cmodel[i]) \/ (\A c \in qbuf[i] : \E x : c = {x}) => out = UNION {b}
      <3>1. UNION {b} = b
        OBVIOUS
      <3> QED
        BY <2>2, <2>3, <3>1
    <2> WITNESS {b}, out
    <2> QED
      BY <2>1, <2>2, <2>3, <2>4
  <1>2. UNCHANGED <<cmodel, main, raised, pipe, pc, hold, topic, unsent, answers, rejected>>
    BY DEF Infer, wiring, procs, tasks
  <1>3. buf \in [Queues -> SUBSET Batch] /\ qbuf \in [Stages -> SUBSET Batch] /\ S \subseteq Batch
    BY <1>0, <1>1 DEF PipelineTypes
  <1>4. /\ raised' \subseteq Queues /\ pc' \in [Procs -> {"loop", "last", "exited", "dead"}]
        /\ \A p \in Procs : pc[p] = "dead" => pc'[p] = "dead"
    BY <1>2 DEF PipelineTypes
  <1> DEFINE T == Singletons(out)
             O == At("qbuf", i, S)
             N == At("buf", OutQ(i), T)
  <1>5. At("qbuf", i, S) \subseteq Held
    <2>1. Loses(qbuf, qbuf', i, S)
      BY <1>0, <1>1, <1>3 DEF Loses, Becomes
    <2> QED
      BY <2>1, SlotsTake, HeldParts
  <1>6. /\ Clean(S)
        /\ \A x, y \in UNION S : x.req = y.req => x = y
        /\ \A x \in UNION S : x \in Items /\ x.req \in Requests /\ (x.ok <=> x.req \notin rejected)
        /\ \A r : r \in ReqsOf(S) <=> \E x \in UNION S : x.req = r
        /\ ReqsOf(S) \subseteq Requests
    <2>1. /\ Clean(S)
          /\ \A x, y \in UNION S : x.req = y.req => x = y
          /\ \A x \in UNION S : x.ok <=> x.req \notin rejected
      BY <1>5, TakenBatches
    <2>2. UNION S \subseteq Items /\ \A x \in UNION S : x.req \in Requests
      BY <1>3, ItemTypes
    <2>3. \A r : r \in ReqsOf(S) <=> \E x \in UNION S : x.req = r
      BY DEF ReqsOf
    <2> QED
      BY <2>1, <2>2, <2>3
  <1>7. /\ T \subseteq Batch /\ Unique(N) /\ Honest(N, rejected')
        /\ ReqsOf(T) \subseteq ReqsOf(S)
    <2>1. Relabels(S, T, rejected')
      BY <1>1, <1>2, <1>6 DEF Relabels, Singletons
    <2> HIDE DEF T
    <2> QED
      BY <2>1, Relabelled
  <1>8. rejected' = rejected /\ rejected' \subseteq Requests
    BY <1>2 DEF PipelineTypes
  <1>9. PipelineTypes'
    BY <1>0, <1>1, <1>2, <1>3, <1>4, <1>7, <1>8, PutTypes, TypesBy DEF PipelineTypes
  <1> HIDE DEF T
  <1>10. /\ Slots("qbuf", qbuf') = Slots("qbuf", qbuf) \ O
        /\ Slots("buf", buf') = Slots("buf", buf) \cup N
        /\ O \subseteq Slots("qbuf", qbuf)
    <2>1. Loses(qbuf, qbuf', i, S) /\ Gains(buf, buf', OutQ(i), T)
      BY <1>0, <1>1, <1>3 DEF Loses, Gains, Becomes, Put, T
    <2>2. Slots("qbuf", qbuf') = Slots("qbuf", qbuf) \ O /\ O \subseteq Slots("qbuf", qbuf)
      BY <2>1, SlotsTake
    <2>3. Slots("buf", buf') = Slots("buf", buf) \cup N
      BY <2>1, SlotsPut
    <2> QED
      BY <2>2, <2>3
  <1>11. /\ \A s \in O : s[1] = "qbuf"
        /\ \A s \in Slots("buf", buf) \cup Slots("pipe", pipe) \cup Slots("hold", hold) \cup N : s[1] # "qbuf"
    BY KindsApart
  <1>12. O \subseteq Held /\ Held' = (Held \ O) \cup N
    BY <1>2, <1>10, <1>11, HeldParts
  <1>13. /\ \A r : Carries(N, r) => Carries(O, r)
         /\ ReqsOf(S) \subseteq ReqsOf(T) => \A r : Carries(O, r) => Carries(N, r)
    BY <1>7, CarriedBy
  <1>14. out = UNION S => ReqsOf(S) \subseteq ReqsOf(T)
    <2>1. UNION T = out
      BY DEF T, Singletons
    <2> QED
      BY <2>1 DEF ReqsOf
  <1>15. Degraded => Degraded'
    BY <1>2, <1>4, DegradedKept
  <1>16. /\ Handed
         /\ (\A r : Carries(O, r) => Carries(N, r)) => Kept
    BY <1>2, <1>8, <1>7, <1>12, <1>13, <1>15, Moved
  <1> QED
    BY <1>1, <1>9, <1>13, <1>14, <1>16

LEMMA CustomReads ==
    ASSUME PipelineTypes, CustodyInv, NEW i \in Stages, cmodel[i].custom, CustomRead(i)
    PROVE  PipelineTypes' /\ Handed /\ Kept
  <1>0. PreQ(i) \in Queues /\ Custom(i) \in Procs
    BY StageParts DEF PipelineTypes
  <1>1. PICK S, bad : /\ S \subseteq pipe[PreQ(i)] /\ bad \subseteq ReqsOf(S)
                      /\ pipe' = [pipe EXCEPT ![PreQ(i)] = @ \ S]
                      /\ hold' = [hold EXCEPT ![Custom(i)] =
                                     Singletons({Item(x.req, x.ok /\ x.req \notin bad) : x \in UNION S})]
                      /\ rejected' = rejected \cup bad
                      /\ hold[Custom(i)] = {}
    <2>1. PICK S \in Reads(PreQ(i), cmodel[i].bs) :
             \E bad \in SUBSET {x.req : x \in {y \in UNION S : y.ok}} :
                /\ pipe' = [pipe EXCEPT ![PreQ(i)] = @ \ S]
                /\ hold' = [hold EXCEPT ![Custom(i)] =
                               Singletons({Item(x.req, x.ok /\ x.req \notin bad) : x \in UNION S})]
                /\ rejected' = rejected \cup bad
      BY DEF CustomRead
    <2>2. PICK bad \in SUBSET {x.req : x \in {y \in UNION S : y.ok}} :
             /\ pipe' = [pipe EXCEPT ![PreQ(i)] = @ \ S]
             /\ hold' = [hold EXCEPT ![Custom(i)] =
                            Singletons({Item(x.req, x.ok /\ x.req \notin bad) : x \in UNION S})]
             /\ rejected' = rejected \cup bad
      BY <2>1
    <2>3. S \subseteq pipe[PreQ(i)] /\ bad \subseteq ReqsOf(S) /\ hold[Custom(i)] = {}
      BY ReadsInPipe DEF ReqsOf, CustomRead
    <2> WITNESS S, bad
    <2> QED
    BY   <2>2, <2>3
  <1>2. UNCHANGED <<cmodel, main, raised, buf, qbuf, topic, unsent, answers>>
    BY DEF CustomRead, wiring
  <1>3. pipe \in [Queues -> SUBSET Batch] /\ hold \in [Procs -> SUBSET Batch] /\ S \subseteq Batch
    BY <1>0, <1>1 DEF PipelineTypes
  <1>4. /\ raised' \subseteq Queues /\ pc' \in [Procs -> {"loop", "last", "exited", "dead"}]
        /\ \A p \in Procs : pc[p] = "dead" => pc'[p] = "dead"
    <2>1. pc[Custom(i)] = "loop" /\ (pc' = pc \/ \E v \in {"loop", "last", "exited"} : pc' = [pc EXCEPT ![Custom(i)] = v])
      BY DEF CustomRead, Looks, After, SetNextFlag, queues, procs
    <2> QED
      BY <1>0, <1>2, <2>1 DEF PipelineTypes
  <1> DEFINE T == Singletons({Item(x.req, x.ok /\ x.req \notin bad) : x \in UNION S})
             O == At("pipe", PreQ(i), S)
             N == At("hold", Custom(i), T)
  <1>5. At("pipe", PreQ(i), S) \subseteq Held
    <2>1. Loses(pipe, pipe', PreQ(i), S)
      BY <1>0, <1>1, <1>3 DEF Loses, Becomes
    <2> QED
      BY <2>1, SlotsTake, HeldParts
  <1>6. /\ Clean(S)
        /\ \A x, y \in UNION S : x.req = y.req => x = y
        /\ \A x \in UNION S : x \in Items /\ x.req \in Requests /\ (x.ok <=> x.req \notin rejected)
        /\ \A r : r \in ReqsOf(S) <=> \E x \in UNION S : x.req = r
        /\ ReqsOf(S) \subseteq Requests
    <2>1. /\ Clean(S)
          /\ \A x, y \in UNION S : x.req = y.req => x = y
          /\ \A x \in UNION S : x.ok <=> x.req \notin rejected
      BY <1>5, TakenBatches
    <2>2. UNION S \subseteq Items /\ \A x \in UNION S : x.req \in Requests
      BY <1>3, ItemTypes
    <2>3. \A r : r \in ReqsOf(S) <=> \E x \in UNION S : x.req = r
      BY DEF ReqsOf
    <2> QED
      BY <2>1, <2>2, <2>3
  <1>7. /\ T \subseteq Batch /\ Unique(N) /\ Honest(N, rejected')
        /\ ReqsOf(T) \subseteq ReqsOf(S) /\ ReqsOf(S) \subseteq ReqsOf(T)
    <2>1. \A x \in UNION S : Item(x.req, x.ok /\ x.req \notin bad) \in Items /\ Item(x.req, x.ok /\ x.req \notin bad).req = x.req /\ (Item(x.req, x.ok /\ x.req \notin bad).ok <=> x.req \notin rejected')
      BY <1>1, <1>2, <1>6, ItemTypes
    <2>2. UNION T = {Item(x.req, x.ok /\ x.req \notin bad) : x \in UNION S} /\ \A b \in T : \E x \in UNION S : b = {Item(x.req, x.ok /\ x.req \notin bad)}
      BY DEF Singletons
    <2>3. Relabels(S, T, rejected')
      BY <1>6, <2>1, <2>2 DEF Relabels
    <2>4. ReqsOf(S) \subseteq ReqsOf(T)
      <3> SUFFICES ASSUME NEW x \in UNION S PROVE x.req \in ReqsOf(T)
        BY <1>6
      <3>1. Item(x.req, x.ok /\ x.req \notin bad) \in UNION T /\ Item(x.req, x.ok /\ x.req \notin bad).req = x.req
        BY <2>1, <2>2
      <3> QED
        BY <3>1 DEF ReqsOf
    <2> HIDE DEF T
    <2> QED
      BY <2>3, <2>4, Relabelled
  <1>8. /\ rejected' \subseteq Requests /\ rejected \subseteq rejected'
        /\ \A r \in rejected' \ rejected : r \in ReqsOf(S)
    BY <1>1, <1>6 DEF PipelineTypes
  <1>9. PipelineTypes'
    BY <1>0, <1>1, <1>2, <1>3, <1>4, <1>7, <1>8, PutTypes, TypesBy DEF PipelineTypes
  <1> HIDE DEF T
  <1>10. /\ Slots("pipe", pipe') = Slots("pipe", pipe) \ O
        /\ Slots("hold", hold') = Slots("hold", hold) \cup N
        /\ O \subseteq Slots("pipe", pipe)
    <2>1. Loses(pipe, pipe', PreQ(i), S) /\ Gains(hold, hold', Custom(i), T)
      BY <1>0, <1>1, <1>3 DEF Loses, Gains, Becomes, Put, T
    <2>2. Slots("pipe", pipe') = Slots("pipe", pipe) \ O /\ O \subseteq Slots("pipe", pipe)
      BY <2>1, SlotsTake
    <2>3. Slots("hold", hold') = Slots("hold", hold) \cup N
      BY <2>1, SlotsPut
    <2> QED
      BY <2>2, <2>3
  <1>11. /\ \A s \in O : s[1] = "pipe"
        /\ \A s \in Slots("buf", buf) \cup Slots("qbuf", qbuf) \cup Slots("hold", hold) \cup N : s[1] # "pipe"
    BY KindsApart
  <1>12. O \subseteq Held /\ Held' = (Held \ O) \cup N
    BY <1>2, <1>10, <1>11, HeldParts
  <1>13. \A r : (Carries(N, r) <=> Carries(O, r)) /\ (Carries(O, r) <=> r \in ReqsOf(S))
    BY <1>7, CarriedBy
  <1>14. Degraded => Degraded'
    BY <1>2, <1>4, DegradedKept
  <1> QED
    BY <1>2, <1>8, <1>9, <1>7, <1>12, <1>13, <1>14, Moved

LEMMA CustomInfers ==
    ASSUME PipelineTypes, CustodyInv, NEW i \in Stages, cmodel[i].custom, NEW raises \in BOOLEAN, CustomInfer(i, raises)
    PROVE  PipelineTypes' /\ Handed /\ Kept
  <1>0. OutQ(i) \in Queues /\ Custom(i) \in Procs
    BY StageParts DEF PipelineTypes
  <1>1. PICK S : /\ S \subseteq hold[Custom(i)]
                 /\ hold' = [hold EXCEPT ![Custom(i)] = @ \ S]
                 /\ buf' = Put(buf, OutQ(i), {{Item(x.req, x.ok /\ ~ raises)} : x \in UNION S})
                 /\ rejected' = rejected \cup (IF raises THEN ReqsOf(S) ELSE {})
    BY DEF CustomInfer, kSubset
  <1>2. UNCHANGED <<cmodel, main, raised, pipe, qbuf, pc, topic, unsent, answers>>
    BY DEF CustomInfer, wiring
  <1>3. buf \in [Queues -> SUBSET Batch] /\ hold \in [Procs -> SUBSET Batch] /\ S \subseteq Batch
    BY <1>0, <1>1 DEF PipelineTypes
  <1>4. /\ raised' \subseteq Queues /\ pc' \in [Procs -> {"loop", "last", "exited", "dead"}]
        /\ \A p \in Procs : pc[p] = "dead" => pc'[p] = "dead"
    BY <1>2 DEF PipelineTypes
  <1> DEFINE T == {{Item(x.req, x.ok /\ ~ raises)} : x \in UNION S}
             O == At("hold", Custom(i), S)
             N == At("buf", OutQ(i), T)
  <1>5. At("hold", Custom(i), S) \subseteq Held
    <2>1. Loses(hold, hold', Custom(i), S)
      BY <1>0, <1>1, <1>3 DEF Loses, Becomes
    <2> QED
      BY <2>1, SlotsTake, HeldParts
  <1>6. /\ Clean(S)
        /\ \A x, y \in UNION S : x.req = y.req => x = y
        /\ \A x \in UNION S : x \in Items /\ x.req \in Requests /\ (x.ok <=> x.req \notin rejected)
        /\ \A r : r \in ReqsOf(S) <=> \E x \in UNION S : x.req = r
        /\ ReqsOf(S) \subseteq Requests
    <2>1. /\ Clean(S)
          /\ \A x, y \in UNION S : x.req = y.req => x = y
          /\ \A x \in UNION S : x.ok <=> x.req \notin rejected
      BY <1>5, TakenBatches
    <2>2. UNION S \subseteq Items /\ \A x \in UNION S : x.req \in Requests
      BY <1>3, ItemTypes
    <2>3. \A r : r \in ReqsOf(S) <=> \E x \in UNION S : x.req = r
      BY DEF ReqsOf
    <2> QED
      BY <2>1, <2>2, <2>3
  <1>7. /\ T \subseteq Batch /\ Unique(N) /\ Honest(N, rejected')
        /\ ReqsOf(T) \subseteq ReqsOf(S) /\ ReqsOf(S) \subseteq ReqsOf(T)
    <2>1. \A x \in UNION S : Item(x.req, x.ok /\ ~ raises) \in Items /\ Item(x.req, x.ok /\ ~ raises).req = x.req /\ (Item(x.req, x.ok /\ ~ raises).ok <=> x.req \notin rejected')
      BY <1>1, <1>2, <1>6, ItemTypes
    <2>2. UNION T = {Item(x.req, x.ok /\ ~ raises) : x \in UNION S} /\ \A b \in T : \E x \in UNION S : b = {Item(x.req, x.ok /\ ~ raises)}
      BY ItemTypes
    <2>3. Relabels(S, T, rejected')
      BY <1>6, <2>1, <2>2 DEF Relabels
    <2>4. ReqsOf(S) \subseteq ReqsOf(T)
      <3> SUFFICES ASSUME NEW x \in UNION S PROVE x.req \in ReqsOf(T)
        BY <1>6, SMTT(30)
      <3>1. Item(x.req, x.ok /\ ~ raises) \in UNION T /\ Item(x.req, x.ok /\ ~ raises).req = x.req
        BY <2>1, <2>2
      <3> QED
        BY <3>1 DEF ReqsOf
    <2> HIDE DEF T
    <2> QED
      BY <2>3, <2>4, Relabelled
  <1>8. /\ rejected' \subseteq Requests /\ rejected \subseteq rejected'
        /\ \A r \in rejected' \ rejected : r \in ReqsOf(S)
    BY <1>1, <1>6 DEF PipelineTypes
  <1>9. PipelineTypes'
    BY <1>0, <1>1, <1>2, <1>3, <1>4, <1>7, <1>8, PutTypes, TypesBy DEF PipelineTypes
  <1> HIDE DEF T
  <1>10. /\ Slots("hold", hold') = Slots("hold", hold) \ O
        /\ Slots("buf", buf') = Slots("buf", buf) \cup N
        /\ O \subseteq Slots("hold", hold)
    <2>1. Loses(hold, hold', Custom(i), S) /\ Gains(buf, buf', OutQ(i), T)
      BY <1>0, <1>1, <1>3 DEF Loses, Gains, Becomes, Put, T
    <2>2. Slots("hold", hold') = Slots("hold", hold) \ O /\ O \subseteq Slots("hold", hold)
      BY <2>1, SlotsTake
    <2>3. Slots("buf", buf') = Slots("buf", buf) \cup N
      BY <2>1, SlotsPut
    <2> QED
      BY <2>2, <2>3
  <1>11. /\ \A s \in O : s[1] = "hold"
        /\ \A s \in Slots("buf", buf) \cup Slots("pipe", pipe) \cup Slots("qbuf", qbuf) \cup N : s[1] # "hold"
    BY KindsApart
  <1>12. O \subseteq Held /\ Held' = (Held \ O) \cup N
    BY <1>2, <1>10, <1>11, HeldParts
  <1>13. \A r : (Carries(N, r) <=> Carries(O, r)) /\ (Carries(O, r) <=> r \in ReqsOf(S))
    BY <1>7, CarriedBy
  <1>14. Degraded => Degraded'
    BY <1>2, <1>4, DegradedKept
  <1> QED
    BY <1>2, <1>8, <1>9, <1>7, <1>12, <1>13, <1>14, Moved

(* What an output process has read is passed on, or some of it, when the   *)
(* process ends.                                                           *)
Leaves(i, k, done) ==
    /\ done \subseteq UNION hold[Output(i, k)]
    /\ PassOn(i, done)
    /\ hold' = [hold EXCEPT ![Output(i, k)] = {}]
    /\ UNCHANGED <<cmodel, main, raised, pipe, qbuf, topic, unsent>>
    /\ \/ done = UNION hold[Output(i, k)] /\ pc' = pc
       \/ pc' = [pc EXCEPT ![Output(i, k)] = "dead"]

LEMMA OutputEffect ==
    ASSUME PipelineTypes, NEW i \in Stages, NEW k \in 1 .. cmodel[i].post, NEW done, Leaves(i, k, done)
    PROVE  /\ raised' \subseteq Queues /\ pc' \in [Procs -> {"loop", "last", "exited", "dead"}]
           /\ Degraded => Degraded'
           /\ done = UNION hold[Output(i, k)] \/ Degraded'
  <1>1. Output(i, k) \in Procs
    BY StageParts DEF PipelineTypes
  <1>2. UNCHANGED <<cmodel, main, raised>>
    BY DEF Leaves
  <1>3. pc' = pc \/ pc' = [pc EXCEPT ![Output(i, k)] = "dead"]
    BY DEF Leaves
  <1>4. /\ pc' \in [Procs -> {"loop", "last", "exited", "dead"}]
        /\ \A p \in Procs : pc[p] = "dead" => pc'[p] = "dead"
    BY <1>1, <1>3 DEF PipelineTypes
  <1>5. Degraded => Degraded'
    BY <1>2, <1>4, DegradedKept
  <1>6. CASE pc' = [pc EXCEPT ![Output(i, k)] = "dead"]
    <2>1. Output(i, k) \in Procs' /\ pc'[Output(i, k)] = "dead"
      BY <1>1, <1>2, <1>6, SameNames DEF PipelineTypes
    <2> QED
      BY <1>2, <1>4, <1>5, <2>1 DEF Degraded, PipelineTypes
  <1> QED
    BY <1>2, <1>4, <1>5, <1>6 DEF Leaves, PipelineTypes

LEMMA OutputForwards ==
    ASSUME PipelineTypes, CustodyInv, NEW i \in Stages, NEW k \in 1 .. cmodel[i].post, ~ IsLast(i),
           NEW done, Leaves(i, k, done)
    PROVE  PipelineTypes' /\ Handed /\ Kept
  <1>0. InQ(i + 1) \in Queues /\ Output(i, k) \in Procs
    BY StageParts, NextStage DEF PipelineTypes
  <1>1. PICK S, bad : /\ S = hold[Output(i, k)] /\ bad \subseteq ReqsOf(S) /\ done \subseteq UNION S
                      /\ hold' = [hold EXCEPT ![Output(i, k)] = {}]
                      /\ buf' = Put(buf, InQ(i + 1), {{NextItem(x, bad)} : x \in done})
                      /\ answers' = answers
                      /\ rejected' = rejected \cup bad
    <2> DEFINE S == hold[Output(i, k)]
    <2>1. PICK bad \in SUBSET {x.req : x \in {y \in done : y.ok}} :
             /\ rejected' = rejected \cup bad
             /\ buf' = Put(buf, InQ(i + 1), {{NextItem(x, bad)} : x \in done})
             /\ answers' = answers
      BY DEF Leaves, PassOn
    <2>2. hold' = [hold EXCEPT ![Output(i, k)] = {}] /\ done \subseteq UNION S
      BY DEF Leaves
    <2>3. bad \subseteq ReqsOf(S)
      BY <2>2 DEF ReqsOf
    <2> WITNESS S, bad
    <2> QED
    BY   <2>1, <2>2, <2>3
  <1>2. UNCHANGED <<cmodel, main, raised, pipe, qbuf, topic, unsent>>
    BY DEF Leaves
  <1>3. buf \in [Queues -> SUBSET Batch] /\ hold \in [Procs -> SUBSET Batch] /\ S \subseteq Batch
    BY <1>0, <1>1 DEF PipelineTypes
  <1>4. /\ raised' \subseteq Queues /\ pc' \in [Procs -> {"loop", "last", "exited", "dead"}]
        /\ Degraded => Degraded'
        /\ done = UNION S \/ Degraded'
    BY <1>1, OutputEffect
  <1> DEFINE T == {{NextItem(x, bad)} : x \in done}
             O == At("hold", Output(i, k), S)
             N == At("buf", InQ(i + 1), T)
  <1>5. At("hold", Output(i, k), S) \subseteq Held
    <2>1. Loses(hold, hold', Output(i, k), S)
      BY <1>0, <1>1, <1>3 DEF Loses, Becomes
    <2> QED
      BY <2>1, SlotsTake, HeldParts
  <1>6. /\ Clean(S)
        /\ \A x, y \in UNION S : x.req = y.req => x = y
        /\ \A x \in UNION S : x \in Items /\ x.req \in Requests /\ (x.ok <=> x.req \notin rejected)
        /\ \A r : r \in ReqsOf(S) <=> \E x \in UNION S : x.req = r
        /\ ReqsOf(S) \subseteq Requests
    <2>1. /\ Clean(S)
          /\ \A x, y \in UNION S : x.req = y.req => x = y
          /\ \A x \in UNION S : x.ok <=> x.req \notin rejected
      BY <1>5, TakenBatches
    <2>2. UNION S \subseteq Items /\ \A x \in UNION S : x.req \in Requests
      BY <1>3, ItemTypes
    <2>3. \A r : r \in ReqsOf(S) <=> \E x \in UNION S : x.req = r
      BY DEF ReqsOf
    <2> QED
      BY <2>1, <2>2, <2>3
  <1>7. /\ T \subseteq Batch /\ Unique(N) /\ Honest(N, rejected')
        /\ ReqsOf(T) \subseteq ReqsOf(S)
        /\ done = UNION S => ReqsOf(S) \subseteq ReqsOf(T)
    <2>0. \A x \in UNION S : /\ NextItem(x, bad) \in Items /\ NextItem(x, bad).req = x.req
                             /\ NextItem(x, bad).ok <=> x.req \notin rejected'
      <3> SUFFICES ASSUME NEW x \in UNION S
                   PROVE  /\ NextItem(x, bad) \in Items /\ NextItem(x, bad).req = x.req
                          /\ NextItem(x, bad).ok <=> x.req \notin rejected'
        OBVIOUS
      <3> DEFINE ok == x.ok /\ x.req \notin bad
      <3>1. ok \in BOOLEAN /\ (ok <=> x.req \notin rejected') /\ x.req \in Requests
        BY <1>1, <1>6
      <3>2. NextItem(x, bad) = Item(x.req, ok)
        BY DEF NextItem
      <3> HIDE DEF ok
      <3> QED
        BY <3>1, <3>2, ItemTypes
    <2>1. \A x \in UNION S : NextItem(x, bad) \in Items /\ NextItem(x, bad).req = x.req /\ (NextItem(x, bad).ok <=> x.req \notin rejected')
      BY <1>1, <1>2, <1>6, <2>0, ItemTypes
    <2>2. UNION T = {NextItem(x, bad) : x \in done} /\ \A b \in T : \E x \in UNION S : b = {NextItem(x, bad)}
      BY <1>1, ItemTypes
    <2>3. Relabels(S, T, rejected')
      BY <1>6, <2>1, <2>2 DEF Relabels
    <2>4. ASSUME done = UNION S PROVE ReqsOf(S) \subseteq ReqsOf(T)
      <3> SUFFICES ASSUME NEW x \in UNION S PROVE x.req \in ReqsOf(T)
        BY <1>6
      <3>1. NextItem(x, bad) \in UNION T /\ NextItem(x, bad).req = x.req
        BY <2>1, <2>2, <2>4
      <3> QED
        BY <3>1 DEF ReqsOf
    <2> HIDE DEF T
    <2> QED
      BY <2>3, <2>4, Relabelled
  <1>8. /\ rejected' \subseteq Requests /\ rejected \subseteq rejected'
        /\ \A r \in rejected' \ rejected : r \in ReqsOf(S)
    BY <1>1, <1>6 DEF PipelineTypes
  <1>9. PipelineTypes'
    <2>1. hold' \in [Procs -> SUBSET Batch]
      BY <1>0, <1>1, <1>3
    <2>2. buf' \in [Queues -> SUBSET Batch]
      BY <1>0, <1>1, <1>3, <1>7, PutTypes
    <2> QED
      BY <1>1, <1>2, <1>4, <1>8, <2>1, <2>2, TypesBy DEF PipelineTypes
  <1> HIDE DEF T
  <1>10. /\ Slots("hold", hold') = Slots("hold", hold) \ O
        /\ Slots("buf", buf') = Slots("buf", buf) \cup N
        /\ O \subseteq Slots("hold", hold)
    <2>1. Loses(hold, hold', Output(i, k), S) /\ Gains(buf, buf', InQ(i + 1), T)
      BY <1>0, <1>1, <1>3 DEF Loses, Gains, Becomes, Put, T
    <2>2. Slots("hold", hold') = Slots("hold", hold) \ O /\ O \subseteq Slots("hold", hold)
      BY <2>1, SlotsTake
    <2>3. Slots("buf", buf') = Slots("buf", buf) \cup N
      BY <2>1, SlotsPut
    <2> QED
      BY <2>2, <2>3
  <1>11. /\ \A s \in O : s[1] = "hold"
        /\ \A s \in Slots("buf", buf) \cup Slots("pipe", pipe) \cup Slots("qbuf", qbuf) \cup N : s[1] # "hold"
    BY KindsApart
  <1>12. O \subseteq Held /\ Held' = (Held \ O) \cup N
    BY <1>2, <1>10, <1>11, HeldParts
  <1>13. /\ \A r : Carries(N, r) => Carries(O, r)
         /\ done = UNION S => \A r : Carries(O, r) => Carries(N, r)
         /\ \A r : Carries(O, r) <=> r \in ReqsOf(S)
    BY <1>7, CarriedBy
  <1>14. Handed /\ ((\A r : Carries(O, r) => Carries(N, r)) => Kept)
    BY <1>1, <1>2, <1>4, <1>8, <1>7, <1>12, <1>13, Moved
  <1>15. Degraded' => Kept
    BY <1>2 DEF Kept
  <1> QED
    BY <1>4, <1>9, <1>13, <1>14, <1>15

LEMMA PreprocReads ==
    ASSUME PipelineTypes, CustodyInv, NEW i \in Stages, NEW k \in Preprocessors(i), PreprocRead(i, k)
    PROVE  PipelineTypes' /\ Handed /\ Kept
  <1> DEFINE p == Preproc(i, k)
             Bad(S, bad) == {y \in UNION S : ~ y.ok \/ y.req \in bad}
  <1>0. PreQ(i) \in Queues /\ OutQ(i) \in Queues /\ p \in Procs
    BY StageParts DEF PipelineTypes
  <1>1. PICK S, bad : /\ S \subseteq pipe[PreQ(i)] /\ bad \subseteq ReqsOf(S)
                      /\ pipe' = [pipe EXCEPT ![PreQ(i)] = @ \ S]
                      /\ hold' = [hold EXCEPT ![p] = Singletons(Preprocessed(UNION S, bad))]
                      /\ buf' = Put(buf, OutQ(i), {{Item(x.req, FALSE)} : x \in Bad(S, bad)})
                      /\ rejected' = rejected \cup bad
                      /\ hold[p] = {}
    <2>1. PICK S \in Reads(PreQ(i), cmodel[i].bs) :
             \E bad \in SUBSET {x.req : x \in {y \in UNION S : y.ok}} :
                /\ pipe' = [pipe EXCEPT ![PreQ(i)] = @ \ S]
                /\ hold' = [hold EXCEPT ![p] = Singletons(Preprocessed(UNION S, bad))]
                /\ buf' = Put(buf, OutQ(i), {{Item(x.req, FALSE)} : x \in Bad(S, bad)})
                /\ rejected' = rejected \cup bad
      BY DEF PreprocRead
    <2>2. PICK bad \in SUBSET {x.req : x \in {y \in UNION S : y.ok}} :
             /\ pipe' = [pipe EXCEPT ![PreQ(i)] = @ \ S]
             /\ hold' = [hold EXCEPT ![p] = Singletons(Preprocessed(UNION S, bad))]
             /\ buf' = Put(buf, OutQ(i), {{Item(x.req, FALSE)} : x \in Bad(S, bad)})
             /\ rejected' = rejected \cup bad
      BY <2>1
    <2>3. S \subseteq pipe[PreQ(i)] /\ bad \subseteq ReqsOf(S) /\ hold[p] = {}
      BY ReadsInPipe DEF ReqsOf, PreprocRead
    <2> WITNESS S, bad
    <2> QED
      BY <2>2, <2>3
  <1>2. UNCHANGED <<cmodel, main, raised, qbuf, topic, unsent, answers>>
    BY DEF PreprocRead, wiring
  <1>3. /\ buf \in [Queues -> SUBSET Batch] /\ pipe \in [Queues -> SUBSET Batch]
        /\ hold \in [Procs -> SUBSET Batch] /\ S \subseteq Batch
    BY <1>0, <1>1 DEF PipelineTypes
  <1>4. /\ pc' \in [Procs -> {"loop", "last", "exited", "dead"}]
        /\ \A x \in Procs : pc[x] = "dead" => pc'[x] = "dead"
    <2>1. pc[p] = "loop" /\ \E v \in {"loop", "last"} : pc' = [pc EXCEPT ![p] = v]
      BY DEF PreprocRead, Looks, After
    <2> QED
      BY <1>0, <2>1 DEF PipelineTypes
  <1> DEFINE T == Singletons(Preprocessed(UNION S, bad))
             U == {{Item(x.req, FALSE)} : x \in Bad(S, bad)}
             O == At("pipe", PreQ(i), S)
             N1 == At("hold", p, T)
             N2 == At("buf", OutQ(i), U)
             N == N1 \cup N2
  <1>5. At("pipe", PreQ(i), S) \subseteq Held
    <2>1. Loses(pipe, pipe', PreQ(i), S)
      BY <1>0, <1>1, <1>3 DEF Loses, Becomes
    <2> QED
      BY <2>1, SlotsTake, HeldParts
  <1>6. /\ \A x \in UNION S : x \in Items /\ x.req \in Requests /\ (x.ok <=> x.req \notin rejected)
        /\ \A r : r \in ReqsOf(S) <=> \E x \in UNION S : x.req = r
        /\ ReqsOf(S) \subseteq Requests
    <2>1. \A x \in UNION S : x.ok <=> x.req \notin rejected
      BY <1>5, TakenBatches
    <2>2. UNION S \subseteq Items /\ \A x \in UNION S : x.req \in Requests
      BY <1>3, ItemTypes
    <2>3. \A r : r \in ReqsOf(S) <=> \E x \in UNION S : x.req = r
      BY DEF ReqsOf
    <2> QED
      BY <2>1, <2>2, <2>3
  <1>7. /\ Relabels(S, T, rejected') /\ Relabels(S, U, rejected')
        /\ \A b \in T : \A y \in b : y.req \notin rejected'
        /\ \A b \in U : \A y \in b : y.req \in rejected'
        /\ ReqsOf(S) \subseteq ReqsOf(T) \cup ReqsOf(U)
    <2>1. \A b \in T : \E y \in UNION S : b = {y} /\ y.ok /\ y.req \notin bad
      BY DEF Singletons, Preprocessed
    <2>2. Relabels(S, T, rejected') /\ \A b \in T : \A y \in b : y.req \notin rejected'
      <3>1. \A y \in UNION S : y.ok /\ y.req \notin bad => y \in Items /\ y.req \in ReqsOf(S) /\ y.req \notin rejected'
        BY <1>1, <1>6
      <3>2. \A b \in T : \E y \in Items : b = {y} /\ y.req \in ReqsOf(S) /\ y.ok /\ y.req \notin rejected'
        BY <2>1, <3>1
      <3> HIDE DEF T
      <3> QED
        BY <3>2 DEF Relabels
    <2>3. \A x \in Bad(S, bad) : /\ Item(x.req, FALSE) \in Items /\ Item(x.req, FALSE).req = x.req
                                 /\ Item(x.req, FALSE).ok = FALSE /\ x.req \in rejected' /\ x.req \in ReqsOf(S)
      BY <1>1, <1>6, ItemTypes
    <2>4. Relabels(S, U, rejected') /\ \A b \in U : \A y \in b : y.req \in rejected'
      BY <2>3 DEF Relabels
    <2>5. ASSUME NEW x \in UNION S PROVE x.req \in ReqsOf(T) \cup ReqsOf(U)
      <3>1. CASE x \in Bad(S, bad)
        <4>1. Item(x.req, FALSE) \in UNION U /\ Item(x.req, FALSE).req = x.req
          BY <2>3, <3>1
        <4> QED
          BY <4>1 DEF ReqsOf
      <3>2. CASE x \notin Bad(S, bad)
        <4>1. x \in Preprocessed(UNION S, bad)
          BY <3>2 DEF Preprocessed
        <4>2. {x} \in T
          BY <4>1 DEF Singletons
        <4> QED
          BY <4>2 DEF ReqsOf
      <3> QED
        BY <3>1, <3>2
    <2> HIDE DEF T, U
    <2>6. ReqsOf(S) \subseteq ReqsOf(T) \cup ReqsOf(U)
      BY <1>6, <2>5
    <2> QED
      BY <2>2, <2>4, <2>6
  <1> HIDE DEF T, U
  <1>8. /\ T \subseteq Batch /\ U \subseteq Batch
        /\ Unique(N1) /\ Unique(N2) /\ Honest(N1, rejected') /\ Honest(N2, rejected')
        /\ ReqsOf(T) \subseteq ReqsOf(S) /\ ReqsOf(U) \subseteq ReqsOf(S)
    <2>1. T \subseteq Batch /\ Unique(N1) /\ Honest(N1, rejected') /\ ReqsOf(T) \subseteq ReqsOf(S)
      BY <1>7, Relabelled
    <2>2. U \subseteq Batch /\ Unique(N2) /\ Honest(N2, rejected') /\ ReqsOf(U) \subseteq ReqsOf(S)
      BY <1>7, Relabelled
    <2> QED
      BY <2>1, <2>2
  <1>9. Unique(N) /\ Honest(N, rejected')
    <2>1. \A s \in N1 : s[3] \in T
      BY DEF At
    <2>2. \A s \in N2 : s[3] \in U
      BY DEF At
    <2>3. \A s \in N1, u \in N2 : \A x \in s[3], y \in u[3] : x.req # y.req
      BY <1>7, <2>1, <2>2
    <2>4. Unique(N)
      BY <1>8, <2>3 DEF Unique
    <2>5. Honest(N, rejected')
      BY <1>8 DEF Honest
    <2> QED
      BY <2>4, <2>5
  <1>10. /\ rejected' \subseteq Requests /\ rejected \subseteq rejected'
         /\ \A r \in rejected' \ rejected : r \in ReqsOf(S)
    BY <1>1, <1>6 DEF PipelineTypes
  <1>11. PipelineTypes'
    <2>1. hold' \in [Procs -> SUBSET Batch] /\ pipe' \in [Queues -> SUBSET Batch]
      BY <1>0, <1>1, <1>3, <1>8 DEF T
    <2>2. buf' = Put(buf, OutQ(i), U)
      BY <1>1 DEF U
    <2>3. buf' \in [Queues -> SUBSET Batch]
      BY <1>0, <1>3, <1>8, <2>2, PutTypes
    <2> QED
      BY <1>2, <1>4, <1>10, <2>1, <2>3, TypesBy DEF PipelineTypes
  <1>12. /\ Slots("pipe", pipe') = Slots("pipe", pipe) \ O
         /\ O \subseteq Slots("pipe", pipe)
         /\ Slots("hold", hold') = Slots("hold", hold) \cup N1
         /\ Slots("buf", buf') = Slots("buf", buf) \cup N2
    <2>1. Loses(pipe, pipe', PreQ(i), S)
      BY <1>0, <1>1, <1>3 DEF Loses, Becomes
    <2>2. Gains(hold, hold', p, T)
      BY <1>0, <1>1, <1>3 DEF Gains, Becomes, T
    <2>3. Gains(buf, buf', OutQ(i), U)
      BY <1>0, <1>1, <1>3 DEF Gains, Becomes, U, Put
    <2>4. Slots("pipe", pipe') = Slots("pipe", pipe) \ O /\ O \subseteq Slots("pipe", pipe)
      BY <2>1, SlotsTake
    <2>5. Slots("hold", hold') = Slots("hold", hold) \cup N1
      BY <2>2, SlotsPut
    <2>6. Slots("buf", buf') = Slots("buf", buf) \cup N2
      BY <2>3, SlotsPut
    <2> QED
      BY <2>4, <2>5, <2>6
  <1>13. /\ \A s \in O : s[1] = "pipe"
         /\ \A s \in Slots("buf", buf) \cup Slots("qbuf", qbuf) \cup Slots("hold", hold) \cup N1 \cup N2 : s[1] # "pipe"
    BY KindsApart
  <1>14. O \subseteq Held /\ Held' = (Held \ O) \cup N
    BY <1>2, <1>12, <1>13, HeldParts
  <1>15. \A r : Carries(O, r) <=> r \in ReqsOf(S)
    BY AtIs
  <1>16. \A r : Carries(N, r) <=> Carries(O, r)
    <2>1. \A r : Carries(N1, r) <=> r \in ReqsOf(T)
      BY AtIs
    <2>2. \A r : Carries(N2, r) <=> r \in ReqsOf(U)
      BY AtIs
    <2>3. \A r : Carries(N, r) <=> Carries(N1, r) \/ Carries(N2, r)
      BY DEF Carries
    <2> QED
      BY <1>7, <1>8, <1>15, <2>1, <2>2, <2>3
  <1>17. Degraded => Degraded'
    BY <1>2, <1>4, DegradedKept
  <1> HIDE DEF N, O
  <1> QED
    BY <1>2, <1>9, <1>10, <1>11, <1>14, <1>15, <1>16, <1>17, Moved

(* Batches that are dropped.                                               *)
LEMMA NothingCarried ==
    /\ Unique({})
    /\ \A rej : Honest({}, rej)
    /\ \A r : ~ Carries({}, r)
  BY DEF Unique, Honest, Carries

LEMMA InferDrops ==
    ASSUME PipelineTypes, CustodyInv, NEW i \in Stages, ~ cmodel[i].custom, InferRaises(i)
    PROVE  PipelineTypes' /\ Handed /\ Kept
  <1>0. Compute(i) \in Procs
    BY StageParts DEF PipelineTypes
  <1>1. /\ qbuf' = [qbuf EXCEPT ![i] = {}] /\ pc' = [pc EXCEPT ![Compute(i)] = "dead"]
        /\ UNCHANGED <<cmodel, main, raised, buf, pipe, hold, topic, unsent, answers, rejected>>
    BY DEF InferRaises, wiring, tasks
  <1>2. qbuf' \in [Stages -> SUBSET Batch] /\ pc' \in [Procs -> {"loop", "last", "exited", "dead"}]
    BY <1>0, <1>1 DEF PipelineTypes
  <1>3. PipelineTypes'
    BY <1>1, <1>2, TypesBy DEF PipelineTypes
  <1> DEFINE S == qbuf[i]
             O == At("qbuf", i, S)
  <1>4. Slots("qbuf", qbuf') = Slots("qbuf", qbuf) \ O /\ O \subseteq Slots("qbuf", qbuf)
    <2>1. Loses(qbuf, qbuf', i, S)
      BY <1>1 DEF Loses, Becomes, PipelineTypes
    <2> QED
      BY <2>1, SlotsTake
  <1>5. /\ \A s \in O : s[1] = "qbuf"
        /\ \A s \in Slots("buf", buf) \cup Slots("pipe", pipe) \cup Slots("hold", hold) : s[1] # "qbuf"
    BY KindsApart
  <1>6. O \subseteq Held /\ Held' = (Held \ O) \cup {}
    BY <1>1, <1>4, <1>5, HeldParts
  <1>7. Handed
    BY <1>1, <1>6, NothingCarried, Moved
  <1>8. Degraded'
    <2>1. Compute(i) \in Procs' /\ pc'[Compute(i)] = "dead"
      BY <1>0, <1>1, SameNames DEF PipelineTypes
    <2> QED
      BY <2>1 DEF Degraded
  <1> QED
    BY <1>1, <1>3, <1>7, <1>8 DEF Kept

LEMMA TerminateDrops ==
    ASSUME PipelineTypes, CustodyInv, Terminate
    PROVE  PipelineTypes' /\ Handed /\ Kept
  <1>1. /\ buf' = [q \in Queues |-> {}] /\ pipe' = [q \in Queues |-> {}]
        /\ qbuf' = [i \in Stages |-> {}] /\ hold' = [p \in Procs |-> {}]
        /\ main' = "killed" /\ UNCHANGED <<cmodel, raised, pc, topic, unsent, answers, rejected>>
    BY DEF Terminate, tasks
  <1>2. PipelineTypes'
    BY <1>1, TypesBy DEF PipelineTypes
  <1>3. Held' = {}
    BY <1>1, HeldParts DEF Slots
  <1>4. Held \subseteq Held /\ Held' = (Held \ Held) \cup {}
    BY <1>3
  <1>5. Handed
    BY <1>1, <1>4, NothingCarried, Moved
  <1>6. Degraded'
    BY <1>1 DEF Degraded
  <1> QED
    BY <1>1, <1>2, <1>5, <1>6 DEF Kept

(* The last stage: each request that was held gets its one answer.         *)
LEMMA OutputAnswers ==
    ASSUME PipelineTypes, CustodyInv, NEW i \in Stages, NEW k \in 1 .. cmodel[i].post, IsLast(i),
           NEW done, Leaves(i, k, done)
    PROVE  PipelineTypes' /\ Handed /\ Kept
  <1> DEFINE p == Output(i, k)
             S == hold[p]
             O == At("hold", p, S)
             Outcomes == {"completed", "forwarded", "failed"}
             Outs(r, bad) == {OutcomeOf(x, bad) : x \in {y \in done : y.req = r}}
             Done(r) == \E x \in done : x.req = r
  <1>0. p \in Procs
    BY StageParts DEF PipelineTypes
  <1>1. PICK bad \in SUBSET {x.req : x \in {y \in done : y.ok}} :
           /\ rejected' = rejected \cup bad
           /\ answers' = [r \in Requests |-> answers[r] \o SetToSeq(Outs(r, bad))]
           /\ buf' = buf
    BY DEF Leaves, PassOn
  <1>2. /\ hold' = [hold EXCEPT ![p] = {}] /\ done \subseteq UNION S
        /\ UNCHANGED <<cmodel, main, raised, pipe, qbuf, topic, unsent>>
    BY DEF Leaves
  <1>17. /\ raised' \subseteq Queues /\ pc' \in [Procs -> {"loop", "last", "exited", "dead"}]
         /\ Degraded => Degraded'
         /\ done = UNION S \/ Degraded'
    BY OutputEffect
  <1>3. Slots("hold", hold') = Slots("hold", hold) \ O /\ O \subseteq Slots("hold", hold)
    <2>1. Loses(hold, hold', p, S)
      BY <1>0, <1>2 DEF Loses, Becomes, PipelineTypes
    <2> QED
      BY <2>1, SlotsTake
  <1>4. /\ \A s \in O : s[1] = "hold"
        /\ \A s \in Slots("buf", buf) \cup Slots("pipe", pipe) \cup Slots("qbuf", qbuf) : s[1] # "hold"
    BY KindsApart
  <1>5. O \subseteq Held /\ Held' = (Held \ O) \cup {}
    BY <1>1, <1>2, <1>3, <1>4, HeldParts
  <1>6. /\ \A x, y \in UNION S : x.req = y.req => x = y
        /\ \A x \in UNION S : x.req \in Requests /\ (x.ok <=> x.req \notin rejected)
        /\ \A r : r \in ReqsOf(S) <=> \E x \in UNION S : x.req = r
        /\ bad \subseteq ReqsOf(S) /\ ReqsOf(S) \subseteq Requests
        /\ \A r : Carries(O, r) <=> r \in ReqsOf(S)
        /\ \A r : Done(r) => r \in ReqsOf(S)
        /\ \A r \in bad : Done(r)
    <2>1. /\ \A x, y \in UNION S : x.req = y.req => x = y
          /\ \A x \in UNION S : x.ok <=> x.req \notin rejected
      BY <1>5, TakenBatches
    <2>2. S \subseteq Batch
      BY <1>0 DEF PipelineTypes
    <2>3. \A x \in UNION S : x.req \in Requests
      BY <2>2, ItemTypes
    <2>4. \A r : r \in ReqsOf(S) <=> \E x \in UNION S : x.req = r
      BY DEF ReqsOf
    <2>5. bad \subseteq ReqsOf(S) /\ (\A r : Done(r) => r \in ReqsOf(S)) /\ \A r \in bad : Done(r)
      BY <1>2, <2>4
    <2>6. \A r : Carries(O, r) <=> r \in ReqsOf(S)
      BY AtIs
    <2> QED
      BY <2>1, <2>3, <2>4, <2>5, <2>6
  <1> HIDE DEF S, O
  <1>7. Passes(Held, O, {}, Held', rejected, rejected')
    BY <1>1, <1>5, <1>6, NothingCarried DEF Passes, CustodyInv
  <1>8. /\ Unique(Held') /\ Honest(Held', rejected')
        /\ \A r : Carries(Held', r) => Carries(Held, r)
        /\ \A r : Carries(Held, r) => Carries(Held', r) \/ Carries(O, r)
        /\ \A r : Carries(O, r) => Carries(Held, r) /\ ~ Carries(Held', r)
    BY <1>7, HandOver, NothingCarried
  <1>9. ASSUME NEW r \in Requests
        PROVE  \/ answers'[r] = answers[r] /\ ~ Done(r)
               \/ /\ Done(r)
                  /\ \E o \in Outcomes : answers'[r] = <<o>> /\ (o = "failed" <=> r \in rejected')
    <2>1. answers'[r] = answers[r] \o SetToSeq(Outs(r, bad)) /\ answers[r] \in Seq(Outcomes)
      BY <1>1 DEF PipelineTypes
    <2>2. CASE ~ Done(r)
      <3>1. Outs(r, bad) = {}
        BY <2>2
      <3>2. SetToSeq(Outs(r, bad)) = <<>>
        BY <3>1, SetToSeqOf
      <3>3. answers[r] \o <<>> = answers[r]
        BY <2>1
      <3> QED
        BY <2>1, <2>2, <3>2, <3>3
    <2>3. CASE Done(r)
      <3>1. PICK x \in UNION S : x.req = r /\ x \in done
        BY <1>2, <2>3
      <3>2. \A y \in UNION S : y.req = r => y = x
        BY <1>6, <3>1
      <3>3. Outs(r, bad) = {OutcomeOf(x, bad)}
        BY <1>2, <3>1, <3>2
      <3>4. OutcomeOf(x, bad) \in Outcomes /\ (OutcomeOf(x, bad) = "failed" <=> r \in rejected')
        <4>1. x.ok <=> r \notin rejected
          BY <1>6, <3>1
        <4> QED
          BY <1>1, <3>1, <4>1 DEF OutcomeOf
      <3>5. SetToSeq(Outs(r, bad)) = <<OutcomeOf(x, bad)>>
        BY <3>3, <3>4, SetToSeqOf
      <3>6. answers[r] = <<>>
        BY <1>6, <1>8, <2>3 DEF CustodyInv, Apart
      <3>7. answers'[r] = <<OutcomeOf(x, bad)>>
        BY <2>1, <3>5, <3>6
      <3> QED
        BY <2>3, <3>4, <3>7
    <2> QED
      BY <2>2, <2>3
  <1>10. PipelineTypes'
    <2>1. \A r \in Requests : answers'[r] \in Seq(Outcomes)
      <3>1. \A o \in Outcomes : <<o>> \in Seq(Outcomes)
        OBVIOUS
      <3>2. \A r \in Requests : answers[r] \in Seq(Outcomes)
        BY DEF PipelineTypes
      <3> HIDE DEF Outcomes
      <3> QED
        BY <1>9, <3>1, <3>2
    <2>2. answers' \in [Requests -> Seq(Outcomes)]
      BY <1>1, <2>1
    <2>3. hold' \in [Procs -> SUBSET Batch] /\ rejected' \subseteq Requests
      BY <1>0, <1>1, <1>2, <1>6 DEF PipelineTypes
    <2> QED
      BY <1>1, <1>2, <1>17, <2>2, <2>3, TypesBy DEF PipelineTypes
  <1>11. /\ Unique(Held)' /\ Honest(Held, rejected)'
         /\ \A r : Carries(Held, r)' <=> Carries(Held', r)
    BY <1>8 DEF Unique, Honest, Carries
  <1>12. \A r \in Requests : \/ answers'[r] = answers[r]
                             \/ Carries(O, r) /\ Answered(r)'
    BY <1>6, <1>9 DEF Answered
  <1>13. Handed
    BY <1>1, <1>2, <1>6, <1>8, <1>11, <1>12 DEF Handed
  <1>14. \A r \in Requests : Carries(O, r) => answers'[r] # <<>> \/ Degraded'
    <2> SUFFICES ASSUME NEW r \in Requests, Carries(O, r), ~ Degraded'
                 PROVE  answers'[r] # <<>>
      OBVIOUS
    <2>1. Done(r)
      BY <1>6, <1>17
    <2> QED
      BY <1>9, <2>1
  <1>15. Degraded => Degraded'
    BY <1>17
  <1>16. Kept
    BY <1>2, <1>8, <1>11, <1>14, <1>15 DEF Kept
  <1> QED
    BY <1>10, <1>13, <1>16

(* The first input process takes requests from their topic.                *)
LEMMA InputTakes ==
    ASSUME PipelineTypes, CustodyInv, InputStep
    PROVE  PipelineTypes' /\ Handed /\ Kept
  <1>0. PreQ(1) \in Queues /\ Input(1) \in Procs
    BY FirstStage, StageParts DEF PipelineTypes
  <1>1. PICK got : /\ got \subseteq topic
                   /\ topic' = topic \ got
                   /\ \/ pc' = [pc EXCEPT ![Input(1)] = "dead"] /\ UNCHANGED <<buf, raised>>
                      \/ /\ buf' = Put(buf, PreQ(1), Singletons({Item(r, TRUE) : r \in got}))
                         /\ \/ pc' = [pc EXCEPT ![Input(1)] = "exited"] /\ raised' = raised \cup {PreQ(1)}
                            \/ UNCHANGED <<pc, raised>>
    <2>1. PICK cs, remains, new :
             /\ remains \subseteq OfSessions(Closing(cs))
             /\ new \subseteq OfSessions(ToSet(ServedAfter(cs)))
             /\ InputLoop(cs, remains, new)
      BY DEF InputStep
    <2>2. remains \cup new \subseteq topic
      BY <2>1 DEF OfSessions
    <2> DEFINE got == remains \cup new
    <2>3. /\ topic' = topic \ got
          /\ \/ pc' = [pc EXCEPT ![Input(1)] = "dead"] /\ UNCHANGED <<buf, raised>>
             \/ /\ buf' = Put(buf, PreQ(1), Singletons({Item(r, TRUE) : r \in got}))
                /\ \/ pc' = [pc EXCEPT ![Input(1)] = "exited"] /\ raised' = raised \cup {PreQ(1)}
                   \/ UNCHANGED <<pc, raised>>
      BY <2>1 DEF InputLoop, SetNextFlag
    <2> WITNESS got
    <2> QED
      BY <2>2, <2>3
  <1>2. pc[Input(1)] = "loop" /\ UNCHANGED <<cmodel, main, pipe, qbuf, hold, unsent, answers, rejected>>
    BY DEF InputStep, InputLoop, tasks
  <1>3. /\ raised' \subseteq Queues /\ pc' \in [Procs -> {"loop", "last", "exited", "dead"}]
        /\ \A p \in Procs : pc[p] = "dead" => pc'[p] = "dead"
    BY <1>0, <1>1, <1>2 DEF PipelineTypes
  <1>4. Degraded => Degraded'
    BY <1>2, <1>3, DegradedKept
  <1>5. CASE pc' = [pc EXCEPT ![Input(1)] = "dead"] /\ UNCHANGED <<buf, raised>>
    <2>1. PipelineTypes'
      BY <1>1, <1>2, <1>3, <1>5, TypesBy DEF PipelineTypes
    <2>2. Held' = Held
      BY <1>2, <1>5 DEF Held
    <2>3. Degraded'
      <3>1. Input(1) \in Procs' /\ pc'[Input(1)] = "dead"
        BY <1>0, <1>2, <1>5, SameNames DEF PipelineTypes
      <3> QED
        BY <3>1 DEF Degraded
    <2>4. Handed
      BY <1>1, <1>2, <2>2 DEF Handed, CustodyInv, Unique, Honest, Carries
    <2> QED
      BY <2>1, <2>3, <2>4 DEF Kept
  <1>6. CASE /\ buf' = Put(buf, PreQ(1), Singletons({Item(r, TRUE) : r \in got}))
             /\ \/ pc' = [pc EXCEPT ![Input(1)] = "exited"] /\ raised' = raised \cup {PreQ(1)}
                \/ UNCHANGED <<pc, raised>>
    <2> DEFINE X == {Item(r, TRUE) : r \in got}
               T == Singletons(X)
               N == At("buf", PreQ(1), T)
    <2>1. \A r \in got : r \in Requests /\ r \notin rejected /\ ~ Carries(Held, r) /\ answers[r] = <<>>
      BY <1>1 DEF CustodyInv, Apart, PipelineTypes
    <2>2. \A r \in got : Item(r, TRUE) \in Items /\ Item(r, TRUE).req = r /\ Item(r, TRUE).ok
      BY <2>1, ItemTypes
    <2>3. UNION T = X /\ \A b \in T : \E r \in got : b = {Item(r, TRUE)}
      BY DEF Singletons
    <2>4. \A r : r \in ReqsOf(T) <=> r \in got
      <3>1. \A r : r \in ReqsOf(T) <=> \E x \in X : x.req = r
        BY <2>3 DEF ReqsOf
      <3>2. \A x \in X : \E r \in got : x = Item(r, TRUE)
        OBVIOUS
      <3>3. \A r \in got : Item(r, TRUE) \in X
        OBVIOUS
      <3>4. ASSUME NEW r \in got PROVE Item(r, TRUE).req = r
        BY <2>2
      <3> HIDE DEF X
      <3>5. \A r \in got : r \in ReqsOf(T)
        BY <3>1, <3>3, <3>4
      <3>6. \A x \in X : x.req \in got
        BY <3>2, <3>4
      <3> QED
        BY <3>1, <3>5, <3>6
    <2>5. Relabels(T, T, rejected')
      <3>1. \A r \in got : r \in ReqsOf(T) /\ r \notin rejected'
        BY <1>2, <2>1, <2>4
      <3>2. \A b \in T : \E y \in Items : b = {y} /\ y.req \in got /\ y.ok
        <4> SUFFICES ASSUME NEW b \in T PROVE \E y \in Items : b = {y} /\ y.req \in got /\ y.ok
          OBVIOUS
        <4>1. PICK r \in got : b = {Item(r, TRUE)}
          BY <2>3
        <4>2. Item(r, TRUE) \in Items /\ Item(r, TRUE).req \in got /\ Item(r, TRUE).ok
          BY <2>2
        <4> QED
          BY <4>1, <4>2
      <3> HIDE DEF T
      <3> QED
        BY <3>1, <3>2 DEF Relabels
    <2> HIDE DEF T
    <2>6. T \subseteq Batch /\ Unique(N) /\ Honest(N, rejected')
      BY <2>5, Relabelled
    <2>7. PipelineTypes'
      <3>1. buf' = Put(buf, PreQ(1), T)
        BY <1>6 DEF T
      <3>2. buf' \in [Queues -> SUBSET Batch]
        BY <1>0, <2>6, <3>1, PutTypes DEF PipelineTypes
      <3> QED
        BY <1>1, <1>2, <1>3, <3>2, TypesBy DEF PipelineTypes
    <2>8. Slots("buf", buf') = Slots("buf", buf) \cup N
      <3>1. Gains(buf, buf', PreQ(1), T)
        BY <1>0, <1>6 DEF Gains, Becomes, Put, PipelineTypes, T
      <3> QED
        BY <3>1, SlotsPut
    <2>9. Held' = (Held \ {}) \cup N
      BY <1>2, <2>8, HeldParts
    <2>10. \A r : Carries(N, r) <=> r \in got
      BY <2>4, AtIs
    <2> HIDE DEF N
    <2>11. Passes(Held, {}, N, Held', rejected, rejected')
      BY <1>2, <2>1, <2>6, <2>9, <2>10 DEF Passes, CustodyInv
    <2>12. /\ Unique(Held') /\ Honest(Held', rejected')
           /\ \A r : Carries(Held', r) => Carries(Held, r) \/ Carries(N, r)
           /\ \A r : Carries(Held, r) => Carries(Held', r) \/ Carries({}, r)
           /\ \A r : Carries(N, r) => Carries(Held', r)
      BY <2>11, HandOver
    <2>13. /\ Unique(Held)' /\ Honest(Held, rejected)'
           /\ \A r : Carries(Held, r)' <=> Carries(Held', r)
      BY <2>12 DEF Unique, Honest, Carries
    <2>14. Handed
      BY <1>1, <1>2, <2>10, <2>12, <2>13 DEF Handed
    <2>15. Kept
      BY <1>1, <1>2, <1>4, <2>10, <2>12, <2>13, NothingCarried DEF Kept
    <2> QED
      BY <2>7, <2>14, <2>15
  <1> QED
    BY <1>1, <1>5, <1>6


(* Steps that read flags, sessions or empty queues and move no request.    *)
LEMMA QuietMoves ==
    ASSUME PipelineTypes, CustodyInv,
           UNCHANGED <<cmodel, buf, pipe, qbuf, hold, unsent, topic, answers, rejected>>,
           main' \in {"serving", "removed", "stopping", "killed"}, raised' \subseteq Queues,
           pc' \in [Procs -> {"loop", "last", "exited", "dead"}],
           Degraded => Degraded'
    PROVE  PipelineTypes' /\ Handed /\ Kept
  <1>1. PipelineTypes'
    BY TypesBy DEF PipelineTypes
  <1> QED
    BY <1>1, NothingMoves

LEMMA ExitMoves ==
    ASSUME PipelineTypes, CustodyInv, NEW p \in Procs, pc[p] # "dead",
           pc' = [pc EXCEPT ![p] = "exited"], raised' \subseteq Queues,
           UNCHANGED <<cmodel, main, buf, pipe, qbuf, hold, unsent, topic, answers, rejected>>
    PROVE  PipelineTypes' /\ Handed /\ Kept
  <1>1. pc' \in [Procs -> {"loop", "last", "exited", "dead"}]
    BY DEF PipelineTypes
  <1>2. \A x \in Procs : pc[x] = "dead" => pc'[x] = "dead"
    BY DEF PipelineTypes
  <1>3. Degraded => Degraded'
    BY <1>2, DegradedKept
  <1> QED
    BY <1>1, <1>3, QuietMoves DEF PipelineTypes

LEMMA ExitSteps ==
    ASSUME PipelineTypes, CustodyInv, NEW i \in Stages,
           \/ \E k \in Preprocessors(i) : PreprocExit(i, k) \/ ReaderExit(i, k)
           \/ ~ cmodel[i].custom /\ ComputeExit(i)
           \/ cmodel[i].custom /\ CustomExit(i)
           \/ \E k \in 1 .. cmodel[i].post : OutputExit(i, k)
    PROVE  PipelineTypes' /\ Handed /\ Kept
  <1>0. cmodel \in Cmodels /\ raised \subseteq Queues
    BY DEF PipelineTypes
  <1>1. ASSUME NEW k \in Preprocessors(i), PreprocExit(i, k)
        PROVE  PipelineTypes' /\ Handed /\ Kept
    <2>1. Preproc(i, k) \in Procs /\ CmpQ(i, k) \in Queues
      BY <1>0, StageParts
    <2>2. /\ pc[Preproc(i, k)] # "dead" /\ pc' = [pc EXCEPT ![Preproc(i, k)] = "exited"]
          /\ raised' = raised \cup {CmpQ(i, k)}
          /\ UNCHANGED <<cmodel, main, buf, pipe, qbuf, hold, unsent, topic, answers, rejected>>
      BY <1>1 DEF PreprocExit, SetNextFlag, wiring, tasks
    <2> QED
      BY <1>0, <2>1, <2>2, ExitMoves
  <1>2. ASSUME NEW k \in Preprocessors(i), ReaderExit(i, k)
        PROVE  PipelineTypes' /\ Handed /\ Kept
    <2>1. Reader(i, k) \in Procs
      BY <1>0, StageParts
    <2>2. /\ pc[Reader(i, k)] # "dead" /\ pc' = [pc EXCEPT ![Reader(i, k)] = "exited"]
          /\ UNCHANGED <<cmodel, main, raised, buf, pipe, qbuf, hold, unsent, topic, answers, rejected>>
      BY <1>2 DEF ReaderExit, wiring, tasks, queues
    <2> QED
      BY <1>0, <2>1, <2>2, ExitMoves
  <1>3. ASSUME ~ cmodel[i].custom, ComputeExit(i)
        PROVE  PipelineTypes' /\ Handed /\ Kept
    <2>1. Compute(i) \in Procs /\ OutQ(i) \in Queues
      BY <1>0, <1>3, StageParts
    <2>2. /\ pc[Compute(i)] # "dead" /\ pc' = [pc EXCEPT ![Compute(i)] = "exited"]
          /\ raised' = raised \cup {OutQ(i)}
          /\ UNCHANGED <<cmodel, main, buf, pipe, qbuf, hold, unsent, topic, answers, rejected>>
      BY <1>3 DEF ComputeExit, SetNextFlag, wiring, tasks
    <2> QED
      BY <1>0, <2>1, <2>2, ExitMoves
  <1>4. ASSUME cmodel[i].custom, CustomExit(i)
        PROVE  PipelineTypes' /\ Handed /\ Kept
    <2>1. Custom(i) \in Procs /\ OutQ(i) \in Queues
      BY <1>0, <1>4, StageParts
    <2>2. /\ pc[Custom(i)] # "dead" /\ pc' = [pc EXCEPT ![Custom(i)] = "exited"]
          /\ raised' = raised \cup {OutQ(i)}
          /\ UNCHANGED <<cmodel, main, buf, pipe, qbuf, hold, unsent, topic, answers, rejected>>
      BY <1>4 DEF CustomExit, SetNextFlag, wiring, tasks
    <2> QED
      BY <1>0, <2>1, <2>2, ExitMoves
  <1>5. ASSUME NEW k \in 1 .. cmodel[i].post, OutputExit(i, k)
        PROVE  PipelineTypes' /\ Handed /\ Kept
    <2>1. Output(i, k) \in Procs
      BY <1>0, StageParts
    <2>2. /\ pc[Output(i, k)] # "dead" /\ pc' = [pc EXCEPT ![Output(i, k)] = "exited"]
          /\ UNCHANGED <<cmodel, main, buf, pipe, qbuf, hold, unsent, topic, answers, rejected>>
      BY <1>5 DEF OutputExit, wiring, tasks
    <2>3. CASE IsLast(i)
      <3>1. raised' = raised
        BY <1>5, <2>3 DEF OutputExit
      <3> QED
        BY <1>0, <2>1, <2>2, <3>1, ExitMoves
    <2>4. CASE ~ IsLast(i)
      <3>1. raised' = raised \cup {InQ(i + 1)}
        BY <1>5, <2>4 DEF OutputExit, SetNextFlag
      <3>2. i + 1 \in Stages
        BY <1>0, <2>4, NextStage
      <3>3. InQ(i + 1) \in Queues
        BY <1>0, <3>2, StageParts
      <3> QED
        BY <1>0, <2>1, <2>2, <3>1, <3>3, ExitMoves
    <2> QED
      BY <2>3, <2>4
  <1> QED
    BY <1>1, <1>2, <1>3, <1>4, <1>5

LEMMA MainMoves ==
    ASSUME PipelineTypes, CustodyInv,
           (\E s \in Sessions : AddSession(s) \/ RemoveSession(s)) \/ SetStopFlag
    PROVE  PipelineTypes' /\ Handed /\ Kept
  <1>1. UNCHANGED <<cmodel, buf, pipe, qbuf, hold, pc, unsent, topic, answers, rejected>>
    BY DEF AddSession, RemoveSession, SetStopFlag, queues, procs, tasks
  <1>2. main' \in {"serving", "removed", "stopping", "killed"} /\ (main # "serving" => main' # "serving")
    BY DEF AddSession, RemoveSession, SetStopFlag
  <1>3. raised' \subseteq Queues
    <2>1. InQ(1) \in Queues
      BY FirstStage, StageParts DEF PipelineTypes
    <2> QED
      BY <2>1 DEF AddSession, RemoveSession, SetStopFlag, queues, PipelineTypes
  <1>4. Degraded => Degraded'
    BY <1>1, <1>2, SameNames DEF Degraded
  <1> QED
    BY <1>1, <1>2, <1>3, <1>4, QuietMoves DEF PipelineTypes

(* No batch waits that holds several requests where only the first gets a  *)
(* result.                                                                 *)
OneEach ==
    \A i \in Stages : ~ cmodel[i].custom /\ FirstOnly(cmodel[i]) => \A b \in qbuf[i] : \E x : b = {x}

(* Every step but that of a client hands the requests over, and keeps them *)
(* when the batches of which only the first gets a result hold one each.   *)
LEMMA StepMoves ==
    ASSUME PipelineTypes, CustodyInv, Next
    PROVE  \/ \E r \in Requests : Push(r)
           \/ PipelineTypes' /\ Handed /\ (OneEach => Kept)
  <1>1. ASSUME NEW i \in Stages, ~ cmodel[i].custom, Infer(i)
        PROVE  PipelineTypes' /\ Handed /\ (OneEach => Kept)
    BY <1>1, InferMoves DEF OneEach
  <1>2. ASSUME NEW i \in Stages, NEW k \in 1 .. cmodel[i].post, OutputStep(i, k) \/ OutputRaises(i, k)
        PROVE  PipelineTypes' /\ Handed /\ Kept
    <2>1. CASE OutputStep(i, k)
      <3>1. Leaves(i, k, UNION hold[Output(i, k)])
        BY <2>1 DEF OutputStep, Leaves, wiring
      <3> QED
        BY <3>1, OutputAnswers, OutputForwards
    <2>2. CASE OutputRaises(i, k)
      <3>1. PICK x \in UNION hold[Output(i, k)] :
               \E done \in SUBSET (UNION hold[Output(i, k)] \ {x}) : PassOn(i, done)
        BY <2>2 DEF OutputRaises
      <3>2. PICK done \in SUBSET (UNION hold[Output(i, k)] \ {x}) : PassOn(i, done)
        BY <3>1
      <3>3. Leaves(i, k, done)
        BY <2>2, <3>2 DEF OutputRaises, Leaves, wiring
      <3> QED
        BY <3>3, OutputAnswers, OutputForwards
    <2> QED
      BY <1>2, <2>1, <2>2
  <1> DEFINE Moves == PipelineTypes' /\ Handed /\ Kept
  <1>3. \/ \E r \in Requests : Push(r)
        \/ \E i \in Stages : ~ cmodel[i].custom /\ Infer(i)
        \/ Moves
    <2> HIDE DEF Moves
    <2>1. ASSUME (\E s \in Sessions : AddSession(s)) \/ (\E s \in Sessions : RemoveSession(s)) \/ SetStopFlag PROVE Moves
      BY <2>1, MainMoves DEF Moves
    <2>2. ASSUME Terminate PROVE Moves
      BY <2>2, TerminateDrops DEF Moves
    <2>3. ASSUME InputStep PROVE Moves
      BY <2>3, InputTakes DEF Moves
    <2>4. ASSUME NEW q \in Queues, Feed(q) PROVE Moves
      BY <2>4, FeedMoves DEF Moves
    <2>5. ASSUME NEW i \in Stages, ForwardStep(i) PROVE Moves
      BY <2>5, ForwardMoves DEF Moves
    <2>6. ASSUME NEW i \in Stages, NEW k \in Preprocessors(i), PreprocRead(i, k) PROVE Moves
      BY <2>6, PreprocReads DEF Moves
    <2>7. ASSUME NEW i \in Stages, NEW k \in Preprocessors(i), SendBatch(i, k) PROVE Moves
      BY <2>7, BatchMoves DEF Moves
    <2>8. ASSUME NEW i \in Stages, NEW k \in Preprocessors(i), PreprocExit(i, k) \/ ReaderExit(i, k) PROVE Moves
      BY <2>8, ExitSteps DEF Moves
    <2>9. ASSUME NEW i \in Stages, NEW k \in Preprocessors(i), ReaderRead(i, k) PROVE Moves
      BY <2>9, ReaderMoves DEF Moves
    <2>10. ASSUME NEW i \in Stages, ~ cmodel[i].custom, ComputeExit(i) PROVE Moves
      BY <2>10, ExitSteps DEF Moves
    <2>11. ASSUME NEW i \in Stages, ~ cmodel[i].custom, InferRaises(i) PROVE Moves
      BY <2>11, InferDrops DEF Moves
    <2>12. ASSUME NEW i \in Stages, cmodel[i].custom, CustomRead(i) PROVE Moves
      BY <2>12, CustomReads DEF Moves
    <2>13. ASSUME NEW i \in Stages, cmodel[i].custom, NEW raises \in BOOLEAN, CustomInfer(i, raises) PROVE Moves
      BY <2>13, CustomInfers DEF Moves
    <2>14. ASSUME NEW i \in Stages, cmodel[i].custom, CustomExit(i) PROVE Moves
      BY <2>14, ExitSteps DEF Moves
    <2>15. ASSUME NEW i \in Stages, NEW k \in 1 .. cmodel[i].post, OutputRead(i, k) PROVE Moves
      BY <2>15, OutputReads DEF Moves
    <2>16. ASSUME NEW i \in Stages, NEW k \in 1 .. cmodel[i].post, OutputStep(i, k) \/ OutputRaises(i, k)
           PROVE  Moves
      BY <2>16, <1>2 DEF Moves
    <2>17. ASSUME NEW i \in Stages, NEW k \in 1 .. cmodel[i].post, OutputExit(i, k) PROVE Moves
      BY <2>17, ExitSteps DEF Moves
    <2> QED
      BY <2>1, <2>2, <2>3, <2>4, <2>5, <2>6, <2>7, <2>8, <2>9, <2>10, <2>11, <2>12, <2>13, <2>14,
         <2>15, <2>16, <2>17, NextCases, Zenon
  <1> QED
    BY <1>1, <1>3

(* A client moves its request to the topic.                                *)
LEMMA PushMoves ==
    ASSUME PipelineTypes, CustodyInv, NEW r \in Requests, Push(r)
    PROVE  PipelineTypes' /\ CustodyInv' /\ Degraded' = Degraded /\ Held' = Held
  <1>1. /\ r \in unsent /\ unsent' = unsent \ {r} /\ topic' = topic \cup {r}
        /\ UNCHANGED <<cmodel, main, raised, buf, pipe, qbuf, pc, hold, answers, rejected>>
    BY DEF Push, wiring, queues, procs
  <1>2. PipelineTypes'
    BY <1>1, TypesBy DEF PipelineTypes
  <1>3. Held' = Held /\ Degraded' = Degraded
    BY <1>1, SameNames DEF Held, Degraded
  <1>4. Unique(Held)' /\ Honest(Held, rejected)' /\ \A x : Carries(Held, x)' <=> Carries(Held, x)
    BY <1>1, <1>3 DEF CustodyInv, Unique, Honest, Carries
  <1>5. Apart'
    <2> SUFFICES ASSUME NEW x \in Requests
                 PROVE  /\ x \in unsent' => x \notin topic'
                        /\ x \in unsent' \/ x \in topic' =>
                              answers'[x] = <<>> /\ x \notin rejected' /\ ~ Carries(Held, x)'
                        /\ answers'[x] # <<>> => ~ Carries(Held, x)' /\ Answered(x)'
      BY DEF Apart
    <2>1. /\ x \in unsent => x \notin topic
          /\ x \in unsent \/ x \in topic => answers[x] = <<>> /\ x \notin rejected /\ ~ Carries(Held, x)
          /\ answers[x] # <<>> => ~ Carries(Held, x) /\ Answered(x)
      BY DEF CustodyInv, Apart
    <2>2. Answered(x) => Answered(x)'
      BY <1>1 DEF Answered
    <2> QED
      BY <1>1, <1>4, <2>1, <2>2
  <1> QED
    BY <1>2, <1>3, <1>4, <1>5 DEF CustodyInv

LEMMA PushStep ==
    ASSUME PipelineTypes, CustodyInv, NEW r \in Requests, Push(r)
    PROVE  Service!Push(r)
  <1>1. /\ r \in unsent /\ unsent' = unsent \ {r} /\ topic' = topic \cup {r}
        /\ UNCHANGED <<answers, rejected>>
    BY DEF Push
  <1>2. PipelineTypes' /\ Degraded' = Degraded /\ Held' = Held
    BY PushMoves
  <1>3. \A x \in Requests : InPipeline(x)' <=> InPipeline(x)
    BY <1>2, PipelineHolds, PipelineHoldsNext DEF Carries
  <1>4. \A x \in Requests : Fate'[x] = IF x = r THEN "queued" ELSE Fate[x]
    <2> SUFFICES ASSUME NEW x \in Requests
                 PROVE  Fate'[x] = IF x = r THEN "queued" ELSE Fate[x]
      OBVIOUS
    <2>1. Fate[x] = IF x \in unsent THEN "new"
                    ELSE IF x \in topic THEN "queued"
                    ELSE IF answers[x] # <<>> THEN answers[x][Len(answers[x])]
                    ELSE IF InPipeline(x) THEN "pending" ELSE "lost"
      BY DEF Fate
    <2>2. Fate'[x] = IF x \in unsent' THEN "new"
                    ELSE IF x \in topic' THEN "queued"
                    ELSE IF answers'[x] # <<>> THEN answers'[x][Len(answers'[x])]
                    ELSE IF InPipeline(x)' THEN "pending" ELSE "lost"
      BY DEF Fate
    <2> HIDE DEF Fate, InPipeline
    <2>3. r \notin unsent' /\ r \in topic'
      BY <1>1
    <2>4. x # r => (x \in unsent' <=> x \in unsent) /\ (x \in topic' <=> x \in topic)
      BY <1>1
    <2> QED
      BY <1>1, <1>3, <2>1, <2>2, <2>3, <2>4
  <1>5. Fate[r] = "new"
    BY <1>1 DEF Fate
  <1>6. Fate' = [Fate EXCEPT ![r] = "queued"]
    <2>1. DOMAIN Fate = Requests /\ Fate' = [x \in Requests |-> Fate'[x]]
      BY DEF Fate
    <2> QED
      BY <1>4, <2>1
  <1> QED
    BY <1>1, <1>2, <1>5, <1>6 DEF Service!Push, Service!Moves

LEMMA InitCustody ==
    ASSUME Init
    PROVE  CustodyInv
  <1>1. Held = {}
    BY DEF Init, Held, Slots
  <1>2. \A r \in Requests : answers[r] = <<>> /\ r \notin topic /\ r \notin rejected /\ ~ Carries(Held, r)
    BY <1>1, NothingCarried DEF Init
  <1> QED
    BY <1>1, <1>2, NothingCarried DEF CustodyInv, Apart

LEMMA SameCustody ==
    ASSUME PipelineTypes, CustodyInv, UNCHANGED vars
    PROVE  PipelineTypes' /\ CustodyInv'
  <1>1. UNCHANGED <<cmodel, main, raised, buf, pipe, qbuf, pc, hold, unsent, topic, answers, rejected>>
    BY DEF vars, wiring, queues, procs, tasks
  <1>2. Degraded => Degraded'
    BY <1>1, SameNames DEF Degraded
  <1>3. PipelineTypes' /\ Handed
    BY <1>1, <1>2, QuietMoves DEF PipelineTypes
  <1> QED
    BY <1>3, CustodyKept

LEMMA CustodyStep ==
    ASSUME PipelineTypes, CustodyInv, [Next]_vars
    PROVE  PipelineTypes' /\ CustodyInv'
  <1>1. CASE Next
    BY <1>1, StepMoves, CustodyKept, PushMoves
  <1>2. CASE UNCHANGED vars
    BY <1>2, SameCustody
  <1> QED
    BY <1>1, <1>2

(* Every request is in one batch of one place, and the status it carries   *)
(* from stage to stage, or was answered with, is true: the inductive       *)
(* invariant of the five process classes of main_processes/backend.        *)
THEOREM CustodyHolds == Spec => [](PipelineTypes /\ CustodyInv)
  <1>1. Init => PipelineTypes /\ CustodyInv
    BY InitTypes, InitCustody
  <1>2. PipelineTypes /\ CustodyInv /\ [Next]_vars => (PipelineTypes /\ CustodyInv)'
    BY CustodyStep
  <1> QED
    BY <1>1, <1>2, PTL DEF Spec

-----------------------------------------------------------------------------
(* The lists of sessions.                                                  *)

(* A set of naturals has a least element.                                  *)
LEMMA LeastElement ==
    ASSUME NEW T \in SUBSET Nat, T # {}
    PROVE  \E x \in T : \A y \in T : x <= y
  <1> DEFINE R == OpToRel(<, Nat)
  <1>1. IsWellFoundedOn(R, Nat)
    BY NatLessThanWellFounded
  <1>2. PICK x \in T : \A y \in T : ~ (<<y, x>> \in R)
    <2> HIDE DEF R
    <2> QED
      BY <1>1, WFMin
  <1>3. \A y \in T : ~ (y < x)
    BY <1>2 DEF OpToRel
  <1> QED
    BY <1>3

(* Induction up to n, for a property given by the set of its numbers.      *)
LEMMA UpTo ==
    ASSUME NEW n \in Nat, NEW P, 0 \in P, \A i \in 1 .. n : i - 1 \in P => i \in P
    PROVE  \A i \in 0 .. n : i \in P
  <1> SUFFICES ASSUME NEW i \in 0 .. n, i \notin P PROVE FALSE
    OBVIOUS
  <1> DEFINE T == {j \in 0 .. n : j \notin P}
  <1>1. T \in SUBSET Nat /\ T # {}
    OBVIOUS
  <1>2. PICK x \in T : \A y \in T : x <= y
    BY <1>1, LeastElement
  <1>3. x # 0 /\ x \in 1 .. n /\ x - 1 \in 0 .. n /\ ~ (x <= x - 1)
    BY <1>2
  <1>4. x - 1 \in P
    BY <1>2, <1>3
  <1> QED
    BY <1>3, <1>4

(* The greatest index of a set of indices is one of them.                  *)
LEMMA MaxOfSet ==
    ASSUME NEW n \in Nat, NEW t \in SUBSET (1 .. n), t # {}
    PROVE  Max(t) \in t /\ \A y \in t : Max(t) >= y
  <1> DEFINE T == {i \in Nat : \A y \in t : i >= y}
  <1>1. T \in SUBSET Nat /\ n \in T
    OBVIOUS
  <1>2. PICK x \in T : \A y \in T : x <= y
    BY <1>1, LeastElement
  <1>3. x \in t
    <2> SUFFICES ASSUME x \notin t PROVE FALSE
      OBVIOUS
    <2>1. PICK y \in t : TRUE
      OBVIOUS
    <2>2. x >= 1 /\ \A z \in t : z \in Nat /\ x >= z /\ x # z
      BY <1>2, <2>1
    <2>3. x - 1 \in T
      BY <1>2, <2>2
    <2> QED
      BY <1>2, <2>2, <2>3
  <1>4. \A y \in t : x >= y
    BY <1>2
  <1> QED
    BY <1>3, <1>4 DEF Max

(* The greatest index of a prefix is its last, and without it the prefix   *)
(* is one shorter.                                                         *)
LEMMA MaxOfInterval ==
    ASSUME NEW n \in Nat, NEW i \in 1 .. n
    PROVE  /\ 1 .. i \in SUBSET (1 .. n) /\ 1 .. i # {} /\ Max(1 .. i) = i
           /\ (1 .. i) \ {i} = 1 .. (i - 1)
  <1>1. 1 .. i \in SUBSET (1 .. n) /\ i \in 1 .. i /\ \A y \in 1 .. i : i >= y
    OBVIOUS
  <1>2. Max(1 .. i) \in 1 .. i /\ Max(1 .. i) >= i
    BY <1>1, MaxOfSet
  <1> QED
    BY <1>1, <1>2

(* A fold of the functions G[1], ..., G[n] over x0: a table of its values  *)
(* for every set of indices, and the sequence of its values.               *)
IsTable(h, U, n, x0, G) ==
    /\ h \in [SUBSET (1 .. n) -> U]
    /\ h[{}] = x0
    /\ \A t \in SUBSET (1 .. n) : t # {} => h[t] = G[Max(t)][h[t \ {Max(t)}]]
Unfolds(c, U, n, x0, G) ==
    /\ c[{}] = x0
    /\ \A t \in SUBSET (1 .. n) :
          t # {} /\ c[t \ {Max(t)}] \in U => c[t] = G[Max(t)][c[t \ {Max(t)}]]
IsRun(a, U, n, x0, G) ==
    /\ a \in [0 .. n -> U]
    /\ a[0] = x0
    /\ \A i \in 1 .. n : a[i] = G[i][a[i - 1]]

(* The table of a fold over n elements exists.                             *)
LEMMA FoldTable ==
    ASSUME NEW U, NEW n \in Nat, NEW x0 \in U, NEW G \in [1 .. n -> [U -> U]]
    PROVE  \E h : IsTable(h, U, n, x0, G)
  <1> DEFINE Table(k, h) == /\ h \in [SUBSET (1 .. k) -> U]
                            /\ h[{}] = x0
                            /\ \A t \in SUBSET (1 .. k) :
                                  t # {} => h[t] = G[Max(t)][h[t \ {Max(t)}]]
             P == {k \in 0 .. n : \E h : Table(k, h)}
  <1>1. 0 \in P
    <2> DEFINE h == [t \in SUBSET (1 .. 0) |-> x0]
    <2>1. 1 .. 0 = {} /\ SUBSET (1 .. 0) = {{}}
      OBVIOUS
    <2>2. h \in [SUBSET (1 .. 0) -> U] /\ h[{}] = x0
      BY <2>1
    <2>3. \A t \in SUBSET (1 .. 0) : t = {}
      BY <2>1
    <2> HIDE DEF h
    <2>4. Table(0, h)
      BY <2>2, <2>3
    <2>5. \E hh : Table(0, hh)
      BY <2>4
    <2>6. 0 \in 0 .. n
      OBVIOUS
    <2> HIDE DEF Table
    <2> QED
      BY <2>5, <2>6
  <1>2. ASSUME NEW i \in 1 .. n, i - 1 \in P
        PROVE  i \in P
    <2>1. PICK h : Table(i - 1, h)
      BY <1>2
    <2> DEFINE g == [t \in SUBSET (1 .. i) |-> IF i \in t THEN G[i][h[t \ {i}]] ELSE h[t]]
    <2>2. ASSUME NEW t \in SUBSET (1 .. i)
          PROVE  t \ {i} \in SUBSET (1 .. (i - 1)) /\ (i \notin t => t \in SUBSET (1 .. (i - 1)))
      OBVIOUS
    <2>3. g \in [SUBSET (1 .. i) -> U]
      BY <2>1, <2>2
    <2>4. g[{}] = x0
      BY <2>1
    <2>5. ASSUME NEW t \in SUBSET (1 .. i), t # {}
          PROVE  g[t] = G[Max(t)][g[t \ {Max(t)}]]
      <3>1. i \in Nat /\ Max(t) \in t /\ \A y \in t : Max(t) >= y
        <4>1. i \in Nat
          OBVIOUS
        <4> QED
          BY <2>5, <4>1, MaxOfSet
      <3>2. CASE i \in t
        <4>1. Max(t) = i
          <5>1. Max(t) \in 1 .. i /\ Max(t) >= i
            BY <3>1, <3>2
          <5> QED
            BY <3>1, <5>1
        <4>2. g[t] = G[i][h[t \ {i}]] /\ g[t \ {i}] = h[t \ {i}]
          BY <2>2, <3>2
        <4> QED
          BY <4>1, <4>2
      <3>3. CASE i \notin t
        <4>1. t \in SUBSET (1 .. (i - 1)) /\ i \notin t \ {Max(t)} /\ t \ {Max(t)} \in SUBSET (1 .. i)
          BY <2>2, <3>3
        <4>2. g[t] = h[t] /\ g[t \ {Max(t)}] = h[t \ {Max(t)}]
          BY <3>3, <4>1
        <4>3. h[t] = G[Max(t)][h[t \ {Max(t)}]]
          BY <2>1, <2>5, <4>1
        <4> QED
          BY <4>2, <4>3
      <3> QED
        BY <3>2, <3>3
    <2> HIDE DEF g
    <2>6. Table(i, g)
      BY <2>3, <2>4, <2>5
    <2>7. i \in 0 .. n
      OBVIOUS
    <2> HIDE DEF Table
    <2> QED
      BY <2>6, <2>7
  <1>3. n \in P
    <2>1. \A i \in 1 .. n : i - 1 \in P => i \in P
      BY <1>2
    <2>2. n \in 0 .. n
      OBVIOUS
    <2> HIDE DEF P
    <2> QED
      BY <1>1, <2>1, <2>2, UpTo
  <1> QED
    BY <1>3 DEF IsTable

(* The values a table takes on the prefixes are the steps of the fold.     *)
LEMMA FoldSteps ==
    ASSUME NEW U, NEW n \in Nat, NEW x0 \in U, NEW G \in [1 .. n -> [U -> U]],
           NEW c, Unfolds(c, U, n, x0, G)
    PROVE  \E a : IsRun(a, U, n, x0, G) /\ a[n] = c[1 .. n]
  <1> USE DEF Unfolds
  <1> DEFINE a == [i \in 0 .. n |-> c[1 .. i]]
             P == {i \in 0 .. n : a[i] \in U}
  <1>1. a[0] = x0
    <2>1. 1 .. 0 = {}
      OBVIOUS
    <2> QED
      BY <2>1
  <1>2. ASSUME NEW i \in 1 .. n, a[i - 1] \in U
        PROVE  a[i] = G[i][a[i - 1]]
    <2>1. /\ 1 .. i \in SUBSET (1 .. n) /\ 1 .. i # {} /\ Max(1 .. i) = i
          /\ (1 .. i) \ {i} = 1 .. (i - 1)
      BY MaxOfInterval
    <2>2. a[i] = c[1 .. i] /\ a[i - 1] = c[1 .. (i - 1)]
      OBVIOUS
    <2> HIDE DEF a
    <2> QED
      BY <1>2, <2>1, <2>2, ZenonT(30)
  <1>3. \A i \in 0 .. n : i \in P
    <2>1. 0 \in P
      BY <1>1
    <2>2. ASSUME NEW i \in 1 .. n, i - 1 \in P PROVE i \in P
      <3>1. i \in 0 .. n /\ a[i - 1] \in U
        BY <2>2
      <3>2. a[i] = G[i][a[i - 1]]
        BY <1>2, <3>1
      <3>3. a[i] \in U
        BY <3>1, <3>2
      <3> HIDE DEF a
      <3> QED
        BY <3>1, <3>3
    <2>3. \A i \in 1 .. n : i - 1 \in P => i \in P
      BY <2>2
    <2> HIDE DEF P
    <2> QED
      BY <2>1, <2>3, UpTo
  <1>4. a \in [0 .. n -> U] /\ \A i \in 1 .. n : a[i] = G[i][a[i - 1]]
    <2>1. \A i \in 0 .. n : a[i] \in U
      BY <1>3
    <2>2. \A i \in 1 .. n : i - 1 \in 0 .. n
      OBVIOUS
    <2>3. a \in [0 .. n -> U]
      BY <2>1
    <2> HIDE DEF a
    <2> QED
      BY <1>2, <2>1, <2>2, <2>3
  <1>5. a[n] = c[1 .. n]
    OBVIOUS
  <1> HIDE DEF a
  <1> QED
    BY <1>1, <1>4, <1>5 DEF IsRun

Commands == [cmd : {"add", "remove"}, session : Sessions]

(* What pop leaves of a dictionary is of the same type.                    *)
LEMMA RemoveFirstType ==
    ASSUME NEW S, NEW ss \in Seq(S), NEW x
    PROVE  RemoveFirst(ss, x) \in Seq(S)
  <1> DEFINE I == {i \in 1 .. Len(ss) : ss[i] = x}
             k == Min(I)
  <1>1. CASE I = {}
    BY <1>1 DEF RemoveFirst
  <1>2. CASE I # {}
    <2>1. PICK i \in I : \A y \in I : i <= y
      <3>1. I \in SUBSET Nat /\ I # {}
        BY <1>2
      <3> HIDE DEF I
      <3> QED
        BY <3>1, LeastElement
    <2>2. k \in I
      <3> HIDE DEF I
      <3> QED
        BY <2>1 DEF Min
    <2>3. RemoveFirst(ss, x) = RemoveAt(ss, k)
      BY <1>2 DEF RemoveFirst, SelectInSeq
    <2>4. k \in 1 .. Len(ss)
      BY <2>2
    <2> HIDE DEF k, I
    <2>5. SubSeq(ss, 1, k - 1) \in Seq(S) /\ SubSeq(ss, k + 1, Len(ss)) \in Seq(S)
      BY <2>4
    <2> QED
      BY <2>3, <2>5 DEF RemoveAt
  <1> QED
    BY <1>1, <1>2

LEMMA ApplyType ==
    ASSUME NEW ss \in Seq(Sessions), NEW c \in Commands
    PROVE  Apply(ss, c) \in Seq(Sessions)
  BY RemoveFirstType DEF Apply, Commands

(* The input process applies its commands to the sessions it serves.       *)
LEMMA ServedType ==
    ASSUME NEW cs \in Seq(Commands), served \in Seq(Sessions)
    PROVE  ServedAfter(cs) \in Seq(Sessions)
  <1> DEFINE n == Len(cs)
             U == Seq(Sessions)
             G == [i \in 1 .. n |-> [u \in U |-> Apply(u, cs[i])]]
             E(c) == [t \in SUBSET DOMAIN cs |->
                         IF t = {} THEN served ELSE Apply(c[t \ {Max(t)}], cs[Max(t)])]
  <1>1. n \in Nat /\ DOMAIN cs = 1 .. n /\ \A i \in 1 .. n : cs[i] \in Commands
    OBVIOUS
  <1>2. G \in [1 .. n -> [U -> U]]
    BY <1>1, ApplyType
  <1>3. \A i \in 1 .. n : \A u \in U : G[i][u] = Apply(u, cs[i])
    OBVIOUS
  <1>4. served \in U
    OBVIOUS
  <1> HIDE DEF n, G, U
  <1>5. PICK h : IsTable(h, U, n, served, G)
    BY <1>1, <1>2, <1>4, FoldTable
  <1>6. \A t \in SUBSET (1 .. n) : t # {} => Max(t) \in 1 .. n /\ t \ {Max(t)} \in SUBSET (1 .. n)
    BY <1>1, MaxOfSet
  <1>7. h = E(h)
    BY <1>1, <1>3, <1>5, <1>6 DEF IsTable
  <1>8. PICK c : c = E(c) /\ ServedAfter(cs) = c[DOMAIN cs]
    BY <1>7 DEF ServedAfter, FoldLeft, MapThenFoldSet
  <1>9. \A t \in SUBSET (1 .. n) : t # {} => c[t] = Apply(c[t \ {Max(t)}], cs[Max(t)])
    BY <1>1, <1>8
  <1>10. Unfolds(c, U, n, served, G)
    <2>1. c[{}] = served
      BY <1>1, <1>8
    <2> HIDE DEF E
    <2>2. ASSUME NEW t \in SUBSET (1 .. n), t # {}, c[t \ {Max(t)}] \in U
          PROVE  c[t] = G[Max(t)][c[t \ {Max(t)}]]
      <3>1. Max(t) \in 1 .. n
        BY <1>6, <2>2
      <3> QED
        BY <1>3, <1>9, <2>2, <3>1
    <2> QED
      BY <2>1, <2>2 DEF Unfolds
  <1>11. PICK a : IsRun(a, U, n, served, G) /\ a[n] = c[1 .. n]
    BY <1>1, <1>2, <1>4, <1>10, FoldSteps
  <1>12. a[n] \in U
    BY <1>1, <1>11 DEF IsRun
  <1> QED
    BY <1>1, <1>8, <1>11, <1>12 DEF U

(* The variables PipelineTypes leaves out.                                 *)
ListTypes ==
    /\ args \in Seq(Sessions) /\ served \in Seq(Sessions)
    /\ cmds \in Seq(Commands)
    /\ faults \in 0 .. MaxFaults
    /\ updates \in 0 .. MaxUpdates

LEMMA ListStep ==
    ASSUME ListTypes, [Next]_vars
    PROVE  ListTypes'
  <1> USE DEF ListTypes
  <1>0. MaxFaults \in Nat /\ MaxUpdates \in Nat
    BY PipelineAssumption
  <1>1. ASSUME NEW s \in Sessions, AddSession(s) PROVE ListTypes'
    <2>1. [cmd |-> "add", session |-> s] \in Commands
      BY DEF Commands
    <2> QED
      BY <1>0, <1>1, <2>1 DEF AddSession
  <1>2. ASSUME NEW s \in Sessions, RemoveSession(s) PROVE ListTypes'
    <2>1. [cmd |-> "remove", session |-> s] \in Commands
      BY DEF Commands
    <2>2. args' \in Seq(Sessions)
      BY <1>2, RemoveFirstType DEF RemoveSession
    <2> QED
      BY <1>0, <1>2, <2>1, <2>2 DEF RemoveSession
  <1>3. CASE InputStep
    <2>1. PICK cs \in {cmds, <<>>} : \E remains, new : InputLoop(cs, remains, new)
      BY <1>3 DEF InputStep
    <2>2. cs \in Seq(Commands)
      <3>1. cmds \in Seq(Commands) /\ <<>> \in Seq(Commands)
        OBVIOUS
      <3>2. cs = cmds \/ cs = <<>>
        OBVIOUS
      <3> QED
        BY <3>1, <3>2, Zenon
    <2>3. served' = ServedAfter(cs) /\ cmds' = (IF cs = <<>> THEN cmds ELSE <<>>)
      BY <2>1 DEF InputLoop
    <2>4. UNCHANGED <<args, bounds>>
      BY <2>1 DEF InputLoop
    <2>5. served' \in Seq(Sessions)
      BY <2>2, <2>3, ServedType
    <2>6. cmds' \in Seq(Commands)
      BY <2>3
    <2> QED
      BY <2>4, <2>5, <2>6 DEF bounds
  <1>4. ASSUME NEW i, NEW k, InferRaises(i) \/ OutputRaises(i, k) PROVE ListTypes'
    BY <1>0, <1>4 DEF InferRaises, OutputRaises, wiring
  <1>5. CASE UNCHANGED <<args, cmds, served, bounds>>
    BY <1>5 DEF bounds
  <1>6. CASE Next
    <2>1. CASE \E r \in Requests : Push(r)
      BY <1>5, <2>1 DEF Push, wiring
    <2>2. CASE SetStopFlag \/ Terminate
      BY <1>5, <2>2 DEF SetStopFlag, Terminate
    <2>3. CASE \E q \in Queues : Feed(q)
      BY <1>5, <2>3 DEF Feed, wiring
    <2>4. CASE \E i \in Stages : ForwardStep(i)
      BY <1>5, <2>4 DEF ForwardStep, wiring
    <2>5. CASE \E i \in Stages : \E k \in Preprocessors(i) : PreprocRead(i, k) \/ SendBatch(i, k) \/ PreprocExit(i, k)
      BY <1>5, <2>5 DEF PreprocRead, SendBatch, PreprocExit, wiring
    <2>6. CASE \E i \in Stages : \E k \in Preprocessors(i) : ReaderRead(i, k) \/ ReaderExit(i, k)
      BY <1>5, <2>6 DEF ReaderRead, ReaderExit, wiring
    <2>7. CASE \E i \in Stages : Infer(i) \/ ComputeExit(i)
      BY <1>5, <2>7 DEF Infer, ComputeExit, wiring
    <2>8. CASE \E i \in Stages : CustomRead(i) \/ CustomExit(i) \/ \E raises \in BOOLEAN : CustomInfer(i, raises)
      BY <1>5, <2>8 DEF CustomRead, CustomExit, CustomInfer, wiring
    <2>9. CASE \E i \in Stages : \E k \in 1 .. cmodel[i].post : OutputRead(i, k) \/ OutputStep(i, k) \/ OutputExit(i, k)
      BY <1>5, <2>9 DEF OutputRead, OutputStep, OutputExit, wiring
    <2> HIDE DEF ListTypes
    <2> QED
      BY <1>1, <1>2, <1>3, <1>4, <1>6, <2>1, <2>2, <2>3, <2>4, <2>5, <2>6, <2>7, <2>8, <2>9, NextCases
  <1>7. CASE UNCHANGED vars
    BY <1>5, <1>7 DEF vars, wiring
  <1> QED
    BY <1>6, <1>7

(* Type correctness of the processes of a model: in particular the input   *)
(* process, whatever commands it is sent, serves the uuids of sessions,    *)
(* and no step names a queue, process or stage the deployment lacks.       *)
THEOREM TypeCorrect == Spec => []TypeOK
  <1>1. Init => ListTypes
    <2>1. ASSUME Init PROVE ListTypes
      <3>1. PICK s \in Sessions : args = <<s>>
        BY <2>1 DEF Init
      <3>2. args \in Seq(Sessions) /\ served = args /\ cmds = <<>> /\ faults = 0 /\ updates = 0
        BY <2>1, <3>1 DEF Init
      <3> QED
        BY <3>2, PipelineAssumption DEF ListTypes
    <2> QED
      BY <2>1
  <1>2. ListTypes /\ [Next]_vars => ListTypes'
    BY ListStep
  <1>3. PipelineTypes /\ ListTypes => TypeOK
    BY DEF PipelineTypes, ListTypes, TypeOK, Commands
  <1>4. Spec => [](PipelineTypes /\ CustodyInv)
    BY CustodyHolds
  <1> QED
    BY <1>1, <1>2, <1>3, <1>4, PTL DEF Spec

-----------------------------------------------------------------------------
(* Counting the places.                                                    *)

Having(f, r) == {x \in DOMAIN f : r \in ReqsOf(f[x])}

LEMMA HavingOne ==
    ASSUME NEW k, NEW d, NEW r, Unique(Slots(k, d))
    PROVE  /\ Having(d, r) = {} \/ \E x : Having(d, r) = {x}
           /\ Carries(Slots(k, d), r) <=> Having(d, r) # {}
  <1>1. Carries(Slots(k, d), r) <=> Having(d, r) # {}
    BY SlotsCarry DEF Having
  <1>2. ASSUME NEW x \in Having(d, r), NEW y \in Having(d, r)
        PROVE  x = y
    <2>1. PICK b \in d[x] : \E i \in b : i.req = r
      BY DEF Having, ReqsOf
    <2>2. PICK c \in d[y] : \E j \in c : j.req = r
      BY DEF Having, ReqsOf
    <2>3. <<k, x, b>> \in Slots(k, d) /\ <<k, y, c>> \in Slots(k, d)
      BY DEF Slots, Having
    <2>4. PICK s \in Slots(k, d) : s = <<k, x, b>> /\ s[3] = b
      BY <2>3
    <2>5. PICK t \in Slots(k, d) : t = <<k, y, c>> /\ t[3] = c
      BY <2>3
    <2>6. s = t
      BY <2>1, <2>2, <2>4, <2>5 DEF Unique
    <2> QED
      BY <2>4, <2>5, <2>6
  <1> QED
    BY <1>1, <1>2

LEMMA CountOne ==
    ASSUME NEW k, NEW f, NEW r, Unique(Slots(k, f))
    PROVE  /\ Cardinality(Having(f, r)) \in {0, 1}
           /\ Carries(Slots(k, f), r) <=> Cardinality(Having(f, r)) = 1
  <1>0. Having(f, r) = {} \/ \E x : Having(f, r) = {x}
    BY HavingOne, ZenonT(30)
  <1>1. CASE Having(f, r) = {}
    BY <1>1, HavingOne, FS_EmptySet
  <1>2. CASE \E x : Having(f, r) = {x}
    BY <1>2, HavingOne, FS_Singleton
  <1> QED
    BY <1>0, <1>1, <1>2

LEMMA OnePlace ==
    ASSUME PipelineTypes, CustodyInv, NEW r \in Requests
    PROVE  Holders(r) <= 1
  <1> DEFINE na == Cardinality(Having(buf, r))
             nb == Cardinality(Having(pipe, r))
             nc == Cardinality(Having(qbuf, r))
             nd == Cardinality(Having(hold, r))
             ca == Carries(Slots("buf", buf), r)
             cb == Carries(Slots("pipe", pipe), r)
             cc == Carries(Slots("qbuf", qbuf), r)
             cd == Carries(Slots("hold", hold), r)
  <1>1. /\ Unique(Slots("buf", buf)) /\ Unique(Slots("pipe", pipe))
        /\ Unique(Slots("qbuf", qbuf)) /\ Unique(Slots("hold", hold))
    BY HeldParts DEF CustodyInv, Unique
  <1>3. /\ na \in {0, 1} /\ nb \in {0, 1} /\ nc \in {0, 1} /\ nd \in {0, 1}
        /\ ca <=> na = 1
        /\ cb <=> nb = 1
        /\ cc <=> nc = 1
        /\ cd <=> nd = 1
    BY <1>1, CountOne
  <1>4. ASSUME NEW k, NEW f, NEW l, NEW g, k # l, Slots(k, f) \subseteq Held, Slots(l, g) \subseteq Held,
               Carries(Slots(k, f), r), Carries(Slots(l, g), r)
        PROVE  FALSE
    <2>1. PICK s \in Slots(k, f) : \E i \in s[3] : i.req = r
      BY <1>4 DEF Carries
    <2>2. PICK t \in Slots(l, g) : \E j \in t[3] : j.req = r
      BY <1>4 DEF Carries
    <2>3. s = t
      BY <1>4, <2>1, <2>2 DEF CustodyInv, Unique
    <2> QED
      BY <1>4, <2>3, KindsApart
  <1>5. /\ ~ (ca /\ cb) /\ ~ (ca /\ cc) /\ ~ (ca /\ cd)
        /\ ~ (cb /\ cc) /\ ~ (cb /\ cd) /\ ~ (cc /\ cd)
    <2>1. /\ Slots("buf", buf) \subseteq Held /\ Slots("pipe", pipe) \subseteq Held
          /\ Slots("qbuf", qbuf) \subseteq Held /\ Slots("hold", hold) \subseteq Held
      BY HeldParts
    <2> QED
      BY <1>4, <2>1
  <1>6. ca \/ cb \/ cc \/ cd => Carries(Held, r)
    BY HeldParts DEF Carries
  <1>7. /\ r \in unsent => r \notin topic
        /\ r \in unsent \/ r \in topic => answers[r] = <<>> /\ ~ Carries(Held, r)
        /\ answers[r] # <<>> => ~ Carries(Held, r) /\ Answered(r)
    BY DEF CustodyInv, Apart
  <1>8. (answers[r] = <<>> /\ Len(answers[r]) = 0) \/ (answers[r] # <<>> /\ Len(answers[r]) = 1)
    <2>1. CASE answers[r] = <<>>
      BY <2>1
    <2>2. CASE answers[r] # <<>>
      <3>1. PICK o : answers[r] = <<o>>
        BY <1>7, <2>2 DEF Answered
      <3> QED
        BY <3>1
    <2> QED
      BY <2>1, <2>2
  <1> DEFINE len == Len(answers[r])
             top == IF r \in topic THEN 1 ELSE 0
             uns == IF r \in unsent THEN 1 ELSE 0
  <1>9. Holders(r) = na + nb + nc + nd + len + top + uns
    BY DEF Holders, Having
  <1> HIDE DEF na, nb, nc, nd, ca, cb, cc, cd, len
  <1>10. len \in {0, 1} /\ (answers[r] # <<>> <=> len = 1)
    BY <1>8 DEF len
  <1>11. na + nb + nc + nd \in {0, 1} /\ (na + nb + nc + nd = 1 => Carries(Held, r))
    BY <1>3, <1>5, <1>6
  <1>12. len + top + uns \in {0, 1} /\ (len + top + uns = 1 => ~ Carries(Held, r))
    BY <1>7, <1>10
  <1>13. na + nb + nc + nd + len + top + uns = (na + nb + nc + nd) + (len + top + uns)
    BY <1>3, <1>10
  <1> QED
    BY <1>9, <1>11, <1>12, <1>13

(* No request is ever in two places or answered twice, whatever the number *)
(* of stages, preprocessors, output processes, batch sizes and faults: the *)
(* error shortcut of preprocessing_process.py and the output processes     *)
(* that read one queue together make no copies.                            *)
THEOREM NothingDuplicated == Spec => []NeverDuplicated
  <1>1. PipelineTypes /\ CustodyInv => NeverDuplicated
    BY OnePlace DEF NeverDuplicated
  <1> QED
    BY <1>1, CustodyHolds, PTL

-----------------------------------------------------------------------------
(* The preprocessors and the compute process of a stage.                   *)

Single(b) == \E x : b = {x}

(* A preprocessor holds requests one by one; without batching across       *)
(* requests every batch it sends holds one.                                *)
Alone(i, k) ==
    /\ \A b \in hold[Preproc(i, k)] : Single(b)
    /\ ~ cmodel[i].cross => \A b \in buf[CmpQ(i, k)] \cup pipe[CmpQ(i, k)] \cup qbuf[i] : Single(b)

(* A stop flag is set by a preprocessor that has sent all it held; the     *)
(* reader is joined when it has read all of it, and the compute process    *)
(* exits after its readers.                                                *)
Drain(i, k) ==
    /\ CmpQ(i, k) \in raised => pc[Preproc(i, k)] = "exited"
    /\ pc[Preproc(i, k)] = "exited" => hold[Preproc(i, k)] = {}
    /\ pc[Reader(i, k)] = "exited" =>
          CmpQ(i, k) \in raised /\ pipe[CmpQ(i, k)] = {} /\ buf[CmpQ(i, k)] = {}
    /\ pc[Compute(i)] = "exited" => qbuf[i] = {} /\ pc[Reader(i, k)] = "exited"

ComputeInv ==
    \A i \in Stages : \A k \in Preprocessors(i) : Alone(i, k) /\ (main # "killed" => Drain(i, k))

(* The places a stage's preprocessor k and its compute process work on.    *)
Places(i, k) ==
    /\ CmpQ(i, k) \in DOMAIN buf /\ CmpQ(i, k) \in DOMAIN pipe /\ i \in DOMAIN qbuf
    /\ Preproc(i, k) \in DOMAIN pc /\ Reader(i, k) \in DOMAIN pc /\ Compute(i) \in DOMAIN pc
    /\ Preproc(i, k) \in DOMAIN hold

LEMMA PlacesOf ==
    ASSUME PipelineTypes, NEW i \in Stages, NEW k \in Preprocessors(i)
    PROVE  Places(i, k)
  <1>1. cmodel \in Cmodels /\ DOMAIN buf = Queues /\ DOMAIN pipe = Queues /\ DOMAIN qbuf = Stages
    BY DEF PipelineTypes
  <1>2. DOMAIN pc = Procs /\ DOMAIN hold = Procs
    BY DEF PipelineTypes
  <1>3. ~ cmodel[i].custom
    BY <1>1, StageParts
  <1> QED
    BY <1>1, <1>2, <1>3, StageParts DEF Places

LEMMA ComputeBy ==
    ASSUME cmodel' = cmodel,
           \A i \in Stages : \A k \in Preprocessors(i) : Alone(i, k)' /\ (main' # "killed" => Drain(i, k)')
    PROVE  ComputeInv'
  BY SameNames DEF ComputeInv

(* Steps of the other processes leave these places alone.                  *)
Aside ==
    /\ cmodel' = cmodel /\ qbuf' = qbuf /\ (main' # "killed" => main # "killed")
    /\ \A i \in Stages : \A k \in Preprocessors(i) :
          /\ hold'[Preproc(i, k)] = hold[Preproc(i, k)]
          /\ buf'[CmpQ(i, k)] = buf[CmpQ(i, k)] /\ pipe'[CmpQ(i, k)] = pipe[CmpQ(i, k)]
          /\ CmpQ(i, k) \in raised' <=> CmpQ(i, k) \in raised
          /\ pc'[Preproc(i, k)] = pc[Preproc(i, k)] /\ pc'[Reader(i, k)] = pc[Reader(i, k)]
          /\ pc'[Compute(i)] = pc[Compute(i)]

LEMMA AsideKeeps ==
    ASSUME ComputeInv, Aside
    PROVE  ComputeInv'
  <1>1. ASSUME NEW i \in Stages, NEW k \in Preprocessors(i)
        PROVE  Alone(i, k)' /\ (main' # "killed" => Drain(i, k)')
    <2>1. Alone(i, k) /\ (main # "killed" => Drain(i, k))
      BY DEF ComputeInv
    <2>2. /\ hold'[Preproc(i, k)] = hold[Preproc(i, k)]
          /\ buf'[CmpQ(i, k)] = buf[CmpQ(i, k)] /\ pipe'[CmpQ(i, k)] = pipe[CmpQ(i, k)]
          /\ CmpQ(i, k) \in raised' <=> CmpQ(i, k) \in raised
          /\ pc'[Preproc(i, k)] = pc[Preproc(i, k)] /\ pc'[Reader(i, k)] = pc[Reader(i, k)]
          /\ pc'[Compute(i)] = pc[Compute(i)]
          /\ cmodel' = cmodel /\ qbuf' = qbuf /\ (main' # "killed" => main # "killed")
      BY DEF Aside
    <2>3. Alone(i, k)'
      BY <2>1, <2>2 DEF Alone
    <2>4. main' # "killed" => Drain(i, k)'
      BY <2>1, <2>2 DEF Drain
    <2> QED
      BY <2>3, <2>4
  <1>2. cmodel' = cmodel
    BY DEF Aside
  <1> QED
    BY <1>1, <1>2, ComputeBy

Inner(x) == x[2] \in {"preproc", "reader", "compute"}
Between(q) == q[2] = "cmp"

LEMMA AsideBy ==
    ASSUME PipelineTypes, UNCHANGED <<cmodel, qbuf>>, main' # "killed" => main # "killed",
           \A x \in Procs : Inner(x) => pc'[x] = pc[x] /\ hold'[x] = hold[x],
           \A q \in Queues : Between(q) => buf'[q] = buf[q] /\ pipe'[q] = pipe[q],
           \A q \in Queues : Between(q) => (q \in raised' <=> q \in raised)
    PROVE  Aside
  <1>1. ASSUME NEW i \in Stages, NEW k \in Preprocessors(i)
        PROVE  /\ hold'[Preproc(i, k)] = hold[Preproc(i, k)]
               /\ buf'[CmpQ(i, k)] = buf[CmpQ(i, k)] /\ pipe'[CmpQ(i, k)] = pipe[CmpQ(i, k)]
               /\ CmpQ(i, k) \in raised' <=> CmpQ(i, k) \in raised
               /\ pc'[Preproc(i, k)] = pc[Preproc(i, k)] /\ pc'[Reader(i, k)] = pc[Reader(i, k)]
               /\ pc'[Compute(i)] = pc[Compute(i)]
    <2>1. CmpQ(i, k) \in Queues /\ Preproc(i, k) \in Procs /\ Reader(i, k) \in Procs /\ Compute(i) \in Procs
      BY StageParts DEF PipelineTypes
    <2>2. Inner(Preproc(i, k)) /\ Inner(Reader(i, k)) /\ Inner(Compute(i)) /\ Between(CmpQ(i, k))
      BY DEF Inner, Between, Preproc, Reader, Compute, CmpQ
    <2> QED
      BY <2>1, <2>2
  <1> QED
    BY <1>1 DEF Aside

LEMMA OuterNames ==
    ASSUME NEW i, NEW k
    PROVE  /\ ~ Inner(Input(i)) /\ ~ Inner(Custom(i)) /\ ~ Inner(Output(i, k))
           /\ ~ Between(InQ(i)) /\ ~ Between(PreQ(i)) /\ ~ Between(OutQ(i))
  BY DEF Inner, Between, Input, Custom, Output, InQ, PreQ, OutQ

(* A step that touches one outer process p, puts into q and takes from s,  *)
(* and may set the flag f.                                                 *)
LEMMA OuterStep ==
    ASSUME PipelineTypes, UNCHANGED <<cmodel, qbuf>>, main' # "killed" => main # "killed",
           NEW p, ~ Inner(p), NEW q, ~ Between(q), NEW s, ~ Between(s), NEW f, ~ Between(f),
           \A x \in Procs \ {p} : pc'[x] = pc[x] /\ hold'[x] = hold[x],
           \A x \in Queues \ {q} : buf'[x] = buf[x],
           \A x \in Queues \ {s} : pipe'[x] = pipe[x],
           raised' = raised \/ raised' = raised \cup {f}
    PROVE  Aside
  <1>1. \A x \in Procs : Inner(x) => pc'[x] = pc[x] /\ hold'[x] = hold[x]
    OBVIOUS
  <1>2. \A x \in Queues : Between(x) => buf'[x] = buf[x] /\ pipe'[x] = pipe[x]
    OBVIOUS
  <1>3. \A x \in Queues : Between(x) => (x \in raised' <=> x \in raised)
    OBVIOUS
  <1> QED
    BY <1>1, <1>2, <1>3, AsideBy

LEMMA OuterSteps ==
    ASSUME PipelineTypes, NEW i \in Stages,
           \/ ForwardStep(i)
           \/ CustomRead(i) \/ (\E raises \in BOOLEAN : CustomInfer(i, raises)) \/ CustomExit(i)
           \/ \E k \in 1 .. cmodel[i].post : OutputRead(i, k) \/ OutputStep(i, k) \/ OutputRaises(i, k) \/ OutputExit(i, k)
    PROVE  Aside
  <1>0. /\ DOMAIN buf = Queues /\ DOMAIN pipe = Queues /\ DOMAIN hold = Procs /\ DOMAIN pc = Procs
    BY DEF PipelineTypes
  <1>1. ASSUME ForwardStep(i) PROVE Aside
    <2>1. /\ UNCHANGED <<cmodel, main, qbuf, hold>>
          /\ \E S : pipe' = [pipe EXCEPT ![InQ(i)] = @ \ S] /\ buf' = [buf EXCEPT ![PreQ(i)] = @ \cup S]
          /\ \/ pc' = [pc EXCEPT ![Input(i)] = "exited"] /\ raised' = raised \cup {PreQ(i)}
             \/ UNCHANGED <<pc, raised>>
      BY <1>1 DEF ForwardStep, SetNextFlag, Put, wiring
    <2>2. /\ \A x \in Procs \ {Input(i)} : pc'[x] = pc[x] /\ hold'[x] = hold[x]
          /\ \A x \in Queues \ {PreQ(i)} : buf'[x] = buf[x]
          /\ \A x \in Queues \ {InQ(i)} : pipe'[x] = pipe[x]
      BY <1>0, <2>1
    <2> QED
      BY <2>1, <2>2, OuterNames, OuterStep
  <1>2. ASSUME CustomRead(i) PROVE Aside
    <2>1. /\ UNCHANGED <<cmodel, main, qbuf, raised, buf>>
          /\ \E S : pipe' = [pipe EXCEPT ![PreQ(i)] = @ \ S]
          /\ \E S : hold' = [hold EXCEPT ![Custom(i)] = S]
          /\ \E a : pc' = [pc EXCEPT ![Custom(i)] = a]
      BY <1>2 DEF CustomRead, wiring
    <2>2. /\ \A x \in Procs \ {Custom(i)} : pc'[x] = pc[x] /\ hold'[x] = hold[x]
          /\ \A x \in Queues \ {PreQ(i)} : buf'[x] = buf[x]
          /\ \A x \in Queues \ {PreQ(i)} : pipe'[x] = pipe[x]
      BY <1>0, <2>1
    <2> QED
      BY <2>1, <2>2, OuterNames, OuterStep
  <1>3. ASSUME NEW raises \in BOOLEAN, CustomInfer(i, raises) PROVE Aside
    <2>1. /\ UNCHANGED <<cmodel, main, qbuf, raised, pipe, pc>>
          /\ \E S : hold' = [hold EXCEPT ![Custom(i)] = @ \ S]
          /\ \E S : buf' = [buf EXCEPT ![OutQ(i)] = @ \cup S]
      BY <1>3 DEF CustomInfer, Put, wiring
    <2>2. /\ \A x \in Procs \ {Custom(i)} : pc'[x] = pc[x] /\ hold'[x] = hold[x]
          /\ \A x \in Queues \ {OutQ(i)} : buf'[x] = buf[x]
          /\ \A x \in Queues \ {OutQ(i)} : pipe'[x] = pipe[x]
      BY <1>0, <2>1
    <2> QED
      BY <2>1, <2>2, OuterNames, OuterStep
  <1>4. ASSUME CustomExit(i) PROVE Aside
    <2>1. /\ UNCHANGED <<cmodel, main, qbuf, buf, pipe, hold>>
          /\ pc' = [pc EXCEPT ![Custom(i)] = "exited"]
          /\ raised' = raised \cup {OutQ(i)}
      BY <1>4 DEF CustomExit, SetNextFlag, wiring
    <2>2. /\ \A x \in Procs \ {Custom(i)} : pc'[x] = pc[x] /\ hold'[x] = hold[x]
          /\ \A x \in Queues \ {OutQ(i)} : buf'[x] = buf[x]
          /\ \A x \in Queues \ {OutQ(i)} : pipe'[x] = pipe[x]
      BY <1>0, <2>1
    <2> QED
      BY <2>1, <2>2, OuterNames, OuterStep
  <1>5. ASSUME NEW k \in 1 .. cmodel[i].post, OutputRead(i, k) PROVE Aside
    <2>1. /\ UNCHANGED <<cmodel, main, qbuf, raised, buf>>
          /\ \E S : pipe' = [pipe EXCEPT ![OutQ(i)] = @ \ S] /\ hold' = [hold EXCEPT ![Output(i, k)] = S]
          /\ \E a : pc' = [pc EXCEPT ![Output(i, k)] = a]
      BY <1>5 DEF OutputRead, wiring
    <2>2. /\ \A x \in Procs \ {Output(i, k)} : pc'[x] = pc[x] /\ hold'[x] = hold[x]
          /\ \A x \in Queues \ {OutQ(i)} : buf'[x] = buf[x]
          /\ \A x \in Queues \ {OutQ(i)} : pipe'[x] = pipe[x]
      BY <1>0, <2>1
    <2> QED
      BY <2>1, <2>2, OuterNames, OuterStep
  <1>6. ASSUME NEW k \in 1 .. cmodel[i].post, OutputStep(i, k) \/ OutputRaises(i, k) PROVE Aside
    <2>1. /\ UNCHANGED <<cmodel, main, qbuf, raised, pipe>>
          /\ hold' = [hold EXCEPT ![Output(i, k)] = {}]
          /\ pc' = pc \/ pc' = [pc EXCEPT ![Output(i, k)] = "dead"]
          /\ buf' = buf \/ \E S : buf' = [buf EXCEPT ![InQ(i + 1)] = @ \cup S]
      BY <1>6 DEF OutputStep, OutputRaises, PassOn, Put, wiring
    <2>2. /\ \A x \in Procs \ {Output(i, k)} : pc'[x] = pc[x] /\ hold'[x] = hold[x]
          /\ \A x \in Queues \ {InQ(i + 1)} : buf'[x] = buf[x]
          /\ \A x \in Queues \ {InQ(i + 1)} : pipe'[x] = pipe[x]
      BY <1>0, <2>1
    <2> QED
      BY <2>1, <2>2, OuterNames, OuterStep
  <1>7. ASSUME NEW k \in 1 .. cmodel[i].post, OutputExit(i, k) PROVE Aside
    <2>1. /\ UNCHANGED <<cmodel, main, qbuf, buf, pipe, hold>>
          /\ pc' = [pc EXCEPT ![Output(i, k)] = "exited"]
          /\ raised' = raised \/ raised' = raised \cup {InQ(i + 1)}
      BY <1>7 DEF OutputExit, SetNextFlag, wiring
    <2>2. /\ \A x \in Procs \ {Output(i, k)} : pc'[x] = pc[x] /\ hold'[x] = hold[x]
          /\ \A x \in Queues \ {InQ(i + 1)} : buf'[x] = buf[x]
          /\ \A x \in Queues \ {InQ(i + 1)} : pipe'[x] = pipe[x]
      BY <1>0, <2>1
    <2> QED
      BY <2>1, <2>2, OuterNames, OuterStep
  <1> QED
    BY <1>1, <1>2, <1>3, <1>4, <1>5, <1>6, <1>7

LEMMA OutsideSteps ==
    ASSUME PipelineTypes,
           \/ \E r \in Requests : Push(r)
           \/ \E s \in Sessions : AddSession(s) \/ RemoveSession(s)
           \/ SetStopFlag
           \/ InputStep
           \/ UNCHANGED vars
    PROVE  Aside
  <1>0. /\ DOMAIN buf = Queues /\ DOMAIN pipe = Queues /\ DOMAIN hold = Procs /\ DOMAIN pc = Procs
    BY DEF PipelineTypes
  <1>1. ASSUME UNCHANGED <<cmodel, qbuf, buf, pipe, pc, hold>>, main' # "killed" => main # "killed",
               raised' = raised \/ raised' = raised \cup {InQ(1)}
        PROVE  Aside
    BY <1>1, OuterNames, OuterStep
  <1>2. ASSUME NEW r \in Requests, Push(r) PROVE Aside
    <2>1. UNCHANGED <<cmodel, main, qbuf, buf, pipe, pc, hold, raised>>
      BY <1>2 DEF Push, wiring, queues, procs
    <2> QED
      BY <1>1, <2>1
  <1>3. ASSUME (\E s \in Sessions : AddSession(s) \/ RemoveSession(s)) \/ SetStopFlag PROVE Aside
    <2>1. UNCHANGED <<cmodel, qbuf, buf, pipe, pc, hold>>
      BY <1>3 DEF AddSession, RemoveSession, SetStopFlag, queues, procs
    <2>2. main # "killed" /\ (raised' = raised \/ raised' = raised \cup {InQ(1)})
      BY <1>3 DEF AddSession, RemoveSession, SetStopFlag, queues
    <2> QED
      BY <1>1, <2>1, <2>2
  <1>4. ASSUME InputStep PROVE Aside
    <2>1. /\ UNCHANGED <<cmodel, main, qbuf, pipe, hold>>
          /\ buf' = buf \/ \E S : buf' = [buf EXCEPT ![PreQ(1)] = @ \cup S]
          /\ pc' = pc \/ \E a : pc' = [pc EXCEPT ![Input(1)] = a]
          /\ raised' = raised \/ raised' = raised \cup {PreQ(1)}
      <3>1. PICK cs, remains, new : InputLoop(cs, remains, new)
        BY <1>4 DEF InputStep
      <3> QED
        BY <3>1 DEF InputLoop, SetNextFlag, Put
    <2>2. /\ \A x \in Procs \ {Input(1)} : pc'[x] = pc[x] /\ hold'[x] = hold[x]
          /\ \A x \in Queues \ {PreQ(1)} : buf'[x] = buf[x]
          /\ \A x \in Queues \ {PreQ(1)} : pipe'[x] = pipe[x]
      BY <1>0, <2>1
    <2> QED
      BY <2>1, <2>2, OuterNames, OuterStep
  <1>5. ASSUME UNCHANGED vars PROVE Aside
    <2>1. UNCHANGED <<cmodel, main, qbuf, buf, pipe, pc, hold, raised>>
      BY <1>5 DEF vars, wiring, queues, procs
    <2> QED
      BY <1>1, <2>1
  <1> QED
    BY <1>2, <1>3, <1>4, <1>5

(* Steps of the preprocessors, readers and compute processes.              *)
LEMMA FeedKeeps ==
    ASSUME PipelineTypes, ComputeInv, NEW q \in Queues, Feed(q)
    PROVE  ComputeInv'
  <1>1. UNCHANGED <<cmodel, main, raised, qbuf, pc, hold>> /\ main # "killed"
    BY DEF Feed, wiring, procs
  <1> SUFFICES ASSUME NEW j \in Stages, NEW l \in Preprocessors(j)
               PROVE  Alone(j, l)' /\ (main' # "killed" => Drain(j, l)')
    BY <1>1, ComputeBy
  <1>2. Alone(j, l) /\ Drain(j, l) /\ Places(j, l)
    BY <1>1, PlacesOf DEF ComputeInv
  <1>3. PICK b \in buf[q] : buf' = [buf EXCEPT ![q] = @ \ {b}] /\ pipe' = [pipe EXCEPT ![q] = @ \cup {b}]
    BY DEF Feed
  <1>4. CASE CmpQ(j, l) = q
    <2>1. buf'[CmpQ(j, l)] = buf[CmpQ(j, l)] \ {b} /\ pipe'[CmpQ(j, l)] = pipe[CmpQ(j, l)] \cup {b}
      BY <1>2, <1>3, <1>4 DEF Places
    <2>2. Alone(j, l)'
      BY <1>1, <1>2, <1>3, <1>4, <2>1 DEF Alone
    <2>3. Drain(j, l)'
      BY <1>1, <1>2, <1>3, <1>4 DEF Drain
    <2> QED
      BY <2>2, <2>3
  <1>5. CASE CmpQ(j, l) # q
    <2>1. buf'[CmpQ(j, l)] = buf[CmpQ(j, l)] /\ pipe'[CmpQ(j, l)] = pipe[CmpQ(j, l)]
      BY <1>2, <1>3, <1>5 DEF Places
    <2> QED
      BY <1>1, <1>2, <2>1 DEF Alone, Drain
  <1> QED
    BY <1>4, <1>5

LEMMA PreprocReadKeeps ==
    ASSUME PipelineTypes, ComputeInv, NEW i \in Stages, NEW k \in Preprocessors(i), PreprocRead(i, k)
    PROVE  ComputeInv'
  <1>1. UNCHANGED <<cmodel, main, raised, qbuf>> /\ main # "killed"
    BY DEF PreprocRead, wiring
  <1> SUFFICES ASSUME NEW j \in Stages, NEW l \in Preprocessors(j)
               PROVE  Alone(j, l)' /\ (main' # "killed" => Drain(j, l)')
    BY <1>1, ComputeBy
  <1>2. Alone(j, l) /\ Drain(j, l) /\ Places(j, l)
    BY <1>1, PlacesOf DEF ComputeInv
  <1>3. /\ \E S : pipe' = [pipe EXCEPT ![PreQ(i)] = @ \ S]
        /\ \E S : buf' = [buf EXCEPT ![OutQ(i)] = @ \cup S]
        /\ \E X : hold' = [hold EXCEPT ![Preproc(i, k)] = Singletons(X)]
        /\ pc' = [pc EXCEPT ![Preproc(i, k)] = After(PreQ(i))]
        /\ pc[Preproc(i, k)] = "loop"
    BY DEF PreprocRead, Put, Looks
  <1>4. /\ pipe'[CmpQ(j, l)] = pipe[CmpQ(j, l)] /\ buf'[CmpQ(j, l)] = buf[CmpQ(j, l)]
        /\ pc'[Reader(j, l)] = pc[Reader(j, l)] /\ pc'[Compute(j)] = pc[Compute(j)]
    BY <1>2, <1>3, Names DEF Places
  <1>5. CASE Preproc(j, l) = Preproc(i, k)
    <2>1. PICK X : hold'[Preproc(j, l)] = Singletons(X)
      BY <1>2, <1>3, <1>5 DEF Places
    <2>2. \A b \in hold'[Preproc(j, l)] : Single(b)
      BY <2>1 DEF Singletons, Single
    <2>3. pc'[Preproc(j, l)] # "exited" /\ pc[Preproc(j, l)] # "exited"
      BY <1>2, <1>3, <1>5 DEF Places, After
    <2> QED
      BY <1>1, <1>2, <1>4, <2>2, <2>3 DEF Alone, Drain
  <1>6. CASE Preproc(j, l) # Preproc(i, k)
    <2>1. hold'[Preproc(j, l)] = hold[Preproc(j, l)] /\ pc'[Preproc(j, l)] = pc[Preproc(j, l)]
      BY <1>2, <1>3, <1>6 DEF Places
    <2> QED
      BY <1>1, <1>2, <1>4, <2>1 DEF Alone, Drain
  <1> QED
    BY <1>5, <1>6

LEMMA FiniteItems == IsFiniteSet(Batch)
  <1> DEFINE f == [z \in Requests \X BOOLEAN |-> [req |-> z[1], ok |-> z[2]]]
  <1>1. IsFiniteSet(Requests \X BOOLEAN)
    <2>1. IsFiniteSet(BOOLEAN)
      <3>1. IsFiniteSet({TRUE}) /\ IsFiniteSet({FALSE})
        BY FS_Singleton
      <3>2. IsFiniteSet({TRUE} \cup {FALSE})
        BY <3>1, FS_Union
      <3>3. BOOLEAN = {TRUE} \cup {FALSE}
        OBVIOUS
      <3> QED
        BY <3>2, <3>3
    <2> QED
      BY <2>1, PipelineAssumption, FS_Product
  <1>2. f \in Surjection(Requests \X BOOLEAN, Items)
    <2>1. f \in [Requests \X BOOLEAN -> Items]
      BY DEF Items
    <2>2. ASSUME NEW x \in Items
          PROVE  \E z \in Requests \X BOOLEAN : f[z] = x
      <3>1. x.req \in Requests /\ x.ok \in BOOLEAN /\ x = [req |-> x.req, ok |-> x.ok]
        BY DEF Items
      <3>2. <<x.req, x.ok>> \in Requests \X BOOLEAN
        BY <3>1
      <3>3. f[<<x.req, x.ok>>] = [req |-> x.req, ok |-> x.ok]
        BY <3>2
      <3> QED
        BY <3>1, <3>2, <3>3
    <2> QED
      BY <2>1, <2>2 DEF Surjection
  <1>3. IsFiniteSet(Items)
    BY <1>1, <1>2, FS_Surjection
  <1> QED
    BY <1>3, FS_SUBSET, ItemTypes

(* Without batching across requests one request is sent at a time.         *)
LEMMA SentAlone ==
    ASSUME PipelineTypes, NEW i \in Stages, NEW p \in Procs, ~ cmodel[i].cross,
           NEW S \in kSubset(ChosenSize(cmodel[i], Cardinality(hold[p])), hold[p])
    PROVE  \E b \in hold[p] : UNION S = b
  <1>1. S \subseteq hold[p] /\ Cardinality(S) = 1
    BY DEF kSubset, ChosenSize
  <1>2. hold[p] \subseteq Batch
    BY DEF PipelineTypes
  <1>3. IsFiniteSet(S)
    BY <1>1, <1>2, FiniteItems, FS_Subset
  <1>4. PICK b : S = {b}
    BY <1>1, <1>3, FS_Singleton
  <1> QED
    BY <1>1, <1>4

LEMMA SendBatchKeeps ==
    ASSUME PipelineTypes, ComputeInv, NEW i \in Stages, NEW k \in Preprocessors(i), SendBatch(i, k)
    PROVE  ComputeInv'
  <1>1. UNCHANGED <<cmodel, main, raised, qbuf, pipe, pc>> /\ main # "killed"
    BY DEF SendBatch, wiring
  <1> SUFFICES ASSUME NEW j \in Stages, NEW l \in Preprocessors(j)
               PROVE  Alone(j, l)' /\ (main' # "killed" => Drain(j, l)')
    BY <1>1, ComputeBy
  <1>2. Alone(j, l) /\ Drain(j, l) /\ Places(j, l)
    BY <1>1, PlacesOf DEF ComputeInv
  <1>3. PICK S \in kSubset(ChosenSize(cmodel[i], Cardinality(hold[Preproc(i, k)])), hold[Preproc(i, k)]) :
            /\ hold' = [hold EXCEPT ![Preproc(i, k)] = @ \ S]
            /\ buf' = [buf EXCEPT ![CmpQ(i, k)] = @ \cup {UNION S}]
    BY DEF SendBatch, Put
  <1>4. hold[Preproc(i, k)] # {}
    BY DEF SendBatch
  <1>5. CASE j = i /\ l = k
    <2>1. /\ hold'[Preproc(j, l)] \subseteq hold[Preproc(j, l)]
          /\ buf'[CmpQ(j, l)] = buf[CmpQ(j, l)] \cup {UNION S}
      BY <1>2, <1>3, <1>5 DEF Places
    <2>2. ~ cmodel[j].cross => Single(UNION S)
      <3>1. Preproc(i, k) \in Procs
        BY StageParts DEF PipelineTypes
      <3>2. ~ cmodel[j].cross => \E b \in hold[Preproc(i, k)] : UNION S = b
        BY <1>5, <3>1, SentAlone
      <3> QED
        BY <1>2, <1>5, <3>2 DEF Alone
    <2>3. Alone(j, l)'
      BY <1>1, <1>2, <2>1, <2>2 DEF Alone
    <2>4. Drain(j, l)'
      BY <1>1, <1>2, <1>4, <1>5, <2>1 DEF Drain
    <2> QED
      BY <2>3, <2>4
  <1>6. CASE ~ (j = i /\ l = k)
    <2>1. hold'[Preproc(j, l)] = hold[Preproc(j, l)] /\ buf'[CmpQ(j, l)] = buf[CmpQ(j, l)]
      BY <1>2, <1>3, <1>6, Names DEF Places
    <2> QED
      BY <1>1, <1>2, <2>1 DEF Alone, Drain
  <1> QED
    BY <1>5, <1>6

LEMMA PreprocExitKeeps ==
    ASSUME PipelineTypes, ComputeInv, NEW i \in Stages, NEW k \in Preprocessors(i), PreprocExit(i, k)
    PROVE  ComputeInv'
  <1>1. UNCHANGED <<cmodel, main, buf, pipe, qbuf, hold>> /\ main # "killed"
    BY DEF PreprocExit, wiring
  <1> SUFFICES ASSUME NEW j \in Stages, NEW l \in Preprocessors(j)
               PROVE  Alone(j, l)' /\ (main' # "killed" => Drain(j, l)')
    BY <1>1, ComputeBy
  <1>2. Alone(j, l) /\ Drain(j, l) /\ Places(j, l)
    BY <1>1, PlacesOf DEF ComputeInv
  <1>3. /\ hold[Preproc(i, k)] = {} /\ pc[Preproc(i, k)] = "last"
        /\ pc' = [pc EXCEPT ![Preproc(i, k)] = "exited"] /\ raised' = raised \cup {CmpQ(i, k)}
    BY DEF PreprocExit, SetNextFlag
  <1>4. pc'[Reader(j, l)] = pc[Reader(j, l)] /\ pc'[Compute(j)] = pc[Compute(j)]
    BY <1>2, <1>3, Names DEF Places
  <1>5. CASE j = i /\ l = k
    <2>1. pc'[Preproc(j, l)] = "exited" /\ CmpQ(j, l) \in raised'
      BY <1>2, <1>3, <1>5 DEF Places
    <2> QED
      BY <1>1, <1>2, <1>3, <1>4, <1>5, <2>1 DEF Alone, Drain
  <1>6. CASE ~ (j = i /\ l = k)
    <2>1. pc'[Preproc(j, l)] = pc[Preproc(j, l)] /\ (CmpQ(j, l) \in raised' <=> CmpQ(j, l) \in raised)
      BY <1>2, <1>3, <1>6, Names DEF Places
    <2> QED
      BY <1>1, <1>2, <1>4, <2>1 DEF Alone, Drain
  <1> QED
    BY <1>5, <1>6

LEMMA ReaderReadKeeps ==
    ASSUME PipelineTypes, ComputeInv, NEW i \in Stages, NEW k \in Preprocessors(i), ReaderRead(i, k)
    PROVE  ComputeInv'
  <1>1. UNCHANGED <<cmodel, main, raised, buf, pc, hold>> /\ main # "killed"
    BY DEF ReaderRead, wiring, procs
  <1> SUFFICES ASSUME NEW j \in Stages, NEW l \in Preprocessors(j)
               PROVE  Alone(j, l)' /\ (main' # "killed" => Drain(j, l)')
    BY <1>1, ComputeBy
  <1>2. Alone(j, l) /\ Drain(j, l) /\ Places(j, l)
    BY <1>1, PlacesOf DEF ComputeInv
  <1>3. PICK S : /\ S \subseteq pipe[CmpQ(i, k)]
                 /\ pipe' = [pipe EXCEPT ![CmpQ(i, k)] = @ \ S]
                 /\ qbuf' = [qbuf EXCEPT ![i] = @ \cup S]
    BY DEF ReaderRead, Taken
  <1>4. Alone(i, k) /\ Drain(i, k) /\ pc[Reader(i, k)] = "loop"
    BY <1>1 DEF ComputeInv, ReaderRead
  <1>5. pipe'[CmpQ(j, l)] \subseteq pipe[CmpQ(j, l)]
    BY <1>2, <1>3 DEF Places
  <1>6. CASE j = i
    <2>1. qbuf'[j] = qbuf[j] \cup S
      BY <1>2, <1>3, <1>6 DEF Places
    <2>2. ~ cmodel[j].cross => \A b \in S : Single(b)
      BY <1>3, <1>4, <1>6 DEF Alone
    <2>3. Alone(j, l)'
      BY <1>1, <1>2, <1>5, <2>1, <2>2 DEF Alone
    <2>4. pc[Compute(j)] # "exited"
      BY <1>4, <1>6 DEF Drain
    <2>5. Drain(j, l)'
      BY <1>1, <1>2, <1>5, <2>4 DEF Drain
    <2> QED
      BY <2>3, <2>5
  <1>7. CASE j # i
    <2>1. qbuf'[j] = qbuf[j]
      BY <1>2, <1>3, <1>7 DEF Places
    <2> QED
      BY <1>1, <1>2, <1>5, <2>1 DEF Alone, Drain
  <1> QED
    BY <1>6, <1>7

LEMMA ReaderExitKeeps ==
    ASSUME PipelineTypes, ComputeInv, NEW i \in Stages, NEW k \in Preprocessors(i), ReaderExit(i, k)
    PROVE  ComputeInv'
  <1>1. UNCHANGED <<cmodel, main, raised, buf, pipe, qbuf, hold>> /\ main # "killed"
    BY DEF ReaderExit, wiring, queues
  <1> SUFFICES ASSUME NEW j \in Stages, NEW l \in Preprocessors(j)
               PROVE  Alone(j, l)' /\ (main' # "killed" => Drain(j, l)')
    BY <1>1, ComputeBy
  <1>2. Alone(j, l) /\ Drain(j, l) /\ Places(j, l)
    BY <1>1, PlacesOf DEF ComputeInv
  <1>3. /\ pc' = [pc EXCEPT ![Reader(i, k)] = "exited"]
        /\ pipe[CmpQ(i, k)] = {} /\ buf[CmpQ(i, k)] = {}
        /\ CmpQ(i, k) \in raised
    <2>1. k \in 1 .. k
      BY StageParts DEF PipelineTypes, Preprocessors
    <2> QED
      BY <2>1 DEF ReaderExit, Drained
  <1>4. pc'[Preproc(j, l)] = pc[Preproc(j, l)] /\ pc'[Compute(j)] = pc[Compute(j)]
    BY <1>2, <1>3, Names DEF Places
  <1>5. CASE j = i /\ l = k
    <2>1. pc'[Reader(j, l)] = "exited"
      BY <1>2, <1>3, <1>5 DEF Places
    <2> QED
      BY <1>1, <1>2, <1>3, <1>4, <1>5, <2>1 DEF Alone, Drain
  <1>6. CASE ~ (j = i /\ l = k)
    <2>1. pc'[Reader(j, l)] = pc[Reader(j, l)]
      BY <1>2, <1>3, <1>6, Names DEF Places
    <2> QED
      BY <1>1, <1>2, <1>4, <2>1 DEF Alone, Drain
  <1> QED
    BY <1>5, <1>6

LEMMA InferKeeps ==
    ASSUME PipelineTypes, ComputeInv, NEW i \in Stages, Infer(i)
    PROVE  ComputeInv'
  <1>1. UNCHANGED <<cmodel, main, raised, pipe, pc, hold>> /\ main # "killed"
    BY DEF Infer, wiring, procs
  <1> SUFFICES ASSUME NEW j \in Stages, NEW l \in Preprocessors(j)
               PROVE  Alone(j, l)' /\ (main' # "killed" => Drain(j, l)')
    BY <1>1, ComputeBy
  <1>2. Alone(j, l) /\ Drain(j, l) /\ Places(j, l)
    BY <1>1, PlacesOf DEF ComputeInv
  <1>3. /\ \E b : qbuf' = [qbuf EXCEPT ![i] = @ \ {b}]
        /\ \E S : buf' = [buf EXCEPT ![OutQ(i)] = @ \cup S]
    BY DEF Infer, Put
  <1>4. buf'[CmpQ(j, l)] = buf[CmpQ(j, l)] /\ qbuf'[j] \subseteq qbuf[j]
    BY <1>2, <1>3, Names DEF Places
  <1> QED
    BY <1>1, <1>2, <1>4 DEF Alone, Drain

LEMMA InferRaisesKeeps ==
    ASSUME PipelineTypes, ComputeInv, NEW i \in Stages, InferRaises(i)
    PROVE  ComputeInv'
  <1>1. UNCHANGED <<cmodel, main, raised, buf, pipe, hold>> /\ main # "killed"
    BY DEF InferRaises, wiring
  <1> SUFFICES ASSUME NEW j \in Stages, NEW l \in Preprocessors(j)
               PROVE  Alone(j, l)' /\ (main' # "killed" => Drain(j, l)')
    BY <1>1, ComputeBy
  <1>2. Alone(j, l) /\ Drain(j, l) /\ Places(j, l)
    BY <1>1, PlacesOf DEF ComputeInv
  <1>3. qbuf' = [qbuf EXCEPT ![i] = {}] /\ pc' = [pc EXCEPT ![Compute(i)] = "dead"]
    BY DEF InferRaises
  <1>4. /\ pc'[Preproc(j, l)] = pc[Preproc(j, l)] /\ pc'[Reader(j, l)] = pc[Reader(j, l)]
        /\ pc'[Compute(j)] = "exited" => pc[Compute(j)] = "exited"
        /\ qbuf'[j] \subseteq qbuf[j]
    BY <1>2, <1>3, Names DEF Places
  <1> QED
    BY <1>1, <1>2, <1>4 DEF Alone, Drain

LEMMA ComputeExitKeeps ==
    ASSUME PipelineTypes, ComputeInv, NEW i \in Stages, ComputeExit(i)
    PROVE  ComputeInv'
  <1>1. UNCHANGED <<cmodel, main, buf, pipe, qbuf, hold>> /\ main # "killed"
    BY DEF ComputeExit, wiring
  <1> SUFFICES ASSUME NEW j \in Stages, NEW l \in Preprocessors(j)
               PROVE  Alone(j, l)' /\ (main' # "killed" => Drain(j, l)')
    BY <1>1, ComputeBy
  <1>2. Alone(j, l) /\ Drain(j, l) /\ Places(j, l)
    BY <1>1, PlacesOf DEF ComputeInv
  <1>3. /\ qbuf[i] = {} /\ \A x \in Preprocessors(i) : pc[Reader(i, x)] = "exited"
        /\ pc' = [pc EXCEPT ![Compute(i)] = "exited"] /\ raised' = raised \cup {OutQ(i)}
    BY DEF ComputeExit, SetNextFlag
  <1>4. /\ pc'[Preproc(j, l)] = pc[Preproc(j, l)] /\ pc'[Reader(j, l)] = pc[Reader(j, l)]
        /\ CmpQ(j, l) \in raised' <=> CmpQ(j, l) \in raised
    <2>0. Preproc(j, l) # Compute(i) /\ Reader(j, l) # Compute(i)
      BY Names
    <2>1. pc'[Preproc(j, l)] = pc[Preproc(j, l)] /\ pc'[Reader(j, l)] = pc[Reader(j, l)]
      BY <1>2, <1>3, <2>0 DEF Places
    <2>2. CmpQ(j, l) # OutQ(i)
      BY Names
    <2> QED
      BY <1>3, <2>1, <2>2
  <1>5. pc'[Compute(j)] = "exited" => pc[Compute(j)] = "exited" \/ j = i
    BY <1>2, <1>3, Names DEF Places
  <1> QED
    BY <1>1, <1>2, <1>3, <1>4, <1>5 DEF Alone, Drain

LEMMA TerminateKeeps ==
    ASSUME PipelineTypes, ComputeInv, Terminate
    PROVE  ComputeInv'
  <1>1. cmodel' = cmodel /\ main' = "killed"
    BY DEF Terminate
  <1> SUFFICES ASSUME NEW j \in Stages, NEW l \in Preprocessors(j)
               PROVE  Alone(j, l)'
    BY <1>1, ComputeBy
  <1>2. /\ hold' = [p \in Procs |-> {}] /\ buf' = [q \in Queues |-> {}]
        /\ pipe' = [q \in Queues |-> {}] /\ qbuf' = [i \in Stages |-> {}]
    BY DEF Terminate
  <1>3. CmpQ(j, l) \in Queues /\ Preproc(j, l) \in Procs
    BY StageParts DEF PipelineTypes
  <1> QED
    BY <1>2, <1>3 DEF Alone

LEMMA InitCompute ==
    ASSUME Init
    PROVE  ComputeInv
  <1> SUFFICES ASSUME NEW i \in Stages, NEW k \in Preprocessors(i)
               PROVE  Alone(i, k) /\ Drain(i, k)
    BY DEF ComputeInv
  <1>1. /\ CmpQ(i, k) \in Queues /\ Preproc(i, k) \in Procs /\ Reader(i, k) \in Procs /\ Compute(i) \in Procs
    BY StageParts DEF Init
  <1>2. /\ hold[Preproc(i, k)] = {} /\ buf[CmpQ(i, k)] = {} /\ pipe[CmpQ(i, k)] = {} /\ qbuf[i] = {}
        /\ pc[Preproc(i, k)] = "loop" /\ pc[Reader(i, k)] = "loop" /\ pc[Compute(i)] = "loop"
        /\ raised = {}
    BY <1>1 DEF Init
  <1> QED
    BY <1>2 DEF Alone, Drain

LEMMA ComputeKept ==
    ASSUME PipelineTypes, ComputeInv, [Next]_vars
    PROVE  ComputeInv'
  <1>1. ASSUME Aside PROVE ComputeInv'
    BY <1>1, AsideKeeps
  <1>2. CASE UNCHANGED vars
    BY <1>1, <1>2, OutsideSteps
  <1>3. CASE Next
    <2>1. ASSUME NEW i \in Stages,
                 \/ ForwardStep(i)
                 \/ CustomRead(i) \/ (\E raises \in BOOLEAN : CustomInfer(i, raises)) \/ CustomExit(i)
                 \/ \E k \in 1 .. cmodel[i].post : OutputRead(i, k) \/ OutputStep(i, k) \/ OutputRaises(i, k) \/ OutputExit(i, k)
          PROVE  ComputeInv'
      BY <1>1, <2>1, OuterSteps
    <2>2. ASSUME \/ \E r \in Requests : Push(r)
                 \/ \E s \in Sessions : AddSession(s) \/ RemoveSession(s)
                 \/ SetStopFlag
                 \/ InputStep
          PROVE  ComputeInv'
      BY <1>1, <2>2, OutsideSteps
    <2>3. ASSUME NEW i \in Stages, NEW k \in Preprocessors(i),
                 PreprocRead(i, k) \/ SendBatch(i, k) \/ PreprocExit(i, k) \/ ReaderRead(i, k) \/ ReaderExit(i, k)
          PROVE  ComputeInv'
      BY <2>3, PreprocReadKeeps, SendBatchKeeps, PreprocExitKeeps, ReaderReadKeeps, ReaderExitKeeps
    <2>4. ASSUME NEW i \in Stages, Infer(i) \/ InferRaises(i) \/ ComputeExit(i)
          PROVE  ComputeInv'
      BY <2>4, InferKeeps, InferRaisesKeeps, ComputeExitKeeps
    <2>5. ASSUME NEW q \in Queues, Feed(q) PROVE ComputeInv'
      BY <2>5, FeedKeeps
    <2>6. ASSUME Terminate PROVE ComputeInv'
      BY <2>6, TerminateKeeps
    <2> QED
      BY <1>3, <2>1, <2>2, <2>3, <2>4, <2>5, <2>6, NextCases, Zenon
  <1> QED
    BY <1>2, <1>3

LEMMA ComputeHolds == Spec => []ComputeInv
  <1>1. Init => ComputeInv
    BY InitCompute
  <1>2. PipelineTypes /\ CustodyInv /\ ComputeInv /\ [Next]_vars => ComputeInv'
    BY ComputeKept
  <1> QED
    BY <1>1, <1>2, CustodyHolds, PTL DEF Spec

(* A compute process that exits has put out all that its preprocessors     *)
(* read: the flags, the reader threads and the buffer of                   *)
(* compute_process.py end in the right order, for any number of readers.   *)
THEOREM NothingLeftAtCompute == Spec => []ComputeDrains
  <1>1. PipelineTypes /\ ComputeInv => ComputeDrains
    <2> SUFFICES ASSUME PipelineTypes, ComputeInv, main # "killed", NEW i \in Stages,
                        ~ cmodel[i].custom, pc[Compute(i)] = "exited"
                 PROVE  /\ qbuf[i] = {}
                        /\ \A k \in Preprocessors(i) :
                              pipe[CmpQ(i, k)] = {} /\ buf[CmpQ(i, k)] = {} /\ hold[Preproc(i, k)] = {}
      BY DEF ComputeDrains
    <2>1. \A k \in Preprocessors(i) : Drain(i, k)
      BY DEF ComputeInv
    <2>2. 1 \in Preprocessors(i)
      <3>1. cmodel[i].pre \in Nat \ {0}
        BY StageParts DEF PipelineTypes, Component
      <3> QED
        BY <3>1 DEF Preprocessors
    <2> QED
      BY <2>1, <2>2 DEF Drain
  <1> QED
    BY <1>1, CustodyHolds, ComputeHolds, PTL

-----------------------------------------------------------------------------
(* The refinement.                                                         *)

(* Requests that are transformed, or whose results are provided by         *)
(* preprocessing, are computed one at a time.  compute_process.py puts out *)
(* only the first of a batch for them (batch_metadata[0]), so a deployment *)
(* that batches across requests, too, would lose the others.               *)
TransformAlone ==
    \A cm \in Cmodels : \A i \in DOMAIN cm : FirstOnly(cm[i]) => ~ cm[i].cross

LEMMA AloneIsEach ==
    ASSUME TransformAlone, PipelineTypes, ComputeInv
    PROVE  OneEach
  <1> SUFFICES ASSUME NEW i \in Stages, ~ cmodel[i].custom, FirstOnly(cmodel[i]), NEW b \in qbuf[i]
               PROVE  \E x : b = {x}
    BY DEF OneEach
  <1>1. cmodel \in Cmodels /\ cmodel[i] \in Component
    BY StageParts DEF PipelineTypes
  <1>2. i \in DOMAIN cmodel
    BY <1>1, PipelineAssumption DEF Stages
  <1>3. ~ cmodel[i].cross
    BY <1>1, <1>2 DEF TransformAlone
  <1>4. 1 \in Preprocessors(i)
    <2>1. cmodel[i].pre \in Nat \ {0}
      BY <1>1 DEF Component
    <2> QED
      BY <2>1 DEF Preprocessors
  <1>5. Alone(i, 1)
    BY <1>4 DEF ComputeInv
  <1> QED
    BY <1>3, <1>5 DEF Alone, Single

LEMMA InitServes ==
    ASSUME Init
    PROVE  Service!Init
  <1>1. Fate = [r \in Requests |-> "new"]
    BY DEF Init, Fate
  <1>2. Degraded = FALSE
    BY DEF Init, Degraded
  <1>3. rejected = {}
    BY DEF Init
  <1> QED
    BY <1>1, <1>2, <1>3 DEF Service!Init

LEMMA SameService ==
    ASSUME UNCHANGED vars
    PROVE  UNCHANGED Service!vars
  <1>1. UNCHANGED <<cmodel, main, raised, buf, pipe, qbuf, pc, hold, unsent, topic, answers, rejected>>
    BY DEF vars, wiring, queues, procs, tasks
  <1>2. Degraded' = Degraded
    BY <1>1, SameNames DEF Degraded
  <1>3. \A r : InPipeline(r)' = InPipeline(r)
    BY <1>1, SameNames DEF InPipeline, ReqsOf
  <1>4. Fate' = Fate
    BY <1>1, <1>3 DEF Fate
  <1> QED
    BY <1>1, <1>2, <1>4 DEF Service!vars

(* The processes implement the service for any number of stages, processes *)
(* and requests, unless a model of which only the first request of a batch *)
(* gets a result batches across requests: what input_process.py takes over, output_process.py    *)
(* answers once and truly, or the model is being stopped or has lost a     *)
(* process.                                                                *)
THEOREM PipelineServes == TransformAlone => (Spec => ImplementsService)
  <1> SUFFICES ASSUME TransformAlone
               PROVE  Spec => ImplementsService
    OBVIOUS
  <1>1. Init => Service!Init
    BY InitServes
  <1>2. PipelineTypes /\ CustodyInv /\ ComputeInv /\ [Next]_vars => [Service!Next]_(Service!vars)
    <2> SUFFICES ASSUME PipelineTypes, CustodyInv, ComputeInv, [Next]_vars
                 PROVE  Service!Next \/ UNCHANGED Service!vars
      BY Zenon
    <2>1. CASE UNCHANGED vars
      BY <2>1, SameService
    <2>2. CASE Next
      <3>1. OneEach
        BY AloneIsEach
      <3>2. CASE \E r \in Requests : Push(r)
        BY <3>2, PushStep DEF Service!Next
      <3>3. CASE PipelineTypes' /\ Handed /\ (OneEach => Kept)
        <4>1. CustodyInv'
          BY <3>3, CustodyKept
        <4>2. Service!Serve
          BY <3>1, <3>3, <4>1, ServeStep
        <4> QED
          BY <4>2 DEF Service!Next
      <3> QED
        BY <2>2, <3>2, <3>3, StepMoves
    <2> QED
      BY <2>1, <2>2
  <1> QED
    BY <1>1, <1>2, CustodyHolds, ComputeHolds, PTL DEF Spec, ImplementsService, Service!Spec
=============================================================================
