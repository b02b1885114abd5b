-------------------------- MODULE RedisQueue_proofs --------------------------
(* Proofs about RedisQueue, its pushers and the readers of its puller, for *)
(* every number of pushers, messages, partitions, resizes and faults.      *)
EXTENDS RedisQueue, SequenceTheorems, FiniteSetTheorems, TLAPS

(* A cached number of partitions is positive and above the round robin's   *)
(* index: NextIdx never divides by zero.                                   *)
CacheInv ==
    \A p \in Pushers : fresh[p] => parts[p] >= 1 /\ idx[p] < parts[p]

(* pull never pops more than the buffer holds, and the monitor joins a     *)
(* thread only inside its scaling loop.                                    *)
PullInv ==
    /\ upc = "pull" => todo <= Len(buf)
    /\ mpc = "join" => delta > 0

(* The round robin index stays within the partitions.                      *)
LEMMA NextIdxRange ==
    ASSUME NEW k \in Nat, NEW n \in Nat \ {0}
    PROVE  NextIdx(k, n) \in 0 .. (n - 1)
  BY SMT DEF NextIdx

(* _get_topic_num_partitions answers a legal number of partitions.         *)
LEMMA NumPartitionsType ==
    ASSUME RedisTypeOK
    PROVE  GetNumPartitions \in 1 .. MaxPartitions
  BY QueueAssumption DEF RedisTypeOK, GetNumPartitions

(* Dropping the last element of a sequence keeps its type.                 *)
LEMMA DropLast ==
    ASSUME NEW S, NEW s \in Seq(S)
    PROVE  SubSeq(s, 1, Len(s) - 1) \in Seq(S)
  OBVIOUS

(* Overwriting an element of a sequence keeps its type and length.         *)
LEMMA Overwrite ==
    ASSUME NEW S, NEW s \in Seq(S), NEW i, NEW e \in S
    PROVE  /\ [s EXCEPT ![i] = e] \in Seq(S)
           /\ Len([s EXCEPT ![i] = e]) = Len(s)
  <1>1. CASE i \in 1 .. Len(s)
    BY <1>1, ExceptSeq
  <1>2. CASE i \notin 1 .. Len(s)
    <2>1. [s EXCEPT ![i] = e] = s
      BY <1>2
    <2> QED
      BY <2>1
  <1> QED
    BY <1>1, <1>2

(* The initial states are typed.                                           *)
LEMMA TypeInit == Init => TypeOK /\ CacheInv /\ PullInv
  <1> SUFFICES ASSUME Init PROVE TypeOK /\ CacheInv /\ PullInv
    OBVIOUS
  <1>1. GetNumPartitions \in 1 .. MaxPartitions
    BY QueueAssumption DEF Init, GetNumPartitions
  <1>2. RedisTypeOK
    BY <1>1, QueueAssumption DEF Init, RedisTypeOK
  <1>3. PusherTypeOK /\ CacheInv
    BY <1>1, QueueAssumption DEF Init, PusherTypeOK, CacheInv, Parts
  <1>4. PullerTypeOK
    <2>1. flags \in Seq(Flag)
      BY <1>1, QueueAssumption DEF Init, Flag
    <2> QED
      BY <1>1, <2>1, QueueAssumption DEF Init, PullerTypeOK, Flag
  <1>5. MonitorTypeOK /\ UserTypeOK /\ PullInv
    BY <1>1, QueueAssumption DEF Init, MonitorTypeOK, UserTypeOK, PullInv
  <1> QED
    BY <1>2, <1>3, <1>4, <1>5 DEF TypeOK

(* Every step keeps Redis typed.                                           *)
LEMMA RedisTypeStep ==
    ASSUME TypeOK, [Next]_vars
    PROVE  RedisTypeOK'
  <1> USE QueueAssumption DEF TypeOK, RedisTypeOK
  <1>1. ASSUME NEW p \in Pushers, PusherNext(p) PROVE RedisTypeOK'
    <2>1. CASE RPush(p) \/ RPushRaises(p)
      <3>1. sending[p].k \in Parts /\ sending[p].msg \in Msg
        BY <2>1 DEF RPush, RPushRaises, PusherTypeOK
      <3>2. Append(log[sending[p].k], sending[p].msg) \in Seq(Msg)
        BY <3>1
      <3> QED
        BY <2>1, <3>2 DEF RPush, RPushRaises
    <2>2. ASSUME NEW n \in 1 .. MaxPartitions, CreateTopic(p, n)
          PROVE  RedisTypeOK'
      BY <2>2 DEF CreateTopic
    <2>3. CASE UNCHANGED redisVars
      BY <2>3 DEF redisVars
    <2> QED
      BY <1>1, <2>1, <2>2, <2>3 DEF PusherNext, CacheExpires, Push
  <1>2. ASSUME NEW k \in Parts, ReaderNext(k) PROVE RedisTypeOK'
    <2>1. CASE ReaderPop(k) \/ ReaderPopRaises(k)
      <3>1. head' = [head EXCEPT ![k] = @ + 1] /\ UNCHANGED <<topicKey, log>>
        BY <2>1 DEF ReaderPop, ReaderPopRaises
      <3> QED
        BY <3>1
    <2>2. CASE UNCHANGED redisVars
      BY <2>2 DEF redisVars
    <2> QED
      BY <1>2, <2>1, <2>2
         DEF ReaderNext, ReaderExit, ReaderCheck, ReaderTimeout, ReaderAppend
  <1>3. CASE MonitorNext
    BY <1>3 DEF MonitorNext, MonitorExit, MonitorRead, AddReaderThread,
                RemoveReaderFlag, RemoveReaderJoin, MonitorScaled, redisVars
  <1>4. CASE UserNext
    BY <1>4 DEF UserNext, SetNumPartitions, SetBufSize, PullBegin, PullPop,
                PullEnd, Close, CloseFlag, CloseJoinMonitor, CloseJoinReaders,
                redisVars
  <1> QED
    BY <1>1, <1>2, <1>3, <1>4 DEF Next, vars, redisVars

(* Every step keeps the pushers typed and their caches consistent.         *)
LEMMA PusherTypeStep ==
    ASSUME TypeOK, CacheInv, [Next]_vars
    PROVE  PusherTypeOK' /\ CacheInv'
  <1> USE QueueAssumption DEF TypeOK, PusherTypeOK, CacheInv
  <1>1. ASSUME NEW p \in Pushers, NEW m \in Msg, Push(p, m)
        PROVE  PusherTypeOK' /\ CacheInv'
    <2> DEFINE n == IF fresh[p] THEN parts[p] ELSE GetNumPartitions
               k == IF fresh[p] THEN idx[p] ELSE 0
    <2>1. /\ n \in 1 .. MaxPartitions
          /\ k \in Nat /\ k \in Parts
      BY NumPartitionsType DEF Parts
    <2>2. NextIdx(k, n) \in 0 .. (n - 1)
      BY <2>1, NextIdxRange
    <2>3. /\ sent' = sent \cup {m}
          /\ parts' = [parts EXCEPT ![p] = n]
          /\ idx' = [idx EXCEPT ![p] = NextIdx(k, n)]
          /\ fresh' = [fresh EXCEPT ![p] = TRUE]
          /\ sending' = [sending EXCEPT ![p] = [k |-> k, msg |-> m]]
          /\ acked' = acked
      BY <1>1 DEF Push
    <2> HIDE DEF n, k
    <2>4. [k |-> k, msg |-> m] \in [k : Parts, msg : Msg]
      BY <2>1
    <2>5. sending' \in [Pushers -> {NoSend} \cup [k : Parts, msg : Msg]]
      BY <2>3, <2>4
    <2>6. NextIdx(k, n) \in Parts
      BY <2>1, <2>2 DEF Parts
    <2> QED
      BY <2>1, <2>2, <2>3, <2>5, <2>6
  <1>2. ASSUME NEW p \in Pushers,
               \/ \E n \in 1 .. MaxPartitions : CreateTopic(p, n)
               \/ CacheExpires(p)
        PROVE  PusherTypeOK' /\ CacheInv'
    <2>1. CASE CacheExpires(p)
      BY <2>1 DEF CacheExpires
    <2>2. ASSUME NEW n \in 1 .. MaxPartitions, CreateTopic(p, n)
          PROVE  PusherTypeOK' /\ CacheInv'
      <3>1. 0 \in Parts
        BY DEF Parts
      <3> QED
        BY <2>2, <3>1 DEF CreateTopic
    <2> QED
      BY <1>2, <2>1, <2>2
  <1>3. ASSUME NEW p \in Pushers, RPush(p) \/ RPushRaises(p)
        PROVE  PusherTypeOK' /\ CacheInv'
    <2>1. sending[p] \in [k : Parts, msg : Msg]
      BY <1>3 DEF RPush, RPushRaises
    <2>2. sending[p].msg \in Msg
      BY <2>1
    <2>3. sending' \in [Pushers -> {NoSend} \cup [k : Parts, msg : Msg]]
      BY <1>3 DEF RPush, RPushRaises, SendingAfter, pusherVars
    <2> QED
      BY <1>3, <2>2, <2>3 DEF RPush, RPushRaises, pusherVars
  <1>4. ASSUME NEW k \in Parts, ReaderNext(k) PROVE UNCHANGED pusherVars
    BY <1>4 DEF ReaderNext, ReaderExit, ReaderCheck, ReaderPop, ReaderTimeout,
                ReaderPopRaises, ReaderAppend
  <1>5. CASE MonitorNext
    BY <1>5 DEF MonitorNext, MonitorExit, MonitorRead, AddReaderThread,
                RemoveReaderFlag, RemoveReaderJoin, MonitorScaled, pusherVars
  <1>6. CASE UserNext
    BY <1>6 DEF UserNext, SetNumPartitions, SetBufSize, PullBegin, PullPop,
                PullEnd, Close, CloseFlag, CloseJoinMonitor, CloseJoinReaders,
                pusherVars
  <1>7. CASE UNCHANGED pusherVars
    BY <1>7 DEF pusherVars
  <1> QED
    BY <1>1, <1>2, <1>3, <1>4, <1>5, <1>6, <1>7 DEF Next, PusherNext, vars

(* Every step keeps the puller's shared state typed.                       *)
LEMMA PullerTypeStep ==
    ASSUME TypeOK, PullInv, [Next]_vars
    PROVE  PullerTypeOK'
  <1> USE QueueAssumption DEF TypeOK, PullerTypeOK, Flag
  <1>1. ASSUME NEW p \in Pushers, PusherNext(p) PROVE PullerTypeOK'
    BY <1>1 DEF PusherNext, CreateTopic, CacheExpires, Push, RPush,
                RPushRaises, readerVars
  <1>2. ASSUME NEW k \in Parts, ReaderNext(k) PROVE PullerTypeOK'
    <2>1. CASE ReaderAppend(k)
      <3>1. [part |-> k, num |-> head[k]] \in Item
        BY DEF Item, RedisTypeOK
      <3> QED
        BY <2>1, <3>1 DEF ReaderAppend, Buffered
    <2>2. CASE ReaderPopRaises(k)
      <3>1. [part |-> k, num |-> head[k] + 1] \in Item
        BY DEF Item, RedisTypeOK
      <3> QED
        BY <2>2, <3>1 DEF ReaderPopRaises
    <2> QED
      BY <1>2, <2>1, <2>2
         DEF ReaderNext, ReaderExit, ReaderCheck, ReaderPop, ReaderTimeout,
             EmptyContinues
  <1>3. CASE MonitorNext
    <2>1. CASE RemoveReaderJoin
      <3>1. flags' \in Seq(Flag)
        BY <2>1, DropLast DEF RemoveReaderJoin, NumThreads
      <3> QED
        BY <2>1, <3>1 DEF RemoveReaderJoin, readerVars
    <2>2. CASE AddReaderThread
      <3>1. flags' \in Seq(Flag)
        BY <2>2, AppendProperties DEF AddReaderThread
      <3>2. rpc' \in [Parts -> {"top", "pop", "append", "dead"}]
        BY <2>2 DEF AddReaderThread, Started
      <3> QED
        BY <2>2, <3>1, <3>2 DEF AddReaderThread
    <2>3. CASE RemoveReaderFlag
      <3>1. flags' \in Seq(Flag)
        BY <2>3, Overwrite DEF RemoveReaderFlag
      <3> QED
        BY <2>3, <3>1 DEF RemoveReaderFlag, readerVars
    <2> QED
      BY <1>3, <2>1, <2>2, <2>3 DEF MonitorNext, MonitorExit, MonitorRead,
                MonitorScaled, readerVars
  <1>4. CASE UserNext
    <2>1. CASE PullPop
      <3>1. buf # <<>>
        BY <2>1 DEF PullPop, PullInv, UserTypeOK
      <3>2. buf' \in Seq(Item)
        BY <2>1, <3>1, HeadTailProperties DEF PullPop
      <3> QED
        BY <2>1, <3>2 DEF PullPop, readerVars
    <2>2. CASE CloseFlag
      <3>1. flags' \in Seq(Flag)
        <4>1. flags' = flags \/ flags' = [flags EXCEPT ![pos] = "off"]
          BY <2>2 DEF CloseFlag, ResetFlag
        <4> QED
          BY <4>1, Overwrite
      <3>2. UNCHANGED <<readerVars, buf, bufSize, monFlag>>
        BY <2>2 DEF CloseFlag
      <3> QED
        BY <3>1, <3>2 DEF readerVars
    <2>3. CASE \E n \in 1 .. MaxBufSize : SetBufSize(n)
      BY <2>3 DEF SetBufSize, readerVars
    <2>4. CASE Close
      <3>1. UNCHANGED <<readerVars, buf, flags>>
        BY <2>4 DEF Close
      <3>2. bufSize' = 0 /\ monFlag' = "off"
        BY <2>4 DEF Close
      <3> QED
        BY <3>1, <3>2 DEF readerVars
    <2>5. CASE UNCHANGED <<readerVars, buf, bufSize, flags, monFlag>>
      BY <2>5 DEF readerVars
    <2> QED
      BY <1>4, <2>1, <2>2, <2>3, <2>4, <2>5
         DEF UserNext, SetNumPartitions, PullBegin, PullEnd, CloseJoinMonitor,
             CloseJoinReaders
  <1> QED
    BY <1>1, <1>2, <1>3, <1>4 DEF Next, vars, readerVars

(* Every step keeps the monitor thread's variables typed.                  *)
LEMMA MonitorTypeStep ==
    ASSUME TypeOK, PullInv, [Next]_vars
    PROVE  MonitorTypeOK'
  <1> USE QueueAssumption DEF TypeOK, MonitorTypeOK
  <1>1. ASSUME NEW p \in Pushers, PusherNext(p) PROVE MonitorTypeOK'
    BY <1>1 DEF PusherNext, CreateTopic, CacheExpires, Push, RPush,
                RPushRaises, monVars
  <1>2. ASSUME NEW k \in Parts, ReaderNext(k) PROVE MonitorTypeOK'
    BY <1>2 DEF ReaderNext, ReaderExit, ReaderCheck, ReaderPop, ReaderTimeout,
                ReaderPopRaises, ReaderAppend, monVars
  <1>3. CASE MonitorNext
    <2>1. CASE MonitorRead
      <3>1. GetNumPartitions \in 1 .. MaxPartitions
        BY NumPartitionsType
      <3>2. /\ target' = GetNumPartitions
            /\ delta' = IF GetNumPartitions > numParts
                        THEN GetNumPartitions - numParts
                        ELSE numParts - GetNumPartitions
            /\ mpc' = "scale"
            /\ numParts' = numParts
        BY <2>1 DEF MonitorRead
      <3> QED
        BY <3>1, <3>2
    <2>2. CASE RemoveReaderJoin
      BY <2>2 DEF RemoveReaderJoin, PullInv
    <2>3. CASE AddReaderThread
      BY <2>3 DEF AddReaderThread
    <2>4. CASE MonitorExit \/ RemoveReaderFlag \/ MonitorScaled
      BY <2>4 DEF MonitorExit, RemoveReaderFlag, MonitorScaled
    <2> QED
      BY <1>3, <2>1, <2>2, <2>3, <2>4 DEF MonitorNext
  <1>4. CASE UserNext
    BY <1>4 DEF UserNext, SetNumPartitions, SetBufSize, PullBegin, PullPop,
                PullEnd, Close, CloseFlag, CloseJoinMonitor, CloseJoinReaders,
                monVars
  <1> QED
    BY <1>1, <1>2, <1>3, <1>4 DEF Next, vars, monVars

(* Every step keeps the owner thread's variables typed.                    *)
LEMMA UserTypeStep ==
    ASSUME TypeOK, PullInv, [Next]_vars
    PROVE  UserTypeOK'
  <1> USE QueueAssumption DEF TypeOK, UserTypeOK
  <1>1. ASSUME NEW p \in Pushers, PusherNext(p) PROVE UserTypeOK'
    BY <1>1 DEF PusherNext, CreateTopic, CacheExpires, Push, RPush,
                RPushRaises, userVars
  <1>2. ASSUME NEW k \in Parts, ReaderNext(k) PROVE UserTypeOK'
    BY <1>2 DEF ReaderNext, ReaderExit, ReaderCheck, ReaderPop, ReaderTimeout,
                ReaderPopRaises, ReaderAppend, userVars
  <1>3. CASE MonitorNext
    BY <1>3 DEF MonitorNext, MonitorExit, MonitorRead, AddReaderThread,
                RemoveReaderFlag, RemoveReaderJoin, MonitorScaled, userVars
  <1>4. CASE UserNext
    <2>1. CASE PullPop
      <3>1. buf # <<>> /\ buf \in Seq(Item)
        BY <2>1 DEF PullPop, PullInv, PullerTypeOK
      <3>2. delivered' \in Seq(Item)
        BY <2>1, <3>1, HeadTailProperties, AppendProperties DEF PullPop
      <3> QED
        BY <2>1, <3>2 DEF PullPop
    <2> QED
      BY <1>4, <2>1, SMTT(30)
         DEF UserNext, SetNumPartitions, SetBufSize, PullBegin, PullEnd, Close,
             CloseFlag, CloseJoinMonitor, CloseJoinReaders,
             PullerTypeOK, userVars
  <1> QED
    BY <1>1, <1>2, <1>3, <1>4 DEF Next, vars, userVars

-----------------------------------------------------------------------------
(* Only started threads run.                                               *)
ThreadInv == \A k \in Parts : k >= NumThreads => rpc[k] = "dead"

(* pull's counter and the monitor's loop stay consistent.                  *)
LEMMA PullStep ==
    ASSUME TypeOK, PullInv, [Next]_vars
    PROVE  PullInv'
  <1> USE DEF PullInv
  <1>0. buf \in Seq(Item) /\ todo \in Nat /\ delta \in Nat
    BY QueueAssumption DEF TypeOK, PullerTypeOK, UserTypeOK, MonitorTypeOK
  <1>1. ASSUME NEW p \in Pushers, PusherNext(p) PROVE PullInv'
    BY <1>1 DEF PusherNext, CreateTopic, CacheExpires, Push, RPush,
                RPushRaises, userVars, monVars
  <1>2. ASSUME NEW k \in Parts, ReaderNext(k) PROVE PullInv'
    <2>1. UNCHANGED <<userVars, monVars>>
      BY <1>2 DEF ReaderNext, ReaderExit, ReaderCheck, ReaderPop, ReaderTimeout,
                  ReaderPopRaises, ReaderAppend
    <2>2. CASE ReaderAppend(k)
      <3>1. Len(buf') = Len(buf) + 1
        BY <1>0, <2>2, AppendProperties DEF ReaderAppend, Buffered, Item, TypeOK, RedisTypeOK
      <3> QED
        BY <1>0, <2>1, <3>1 DEF userVars, monVars
    <2>3. CASE UNCHANGED buf
      BY <2>1, <2>3 DEF userVars, monVars
    <2> QED
      BY <1>2, <2>2, <2>3 DEF ReaderNext, ReaderExit, ReaderCheck, ReaderPop,
                  ReaderTimeout, ReaderPopRaises
  <1>3. CASE MonitorNext
    BY <1>3 DEF MonitorNext, MonitorExit, MonitorRead, AddReaderThread,
                RemoveReaderFlag, RemoveReaderJoin, MonitorScaled, userVars
  <1>4. CASE UserNext
    <2>1. UNCHANGED monVars
      BY <1>4 DEF UserNext, SetNumPartitions, SetBufSize, PullBegin, PullPop,
                  PullEnd, Close, CloseFlag, CloseJoinMonitor, CloseJoinReaders
    <2>2. CASE PullPop
      <3>1. buf # <<>> /\ Len(buf') = Len(buf) - 1
        BY <1>0, <2>2, HeadTailProperties DEF PullPop
      <3> QED
        BY <1>0, <2>1, <2>2, <3>1 DEF PullPop, monVars
    <2> QED
      BY <1>0, <1>4, <2>1, <2>2
         DEF UserNext, SetNumPartitions, SetBufSize, PullBegin, PullEnd, Close,
             CloseFlag, CloseJoinMonitor, CloseJoinReaders, userVars, monVars
  <1> QED
    BY <1>1, <1>2, <1>3, <1>4 DEF Next, vars, userVars, monVars

(* A reader thread that is not in the puller's list has ended: the monitor *)
(* joins a thread before it drops it.                                      *)
LEMMA ThreadStep ==
    ASSUME TypeOK, ThreadInv, [Next]_vars
    PROVE  ThreadInv'
  <1> USE DEF ThreadInv, NumThreads
  <1>0. /\ flags \in Seq(Flag)
        /\ rpc \in [Parts -> {"top", "pop", "append", "dead"}]
        /\ Parts \subseteq Int
    BY QueueAssumption DEF TypeOK, PullerTypeOK, Parts
  <1>1. ASSUME NEW p \in Pushers, PusherNext(p) PROVE ThreadInv'
    BY <1>1 DEF PusherNext, CreateTopic, CacheExpires, Push, RPush,
                RPushRaises, readerVars
  <1>2. ASSUME NEW k \in Parts, ReaderNext(k) PROVE ThreadInv'
    BY <1>0, <1>2
       DEF ReaderNext, ReaderExit, ReaderCheck, ReaderPop, ReaderTimeout,
           ReaderPopRaises, ReaderAppend
  <1>3. CASE MonitorNext
    <2>1. CASE AddReaderThread
      <3>1. Len(flags') = Len(flags) + 1
        BY <1>0, <2>1, AppendProperties DEF AddReaderThread, Flag
      <3>2. rpc' = [rpc EXCEPT ![Len(flags)] = Started]
        BY <2>1 DEF AddReaderThread
      <3> QED
        BY <1>0, <3>1, <3>2
    <2>2. CASE RemoveReaderFlag
      <3>1. Len(flags') = Len(flags)
        BY <1>0, <2>2, Overwrite DEF RemoveReaderFlag, Flag
      <3> QED
        BY <2>2, <3>1 DEF RemoveReaderFlag, readerVars
    <2>3. CASE RemoveReaderJoin
      <3>1. Len(flags') = IF Len(flags) = 0 THEN 0 ELSE Len(flags) - 1
        BY <1>0, <2>3 DEF RemoveReaderJoin
      <3>2. rpc[Len(flags) - 1] = "dead" /\ rpc' = rpc
        BY <2>3 DEF RemoveReaderJoin, Joined, readerVars
      <3> QED
        BY <1>0, <3>1, <3>2
    <2> QED
      BY <1>3, <2>1, <2>2, <2>3
         DEF MonitorNext, MonitorExit, MonitorRead, MonitorScaled, readerVars
  <1>4. CASE UserNext
    <2>1. CASE CloseFlag
      <3>1. Len(flags') = Len(flags)
        <4>1. flags' = flags \/ flags' = [flags EXCEPT ![pos] = "off"]
          BY <2>1 DEF CloseFlag, ResetFlag
        <4> QED
          BY <1>0, <4>1, Overwrite DEF Flag
      <3> QED
        BY <2>1, <3>1 DEF CloseFlag, readerVars
    <2> QED
      BY <1>4, <2>1
         DEF UserNext, SetNumPartitions, SetBufSize, PullBegin, PullPop,
             PullEnd, Close, CloseJoinMonitor, CloseJoinReaders, readerVars
  <1> QED
    BY <1>1, <1>2, <1>3, <1>4 DEF Next, vars, readerVars

(* What the later invariants rest on.                                      *)
BaseInv == TypeOK /\ CacheInv /\ PullInv /\ ThreadInv

(* The initial states satisfy BaseInv: the constructor starts one reader   *)
(* per partition and pull is not under way.                                *)
LEMMA BaseInit == Init => BaseInv
  <1> SUFFICES ASSUME Init PROVE BaseInv
    OBVIOUS
  <1>1. TypeOK /\ CacheInv /\ PullInv
    BY TypeInit
  <1>2. GetNumPartitions \in 1 .. MaxPartitions /\ Parts \subseteq Int
    BY QueueAssumption DEF Init, GetNumPartitions, Parts
  <1>3. Len(flags) = GetNumPartitions
    BY <1>2 DEF Init
  <1>4. ThreadInv
    BY <1>2, <1>3 DEF Init, ThreadInv, NumThreads
  <1> QED
    BY <1>1, <1>4 DEF BaseInv

(* Every step of pushers, readers, monitor and owner keeps BaseInv.        *)
LEMMA BaseStep == BaseInv /\ [Next]_vars => BaseInv'
  <1> SUFFICES ASSUME BaseInv, [Next]_vars PROVE BaseInv'
    OBVIOUS
  <1> USE DEF BaseInv
  <1>1. TypeOK'
    BY RedisTypeStep, PusherTypeStep, PullerTypeStep, MonitorTypeStep,
       UserTypeStep DEF TypeOK
  <1> QED
    BY <1>1, PusherTypeStep, PullStep, ThreadStep

(* Every reachable state of the queue is well typed; in particular the     *)
(* round robin of push stays within the partitions and pull never pops an  *)
(* empty buffer, whatever the interleaving of pushers, readers, monitor    *)
(* and owner.                                                              *)
THEOREM TypeCorrect == Spec => []TypeOK
  <1>1. Spec => []BaseInv
    BY BaseInit, BaseStep, PTL DEF Spec
  <1>2. BaseInv => TypeOK
    BY DEF BaseInv
  <1> QED
    BY <1>1, <1>2, PTL

-----------------------------------------------------------------------------
(* The stream of elements handed over by the readers.                      *)

(* Moving the first element of the buffer to the result of pull keeps the  *)
(* stream.                                                                 *)
LEMMA StreamMove ==
    ASSUME NEW S, NEW d \in Seq(S), NEW b \in Seq(S), b # <<>>
    PROVE  Append(d, Head(b)) \o Tail(b) = d \o b
  <1> DEFINE l == Append(d, Head(b)) \o Tail(b)
             r == d \o b
  <1>1. /\ Head(b) \in S
        /\ Tail(b) \in Seq(S)
        /\ Len(Tail(b)) = Len(b) - 1
        /\ \A i \in 1 .. Len(Tail(b)) : Tail(b)[i] = b[i + 1]
        /\ Head(b) = b[1]
    BY HeadTailProperties
  <1>2. /\ Append(d, Head(b)) \in Seq(S)
        /\ Len(Append(d, Head(b))) = Len(d) + 1
        /\ \A i \in 1 .. Len(d) : Append(d, Head(b))[i] = d[i]
        /\ Append(d, Head(b))[Len(d) + 1] = b[1]
    BY <1>1, AppendProperties
  <1>3. /\ l \in Seq(S)
        /\ Len(l) = Len(d) + Len(b)
        /\ \A i \in 1 .. (Len(d) + Len(b)) :
              l[i] = IF i <= Len(d) + 1 THEN Append(d, Head(b))[i]
                                        ELSE Tail(b)[i - (Len(d) + 1)]
    BY <1>1, <1>2, ConcatProperties
  <1>4. /\ r \in Seq(S)
        /\ Len(r) = Len(d) + Len(b)
        /\ \A i \in 1 .. (Len(d) + Len(b)) :
              r[i] = IF i <= Len(d) THEN d[i] ELSE b[i - Len(d)]
    BY ConcatProperties
  <1>5. ASSUME NEW i \in 1 .. (Len(d) + Len(b))
        PROVE  l[i] = r[i]
    <2>1. CASE i <= Len(d)
      BY <1>2, <1>3, <1>4, <2>1
    <2>2. CASE i = Len(d) + 1
      BY <1>2, <1>3, <1>4, <2>2
    <2>3. CASE i > Len(d) + 1
      <3>1. i - (Len(d) + 1) \in 1 .. Len(Tail(b))
        BY <1>1, <2>3
      <3>2. l[i] = Tail(b)[i - (Len(d) + 1)]
        BY <1>3, <2>3
      <3>3. Tail(b)[i - (Len(d) + 1)] = b[(i - (Len(d) + 1)) + 1]
        BY <1>1, <3>1
      <3>4. (i - (Len(d) + 1)) + 1 = i - Len(d)
        OBVIOUS
      <3> QED
        BY <1>4, <2>3, <3>2, <3>3, <3>4
    <2> QED
      BY <2>1, <2>2, <2>3
  <1> HIDE DEF l, r
  <1> QED
    <2>1. l = r
      BY <1>3, <1>4, <1>5, SeqEqual
    <2> QED
      BY <2>1 DEF l, r

(* Appending to the buffer appends to the stream.                          *)
LEMMA StreamGrows ==
    ASSUME NEW S, NEW d \in Seq(S), NEW b \in Seq(S), NEW e \in S
    PROVE  /\ Len(d \o Append(b, e)) = Len(d \o b) + 1
           /\ \A i \in 1 .. Len(d \o b) : (d \o Append(b, e))[i] = (d \o b)[i]
           /\ (d \o Append(b, e))[Len(d \o b) + 1] = e
  <1>1. /\ Append(b, e) \in Seq(S)
        /\ Len(Append(b, e)) = Len(b) + 1
        /\ \A i \in 1 .. Len(b) : Append(b, e)[i] = b[i]
        /\ Append(b, e)[Len(b) + 1] = e
    BY AppendProperties
  <1>2. /\ Len(d \o b) = Len(d) + Len(b)
        /\ \A i \in 1 .. (Len(d) + Len(b)) :
              (d \o b)[i] = IF i <= Len(d) THEN d[i] ELSE b[i - Len(d)]
    BY ConcatProperties
  <1>3. /\ Len(d \o Append(b, e)) = Len(d) + Len(b) + 1
        /\ \A i \in 1 .. (Len(d) + Len(b) + 1) :
              (d \o Append(b, e))[i]
                  = IF i <= Len(d) THEN d[i] ELSE Append(b, e)[i - Len(d)]
    <2> DEFINE c == Append(b, e)
    <2>1. c \in Seq(S) /\ Len(c) = Len(b) + 1
      BY <1>1
    <2> HIDE DEF c
    <2>2. /\ Len(d \o c) = Len(d) + Len(c)
          /\ \A i \in 1 .. (Len(d) + Len(c)) :
                (d \o c)[i] = IF i <= Len(d) THEN d[i] ELSE c[i - Len(d)]
      BY <2>1, ConcatProperties
    <2>3. /\ Len(d \o c) = Len(d) + Len(b) + 1
          /\ \A i \in 1 .. (Len(d) + Len(b) + 1) :
                (d \o c)[i] = IF i <= Len(d) THEN d[i] ELSE c[i - Len(d)]
      BY <2>1, <2>2
    <2> QED
      BY <2>3 DEF c
  <1> QED
    BY <1>1, <1>2, <1>3

(* The stream is a sequence of elements.                                   *)
LEMMA StreamType == TypeOK => Stream \in Seq(Item)
  BY ConcatProperties DEF Stream, TypeOK, PullerTypeOK, UserTypeOK

(* A step that is no BLPOP and no append to the buffer leaves the stream,  *)
(* the heads, the lost elements and the elements in the readers' hands.    *)
Quiet ==
    /\ Stream' = Stream
    /\ UNCHANGED <<head, lost>>
    /\ \A k \in Parts : rpc'[k] = "append" <=> rpc[k] = "append"

(* What a step does to the stream: nothing, a BLPOP by one reader, the     *)
(* loss of its reply, or the append of the element it holds.               *)
LEMMA StepKinds ==
    ASSUME BaseInv, [Next]_vars
    PROVE  \/ Quiet
           \/ \E k \in Parts : ReaderPop(k) \/ ReaderPopRaises(k) \/ ReaderAppend(k)
  <1> USE DEF BaseInv
  <1>0. rpc \in [Parts -> {"top", "pop", "append", "dead"}]
    BY DEF TypeOK, PullerTypeOK
  <1>1. ASSUME NEW p \in Pushers, PusherNext(p) PROVE Quiet
    <2>1. UNCHANGED <<head, readerVars, userVars, buf>>
      BY <1>1 DEF PusherNext, CreateTopic, CacheExpires, Push, RPush,
                  RPushRaises, redisVars
    <2> QED
      BY <2>1 DEF Quiet, Stream, readerVars, userVars
  <1>2. ASSUME NEW k \in Parts, ReaderExit(k) \/ ReaderCheck(k) \/ ReaderTimeout(k)
        PROVE  Quiet
    <2>1. rpc[k] # "append" /\ \E v \in {"top", "pop", "dead"} : rpc' = [rpc EXCEPT ![k] = v]
      BY <1>2 DEF ReaderExit, ReaderCheck, ReaderTimeout, EmptyContinues
    <2>2. UNCHANGED <<redisVars, lost, userVars, buf>>
      BY <1>2 DEF ReaderExit, ReaderCheck, ReaderTimeout
    <2> QED
      BY <1>0, <2>1, <2>2 DEF Quiet, Stream, redisVars, userVars
  <1>3. CASE MonitorNext
    <2>1. UNCHANGED <<redisVars, lost, userVars, buf>>
      BY <1>3 DEF MonitorNext, MonitorExit, MonitorRead, AddReaderThread,
                RemoveReaderFlag, RemoveReaderJoin, MonitorScaled, readerVars
    <2>2. rpc' = rpc \/ rpc' = [rpc EXCEPT ![NumThreads] = "top"]
      BY <1>3 DEF MonitorNext, MonitorExit, MonitorRead, AddReaderThread,
                RemoveReaderFlag, RemoveReaderJoin, MonitorScaled, readerVars,
                Started
    <2>3. \A k \in Parts : k = NumThreads => rpc[k] = "dead"
      BY QueueAssumption DEF ThreadInv, Parts
    <2> QED
      BY <1>0, <2>1, <2>2, <2>3 DEF Quiet, Stream, redisVars, userVars
  <1>4. CASE UserNext
    <2>1. UNCHANGED <<head, lost, rpc>>
      BY <1>4 DEF UserNext, SetNumPartitions, SetBufSize, PullBegin, PullPop,
                  PullEnd, Close, CloseFlag, CloseJoinMonitor, CloseJoinReaders,
                  redisVars, readerVars
    <2>2. CASE PullPop
      <3>1. /\ buf \in Seq(Item) /\ delivered \in Seq(Item) /\ buf # <<>>
        BY <2>2 DEF TypeOK, PullerTypeOK, UserTypeOK, PullInv, PullPop
      <3>2. Stream' = Stream
        BY <2>2, <3>1, StreamMove DEF PullPop, Stream
      <3> QED
        BY <2>1, <3>2 DEF Quiet
    <2>3. CASE UNCHANGED <<delivered, buf>>
      BY <2>1, <2>3 DEF Quiet, Stream
    <2> QED
      BY <1>4, <2>2, <2>3
         DEF UserNext, SetNumPartitions, SetBufSize, PullBegin, PullEnd, Close,
             CloseFlag, CloseJoinMonitor, CloseJoinReaders, userVars
  <1>5. CASE UNCHANGED vars
    BY <1>5 DEF Quiet, Stream, vars, redisVars, readerVars, userVars
  <1> QED
    BY <1>1, <1>2, <1>3, <1>4, <1>5 DEF Next, ReaderNext

(* The inductive form of PartitionFifo: what is in the stream was popped,  *)
(* and what a reader holds was popped after everything of its partition    *)
(* that is in the stream.                                                  *)
FifoInv ==
    /\ PartitionFifo
    /\ \A j \in 1 .. Len(Stream) :
          /\ Stream[j].num <= head[Stream[j].part]
          /\ rpc[Stream[j].part] = "append" => Stream[j].num < head[Stream[j].part]

(* The stream is empty at first, so FifoInv holds.                         *)
LEMMA FifoInit == Init => FifoInv
  <1> SUFFICES ASSUME Init PROVE FifoInv
    OBVIOUS
  <1>1. Stream = <<>>
    BY DEF Init, Stream
  <1>2. Len(Stream) = 0
    BY <1>1
  <1> QED
    BY <1>2 DEF FifoInv, PartitionFifo

(* Every step keeps FifoInv: an appended element is the last its reader    *)
(* popped, and is newer than all of its partition in the stream.           *)
LEMMA FifoStep == BaseInv /\ FifoInv /\ [Next]_vars => FifoInv'
  <1> SUFFICES ASSUME BaseInv, FifoInv, [Next]_vars PROVE FifoInv'
    OBVIOUS
  <1>0. /\ Stream \in Seq(Item)
        /\ head \in [Parts -> Nat]
        /\ rpc \in [Parts -> {"top", "pop", "append", "dead"}]
        /\ delivered \in Seq(Item) /\ buf \in Seq(Item)
    BY StreamType DEF BaseInv, TypeOK, RedisTypeOK, PullerTypeOK, UserTypeOK
  <1>00. \A j \in 1 .. Len(Stream) : Stream[j].part \in Parts /\ Stream[j].num \in Nat
    <2>1. \A j \in 1 .. Len(Stream) : Stream[j] \in Item
      BY <1>0, ElementOfSeq
    <2>2. \A it \in Item : it.part \in Parts /\ it.num \in Nat
      BY DEF Item
    <2> QED
      BY <2>1, <2>2
  <1>1. CASE Quiet
    <2>1. /\ Stream' = Stream /\ head' = head
          /\ \A k \in Parts : rpc'[k] = "append" <=> rpc[k] = "append"
      BY <1>1 DEF Quiet
    <2>2. PartitionFifo'
      BY <2>1 DEF FifoInv, PartitionFifo
    <2>3. ASSUME NEW j \in 1 .. Len(Stream)
          PROVE  /\ Stream[j].num <= head[Stream[j].part]
                 /\ rpc'[Stream[j].part] = "append"
                        => Stream[j].num < head[Stream[j].part]
      BY <1>00, <2>1 DEF FifoInv
    <2> QED
      BY <2>1, <2>2, <2>3 DEF FifoInv
  <1>2. ASSUME NEW k \in Parts, ReaderPop(k) \/ ReaderPopRaises(k)
        PROVE  FifoInv'
    <2>1. /\ rpc[k] = "pop"
          /\ head' = [head EXCEPT ![k] = @ + 1]
          /\ \E v \in {"append", "top"} : rpc' = [rpc EXCEPT ![k] = v]
      BY <1>2 DEF ReaderPop, ReaderPopRaises
    <2>2. Stream' = Stream
      BY <1>2 DEF ReaderPop, ReaderPopRaises, Stream, userVars
    <2>3. PartitionFifo'
      BY <2>2 DEF FifoInv, PartitionFifo
    <2>4. ASSUME NEW j \in 1 .. Len(Stream)
          PROVE  /\ Stream[j].num <= head'[Stream[j].part]
                 /\ rpc'[Stream[j].part] = "append"
                        => Stream[j].num < head'[Stream[j].part]
      <3> DEFINE q == Stream[j].part
                 n == Stream[j].num
      <3>1. q \in Parts /\ n \in Nat
        BY <1>00
      <3>2. n <= head[q] /\ (rpc[q] = "append" => n < head[q])
        BY DEF FifoInv
      <3> HIDE DEF q, n
      <3>3. n <= head'[q] /\ (rpc'[q] = "append" => n < head'[q])
        <4>1. head[q] \in Nat /\ head[k] \in Nat
          BY <1>0, <3>1
        <4>2. CASE q = k
          BY <1>0, <2>1, <3>1, <3>2, <4>1, <4>2
        <4>3. CASE q # k
          BY <1>0, <2>1, <3>1, <3>2, <4>3
        <4> QED
          BY <4>2, <4>3
      <3> QED
        BY <3>3 DEF q, n
    <2> QED
      BY <2>2, <2>3, <2>4 DEF FifoInv
  <1>3. ASSUME NEW k \in Parts, ReaderAppend(k)
        PROVE  FifoInv'
    <2> DEFINE e == [part |-> k, num |-> head[k]]
    <2>0. e \in Item /\ e.part = k /\ e.num = head[k]
      BY <1>0 DEF Item
    <2>1. /\ rpc[k] = "append" /\ rpc' = [rpc EXCEPT ![k] = "top"]
          /\ head' = head
          /\ Stream' = delivered \o Append(buf, e)
      BY <1>3 DEF ReaderAppend, Buffered, Stream, redisVars, userVars
    <2> HIDE DEF e
    <2>2. /\ Len(Stream') = Len(Stream) + 1
          /\ \A i \in 1 .. Len(Stream) : Stream'[i] = Stream[i]
          /\ Stream'[Len(Stream) + 1] = e
      BY <1>0, <2>0, <2>1, StreamGrows DEF Stream
    <2>3. Len(Stream) \in Nat
      BY <1>0
    <2>4. ASSUME NEW j \in 1 .. Len(Stream), Stream[j].part = k
          PROVE  Stream[j].num < head[k]
      BY <2>1, <2>4 DEF FifoInv
    <2>5. ASSUME NEW i \in 1 .. (Len(Stream) + 1), NEW j \in 1 .. (Len(Stream) + 1),
                 i < j, Stream'[i].part = Stream'[j].part
          PROVE  Stream'[i].num < Stream'[j].num
      <3>1. i \in 1 .. Len(Stream) /\ Stream'[i] = Stream[i]
        BY <2>2, <2>3, <2>5
      <3>2. CASE j = Len(Stream) + 1
        BY <2>0, <2>2, <2>4, <2>5, <3>1, <3>2
      <3>3. CASE j # Len(Stream) + 1
        <4>1. j \in 1 .. Len(Stream) /\ Stream'[j] = Stream[j]
          BY <2>2, <2>3, <3>3
        <4> QED
          BY <2>5, <3>1, <4>1 DEF FifoInv, PartitionFifo
      <3> QED
        BY <3>2, <3>3
    <2>6. PartitionFifo'
      BY <2>2, <2>5 DEF PartitionFifo
    <2>7. ASSUME NEW j \in 1 .. (Len(Stream) + 1)
          PROVE  /\ Stream'[j].num <= head'[Stream'[j].part]
                 /\ rpc'[Stream'[j].part] = "append"
                        => Stream'[j].num < head'[Stream'[j].part]
      <3>1. CASE j = Len(Stream) + 1
        BY <1>0, <2>0, <2>1, <2>2, <3>1
      <3>2. CASE j # Len(Stream) + 1
        <4>1. j \in 1 .. Len(Stream) /\ Stream'[j] = Stream[j]
          BY <2>2, <2>3, <3>2
        <4>2. rpc'[Stream[j].part] = "append" => rpc[Stream[j].part] = "append"
          BY <1>0, <1>00, <2>1, <4>1
        <4> QED
          BY <2>1, <4>1, <4>2 DEF FifoInv
      <3> QED
        BY <3>1, <3>2
    <2> QED
      BY <2>2, <2>6, <2>7 DEF FifoInv
  <1> QED
    BY <1>1, <1>2, <1>3, StepKinds

(* For any number of partitions, pushers, messages, faults and resizes,    *)
(* the elements of one partition are handed over once and in order.        *)
THEOREM FifoCorrect == Spec => []PartitionFifo
  <1>1. Init => BaseInv /\ FifoInv
    BY BaseInit, FifoInit
  <1>2. BaseInv /\ FifoInv /\ [Next]_vars => BaseInv' /\ FifoInv'
    BY BaseStep, FifoStep
  <1>3. FifoInv => PartitionFifo
    BY DEF FifoInv
  <1> QED
    BY <1>1, <1>2, <1>3, PTL DEF Spec

-----------------------------------------------------------------------------
(* Nothing that was acknowledged is dropped.                               *)

(* Everything popped from Redis can be found in the puller, and everything *)
(* acknowledged was written to a partition.                                *)
PoppedInv == \A k \in Parts : \A i \in 1 .. head[k] : Accounted(k, i)
WrittenInv ==
    \A m \in acked : \E k \in Parts : \E i \in 1 .. Len(log[k]) : log[k][i] = m

(* Nothing is popped and nothing acknowledged at first.                    *)
LEMMA AccountInit == Init => PoppedInv /\ WrittenInv
  <1> SUFFICES ASSUME Init PROVE PoppedInv /\ WrittenInv
    OBVIOUS
  <1>1. \A k \in Parts : head[k] = 0
    BY DEF Init
  <1>2. acked = {}
    BY DEF Init
  <1> QED
    BY <1>1, <1>2 DEF PoppedInv, WrittenInv

(* An element stays accounted for: the reader that pops it holds it until  *)
(* it is in the shared buffer, and pull only moves it on.                  *)
LEMMA PoppedStep == BaseInv /\ PoppedInv /\ [Next]_vars => PoppedInv'
  <1> SUFFICES ASSUME BaseInv, PoppedInv, [Next]_vars,
                      NEW q \in Parts, NEW n \in 1 .. head'[q]
               PROVE  Accounted(q, n)'
    BY DEF PoppedInv
  <1> DEFINE it == [part |-> q, num |-> n]
  <1>0. /\ Stream \in Seq(Item)
        /\ head \in [Parts -> Nat]
        /\ rpc \in [Parts -> {"top", "pop", "append", "dead"}]
        /\ delivered \in Seq(Item) /\ buf \in Seq(Item)
    BY StreamType DEF BaseInv, TypeOK, RedisTypeOK, PullerTypeOK, UserTypeOK
  <1>1. CASE Quiet
    <2>1. /\ Stream' = Stream /\ head' = head /\ lost' = lost
          /\ rpc'[q] = "append" <=> rpc[q] = "append"
      BY <1>1 DEF Quiet
    <2>2. Accounted(q, n)
      BY <2>1 DEF PoppedInv
    <2> QED
      BY <2>1, <2>2 DEF Accounted
  <1>2. ASSUME NEW k \in Parts, ReaderPop(k) \/ ReaderPopRaises(k)
        PROVE  Accounted(q, n)'
    <2>1. /\ rpc[k] = "pop"
          /\ head' = [head EXCEPT ![k] = @ + 1]
          /\ lost \subseteq lost'
          /\ \/ rpc' = [rpc EXCEPT ![k] = "append"]
             \/ /\ rpc' = [rpc EXCEPT ![k] = "top"]
                /\ [part |-> k, num |-> head[k] + 1] \in lost'
      BY <1>2 DEF ReaderPop, ReaderPopRaises
    <2>2. Stream' = Stream
      BY <1>2 DEF ReaderPop, ReaderPopRaises, Stream, userVars
    <2>3. CASE q = k /\ n = head[k] + 1
      BY <1>0, <2>1, <2>3 DEF Accounted
    <2>4. CASE ~ (q = k /\ n = head[k] + 1)
      <3>1. n \in 1 .. head[q]
        BY <1>0, <2>1, <2>4
      <3>2. \/ rpc[q] = "append" /\ n = head[q]
            \/ \E j \in 1 .. Len(Stream) : Stream[j] = it
            \/ it \in lost
        <4>1. Accounted(q, n)
          BY <3>1 DEF PoppedInv
        <4>2. ~ (n > head[q])
          BY <1>0, <3>1
        <4> QED
          BY <4>1, <4>2 DEF Accounted
      <3>3. rpc[q] = "append" => rpc'[q] = "append" /\ head'[q] = head[q]
        BY <1>0, <2>1
      <3> QED
        BY <2>1, <2>2, <3>2, <3>3 DEF Accounted
    <2> QED
      BY <2>3, <2>4
  <1>3. ASSUME NEW k \in Parts, ReaderAppend(k)
        PROVE  Accounted(q, n)'
    <2> DEFINE e == [part |-> k, num |-> head[k]]
    <2>0. e \in Item
      BY <1>0 DEF Item
    <2>1. /\ rpc' = [rpc EXCEPT ![k] = "top"]
          /\ head' = head /\ lost' = lost
          /\ Stream' = delivered \o Append(buf, e)
      BY <1>3 DEF ReaderAppend, Buffered, Stream, redisVars, userVars
    <2>2. q = k /\ n = head[k] => it = e
      OBVIOUS
    <2> HIDE DEF e, it
    <2>3. /\ Len(Stream') = Len(Stream) + 1
          /\ \A i \in 1 .. Len(Stream) : Stream'[i] = Stream[i]
          /\ Stream'[Len(Stream) + 1] = e
      BY <1>0, <2>0, <2>1, StreamGrows DEF Stream
    <2>4. Len(Stream) \in Nat
      BY <1>0
    <2>5. \/ rpc[q] = "append" /\ n = head[q]
          \/ \E j \in 1 .. Len(Stream) : Stream[j] = it
          \/ it \in lost
      BY <1>0, <2>1 DEF PoppedInv, Accounted, it
    <2>6. CASE rpc[q] = "append" /\ n = head[q]
      <3>1. CASE q = k
        <4>1. Stream'[Len(Stream) + 1] = it /\ Len(Stream) + 1 \in 1 .. Len(Stream')
          BY <2>2, <2>3, <2>4, <2>6, <3>1
        <4> QED
          BY <4>1 DEF Accounted, it
      <3>2. CASE q # k
        BY <1>0, <2>1, <2>6, <3>2 DEF Accounted
      <3> QED
        BY <3>1, <3>2
    <2>7. CASE \E j \in 1 .. Len(Stream) : Stream[j] = it
      <3>1. \E j \in 1 .. Len(Stream') : Stream'[j] = it
        BY <2>3, <2>4, <2>7
      <3> QED
        BY <3>1 DEF Accounted, it
    <2>8. CASE it \in lost
      BY <2>1, <2>8 DEF Accounted, it
    <2> QED
      BY <2>5, <2>6, <2>7, <2>8
  <1> QED
    BY <1>1, <1>2, <1>3, StepKinds

(* push returns only after its RPUSH, and partitions only grow.            *)
LEMMA WrittenStep == BaseInv /\ WrittenInv /\ [Next]_vars => WrittenInv'
  <1> SUFFICES ASSUME BaseInv, WrittenInv, [Next]_vars PROVE WrittenInv'
    OBVIOUS
  <1>0. /\ log \in [Parts -> Seq(Msg)]
        /\ sending \in [Pushers -> {NoSend} \cup [k : Parts, msg : Msg]]
    BY DEF BaseInv, TypeOK, RedisTypeOK, PusherTypeOK
  <1>1. ASSUME NEW p \in Pushers, RPush(p) \/ RPushRaises(p)
        PROVE  WrittenInv'
    <2> DEFINE k == sending[p].k
               m == sending[p].msg
    <2>1. k \in Parts /\ m \in Msg
      BY <1>0, <1>1 DEF RPush, RPushRaises
    <2>2. log' = [log EXCEPT ![k] = Append(@, m)] /\ acked' \subseteq acked \cup {m}
      BY <1>1 DEF RPush, RPushRaises, pusherVars
    <2> HIDE DEF k, m
    <2>3. /\ Len(log'[k]) = Len(log[k]) + 1
          /\ log'[k][Len(log[k]) + 1] = m
          /\ Len(log[k]) \in Nat
      BY <1>0, <2>1, <2>2
    <2>4. ASSUME NEW h \in Parts, NEW i \in 1 .. Len(log[h])
          PROVE  i \in 1 .. Len(log'[h]) /\ log'[h][i] = log[h][i]
      BY <1>0, <2>1, <2>2
    <2>5. \E i \in 1 .. Len(log'[k]) : log'[k][i] = m
      BY <2>3
    <2>6. ASSUME NEW a \in acked
          PROVE  \E h \in Parts : \E i \in 1 .. Len(log'[h]) : log'[h][i] = a
      BY <2>4 DEF WrittenInv
    <2> QED
      BY <2>1, <2>2, <2>5, <2>6 DEF WrittenInv
  <1>2. CASE ~ \E p \in Pushers : RPush(p) \/ RPushRaises(p)
    <2>1. log' = log /\ acked' = acked
      <3>1. CASE \E p \in Pushers : PusherNext(p)
        BY <1>2, <3>1 DEF PusherNext, CreateTopic, CacheExpires, Push, redisVars
      <3>2. CASE \E k \in Parts : ReaderNext(k)
        BY <3>2 DEF ReaderNext, ReaderExit, ReaderCheck, ReaderPop, ReaderTimeout,
                    ReaderPopRaises, ReaderAppend, redisVars, pusherVars
      <3>3. CASE MonitorNext
        BY <3>3 DEF MonitorNext, MonitorExit, MonitorRead, AddReaderThread,
                    RemoveReaderFlag, RemoveReaderJoin, MonitorScaled,
                    redisVars, pusherVars
      <3>4. CASE UserNext
        BY <3>4 DEF UserNext, SetNumPartitions, SetBufSize, PullBegin, PullPop,
                    PullEnd, Close, CloseFlag, CloseJoinMonitor,
                    CloseJoinReaders, redisVars, pusherVars
      <3>5. CASE UNCHANGED vars
        BY <3>5 DEF vars, redisVars, pusherVars
      <3> QED
        BY <3>1, <3>2, <3>3, <3>4, <3>5 DEF Next
    <2> QED
      BY <2>1 DEF WrittenInv
  <1> QED
    BY <1>1, <1>2

(* Unless Redis lost the reply of a BLPOP, a message whose push returned   *)
(* is in Redis, in a reader's hands, in the shared buffer or was returned  *)
(* by pull, for any number of partitions, pushers, resizes and closes.     *)
THEOREM NothingDropped == Spec => []AckedAccounted
  <1>1. Init => BaseInv /\ PoppedInv /\ WrittenInv
    BY BaseInit, AccountInit
  <1>2. BaseInv /\ PoppedInv /\ WrittenInv /\ [Next]_vars
            => BaseInv' /\ PoppedInv' /\ WrittenInv'
    BY BaseStep, PoppedStep, WrittenStep
  <1>3. BaseInv /\ PoppedInv /\ WrittenInv => AckedAccounted
    <2> SUFFICES ASSUME BaseInv, PoppedInv, WrittenInv, NEW m \in acked
                 PROVE  \E k \in Parts : \E i \in 1 .. Len(log[k]) :
                            log[k][i] = m /\ Accounted(k, i)
      BY DEF AckedAccounted
    <2>1. PICK k \in Parts : \E i \in 1 .. Len(log[k]) : log[k][i] = m
      BY DEF WrittenInv
    <2>1a. PICK i \in 1 .. Len(log[k]) : log[k][i] = m
      BY <2>1
    <2>2. head[k] \in Nat /\ i \in Nat \ {0}
      BY DEF BaseInv, TypeOK, RedisTypeOK
    <2>3. Accounted(k, i)
      <3>1. CASE i \in 1 .. head[k]
        BY <3>1 DEF PoppedInv
      <3>2. CASE i > head[k]
        BY <3>2 DEF Accounted
      <3> QED
        BY <2>2, <3>1, <3>2
    <2> QED
      BY <2>1a, <2>3
  <1> QED
    BY <1>1, <1>2, <1>3, PTL DEF Spec

-----------------------------------------------------------------------------
(* Closing hands over everything the process holds.                        *)

(* The threads of the puller have ended and its last pull is under way or  *)
(* over.                                                                   *)
Closing == upc = "closed" \/ (upc = "pull" /\ bufSize = 0)

(* The size of the buffer tells a pull from the last pull of a close, and  *)
(* the last pull starts after monitor and readers were joined.             *)
CloseInv ==
    /\ upc = "idle" => bufSize # 0
    /\ upc \in {"flags", "join"} => bufSize = 0
    /\ upc = "join" => mpc = "done"
    /\ Closing => mpc = "done" /\ (\A k \in Parts : rpc[k] = "dead")
    /\ Closing => todo = Len(buf)
    /\ upc = "closed" => todo = 0

(* The puller starts open.                                                 *)
LEMMA CloseInit == Init => CloseInv
  BY DEF Init, CloseInv, Closing

(* Every step keeps CloseInv: the joined threads cannot take a step, and a *)
(* thread outside the list of joined ones had ended before.                *)
LEMMA CloseStep == BaseInv /\ CloseInv /\ [Next]_vars => CloseInv'
  <1> SUFFICES ASSUME BaseInv, CloseInv, [Next]_vars PROVE CloseInv'
    OBVIOUS
  <1>0. /\ bufSize \in Nat /\ todo \in Nat /\ buf \in Seq(Item)
        /\ flags \in Seq(Flag)
        /\ rpc \in [Parts -> {"top", "pop", "append", "dead"}]
        /\ MaxBufSize \in Nat
    BY QueueAssumption DEF BaseInv, TypeOK, PullerTypeOK, UserTypeOK
  <1>1. ASSUME NEW p \in Pushers, PusherNext(p) PROVE CloseInv'
    <2>1. UNCHANGED <<upc, todo, mpc, rpc, buf, bufSize>>
      BY <1>1 DEF PusherNext, CreateTopic, CacheExpires, Push, RPush,
                  RPushRaises, readerVars, monVars, userVars
    <2> QED
      BY <2>1 DEF CloseInv, Closing
  <1>2. ASSUME NEW k \in Parts, ReaderNext(k) PROVE CloseInv'
    <2>1. rpc[k] # "dead" /\ UNCHANGED <<upc, todo, mpc, bufSize>>
      BY <1>2 DEF ReaderNext, ReaderExit, ReaderCheck, ReaderPop, ReaderTimeout,
                  ReaderPopRaises, ReaderAppend, monVars, userVars
    <2> QED
      BY <2>1 DEF CloseInv, Closing
  <1>3. ASSUME MonitorNext PROVE CloseInv'
    <2>1. mpc # "done" /\ UNCHANGED <<upc, todo, buf, bufSize>>
      BY <1>3 DEF MonitorNext, MonitorExit, MonitorRead, AddReaderThread,
                  RemoveReaderFlag, RemoveReaderJoin, MonitorScaled, userVars
    <2> QED
      BY <2>1 DEF CloseInv, Closing
  <1>4. ASSUME UserNext PROVE CloseInv'
    <2>1. UNCHANGED <<mpc, rpc>>
      BY <1>4 DEF UserNext, SetNumPartitions, SetBufSize, PullBegin, PullPop,
                  PullEnd, Close, CloseFlag, CloseJoinMonitor,
                  CloseJoinReaders, monVars, readerVars
    <2>2. CASE \E n \in 1 .. MaxPartitions : SetNumPartitions(n)
      BY <2>1, <2>2 DEF SetNumPartitions, userVars, CloseInv, Closing
    <2>3. CASE \E n \in 1 .. MaxBufSize : SetBufSize(n)
      BY <1>0, <2>1, <2>3 DEF SetBufSize, userVars, CloseInv, Closing
    <2>4. CASE PullBegin
      BY <2>1, <2>4 DEF PullBegin, CloseInv, Closing
    <2>5. CASE PullPop
      <3>1. /\ upc = "pull" /\ upc' = "pull" /\ bufSize' = bufSize
            /\ todo > 0 /\ todo' = todo - 1 /\ buf' = Tail(buf)
        BY <2>5 DEF PullPop
      <3>2. Closing => Len(buf') = Len(buf) - 1
        BY <1>0, <3>1 DEF CloseInv
      <3>3. Closing' = Closing
        BY <3>1 DEF Closing
      <3> QED
        BY <1>0, <2>1, <3>1, <3>2, <3>3 DEF CloseInv
    <2>6. CASE PullEnd
      BY <2>1, <2>6 DEF PullEnd, CloseInv, Closing
    <2>7. CASE Close \/ CloseFlag
      BY <2>1, <2>7 DEF Close, CloseFlag, CloseInv, Closing
    <2>8. CASE CloseJoinMonitor
      BY <2>1, <2>8 DEF CloseJoinMonitor, CloseInv, Closing
    <2>9. CASE CloseJoinReaders
      <3>1. \A k \in Parts : rpc[k] = "dead"
        <4>1. \A k \in Parts : k < NumThreads \/ k >= NumThreads
          BY <1>0, QueueAssumption DEF Parts, NumThreads
        <4> QED
          BY <2>9, <4>1 DEF CloseJoinReaders, Joined, BaseInv, ThreadInv
      <3> QED
        BY <2>1, <2>9, <3>1 DEF CloseJoinReaders, CloseInv, Closing
    <2> QED
      BY <1>4, <2>2, <2>3, <2>4, <2>5, <2>6, <2>7, <2>8, <2>9 DEF UserNext
  <1>5. CASE UNCHANGED vars
    BY <1>5 DEF vars, readerVars, monVars, userVars, CloseInv, Closing
  <1> QED
    BY <1>1, <1>2, <1>3, <1>4, <1>5 DEF Next

(* When pull_buffered_and_close returns, no reader is alive and everything *)
(* it ever popped was returned to its owner, unless Redis lost the reply.  *)
THEOREM CloseCorrect == Spec => []CloseDrains
  <1>1. Init => BaseInv /\ PoppedInv /\ CloseInv
    BY BaseInit, AccountInit, CloseInit
  <1>2. BaseInv /\ PoppedInv /\ CloseInv /\ [Next]_vars
            => BaseInv' /\ PoppedInv' /\ CloseInv'
    BY BaseStep, PoppedStep, CloseStep
  <1>3. BaseInv /\ PoppedInv /\ CloseInv => CloseDrains
    <2> SUFFICES ASSUME BaseInv, PoppedInv, CloseInv, upc = "closed",
                        NEW k \in Parts
                 PROVE  /\ rpc[k] = "dead"
                        /\ \A i \in 1 .. head[k] :
                              \/ [part |-> k, num |-> i] \in lost
                              \/ \E j \in 1 .. Len(delivered) :
                                    delivered[j] = [part |-> k, num |-> i]
      BY DEF CloseDrains
    <2>1. rpc[k] = "dead" /\ Len(buf) = 0
      BY DEF CloseInv, Closing
    <2>2. delivered \in Seq(Item) /\ buf \in Seq(Item) /\ head[k] \in Nat
      BY DEF BaseInv, TypeOK, RedisTypeOK, PullerTypeOK, UserTypeOK
    <2>3. Stream = delivered
      <3>1. buf = <<>>
        BY <2>1, <2>2, EmptySeq
      <3> QED
        BY <2>2, <3>1 DEF Stream
    <2>4. ASSUME NEW i \in 1 .. head[k]
          PROVE  \/ [part |-> k, num |-> i] \in lost
                 \/ \E j \in 1 .. Len(delivered) :
                       delivered[j] = [part |-> k, num |-> i]
      <3>1. Accounted(k, i) /\ ~ (i > head[k])
        BY <2>2 DEF PoppedInv
      <3> QED
        BY <2>1, <2>3, <3>1 DEF Accounted
    <2> QED
      BY <2>1, <2>4
  <1> QED
    BY <1>1, <1>2, <1>3, PTL DEF Spec

-----------------------------------------------------------------------------
(* The monitor and the readers.                                            *)

(* How many readers there are, in and outside of the monitor's scaling     *)
(* loop.                                                                   *)
ScaleInv ==
    /\ mpc = "top" => NumThreads = numParts
    /\ mpc \in {"scale", "join"} =>
          NumThreads = IF target > numParts THEN target - delta ELSE target + delta
    /\ mpc = "join" => target < numParts

(* The reader the monitor waits for.                                       *)
Leaving(k) == mpc = "join" /\ k = NumThreads - 1

(* Until the owner closes, every reader in the list runs, and is told to   *)
(* run, but the one the monitor is about to remove.                        *)
AliveInv ==
    /\ upc \notin {"idle", "pull"} \/ bufSize = 0 => monFlag = "off"
    /\ monFlag = "on" =>
          \A k \in Parts :
              k < NumThreads /\ ~ Leaving(k) => rpc[k] # "dead" /\ flags[k + 1] = "on"

(* What dropping the last element of a sequence leaves.                    *)
LEMMA DropLastElements ==
    ASSUME NEW S, NEW s \in Seq(S), Len(s) > 0
    PROVE  /\ Len(SubSeq(s, 1, Len(s) - 1)) = Len(s) - 1
           /\ \A i \in 1 .. (Len(s) - 1) : SubSeq(s, 1, Len(s) - 1)[i] = s[i]
  <1>1. \A i \in 1 .. (Len(s) - 1) : s[i] \in S
    BY ElementOfSeq
  <1>2. /\ Len(SubSeq(s, 1, Len(s) - 1))
              = IF 1 <= Len(s) - 1 THEN (Len(s) - 1) - 1 + 1 ELSE 0
        /\ \A i \in 1 .. ((Len(s) - 1) - 1 + 1) :
              SubSeq(s, 1, Len(s) - 1)[i] = s[1 + i - 1]
    BY <1>1, SubSeqProperties
  <1>3. ASSUME NEW i \in 1 .. (Len(s) - 1)
        PROVE  SubSeq(s, 1, Len(s) - 1)[i] = s[i]
    <2>1. i \in 1 .. ((Len(s) - 1) - 1 + 1) /\ 1 + i - 1 = i
      OBVIOUS
    <2> QED
      BY <1>2, <2>1
  <1>4. Len(SubSeq(s, 1, Len(s) - 1)) = Len(s) - 1
    <2> DEFINE n == Len(s)
    <2>1. n \in Nat /\ n > 0
      OBVIOUS
    <2> HIDE DEF n
    <2>2. (IF 1 <= n - 1 THEN (n - 1) - 1 + 1 ELSE 0) = n - 1
      BY <2>1
    <2> QED
      BY <1>2, <2>2 DEF n
  <1> QED
    BY <1>3, <1>4

(* The types these proofs need.                                            *)
LEMMA ReaderTypes ==
    ASSUME BaseInv
    PROVE  /\ flags \in Seq(Flag) /\ NumThreads \in Nat
           /\ rpc \in [Parts -> {"top", "pop", "append", "dead"}]
           /\ numParts \in 1 .. MaxPartitions /\ target \in 1 .. MaxPartitions
           /\ delta \in Nat /\ MaxPartitions \in Nat /\ Parts \subseteq Nat
           /\ mpc = "join" => delta > 0
           /\ mpc \in {"top", "scale", "join", "done"}
  BY QueueAssumption
     DEF BaseInv, TypeOK, PullerTypeOK, MonitorTypeOK, PullInv, NumThreads, Parts

(* The constructor starts one reader per partition.                        *)
LEMMA ScaleInit == Init => ScaleInv /\ AliveInv
  <1> SUFFICES ASSUME Init PROVE ScaleInv /\ AliveInv
    OBVIOUS
  <1>1. GetNumPartitions \in 1 .. MaxPartitions /\ Parts \subseteq Nat
    BY QueueAssumption DEF Init, GetNumPartitions, Parts
  <1>2. NumThreads = GetNumPartitions
    BY <1>1 DEF Init, NumThreads
  <1>3. ScaleInv
    BY <1>2 DEF Init, ScaleInv
  <1>4. ASSUME NEW k \in Parts, k < NumThreads
        PROVE  rpc[k] # "dead" /\ flags[k + 1] = "on"
    BY <1>1, <1>2, <1>4 DEF Init
  <1>5. upc = "idle" /\ bufSize = 1
    BY DEF Init
  <1> QED
    BY <1>3, <1>4, <1>5 DEF AliveInv

(* Only the monitor changes the number of readers, one at a time, in the   *)
(* direction of its target.                                                *)
LEMMA ScaleStep == BaseInv /\ ScaleInv /\ [Next]_vars => ScaleInv'
  <1> SUFFICES ASSUME BaseInv, ScaleInv, [Next]_vars PROVE ScaleInv'
    OBVIOUS
  <1>0. /\ flags \in Seq(Flag) /\ NumThreads \in Nat
        /\ numParts \in Nat /\ target \in Nat /\ delta \in Nat
        /\ mpc = "join" => delta > 0
    BY ReaderTypes
  <1>1. CASE UNCHANGED <<monVars, flags>>
    BY <1>1 DEF ScaleInv, monVars, NumThreads
  <1>2. ASSUME NEW p \in Pushers, PusherNext(p) PROVE UNCHANGED <<monVars, flags>>
    BY <1>2 DEF PusherNext, CreateTopic, CacheExpires, Push, RPush, RPushRaises
  <1>3. ASSUME NEW k \in Parts, ReaderNext(k) PROVE UNCHANGED <<monVars, flags>>
    BY <1>3 DEF ReaderNext, ReaderExit, ReaderCheck, ReaderPop, ReaderTimeout,
                ReaderPopRaises, ReaderAppend
  <1>4. CASE MonitorNext
    <2>1. CASE MonitorRead
      <3>1. GetNumPartitions \in Nat
        BY NumPartitionsType, QueueAssumption DEF BaseInv, TypeOK
      <3>2. /\ mpc = "top" /\ mpc' = "scale" /\ numParts' = numParts
            /\ target' = GetNumPartitions /\ NumThreads' = NumThreads
            /\ delta' = IF GetNumPartitions > numParts
                        THEN GetNumPartitions - numParts
                        ELSE numParts - GetNumPartitions
        BY <2>1 DEF MonitorRead, NumThreads
      <3> QED
        BY <1>0, <3>1, <3>2 DEF ScaleInv
    <2>2. CASE AddReaderThread
      <3>1. NumThreads' = NumThreads + 1
        BY <1>0, <2>2, AppendProperties DEF AddReaderThread, NumThreads, Flag
      <3> QED
        BY <1>0, <2>2, <3>1 DEF AddReaderThread, ScaleInv
    <2>3. CASE RemoveReaderFlag
      <3>1. NumThreads' = NumThreads
        BY <1>0, <2>3, Overwrite DEF RemoveReaderFlag, NumThreads, Flag
      <3> QED
        BY <1>0, <2>3, <3>1 DEF RemoveReaderFlag, ScaleInv
    <2>4. CASE RemoveReaderJoin
      <3>1. NumThreads' = NumThreads - 1
        <4>1. NumThreads > 0 /\ flags' = SubSeq(flags, 1, NumThreads - 1)
          BY <1>0, <2>4 DEF RemoveReaderJoin, ScaleInv
        <4> QED
          BY <1>0, <4>1, DropLastElements DEF NumThreads
      <3> QED
        BY <1>0, <2>4, <3>1 DEF RemoveReaderJoin, ScaleInv
    <2>5. CASE MonitorExit \/ MonitorScaled
      BY <1>0, <2>5 DEF MonitorExit, MonitorScaled, ScaleInv, NumThreads
    <2> QED
      BY <1>4, <2>1, <2>2, <2>3, <2>4, <2>5 DEF MonitorNext
  <1>5. CASE UserNext
    <2>1. UNCHANGED monVars
      BY <1>5 DEF UserNext, SetNumPartitions, SetBufSize, PullBegin, PullPop,
                  PullEnd, Close, CloseFlag, CloseJoinMonitor, CloseJoinReaders
    <2>2. NumThreads' = NumThreads
      <3>1. flags' = flags \/ flags' = [flags EXCEPT ![pos] = "off"]
        BY <1>5 DEF UserNext, SetNumPartitions, SetBufSize, PullBegin, PullPop,
                    PullEnd, Close, CloseFlag, CloseJoinMonitor,
                    CloseJoinReaders, ResetFlag
      <3> QED
        BY <1>0, <3>1, Overwrite DEF Flag, NumThreads
    <2> QED
      BY <2>1, <2>2 DEF ScaleInv, monVars
  <1> QED
    BY <1>1, <1>2, <1>3, <1>4, <1>5 DEF Next, vars

(* A reader whose flag is set stays, and only a closing owner or the       *)
(* monitor that removes it resets a flag.                                  *)
LEMMA AliveStep == BaseInv /\ ScaleInv /\ AliveInv /\ [Next]_vars => AliveInv'
  <1> SUFFICES ASSUME BaseInv, ScaleInv, AliveInv, [Next]_vars PROVE AliveInv'
    OBVIOUS
  <1>0. /\ flags \in Seq(Flag) /\ NumThreads \in Nat
        /\ rpc \in [Parts -> {"top", "pop", "append", "dead"}]
        /\ numParts \in Nat /\ target \in 1 .. MaxPartitions
        /\ delta \in Nat /\ Parts \subseteq Nat
        /\ mpc = "join" => delta > 0
    BY ReaderTypes
  <1>1. CASE UNCHANGED <<upc, mpc, rpc, flags, monFlag, bufSize>>
    BY <1>1 DEF AliveInv, Leaving, NumThreads
  <1>2. ASSUME NEW p \in Pushers, PusherNext(p)
        PROVE  UNCHANGED <<upc, mpc, rpc, flags, monFlag, bufSize>>
    BY <1>2 DEF PusherNext, CreateTopic, CacheExpires, Push, RPush, RPushRaises,
                userVars, monVars, readerVars
  <1>3. ASSUME NEW k \in Parts, ReaderNext(k) PROVE AliveInv'
    <2>1. UNCHANGED <<upc, mpc, flags, monFlag, bufSize>>
      BY <1>3 DEF ReaderNext, ReaderExit, ReaderCheck, ReaderPop, ReaderTimeout,
                  ReaderPopRaises, ReaderAppend, userVars, monVars
    <2>2. \/ \E v \in {"top", "pop", "append"} : rpc' = [rpc EXCEPT ![k] = v]
          \/ ~ Alive(k) /\ rpc' = [rpc EXCEPT ![k] = "dead"]
      BY <1>3 DEF ReaderNext, ReaderExit, ReaderCheck, ReaderPop, ReaderTimeout,
                  ReaderPopRaises, ReaderAppend, EmptyContinues
    <2>3. ASSUME monFlag = "on", NEW h \in Parts, h < NumThreads, ~ Leaving(h)
          PROVE  rpc'[h] # "dead" /\ flags[h + 1] = "on"
      <3>1. rpc[h] # "dead" /\ flags[h + 1] = "on"
        BY <2>3 DEF AliveInv
      <3>2. Alive(h)
        BY <2>3, <3>1 DEF Alive
      <3> QED
        BY <1>0, <2>2, <3>1, <3>2
    <2> QED
      BY <2>1, <2>3 DEF AliveInv, Leaving, NumThreads
  <1>4. CASE MonitorNext
    <2>0. UNCHANGED <<upc, monFlag, bufSize>>
      BY <1>4 DEF MonitorNext, MonitorExit, MonitorRead, AddReaderThread,
                  RemoveReaderFlag, RemoveReaderJoin, MonitorScaled, userVars
    <2>1. CASE AddReaderThread
      <3>1. /\ mpc = "scale" /\ mpc' = "scale"
            /\ flags' = Append(flags, "on")
            /\ rpc' = [rpc EXCEPT ![NumThreads] = "top"]
        BY <2>1 DEF AddReaderThread, Started
      <3>2. /\ NumThreads' = NumThreads + 1
            /\ \A i \in 1 .. NumThreads : flags'[i] = flags[i]
            /\ flags'[NumThreads + 1] = "on"
        BY <1>0, <3>1, AppendProperties DEF NumThreads, Flag
      <3>3. ASSUME monFlag = "on", NEW h \in Parts, h < NumThreads + 1
            PROVE  rpc'[h] # "dead" /\ flags'[h + 1] = "on"
        <4>1. CASE h = NumThreads
          BY <1>0, <3>1, <3>2, <4>1
        <4>2. CASE h < NumThreads
          <5>1. rpc[h] # "dead" /\ flags[h + 1] = "on" /\ h + 1 \in 1 .. NumThreads
            BY <1>0, <3>1, <3>3, <4>2 DEF AliveInv, Leaving
          <5> QED
            BY <1>0, <3>1, <3>2, <4>2, <5>1
        <4> QED
          BY <1>0, <3>3, <4>1, <4>2
      <3> QED
        BY <2>0, <3>2, <3>3 DEF AliveInv
    <2>2. CASE RemoveReaderFlag
      <3>1. /\ mpc' = "join" /\ rpc' = rpc /\ mpc = "scale"
            /\ flags' = [flags EXCEPT ![NumThreads] = "off"]
        BY <2>2 DEF RemoveReaderFlag, readerVars
      <3>2. /\ NumThreads' = NumThreads
            /\ \A i \in 1 .. NumThreads : i # NumThreads => flags'[i] = flags[i]
        BY <1>0, <3>1, Overwrite DEF NumThreads, Flag
      <3>3. ASSUME monFlag = "on", NEW h \in Parts, h < NumThreads, h # NumThreads - 1
            PROVE  rpc'[h] # "dead" /\ flags'[h + 1] = "on"
        <4>1. h + 1 \in 1 .. NumThreads /\ h + 1 # NumThreads
          BY <1>0, <3>3
        <4>2. rpc[h] # "dead" /\ flags[h + 1] = "on"
          BY <3>1, <3>3 DEF AliveInv, Leaving
        <4> QED
          BY <3>1, <3>2, <4>1, <4>2
      <3> QED
        BY <2>0, <3>1, <3>2, <3>3 DEF AliveInv, Leaving
    <2>3. CASE RemoveReaderJoin
      <3>0. NumThreads > 0
        BY <1>0, <2>3 DEF RemoveReaderJoin, ScaleInv
      <3>1. /\ mpc = "join" /\ rpc' = rpc /\ mpc' = "scale"
            /\ flags' = SubSeq(flags, 1, NumThreads - 1)
        BY <2>3 DEF RemoveReaderJoin, readerVars
      <3>2. /\ NumThreads' = NumThreads - 1
            /\ \A i \in 1 .. (NumThreads - 1) : flags'[i] = flags[i]
        BY <1>0, <3>0, <3>1, DropLastElements DEF NumThreads
      <3>3. ASSUME monFlag = "on", NEW h \in Parts, h < NumThreads - 1
            PROVE  rpc'[h] # "dead" /\ flags'[h + 1] = "on"
        <4>1. h + 1 \in 1 .. (NumThreads - 1) /\ h < NumThreads
          BY <1>0, <3>0, <3>3
        <4>2. rpc[h] # "dead" /\ flags[h + 1] = "on"
          BY <1>0, <3>3, <4>1 DEF AliveInv, Leaving
        <4> QED
          BY <3>1, <3>2, <4>1, <4>2
      <3> QED
        BY <2>0, <3>2, <3>3 DEF AliveInv
    <2>4. CASE MonitorExit \/ MonitorRead \/ MonitorScaled
      <3>1. UNCHANGED <<rpc, flags>> /\ mpc # "join"
        BY <2>4 DEF MonitorExit, MonitorRead, MonitorScaled, readerVars
      <3> QED
        BY <2>0, <3>1 DEF AliveInv, Leaving, NumThreads
    <2> QED
      BY <1>4, <2>1, <2>2, <2>3, <2>4 DEF MonitorNext
  <1>5. CASE UserNext
    <2>0. UNCHANGED <<mpc, rpc>>
      BY <1>5 DEF UserNext, SetNumPartitions, SetBufSize, PullBegin, PullPop,
                  PullEnd, Close, CloseFlag, CloseJoinMonitor, CloseJoinReaders,
                  monVars, readerVars
    <2>1. CASE Close
      BY <2>1 DEF Close, AliveInv
    <2>2. CASE CloseFlag \/ CloseJoinMonitor \/ CloseJoinReaders
      <3>1. monFlag' = "off"
        BY <2>2 DEF CloseFlag, CloseJoinMonitor, CloseJoinReaders, AliveInv
      <3> QED
        BY <3>1 DEF AliveInv
    <2>3. CASE PullEnd
      <3>1. upc = "pull" /\ upc' = (IF bufSize = 0 THEN "closed" ELSE "idle")
            /\ UNCHANGED <<flags, monFlag, bufSize>>
        BY <2>3 DEF PullEnd
      <3> QED
        BY <2>0, <3>1 DEF AliveInv, Leaving, NumThreads
    <2>4. CASE \/ \E n \in 1 .. MaxPartitions : SetNumPartitions(n)
               \/ \E n \in 1 .. MaxBufSize : SetBufSize(n)
               \/ PullBegin \/ PullPop
      <3>1. /\ UNCHANGED <<flags, monFlag>>
            /\ upc' = upc \/ (upc = "idle" /\ upc' = "pull")
            /\ bufSize' = 0 => bufSize = 0
        BY <2>4 DEF SetNumPartitions, SetBufSize, PullBegin, PullPop, userVars
      <3> QED
        BY <2>0, <3>1 DEF AliveInv, Leaving, NumThreads
    <2> QED
      BY <1>5, <2>1, <2>2, <2>3, <2>4 DEF UserNext
  <1> QED
    BY <1>1, <1>2, <1>3, <1>4, <1>5 DEF Next, vars, userVars, monVars, readerVars

(* Outside of a rescaling, and until the owner closes, there is exactly    *)
(* one live reader for each partition the puller knows of, whatever the    *)
(* number of rescalings before (_add_reader_thread, _remove_read_thread).  *)
THEOREM ReadersCorrect == Spec => []OneReaderPerPartition
  <1>1. Init => BaseInv /\ ScaleInv /\ AliveInv
    BY BaseInit, ScaleInit
  <1>2. BaseInv /\ ScaleInv /\ AliveInv /\ [Next]_vars
            => BaseInv' /\ ScaleInv' /\ AliveInv'
    BY BaseStep, ScaleStep, AliveStep
  <1>3. BaseInv /\ ScaleInv /\ AliveInv => OneReaderPerPartition
    <2> SUFFICES ASSUME BaseInv, ScaleInv, AliveInv, mpc = "top", monFlag = "on",
                        NEW k \in Parts
                 PROVE  rpc[k] # "dead" <=> k < numParts
      BY DEF OneReaderPerPartition
    <2>1. NumThreads = numParts /\ numParts \in Nat /\ k \in Nat
      BY ReaderTypes DEF ScaleInv
    <2>2. k < NumThreads => rpc[k] # "dead"
      BY DEF AliveInv, Leaving
    <2>3. k >= NumThreads => rpc[k] = "dead"
      BY DEF BaseInv, ThreadInv
    <2> QED
      BY <2>1, <2>2, <2>3
  <1> QED
    BY <1>1, <1>2, <1>3, PTL DEF Spec

-----------------------------------------------------------------------------
(* The size of the buffer.                                                 *)

(* The readers between their test of the buffer's length and the append.   *)
Flying == {k \in Parts : InFlight(k)}

(* There are finitely many partitions.                                     *)
LEMMA PartsBound ==
    ASSUME NEW F \in SUBSET Parts
    PROVE  /\ IsFiniteSet(F)
           /\ Cardinality(F) \in Nat
           /\ Cardinality(F) <= MaxPartitions
  <1>1. IsFiniteSet(Parts) /\ Cardinality(Parts) = MaxPartitions
    BY QueueAssumption, FS_Interval DEF Parts
  <1> QED
    BY <1>1, FS_Subset, FS_CardinalityType

(* What is in the buffer or on its way to it grows only by a reader that   *)
(* found room for one more.                                                *)
LEMMA OverrunStep ==
    ASSUME BaseInv, BufOverrunBounded, [Next]_vars
    PROVE  BufOverrunBounded'
  <1> DEFINE c == Cardinality(Flying)
  <1>0. /\ buf \in Seq(Item) /\ Len(buf) \in Nat
        /\ bufSize \in 0 .. MaxBufSize
        /\ MaxBufSize \in Nat \ {0} /\ MaxPartitions \in Nat \ {0}
        /\ rpc \in [Parts -> {"top", "pop", "append", "dead"}]
        /\ head \in [Parts -> Nat]
    BY QueueAssumption DEF BaseInv, TypeOK, PullerTypeOK, RedisTypeOK
  <1>1. IsFiniteSet(Flying) /\ c \in Nat
    BY PartsBound DEF Flying
  <1>2. c' \in Nat /\ c' <= MaxPartitions
    <2>1. Flying' \in SUBSET Parts
      BY DEF Flying
    <2> QED
      BY <2>1, PartsBound
  <1>3. Len(buf) + c <= MaxBufSize - 1 + MaxPartitions
    BY DEF BufOverrunBounded, Flying
  <1>4. SUFFICES Len(buf') + c' <= MaxBufSize - 1 + MaxPartitions
    BY DEF BufOverrunBounded, Flying
  <1>5. ASSUME Len(buf') \in Nat, Len(buf') <= Len(buf),
               \A k \in Parts : InFlight(k)' => InFlight(k)
        PROVE  Len(buf') + c' <= MaxBufSize - 1 + MaxPartitions
    <2>1. Flying' \in SUBSET Flying
      BY <1>5 DEF Flying
    <2>2. c' <= c
      BY <1>1, <2>1, FS_Subset
    <2> HIDE DEF c
    <2> QED
      BY <1>0, <1>1, <1>2, <1>3, <1>5, <2>2
  <1>6. ASSUME NEW p \in Pushers, PusherNext(p) PROVE UNCHANGED <<buf, rpc>>
    BY <1>6 DEF PusherNext, CreateTopic, CacheExpires, Push, RPush, RPushRaises,
                readerVars
  <1>7. ASSUME NEW k \in Parts, ReaderNext(k)
        PROVE  Len(buf') + c' <= MaxBufSize - 1 + MaxPartitions
    <2>1. CASE ReaderCheck(k)
      <3>1. Len(buf') < MaxBufSize /\ Len(buf') \in Nat
        BY <1>0, <2>1 DEF ReaderCheck, BufFull
      <3> HIDE DEF c
      <3> QED
        BY <1>0, <1>2, <3>1
    <2>2. CASE ReaderAppend(k)
      <3>1. Len(buf') = Len(buf) + 1
        BY <1>0, <2>2, AppendProperties DEF ReaderAppend, Buffered, Item
      <3>2. Flying' = Flying \ {k} /\ k \in Flying
        BY <1>0, <2>2 DEF ReaderAppend, Flying, InFlight
      <3>3. c' = c - 1
        BY <1>1, <3>2, FS_RemoveElement
      <3> HIDE DEF c
      <3> QED
        BY <1>0, <1>1, <1>3, <3>1, <3>3
    <2>3. CASE ReaderExit(k) \/ ReaderPop(k) \/ ReaderTimeout(k) \/ ReaderPopRaises(k)
      <3>1. buf' = buf
        BY <2>3 DEF ReaderExit, ReaderPop, ReaderTimeout, ReaderPopRaises
      <3>2. \/ \E v \in {"top", "dead"} : rpc' = [rpc EXCEPT ![k] = v]
            \/ rpc[k] = "pop" /\ rpc' = [rpc EXCEPT ![k] = "append"]
        BY <2>3 DEF ReaderExit, ReaderPop, ReaderTimeout, ReaderPopRaises,
                    EmptyContinues
      <3>3. \A h \in Parts : InFlight(h)' => InFlight(h)
        BY <1>0, <3>2 DEF InFlight
      <3> QED
        BY <1>0, <1>5, <3>1, <3>3
    <2> QED
      BY <1>7, <2>1, <2>2, <2>3 DEF ReaderNext
  <1>8. CASE MonitorNext
    <2>1. buf' = buf /\ (rpc' = rpc \/ rpc' = [rpc EXCEPT ![NumThreads] = "top"])
      BY <1>8 DEF MonitorNext, MonitorExit, MonitorRead, AddReaderThread,
                  RemoveReaderFlag, RemoveReaderJoin, MonitorScaled, readerVars,
                  Started
    <2>2. \A h \in Parts : InFlight(h)' => InFlight(h)
      BY <1>0, <2>1 DEF InFlight
    <2> QED
      BY <1>0, <1>5, <2>1, <2>2
  <1>9. CASE UserNext
    <2>1. rpc' = rpc
      BY <1>9 DEF UserNext, SetNumPartitions, SetBufSize, PullBegin, PullPop,
                  PullEnd, Close, CloseFlag, CloseJoinMonitor, CloseJoinReaders,
                  readerVars
    <2>2. Len(buf') \in Nat /\ Len(buf') <= Len(buf)
      <3>1. CASE PullPop
        <4>1. buf # <<>> /\ buf' = Tail(buf)
          BY <1>0, <3>1 DEF PullPop, BaseInv, TypeOK, UserTypeOK, PullInv
        <4> QED
          BY <1>0, <4>1, HeadTailProperties
      <3>2. CASE buf' = buf
        BY <1>0, <3>2
      <3> QED
        BY <1>9, <3>1, <3>2
           DEF UserNext, SetNumPartitions, SetBufSize, PullBegin, PullEnd,
               Close, CloseFlag, CloseJoinMonitor, CloseJoinReaders
    <2>3. \A h \in Parts : InFlight(h)' => InFlight(h)
      BY <2>1 DEF InFlight
    <2> QED
      BY <1>5, <2>2, <2>3
  <1>10. CASE UNCHANGED <<buf, rpc>>
    <2>1. \A h \in Parts : InFlight(h)' => InFlight(h)
      BY <1>10 DEF InFlight
    <2> QED
      BY <1>0, <1>5, <1>10, <2>1
  <1> QED
    BY <1>6, <1>7, <1>8, <1>9, <1>10 DEF Next, vars, readerVars

(* However many readers share the buffer and however its size is changed   *)
(* meanwhile, it never holds more than the largest size and one element    *)
(* for every partition but one (_reader_thread_fn, set_buf_size).          *)
THEOREM OverrunBounded == Spec => []BufOverrunBounded
  <1>1. Init => BaseInv /\ BufOverrunBounded
    <2> SUFFICES ASSUME Init PROVE BufOverrunBounded
      BY BaseInit
    <2>1. Flying = {} /\ buf = <<>>
      BY DEF Init, Flying, InFlight
    <2>2. Cardinality(Flying) = 0
      BY <2>1, FS_EmptySet
    <2> QED
      BY <2>1, <2>2, QueueAssumption DEF BufOverrunBounded, Flying
  <1>2. BaseInv /\ BufOverrunBounded /\ [Next]_vars => BaseInv' /\ BufOverrunBounded'
    BY BaseStep, OverrunStep
  <1> QED
    BY <1>1, <1>2, PTL DEF Spec

-----------------------------------------------------------------------------
(* Nothing is handed over twice.                                           *)

(* The positions in the stream and in the readers' hands are positions of  *)
(* the partitions' logs.                                                   *)
PositionInv ==
    /\ \A k \in Parts : head[k] <= Len(log[k])
    /\ \A k \in Parts : rpc[k] = "append" => head[k] > 0
    /\ \A j \in 1 .. Len(Stream) : Stream[j].num > 0

(* Partitions only grow, and what is in them stays.                        *)
LEMMA LogStep ==
    ASSUME BaseInv, [Next]_vars, NEW k \in Parts
    PROVE  /\ Len(log[k]) \in Nat /\ Len(log'[k]) \in Nat
           /\ Len(log[k]) <= Len(log'[k])
           /\ \A i \in 1 .. Len(log[k]) : log'[k][i] = log[k][i]
  <1>0. /\ log \in [Parts -> Seq(Msg)]
        /\ sending \in [Pushers -> {NoSend} \cup [k : Parts, msg : Msg]]
    BY DEF BaseInv, TypeOK, RedisTypeOK, PusherTypeOK
  <1>1. ASSUME NEW p \in Pushers, RPush(p) \/ RPushRaises(p)
        PROVE  \E h \in Parts, m \in Msg : log' = [log EXCEPT ![h] = Append(@, m)]
    BY <1>0, <1>1 DEF RPush, RPushRaises
  <1>2. CASE \E h \in Parts, m \in Msg : log' = [log EXCEPT ![h] = Append(@, m)]
    BY <1>0, <1>2
  <1>3. CASE log' = log
    BY <1>0, <1>3
  <1>4. ASSUME NEW h \in Parts, ReaderNext(h) PROVE log' = log
    BY <1>4 DEF ReaderNext, ReaderExit, ReaderCheck, ReaderPop, ReaderTimeout,
                ReaderPopRaises, ReaderAppend, redisVars
  <1>5. ASSUME MonitorNext PROVE log' = log
    BY <1>5 DEF MonitorNext, MonitorExit, MonitorRead, AddReaderThread,
                RemoveReaderFlag, RemoveReaderJoin, MonitorScaled, redisVars
  <1>6. ASSUME UserNext PROVE log' = log
    BY <1>6 DEF UserNext, SetNumPartitions, SetBufSize, PullBegin, PullPop,
                PullEnd, Close, CloseFlag, CloseJoinMonitor, CloseJoinReaders,
                redisVars
  <1>7. ASSUME NEW p \in Pushers,
               \/ \E n \in 1 .. MaxPartitions : CreateTopic(p, n)
               \/ CacheExpires(p)
               \/ \E m \in Msg : Push(p, m)
        PROVE  log' = log
    BY <1>7 DEF CreateTopic, CacheExpires, Push, redisVars
  <1> QED
    BY <1>1, <1>2, <1>3, <1>4, <1>5, <1>6, <1>7
       DEF Next, PusherNext, vars, redisVars

(* BLPOP removes only what is there, and numbers start at one.             *)
LEMMA PositionStep == BaseInv /\ PositionInv /\ [Next]_vars => PositionInv'
  <1> SUFFICES ASSUME BaseInv, PositionInv, [Next]_vars PROVE PositionInv'
    OBVIOUS
  <1>0. /\ Stream \in Seq(Item) /\ Len(Stream) \in Nat
        /\ head \in [Parts -> Nat]
        /\ rpc \in [Parts -> {"top", "pop", "append", "dead"}]
        /\ delivered \in Seq(Item) /\ buf \in Seq(Item)
    BY StreamType DEF BaseInv, TypeOK, RedisTypeOK, PullerTypeOK, UserTypeOK
  <1>1. \A k \in Parts : /\ Len(log[k]) \in Nat /\ Len(log'[k]) \in Nat
                         /\ Len(log[k]) <= Len(log'[k])
    BY LogStep
  <1>2. CASE Quiet
    <2>1. Stream' = Stream /\ head' = head
      BY <1>2 DEF Quiet
    <2>2. ASSUME NEW j \in 1 .. Len(Stream') PROVE Stream'[j].num > 0
      BY <2>1 DEF PositionInv
    <2>3. ASSUME NEW h \in Parts
          PROVE  head'[h] <= Len(log'[h]) /\ (rpc'[h] = "append" => head'[h] > 0)
      <3>1. head[h] \in Nat /\ head[h] <= Len(log[h])
        BY <1>0 DEF PositionInv
      <3>2. rpc'[h] = "append" => head[h] > 0
        BY <1>2 DEF Quiet, PositionInv
      <3> QED
        BY <1>1, <2>1, <3>1, <3>2
    <2> QED
      BY <2>2, <2>3 DEF PositionInv
  <1>3. ASSUME NEW k \in Parts, ReaderPop(k) \/ ReaderPopRaises(k)
        PROVE  PositionInv'
    <2>1. /\ head[k] < Len(log[k])
          /\ head' = [head EXCEPT ![k] = @ + 1]
          /\ \E v \in {"append", "top"} : rpc' = [rpc EXCEPT ![k] = v]
      BY <1>3 DEF ReaderPop, ReaderPopRaises, NonEmpty
    <2>2. Stream' = Stream
      BY <1>3 DEF ReaderPop, ReaderPopRaises, Stream, userVars
    <2>3. ASSUME NEW j \in 1 .. Len(Stream') PROVE Stream'[j].num > 0
      BY <2>2 DEF PositionInv
    <2>4. ASSUME NEW h \in Parts
          PROVE  head'[h] <= Len(log'[h]) /\ (rpc'[h] = "append" => head'[h] > 0)
      <3>1. head[h] \in Nat /\ head[h] <= Len(log[h]) /\ Len(log[h]) <= Len(log'[h])
        BY <1>0, <1>1 DEF PositionInv
      <3>2. CASE h = k
        <4>1. head'[h] = head[h] + 1
          BY <1>0, <2>1, <3>2
        <4> QED
          BY <1>1, <2>1, <3>1, <3>2, <4>1
      <3>3. CASE h # k
        <4>1. head'[h] = head[h] /\ rpc'[h] = rpc[h]
          BY <1>0, <2>1, <3>3
        <4>2. rpc[h] = "append" => head[h] > 0
          BY DEF PositionInv
        <4> QED
          BY <1>1, <3>1, <4>1, <4>2
      <3> QED
        BY <3>2, <3>3
    <2> QED
      BY <2>3, <2>4 DEF PositionInv
  <1>4. ASSUME NEW k \in Parts, ReaderAppend(k)
        PROVE  PositionInv'
    <2> DEFINE e == [part |-> k, num |-> head[k]]
    <2>0. e \in Item /\ e.num = head[k]
      BY <1>0 DEF Item
    <2>1. /\ rpc[k] = "append" /\ rpc' = [rpc EXCEPT ![k] = "top"]
          /\ head' = head
          /\ Stream' = delivered \o Append(buf, e)
      BY <1>4 DEF ReaderAppend, Buffered, Stream, redisVars, userVars
    <2> HIDE DEF e
    <2>2. /\ Len(Stream') = Len(Stream) + 1
          /\ \A i \in 1 .. Len(Stream) : Stream'[i] = Stream[i]
          /\ Stream'[Len(Stream) + 1] = e
      BY <1>0, <2>0, <2>1, StreamGrows DEF Stream
    <2>3. ASSUME NEW j \in 1 .. Len(Stream') PROVE Stream'[j].num > 0
      <3>1. CASE j \in 1 .. Len(Stream)
        BY <2>2, <3>1 DEF PositionInv
      <3>2. CASE j = Len(Stream) + 1
        BY <2>0, <2>1, <2>2, <3>2 DEF PositionInv
      <3> QED
        BY <1>0, <2>2, <3>1, <3>2
    <2>4. ASSUME NEW h \in Parts
          PROVE  head'[h] <= Len(log'[h]) /\ (rpc'[h] = "append" => head'[h] > 0)
      <3>1. head[h] \in Nat /\ head[h] <= Len(log[h])
        BY <1>0 DEF PositionInv
      <3>2. rpc'[h] = "append" => rpc[h] = "append"
        BY <1>0, <2>1
      <3> QED
        BY <1>1, <2>1, <3>1, <3>2 DEF PositionInv
    <2> QED
      BY <2>3, <2>4 DEF PositionInv
  <1> QED
    BY <1>2, <1>3, <1>4, StepKinds

(* Without faults the messages in the partitions are pairwise different,   *)
(* and none of them is being sent.                                         *)
DistinctInv ==
    faults = 0 =>
        /\ \A j, k \in Parts : \A a \in 1 .. Len(log[j]) : \A b \in 1 .. Len(log[k]) :
              log[j][a] = log[k][b] => j = k /\ a = b
        /\ \A k \in Parts : \A a \in 1 .. Len(log[k]) : log[k][a] \in sent
        /\ \A p \in Pushers : sending[p] # NoSend =>
              /\ sending[p].msg \in sent
              /\ \A k \in Parts : \A a \in 1 .. Len(log[k]) : log[k][a] # sending[p].msg
        /\ \A p, q \in Pushers :
              p # q /\ sending[p] # NoSend /\ sending[q] # NoSend
                  => sending[p].msg # sending[q].msg

(* What a step without a fault does to the messages: a call of push, its   *)
(* RPUSH, or nothing.                                                      *)
LEMMA PushKinds ==
    ASSUME BaseInv, [Next]_vars, faults' = 0
    PROVE  /\ faults = 0
           /\ \/ \E p \in Pushers, m \in Msg : Push(p, m)
              \/ \E p \in Pushers : RPush(p)
              \/ UNCHANGED <<log, sending, sent>>
  <1>0. faults \in Nat
    BY QueueAssumption DEF BaseInv, TypeOK, UserTypeOK
  <1>1. ASSUME NEW p \in Pushers, PusherNext(p)
        PROVE  /\ faults = 0
               /\ (\E m \in Msg : Push(p, m)) \/ RPush(p) \/ UNCHANGED <<log, sending, sent>>
    BY <1>0, <1>1 DEF PusherNext, CreateTopic, CacheExpires, Push, RPush, RPushRaises,
                      redisVars
  <1>2. ASSUME NEW k \in Parts, ReaderNext(k)
        PROVE  faults = 0 /\ UNCHANGED <<log, sending, sent>>
    BY <1>0, <1>2 DEF ReaderNext, ReaderExit, ReaderCheck, ReaderPop, ReaderTimeout,
                      ReaderPopRaises, ReaderAppend, redisVars, pusherVars
  <1>3. ASSUME MonitorNext PROVE faults = 0 /\ UNCHANGED <<log, sending, sent>>
    BY <1>3 DEF MonitorNext, MonitorExit, MonitorRead, AddReaderThread,
                RemoveReaderFlag, RemoveReaderJoin, MonitorScaled, redisVars,
                pusherVars
  <1>4. ASSUME UserNext PROVE faults = 0 /\ UNCHANGED <<log, sending, sent>>
    BY <1>4 DEF UserNext, SetNumPartitions, SetBufSize, PullBegin, PullPop,
                PullEnd, Close, CloseFlag, CloseJoinMonitor, CloseJoinReaders,
                redisVars, pusherVars
  <1>5. CASE UNCHANGED vars
    BY <1>5 DEF vars, redisVars, pusherVars
  <1> QED
    BY <1>1, <1>2, <1>3, <1>4, <1>5 DEF Next

(* push is called with new messages, and sends each of them once.          *)
LEMMA DistinctStep == BaseInv /\ DistinctInv /\ [Next]_vars => DistinctInv'
  <1> SUFFICES ASSUME BaseInv, DistinctInv, [Next]_vars, faults' = 0 PROVE DistinctInv'
    BY DEF DistinctInv
  <1>0. /\ log \in [Parts -> Seq(Msg)]
        /\ sending \in [Pushers -> {NoSend} \cup [k : Parts, msg : Msg]]
        /\ faults = 0
    BY PushKinds DEF BaseInv, TypeOK, RedisTypeOK, PusherTypeOK
  <1>1. CASE UNCHANGED <<log, sending, sent>>
    BY <1>0, <1>1 DEF DistinctInv
  <1>2. ASSUME NEW p \in Pushers, NEW m \in Msg, Push(p, m) PROVE DistinctInv'
    <2>1. PICK k : /\ sending' = [sending EXCEPT ![p] = [k |-> k, msg |-> m]]
                   /\ log' = log /\ m \notin sent /\ sent' = sent \cup {m}
      <3>1. sending' = [sending EXCEPT ![p] =
                [k |-> IF fresh[p] THEN idx[p] ELSE 0, msg |-> m]]
        BY <1>2, Zenon DEF Push
      <3> QED
        BY <1>2, <3>1 DEF Push, redisVars
    <2>2. /\ sending'[p].msg = m
          /\ \A q \in Pushers : q # p => sending'[q] = sending[q]
      BY <1>0, <2>1
    <2>3. \A j \in Parts : \A a \in 1 .. Len(log[j]) : log[j][a] \in sent
      BY <1>0 DEF DistinctInv
    <2>4. ASSUME NEW q \in Pushers, sending'[q] # NoSend
          PROVE  /\ sending'[q].msg \in sent'
                 /\ \A j \in Parts : \A a \in 1 .. Len(log[j]) :
                       log[j][a] # sending'[q].msg
      <3>1. CASE q = p
        BY <2>1, <2>2, <2>3, <3>1
      <3>2. CASE q # p
        BY <1>0, <2>1, <2>2, <2>4, <3>2 DEF DistinctInv
      <3> QED
        BY <3>1, <3>2
    <2>5. ASSUME NEW q \in Pushers, NEW r \in Pushers, q # r,
                 sending'[q] # NoSend, sending'[r] # NoSend
          PROVE  sending'[q].msg # sending'[r].msg
      <3>1. CASE q # p /\ r # p
        BY <1>0, <2>2, <2>5, <3>1 DEF DistinctInv
      <3>2. CASE q = p
        <4>1. sending[r] # NoSend /\ sending'[r] = sending[r]
          BY <2>2, <2>5, <3>2
        <4>2. sending[r].msg \in sent
          BY <1>0, <4>1 DEF DistinctInv
        <4> QED
          BY <2>1, <2>2, <3>2, <4>1, <4>2
      <3>3. CASE r = p
        <4>1. sending[q] # NoSend /\ sending'[q] = sending[q]
          BY <2>2, <2>5, <3>3
        <4>2. sending[q].msg \in sent
          BY <1>0, <4>1 DEF DistinctInv
        <4> QED
          BY <2>1, <2>2, <3>3, <4>1, <4>2
      <3> QED
        BY <3>1, <3>2, <3>3
    <2> QED
      BY <1>0, <2>1, <2>3, <2>4, <2>5 DEF DistinctInv
  <1>3. ASSUME NEW p \in Pushers, RPush(p) PROVE DistinctInv'
    <2> DEFINE k == sending[p].k
               m == sending[p].msg
    <2>1. k \in Parts /\ m \in Msg /\ sending[p] # NoSend
      BY <1>0, <1>3 DEF RPush
    <2>2. /\ log' = [log EXCEPT ![k] = Append(@, m)]
          /\ sending' = [sending EXCEPT ![p] = NoSend]
          /\ sent' = sent
      BY <1>3 DEF RPush, SendingAfter
    <2>3. /\ m \in sent
          /\ \A j \in Parts : \A a \in 1 .. Len(log[j]) : log[j][a] # m
          /\ \A q \in Pushers : q # p /\ sending[q] # NoSend => sending[q].msg # m
      BY <1>0, <2>1 DEF DistinctInv
    <2> HIDE DEF k, m
    <2>4. /\ \A j \in Parts : Len(log[j]) \in Nat
          /\ Len(log'[k]) = Len(log[k]) + 1
          /\ log'[k][Len(log[k]) + 1] = m
          /\ \A j \in Parts : j # k => log'[j] = log[j]
          /\ \A a \in 1 .. Len(log[k]) : log'[k][a] = log[k][a]
      BY <1>0, <2>1, <2>2
    <2>5. ASSUME NEW j \in Parts, NEW a \in 1 .. Len(log'[j])
          PROVE  \/ j = k /\ a = Len(log[k]) + 1 /\ log'[j][a] = m
                 \/ a \in 1 .. Len(log[j]) /\ log'[j][a] = log[j][a] /\ log[j][a] # m
      BY <2>1, <2>3, <2>4
    <2>6. ASSUME NEW i \in Parts, NEW j \in Parts,
                 NEW a \in 1 .. Len(log'[i]), NEW b \in 1 .. Len(log'[j]),
                 log'[i][a] = log'[j][b]
          PROVE  i = j /\ a = b
      <3>1. CASE log'[i][a] = m
        <4>1. i = k /\ a = Len(log[k]) + 1
          BY <2>5, <3>1
        <4>2. j = k /\ b = Len(log[k]) + 1
          <5>1. log'[j][b] = m
            BY <2>6, <3>1
          <5> QED
            BY <2>5, <5>1
        <4> QED
          BY <4>1, <4>2
      <3>2. CASE log'[i][a] # m
        <4>1. /\ a \in 1 .. Len(log[i]) /\ b \in 1 .. Len(log[j])
              /\ log[i][a] = log[j][b]
          BY <2>5, <2>6, <3>2
        <4> QED
          BY <1>0, <4>1 DEF DistinctInv
      <3> QED
        BY <3>1, <3>2
    <2>7. \A j \in Parts : \A a \in 1 .. Len(log'[j]) : log'[j][a] \in sent
      BY <1>0, <2>3, <2>5 DEF DistinctInv
    <2>8. ASSUME NEW q \in Pushers, sending'[q] # NoSend
          PROVE  /\ q # p /\ sending'[q] = sending[q]
                 /\ sending[q].msg \in sent
                 /\ \A j \in Parts : \A a \in 1 .. Len(log'[j]) :
                       log'[j][a] # sending[q].msg
      <3>1. q # p /\ sending'[q] = sending[q]
        BY <1>0, <2>2, <2>8
      <3>2. sending[q].msg # m
        BY <2>3, <2>8, <3>1
      <3>3. /\ sending[q].msg \in sent
            /\ \A j \in Parts : \A a \in 1 .. Len(log[j]) : log[j][a] # sending[q].msg
        BY <1>0, <2>8, <3>1 DEF DistinctInv
      <3> QED
        BY <2>5, <3>1, <3>2, <3>3
    <2>9. \A q, r \in Pushers :
              q # r /\ sending'[q] # NoSend /\ sending'[r] # NoSend
                  => sending'[q].msg # sending'[r].msg
      BY <1>0, <2>8 DEF DistinctInv
    <2> QED
      BY <2>2, <2>6, <2>7, <2>8, <2>9 DEF DistinctInv
  <1> QED
    BY <1>1, <1>2, <1>3, PushKinds

(* As long as every Redis call that takes effect also returns, no message  *)
(* is handed over twice, although pushers share partitions and readers are *)
(* stopped and recreated (push, _reader_thread_fn, pull).                  *)
THEOREM NoDuplicates == Spec => []NoDuplicateWithoutFault
  <1> DEFINE Inv == BaseInv /\ FifoInv /\ PositionInv /\ DistinctInv
  <1>1. Init => Inv
    <2> SUFFICES ASSUME Init PROVE PositionInv /\ DistinctInv
      BY BaseInit, FifoInit
    <2>1. Stream = <<>>
      BY DEF Init, Stream
    <2>2. \A k \in Parts : log[k] = <<>> /\ Len(log[k]) = 0 /\ head[k] = 0 /\ rpc[k] # "append"
      BY DEF Init
    <2>3. \A p \in Pushers : sending[p] = NoSend
      BY DEF Init
    <2>4. PositionInv
      BY <2>1, <2>2 DEF PositionInv
    <2>5. DistinctInv
      BY <2>2, <2>3 DEF DistinctInv
    <2> QED
      BY <2>4, <2>5
  <1>2. Inv /\ [Next]_vars => Inv'
    BY BaseStep, FifoStep, PositionStep, DistinctStep
  <1>3. Inv => NoDuplicateWithoutFault
    <2> SUFFICES ASSUME Inv, faults = 0,
                        NEW i \in 1 .. Len(Stream), NEW j \in 1 .. Len(Stream), i # j
                 PROVE  Payload(Stream[i]) # Payload(Stream[j])
      BY DEF NoDuplicateWithoutFault
    <2>1. /\ Stream \in Seq(Item) /\ head \in [Parts -> Nat]
          /\ \A k \in Parts : Len(log[k]) \in Nat
      BY StreamType DEF BaseInv, TypeOK, RedisTypeOK
    <2>2. ASSUME NEW n \in 1 .. Len(Stream)
          PROVE  /\ Stream[n].part \in Parts
                 /\ Stream[n].num \in 1 .. Len(log[Stream[n].part])
      <3>1. Stream[n] \in Item
        BY <2>1, ElementOfSeq
      <3>2. Stream[n].part \in Parts /\ Stream[n].num \in Nat
        BY <3>1 DEF Item
      <3>3. Stream[n].num <= head[Stream[n].part] /\ Stream[n].num > 0
        BY DEF FifoInv, PositionInv
      <3>4. head[Stream[n].part] <= Len(log[Stream[n].part])
        BY <3>2 DEF PositionInv
      <3> HIDE DEF Inv
      <3>5. head[Stream[n].part] \in Nat /\ Len(log[Stream[n].part]) \in Nat
        BY <2>1, <3>2
      <3> QED
        BY <3>2, <3>3, <3>4, <3>5
    <2>3. ~ (Stream[i].part = Stream[j].part /\ Stream[i].num = Stream[j].num)
      <3>1. i < j \/ j < i
        OBVIOUS
      <3>2. Stream[i].part = Stream[j].part
                => Stream[i].num < Stream[j].num \/ Stream[j].num < Stream[i].num
        BY <3>1 DEF FifoInv, PartitionFifo
      <3>3. Stream[i].num \in Nat /\ Stream[j].num \in Nat
        BY <2>2
      <3> QED
        BY <3>2, <3>3
    <2> QED
      BY <2>2, <2>3, SMTT(30) DEF DistinctInv, Payload
  <1> QED
    BY <1>1, <1>2, <1>3, PTL DEF Spec
=============================================================================
