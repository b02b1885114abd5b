----------------------------- MODULE RedisQueue -----------------------------
(***************************************************************************)
(* One topic of the Redis queue of nxs_libs/queue/nxs_redis_queue.py: any  *)
(* number of pushers, one puller with its reader threads, its monitor      *)
(* thread and the user thread that owns it.                                *)
(*                                                                         *)
(* The key "topic" holds the number of partitions; the data of partition k *)
(* is the Redis list topic_k.  The list is kept as a log that only grows   *)
(* (log[k]) and the number of elements BLPOP has removed (head[k]), so an  *)
(* element is named by its partition and its position for its whole life.  *)
(* An element a reader has popped and not yet appended to the shared       *)
(* buffer is element head[k] of its partition.                             *)
(***************************************************************************)
EXTENDS Integers, Sequences, FiniteSets

CONSTANTS Pushers,        \* the processes that push to the topic
          Msg,            \* the messages, each pushed at most once by a caller
          MaxPartitions,  \* bound on the number of partitions
          MaxBufSize,     \* bound on the sizes set_buf_size is called with
          MaxResizes,     \* bound on changes of the number of partitions
          MaxFaults,      \* bound on Redis calls that raise after taking effect
          MayClose        \* whether the owner may call pull_buffered_and_close

ASSUME QueueAssumption ==
    /\ MaxPartitions \in Nat \ {0}
    /\ MaxBufSize \in Nat \ {0}
    /\ MaxResizes \in Nat
    /\ MaxFaults \in Nat
    /\ MayClose \in BOOLEAN

NoSend == [k |-> -1]      \* the pusher is not inside _push_with_retry

VARIABLES
  topicKey,    \* value of the key "topic"; 0 when the key does not exist
  log,         \* log[k]: everything ever RPUSHed to topic_k
  head,        \* head[k]: how many elements of log[k] were BLPOPped
  parts,       \* parts[p]: _topic2partitions of pusher p, 0 when unknown
  idx,         \* idx[p]: _topic2partitionIdx
  fresh,       \* fresh[p]: _topic2timestamp exists and is at most 3 s old
  sending,     \* sending[p]: partition and message inside _push_with_retry
  sent,        \* messages push was called with
  acked,       \* messages whose push returned
  buf,         \* _buf: shared data store of the reader threads
  bufSize,     \* _buf_size
  numParts,    \* _num_partitions of the puller
  flags,       \* _reader_thread_alive_flags
  rpc,         \* rpc[k]: where reader thread k is
  monFlag,     \* _monitor_thread_alive_flag
  mpc,         \* where the monitor thread is
  target,      \* the number of partitions the monitor has read
  delta,       \* iterations left of the monitor's scaling loop
  upc,         \* where the thread that owns the puller is
  todo,        \* its loop counter: elements left to pop, or flags to reset
  pos,         \* index of the next flag pull_buffered_and_close resets
  delivered,   \* what pull has returned so far
  lost,        \* elements whose BLPOP reply never arrived
  resizes,     \* changes of topicKey so far
  faults       \* faulty Redis calls so far

redisVars  == <<topicKey, log, head>>
pusherVars == <<parts, idx, fresh, sending, sent, acked>>
readerVars == <<rpc, lost>>
monVars    == <<mpc, target, delta, numParts>>
userVars   == <<upc, todo, pos, delivered>>
vars == <<redisVars, pusherVars, readerVars, monVars, userVars,
          buf, bufSize, flags, monFlag, resizes, faults>>

Parts == 0 .. (MaxPartitions - 1)
Flag  == {"on", "off"}    \* TRUE and FALSE of the alive flags
Item  == [part : Parts, num : Nat]

(* _get_topic_num_partitions: a topic without the key has one partition.   *)
GetNumPartitions == IF topicKey = 0 THEN 1 ELSE topicKey

(* The part of the topic_k list that is still in Redis is not empty.       *)
NonEmpty(k) == head[k] < Len(log[k])

(* The number of reader threads is the length of both parallel lists.      *)
NumThreads == Len(flags)

-----------------------------------------------------------------------------
(* The puller's constructor reads the number of partitions, starts one     *)
(* reader per partition and the monitor.                                   *)
Init ==
    /\ topicKey \in 0 .. MaxPartitions
    /\ log = [k \in Parts |-> <<>>]
    /\ head = [k \in Parts |-> 0]
    /\ parts = [p \in Pushers |-> 0]
    /\ idx = [p \in Pushers |-> 0]
    /\ fresh = [p \in Pushers |-> FALSE]
    /\ sending = [p \in Pushers |-> NoSend]
    /\ sent = {}
    /\ acked = {}
    /\ buf = <<>>
    /\ bufSize = 1
    /\ numParts = GetNumPartitions
    /\ flags = [i \in 1 .. GetNumPartitions |-> "on"]
    /\ rpc = [k \in Parts |-> IF k < GetNumPartitions THEN "top" ELSE "dead"]
    /\ monFlag = "on"
    /\ mpc = "top"
    /\ target = 1
    /\ delta = 0
    /\ upc = "idle"
    /\ todo = 0
    /\ pos = 1
    /\ delivered = <<>>
    /\ lost = {}
    /\ resizes = 0
    /\ faults = 0

-----------------------------------------------------------------------------
(* Pushers.                                                                *)

(* create_topic writes the key and the pusher's own cache.                 *)
CreateTopic(p, n) ==
    /\ resizes < MaxResizes
    /\ sending[p] = NoSend
    /\ resizes' = resizes + 1
    /\ topicKey' = n
    /\ parts' = [parts EXCEPT ![p] = n]
    /\ idx' = [idx EXCEPT ![p] = 0]
    /\ fresh' = [fresh EXCEPT ![p] = TRUE]
    /\ UNCHANGED <<log, head, sending, sent, acked, readerVars, monVars,
                   userVars, buf, bufSize, flags, monFlag, faults>>

(* The cached number of partitions becomes older than the check period.    *)
CacheExpires(p) ==
    /\ fresh[p]
    /\ fresh' = [fresh EXCEPT ![p] = FALSE]
    /\ UNCHANGED <<redisVars, parts, idx, sending, sent, acked, readerVars,
                   monVars, userVars, buf, bufSize, flags, monFlag, resizes,
                   faults>>

(* The round robin over the cached number of partitions.                   *)
NextIdxNoWrap(k, n) == k + 1                           \* mutant
NextIdx(k, n) == (k + 1) % n

(* push: refresh a missing or stale cache (which restarts the round        *)
(* robin), take the current partition index and advance it.                *)
Push(p, m) ==
    LET n == IF fresh[p] THEN parts[p] ELSE GetNumPartitions
        k == IF fresh[p] THEN idx[p] ELSE 0
    IN  /\ sending[p] = NoSend
        /\ m \notin sent
        /\ sent' = sent \cup {m}
        /\ parts' = [parts EXCEPT ![p] = n]
        /\ idx' = [idx EXCEPT ![p] = NextIdx(k, n)]
        /\ fresh' = [fresh EXCEPT ![p] = TRUE]
        /\ sending' = [sending EXCEPT ![p] = [k |-> k, msg |-> m]]
        /\ UNCHANGED <<redisVars, acked, readerVars, monVars, userVars, buf,
                       bufSize, flags, monFlag, resizes, faults>>

(* The retry loop ends after a successful RPUSH.                           *)
SendingForever(p) == sending[p]                        \* mutant: no break
SendingAfter(p) == NoSend

(* RPUSH succeeds and push returns.  (The EXPIRE below it is never reached *)
(* in the code: _topic2expiration is only written behind the test that     *)
(* reads it, and its default is the current time.)                         *)
RPush(p) ==
    /\ sending[p] # NoSend
    /\ log' = [log EXCEPT ![sending[p].k] = Append(@, sending[p].msg)]
    /\ acked' = acked \cup {sending[p].msg}
    /\ sending' = [sending EXCEPT ![p] = SendingAfter(p)]
    /\ UNCHANGED <<topicKey, head, parts, idx, fresh, sent, readerVars,
                   monVars, userVars, buf, bufSize, flags, monFlag, resizes,
                   faults>>

(* RPUSH takes effect on the server but raises in the client: the loop of  *)
(* _push_with_retry pushes the same message again.  (An exception before   *)
(* the effect only repeats the loop.)                                      *)
RPushRaises(p) ==
    /\ sending[p] # NoSend
    /\ faults < MaxFaults
    /\ faults' = faults + 1
    /\ log' = [log EXCEPT ![sending[p].k] = Append(@, sending[p].msg)]
    /\ UNCHANGED <<topicKey, head, pusherVars, readerVars, monVars, userVars,
                   buf, bufSize, flags, monFlag, resizes>>

-----------------------------------------------------------------------------
(* Reader thread k: _reader_thread_fn.                                     *)

InFlight(k) == rpc[k] \in {"pop", "append"}

(* The loop condition; reading a flag that was popped would raise          *)
(* IndexError and end the thread just as well.                             *)
Alive(k) == k < NumThreads /\ flags[k + 1] = "on"

NeverFull == FALSE                                     \* mutant: no standby
BufFull == Len(buf) >= bufSize

PushFront(it) == <<it>> \o buf                         \* mutant: wrong end
Buffered(it) == Append(buf, it)

EmptyEnds == "dead"                                    \* mutant: return, not continue
EmptyContinues == "top"

(* Loop head: leave when the alive flag is reset, ...                      *)
ReaderExit(k) ==
    /\ rpc[k] = "top"
    /\ ~ Alive(k)
    /\ rpc' = [rpc EXCEPT ![k] = "dead"]
    /\ UNCHANGED <<redisVars, pusherVars, lost, monVars, userVars, buf,
                   bufSize, flags, monFlag, resizes, faults>>

(* ... stand by while the shared buffer is full, else issue BLPOP.         *)
ReaderCheck(k) ==
    /\ rpc[k] = "top"
    /\ Alive(k)
    /\ ~ BufFull
    /\ rpc' = [rpc EXCEPT ![k] = "pop"]
    /\ UNCHANGED <<redisVars, pusherVars, lost, monVars, userVars, buf,
                   bufSize, flags, monFlag, resizes, faults>>

(* BLPOP returns an element.                                               *)
ReaderPop(k) ==
    /\ rpc[k] = "pop"
    /\ NonEmpty(k)
    /\ head' = [head EXCEPT ![k] = @ + 1]
    /\ rpc' = [rpc EXCEPT ![k] = "append"]
    /\ UNCHANGED <<topicKey, log, pusherVars, lost, monVars, userVars, buf,
                   bufSize, flags, monFlag, resizes, faults>>

(* BLPOP times out on an empty list.                                       *)
ReaderTimeout(k) ==
    /\ rpc[k] = "pop"
    /\ ~ NonEmpty(k)
    /\ rpc' = [rpc EXCEPT ![k] = EmptyContinues]
    /\ UNCHANGED <<redisVars, pusherVars, lost, monVars, userVars, buf,
                   bufSize, flags, monFlag, resizes, faults>>

(* BLPOP removes an element and raises in the client: the element is gone, *)
(* the thread recreates its client and goes on.                            *)
ReaderPopRaises(k) ==
    /\ rpc[k] = "pop"
    /\ NonEmpty(k)
    /\ faults < MaxFaults
    /\ faults' = faults + 1
    /\ head' = [head EXCEPT ![k] = @ + 1]
    /\ lost' = lost \cup {[part |-> k, num |-> head[k] + 1]}
    /\ rpc' = [rpc EXCEPT ![k] = "top"]
    /\ UNCHANGED <<topicKey, log, pusherVars, monVars, userVars, buf, bufSize,
                   flags, monFlag, resizes>>

(* The popped element goes to the shared buffer, whatever its size is now. *)
ReaderAppend(k) ==
    /\ rpc[k] = "append"
    /\ buf' = Buffered([part |-> k, num |-> head[k]])
    /\ rpc' = [rpc EXCEPT ![k] = "top"]
    /\ UNCHANGED <<redisVars, pusherVars, lost, monVars, userVars, bufSize,
                   flags, monFlag, resizes, faults>>

-----------------------------------------------------------------------------
(* Monitor thread: _monitor_thread_fn.                                     *)

(* Thread.join on reader k returns.                                        *)
NotJoined(k) == TRUE                                   \* mutant: no join
Joined(k) == rpc[k] = "dead"

NotStarted == "dead"                                   \* mutant: no t.start()
Started == "top"

MonitorExit ==
    /\ mpc = "top"
    /\ monFlag = "off"
    /\ mpc' = "done"
    /\ UNCHANGED <<redisVars, pusherVars, readerVars, target, delta, numParts,
                   userVars, buf, bufSize, flags, monFlag, resizes, faults>>

(* The check period is over: read the number of partitions.  (When it has  *)
(* not changed the scaling loop runs zero times and nothing changes.)      *)
MonitorRead ==
    /\ mpc = "top"
    /\ monFlag = "on"
    /\ GetNumPartitions # numParts
    /\ target' = GetNumPartitions
    /\ delta' = IF GetNumPartitions > numParts
                THEN GetNumPartitions - numParts
                ELSE numParts - GetNumPartitions
    /\ mpc' = "scale"
    /\ UNCHANGED <<redisVars, pusherVars, readerVars, numParts, userVars, buf,
                   bufSize, flags, monFlag, resizes, faults>>

(* _add_reader_thread: the new thread id is the number of threads.         *)
AddReaderThread ==
    /\ mpc = "scale"
    /\ delta > 0
    /\ target > numParts
    /\ flags' = Append(flags, "on")
    /\ rpc' = [rpc EXCEPT ![NumThreads] = Started]
    /\ delta' = delta - 1
    /\ UNCHANGED <<redisVars, pusherVars, lost, mpc, target, numParts,
                   userVars, buf, bufSize, monFlag, resizes, faults>>

(* _remove_read_thread: reset the last flag, ...                           *)
RemoveReaderFlag ==
    /\ mpc = "scale"
    /\ delta > 0
    /\ target < numParts
    /\ flags' = [flags EXCEPT ![NumThreads] = "off"]
    /\ mpc' = "join"
    /\ UNCHANGED <<redisVars, pusherVars, readerVars, target, delta, numParts,
                   userVars, buf, bufSize, monFlag, resizes, faults>>

(* ... join the thread, then drop it from both lists.                      *)
RemoveReaderJoin ==
    /\ mpc = "join"
    /\ Joined(NumThreads - 1)
    /\ flags' = SubSeq(flags, 1, NumThreads - 1)
    /\ delta' = delta - 1
    /\ mpc' = "scale"
    /\ UNCHANGED <<redisVars, pusherVars, readerVars, target, numParts,
                   userVars, buf, bufSize, monFlag, resizes, faults>>

MonitorScaled ==
    /\ mpc = "scale"
    /\ delta = 0
    /\ numParts' = target
    /\ mpc' = "top"
    /\ UNCHANGED <<redisVars, pusherVars, readerVars, target, delta, userVars,
                   buf, bufSize, flags, monFlag, resizes, faults>>

-----------------------------------------------------------------------------
(* The thread that owns the puller.                                        *)

SetNumPartitions(n) ==
    /\ upc = "idle"
    /\ resizes < MaxResizes
    /\ resizes' = resizes + 1
    /\ topicKey' = n
    /\ UNCHANGED <<log, head, pusherVars, readerVars, monVars, userVars, buf,
                   bufSize, flags, monFlag, faults>>

SetBufSize(n) ==
    /\ upc = "idle"
    /\ bufSize # n
    /\ bufSize' = n
    /\ UNCHANGED <<redisVars, pusherVars, readerVars, monVars, userVars, buf,
                   flags, monFlag, resizes, faults>>

(* pull pops as many elements as it saw at its start, one at a time, while *)
(* the readers go on appending.                                            *)
PullBegin ==
    /\ upc = "idle"
    /\ buf # <<>>
    /\ upc' = "pull"
    /\ todo' = Len(buf)
    /\ UNCHANGED <<redisVars, pusherVars, readerVars, monVars, pos, delivered,
                   buf, bufSize, flags, monFlag, resizes, faults>>

PullPop ==
    /\ upc = "pull"
    /\ todo > 0
    /\ delivered' = Append(delivered, Head(buf))
    /\ buf' = Tail(buf)
    /\ todo' = todo - 1
    /\ UNCHANGED <<redisVars, pusherVars, readerVars, monVars, upc, pos,
                   bufSize, flags, monFlag, resizes, faults>>

PullEnd ==
    /\ upc = "pull"
    /\ todo = 0
    /\ upc' = IF bufSize = 0 THEN "closed" ELSE "idle"
    /\ UNCHANGED <<redisVars, pusherVars, readerVars, monVars, todo, pos,
                   delivered, buf, bufSize, flags, monFlag, resizes, faults>>

(* What pull_buffered_and_close writes to each alive flag.                 *)
KeptFlag == "on"                                       \* mutant: not reset
ResetFlag == "off"

(* pull_buffered_and_close: forbid further reads, tell the monitor to stop *)
(* and fix the range of flags to reset, ...                                *)
Close ==
    /\ MayClose
    /\ upc = "idle"
    /\ bufSize' = 0
    /\ monFlag' = "off"
    /\ todo' = Len(flags)
    /\ pos' = 1
    /\ upc' = "flags"
    /\ UNCHANGED <<redisVars, pusherVars, readerVars, monVars, delivered, buf,
                   flags, resizes, faults>>

(* ... reset them one by one; the monitor may shrink the list meanwhile,   *)
(* and then the assignment raises IndexError, ...                          *)
CloseFlag ==
    /\ upc = "flags"
    /\ pos <= todo
    /\ IF pos <= Len(flags)
       THEN /\ flags' = [flags EXCEPT ![pos] = ResetFlag]
            /\ pos' = pos + 1
            /\ UNCHANGED upc
       ELSE /\ upc' = "failed"
            /\ UNCHANGED <<flags, pos>>
    /\ UNCHANGED <<redisVars, pusherVars, readerVars, monVars, todo,
                   delivered, buf, bufSize, monFlag, resizes, faults>>

(* ... join the monitor, ...                                               *)
CloseJoinMonitor ==
    /\ upc = "flags"
    /\ pos > todo
    /\ mpc = "done"
    /\ upc' = "join"
    /\ UNCHANGED <<redisVars, pusherVars, readerVars, monVars, todo, pos,
                   delivered, buf, bufSize, flags, monFlag, resizes, faults>>

(* ... join every reader and pull what is left in the buffer.              *)
CloseJoinReaders ==
    /\ upc = "join"
    /\ \A k \in Parts : k < NumThreads => Joined(k)
    /\ upc' = "pull"
    /\ todo' = Len(buf)
    /\ UNCHANGED <<redisVars, pusherVars, readerVars, monVars, pos, delivered,
                   buf, bufSize, flags, monFlag, resizes, faults>>

-----------------------------------------------------------------------------
PusherNext(p) ==
    \/ \E n \in 1 .. MaxPartitions : CreateTopic(p, n)
    \/ CacheExpires(p)
    \/ \E m \in Msg : Push(p, m)
    \/ RPush(p)
    \/ RPushRaises(p)

ReaderNext(k) ==
    \/ ReaderExit(k)
    \/ ReaderCheck(k)
    \/ ReaderPop(k)
    \/ ReaderTimeout(k)
    \/ ReaderPopRaises(k)
    \/ ReaderAppend(k)

MonitorNext ==
    \/ MonitorExit
    \/ MonitorRead
    \/ AddReaderThread
    \/ RemoveReaderFlag
    \/ RemoveReaderJoin
    \/ MonitorScaled

UserNext ==
    \/ \E n \in 1 .. MaxPartitions : SetNumPartitions(n)
    \/ \E n \in 1 .. MaxBufSize : SetBufSize(n)
    \/ PullBegin
    \/ PullPop
    \/ PullEnd
    \/ Close
    \/ CloseFlag
    \/ CloseJoinMonitor
    \/ CloseJoinReaders

Next ==
    \/ \E p \in Pushers : PusherNext(p)
    \/ \E k \in Parts : ReaderNext(k)
    \/ MonitorNext
    \/ UserNext

Spec == Init /\ [][Next]_vars

(* Every thread is scheduled; the owner keeps pulling and, once it has     *)
(* started to close, goes on.  Nothing forces it to close, to resize or to *)
(* push, and Redis faults are never forced.                                *)
Fairness ==
    /\ \A p \in Pushers : WF_vars(RPush(p))
    /\ \A k \in Parts : /\ WF_vars(ReaderExit(k))
                        /\ WF_vars(ReaderCheck(k))
                        /\ WF_vars(ReaderPop(k) \/ ReaderTimeout(k))
                        /\ WF_vars(ReaderAppend(k))
    /\ WF_vars(MonitorNext)
    /\ WF_vars(PullBegin)
    /\ WF_vars(PullPop)
    /\ WF_vars(PullEnd)
    /\ WF_vars(CloseFlag)
    /\ WF_vars(CloseJoinMonitor)
    /\ WF_vars(CloseJoinReaders)

FairSpec == Spec /\ Fairness

-----------------------------------------------------------------------------
(* Properties.                                                             *)

RedisTypeOK ==
    /\ topicKey \in 0 .. MaxPartitions
    /\ log \in [Parts -> Seq(Msg)]
    /\ head \in [Parts -> Nat]

PusherTypeOK ==
    /\ parts \in [Pushers -> 0 .. MaxPartitions]
    /\ idx \in [Pushers -> Parts]
    /\ fresh \in [Pushers -> BOOLEAN]
    /\ sending \in [Pushers -> {NoSend} \cup [k : Parts, msg : Msg]]
    /\ sent \subseteq Msg
    /\ acked \subseteq Msg

PullerTypeOK ==
    /\ buf \in Seq(Item)
    /\ bufSize \in 0 .. MaxBufSize
    /\ flags \in Seq(Flag)
    /\ rpc \in [Parts -> {"top", "pop", "append", "dead"}]
    /\ monFlag \in Flag
    /\ lost \subseteq Item

MonitorTypeOK ==
    /\ numParts \in 1 .. MaxPartitions
    /\ mpc \in {"top", "scale", "join", "done"}
    /\ target \in 1 .. MaxPartitions
    /\ delta \in 0 .. MaxPartitions

UserTypeOK ==
    /\ upc \in {"idle", "pull", "flags", "join", "closed", "failed"}
    /\ todo \in Nat
    /\ pos \in Nat \ {0}
    /\ delivered \in Seq(Item)
    /\ resizes \in 0 .. MaxResizes
    /\ faults \in 0 .. MaxFaults

(* Every variable keeps its type; in particular the round robin index      *)
(* stays below MaxPartitions, so push never addresses a list out of range. *)
TypeOK ==
    /\ RedisTypeOK
    /\ PusherTypeOK
    /\ PullerTypeOK
    /\ MonitorTypeOK
    /\ UserTypeOK

Stream == delivered \o buf          \* what the readers handed over, in order
Held(k) == [part |-> k, num |-> head[k]]
Payload(it) == log[it.part][it.num]

(* Element i of partition k is still in Redis, in the hands of its reader, *)
(* in the shared buffer, returned to the owner, or lost by a faulty BLPOP. *)
Accounted(k, i) ==
    LET it == [part |-> k, num |-> i]
    IN  \/ i > head[k]
        \/ rpc[k] = "append" /\ i = head[k]
        \/ \E j \in 1 .. Len(Stream) : Stream[j] = it
        \/ it \in lost

(* The elements of one partition reach the owner in the order of their     *)
(* RPUSHes, none of them twice, across any number of scale-ups and         *)
(* scale-downs that stop and recreate the partition's reader               *)
(* (_add_reader_thread, _remove_read_thread, pull).                        *)
PartitionFifo ==
    \A i, j \in 1 .. Len(Stream) :
        i < j /\ Stream[i].part = Stream[j].part => Stream[i].num < Stream[j].num

(* A message whose push returned is never dropped between Redis, the       *)
(* readers, the shared buffer and pull: unless a BLPOP reply was lost it   *)
(* can always be found in one of them (push, _reader_thread_fn, pull).     *)
AckedAccounted ==
    \A m \in acked : \E k \in Parts : \E i \in 1 .. Len(log[k]) :
        log[k][i] = m /\ Accounted(k, i)

(* As long as no Redis call raised after taking effect, no message is      *)
(* handed over twice; with such a fault _push_with_retry may duplicate it. *)
NoDuplicateWithoutFault ==
    faults = 0 =>
        \A i, j \in 1 .. Len(Stream) :
            i # j => Payload(Stream[i]) # Payload(Stream[j])

(* The readers test the buffer's length before BLPOP and append after it,  *)
(* so each can overrun the buffer by one element, and no more: memory of   *)
(* the puller is bounded by the largest size plus the readers.             *)
BufOverrunBounded ==
    Len(buf) + Cardinality({k \in Parts : InFlight(k)})
        <= MaxBufSize - 1 + MaxPartitions

(* When pull_buffered_and_close returns, no reader is alive and everything *)
(* ever popped from Redis was returned to the caller (or lost by a faulty  *)
(* BLPOP): closing never leaves an element behind in the process.          *)
CloseDrains ==
    upc = "closed" =>
        \A k \in Parts :
            /\ rpc[k] = "dead"
            /\ \A i \in 1 .. head[k] :
                  LET it == [part |-> k, num |-> i]
                  IN  it \in lost \/ \E j \in 1 .. Len(delivered) : delivered[j] = it

(* Between two scalings there is exactly one live reader for each of the   *)
(* partitions the puller knows of, and none for the others.                *)
OneReaderPerPartition ==
    mpc = "top" /\ monFlag = "on" =>
        \A k \in Parts : rpc[k] # "dead" <=> k < numParts

(* A call of pull_buffered_and_close returns: its comment says "stop all   *)
(* threads".                                                               *)
CloseTerminates == upc = "flags" ~> upc = "closed"

(* It does return when the monitor is outside of a rescaling before the    *)
(* first flag is reset: the flags in its range are then those of all       *)
(* readers, and no reader is started or dropped any more.                  *)
CloseReturns ==
    upc = "flags" /\ pos = 1 /\ todo = NumThreads /\ mpc = "top" ~> upc = "closed"

(* An element in a partition that stays below the topic's number of        *)
(* partitions is handed to the owner (or lost by a faulty BLPOP), unless   *)
(* the owner closes: the monitor gives every partition a reader, and no    *)
(* reader starves.                                                         *)
Delivery ==
    \A k \in Parts : \A i \in 1 .. Cardinality(Msg) :
        <>[](i <= Len(log[k]) /\ k < GetNumPartitions)
            => <>(\/ upc \notin {"idle", "pull"}
                  \/ [part |-> k, num |-> i] \in lost
                  \/ \E j \in 1 .. Len(delivered) :
                        delivered[j] = [part |-> k, num |-> i])
=============================================================================
