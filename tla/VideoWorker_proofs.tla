------------------------- MODULE VideoWorker_proofs -------------------------
(* Proofs about VideoWorker for streams of any length, any windows, and    *)
(* any playlists that are not longer than what is remembered of them.      *)
EXTENDS VideoWorker, TLAPS

(* Sequences of frames or chunks: rising ones, and their bounds.           *)
Rising(s) == \A i, j \in 1 .. Len(s) : i < j => s[i] < s[j]
Before(x, s) == \A i \in 1 .. Len(s) : x < s[i]
UpTo(s, x) == \A i \in 1 .. Len(s) : s[i] <= x

LEMMA AppendRising ==
    ASSUME NEW s \in Seq(Nat), NEW f \in Nat, UpTo(s, f - 1)
    PROVE  /\ Append(s, f) \in Seq(Nat) /\ Len(Append(s, f)) = Len(s) + 1
           /\ UpTo(Append(s, f), f)
           /\ Rising(s) => Rising(Append(s, f))
           /\ \A x \in Nat : x < f /\ Before(x, s) => Before(x, Append(s, f))
  <1> DEFINE t == Append(s, f)
  <1>1. /\ t \in Seq(Nat) /\ Len(t) = Len(s) + 1 /\ t[Len(s) + 1] = f
        /\ \A i \in 1 .. Len(s) : t[i] = s[i] /\ s[i] \in Nat
        /\ Len(s) \in Nat
    OBVIOUS
  <1> HIDE DEF t
  <1>2. \A i \in 1 .. Len(t) : i \in 1 .. Len(s) \/ i = Len(s) + 1
    BY <1>1
  <1>3. \A i \in 1 .. Len(s) : s[i] < f
    BY <1>1 DEF UpTo
  <1>4. UpTo(t, f)
    <2>1. \A i \in 1 .. Len(t) : t[i] <= f
      BY <1>1, <1>2, <1>3, SMTT(30)
    <2> QED
      BY <2>1 DEF UpTo
  <1>5. Rising(s) => Rising(t)
    <2> SUFFICES ASSUME Rising(s), NEW i \in 1 .. Len(t), NEW j \in 1 .. Len(t), i < j
                 PROVE  t[i] < t[j]
      BY DEF Rising
    <2>1. i \in 1 .. Len(s)
      BY <1>1
    <2>2. CASE j \in 1 .. Len(s)
      BY <2>1, <2>2, <1>1 DEF Rising
    <2>3. CASE j = Len(s) + 1
      BY <2>1, <2>3, <1>1, <1>3
    <2> QED
      BY <1>2, <2>2, <2>3
  <1>6. \A x \in Nat : x < f /\ Before(x, s) => Before(x, t)
    BY <1>1, <1>2 DEF Before
  <1> QED
    BY <1>1, <1>4, <1>5, <1>6 DEF t

LEMMA TailRising ==
    ASSUME NEW s \in Seq(Nat), s # <<>>
    PROVE  /\ Tail(s) \in Seq(Nat) /\ Len(Tail(s)) = Len(s) - 1 /\ Head(s) = s[1] /\ Head(s) \in Nat
           /\ \A i \in 1 .. Len(Tail(s)) : Tail(s)[i] = s[i + 1]
           /\ Rising(s) => Rising(Tail(s)) /\ Before(Head(s), Tail(s))
           /\ \A x \in Int : UpTo(s, x) => UpTo(Tail(s), x) /\ Head(s) <= x
  <1>1. /\ Tail(s) \in Seq(Nat) /\ Len(Tail(s)) = Len(s) - 1 /\ Head(s) = s[1] /\ Head(s) \in Nat
        /\ \A i \in 1 .. Len(Tail(s)) : Tail(s)[i] = s[i + 1]
        /\ Len(s) \in Nat \ {0}
        /\ \A i \in 1 .. Len(s) : s[i] \in Nat
    OBVIOUS
  <1>2. Rising(s) => Rising(Tail(s)) /\ Before(Head(s), Tail(s))
    BY <1>1 DEF Rising, Before
  <1>3. \A x \in Int : UpTo(s, x) => UpTo(Tail(s), x) /\ Head(s) <= x
    BY <1>1 DEF UpTo
  <1> QED
    BY <1>1, <1>2, <1>3

LEMMA HeadTail ==
    ASSUME NEW S, NEW s \in Seq(S), s # <<>>
    PROVE  /\ Head(s) \in S /\ Head(s) = s[1] /\ Len(s) \in Nat \ {0}
           /\ Tail(s) \in Seq(S) /\ Len(Tail(s)) = Len(s) - 1
           /\ \A i \in 1 .. Len(s) - 1 : Tail(s)[i] = s[i + 1]
  OBVIOUS

(* A sequence cut in two.                                                  *)
LEMMA Cut ==
    ASSUME NEW S, NEW s \in Seq(S), NEW n \in 0 .. Len(s)
    PROVE  /\ SubSeq(s, 1, n) \in Seq(S) /\ Len(SubSeq(s, 1, n)) = n
           /\ \A i \in 1 .. n : SubSeq(s, 1, n)[i] = s[i]
           /\ SubSeq(s, n + 1, Len(s)) \in Seq(S) /\ Len(SubSeq(s, n + 1, Len(s))) = Len(s) - n
           /\ \A i \in 1 .. Len(s) - n : SubSeq(s, n + 1, Len(s))[i] = s[n + i]
  OBVIOUS

LEMMA CutRising ==
    ASSUME NEW s \in Seq(Nat), NEW n \in 0 .. Len(s),
           NEW p \in Seq(Nat), Len(p) = n, \A i \in 1 .. n : p[i] = s[i],
           NEW q \in Seq(Nat), Len(q) = Len(s) - n, \A i \in 1 .. Len(s) - n : q[i] = s[n + i]
    PROVE  /\ Rising(s) => Rising(p) /\ Rising(q) /\ \A i \in 1 .. Len(p) : Before(p[i], q)
           /\ \A x \in Int : UpTo(s, x) => UpTo(p, x) /\ UpTo(q, x)
           /\ \A x \in Int : Before(x, s) => Before(x, p) /\ Before(x, q)
  <1>2. Len(s) \in Nat /\ \A i \in 1 .. Len(s) : s[i] \in Nat
    OBVIOUS
  <1>3. \A i \in 1 .. Len(q) : n + i \in 1 .. Len(s) /\ q[i] = s[n + i]
    OBVIOUS
  <1>4. \A i \in 1 .. Len(p) : i \in 1 .. Len(s) /\ p[i] = s[i]
    OBVIOUS
  <1> USE <1>2, <1>3, <1>4
  <1>5. Rising(s) => Rising(p)
    BY DEF Rising
  <1>6. Rising(s) => Rising(q)
    <2> SUFFICES ASSUME Rising(s), NEW i \in 1 .. Len(q), NEW j \in 1 .. Len(q), i < j
                 PROVE  q[i] < q[j]
      BY DEF Rising
    <2>1. n + i < n + j
      OBVIOUS
    <2> QED
      BY <2>1 DEF Rising
  <1>7. ASSUME Rising(s), NEW i \in 1 .. Len(p) PROVE Before(p[i], q)
    <2> SUFFICES ASSUME NEW j \in 1 .. Len(q) PROVE p[i] < q[j]
      BY DEF Before
    <2>1. i < n + j
      OBVIOUS
    <2> QED
      BY <2>1, <1>7 DEF Rising
  <1>8. \A x \in Int : UpTo(s, x) => UpTo(p, x) /\ UpTo(q, x)
    BY DEF UpTo
  <1>9. \A x \in Int : Before(x, s) => Before(x, p) /\ Before(x, q)
    BY DEF Before
  <1> QED
    BY <1>5, <1>6, <1>7, <1>8, <1>9

LEMMA LeastOfTwo ==
    ASSUME NEW a \in Nat, NEW b \in Nat
    PROVE  Min({a, b}) = IF a <= b THEN a ELSE b
  BY DEF Min

LEMMA GreatestOfTwo ==
    ASSUME NEW a \in Nat, NEW b \in Nat
    PROVE  Max({a, b}) \in Nat /\ Max({a, b}) >= a /\ Max({a, b}) >= b
  <1>1. \E x \in {a, b} : \A y \in {a, b} : x >= y
    <2>1. CASE a >= b
      BY <2>1
    <2>2. CASE b >= a
      BY <2>2
    <2> QED
      BY <2>1, <2>2
  <1>2. /\ Max({a, b}) \in {a, b}
        /\ \A y \in {a, b} : Max({a, b}) >= y
    BY <1>1 DEF Max
  <1> QED
    BY <1>2

-----------------------------------------------------------------------------
(* The frames the decoder has handed over: the last one processed, the     *)
(* ones of the batch, the ones in the list.                                *)

InOrder(s, b, v) ==
    /\ Rising(b) /\ Rising(v)
    /\ Before(s, b) /\ Before(s, v)
    /\ \A i \in 1 .. Len(b) : Before(b[i], v)

PassedUpTo(x, s, b, v) == s <= x /\ UpTo(b, x) /\ UpTo(v, x)

LEMMA PassedLater ==
    ASSUME NEW x \in Int, NEW y \in Int, x <= y,
           NEW s \in Nat, NEW b \in Seq(Nat), NEW v \in Seq(Nat), PassedUpTo(x, s, b, v)
    PROVE  PassedUpTo(y, s, b, v)
  <1>1. ASSUME NEW t \in Seq(Nat), UpTo(t, x) PROVE UpTo(t, y)
    BY <1>1 DEF UpTo
  <1> QED
    BY <1>1 DEF PassedUpTo

(* A frame is added.                                                       *)
LEMMA OrderAppend ==
    ASSUME NEW s \in Nat, NEW b \in Seq(Nat), NEW v \in Seq(Nat), NEW f \in Nat,
           InOrder(s, b, v), PassedUpTo(f - 1, s, b, v)
    PROVE  /\ InOrder(s, b, Append(v, f))
           /\ \A x \in Int : f <= x /\ PassedUpTo(x, s, b, v) => PassedUpTo(x, s, b, Append(v, f))
           /\ PassedUpTo(f, s, b, Append(v, f))
  <1>1. /\ UpTo(v, f - 1) /\ Rising(v) /\ s < f
        /\ \A i \in 1 .. Len(b) : b[i] \in Nat /\ b[i] < f
    BY DEF InOrder, PassedUpTo, UpTo
  <1>2. /\ Rising(Append(v, f)) /\ UpTo(Append(v, f), f) /\ Append(v, f) \in Seq(Nat)
        /\ \A x \in Nat : x < f /\ Before(x, v) => Before(x, Append(v, f))
    BY <1>1, AppendRising
  <1>3. InOrder(s, b, Append(v, f))
    BY <1>1, <1>2 DEF InOrder
  <1>4. PassedUpTo(f, s, b, Append(v, f))
    <2>1. PassedUpTo(f, s, b, v)
      BY PassedLater
    <2> QED
      BY <2>1, <1>2 DEF PassedUpTo
  <1>5. ASSUME NEW x \in Int, f <= x PROVE PassedUpTo(x, s, b, Append(v, f))
    <2> DEFINE w == Append(v, f)
    <2>1. w \in Seq(Nat) /\ PassedUpTo(f, s, b, w) /\ f \in Int
      BY <1>2, <1>4
    <2> HIDE DEF w
    <2>2. PassedUpTo(x, s, b, w)
      BY <2>1, <1>5, PassedLater
    <2> QED
      BY <2>2 DEF w
  <1> QED
    BY <1>3, <1>4, <1>5

(* The first frames become the batch, whatever was in it before.           *)
LEMMA OrderPop ==
    ASSUME NEW s \in Nat, NEW b \in Seq(Nat), NEW v \in Seq(Nat), NEW n \in 0 .. Len(v),
           NEW p \in Seq(Nat), Len(p) = n, \A i \in 1 .. n : p[i] = v[i],
           NEW q \in Seq(Nat), Len(q) = Len(v) - n, \A i \in 1 .. Len(v) - n : q[i] = v[n + i],
           InOrder(s, b, v)
    PROVE  /\ InOrder(s, p, q)
           /\ \A x \in Int : PassedUpTo(x, s, b, v) => PassedUpTo(x, s, p, q)
  <1>1. /\ Rising(v) => Rising(p) /\ Rising(q) /\ \A i \in 1 .. Len(p) : Before(p[i], q)
        /\ \A x \in Int : UpTo(v, x) => UpTo(p, x) /\ UpTo(q, x)
        /\ \A x \in Int : Before(x, v) => Before(x, p) /\ Before(x, q)
    BY CutRising
  <1> QED
    BY <1>1 DEF InOrder, PassedUpTo

(* The batch is processed, or empty.                                       *)
LEMMA OrderProcess ==
    ASSUME NEW s \in Nat, NEW b \in Seq(Nat), NEW v \in Seq(Nat), InOrder(s, b, v)
    PROVE  /\ InOrder(s, <<>>, v)
           /\ \A x \in Int : PassedUpTo(x, s, b, v) => PassedUpTo(x, s, <<>>, v)
           /\ b # <<>> => /\ b[Len(b)] \in Nat
                          /\ InOrder(b[Len(b)], <<>>, v)
                          /\ \A x \in Int : PassedUpTo(x, s, b, v) => PassedUpTo(x, b[Len(b)], <<>>, v)
  <1>1. Rising(<<>>) /\ \A x : Before(x, <<>>) /\ UpTo(<<>>, x)
    BY DEF Rising, Before, UpTo
  <1>2. b # <<>> => Len(b) \in 1 .. Len(b) /\ b[Len(b)] \in Nat
    OBVIOUS
  <1>3. Len(<<>>) = 0
    OBVIOUS
  <1>4. \A i \in 1 .. Len(<<>>) : Before(<<>>[i], v)
    BY <1>3
  <1>5. InOrder(s, <<>>, v) /\ (b # <<>> => InOrder(b[Len(b)], <<>>, v))
    BY <1>1, <1>2, <1>4 DEF InOrder
  <1>6. \A x \in Int : PassedUpTo(x, s, b, v) => PassedUpTo(x, s, <<>>, v)
    BY <1>1 DEF PassedUpTo
  <1>7. b # <<>> => \A x \in Int : PassedUpTo(x, s, b, v) => PassedUpTo(x, b[Len(b)], <<>>, v)
    BY <1>1, <1>2 DEF PassedUpTo, UpTo
  <1> QED
    BY <1>2, <1>5, <1>6, <1>7

(* What is in order stands in the order of the stream.                     *)
LEMMA OrderStream ==
    ASSUME NEW s \in Nat, NEW b \in Seq(Nat), NEW v \in Seq(Nat), InOrder(s, b, v),
           NEW t, t = <<s>> \o b \o v
    PROVE  \A i \in 1 .. Len(t) - 1 : t[i] < t[i + 1]
  <1>1. /\ Len(b) \in Nat /\ Len(v) \in Nat
        /\ Len(t) = 1 + Len(b) + Len(v)
        /\ t[1] = s
        /\ \A i \in 1 .. Len(b) : t[i + 1] = b[i] /\ b[i] \in Nat
        /\ \A i \in 1 .. Len(v) : t[i + 1 + Len(b)] = v[i] /\ v[i] \in Nat
    OBVIOUS
  <1> SUFFICES ASSUME NEW i \in 1 .. Len(t) - 1 PROVE t[i] < t[i + 1]
    OBVIOUS
  <1>2. CASE i + 1 <= 1 + Len(b)
    <2>1. i \in 1 .. Len(b) /\ t[i + 1] = b[i]
      BY <1>1, <1>2
    <2>2. CASE i = 1
      BY <1>1, <2>1, <2>2 DEF InOrder, Before
    <2>3. CASE i > 1
      <3>1. i - 1 \in 1 .. Len(b) /\ t[(i - 1) + 1] = b[i - 1]
        BY <1>1, <2>1, <2>3
      <3>2. i - 1 < i /\ Rising(b)
        BY DEF InOrder
      <3>3. b[i - 1] < b[i]
        BY <2>1, <3>1, <3>2, Zenon DEF Rising
      <3> QED
        BY <2>1, <3>1, <3>3
    <2> QED
      BY <2>2, <2>3, SMTT(30)
  <1>3. CASE i + 1 > 1 + Len(b)
    <2> DEFINE k == i - Len(b)
    <2>1. k \in 1 .. Len(v) /\ t[k + 1 + Len(b)] = v[k] /\ k + 1 + Len(b) = i + 1
      BY <1>1, <1>3
    <2>5. k \in Int /\ i = k + Len(b)
      BY <1>1
    <2> HIDE DEF k
    <2>2. CASE k > 1
      <3>1. k - 1 \in 1 .. Len(v) /\ t[(k - 1) + 1 + Len(b)] = v[k - 1] /\ (k - 1) + 1 + Len(b) = i
        BY <1>1, <2>1, <2>2, <2>5
      <3>2. k - 1 < k /\ Rising(v)
        BY <2>1 DEF InOrder
      <3>3. v[k - 1] < v[k]
        BY <2>1, <3>1, <3>2, Zenon DEF Rising
      <3> QED
        BY <2>1, <3>1, <3>3
    <2>3. CASE k = 1 /\ Len(b) = 0
      <3>1. i = 1 /\ t[i] = s /\ s < v[1]
        BY <1>1, <2>1, <2>3, <2>5 DEF InOrder, Before
      <3> QED
        BY <2>1, <2>3, <3>1
    <2>4. CASE k = 1 /\ Len(b) > 0
      <3>1. Len(b) \in 1 .. Len(b) /\ t[Len(b) + 1] = b[Len(b)] /\ i = Len(b) + 1
        BY <1>1, <2>1, <2>4, <2>5
      <3>2. b[Len(b)] < v[1]
        BY <2>1, <2>4, <3>1 DEF InOrder, Before
      <3> QED
        BY <2>1, <2>4, <3>1, <3>2
    <2>6. k > 1 \/ (k = 1 /\ Len(b) = 0) \/ (k = 1 /\ Len(b) > 0)
      BY <1>1, <2>1
    <2> QED
      BY <2>2, <2>3, <2>4, <2>6
  <1> QED
    BY <1>1, <1>2, <1>3, SMTT(30)

-----------------------------------------------------------------------------
(* The status of the job.                                                  *)

(* Until the user stops the job, the worker writes no status after a final *)
(* one, it tells the API of its end only after it, and terminate_job has   *)
(* not decided to change it.                                               *)
StatusInv ==
    /\ stop \in [{"user", "worker"} -> {"none", "called", "mark", "keep", "update", "done"}]
    /\ stop["user"] = "none" =>
          /\ status \in Final => main \in {"post", "exited", "killed"}
          /\ main = "post" => status \in Final
          /\ stop["worker"] # "none" => main \in {"exited", "killed"}
          /\ stop["worker"] \in {"mark", "update"} => status \notin Final

LEMMA StatusInit == Init => StatusInv
  BY DEF Init, StatusInv, Final

(* The threads leave the status alone, and do not reach the end of main.   *)
LEMMA StatusThreads ==
    ASSUME StatusInv, Download \/ Decode \/ RunTracking \/ Tick \/ UNCHANGED vars
    PROVE  StatusInv' /\ status' = status
  <1>1. UNCHANGED <<status, job, stop>>
    BY DEF Download, Decode, RunTracking, Tick, vars, managing
  <1>2. main' = main \/ {main, main'} \cap {"post", "exited", "killed"} = {}
    <2>1. CASE Download \/ Decode \/ Tick \/ UNCHANGED vars
      BY <2>1 DEF Download, Decode, Tick, vars, tracking
    <2>2. CASE RunTracking
      BY <2>2 DEF RunTracking, GetBatch, GetFull, GetShort, GetRest, GetNone, Judge, Completed,
                  Stopped, Process, ProcessRaises
    <2> QED
      BY <2>1, <2>2
  <1> QED
    BY <1>1, <1>2 DEF StatusInv

LEMMA StatusMain ==
    ASSUME StatusInv, WorkerMain
    PROVE  StatusInv' /\ (stop["user"] = "none" /\ status \in Final => status' = status)
  <1> USE DEF StatusInv, Final
  <1>1. CASE SetRunning
    BY <1>1 DEF SetRunning
  <1>2. CASE Open
    BY <1>2 DEF Open
  <1>3. CASE Conclude
    BY <1>3 DEF Conclude
  <1>4. CASE Fail
    BY <1>4 DEF Fail
  <1>5. CASE Post
    <2>1. /\ main \in {"post", "unstored"}
          /\ status' = status
          /\ stop' = [stop EXCEPT !["worker"] = "called"] \/ stop' = stop
          /\ stop' # stop => main' = "exited"
          /\ main = "post" => main' = "exited"
          /\ main' \in {"exited", "lost"}
      BY <1>5 DEF Post
    <2> QED
      BY <2>1
  <1> QED
    BY <1>1, <1>2, <1>3, <1>4, <1>5 DEF WorkerMain

LEMMA StatusApi ==
    ASSUME StatusInv, UserStops \/ Kill \/ \E c \in DOMAIN stop : TerminateJob(c)
    PROVE  StatusInv' /\ (stop["user"] = "none" /\ status \in Final => status' = status)
  <1>1. CASE UserStops
    <2>1. stop' = [stop EXCEPT !["user"] = IF Marks(status) THEN "mark" ELSE "keep"] /\ status' = status
      BY <1>1 DEF UserStops, ReadStatus
    <2> QED
      BY <2>1 DEF StatusInv
  <1>2. CASE Kill
    BY <1>2 DEF Kill, managing, StatusInv
  <1>3. ASSUME NEW c \in DOMAIN stop, TerminateJob(c)
        PROVE  StatusInv' /\ (stop["user"] = "none" /\ status \in Final => status' = status)
    <2>1. c \in {"user", "worker"}
      BY <1>3 DEF StatusInv
    <2>2. main' = main
      BY <1>3 DEF TerminateJob, ReadStatus, worker, tracking
    <2>3. \/ /\ stop[c] = "called" /\ status' = status
             /\ stop' = [stop EXCEPT ![c] = IF status \notin Final THEN "mark" ELSE "keep"]
          \/ /\ stop[c] \in {"mark", "keep"} /\ status' = status
             /\ stop' = [stop EXCEPT ![c] = IF stop[c] = "mark" THEN "update" ELSE "done"]
          \/ /\ stop[c] = "update" /\ status' = "STOPPED"
             /\ stop' = [stop EXCEPT ![c] = "done"]
      BY <1>3 DEF TerminateJob, ReadStatus, Marks
    <2>4. CASE c = "user"
      BY <2>2, <2>3, <2>4 DEF StatusInv
    <2>5. CASE c = "worker"
      BY <2>2, <2>3, <2>5 DEF StatusInv
    <2> QED
      BY <2>1, <2>4, <2>5
  <1> QED
    BY <1>1, <1>2, <1>3

LEMMA StatusStep ==
    ASSUME StatusInv, [Next]_vars
    PROVE  StatusInv' /\ (stop["user"] = "none" /\ status \in Final => status' = status)
  BY StatusThreads, StatusMain, StatusApi DEF Next

(* Unless the user stops the job, the status it ended with stays, although *)
(* the API changes it after it has read it, in another step and for every  *)
(* worker that ends.                                                       *)
THEOREM OutcomeIsKept == Spec => OutcomeKept
  <1>1. Spec => []StatusInv
    BY StatusInit, StatusStep, PTL DEF Spec
  <1>2. StatusInv /\ [Next]_vars => [stop.user = "none" /\ status \in Final => status' = status]_vars
    BY StatusStep
  <1> QED
    BY <1>1, <1>2, PTL DEF Spec, OutcomeKept

-----------------------------------------------------------------------------
(* The lists.                                                              *)

Videos == [chunk : Nat \ {0}, ts : Nat]

BufferOK ==
    /\ video_frames \in Seq(Nat)
    /\ video_frame_timestamps \in Seq(Int)
    /\ batch \in [frames : Seq(Nat), stamps : Seq(Int)]
    /\ seen \in Nat
    /\ frame_idx \in Nat
    /\ video_ts \in Nat
    /\ now \in Nat

SourceOK ==
    /\ cap \in Seq(Nat)
    /\ listed \in Nat
    /\ chunk_names \in Seq(Nat \ {0})
    /\ last_downloaded \in Seq(Nat \ {0})
    /\ downloaded_videos \in Seq(Videos)

(* The decoder looks whether it is ahead before a frame, or before a       *)
(* chunk, whose frames it then adds one by one.                            *)
BufferInv ==
    /\ Len(video_frame_timestamps) = Len(video_frames) + IF decode = "frame" THEN 1 ELSE 0
    /\ Len(batch.frames) = Len(batch.stamps)
    /\ decode = "frame" /\ Online => Len(video_frames) <= Backlog
    /\ decode = "frame" /\ ~Online => cap # <<>>
    /\ decode \in {"read", "frame"} /\ ~Online =>
          Len(video_frames) + Len(cap) <= Backlog + ChunkFrames
    /\ Len(video_frames) <= Backlog + Max({1, ChunkFrames})
    /\ main = "process" => batch.frames # <<>>
    /\ Online => cap = <<>>
    /\ main \in {"created", "open"} => decode = "idle"

ListsInv == BufferOK /\ SourceOK /\ BufferInv

LEMMA Bounds ==
    /\ Backlog \in Nat /\ ChunkFrames \in Nat /\ Skip \in Nat /\ Batch \in Nat /\ MaxChunks \in Nat
    /\ Listed \in Nat \ {0} /\ Remember \in Nat \ {0} /\ Listed <= Remember
    /\ Max({1, ChunkFrames}) \in Nat
    /\ Max({1, ChunkFrames}) >= 1 /\ Max({1, ChunkFrames}) >= ChunkFrames
  BY WorkerAssumption, GreatestOfTwo

LEMMA ListsInit == Init => ListsInv
  BY Bounds DEF Init, ListsInv, BufferOK, SourceOK, BufferInv, Nothing

(* What the main thread does to the lists, the batch and the last frame.   *)
Pops == \E n \in 0 .. Len(video_frames) : Pop(n) /\ seen' = seen /\ main' # "process"
Drops == UNCHANGED <<buffers, seen>> /\ batch' = Nothing /\ main' # "process"
Looks == UNCHANGED <<buffers, batch, seen>> /\ (main' = "process" => batch.stamps # <<>>)
Processes ==
    /\ main = "process" /\ main' # "process"
    /\ UNCHANGED buffers /\ batch' = Nothing /\ seen' = Last(batch.frames)

LEMMA TrackingEffect ==
    ASSUME ListsInv, RunTracking
    PROVE  /\ Pops \/ Drops \/ Looks \/ Processes
           /\ UNCHANGED <<mode, now, downloading, downloaded_videos, decoding>>
           /\ main' \notin {"created", "open"}
  <1>1. /\ UNCHANGED <<mode, now, downloading, downloaded_videos, decoding>>
        /\ main' \notin {"created", "open"}
    BY DEF RunTracking, GetBatch, GetFull, GetShort, GetRest, GetNone, Judge, Completed, Stopped,
           Process, ProcessRaises
  <1>2. CASE GetBatch
    <2>1. seen' = seen
      BY <1>2 DEF GetBatch
    <2>2. Len(video_frames) \in Nat
      BY DEF ListsInv, BufferOK
    <2>3. CASE GetFull
      <3>1. CASE Len(video_frames) >= Batch
        <4>1. Pop(Batch) /\ main' = "completed"
          BY <2>3, <3>1 DEF GetFull
        <4>2. Batch \in 0 .. Len(video_frames)
          BY <3>1, <2>2, Bounds
        <4> QED
          BY <1>1, <2>1, <4>1, <4>2 DEF Pops
      <3>2. CASE ~(Len(video_frames) >= Batch)
        <4>1. Drops
          BY <2>1, <2>3, <3>2 DEF GetFull, Drops
        <4> QED
          BY <1>1, <4>1
      <3> QED
        BY <3>1, <3>2
    <2>4. CASE GetShort \/ GetNone
      <3>1. Looks
        BY <2>1, <2>4 DEF GetShort, GetNone, Looks
      <3> QED
        BY <1>1, <3>1
    <2>5. CASE GetRest
      <3>1. CASE video_ended
        <4>1. Pop(Len(video_frames)) /\ main' = "completed"
          BY <2>5, <3>1 DEF GetRest
        <4>2. Len(video_frames) \in 0 .. Len(video_frames)
          BY <2>2
        <4> QED
          BY <1>1, <2>1, <4>1, <4>2 DEF Pops
      <3>2. CASE ~video_ended
        <4>1. Looks
          BY <2>1, <2>5, <3>2 DEF GetRest, Looks
        <4> QED
          BY <1>1, <4>1
      <3> QED
        BY <3>1, <3>2
    <2> QED
      BY <1>2, <2>3, <2>4, <2>5 DEF GetBatch
  <1>3. CASE Judge
    <2>1. Looks
      BY <1>3 DEF Judge, Completed, Stopped, Looks
    <2> QED
      BY <1>1, <2>1
  <1>4. CASE Process
    BY <1>1, <1>4 DEF Process, Processes
  <1>5. CASE ProcessRaises
    <2>1. Looks
      BY <1>5 DEF ProcessRaises, Looks
    <2> QED
      BY <1>1, <2>1
  <1> QED
    BY <1>2, <1>3, <1>4, <1>5 DEF RunTracking

LEMMA ListsTracking ==
    ASSUME ListsInv, RunTracking
    PROVE  ListsInv'
  <1> USE DEF ListsInv
  <1>1. /\ Pops \/ Drops \/ Looks \/ Processes
        /\ UNCHANGED <<mode, now, downloaded_videos, decode, cap, frame_idx, video_ts>>
        /\ UNCHANGED <<download, listed, chunk_names, last_downloaded>>
        /\ main' \notin {"created", "open"}
    BY TrackingEffect DEF decoding, downloading
  <1>2. SourceOK'
    BY <1>1 DEF SourceOK
  <1>3. CASE Pops
    <2>1. PICK n \in 0 .. Len(video_frames) : Pop(n) /\ seen' = seen /\ main' # "process"
      BY <1>3 DEF Pops
    <2>2. n \in 0 .. Len(video_frame_timestamps)
      BY DEF BufferOK, BufferInv
    <2>3. /\ video_frames' \in Seq(Nat) /\ Len(video_frames') = Len(video_frames) - n
          /\ batch'.frames \in Seq(Nat) /\ Len(batch'.frames) = n
      BY <2>1, Cut, SMTT(30) DEF Pop, BufferOK
    <2>4. /\ video_frame_timestamps' \in Seq(Int)
          /\ Len(video_frame_timestamps') = Len(video_frame_timestamps) - n
          /\ batch'.stamps \in Seq(Int) /\ Len(batch'.stamps) = n
      BY <2>1, <2>2, Cut DEF Pop, BufferOK
    <2>5. batch' = [frames |-> batch'.frames, stamps |-> batch'.stamps]
      BY <2>1 DEF Pop
    <2>6. BufferOK'
      BY <1>1, <2>1, <2>3, <2>4, <2>5 DEF BufferOK
    <2>7. BufferInv'
      <3>1. Len(video_frames) \in Nat /\ Len(video_frame_timestamps) \in Nat /\ Len(cap) \in Nat
        BY DEF BufferOK, SourceOK
      <3> HIDE DEF ListsInv
      <3> QED
        BY <1>1, <2>1, <2>3, <2>4, <3>1, Bounds, SMTT(30) DEF BufferInv, Online, ListsInv
    <2> QED
      BY <1>2, <2>6, <2>7
  <1>4. CASE Drops
    BY <1>1, <1>2, <1>4 DEF Drops, buffers, Nothing, BufferOK, BufferInv, Online
  <1>5. CASE Looks
    <2>1. batch.stamps # <<>> => batch.frames # <<>>
      BY DEF BufferOK, BufferInv
    <2> QED
      BY <1>1, <1>2, <1>5, <2>1 DEF Looks, buffers, BufferOK, BufferInv, Online
  <1>6. CASE Processes
    <2>1. Last(batch.frames) \in Nat
      BY <1>6 DEF Processes, BufferOK, BufferInv, Last
    <2> QED
      BY <1>1, <1>2, <1>6, <2>1 DEF Processes, buffers, Nothing, BufferOK, BufferInv, Online
  <1> QED
    BY <1>1, <1>3, <1>4, <1>5, <1>6

(* What the decoder does: nothing to the lists, the time of a frame added, *)
(* a frame skipped, a chunk taken, the frame itself added.                 *)
Idles ==
    /\ decode # "frame" /\ decode' \notin {"frame", "read"}
    /\ UNCHANGED <<buffers, cap, frame_idx, downloaded_videos>>
Stamps ==
    /\ decode # "frame" /\ decode' = "frame"
    /\ IF Online THEN ~Ahead ELSE decode = "read" /\ cap # <<>>
    /\ \E x \in Int : video_frame_timestamps' = Append(video_frame_timestamps, x)
    /\ UNCHANGED <<video_frames, cap, frame_idx, downloaded_videos>>
Skips ==
    /\ decode # "frame" /\ decode' = decode
    /\ frame_idx' = frame_idx + 1
    /\ IF Online THEN cap' = cap ELSE decode = "read" /\ cap # <<>> /\ cap' = Tail(cap)
    /\ UNCHANGED <<buffers, downloaded_videos>>
TakesChunk ==
    /\ ~Online /\ decode \in {"loop", "again"} /\ decode' = "read"
    /\ downloaded_videos # <<>> /\ ~Ahead
    /\ downloaded_videos' = Tail(downloaded_videos)
    /\ cap' = FramesOf(Head(downloaded_videos).chunk)
    /\ UNCHANGED <<buffers, frame_idx>>
Adds ==
    /\ decode = "frame" /\ decode' \in {"loop", "read"} /\ (Online => decode' = "loop")
    /\ IF Online THEN video_frames' = Append(video_frames, frame_idx + 1) /\ cap' = cap
                 ELSE video_frames' = Append(video_frames, Head(cap)) /\ cap' = Tail(cap)
    /\ frame_idx' = frame_idx + 1
    /\ UNCHANGED <<video_frame_timestamps, downloaded_videos>>

LEMMA DecodeEffect ==
    ASSUME ListsInv, Decode
    PROVE  /\ Idles \/ Stamps \/ Skips \/ TakesChunk \/ Adds
           /\ video_ts' \in Nat
           /\ UNCHANGED <<mode, now, downloading, tracking>>
           /\ decode # "idle"
  <1>1. /\ UNCHANGED <<mode, now, downloading, tracking>>
        /\ decode # "idle"
    BY DEF Decode, OnlineRead, OnlineEnd, OfflineLoop, OfflineNone, OfflineAgain, OfflineRead,
           SecondAppend, OfflineEnd, TakeChunk
  <1>2. frame_idx \in Nat /\ video_ts \in Nat
    BY DEF ListsInv, BufferOK
  <1>3. ASSUME NEW f, NEW x \in Int, NEW again, ReadFrame(f, x, again),
               decode # "frame", again = decode, downloaded_videos' = downloaded_videos,
               IF Online THEN ~Ahead ELSE decode = "read" /\ cap # <<>>
        PROVE  Stamps \/ Skips
    <2>1. CASE Kept
      BY <1>3, <2>1 DEF ReadFrame, AppendStep, Stamps
    <2>2. CASE ~Kept
      BY <1>3, <2>2 DEF ReadFrame, Skips
    <2> QED
      BY <2>1, <2>2
  <1>4. CASE OnlineRead
    <2>1. /\ Online /\ decode = "loop" /\ ~Ahead
          /\ UNCHANGED <<video_ts, downloaded_videos>>
      BY <1>4 DEF OnlineRead
    <2>2. CASE ReadFrame(frame_idx + 1, frame_idx, "loop")
      <3>1. Stamps \/ Skips
        BY <1>2, <1>3, <2>1, <2>2
      <3> QED
        BY <1>1, <1>2, <2>1, <3>1
    <2>3. CASE decode' = "ended" /\ UNCHANGED <<frame_idx, cap, buffers>>
      BY <1>1, <1>2, <2>1, <2>3 DEF Idles
    <2> QED
      BY <1>4, <2>2, <2>3 DEF OnlineRead
  <1>5. CASE OnlineEnd \/ OfflineNone \/ OfflineEnd
    BY <1>1, <1>2, <1>5 DEF OnlineEnd, OfflineNone, OfflineEnd, Idles
  <1>6. CASE OfflineLoop \/ OfflineAgain
    <2>1. CASE decode' = "read"
      <3>1. TakesChunk /\ video_ts' = Head(downloaded_videos).ts
        BY <1>6, <2>1, SMTT(30) DEF OfflineLoop, OfflineAgain, TakeChunk, TakesChunk, ListsInv, BufferInv
      <3>2. Head(downloaded_videos) \in Videos
        BY <3>1, HeadTail DEF TakesChunk, ListsInv, SourceOK
      <3> QED
        BY <1>1, <3>1, <3>2 DEF Videos
    <2>2. CASE decode' # "read"
      BY <1>1, <1>2, <1>6, <2>2 DEF OfflineLoop, OfflineAgain, TakeChunk, Idles
    <2> QED
      BY <2>1, <2>2
  <1>7. CASE OfflineRead
    <2>1. decode = "read" /\ downloaded_videos' = downloaded_videos
      BY <1>7 DEF OfflineRead
    <2>2. CASE cap = <<>>
      BY <1>1, <1>2, <1>7, <2>1, <2>2 DEF OfflineRead, Idles
    <2>3. CASE cap # <<>>
      <3>1. video_ts' = video_ts + 1 /\ ReadFrame(Head(cap), video_ts + 1, "read")
        BY <1>7, <2>3 DEF OfflineRead
      <3>2. ~Online
        BY <2>3 DEF ListsInv, BufferInv
      <3>3. Stamps \/ Skips
        BY <1>2, <1>3, <2>1, <2>3, <3>1, <3>2
      <3> QED
        BY <1>1, <1>2, <3>1, <3>3
    <2> QED
      BY <2>2, <2>3
  <1>8. CASE SecondAppend
    BY <1>1, <1>2, <1>8 DEF SecondAppend, AppendStep, Adds
  <1> QED
    BY <1>4, <1>5, <1>6, <1>7, <1>8 DEF Decode

(* The frames of a chunk.                                                  *)
LEMMA FramesOfChunk ==
    ASSUME NEW c \in Nat \ {0}
    PROVE  /\ FramesOf(c) \in Seq(Nat) /\ Len(FramesOf(c)) = ChunkFrames
           /\ (c - 1) * ChunkFrames \in Nat
           /\ \A i \in 1 .. ChunkFrames : FramesOf(c)[i] = (c - 1) * ChunkFrames + i
  <1>1. (c - 1) * ChunkFrames \in Nat
    <2>1. ASSUME NEW a \in Nat, NEW b \in Nat PROVE a * b \in Nat
      OBVIOUS
    <2> QED
      BY <2>1, Bounds
  <1>2. \A i \in 1 .. ChunkFrames : FramesOf(c)[i] = (c - 1) * ChunkFrames + i
    BY DEF FramesOf
  <1>3. FramesOf(c) \in [1 .. ChunkFrames -> Nat]
    BY <1>1, Bounds DEF FramesOf
  <1>4. FramesOf(c) \in Seq(Nat) /\ Len(FramesOf(c)) = ChunkFrames
    BY <1>3, Bounds
  <1> QED
    BY <1>1, <1>2, <1>4

LEMMA ListsDecode ==
    ASSUME ListsInv, Decode
    PROVE  ListsInv'
  <1>1. /\ Idles \/ Stamps \/ Skips \/ TakesChunk \/ Adds
        /\ video_ts' \in Nat
        /\ UNCHANGED <<mode, now, listed, chunk_names, last_downloaded, main, batch, seen>>
        /\ decode # "idle"
    BY DecodeEffect DEF downloading, tracking
  <1>2. BufferOK /\ SourceOK /\ BufferInv
    BY DEF ListsInv
  <1>3. Len(video_frames) \in Nat /\ Len(video_frame_timestamps) \in Nat /\ Len(cap) \in Nat
    BY <1>2 DEF BufferOK, SourceOK
  <1>4. Online' = Online
    BY <1>1 DEF Online
  <1> USE <1>1, <1>2, <1>3, <1>4, Bounds
  <1>5. CASE Idles
    BY <1>5 DEF Idles, buffers, ListsInv, BufferOK, SourceOK, BufferInv
  <1>6. CASE Stamps
    <2>1. /\ video_frame_timestamps' \in Seq(Int)
          /\ Len(video_frame_timestamps') = Len(video_frame_timestamps) + 1
      BY <1>6 DEF Stamps, BufferOK
    <2>2. BufferOK' /\ SourceOK'
      BY <1>6, <2>1 DEF Stamps, BufferOK, SourceOK
    <2>3. BufferInv'
      BY <1>6, <2>1 DEF Stamps, BufferInv, Ahead
    <2> QED
      BY <2>2, <2>3 DEF ListsInv
  <1>7. CASE Skips
    <2>1. cap' \in Seq(Nat) /\ Len(cap') \in Nat /\ Len(cap') <= Len(cap)
      <3>1. CASE Online
        BY <1>7, <3>1 DEF Skips, SourceOK
      <3>2. CASE ~Online
        <4>1. cap \in Seq(Nat) /\ cap # <<>> /\ cap' = Tail(cap)
          BY <1>7, <3>2 DEF Skips, SourceOK
        <4>2. Tail(cap) \in Seq(Nat) /\ Len(Tail(cap)) = Len(cap) - 1 /\ Len(cap) \in Nat \ {0}
          BY <4>1, HeadTail
        <4> QED
          BY <4>1, <4>2
      <3> QED
        BY <3>1, <3>2
    <2>2. BufferOK' /\ SourceOK'
      BY <1>7, <2>1 DEF Skips, buffers, BufferOK, SourceOK
    <2>3. BufferInv'
      BY <1>7, <2>1 DEF Skips, buffers, BufferInv
    <2> QED
      BY <2>2, <2>3 DEF ListsInv
  <1>8. CASE TakesChunk
    <2>1. /\ downloaded_videos' \in Seq(Videos)
          /\ Head(downloaded_videos) \in Videos
      BY <1>8, HeadTail DEF TakesChunk, SourceOK
    <2>2. cap' \in Seq(Nat) /\ Len(cap') = ChunkFrames
      BY <1>8, <2>1, FramesOfChunk DEF TakesChunk, Videos
    <2>3. BufferOK' /\ SourceOK'
      BY <1>8, <2>1, <2>2 DEF TakesChunk, buffers, BufferOK, SourceOK
    <2>4. BufferInv'
      BY <1>8, <2>2 DEF TakesChunk, Ahead, buffers, BufferInv
    <2> QED
      BY <2>3, <2>4 DEF ListsInv
  <1>9. CASE Adds
    <2>1. ~Online => cap' \in Seq(Nat) /\ Len(cap') = Len(cap) - 1 /\ Head(cap) \in Nat
      BY <1>9, TailRising DEF Adds, BufferInv, SourceOK
    <2>2. cap' \in Seq(Nat)
      BY <1>9, <2>1 DEF Adds, SourceOK
    <2>3. video_frames' \in Seq(Nat) /\ Len(video_frames') = Len(video_frames) + 1
      <3>1. \A f \in Nat : /\ Append(video_frames, f) \in Seq(Nat)
                           /\ Len(Append(video_frames, f)) = Len(video_frames) + 1
        BY DEF BufferOK
      <3>2. frame_idx + 1 \in Nat
        BY DEF BufferOK
      <3> QED
        BY <1>9, <2>1, <3>1, <3>2 DEF Adds
    <2>4. BufferOK' /\ SourceOK'
      BY <1>9, <2>2, <2>3 DEF Adds, BufferOK, SourceOK
    <2>5. BufferInv'
      <3>1. CASE Online
        BY <1>9, <2>3, <3>1 DEF Adds, BufferInv
      <3>2. CASE ~Online
        <4>1. Len(cap') \in Nat /\ Len(cap') = Len(cap) - 1
          BY <2>1, <3>2
        <4>2. /\ Len(video_frames) + Len(cap) <= Backlog + ChunkFrames
              /\ Len(video_frame_timestamps) = Len(video_frames) + 1
          BY <1>9, <3>2 DEF Adds, BufferInv
        <4>3. /\ Len(video_frames') + Len(cap') <= Backlog + ChunkFrames
              /\ Len(video_frames') <= Backlog + Max({1, ChunkFrames})
              /\ Len(video_frame_timestamps) = Len(video_frames')
          BY <4>1, <4>2, <2>3
        <4> QED
          BY <1>9, <3>2, <4>3 DEF Adds, BufferInv
      <3> QED
        BY <3>1, <3>2
    <2> QED
      BY <2>4, <2>5 DEF ListsInv
  <1> QED
    BY <1>5, <1>6, <1>7, <1>8, <1>9

(* The chunks that are downloaded.                                         *)
LEMMA ListsDownload ==
    ASSUME ListsInv, Download
    PROVE  ListsInv'
  <1>1. UNCHANGED <<mode, video_frames, video_frame_timestamps, now, decode, cap, frame_idx, video_ts,
                    main, batch, seen>>
    BY DEF Download, buffers, decoding, tracking
  <1>2. BufferOK /\ SourceOK /\ BufferInv
    BY DEF ListsInv
  <1>3. BufferOK' /\ BufferInv'
    BY <1>1, <1>2 DEF BufferOK, BufferInv, Online
  <1>4. SourceOK'
    <2>1. CASE DownloadRound
      <3>1. UNCHANGED <<last_downloaded, downloaded_videos>>
        BY <2>1 DEF DownloadRound
      <3>2. CASE UNCHANGED <<listed, chunk_names>>
        BY <1>1, <1>2, <3>1, <3>2 DEF SourceOK
      <3>3. ASSUME NEW hi \in listed .. MaxChunks,
                   listed' = hi,
                   chunk_names' = [i \in 1 .. Min({hi, Listed}) |-> hi - Min({hi, Listed}) + i]
            PROVE  SourceOK'
        <4> DEFINE n == Min({hi, Listed})
        <4>1. hi \in Nat /\ n \in Nat /\ n <= hi
          <5>1. hi \in Nat /\ Listed \in Nat
            BY <1>2, <3>3, Bounds DEF SourceOK
          <5>2. n = IF hi <= Listed THEN hi ELSE Listed
            BY <5>1, LeastOfTwo
          <5> QED
            BY <5>1, <5>2
        <4> HIDE DEF n
        <4>2. chunk_names' = [i \in 1 .. n |-> hi - n + i]
          BY <3>3 DEF n
        <4>3. chunk_names' \in [1 .. n -> Nat \ {0}]
          BY <4>1, <4>2
        <4>4. chunk_names' \in Seq(Nat \ {0})
          BY <4>1, <4>3
        <4> QED
          BY <1>1, <1>2, <3>1, <3>3, <4>1, <4>4 DEF SourceOK
      <3> QED
        BY <2>1, <3>2, <3>3 DEF DownloadRound
    <2>2. CASE DownloadChunk
      <3>1. listed' = listed
        BY <2>2 DEF DownloadChunk
      <3>2. CASE UNCHANGED <<chunk_names, last_downloaded, downloaded_videos>>
        BY <1>1, <1>2, <3>1, <3>2 DEF SourceOK
      <3>3. CASE chunk_names # <<>> /\ chunk_names' = Tail(chunk_names)
        <4>1. Head(chunk_names) \in Nat \ {0} /\ chunk_names' \in Seq(Nat \ {0})
          BY <1>2, <3>3, HeadTail DEF SourceOK
        <4>2. \/ UNCHANGED <<last_downloaded, downloaded_videos>>
              \/ /\ last_downloaded' = Remembered(last_downloaded, Head(chunk_names))
                 /\ downloaded_videos' \in
                        {downloaded_videos,
                         Append(downloaded_videos, [chunk |-> Head(chunk_names), ts |-> now])}
          BY <2>2, <3>3 DEF DownloadChunk
        <4>3. last_downloaded' \in Seq(Nat \ {0})
          <5>1. last_downloaded \in Seq(Nat \ {0})
            BY <1>2 DEF SourceOK
          <5>2. Len(last_downloaded) > Remember - 1 => last_downloaded # <<>>
            BY <5>1, Bounds
          <5> QED
            <6>1. Len(last_downloaded) > Remember - 1 => Tail(last_downloaded) \in Seq(Nat \ {0})
              BY <5>1, <5>2, HeadTail
            <6>2. \A t \in Seq(Nat \ {0}) : Append(t, Head(chunk_names)) \in Seq(Nat \ {0})
              BY <4>1
            <6> QED
              BY <4>2, <5>1, <6>1, <6>2 DEF Remembered
        <4>4. downloaded_videos' \in Seq(Videos)
          <5>1. [chunk |-> Head(chunk_names), ts |-> now] \in Videos
            BY <1>2, <4>1 DEF Videos, BufferOK
          <5>2. downloaded_videos \in Seq(Videos)
            BY <1>2 DEF SourceOK
          <5> QED
            BY <4>2, <5>1, <5>2
        <4> QED
          BY <1>1, <1>2, <3>1, <4>1, <4>3, <4>4 DEF SourceOK
      <3> QED
        BY <2>2, <3>2, <3>3 DEF DownloadChunk
    <2> QED
      BY <2>1, <2>2 DEF Download
  <1> QED
    BY <1>3, <1>4 DEF ListsInv

LEMMA ListsStep == ListsInv /\ [Next]_vars => ListsInv'
  <1> SUFFICES ASSUME ListsInv, [Next]_vars PROVE ListsInv'
    OBVIOUS
  <1>1. CASE WorkerMain
    <2>1. /\ UNCHANGED <<mode, buffers, now, listed, chunk_names, last_downloaded, downloaded_videos,
                         cap, frame_idx, video_ts, batch, seen>>
          /\ main' # "process"
          /\ main' # "created"
          /\ decode' = decode \/ (decode' = "loop" /\ main = "open" /\ main' \in {"batch", "raised"})
          /\ main' = "open" => main = "created"
      BY <1>1 DEF WorkerMain, SetRunning, Open, Conclude, Fail, Post
    <2> QED
      BY <2>1 DEF buffers, ListsInv, BufferOK, SourceOK, BufferInv, Online
  <1>2. CASE UserStops \/ \E c \in DOMAIN stop : TerminateJob(c)
    <2>1. UNCHANGED worker
      BY <1>2 DEF UserStops, TerminateJob, ReadStatus
    <2> QED
      BY <2>1 DEF worker, buffers, downloading, decoding, tracking, ListsInv, BufferOK, SourceOK,
                  BufferInv, Online
  <1>3. CASE Kill
    BY <1>3, Bounds DEF Kill, ListsInv, BufferOK, SourceOK, BufferInv, Nothing
  <1>4. CASE Tick
    BY <1>4 DEF Tick, buffers, downloading, decoding, tracking, ListsInv, BufferOK, SourceOK,
                BufferInv, Online
  <1>5. CASE UNCHANGED vars
    BY <1>5 DEF vars, buffers, downloading, decoding, tracking, ListsInv, BufferOK, SourceOK,
                BufferInv, Online
  <1> QED
    BY <1>1, <1>2, <1>3, <1>4, <1>5, ListsDownload, ListsDecode, ListsTracking DEF Next

LEMMA ListsCorrect == Spec => []ListsInv
  BY ListsInit, ListsStep, PTL DEF Spec

(* The two lists, shared by two threads without a lock, stay aligned and   *)
(* bounded for streams of any length and chunks of any size.               *)
THEOREM BuffersAreSound == Spec => []BuffersSound
  <1>1. ListsInv => BuffersSound
    BY DEF ListsInv, BufferOK, BufferInv, BuffersSound
  <1> QED
    BY <1>1, ListsCorrect, PTL

-----------------------------------------------------------------------------
(* The chunks of a playlist.                                               *)

(* Chunks that rise by at least one: a dropped one is far behind the last. *)
Spread(s) == \A i, j \in 1 .. Len(s) : i <= j => s[j] - s[i] >= j - i
LatestOf(s) == IF s = <<>> THEN 0 ELSE s[Len(s)]

(* What is listed up to the latest chunk that was downloaded, and what was *)
(* gone through of the playlist in this round, is remembered.              *)
DownloadInv ==
    /\ LatestOf(last_downloaded) <= listed
    /\ Len(last_downloaded) <= Remember
    /\ Spread(last_downloaded)
    /\ \A c \in 1 .. LatestOf(last_downloaded) :
          c > listed - Listed => Contains(last_downloaded, c)
    /\ Len(chunk_names) <= Listed
    /\ \A i \in 1 .. Len(chunk_names) : chunk_names[i] = listed - Len(chunk_names) + i
    /\ download = "chunks" =>
          \A c \in 1 .. listed - Len(chunk_names) :
              c > listed - Listed => Contains(last_downloaded, c)

(* The last chunks are remembered when another is added.                   *)
LEMMA RememberedLast ==
    ASSUME NEW s \in Seq(Nat \ {0}), Spread(s), Len(s) <= Remember, NEW h \in Nat \ {0},
           LatestOf(s) < h, NEW r, r = Remembered(s, h)
    PROVE  /\ r \in Seq(Nat \ {0}) /\ LatestOf(r) = h
           /\ Len(r) <= Remember /\ Spread(r)
           /\ Contains(r, h)
           /\ \A c \in Nat : Contains(s, c) /\ c > h - Remember => Contains(r, c)
  <1> DEFINE d == IF Len(s) > Remember - 1 THEN 1 ELSE 0
             t == IF Len(s) > Remember - 1 THEN Tail(s) ELSE s
  <1>1. Len(s) \in Nat /\ \A i \in 1 .. Len(s) : s[i] \in Nat \ {0}
    OBVIOUS
  <1>2. d \in {0, 1} /\ d <= Len(s) /\ Len(s) - d + 1 <= Remember
    BY <1>1, Bounds
  <1>3. d = 1 => Len(s) = Remember
    BY <1>1, Bounds
  <1>4. t \in Seq(Nat \ {0}) /\ Len(t) = Len(s) - d /\ \A i \in 1 .. Len(t) : t[i] = s[i + d]
    <2>1. CASE Len(s) > Remember - 1
      <3>1. s # <<>>
        BY <1>1, <2>1, Bounds
      <3>2. /\ Tail(s) \in Seq(Nat \ {0}) /\ Len(Tail(s)) = Len(s) - 1
            /\ \A i \in 1 .. Len(s) - 1 : Tail(s)[i] = s[i + 1]
        BY <3>1, HeadTail
      <3> QED
        BY <2>1, <3>2
    <2>2. CASE ~(Len(s) > Remember - 1)
      BY <1>1, <2>2
    <2> QED
      BY <2>1, <2>2
  <1>5. r = Append(t, h)
    BY DEF Remembered
  <1> HIDE DEF t, d
  <1>6. /\ r \in Seq(Nat \ {0}) /\ Len(r) = Len(t) + 1 /\ r[Len(r)] = h
        /\ \A i \in 1 .. Len(t) : r[i] = t[i]
    BY <1>4, <1>5
  <1> DEFINE n == Len(s) - d
  <1>7. /\ n \in Nat /\ Len(r) = n + 1 /\ r[n + 1] = h /\ n + 1 <= Remember /\ n + d = Len(s)
        /\ n = Len(t)
    BY <1>1, <1>2, <1>4, <1>6
  <1> HIDE DEF n
  <1>8. \A i \in 1 .. n : r[i] = s[i + d] /\ i + d \in 1 .. Len(s)
    <2>1. \A i \in 1 .. n : i + d \in 1 .. Len(s)
      BY <1>2, <1>7
    <2>2. \A i \in 1 .. n : r[i] = t[i] /\ t[i] = s[i + d]
      BY <1>4, <1>6, <1>7
    <2> QED
      BY <2>1, <2>2
  <1>9. \A i \in 1 .. Len(s) : h - s[i] >= Len(s) - i + 1
    <2> SUFFICES ASSUME NEW i \in 1 .. Len(s) PROVE h - s[i] >= Len(s) - i + 1
      OBVIOUS
    <2>1. Len(s) \in 1 .. Len(s) /\ s # <<>>
      BY <1>1
    <2>2. s[Len(s)] - s[i] >= Len(s) - i
      BY <1>1, <2>1 DEF Spread
    <2>3. s[Len(s)] < h
      BY <2>1 DEF LatestOf
    <2> QED
      BY <1>1, <2>1, <2>2, <2>3
  <1>10. LatestOf(r) = h
    BY <1>6, <1>7 DEF LatestOf
  <1>11. Spread(r)
    <2> SUFFICES ASSUME NEW i \in 1 .. n + 1, NEW j \in 1 .. n + 1, i <= j
                 PROVE  r[j] - r[i] >= j - i
      BY <1>7 DEF Spread
    <2>1. CASE j \in 1 .. n
      <3>1. i \in 1 .. n
        BY <1>7, <2>1
      <3>2. s[j + d] - s[i + d] >= (j + d) - (i + d)
        BY <1>2, <1>8, <2>1, <3>1 DEF Spread
      <3> QED
        BY <1>2, <1>8, <2>1, <3>1, <3>2
    <2>2. CASE j = n + 1 /\ i \in 1 .. n
      <3>1. h - s[i + d] >= Len(s) - (i + d) + 1
        BY <1>8, <1>9, <2>2
      <3> QED
        BY <1>2, <1>7, <1>8, <2>2, <3>1
    <2>3. CASE j = n + 1 /\ i = n + 1
      BY <1>7, <2>3
    <2> QED
      BY <1>7, <2>1, <2>2, <2>3
  <1>12. Contains(r, h)
    BY <1>6, <1>7 DEF Contains
  <1>13. ASSUME NEW c \in Nat, Contains(s, c), c > h - Remember
         PROVE  Contains(r, c)
    <2>1. PICK i \in 1 .. Len(s) : s[i] = c
      BY <1>13 DEF Contains
    <2>2. h - c >= Len(s) - i + 1
      BY <1>9, <2>1
    <2>3. i - d \in 1 .. n
      BY <1>1, <1>2, <1>3, <1>7, <1>13, <2>1, <2>2, Bounds
    <2>4. r[i - d] = s[(i - d) + d] /\ (i - d) + d = i
      BY <1>2, <1>8, <2>3
    <2>5. r[i - d] = c /\ i - d \in 1 .. Len(r)
      BY <1>7, <2>1, <2>3, <2>4
    <2> QED
      BY <2>5 DEF Contains
  <1> QED
    BY <1>6, <1>7, <1>10, <1>11, <1>12, <1>13

(* A step of the downloading thread either remembers nothing new, or a     *)
(* chunk that is later than all before it.                                 *)
LEMMA DownloadEffect ==
    ASSUME ListsInv, DownloadInv, Download
    PROVE  /\ DownloadInv'
           /\ \/ UNCHANGED <<last_downloaded, downloaded_videos>>
              \/ \E h \in Nat \ {0} :
                    /\ h > LatestOf(last_downloaded)
                    /\ LatestOf(last_downloaded') = h
                    /\ \/ downloaded_videos' = downloaded_videos
                       \/ downloaded_videos' = Append(downloaded_videos, [chunk |-> h, ts |-> now])
  <1>0. /\ listed \in Nat /\ chunk_names \in Seq(Nat \ {0}) /\ last_downloaded \in Seq(Nat \ {0})
        /\ LatestOf(last_downloaded) \in Nat /\ Len(chunk_names) \in Nat
    BY DEF ListsInv, SourceOK, LatestOf
  <1>1. CASE DownloadRound
    <2>1. UNCHANGED <<last_downloaded, downloaded_videos>>
      BY <1>1 DEF DownloadRound
    <2>2. CASE UNCHANGED <<listed, chunk_names>> /\ download' = "stopped"
      BY <2>1, <2>2 DEF DownloadInv
    <2>3. ASSUME NEW hi \in listed .. MaxChunks,
                 listed' = hi,
                 chunk_names' = [i \in 1 .. Min({hi, Listed}) |-> hi - Min({hi, Listed}) + i]
          PROVE  DownloadInv'
      <3> DEFINE n == Min({hi, Listed})
      <3>1. hi \in Nat /\ listed <= hi /\ Listed \in Nat
        BY <1>0, <2>3, Bounds
      <3>2. n = IF hi <= Listed THEN hi ELSE Listed
        BY <3>1, LeastOfTwo
      <3>3. chunk_names' = [i \in 1 .. n |-> hi - n + i]
        BY <2>3
      <3> HIDE DEF n
      <3>4. n \in Nat /\ n <= Listed /\ (hi - n <= hi - Listed \/ hi - n <= 0)
        BY <3>1, <3>2
      <3>5. Len(chunk_names') = n /\ \A i \in 1 .. n : chunk_names'[i] = hi - n + i
        BY <3>3, <3>4
      <3>6. \A c \in 1 .. LatestOf(last_downloaded') :
                c > hi - Listed => Contains(last_downloaded', c)
        BY <1>0, <2>1, <3>1 DEF DownloadInv
      <3>7. \A c \in 1 .. hi - n : c > hi - Listed => Contains(last_downloaded', c)
        BY <3>1, <3>4
      <3>8. LatestOf(last_downloaded') <= hi
        BY <1>0, <2>1, <3>1 DEF DownloadInv
      <3> QED
        BY <2>1, <2>3, <3>4, <3>5, <3>6, <3>7, <3>8 DEF DownloadInv
    <2> QED
      BY <1>1, <2>1, <2>2, <2>3 DEF DownloadRound
  <1>2. CASE DownloadChunk
    <2>1. listed' = listed /\ download = "chunks"
      BY <1>2 DEF DownloadChunk
    <2>2. CASE UNCHANGED <<chunk_names, last_downloaded, downloaded_videos>>
      BY <2>1, <2>2 DEF DownloadInv
    <2>3. CASE chunk_names # <<>> /\ chunk_names' = Tail(chunk_names)
      <3> DEFINE h == Head(chunk_names)
                 n == Len(chunk_names)
      <3>1. /\ h \in Nat \ {0} /\ h = chunk_names[1] /\ n \in Nat \ {0}
            /\ Len(chunk_names') = n - 1
            /\ \A i \in 1 .. n - 1 : chunk_names'[i] = chunk_names[i + 1]
        BY <1>0, <2>3, HeadTail
      <3>2. h = listed - n + 1 /\ h > listed - Listed /\ h <= listed /\ n <= Listed
        BY <1>0, <3>1, Bounds DEF DownloadInv
      <3>3. \/ /\ Contains(last_downloaded, h)
               /\ UNCHANGED <<last_downloaded, downloaded_videos>>
            \/ /\ ~Contains(last_downloaded, h)
               /\ last_downloaded' = Remembered(last_downloaded, h)
               /\ \/ downloaded_videos' = downloaded_videos
                  \/ downloaded_videos' = Append(downloaded_videos, [chunk |-> h, ts |-> now])
        BY <1>2, <2>3 DEF DownloadChunk
      <3>4. \A i \in 1 .. n - 1 : chunk_names'[i] = listed - (n - 1) + i
        BY <1>0, <3>1 DEF DownloadInv
      <3> HIDE DEF h, n
      <3>5. n = Len(chunk_names)
        BY DEF n
      <3>6. \A c \in 1 .. listed - n : c > listed - Listed => Contains(last_downloaded, c)
        BY <2>1, <3>5 DEF DownloadInv
      <3>7. listed - (n - 1) = h
        BY <1>0, <3>1, <3>2
      <3>10. /\ Len(chunk_names') = n - 1 /\ Len(chunk_names') <= Listed
             /\ \A i \in 1 .. Len(chunk_names') : chunk_names'[i] = listed' - Len(chunk_names') + i
        BY <2>1, <3>1, <3>2, <3>4, Bounds
      <3>8. CASE Contains(last_downloaded, h)
        <4>1. \A c \in 1 .. listed - (n - 1) : c > listed - Listed => Contains(last_downloaded, c)
          BY <1>0, <3>1, <3>2, <3>6, <3>8
        <4>2. UNCHANGED <<last_downloaded, downloaded_videos>>
          BY <3>3, <3>8
        <4>3. DownloadInv'
          BY <2>1, <3>10, <4>1, <4>2 DEF DownloadInv
        <4> QED
          BY <4>2, <4>3
      <3>9. CASE ~Contains(last_downloaded, h)
        <4>1. h > LatestOf(last_downloaded)
          BY <1>0, <3>1, <3>2, <3>9 DEF DownloadInv
        <4>2. /\ LatestOf(last_downloaded') = h
              /\ Len(last_downloaded') <= Remember /\ Spread(last_downloaded')
              /\ Contains(last_downloaded', h)
              /\ \A c \in Nat : Contains(last_downloaded, c) /\ c > h - Remember =>
                                    Contains(last_downloaded', c)
          BY <1>0, <3>1, <3>3, <3>9, <4>1, RememberedLast DEF DownloadInv
        <4>3. \A c \in 1 .. h : c > listed - Listed => Contains(last_downloaded', c)
          <5> SUFFICES ASSUME NEW c \in 1 .. h, c > listed - Listed
                       PROVE  Contains(last_downloaded', c)
            OBVIOUS
          <5>1. CASE c = h
            BY <4>2, <5>1
          <5>2. CASE c < h
            <6>1. Contains(last_downloaded, c)
              BY <1>0, <3>1, <3>2, <3>6, <5>2
            <6>2. c \in Nat /\ c > h - Remember
              BY <1>0, <3>1, <3>2, Bounds
            <6> QED
              BY <4>2, <6>1, <6>2
          <5> QED
            BY <3>1, <5>1, <5>2
        <4>4. DownloadInv'
          <5>1. /\ LatestOf(last_downloaded') <= listed'
                /\ \A c \in 1 .. LatestOf(last_downloaded') :
                       c > listed' - Listed => Contains(last_downloaded', c)
            BY <2>1, <3>2, <4>2, <4>3
          <5>2. \A c \in 1 .. listed' - Len(chunk_names') :
                       c > listed' - Listed => Contains(last_downloaded', c)
            BY <2>1, <3>7, <3>10, <4>3
          <5> QED
            BY <3>10, <4>2, <5>1, <5>2 DEF DownloadInv
        <4> QED
          BY <3>1, <3>3, <3>9, <4>1, <4>2, <4>4
      <3> QED
        BY <3>8, <3>9
    <2> QED
      BY <1>2, <2>2, <2>3 DEF DownloadChunk
  <1> QED
    BY <1>1, <1>2 DEF Download

-----------------------------------------------------------------------------
(* The frames of the stream.                                               *)

(* The last frame of a chunk.                                              *)
Top(c) == c * ChunkFrames

LEMMA TopRises ==
    ASSUME NEW c \in Nat, NEW d \in Nat, c <= d
    PROVE  /\ Top(c) \in Nat /\ Top(d) \in Nat /\ Top(c) <= Top(d)
           /\ c > 0 => Top(c) = Top(c - 1) + ChunkFrames
           /\ Top(0) = 0
  <1>1. ASSUME NEW a \in Nat, NEW b \in Nat, NEW e \in Nat
        PROVE  /\ a * b \in Nat /\ (a + e) * b = a * b + e * b
               /\ a > 0 => a * b = (a - 1) * b + b
               /\ 0 * b = 0
    OBVIOUS
  <1> DEFINE e == d - c
  <1>2. e \in Nat /\ d = c + e
    OBVIOUS
  <1> HIDE DEF e
  <1>3. Top(c) \in Nat /\ Top(d) \in Nat /\ e * ChunkFrames \in Nat
    BY <1>1, <1>2, Bounds DEF Top
  <1>4. Top(d) = Top(c) + e * ChunkFrames
    BY <1>1, <1>2, Bounds DEF Top
  <1>5. c > 0 => Top(c) = Top(c - 1) + ChunkFrames
    BY <1>1, Bounds DEF Top
  <1>6. Top(0) = 0
    BY <1>1, Bounds DEF Top
  <1> QED
    BY <1>3, <1>4, <1>5, <1>6

(* Everything handed over, and everything still to read of the chunk the   *)
(* decoder is in, is up to x.                                              *)
Behind(x, c, s, b, v) == UpTo(c, x) /\ PassedUpTo(x, s, b, v)

(* Frames are in order, and what comes next, from the video, the chunk or  *)
(* the downloaded chunks, is later than all that was handed over.          *)
OrderInv ==
    /\ InOrder(seen, batch.frames, video_frames)
    /\ Online => PassedUpTo(frame_idx, seen, batch.frames, video_frames)
    /\ Rising(cap)
    /\ \A i \in 1 .. Len(cap) : PassedUpTo(cap[i] - 1, seen, batch.frames, video_frames)
    /\ ~Online =>
          /\ Behind(Top(LatestOf(last_downloaded)), cap, seen, batch.frames, video_frames)
          /\ \A i \in 1 .. Len(downloaded_videos) :
                /\ downloaded_videos[i].chunk <= LatestOf(last_downloaded)
                /\ Behind(Top(downloaded_videos[i].chunk - 1), cap, seen, batch.frames, video_frames)
          /\ \A i, j \in 1 .. Len(downloaded_videos) :
                i < j => downloaded_videos[i].chunk < downloaded_videos[j].chunk

StreamInv == ListsInv /\ DownloadInv /\ OrderInv

(* The types of all that OrderInv is about.                                *)
LEMMA OrderTypes ==
    ASSUME ListsInv
    PROVE  /\ seen \in Nat /\ batch.frames \in Seq(Nat) /\ video_frames \in Seq(Nat) /\ frame_idx \in Nat
           /\ cap \in Seq(Nat) /\ Len(cap) \in Nat /\ \A i \in 1 .. Len(cap) : cap[i] \in Nat
           /\ LatestOf(last_downloaded) \in Nat /\ Top(LatestOf(last_downloaded)) \in Nat
           /\ downloaded_videos \in Seq(Videos) /\ Len(downloaded_videos) \in Nat
           /\ \A i \in 1 .. Len(downloaded_videos) :
                 /\ downloaded_videos[i].chunk \in Nat \ {0}
                 /\ Top(downloaded_videos[i].chunk - 1) \in Nat
  <1>1. /\ seen \in Nat /\ batch.frames \in Seq(Nat) /\ video_frames \in Seq(Nat) /\ frame_idx \in Nat
        /\ cap \in Seq(Nat) /\ Len(cap) \in Nat /\ \A i \in 1 .. Len(cap) : cap[i] \in Nat
        /\ downloaded_videos \in Seq(Videos) /\ Len(downloaded_videos) \in Nat
    BY DEF ListsInv, BufferOK, SourceOK
  <1>2. LatestOf(last_downloaded) \in Nat
    BY DEF ListsInv, SourceOK, LatestOf
  <1>3. \A c \in Nat : Top(c) \in Nat
    BY TopRises
  <1>4. \A i \in 1 .. Len(downloaded_videos) : downloaded_videos[i] \in Videos
    BY <1>1
  <1>5. \A i \in 1 .. Len(downloaded_videos) :
            downloaded_videos[i].chunk \in Nat \ {0} /\ downloaded_videos[i].chunk - 1 \in Nat
    BY <1>4 DEF Videos
  <1> QED
    BY <1>1, <1>2, <1>3, <1>5

LEMMA StreamInit == Init => StreamInv
  <1> SUFFICES ASSUME Init PROVE StreamInv
    OBVIOUS
  <1>1. ListsInv
    BY ListsInit
  <1>2. DownloadInv
    BY Bounds DEF Init, DownloadInv, LatestOf, Spread
  <1>3. OrderInv
    BY TopRises DEF Init, Nothing, OrderInv, InOrder, PassedUpTo, Behind, Rising, Before, UpTo, LatestOf
  <1> QED
    BY <1>1, <1>2, <1>3 DEF StreamInv

(* A step that hands over no frame the decoder has not added before.       *)
LEMMA OrderKept ==
    ASSUME ListsInv, OrderInv, UNCHANGED <<mode, cap, frame_idx, last_downloaded, downloaded_videos>>,
           InOrder(seen', batch'.frames, video_frames'),
           \A x \in Int : PassedUpTo(x, seen, batch.frames, video_frames) =>
                              PassedUpTo(x, seen', batch'.frames, video_frames')
    PROVE  OrderInv'
  <1>1. /\ \A i \in 1 .. Len(cap) : cap[i] - 1 \in Int
        /\ frame_idx \in Int /\ Top(LatestOf(last_downloaded)) \in Int
        /\ \A i \in 1 .. Len(downloaded_videos) : Top(downloaded_videos[i].chunk - 1) \in Int
    BY OrderTypes
  <1>2. Online' = Online
    BY DEF Online
  <1>3. \A i \in 1 .. Len(cap) : PassedUpTo(cap[i] - 1, seen', batch'.frames, video_frames')
    BY <1>1 DEF OrderInv
  <1>4. Online => PassedUpTo(frame_idx, seen', batch'.frames, video_frames')
    BY <1>1 DEF OrderInv
  <1>5. ~Online =>
            /\ Behind(Top(LatestOf(last_downloaded)), cap, seen', batch'.frames, video_frames')
            /\ \A i \in 1 .. Len(downloaded_videos) :
                  Behind(Top(downloaded_videos[i].chunk - 1), cap, seen', batch'.frames, video_frames')
    BY <1>1 DEF OrderInv, Behind
  <1> QED
    BY <1>2, <1>3, <1>4, <1>5 DEF OrderInv

LEMMA OrderTracking ==
    ASSUME ListsInv, OrderInv, RunTracking
    PROVE  OrderInv'
  <1>1. /\ Pops \/ Drops \/ Looks \/ Processes
        /\ UNCHANGED <<mode, cap, frame_idx, last_downloaded, downloaded_videos>>
    BY TrackingEffect DEF decoding, downloading
  <1>2. /\ seen \in Nat /\ batch.frames \in Seq(Nat) /\ video_frames \in Seq(Nat)
        /\ InOrder(seen, batch.frames, video_frames)
    BY OrderTypes DEF OrderInv
  <1>3. /\ InOrder(seen', batch'.frames, video_frames')
        /\ \A x \in Int : PassedUpTo(x, seen, batch.frames, video_frames) =>
                              PassedUpTo(x, seen', batch'.frames, video_frames')
    <2>1. CASE Pops
      <3>1. PICK n \in 0 .. Len(video_frames) : Pop(n) /\ seen' = seen
        BY <2>1 DEF Pops
      <3>2. /\ batch'.frames \in Seq(Nat) /\ Len(batch'.frames) = n
            /\ \A i \in 1 .. n : batch'.frames[i] = video_frames[i]
            /\ video_frames' \in Seq(Nat) /\ Len(video_frames') = Len(video_frames) - n
            /\ \A i \in 1 .. Len(video_frames) - n : video_frames'[i] = video_frames[n + i]
        BY <1>2, <3>1, Cut, SMTT(90) DEF Pop
      <3> QED
        BY <1>2, <3>1, <3>2, OrderPop, ZenonT(30)
    <2>2. CASE Drops
      BY <1>2, <2>2, OrderProcess DEF Drops, buffers, Nothing
    <2>3. CASE Looks
      BY <1>2, <2>3 DEF Looks, buffers
    <2>4. CASE Processes
      <3>1. batch.frames # <<>>
        BY <2>4 DEF Processes, ListsInv, BufferInv
      <3> QED
        BY <1>2, <2>4, <3>1, OrderProcess DEF Processes, buffers, Nothing, Last
    <2> QED
      BY <1>1, <2>1, <2>2, <2>3, <2>4
  <1> QED
    BY <1>1, <1>3, OrderKept

(* What is read of a chunk, or skipped, leaves the rest of it in order.    *)
LEMMA OrderDecode ==
    ASSUME ListsInv, OrderInv, Decode
    PROVE  OrderInv'
  <1>1. /\ Idles \/ Stamps \/ Skips \/ TakesChunk \/ Adds
        /\ UNCHANGED <<mode, last_downloaded, batch, seen>>
    BY DecodeEffect DEF downloading, tracking
  <1>2. Online' = Online
    BY <1>1 DEF Online
  <1> DEFINE s == seen
             b == batch.frames
             v == video_frames
             latest == Top(LatestOf(last_downloaded))
             dv == downloaded_videos
             before(i) == Top(dv[i].chunk - 1)
  <1>3. /\ s \in Nat /\ b \in Seq(Nat) /\ v \in Seq(Nat) /\ frame_idx \in Nat
        /\ cap \in Seq(Nat) /\ Len(cap) \in Nat /\ \A i \in 1 .. Len(cap) : cap[i] \in Nat
        /\ latest \in Nat
        /\ dv \in Seq(Videos) /\ Len(dv) \in Nat
        /\ \A i \in 1 .. Len(dv) : dv[i].chunk \in Nat \ {0} /\ before(i) \in Nat
        /\ LatestOf(last_downloaded) \in Nat
    BY OrderTypes
  <1>4. CASE Idles \/ Stamps
    <2>1. UNCHANGED <<cap, frame_idx, downloaded_videos, video_frames>>
      BY <1>4 DEF Idles, Stamps, buffers
    <2> QED
      BY <1>1, <2>1, OrderKept DEF OrderInv
  <1>5. CASE Skips
    <2>1. frame_idx' = frame_idx + 1 /\ UNCHANGED <<video_frames, downloaded_videos>>
      BY <1>5 DEF Skips, buffers
    <2>2. CASE Online
      <3>1. cap' = cap
        BY <1>5, <2>2 DEF Skips
      <3>2. PassedUpTo(frame_idx + 1, s, b, v)
        BY <1>3, <2>2, PassedLater DEF OrderInv
      <3> QED
        BY <1>1, <1>2, <2>1, <2>2, <3>1, <3>2 DEF OrderInv
    <2>3. CASE ~Online
      <3>1. cap # <<>> /\ cap' = Tail(cap)
        BY <1>5, <2>3 DEF Skips
      <3>2. /\ Len(cap') = Len(cap) - 1 /\ Rising(cap')
            /\ \A i \in 1 .. Len(cap') : cap'[i] = cap[i + 1]
            /\ \A x \in Int : UpTo(cap, x) => UpTo(cap', x)
        BY <1>3, <3>1, TailRising DEF OrderInv
      <3>3. \A i \in 1 .. Len(cap') : PassedUpTo(cap'[i] - 1, s, b, v)
        <4> SUFFICES ASSUME NEW i \in 1 .. Len(cap')
                     PROVE  PassedUpTo(cap'[i] - 1, s, b, v)
          OBVIOUS
        <4>1. i + 1 \in 1 .. Len(cap)
          BY <1>3, <3>2
        <4>2. cap'[i] = cap[i + 1]
          BY <3>2
        <4>3. \A k \in 1 .. Len(cap) : PassedUpTo(cap[k] - 1, s, b, v)
          BY DEF OrderInv
        <4>4. PassedUpTo(cap[i + 1] - 1, s, b, v)
          BY <4>1, <4>3
        <4> QED
          BY <4>2, <4>4
      <3>4. /\ Behind(latest, cap', s, b, v)
            /\ \A i \in 1 .. Len(dv) : Behind(before(i), cap', s, b, v)
        BY <1>3, <2>3, <3>2 DEF OrderInv, Behind
      <3> QED
        BY <1>1, <1>2, <2>1, <2>3, <3>2, <3>3, <3>4 DEF OrderInv
    <2> QED
      BY <2>2, <2>3
  <1>6. CASE TakesChunk
    <2>1. /\ ~Online /\ dv # <<>> /\ dv' = Tail(dv) /\ cap' = FramesOf(Head(dv).chunk)
          /\ UNCHANGED <<video_frames, frame_idx>>
      BY <1>6 DEF TakesChunk, buffers
    <2> DEFINE c == dv[1].chunk
    <2>2. /\ Head(dv) = dv[1] /\ Len(dv) \in Nat \ {0} /\ Len(dv') = Len(dv) - 1
          /\ \A i \in 1 .. Len(dv) - 1 : dv'[i] = dv[i + 1]
      BY <1>3, <2>1, HeadTail
    <2>3. /\ c \in Nat \ {0} /\ c <= LatestOf(last_downloaded)
          /\ PassedUpTo(Top(c - 1), s, b, v)
      BY <1>3, <2>1, <2>2 DEF OrderInv, Behind
    <2>4. /\ Len(cap') = ChunkFrames /\ Top(c - 1) \in Nat
          /\ \A i \in 1 .. ChunkFrames : cap'[i] = Top(c - 1) + i
      BY <2>1, <2>2, <2>3, FramesOfChunk DEF Top
    <2>5. /\ Top(c) = Top(c - 1) + ChunkFrames /\ Top(c) \in Nat
          /\ \A d \in Nat : c <= d => Top(c) <= Top(d) /\ Top(d) \in Nat
      BY <2>3, TopRises
    <2> HIDE DEF c
    <2>6. Rising(cap') /\ UpTo(cap', Top(c))
      BY <2>4, <2>5, Bounds DEF Rising, UpTo
    <2>7. \A i \in 1 .. Len(cap') : PassedUpTo(cap'[i] - 1, s, b, v)
      <3> SUFFICES ASSUME NEW i \in 1 .. ChunkFrames PROVE PassedUpTo(cap'[i] - 1, s, b, v)
        BY <2>4
      <3>1. cap'[i] - 1 \in Int /\ Top(c - 1) <= cap'[i] - 1 /\ Top(c - 1) \in Int
        BY <2>4, Bounds
      <3> QED
        BY <1>3, <2>3, <3>1, PassedLater
    <2>8. ASSUME NEW x \in Nat, Top(c) <= x, PassedUpTo(x, s, b, v)
          PROVE  Behind(x, cap', s, b, v)
      <3>1. UpTo(cap', x)
        BY <2>4, <2>5, <2>6, <2>8, Bounds DEF UpTo
      <3> QED
        BY <2>8, <3>1 DEF Behind
    <2>9. Behind(latest, cap', s, b, v)
      BY <1>3, <2>1, <2>3, <2>5, <2>8 DEF OrderInv, Behind
    <2>10. ASSUME NEW i \in 1 .. Len(dv')
           PROVE  /\ dv'[i].chunk <= LatestOf(last_downloaded)
                  /\ Behind(Top(dv'[i].chunk - 1), cap', s, b, v)
      <3> DEFINE j == i + 1
                 d == dv[j].chunk
      <3>1. j \in 1 .. Len(dv) /\ 1 \in 1 .. Len(dv) /\ 1 < j /\ dv'[i] = dv[j]
        BY <2>2
      <3> HIDE DEF j
      <3>2. /\ d \in Nat \ {0} /\ d <= LatestOf(last_downloaded) /\ c < d
            /\ PassedUpTo(Top(d - 1), s, b, v)
        BY <1>3, <2>1, <3>1 DEF OrderInv, Behind, c
      <3> HIDE DEF d
      <3>3. dv'[i].chunk = d
        BY <3>1 DEF d
      <3>4. d - 1 \in Nat /\ c <= d - 1
        BY <2>3, <3>2
      <3>5. Top(c) <= Top(d - 1) /\ Top(d - 1) \in Nat
        BY <2>5, <3>4
      <3> QED
        BY <2>8, <3>2, <3>3, <3>5
    <2>11. \A i, j \in 1 .. Len(dv') : i < j => dv'[i].chunk < dv'[j].chunk
      <3> SUFFICES ASSUME NEW i \in 1 .. Len(dv'), NEW j \in 1 .. Len(dv'), i < j
                   PROVE  dv'[i].chunk < dv'[j].chunk
        OBVIOUS
      <3>1. /\ i + 1 \in 1 .. Len(dv) /\ j + 1 \in 1 .. Len(dv) /\ i + 1 < j + 1
            /\ dv'[i] = dv[i + 1] /\ dv'[j] = dv[j + 1]
        BY <2>2
      <3>2. \A k, l \in 1 .. Len(dv) : k < l => dv[k].chunk < dv[l].chunk
        BY <2>1 DEF OrderInv
      <3> HIDE DEF dv
      <3>3. dv[i + 1].chunk < dv[j + 1].chunk
        BY <3>1, <3>2, Zenon
      <3> QED
        BY <3>1, <3>3
    <2> QED
      BY <1>1, <1>2, <2>1, <2>6, <2>7, <2>9, <2>10, <2>11 DEF OrderInv
  <1>7. CASE Adds
    <2>1. frame_idx' = frame_idx + 1 /\ downloaded_videos' = downloaded_videos /\ decode = "frame"
      BY <1>7 DEF Adds
    <2>2. CASE Online
      <3> DEFINE f == frame_idx + 1
      <3>1. video_frames' = Append(v, f) /\ cap' = cap /\ cap = <<>>
        BY <1>7, <2>2 DEF Adds, ListsInv, BufferInv
      <3>2. f \in Nat /\ PassedUpTo(f - 1, s, b, v)
        BY <1>3, <2>2 DEF OrderInv
      <3>3. InOrder(s, b, video_frames') /\ PassedUpTo(f, s, b, video_frames')
        BY <1>3, <3>1, <3>2, OrderAppend DEF OrderInv
      <3>4. Len(cap') = 0
        BY <3>1
      <3> QED
        BY <1>1, <1>2, <2>1, <2>2, <3>1, <3>3, <3>4 DEF OrderInv
    <2>3. CASE ~Online
      <3> DEFINE f == Head(cap)
      <3>1. video_frames' = Append(v, f) /\ cap' = Tail(cap) /\ cap # <<>>
        BY <1>7, <2>1, <2>3 DEF Adds, ListsInv, BufferInv
      <3>2. /\ f \in Nat /\ f = cap[1] /\ Len(cap') = Len(cap) - 1
            /\ Rising(cap') /\ Before(f, cap')
            /\ \A i \in 1 .. Len(cap') : cap'[i] = cap[i + 1]
            /\ \A x \in Int : UpTo(cap, x) => UpTo(cap', x) /\ f <= x
        BY <1>3, <3>1, TailRising DEF OrderInv
      <3>3. PassedUpTo(f - 1, s, b, v)
        <4>1. 1 \in 1 .. Len(cap)
          BY <1>3, <3>1
        <4> QED
          BY <3>2, <4>1 DEF OrderInv
      <3> HIDE DEF f
      <3>4. /\ InOrder(s, b, video_frames')
            /\ \A x \in Int : f <= x /\ PassedUpTo(x, s, b, v) => PassedUpTo(x, s, b, video_frames')
        BY <1>3, <3>1, <3>2, <3>3, OrderAppend DEF OrderInv
      <3>5. \A i \in 1 .. Len(cap') : PassedUpTo(cap'[i] - 1, s, b, video_frames')
        <4> SUFFICES ASSUME NEW i \in 1 .. Len(cap')
                     PROVE  PassedUpTo(cap'[i] - 1, s, b, video_frames')
          OBVIOUS
        <4>1. i + 1 \in 1 .. Len(cap) /\ cap'[i] = cap[i + 1]
          BY <1>3, <3>2
        <4>2. cap'[i] - 1 \in Int /\ f <= cap'[i] - 1
          BY <1>3, <3>2, <4>1, SMTT(30) DEF Before
        <4>3. PassedUpTo(cap'[i] - 1, s, b, v)
          BY <4>1 DEF OrderInv
        <4> QED
          BY <3>4, <4>2, <4>3
      <3>6. ASSUME NEW x \in Nat, Behind(x, cap, s, b, v)
            PROVE  Behind(x, cap', s, b, video_frames')
        BY <3>2, <3>4, <3>6 DEF Behind
      <3>7. /\ Behind(latest, cap', s, b, video_frames')
            /\ \A i \in 1 .. Len(dv) : Behind(before(i), cap', s, b, video_frames')
        BY <1>3, <2>3, <3>6 DEF OrderInv
      <3> QED
        BY <1>1, <1>2, <2>1, <2>3, <3>2, <3>4, <3>5, <3>7 DEF OrderInv
    <2> QED
      BY <2>2, <2>3
  <1> QED
    BY <1>1, <1>4, <1>5, <1>6, <1>7

(* A chunk that is downloaded is later than all chunks before it.          *)
LEMMA OrderDownload ==
    ASSUME ListsInv, DownloadInv, OrderInv, Download
    PROVE  OrderInv'
  <1>1. UNCHANGED <<mode, cap, frame_idx, batch, seen, video_frames>>
    BY DEF Download, buffers, decoding, tracking
  <1>2. Online' = Online
    BY <1>1 DEF Online
  <1>3. CASE UNCHANGED <<last_downloaded, downloaded_videos>>
    BY <1>1, <1>3, OrderKept DEF OrderInv
  <1>4. ASSUME NEW h \in Nat \ {0},
               h > LatestOf(last_downloaded),
               LatestOf(last_downloaded') = h,
               \/ downloaded_videos' = downloaded_videos
               \/ downloaded_videos' = Append(downloaded_videos, [chunk |-> h, ts |-> now])
        PROVE  OrderInv'
    <2> DEFINE s == seen
               b == batch.frames
               v == video_frames
               m == LatestOf(last_downloaded)
               dv == downloaded_videos
    <2>1. /\ s \in Nat /\ b \in Seq(Nat) /\ v \in Seq(Nat)
          /\ cap \in Seq(Nat) /\ \A i \in 1 .. Len(cap) : cap[i] \in Nat
          /\ m \in Nat /\ Top(m) \in Nat /\ dv \in Seq(Videos) /\ Len(dv) \in Nat
          /\ \A i \in 1 .. Len(dv) : dv[i].chunk \in Nat \ {0}
      BY OrderTypes
    <2>2. CASE Online
      BY <1>1, <1>2, <2>2 DEF OrderInv
    <2>3. CASE ~Online
      <3>1. ASSUME NEW x \in Nat, Top(m) <= x PROVE Behind(x, cap, s, b, v)
        <4>1. UpTo(cap, Top(m)) /\ PassedUpTo(Top(m), s, b, v)
          BY <2>3 DEF OrderInv, Behind
        <4>2. UpTo(cap, x)
          BY <2>1, <3>1, <4>1 DEF UpTo
        <4>3. PassedUpTo(x, s, b, v)
          BY <2>1, <3>1, <4>1, PassedLater
        <4> QED
          BY <4>2, <4>3 DEF Behind
      <3>2. h - 1 \in Nat /\ m <= h - 1 /\ m <= h
        BY <1>4, <2>1
      <3>3. Top(h) \in Nat /\ Top(m) <= Top(h) /\ Top(h - 1) \in Nat /\ Top(m) <= Top(h - 1)
        BY <2>1, <3>2, TopRises
      <3>4. Behind(Top(h), cap, s, b, v) /\ Behind(Top(h - 1), cap, s, b, v)
        BY <3>1, <3>3
      <3>5. \A i \in 1 .. Len(dv) : dv[i].chunk <= m /\ Behind(Top(dv[i].chunk - 1), cap, s, b, v)
        BY <2>3 DEF OrderInv
      <3>6. \A i, j \in 1 .. Len(dv) : i < j => dv[i].chunk < dv[j].chunk
        BY <2>3 DEF OrderInv
      <3>7. /\ \A i \in 1 .. Len(dv') :
                  dv'[i].chunk <= h /\ Behind(Top(dv'[i].chunk - 1), cap, s, b, v)
            /\ \A i, j \in 1 .. Len(dv') : i < j => dv'[i].chunk < dv'[j].chunk
        <4>1. CASE dv' = dv
          BY <1>4, <2>1, <3>5, <3>6, <4>1
        <4>2. CASE dv' = Append(dv, [chunk |-> h, ts |-> now])
          <5>1. /\ Len(dv') = Len(dv) + 1 /\ dv'[Len(dv) + 1].chunk = h
                /\ \A i \in 1 .. Len(dv) : dv'[i] = dv[i]
            BY <2>1, <4>2
          <5>2. \A i \in 1 .. Len(dv') : i \in 1 .. Len(dv) \/ i = Len(dv) + 1
            BY <2>1, <5>1
          <5> HIDE DEF dv, m
          <5>3. ASSUME NEW i \in 1 .. Len(dv')
                PROVE  dv'[i].chunk <= h /\ Behind(Top(dv'[i].chunk - 1), cap, s, b, v)
            <6>1. CASE i \in 1 .. Len(dv)
              <7>1. dv'[i] = dv[i] /\ dv[i].chunk <= m /\ Behind(Top(dv[i].chunk - 1), cap, s, b, v)
                BY <3>5, <5>1, <6>1
              <7>2. dv[i].chunk <= h
                BY <2>1, <3>2, <6>1, <7>1
              <7> QED
                BY <7>1, <7>2
            <6>2. CASE i = Len(dv) + 1
              BY <3>4, <5>1, <6>2
            <6> QED
              BY <5>2, <6>1, <6>2
          <5>4. ASSUME NEW i \in 1 .. Len(dv'), NEW j \in 1 .. Len(dv'), i < j
                PROVE  dv'[i].chunk < dv'[j].chunk
            <6>1. i \in 1 .. Len(dv)
              BY <2>1, <5>1, <5>4
            <6>2. CASE j \in 1 .. Len(dv)
              <7>1. dv[i].chunk < dv[j].chunk
                BY <3>6, <5>4, <6>1, <6>2
              <7> QED
                BY <5>1, <6>1, <6>2, <7>1
            <6>3. CASE j = Len(dv) + 1
              <7>1. dv[i].chunk <= m /\ dv[i].chunk \in Nat
                BY <2>1, <3>5, <6>1
              <7> QED
                BY <2>1, <3>2, <5>1, <6>1, <6>3, <7>1
            <6> QED
              BY <5>2, <6>2, <6>3
          <5> QED
            BY <5>3, <5>4
        <4> QED
          BY <1>4, <4>1, <4>2
      <3> QED
        BY <1>1, <1>2, <1>4, <2>3, <3>4, <3>7 DEF OrderInv
    <2> QED
      BY <2>2, <2>3
  <1> QED
    BY <1>3, <1>4, DownloadEffect

LEMMA StreamStep == StreamInv /\ [Next]_vars => StreamInv'
  <1> SUFFICES ASSUME StreamInv, [Next]_vars PROVE StreamInv'
    OBVIOUS
  <1>1. ListsInv'
    BY ListsStep DEF StreamInv
  <1>2. ListsInv /\ DownloadInv /\ OrderInv
    BY DEF StreamInv
  <1>3. CASE Download
    BY <1>1, <1>2, <1>3, DownloadEffect, OrderDownload DEF StreamInv
  <1>4. CASE Decode
    <2>1. UNCHANGED <<download, listed, chunk_names, last_downloaded>>
      BY <1>4 DEF Decode, downloading
    <2>2. DownloadInv'
      BY <1>2, <2>1 DEF DownloadInv
    <2> QED
      BY <1>1, <1>2, <1>4, <2>2, OrderDecode DEF StreamInv
  <1>5. CASE RunTracking
    <2>1. UNCHANGED <<download, listed, chunk_names, last_downloaded>>
      BY <1>5 DEF RunTracking, downloading
    <2>2. DownloadInv'
      BY <1>2, <2>1 DEF DownloadInv
    <2> QED
      BY <1>1, <1>2, <1>5, <2>2, OrderTracking DEF StreamInv
  <1>6. CASE Kill
    <2>1. DownloadInv'
      BY <1>6, Bounds DEF Kill, DownloadInv, LatestOf, Spread
    <2>2. OrderInv'
      BY <1>6, TopRises DEF Kill, Nothing, OrderInv, InOrder, PassedUpTo, Behind, Rising, Before, UpTo,
                            LatestOf
    <2> QED
      BY <1>1, <2>1, <2>2 DEF StreamInv
  <1>7. CASE \/ WorkerMain \/ UserStops \/ \E c \in DOMAIN stop : TerminateJob(c)
             \/ Tick \/ UNCHANGED vars
    <2>1. /\ UNCHANGED <<mode, video_frames, batch, seen, cap, frame_idx, listed, chunk_names>>
          /\ UNCHANGED <<last_downloaded, downloaded_videos>>
      BY <1>7 DEF WorkerMain, UserStops, TerminateJob, ReadStatus, worker, Tick, vars, buffers,
                  downloading, decoding, tracking
    <2>2. download' = "chunks" => download = "chunks"
      BY <1>7 DEF WorkerMain, SetRunning, Open, Conclude, Fail, Post, UserStops, TerminateJob,
                  ReadStatus, worker, Tick, vars, downloading
    <2>3. DownloadInv'
      BY <1>2, <2>1, <2>2 DEF DownloadInv
    <2>4. OrderInv'
      BY <1>2, <2>1, OrderKept DEF OrderInv
    <2> QED
      BY <1>1, <2>3, <2>4 DEF StreamInv
  <1> QED
    BY <1>3, <1>4, <1>5, <1>6, <1>7 DEF Next

(* No frame is processed twice or out of order, for any number of chunks,  *)
(* any overlap of the playlists and any chunks that fail, as long as a     *)
(* playlist lists no more chunks than are remembered.                      *)
THEOREM FramesAreInOrder == Spec => []FramesInOrder
  <1>1. Spec => []StreamInv
    BY StreamInit, StreamStep, PTL DEF Spec
  <1>2. StreamInv => FramesInOrder
    <2> SUFFICES ASSUME StreamInv PROVE FramesInOrder
      OBVIOUS
    <2>1. /\ seen \in Nat /\ batch.frames \in Seq(Nat) /\ video_frames \in Seq(Nat)
          /\ InOrder(seen, batch.frames, video_frames)
      BY OrderTypes DEF StreamInv, OrderInv
    <2> DEFINE t == <<seen>> \o batch.frames \o video_frames
    <2>2. \A i \in 1 .. Len(t) - 1 : t[i] < t[i + 1]
      BY <2>1, OrderStream
    <2> QED
      BY <2>2 DEF FramesInOrder
  <1> QED
    BY <1>1, <1>2, PTL
=============================================================================
