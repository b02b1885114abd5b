------------------------ MODULE FrontendTasks_proofs ------------------------
(* Proofs about FrontendTasks for every number of calls, tasks, lost       *)
(* replies and repeated results.                                           *)
EXTENDS FrontendTasks, SequenceTheorems, TLAPS

(* TypeOK in parts: the coroutines and their calls, the table of results,  *)
(* the service.                                                            *)
ApiOK ==
    /\ pc \in [Tasks -> {"idle", "download", "enter", "push", "wait", "ended"}]
    /\ outcome \in [Tasks -> Outcomes]
    /\ response \in [Calls -> Responses]
    /\ tasks_data \subseteq Tasks
    /\ lost \in [Tasks -> 0 .. MaxFaults]
    /\ expired \subseteq Tasks
    /\ registered \in Registries

TableOK ==
    /\ task_result_dict \subseteq Requests
    /\ task_result_t0_dict \subseteq Tasks
    /\ aged \subseteq task_result_t0_dict
    /\ receiving = {} \/ \E t \in Tasks : receiving = {t}
    /\ topic \in Seq(Requests)
    /\ faults \in 0 .. MaxFaults

ServiceOK ==
    /\ fate \in [Requests -> Service!Fates]
    /\ rejected \subseteq Requests
    /\ degraded \in BOOLEAN

(* The parts together say what TypeOK says.                                *)
LEMMA TypeParts == TypeOK <=> ApiOK /\ TableOK /\ ServiceOK
  BY DEF TypeOK, ApiOK, TableOK, ServiceOK

(* A message is sent for a task.                                           *)
LEMMA RequestParts ==
    /\ \A t \in Tasks : \A n \in 1 .. MaxFaults + 1 :
          <<t, n>> \in Requests /\ TaskOf(<<t, n>>) = t
    /\ \A r \in Requests :
          TaskOf(r) \in Tasks /\ \E n \in 1 .. MaxFaults + 1 : r = <<TaskOf(r), n>>
  BY DEF Requests, TaskOf

(* The push of a task has returned.                                        *)
Pushed(t) == pc[t] = "wait" \/ outcome[t] \in {"completed", "failed", "timeout"}

(* A task is sent once, and once more for every reply that was lost while  *)
(* it was pushed; a task that was turned away is not sent at all.          *)
SentOncePerReply ==
    \A t \in Tasks :
        /\ \A n \in 1 .. MaxFaults + 1 :
              fate[<<t, n>>] # "new" <=> n <= lost[t] \/ (n = lost[t] + 1 /\ Pushed(t))
        /\ lost[t] = 0 \/ pc[t] = "push" \/ Pushed(t)

(* A task has an outcome only when it has ended, and its lost replies are  *)
(* among the faults that are counted.                                      *)
ProgressInv ==
    /\ \A t \in Tasks : pc[t] # "ended" => outcome[t] = "none"
    /\ \A t \in Tasks : lost[t] <= faults

(* What has a result was answered by the service.                          *)
Answered == {r \in Requests : fate[r] \in {"completed", "failed"}}

ResultInv ==
    /\ \A i \in 1 .. Len(topic) : topic[i] \in Answered
    /\ task_result_dict \subseteq Answered

FrontendInv ==
    /\ ApiOK /\ TableOK /\ ServiceOK
    /\ ProgressInv /\ SentOncePerReply /\ ResultInv
    /\ ResultsStamped /\ DemandRecorded /\ StatusTrue

(* Nothing has been called or answered at first.                           *)
LEMMA FrontendInit == Init => FrontendInv
  <1> SUFFICES ASSUME Init PROVE FrontendInv
    OBVIOUS
  <1> USE DEF Init, Service!Init
  <1>1. MaxFaults \in Nat
    BY FrontendAssumption
  <1>2. ApiOK
    BY <1>1 DEF ApiOK, Outcomes, Responses
  <1>3. TableOK
    BY <1>1 DEF TableOK
  <1>4. ServiceOK
    BY DEF ServiceOK, Service!Fates
  <1>5. ProgressInv /\ ResultInv
    BY <1>1 DEF ProgressInv, ResultInv
  <1>6. SentOncePerReply
    BY <1>1, RequestParts DEF SentOncePerReply, Pushed
  <1>7. ResultsStamped /\ DemandRecorded /\ StatusTrue
    BY DEF ResultsStamped, DemandRecorded, StatusTrue, Errors
  <1> QED
    BY <1>2, <1>3, <1>4, <1>5, <1>6, <1>7 DEF FrontendInv

(* What an action leaves alone keeps the parts that are about it.          *)
LEMMA Frames ==
    /\ UNCHANGED <<api, registered>> /\ ApiOK => ApiOK'
    /\ UNCHANGED <<table, delivery>> /\ TableOK => TableOK'
    /\ UNCHANGED service /\ ServiceOK => ServiceOK'
    /\ UNCHANGED <<api, faults>> /\ ProgressInv => ProgressInv'
    /\ UNCHANGED <<api, service>> /\ SentOncePerReply => SentOncePerReply'
    /\ UNCHANGED <<table, delivery, service>> /\ ResultInv => ResultInv'
    /\ UNCHANGED table /\ ResultsStamped => ResultsStamped'
    /\ UNCHANGED api /\ DemandRecorded => DemandRecorded'
    /\ UNCHANGED <<api, service>> /\ StatusTrue => StatusTrue'
  BY DEF api, table, delivery, service, ApiOK, TableOK, ServiceOK, ProgressInv, SentOncePerReply,
         Pushed, ResultInv, Answered, ResultsStamped, DemandRecorded, StatusTrue

(* Nothing has been sent for a task that is still on its way to its push.  *)
LEMMA NotSentBefore ==
    ASSUME ProgressInv, SentOncePerReply, NEW t \in Tasks, pc[t] \in {"download", "enter"},
           NEW r \in Requests, TaskOf(r) = t
    PROVE  fate[r] = "new"
  <1>1. ~Pushed(t) /\ lost[t] = 0
    BY DEF Pushed, ProgressInv, SentOncePerReply
  <1>2. PICK n \in 1 .. MaxFaults + 1 : r = <<t, n>>
    BY RequestParts
  <1>3. MaxFaults \in Nat
    BY FrontendAssumption
  <1>4. n \in Nat /\ ~(n <= 0)
    BY <1>3
  <1>5. fate[<<t, n>>] # "new" <=> n <= lost[t] \/ (n = lost[t] + 1 /\ Pushed(t))
    BY DEF SentOncePerReply
  <1> QED
    BY <1>1, <1>2, <1>4, <1>5

(* A step of the coroutines that sends nothing: what it has to show.       *)
LEMMA CoroutineStep ==
    ASSUME FrontendInv,
           UNCHANGED <<lost, registered, table, delivery, service>>,
           ApiOK',
           \A t \in Tasks :
               /\ pc'[t] # "ended" => outcome'[t] = "none"
               /\ Pushed(t)' <=> Pushed(t)
               /\ pc[t] = "push" => pc'[t] = "push"
               /\ outcome'[t] \in {"completed", "failed"} => outcome[t] = outcome'[t]
               /\ outcome'[t] \in Errors \ {"timeout"} => outcome[t] = outcome'[t]
                                                       \/ pc[t] \in {"download", "enter"}
               /\ t \in tasks_data' <=>
                     pc'[t] \in {"push", "wait"}
                     \/ outcome'[t] \in {"completed", "failed", "timeout", "not ready"}
    PROVE  FrontendInv'
  <1> USE DEF FrontendInv
  <1>1. TableOK' /\ ServiceOK' /\ ResultInv' /\ ResultsStamped'
    BY Frames
  <1>2. UNCHANGED <<faults, lost, fate>>
    BY DEF delivery, service
  <1>3. ProgressInv' /\ DemandRecorded'
    BY <1>2 DEF ProgressInv, DemandRecorded
  <1>4. SentOncePerReply'
    BY <1>2 DEF SentOncePerReply
  <1>5. \A t \in Tasks : pc[t] \in {"download", "enter"} =>
            \A r \in Requests : TaskOf(r) = t => fate[r] = "new"
    BY NotSentBefore
  <1>6. StatusTrue'
    <2> SUFFICES ASSUME NEW t \in Tasks
                 PROVE  /\ outcome'[t] \in {"completed", "failed"} =>
                              \E r \in Requests : TaskOf(r) = t /\ fate[r] = outcome'[t]
                        /\ outcome'[t] \in Errors \ {"timeout"} =>
                              \A r \in Requests : TaskOf(r) = t => fate[r] = "new"
      BY <1>2 DEF StatusTrue
    <2>1. CASE outcome'[t] \in {"completed", "failed"}
      BY <2>1, ZenonT(30) DEF StatusTrue, Errors
    <2>2. CASE outcome'[t] \in Errors \ {"timeout"}
      BY <2>2, <1>5 DEF StatusTrue, Errors
    <2> QED
      BY <2>1, <2>2
  <1> QED
    BY <1>1, <1>3, <1>4, <1>6

(* The endpoints: a call is taken, an input downloaded, a call answered.   *)
LEMMA EndpointStep ==
    ASSUME FrontendInv,
           \/ \E c \in Calls : Submit(c) \/ Return(c)
           \/ \E t \in Tasks : Download(t)
    PROVE  FrontendInv' /\ UNCHANGED service
  <1> USE DEF FrontendInv
  <1>1. UNCHANGED <<lost, registered, table, delivery, service, tasks_data, expired>>
    BY DEF Submit, Return, Download
  <1>2. ASSUME NEW c \in Calls, Submit(c) PROVE FrontendInv'
    <2>1. PICK first \in {"download", "enter"} :
              pc' = [u \in Tasks |-> IF u \in TasksOf[c] THEN first ELSE pc[u]]
      BY <1>2 DEF Submit
    <2>2. /\ \A u \in TasksOf[c] : pc[u] = "idle"
          /\ UNCHANGED <<outcome, response>>
      BY <1>2 DEF Submit
    <2>3. ApiOK'
      BY <1>1, <2>1, <2>2 DEF ApiOK
    <2> QED
      BY <1>1, <2>1, <2>2, <2>3, CoroutineStep DEF ProgressInv, DemandRecorded, Pushed
  <1>3. ASSUME NEW c \in Calls, Return(c) PROVE FrontendInv'
    <2>1. PICK answer \in Answers(c) : response' = [response EXCEPT ![c] = answer]
      BY <1>3 DEF Return
    <2>2. UNCHANGED <<pc, outcome>>
      BY <1>3 DEF Return
    <2>3. answer \in Responses
      BY <2>1 DEF Answers, Responses
    <2>4. ApiOK'
      BY <1>1, <2>1, <2>2, <2>3 DEF ApiOK
    <2> QED
      BY <1>1, <2>2, <2>4, CoroutineStep DEF ProgressInv, DemandRecorded, Pushed
  <1>4. ASSUME NEW t \in Tasks, Download(t) PROVE FrontendInv'
    <2>1. pc[t] = "download" /\ UNCHANGED response
      BY <1>4 DEF Download
    <2>2. \/ pc' = [pc EXCEPT ![t] = "enter"] /\ UNCHANGED outcome
          \/ /\ pc' = [pc EXCEPT ![t] = "ended"]
             /\ outcome' = [outcome EXCEPT ![t] = "unreachable"]
      BY <1>4 DEF Download, Ends
    <2>3. ApiOK'
      BY <1>1, <2>1, <2>2 DEF ApiOK, Outcomes, Errors
    <2>4. outcome[t] = "none" /\ t \notin tasks_data
      BY <2>1 DEF ProgressInv, DemandRecorded
    <2>5. ASSUME NEW u \in Tasks
          PROVE  /\ pc'[u] # "ended" => outcome'[u] = "none"
                 /\ Pushed(u)' <=> Pushed(u)
                 /\ pc[u] = "push" => pc'[u] = "push"
                 /\ outcome'[u] \in {"completed", "failed"} => outcome[u] = outcome'[u]
                 /\ outcome'[u] \in Errors \ {"timeout"} => outcome[u] = outcome'[u]
                                                         \/ pc[u] \in {"download", "enter"}
                 /\ u \in tasks_data' <=>
                       pc'[u] \in {"push", "wait"}
                       \/ outcome'[u] \in {"completed", "failed", "timeout", "not ready"}
      <3>1. CASE u # t
        BY <3>1, <1>1, <2>2 DEF ApiOK, ProgressInv, DemandRecorded, Pushed
      <3>2. CASE u = t
        BY <3>2, <1>1, <2>1, <2>2, <2>4 DEF ApiOK, Pushed
      <3> QED
        BY <3>1, <3>2
    <2> QED
      BY <1>1, <2>1, <2>3, <2>5, CoroutineStep
  <1> QED
    BY <1>1, <1>2, <1>3, <1>4

(* A task is turned away or goes on to be pushed.                          *)
LEMMA EnterStep ==
    ASSUME FrontendInv, NEW t \in Tasks, Enter(t)
    PROVE  FrontendInv' /\ UNCHANGED service
  <1> USE DEF FrontendInv
  <1>1. /\ pc[t] = "enter"
        /\ UNCHANGED <<response, lost, expired, registered, table, delivery, service>>
    BY DEF Enter
  <1>2. PICK error \in {"no backend", "invalid pipeline", "not ready", "none"} :
            /\ tasks_data' = IF error \in {"none", "not ready"} THEN tasks_data \cup {t} ELSE tasks_data
            /\ IF error = "none"
               THEN pc' = [pc EXCEPT ![t] = "push"] /\ UNCHANGED outcome
               ELSE Ends(t, error)
    BY DEF Enter, Blocked, RecordsDemand
  <1>3. \/ /\ error = "none"
           /\ pc' = [pc EXCEPT ![t] = "push"]
           /\ outcome' = outcome
        \/ /\ error # "none"
           /\ pc' = [pc EXCEPT ![t] = "ended"]
           /\ outcome' = [outcome EXCEPT ![t] = error]
    BY <1>2 DEF Ends
  <1>4. outcome[t] = "none" /\ t \notin tasks_data
    BY <1>1 DEF ProgressInv, DemandRecorded
  <1>5. ApiOK'
    BY <1>1, <1>2, <1>3 DEF ApiOK, Outcomes, Errors
  <1>6. ASSUME NEW u \in Tasks
        PROVE  /\ pc'[u] # "ended" => outcome'[u] = "none"
               /\ Pushed(u)' <=> Pushed(u)
               /\ pc[u] = "push" => pc'[u] = "push"
               /\ outcome'[u] \in {"completed", "failed"} => outcome[u] = outcome'[u]
               /\ outcome'[u] \in Errors \ {"timeout"} => outcome[u] = outcome'[u]
                                                       \/ pc[u] \in {"download", "enter"}
               /\ u \in tasks_data' <=>
                     pc'[u] \in {"push", "wait"}
                     \/ outcome'[u] \in {"completed", "failed", "timeout", "not ready"}
    <2>1. CASE u # t
      BY <2>1, <1>2, <1>3 DEF ApiOK, ProgressInv, DemandRecorded, Pushed
    <2>2. CASE u = t /\ error = "none"
      BY <2>2, <1>1, <1>2, <1>3, <1>4 DEF ApiOK, Pushed
    <2>3. CASE u = t /\ error # "none"
      BY <2>3, <1>1, <1>2, <1>3, <1>4 DEF ApiOK, Pushed
    <2> QED
      BY <2>1, <2>2, <2>3
  <1> QED
    BY <1>1, <1>5, <1>6, CoroutineStep

(* A task is sent, and sent again when the reply is lost.  What is sent is *)
(* each time a message the service has not seen before.                    *)
LEMMA PushStep ==
    ASSUME FrontendInv, NEW t \in Tasks, push_to_session(t)
    PROVE  FrontendInv' /\ Service!Push(<<t, lost[t] + 1>>)
  <1> USE DEF FrontendInv
  <1> DEFINE r == <<t, lost[t] + 1>>
  <1>1. /\ pc[t] = "push"
        /\ fate' = [fate EXCEPT ![r] = "queued"]
        /\ UNCHANGED <<outcome, response, tasks_data, expired, registered, table, topic, rejected, degraded>>
    BY DEF push_to_session
  <1>2. \/ pc' = [pc EXCEPT ![t] = "wait"] /\ UNCHANGED <<lost, faults>>
        \/ /\ faults < MaxFaults
           /\ faults' = faults + 1
           /\ lost' = [lost EXCEPT ![t] = lost[t] + 1]
           /\ UNCHANGED pc
    BY DEF push_to_session
  <1>3. MaxFaults \in Nat /\ faults \in 0 .. MaxFaults /\ lost[t] \in 0 .. MaxFaults
    BY FrontendAssumption DEF TableOK, ApiOK
  <1>4. r \in Requests /\ TaskOf(r) = t /\ lost[t] + 1 \in 1 .. MaxFaults + 1
    BY <1>3, RequestParts
  <1>5. outcome[t] = "none" /\ ~Pushed(t)
    BY <1>1 DEF ProgressInv, Pushed
  <1>6. fate[r] = "new"
    BY <1>3, <1>4, <1>5 DEF SentOncePerReply
  <1> HIDE DEF r
  <1>7. Service!Push(r)
    BY <1>1, <1>6 DEF Service!Push, Service!Moves
  <1>8. \A q \in Requests : q # r => fate'[q] = fate[q]
    BY <1>1 DEF ServiceOK
  <1>9. fate'[r] = "queued"
    BY <1>1, <1>4 DEF ServiceOK
  <1>10. ServiceOK'
    BY <1>1 DEF ServiceOK, Service!Fates
  <1>11. ApiOK'
    <2>1. CASE pc' = [pc EXCEPT ![t] = "wait"] /\ UNCHANGED <<lost, faults>>
      BY <2>1, <1>1 DEF ApiOK
    <2>2. CASE /\ faults < MaxFaults
               /\ lost' = [lost EXCEPT ![t] = lost[t] + 1]
               /\ UNCHANGED pc
      <3>1. lost[t] + 1 \in 0 .. MaxFaults
        BY <2>2, <1>3 DEF ProgressInv
      <3> QED
        BY <2>2, <3>1, <1>1 DEF ApiOK
    <2> QED
      BY <2>1, <2>2, <1>2
  <1>12. faults' \in 0 .. MaxFaults
    BY <1>2, <1>3
  <1>13. TableOK' /\ ResultsStamped'
    BY <1>1, <1>12 DEF TableOK, ResultsStamped, table
  <1>14. ProgressInv'
    <2>1. \A u \in Tasks : pc'[u] # "ended" => outcome'[u] = "none"
      BY <1>1, <1>2, <1>5 DEF ProgressInv, ApiOK
    <2>2. \A u \in Tasks : lost'[u] <= faults'
      BY <1>2, <1>3 DEF ProgressInv, ApiOK
    <2> QED
      BY <2>1, <2>2 DEF ProgressInv
  <1>15. SentOncePerReply'
    <2> SUFFICES ASSUME NEW u \in Tasks
                 PROVE  /\ \A n \in 1 .. MaxFaults + 1 :
                              fate'[<<u, n>>] # "new" <=>
                                  n <= lost'[u] \/ (n = lost'[u] + 1 /\ Pushed(u)')
                        /\ lost'[u] = 0 \/ pc'[u] = "push" \/ Pushed(u)'
      BY DEF SentOncePerReply
    <2>1. CASE u # t
      <3>1. pc'[u] = pc[u] /\ lost'[u] = lost[u] /\ (Pushed(u)' <=> Pushed(u))
        BY <2>1, <1>1, <1>2 DEF ApiOK, Pushed
      <3>2. \A n \in 1 .. MaxFaults + 1 : fate'[<<u, n>>] = fate[<<u, n>>]
        BY <2>1, <1>8, <1>4, RequestParts
      <3> QED
        BY <3>1, <3>2 DEF SentOncePerReply
    <2>2. CASE u = t
      <3>1. ASSUME NEW n \in 1 .. MaxFaults + 1
            PROVE  fate'[<<t, n>>] # "new" <=> n <= lost[t] + 1
        <4>1. CASE n = lost[t] + 1
          BY <4>1, <1>9 DEF r
        <4>2. CASE n # lost[t] + 1
          <5>1. fate'[<<t, n>>] = fate[<<t, n>>]
            BY <4>2, <1>8, RequestParts DEF r
          <5>2. fate[<<t, n>>] # "new" <=> n <= lost[t]
            BY <4>2, <1>5 DEF SentOncePerReply
          <5> QED
            BY <4>2, <5>1, <5>2, <1>3
        <4> QED
          BY <4>1, <4>2
      <3>2. CASE pc' = [pc EXCEPT ![t] = "wait"] /\ UNCHANGED <<lost, faults>>
        <4>1. Pushed(t)' /\ lost'[t] = lost[t]
          BY <3>2 DEF Pushed, ApiOK
        <4> QED
          BY <2>2, <3>1, <4>1, <1>3
      <3>3. CASE lost' = [lost EXCEPT ![t] = lost[t] + 1] /\ UNCHANGED pc
        <4>1. lost'[t] = lost[t] + 1 /\ pc'[t] = "push" /\ ~Pushed(t)'
          BY <3>3, <1>1, <1>5 DEF Pushed, ApiOK
        <4> QED
          BY <2>2, <3>1, <4>1, <1>3
      <3> QED
        BY <3>2, <3>3, <1>2
    <2> QED
      BY <2>1, <2>2
  <1>16. ResultInv'
    <2>1. UNCHANGED <<topic, task_result_dict>>
      BY <1>1 DEF table
    <2>2. Answered \subseteq Answered'
      BY <1>6, <1>8 DEF Answered
    <2> QED
      BY <2>1, <2>2 DEF ResultInv
  <1>17. DemandRecorded'
    BY <1>1, <1>2 DEF DemandRecorded, ApiOK
  <1>18. StatusTrue'
    <2> SUFFICES ASSUME NEW u \in Tasks
                 PROVE  /\ outcome[u] \in {"completed", "failed"} =>
                              \E q \in Requests : TaskOf(q) = u /\ fate'[q] = outcome[u]
                        /\ outcome[u] \in Errors \ {"timeout"} =>
                              \A q \in Requests : TaskOf(q) = u => fate'[q] = "new"
      BY <1>1 DEF StatusTrue
    <2>1. CASE u = t
      BY <2>1, <1>5 DEF Errors
    <2>2. CASE u # t
      BY <2>2, <1>4, <1>8 DEF StatusTrue
    <2> QED
      BY <2>1, <2>2
  <1> QED
    BY <1>7, <1>10, <1>11, <1>13, <1>14, <1>15, <1>16, <1>17, <1>18 DEF r

(* A task takes its result or gives up.                                    *)
LEMMA PollStep ==
    ASSUME FrontendInv, NEW t \in Tasks, Poll(t)
    PROVE  FrontendInv' /\ UNCHANGED service
  <1> USE DEF FrontendInv
  <1>1. /\ pc[t] = "wait"
        /\ UNCHANGED <<response, tasks_data, lost, expired, registered, receiving,
                       task_result_t0_dict, aged, delivery, service>>
    BY DEF Poll
  <1>2. PICK result :
            /\ pc' = [pc EXCEPT ![t] = "ended"]
            /\ outcome' = [outcome EXCEPT ![t] = result]
            /\ \/ result = "timeout"
               \/ \E r \in task_result_dict : TaskOf(r) = t /\ result = fate[r]
    BY DEF Poll, Ends
  <1>3. task_result_dict' \subseteq task_result_dict
    BY DEF Poll
  <1>4. \/ result = "timeout"
        \/ /\ result \in {"completed", "failed"}
           /\ \E r \in Requests : TaskOf(r) = t /\ fate[r] = result
    BY <1>2 DEF ResultInv, Answered
  <1>5. UNCHANGED <<fate, topic, faults>>
    BY <1>1 DEF service, delivery
  <1>6. ServiceOK'
    BY <1>1, Frames
  <1>7. ApiOK'
    BY <1>1, <1>2, <1>4 DEF ApiOK, Outcomes, Errors
  <1>8. TableOK' /\ ResultsStamped'
    BY <1>1, <1>3, <1>5 DEF TableOK, ResultsStamped
  <1>9. ResultInv'
    BY <1>3, <1>5 DEF ResultInv, Answered
  <1>10. ProgressInv'
    BY <1>1, <1>2, <1>5 DEF ProgressInv, ApiOK
  <1>11. SentOncePerReply'
    <2>1. \A u \in Tasks : Pushed(u)' <=> Pushed(u)
      BY <1>1, <1>2, <1>4 DEF Pushed, ApiOK
    <2>2. \A u \in Tasks : pc[u] = "push" => pc'[u] = "push"
      BY <1>1, <1>2 DEF ApiOK
    <2> QED
      BY <2>1, <2>2, <1>1, <1>5 DEF SentOncePerReply
  <1>12. StatusTrue'
    <2> SUFFICES ASSUME NEW u \in Tasks
                 PROVE  /\ outcome'[u] \in {"completed", "failed"} =>
                              \E q \in Requests : TaskOf(q) = u /\ fate[q] = outcome'[u]
                        /\ outcome'[u] \in Errors \ {"timeout"} =>
                              \A q \in Requests : TaskOf(q) = u => fate[q] = "new"
      BY <1>5 DEF StatusTrue
    <2>1. CASE u = t
      BY <2>1, <1>2, <1>4 DEF ApiOK, Errors
    <2>2. CASE u # t
      BY <2>2, <1>2 DEF StatusTrue, ApiOK
    <2> QED
      BY <2>1, <2>2
  <1>13. DemandRecorded'
    BY <1>1, <1>2, <1>4 DEF DemandRecorded, ApiOK
  <1> QED
    BY <1>1, <1>6, <1>7, <1>8, <1>9, <1>10, <1>11, <1>12, <1>13

(* The thread stores a result, stamps it, and removes old ones.            *)
LEMMA ReceiverStep ==
    ASSUME FrontendInv, Receive \/ Stamp \/ Cleanup
    PROVE  FrontendInv' /\ UNCHANGED service
  <1> USE DEF FrontendInv
  <1>1. UNCHANGED <<api, registered, service, faults>>
    BY DEF Receive, Stamp, Cleanup, delivery
  <1>2. /\ ApiOK' /\ ServiceOK' /\ ProgressInv' /\ SentOncePerReply'
        /\ DemandRecorded' /\ StatusTrue'
    BY <1>1, Frames
  <1>3. Answered' = Answered
    BY <1>1 DEF Answered, service
  <1>4. CASE Receive
    <2> DEFINE result == Head(topic)
    <2>1. /\ topic # <<>>
          /\ receiving = {}
          /\ receiving' = {TaskOf(result)}
          /\ topic' = Tail(topic)
          /\ task_result_dict' =
                {r \in task_result_dict : TaskOf(r) # TaskOf(result)} \cup {result}
          /\ UNCHANGED <<task_result_t0_dict, aged>>
      BY <1>4 DEF Receive
    <2>2. topic \in Seq(Requests)
      BY DEF TableOK
    <2>3. /\ Tail(topic) \in Seq(Requests)
          /\ Len(Tail(topic)) = Len(topic) - 1
          /\ \A i \in 1 .. Len(Tail(topic)) : Tail(topic)[i] = topic[i + 1]
          /\ result = topic[1]
          /\ Len(topic) \in Nat \ {0}
      BY <2>1, <2>2
    <2>4. result \in Answered
      BY <2>3 DEF ResultInv
    <2> HIDE DEF result
    <2>5. result \in Requests /\ TaskOf(result) \in Tasks
      BY <2>4, RequestParts DEF Answered
    <2>6. TableOK'
      BY <1>1, <2>1, <2>3, <2>5 DEF TableOK
    <2>7. \A i \in 1 .. Len(topic') : topic'[i] \in Answered
      BY <2>1, <2>3 DEF ResultInv
    <2>8. ResultInv'
      BY <2>1, <2>4, <2>7, <1>3 DEF ResultInv
    <2>9. ResultsStamped'
      BY <2>1 DEF ResultsStamped
    <2> QED
      BY <1>1, <1>2, <2>6, <2>8, <2>9
  <1>5. CASE Stamp
    <2>1. /\ task_result_t0_dict' = task_result_t0_dict \cup receiving
          /\ aged' = aged \ receiving
          /\ receiving' = {}
          /\ UNCHANGED <<task_result_dict, topic>>
      BY <1>5 DEF Stamp, delivery
    <2>2. TableOK'
      BY <1>1, <2>1 DEF TableOK
    <2>3. ResultInv' /\ ResultsStamped'
      BY <1>3, <2>1 DEF ResultInv, ResultsStamped
    <2> QED
      BY <1>1, <1>2, <2>2, <2>3
  <1>6. CASE Cleanup
    <2>1. /\ task_result_t0_dict' = task_result_t0_dict \ aged
          /\ task_result_dict' =
                {r \in task_result_dict : TaskOf(r) \notin task_result_t0_dict \cap aged}
          /\ aged' = {}
          /\ UNCHANGED <<receiving, topic>>
      BY <1>6 DEF Cleanup, Removed, delivery
    <2>2. TableOK'
      BY <1>1, <2>1 DEF TableOK
    <2>3. ResultInv' /\ ResultsStamped'
      BY <1>3, <2>1 DEF ResultInv, ResultsStamped, TableOK
    <2> QED
      BY <1>1, <1>2, <2>2, <2>3
  <1> QED
    BY <1>4, <1>5, <1>6

(* A sequence of answered messages stays one when another is appended.     *)
LEMMA AnsweredAppend ==
    ASSUME NEW A, NEW q \in Seq(A), NEW t \in A, NEW B,
           t \in B, \A i \in 1 .. Len(q) : q[i] \in B
    PROVE  /\ Append(q, t) \in Seq(A)
           /\ \A i \in 1 .. Len(Append(q, t)) : Append(q, t)[i] \in B
  OBVIOUS

(* The service takes a message over, answers it or loses it; a result      *)
(* comes again.                                                            *)
LEMMA ServeStep ==
    ASSUME FrontendInv, NEW r \in Requests, Serve(r)
    PROVE  FrontendInv' /\ Service!Serve
  <1> USE DEF FrontendInv
  <1>1. UNCHANGED <<api, registered, table, faults>>
    BY DEF Serve
  <1>2. PICK f \in {"pending", "completed", "failed", "lost"} \ {fate[r]} :
            /\ degraded' = (degraded \/ f = "lost")
            /\ rejected' = IF f = "failed" THEN rejected \cup {r} ELSE rejected
            /\ f \in Service!MayBecome(r)
            /\ fate' = [fate EXCEPT ![r] = f]
            /\ topic' = IF f \in {"completed", "failed"} THEN Append(topic, r) ELSE topic
    BY DEF Serve
  <1>3. /\ fate[r] \in {"queued", "pending"}
        /\ f = "failed" => fate[r] = "pending"
    BY <1>2, Zenon DEF Service!MayBecome, Service!Outcome
  <1>4. /\ fate'[r] = f
        /\ \A q \in Requests : q # r => fate'[q] = fate[q]
    BY <1>2 DEF ServiceOK
  <1>5. ServiceOK'
    <2>1. fate' \in [Requests -> Service!Fates]
      BY <1>2, <1>3 DEF ServiceOK, Service!Fates
    <2>2. rejected' \subseteq Requests
      BY <1>2 DEF ServiceOK
    <2>3. degraded' \in BOOLEAN
      BY <1>2, Zenon DEF ServiceOK
    <2> QED
      BY <2>1, <2>2, <2>3, Zenon DEF ServiceOK
  <1>6. Service!Serve
    <2>1. rejected' \in SUBSET Requests /\ rejected \subseteq rejected'
      BY <1>2, <1>5 DEF ServiceOK
    <2>2. \A q \in rejected' \ rejected : fate[q] = "pending"
      BY <1>2, <1>3
    <2>3. \A q \in Requests : fate'[q] \in Service!MayBecome(q)
      <3> SUFFICES ASSUME NEW q \in Requests PROVE fate'[q] \in Service!MayBecome(q)
        OBVIOUS
      <3>1. CASE q = r
        BY <3>1, <1>2, <1>4
      <3>2. CASE q # r
        <4>1. fate'[q] = fate[q]
          BY <3>2, <1>4
        <4>2. fate[q] \in Service!MayBecome(q) \/ fate[q] = "pending" \/ fate[q] = "queued"
          BY DEF Service!MayBecome
        <4>3. fate[q] = "queued" => fate[q] \in Service!MayBecome(q)
          BY DEF Service!MayBecome
        <4>4. fate[q] = "pending" => fate[q] \in Service!MayBecome(q)
          BY DEF Service!MayBecome
        <4> QED
          BY <4>1, <4>2, <4>3, <4>4
      <3> QED
        BY <3>1, <3>2
    <2>4. degraded' \in {degraded, TRUE}
      BY <1>2, Zenon DEF ServiceOK
    <2> QED
      BY <1>5, <2>1, <2>2, <2>3, <2>4, Zenon DEF Service!Serve, ServiceOK
  <1>7. ApiOK' /\ ProgressInv' /\ ResultsStamped' /\ DemandRecorded'
    BY <1>1, Frames
  <1>8. \A q \in Requests : fate'[q] = "new" <=> fate[q] = "new"
    BY <1>2, <1>3, <1>4
  <1>9. SentOncePerReply'
    BY <1>1, <1>8, RequestParts DEF SentOncePerReply, Pushed, api
  <1>10. Answered \subseteq Answered'
    BY <1>3, <1>4 DEF Answered
  <1>11. StatusTrue'
    <2>1. \A q \in Requests : fate[q] \in {"completed", "failed"} => fate'[q] = fate[q]
      BY <1>3, <1>4
    <2> QED
      BY <2>1, <1>1, <1>8 DEF StatusTrue, api
  <1>12. f \in {"completed", "failed"} => r \in Answered'
    BY <1>4 DEF Answered
  <1>13. topic' \in Seq(Requests) /\ \A i \in 1 .. Len(topic') : topic'[i] \in Answered'
    <2>1. topic \in Seq(Requests) /\ \A i \in 1 .. Len(topic) : topic[i] \in Answered'
      BY <1>10 DEF TableOK, ResultInv
    <2>2. CASE f \in {"completed", "failed"}
      BY <2>1, <2>2, <1>2, <1>12, AnsweredAppend
    <2>3. CASE f \notin {"completed", "failed"}
      BY <2>1, <2>3, <1>2
    <2> QED
      BY <2>2, <2>3
  <1>14. TableOK'
    BY <1>1, <1>13 DEF TableOK, table
  <1>15. ResultInv'
    BY <1>1, <1>10, <1>13 DEF ResultInv, table
  <1> QED
    BY <1>5, <1>6, <1>7, <1>9, <1>11, <1>14, <1>15

LEMMA RedeliverStep ==
    ASSUME FrontendInv, NEW r \in Requests, Redeliver(r)
    PROVE  FrontendInv' /\ UNCHANGED service
  <1> USE DEF FrontendInv
  <1>1. /\ UNCHANGED <<api, registered, table, service>>
        /\ faults < MaxFaults
        /\ faults' = faults + 1
        /\ topic' = Append(topic, r)
        /\ r \in Answered
    BY DEF Redeliver, Answered
  <1>2. /\ ApiOK' /\ ServiceOK' /\ SentOncePerReply'
        /\ ResultsStamped' /\ DemandRecorded' /\ StatusTrue'
    BY <1>1, Frames
  <1>3. Answered' = Answered
    BY <1>1 DEF Answered, service
  <1>4. topic \in Seq(Requests) /\ \A i \in 1 .. Len(topic) : topic[i] \in Answered
    BY DEF TableOK, ResultInv
  <1>5. topic' \in Seq(Requests) /\ \A i \in 1 .. Len(topic') : topic'[i] \in Answered
    BY <1>1, <1>4, AnsweredAppend
  <1>6. faults' \in 0 .. MaxFaults
    BY <1>1, FrontendAssumption DEF TableOK
  <1>7. ProgressInv'
    <2>1. \A u \in Tasks : lost[u] \in Int /\ lost[u] <= faults /\ faults \in Int
      BY FrontendAssumption DEF ApiOK, TableOK, ProgressInv
    <2> QED
      BY <1>1, <2>1 DEF ProgressInv, api
  <1>8. TableOK'
    BY <1>1, <1>5, <1>6 DEF TableOK, table
  <1>9. ResultInv'
    BY <1>1, <1>3, <1>5 DEF ResultInv, table
  <1> QED
    BY <1>1, <1>2, <1>7, <1>8, <1>9

LEMMA AgeStep ==
    ASSUME FrontendInv, NEW t \in Tasks, Expire(t) \/ EntryAges(t)
    PROVE  FrontendInv' /\ UNCHANGED service
  <1> USE DEF FrontendInv
  <1>1. UNCHANGED <<registered, delivery, service, pc, outcome, response, tasks_data, lost,
                    receiving, task_result_dict, task_result_t0_dict>>
    BY DEF Expire, EntryAges, api, table
  <1>2. expired' \subseteq expired \cup {t} /\ aged' \subseteq aged \cup (task_result_t0_dict \cap {t})
    BY DEF Expire, EntryAges, api, table
  <1>3. ServiceOK'
    BY <1>1, Frames
  <1>4. ApiOK' /\ TableOK'
    BY <1>1, <1>2 DEF ApiOK, TableOK, delivery
  <1>5. ProgressInv' /\ DemandRecorded'
    BY <1>1 DEF ProgressInv, DemandRecorded, delivery
  <1>6. SentOncePerReply' /\ StatusTrue'
    BY <1>1 DEF SentOncePerReply, Pushed, StatusTrue, service
  <1>7. ResultInv' /\ ResultsStamped'
    BY <1>1 DEF ResultInv, Answered, ResultsStamped, delivery, service
  <1> QED
    BY <1>1, <1>3, <1>4, <1>5, <1>6, <1>7

(* Every step keeps the invariant and is a step of the service or leaves   *)
(* it alone.                                                               *)
LEMMA FrontendStep ==
    ASSUME FrontendInv, [Next]_vars
    PROVE  FrontendInv' /\ [Service!Next]_(Service!vars)
  <1> USE DEF Service!vars, service
  <1>1. CASE \/ \E c \in Calls : Submit(c) \/ Return(c)
             \/ \E t \in Tasks : Download(t)
    BY <1>1, EndpointStep
  <1>2. ASSUME NEW t \in Tasks, Enter(t)
        PROVE  FrontendInv' /\ UNCHANGED service
    BY <1>2, EnterStep
  <1>3. ASSUME NEW t \in Tasks, push_to_session(t)
        PROVE  FrontendInv' /\ Service!Next
    <2>1. lost[t] \in 0 .. MaxFaults /\ MaxFaults \in Nat
      BY FrontendAssumption DEF FrontendInv, ApiOK
    <2>2. <<t, lost[t] + 1>> \in Requests
      BY <2>1, RequestParts
    <2> QED
      BY <1>3, <2>2, PushStep DEF Service!Next
  <1>4. ASSUME NEW t \in Tasks, Poll(t)
        PROVE  FrontendInv' /\ UNCHANGED service
    BY <1>4, PollStep
  <1>5. CASE Receive \/ Stamp \/ Cleanup
    BY <1>5, ReceiverStep
  <1>6. ASSUME NEW r \in Requests, Serve(r)
        PROVE  FrontendInv' /\ Service!Next
    BY <1>6, ServeStep DEF Service!Next
  <1>7. ASSUME NEW r \in Requests, Redeliver(r)
        PROVE  FrontendInv' /\ UNCHANGED service
    BY <1>7, RedeliverStep
  <1>8. ASSUME NEW t \in Tasks, Expire(t) \/ EntryAges(t)
        PROVE  FrontendInv' /\ UNCHANGED service
    BY <1>8, AgeStep
  <1>9. CASE UNCHANGED vars
    <2>1. UNCHANGED <<api, registered, table, delivery, service>>
      BY <1>9 DEF vars
    <2>2. faults' = faults
      BY <2>1 DEF delivery
    <2> QED
      BY <2>1, <2>2, Frames DEF FrontendInv
  <1> QED
    BY <1>1, <1>2, <1>3, <1>4, <1>5, <1>6, <1>7, <1>8, <1>9 DEF Next

(* The invariant holds in every state.                                     *)
LEMMA FrontendCorrect == Spec => []FrontendInv
  BY FrontendInit, FrontendStep, PTL DEF Spec

(* Every variable of the router stays in its type, for any calls and tasks *)
(* and any number of lost replies and repeated results.                    *)
THEOREM FrontendTypes == Spec => []TypeOK
  <1>1. FrontendInv => TypeOK
    BY TypeParts DEF FrontendInv
  <1> QED
    BY <1>1, FrontendCorrect, PTL

(* The thread and the tasks share the table of results without a lock, yet *)
(* no result is ever in it that the cleanup (root.py:302-312) cannot find. *)
THEOREM NoResultUnstamped == Spec => []ResultsStamped
  <1>1. FrontendInv => ResultsStamped
    BY DEF FrontendInv
  <1> QED
    BY <1>1, FrontendCorrect, PTL

(* Demand is recorded (root.py:1132) for the tasks that waited or could    *)
(* not because their models are not ready, and for no others.              *)
THEOREM DemandTrue == Spec => []DemandRecorded
  <1>1. FrontendInv => DemandRecorded
    BY DEF FrontendInv
  <1> QED
    BY <1>1, FrontendCorrect, PTL

(* A client is told that a task was completed, or has failed, only if that *)
(* is what the model made of a message of the task, for good: messages     *)
(* that are sent again and results that come late or twice                 *)
(* (root.py:1166-1181) do not change it.  A task that was turned away,     *)
(* because its models are not ready too, was not pushed and is never       *)
(* served after the client was told so.                                    *)
THEOREM ClientsToldTruth == Spec => []StatusTrue
  <1>1. FrontendInv => StatusTrue
    BY DEF FrontendInv
  <1> QED
    BY <1>1, FrontendCorrect, PTL

(* The model sees a task once, and once more for each reply that the       *)
(* pusher lost (nxs_redis_queue.py:315-326): never again after its push    *)
(* has returned, and not at all when the task was turned away.  So the     *)
(* router keeps its side of InferenceService, which allows a message to be *)
(* pushed once only.  That the model keeps the other side is assumed       *)
(* (Serve), and proved of the backend in BackendPipeline_proofs.           *)
THEOREM UsesService == Spec => Service!Spec /\ []SentOncePerReply
  <1>1. Init => Service!Init
    BY DEF Init
  <1>2. FrontendInv => SentOncePerReply
    BY DEF FrontendInv
  <1> QED
    BY <1>1, <1>2, FrontendCorrect, FrontendStep, PTL DEF Spec, Service!Spec
=============================================================================
