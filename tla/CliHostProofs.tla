---------------------------- MODULE CliHostProofs ----------------------------
(***************************************************************************)
(* Proofs about CliHost, for any number of hosts, requests and tasks, with *)
(* or without streaming.                                                   *)
(***************************************************************************)
EXTENDS CliHost, StoreProofs

-----------------------------------------------------------------------------
(* The composition runs TaskManager.                                       *)

LEMMA TurnNames ==
  ASSUME CliTypeOK, NEW h \in Clis, Send(h)
  PROVE  /\ NewRequest \in Requests /\ pc[NewRequest] = "idle"
         /\ TaskOfTurn(h) \in TaskIds
         /\ taskId[h] = NoId => ~Exists(tasks, TaskOfTurn(h))
         /\ taskId[h] # NoId => TaskOfTurn(h) = taskId[h]
<1>1. NewRequest \in Requests /\ pc[NewRequest] = "idle"
  BY DEF Send, NewRequest
<1>2. CASE taskId[h] = NoId
  <2>1. \E t \in Unused : TRUE
    BY <1>2 DEF Send
  <2>2. TaskOfTurn(h) \in Unused
    BY <1>2, <2>1 DEF TaskOfTurn
  <2> QED
    BY <1>1, <1>2, <2>2 DEF Unused
<1>3. CASE taskId[h] # NoId
  BY <1>1, <1>3 DEF TaskOfTurn, CliTypeOK
<1> QED
  BY <1>2, <1>3

LEMMA SendCalls ==
  ASSUME CliTypeOK, NEW h \in Clis, Send(h)
  PROVE  OnSendTask(NewRequest, TaskOfTurn(h)) \/ OnSendTaskSubscribe(NewRequest, TaskOfTurn(h))
BY DEF Send

LEMMA HostDiesDisconnects ==
  ASSUME NEW h \in Clis, HostDies(h)
  PROVE  ClientDisconnects(call[h]) \/ UNCHANGED vars
BY DEF HostDies

(* The request whose stream a dying host leaves is a request.              *)
LEMMA OpenIsRequest ==
  ASSUME CliTypeOK, NEW h \in Clis, HostDies(h), HostsWait
  PROVE  call[h] \in Requests
BY DEF HostDies, HostsWait, Holds, CliTypeOK

LEMMA CliStepIsStep ==
  ASSUME CliTypeOK, HostsWait, [CliNext]_cliVars
  PROVE  [Next]_vars
<1>1. CASE ServerStep
  BY <1>1 DEF ServerStep, Next
<1>2. ASSUME NEW h \in Clis, Send(h)
      PROVE  Next
  BY <1>2, TurnNames, SendCalls DEF Next, ClientCalls
<1>3. ASSUME NEW h \in Clis, Quit(h) \/ HostStep(h)
      PROVE  UNCHANGED vars
  BY <1>3 DEF Quit, HostStep, StreamOver, GetTask, SendReturns
<1>4. ASSUME NEW h \in Clis, HostDies(h)
      PROVE  Next \/ UNCHANGED vars
  BY <1>4, HostDiesDisconnects, OpenIsRequest DEF Next
<1>5. CASE UNCHANGED cliVars
  BY <1>5 DEF cliVars
<1> QED
  BY <1>1, <1>2, <1>3, <1>4, <1>5 DEF CliNext

-----------------------------------------------------------------------------
(* Types.                                                                  *)

LEMMA TargetsStay ==
  ASSUME StoreStep, NEW q \in Requests, target[q] # NoId
  PROVE  target'[q] = target[q]
BY DEF StoreStep

LEMMA GetTaskShowsStatus ==
  ASSUME TypeOK, NEW t \in TaskIds
  PROVE  OnGetTask(t).status = tasks[t].status
<1>1. CASE tasks[t] \in Tasks
  BY <1>1 DEF OnGetTask, Tasks
<1>2. CASE tasks[t] = NoTask
  BY <1>2 DEF OnGetTask, NoTask
<1> QED
  BY <1>1, <1>2 DEF TypeOK

(* What a host concludes from.                                             *)
Verdict(h) == IF at[h] = "get_task" THEN tasks[taskId[h]].status ELSE reply[call[h]].status

Concludes(h) ==
  /\ at[h] \in {"get_task", "send_task"}
  /\ at[h] = "send_task" => reply[call[h]].type = "task"
  /\ Verdict(h) \in Statuses \cup {NoStatus}
  /\ Conclude(h, Verdict(h))
  /\ UNCHANGED vars

LEMMA HostConcludes ==
  ASSUME CliTypeOK, HostsWait, NEW h \in Clis, GetTask(h) \/ SendReturns(h)
  PROVE  Concludes(h) /\ Holds(h) /\ call[h] \in Requests /\ taskId[h] \in TaskIds
<1>1. Holds(h) /\ call[h] \in Requests /\ taskId[h] \in TaskIds
  BY DEF HostsWait, Holds, CliTypeOK, GetTask, SendReturns
<1>2. CASE GetTask(h)
  <2>1. OnGetTask(taskId[h]).status = tasks[taskId[h]].status
    BY <1>1, GetTaskShowsStatus DEF CliTypeOK
  <2>2. tasks[taskId[h]].status \in Statuses \cup {NoStatus}
    BY <1>1, TaskFields DEF CliTypeOK, TypeOK, Stores
  <2> QED
    BY <1>1, <1>2, <2>1, <2>2 DEF GetTask, Concludes, Verdict
<1>3. CASE SendReturns(h)
  <2>1. reply[call[h]].status \in Statuses \cup {NoStatus}
    BY <1>1 DEF CliTypeOK, TypeOK
  <2> QED
    BY <1>1, <1>3, <2>1 DEF SendReturns, Concludes, Verdict
<1> QED
  BY <1>2, <1>3

LEMMA SendTargets ==
  ASSUME CliTypeOK, NEW h \in Clis, Send(h)
  PROVE  /\ target' = [target EXCEPT ![NewRequest] = TaskOfTurn(h)]
         /\ target'[NewRequest] = TaskOfTurn(h)
<1>1. NewRequest \in Requests
  BY TurnNames
<1>2. target' = [target EXCEPT ![NewRequest] = TaskOfTurn(h)]
  BY SendCalls DEF OnSendTask, OnSendTaskSubscribe
<1> QED
  BY <1>1, <1>2 DEF CliTypeOK, TypeOK

LEMMA NextCliTypeOK ==
  ASSUME CliTypeOK, HostsWait, TypeOK', StoreStep, [CliNext]_cliVars
  PROVE  CliTypeOK'
<1>0. TypeOK' /\ \A h \in Clis : call[h] # Nobody => target'[call[h]] # NoId
  BY TargetsStay DEF CliTypeOK
<1>1. CASE UNCHANGED host
  BY <1>0, <1>1 DEF CliTypeOK, host
<1>2. ASSUME NEW h \in Clis, Send(h)
      PROVE  CliTypeOK'
  <2>1. NewRequest \in Requests /\ TaskOfTurn(h) \in TaskIds
    BY <1>2, TurnNames
  <2>2. target'[NewRequest] # NoId
    <3>1. target'[NewRequest] = TaskOfTurn(h)
      BY <1>2, SendTargets
    <3> QED
      BY <2>1, <3>1, TaskManagerAssumption
  <2>3. /\ streaming' \in BOOLEAN
        /\ at' \in [Clis -> {"prompt", "stream", "get_task", "send_task", "stopped"}]
        /\ taskId' \in [Clis -> TaskIds \cup {NoId}]
        /\ call' \in [Clis -> Requests \cup {Nobody}]
        /\ result' \in [Requests -> Statuses \cup {NoStatus}]
    BY <1>2, <2>1 DEF Send, CliTypeOK
  <2>4. \A g \in Clis : call'[g] # Nobody => target'[call'[g]] # NoId
    BY <1>0, <1>2, <2>1, <2>2 DEF Send, CliTypeOK
  <2> QED
    BY <1>0, <2>3, <2>4 DEF CliTypeOK
<1>3. ASSUME NEW h \in Clis, Quit(h) \/ StreamOver(h) \/ HostDies(h)
      PROVE  CliTypeOK'
  BY <1>0, <1>3 DEF Quit, StreamOver, HostDies, CliTypeOK
<1>4. ASSUME NEW h \in Clis, GetTask(h) \/ SendReturns(h)
      PROVE  CliTypeOK'
  <2>1. Concludes(h) /\ Holds(h) /\ call[h] \in Requests /\ taskId[h] \in TaskIds
    BY <1>4, HostConcludes
  <2> QED
    BY <1>0, <2>1 DEF Concludes, Conclude, CliTypeOK
<1> QED
  BY <1>1, <1>2, <1>3, <1>4 DEF CliNext, ServerStep, HostStep, cliVars

-----------------------------------------------------------------------------
(* What a step of the server for request r changes.                        *)

Works(r) == SendStep(r) \/ RunnerStep(r) \/ ConsumerStep(r) \/ ClientDisconnects(r)

Writes(r, st, as) ==
  /\ tasks' = UpdateStore(tasks, target[r], st, as)
  /\ newStatus' = [newStatus EXCEPT ![r] = st]
  /\ st.state = "input-required" => st.message

LEMMA RespondsWrites ==
  ASSUME NEW r \in Requests, AgentResponds(r)
  PROVE  \E st \in Statuses, as \in Seq(Requests) : Writes(r, st, as) /\ Final(st)
<1>1. PICK require \in BOOLEAN :
        LET status == IF require THEN TaskStatus("input-required", r, 1, TRUE)
                                 ELSE TaskStatus("completed", r, 1, FALSE)
        IN  /\ newStatus' = [newStatus EXCEPT ![r] = status]
            /\ tasks' = UpdateStore(tasks, target[r], status, IF require THEN <<>> ELSE <<r>>)
  BY DEF AgentResponds
<1> DEFINE st == IF require THEN TaskStatus("input-required", r, 1, TRUE)
                            ELSE TaskStatus("completed", r, 1, FALSE)
           as == IF require THEN <<>> ELSE <<r>>
<1>2. st \in Statuses
  BY TaskStatusTyped DEF TaskStates
<1>3. Final(st) /\ (st.state = "input-required" => st.message)
  BY DEF TaskStatus, Final
<1>4. as \in Seq(Requests)
  OBVIOUS
<1>5. tasks' = UpdateStore(tasks, target[r], st, as) /\ newStatus' = [newStatus EXCEPT ![r] = st]
  BY <1>1
<1> HIDE DEF st, as
<1> QED
  BY <1>2, <1>3, <1>4, <1>5 DEF Writes

LEMMA ItemWrites ==
  ASSUME TypeOK, NEW r \in Requests, StreamItem(r)
  PROVE  \E st \in Statuses, as \in Seq(Requests) :
           /\ Writes(r, st, as)
           /\ pc' = [pc EXCEPT ![r] = AfterNotify(target[r], "post_update", AfterStatus(st))]
<1>1. PICK item \in [require_user_input : BOOLEAN, is_task_complete : BOOLEAN] :
        LET status == ItemStatus(r, item) IN
        /\ tasks' = UpdateStore(tasks, target[r], status,
                                IF status.state = "completed" THEN <<r>> ELSE <<>>)
        /\ newStatus' = [newStatus EXCEPT ![r] = status]
        /\ pc' = [pc EXCEPT ![r] = AfterNotify(target[r], "post_update", AfterStatus(status))]
  BY DEF StreamItem
<1> DEFINE st == ItemStatus(r, item)
           as == IF st.state = "completed" THEN <<r>> ELSE <<>>
<1>2. st \in Statuses
  BY ItemStatusTyped
<1>3. st.state = "input-required" => st.message
  BY DEF ItemStatus, TaskStatus
<1> HIDE DEF st
<1>4. as \in Seq(Requests)
  OBVIOUS
<1>5. /\ tasks' = UpdateStore(tasks, target[r], st, as)
      /\ newStatus' = [newStatus EXCEPT ![r] = st]
      /\ pc' = [pc EXCEPT ![r] = AfterNotify(target[r], "post_update", AfterStatus(st))]
  BY <1>1 DEF st
<1> HIDE DEF as
<1> QED
  BY <1>2, <1>3, <1>4, <1>5 DEF Writes

(* Either the store and the status stay, or the run writes both.           *)
StatusStep(r) ==
  \/ UNCHANGED <<tasks, newStatus>>
  \/ pc[r] \in {"invoke", "stream"} /\ \E st \in Statuses, as \in Seq(Requests) : Writes(r, st, as)

LEMMA WorkIsStatusStep ==
  ASSUME TypeOK, NEW r \in Requests, Works(r)
  PROVE  StatusStep(r)
<1> USE DEF store
<1>1. CASE AgentResponds(r)
  <2>1. pc[r] = "invoke"
    BY <1>1 DEF AgentResponds
  <2> QED
    BY <1>1, <2>1, RespondsWrites DEF StatusStep
<1>2. CASE StreamItem(r)
  <2>1. pc[r] = "stream"
    BY <1>2 DEF StreamItem
  <2> QED
    BY <1>2, <2>1, ItemWrites DEF StatusStep
<1>3. CASE WorkingPosted(r) \/ AgentRaises(r) \/ ResultPosted(r)
  BY <1>3 DEF WorkingPosted, AgentRaises, ResultPosted, StatusStep
<1>4. CASE UpdatePosted(r) \/ StreamRaises(r) \/ StreamExhausted(r)
  BY <1>4 DEF UpdatePosted, StreamRaises, StreamExhausted, StatusStep
<1>5. CASE ConsumerStep(r) \/ ClientDisconnects(r)
  BY <1>5 DEF ConsumerStep, DeliverEvent, CloseStream, ClientDisconnects, StatusStep
<1> QED
  BY <1>1, <1>2, <1>3, <1>4, <1>5 DEF Works, SendStep, RunnerStep

(* The step leaves every other request, every other task and every queue   *)
(* that is not registered for the task of r alone.                         *)
OnlyOf(r) ==
  /\ UNCHANGED target
  /\ \A q \in Requests : q # r =>
       /\ pc'[q] = pc[q] /\ newStatus'[q] = newStatus[q] /\ consumer'[q] = consumer[q]
       /\ received'[q] = received[q] /\ reply'[q] = reply[q]
       /\ q \notin subscribers[target[r]] => queues'[q] = queues[q]
  /\ \A u \in TaskIds : u # target[r] => tasks'[u] = tasks[u]

LEMMA WritesOnlyOf ==
  ASSUME TypeOK, NEW r \in Requests, HasTarget(r), StatusStep(r)
  PROVE  /\ \A q \in Requests : q # r => newStatus'[q] = newStatus[q]
         /\ \A u \in TaskIds : u # target[r] => tasks'[u] = tasks[u]
<1>1. CASE UNCHANGED <<tasks, newStatus>>
  BY <1>1
<1>2. ASSUME NEW st \in Statuses, NEW as \in Seq(Requests), Writes(r, st, as)
      PROVE  /\ \A q \in Requests : q # r => newStatus'[q] = newStatus[q]
             /\ \A u \in TaskIds : u # target[r] => tasks'[u] = tasks[u]
  BY <1>2 DEF Writes, UpdateStore, TypeOK, HasTarget
<1> QED
  BY <1>1, <1>2 DEF StatusStep

LEMMA BroadcastQueues ==
  ASSUME TypeOK, NEW t \in TaskIds, NEW es, Broadcast(t, es)
  PROVE  \A q \in Requests : q \notin subscribers[t] => queues'[q] = queues[q]
BY DEF Broadcast, EnqueueEvents, TypeOK

LEMMA WorkIsOnlyOf ==
  ASSUME TypeOK, Lifecycle, NEW r \in Requests, Works(r)
  PROVE  OnlyOf(r) /\ (Running(r) \/ Connected(r)) /\ HasTarget(r)
<1> USE DEF store, sse
<1>1. HasTarget(r)
  BY ActiveHasTarget DEF Works
<1>2. /\ \A q \in Requests : q # r => newStatus'[q] = newStatus[q]
      /\ \A u \in TaskIds : u # target[r] => tasks'[u] = tasks[u]
  BY <1>1, WorkIsStatusStep, WritesOnlyOf
<1>3. CASE SendStep(r)
  <2>1. /\ UNCHANGED <<target, consumer, received, queues>>
        /\ \A q \in Requests : q # r => pc'[q] = pc[q] /\ reply'[q] = reply[q]
        /\ Running(r)
    BY <1>3 DEF SendStep, WorkingPosted, AgentResponds, AgentRaises, ResultPosted, TypeOK, Running
  <2> QED
    BY <1>1, <1>2, <2>1 DEF OnlyOf
<1>4. CASE RunnerStep(r)
  <2>1. /\ UNCHANGED <<target, consumer, received>>
        /\ \A q \in Requests : q # r => pc'[q] = pc[q]
        /\ Running(r)
    BY <1>4, RunnerFrame DEF Running
  <2>2. UNCHANGED reply
    BY <1>4 DEF RunnerStep, StreamItem, UpdatePosted, StreamRaises, StreamExhausted
  <2>3. \A q \in Requests : q \notin subscribers[target[r]] => queues'[q] = queues[q]
    <3>1. CASE StreamExhausted(r)
      BY <3>1 DEF StreamExhausted
    <3>2. CASE ~StreamExhausted(r)
      BY <1>1, <1>4, <3>2, RunnerBroadcasts, BroadcastQueues DEF HasTarget
    <3> QED
      BY <3>1, <3>2
  <2> QED
    BY <1>1, <1>2, <2>1, <2>2, <2>3 DEF OnlyOf
<1>5. CASE ConsumerStep(r) \/ ClientDisconnects(r)
  <2>1. /\ UNCHANGED <<target, pc, reply>>
        /\ \A q \in Requests : q # r =>
             /\ consumer'[q] = consumer[q] /\ received'[q] = received[q]
             /\ queues'[q] = queues[q]
        /\ Connected(r)
    BY <1>5 DEF ConsumerStep, DeliverEvent, CloseStream, ClientDisconnects, TypeOK, Connected
  <2> QED
    BY <1>1, <1>2, <2>1 DEF OnlyOf
<1> QED
  BY <1>3, <1>4, <1>5 DEF Works

(* A run that has ended stays as it ended, and failed if it has failed.    *)
LEMMA EndedStays ==
  ASSUME TypeOK, [Next]_vars, NEW q \in Requests, pc[q] \in {"done", "exhausted"}
  PROVE  pc'[q] = pc[q] /\ newStatus'[q] = newStatus[q] /\ reply'[q] = reply[q]
<1> USE DEF store, sse, TypeOK
<1>1. ASSUME NEW r \in Requests, RejectRequest(r)
      PROVE  pc'[q] = pc[q] /\ newStatus'[q] = newStatus[q] /\ reply'[q] = reply[q]
  BY <1>1 DEF RejectRequest, Arrives
<1>2. ASSUME NEW r \in Requests, NEW t \in TaskIds, OnSendTask(r, t) \/ OnSendTaskSubscribe(r, t)
      PROVE  pc'[q] = pc[q] /\ newStatus'[q] = newStatus[q] /\ reply'[q] = reply[q]
  BY <1>2 DEF OnSendTask, OnSendTaskSubscribe, Arrives
<1>3. ASSUME NEW r \in Requests, SendStep(r)
      PROVE  pc'[q] = pc[q] /\ newStatus'[q] = newStatus[q] /\ reply'[q] = reply[q]
  BY <1>3 DEF SendStep, WorkingPosted, AgentResponds, AgentRaises, ResultPosted
<1>4. ASSUME NEW r \in Requests, RunnerStep(r)
      PROVE  pc'[q] = pc[q] /\ newStatus'[q] = newStatus[q] /\ reply'[q] = reply[q]
  <2>1. q # r
    BY <1>4 DEF RunnerStep, StreamItem, UpdatePosted, StreamRaises, StreamExhausted
  <2>2. pc'[q] = pc[q] /\ newStatus'[q] = newStatus[q]
    BY <1>4, <2>1, RunnerFrame
  <2>3. UNCHANGED reply
    BY <1>4 DEF RunnerStep, StreamItem, UpdatePosted, StreamRaises, StreamExhausted
  <2> QED
    BY <2>2, <2>3
<1>5. ASSUME NEW r \in Requests, ConsumerStep(r) \/ ClientDisconnects(r)
      PROVE  pc'[q] = pc[q] /\ newStatus'[q] = newStatus[q] /\ reply'[q] = reply[q]
  BY <1>5 DEF ConsumerStep, DeliverEvent, CloseStream, ClientDisconnects
<1>6. ASSUME NEW t \in TaskIds, SetPushNotification(t)
      PROVE  pc'[q] = pc[q] /\ newStatus'[q] = newStatus[q] /\ reply'[q] = reply[q]
  BY <1>6 DEF SetPushNotification
<1>7. CASE UNCHANGED vars
  BY <1>7 DEF vars
<1> QED
  BY <1>1, <1>2, <1>3, <1>4, <1>5, <1>6, <1>7 DEF Next, ClientCalls

LEMMA FailedStays ==
  ASSUME IInv, StoreInv, StoreStep, [Next]_vars,
         NEW q \in Requests, target[q] \in TaskIds, Failed(q)
  PROVE  Failed(q)'
<1>1. target'[q] = target[q]
  BY TargetsStay, TaskManagerAssumption
<1>2. CASE RaisedInLog(q)
  <2>1. AnnounceStep
    BY NextAnnounceStep DEF IInv, StoreInv
  <2>2. RaisedInLog(q)'
    BY <1>1, <1>2, <2>1, RaisedForGood DEF IInv
  <2> QED
    BY <2>2 DEF Failed, RaisedInLog
<1>3. CASE pc[q] = "exhausted" \/ reply[q].type = "error"
  <2>1. pc[q] \in {"done", "exhausted"}
    BY <1>3 DEF StoreInv, Progress
  <2> QED
    BY <1>3, <2>1, EndedStays DEF IInv, Failed
<1> QED
  BY <1>2, <1>3 DEF Failed, RaisedInLog

-----------------------------------------------------------------------------
(* The request the server works for is the call of one host, which holds   *)
(* its task; no other host does, and no other stream gets its events.      *)

Owner(h, r) ==
  /\ call[h] = r /\ Holds(h) /\ taskId[h] = target[r]
  /\ at[h] \notin {"prompt", "get_task"}
  /\ \A g \in Clis : g # h => call[g] # r /\ taskId[g] # target[r]

LEMMA BusyHasOwner ==
  ASSUME HostsDiffer, HostsWait, BusyIsHeld,
         NEW r \in Requests, Running(r) \/ Connected(r)
  PROVE  \E h \in Clis : Owner(h, r)
<1>1. PICK h \in Clis : call[h] = r /\ Holds(h)
  BY DEF BusyIsHeld
<1>2. taskId[h] = target[r]
  BY <1>1 DEF HostsWait
<1>3. at[h] \notin {"prompt", "get_task"}
  BY <1>1 DEF HostsWait, Over, Running
<1>4. \A g \in Clis : g # h => call[g] # r /\ taskId[g] # target[r]
  BY <1>1, <1>2, NobodyAssumption DEF HostsDiffer, Holds
<1> QED
  BY <1>1, <1>2, <1>3, <1>4 DEF Owner

LEMMA NoOtherListener ==
  ASSUME SubscribersExact, HostsWait, BusyIsHeld,
         NEW r \in Requests, HasTarget(r), NEW h \in Clis, Owner(h, r),
         NEW q \in Requests, q # r
  PROVE  q \notin subscribers[target[r]]
<1> SUFFICES ASSUME q \in subscribers[target[r]]
             PROVE  FALSE
  OBVIOUS
<1>1. Connected(q) /\ target[q] = target[r]
  BY DEF SubscribersExact, HasTarget
<1>2. PICK g \in Clis : call[g] = q /\ Holds(g)
  BY <1>1 DEF BusyIsHeld
<1>3. taskId[g] = target[r]
  BY <1>1, <1>2 DEF HostsWait
<1> QED
  BY <1>2, <1>3 DEF Owner

LEMMA WorkIsAlone ==
  ASSUME IInv, CliInv, NEW r \in Requests, Works(r)
  PROVE  /\ OnlyOf(r) /\ HasTarget(r) /\ StatusStep(r)
         /\ \E h \in Clis : Owner(h, r)
         /\ \A q \in Requests : q # r => queues'[q] = queues[q]
<1>1. OnlyOf(r) /\ (Running(r) \/ Connected(r)) /\ HasTarget(r) /\ StatusStep(r)
  BY WorkIsOnlyOf, WorkIsStatusStep DEF IInv
<1>2. PICK h \in Clis : Owner(h, r)
  BY <1>1, BusyHasOwner DEF CliInv
<1>3. \A q \in Requests : q # r => q \notin subscribers[target[r]]
  BY <1>1, <1>2, NoOtherListener DEF IInv, CliInv
<1> QED
  BY <1>1, <1>2, <1>3 DEF OnlyOf

-----------------------------------------------------------------------------
(* Steps of the server, with the hosts waiting (or one of them dying).     *)

Serves(r) ==
  /\ Works(r)
  /\ UNCHANGED <<taskId, call, result>>
  /\ \A g \in Clis : at'[g] = at[g] \/ at'[g] = "stopped"
  /\ \/ SendStep(r) \/ RunnerStep(r) \/ ConsumerStep(r)
     \/ \A g \in Clis : call[g] = r => at'[g] = "stopped"

CliIInv == CliTypeOK /\ IInv /\ StoreInv /\ CliInv

LEMMA HeadOfQueue ==
  ASSUME TypeOK, NEW r \in Requests, queues[r] # <<>>
  PROVE  1 \in DOMAIN queues[r] /\ Head(queues[r]) = queues[r][1] /\ Head(queues[r]) \in Events
BY DEF TypeOK

LEMMA ConsumerMoves ==
  ASSUME CliIInv, NEW r \in Requests, Works(r)
  PROVE  /\ consumer[r] = "none" => consumer'[r] = "none"
         /\ (SendStep(r) \/ RunnerStep(r) \/ ConsumerStep(r)) =>
              (consumer'[r] \in {"closing", "closed"} =>
                 \/ consumer[r] \in {"closing", "closed"}
                 \/ pc[r] = "done" /\ UNCHANGED pc)
<1> USE DEF CliIInv, sse
<1>0. consumer \in [Requests -> {"none", "open", "closing", "closed"}]
  BY DEF CliTypeOK, TypeOK
<1>1. CASE SendStep(r)
  BY <1>1 DEF SendStep, WorkingPosted, AgentResponds, AgentRaises, ResultPosted
<1>2. CASE RunnerStep(r)
  BY <1>2, RunnerFrame DEF IInv
<1>3. CASE DeliverEvent(r)
  <2>1. queues[r] # <<>> /\ UNCHANGED pc
    BY <1>3 DEF DeliverEvent
  <2>2. 1 \in DOMAIN queues[r] /\ Head(queues[r]) = queues[r][1]
    BY <2>1, HeadOfQueue DEF CliTypeOK
  <2>3. EndsStream(Head(queues[r])) => pc[r] = "done"
    BY <2>2 DEF CliInv, OwnEvents
  <2> QED
    BY <1>0, <1>3, <2>1, <2>3 DEF DeliverEvent
<1>4. CASE CloseStream(r)
  BY <1>0, <1>4 DEF CloseStream
<1>5. ASSUME ClientDisconnects(r)
      PROVE  consumer[r] = "none" => consumer'[r] = "none"
  BY <1>0, <1>5 DEF ClientDisconnects
<1> QED
  BY <1>1, <1>2, <1>3, <1>4, <1>5 DEF Works, ConsumerStep

LEMMA ServesHostsWait ==
  ASSUME CliIInv, [Next]_vars, NEW r \in Requests, Serves(r)
  PROVE  HostsWait'
<1>0. TypeOK /\ CliTypeOK /\ HostsWait
  BY DEF CliIInv, CliInv, IInv
<1>1. OnlyOf(r) /\ HasTarget(r)
  BY WorkIsAlone DEF CliIInv, Serves
<1>2. PICK h \in Clis : Owner(h, r)
  BY WorkIsAlone DEF CliIInv, Serves
<1> SUFFICES ASSUME NEW g \in Clis
             PROVE
    /\ Holds(g)' => call'[g] # Nobody /\ taskId'[g] = target'[call'[g]]
    /\ at'[g] \in {"stream", "get_task", "send_task"} => Holds(g)'
    /\ at'[g] = "send_task" => ~Subscribed(call[g])'
    /\ (at'[g] = "stream" /\ consumer'[call'[g]] \in {"closing", "closed"}) =>
         pc'[call'[g]] = "done"
    /\ (at'[g] \in {"get_task", "prompt"} /\ Holds(g)') => Over(call[g])'
    /\ (at'[g] = "prompt" /\ Holds(g)') => tasks'[taskId'[g]].status.state = "input-required"
  BY DEF HostsWait
<1>3. /\ call'[g] = call[g] /\ taskId'[g] = taskId[g] /\ Holds(g)' = Holds(g)
      /\ at'[g] = at[g] \/ at'[g] = "stopped"
      /\ UNCHANGED target
  BY <1>1 DEF Serves, Holds, OnlyOf
<1>4. CASE g = h
  <2>1. call[g] = r /\ Holds(g) /\ at[g] \notin {"prompt", "get_task"}
    BY <1>2, <1>4 DEF Owner
  <2>2. at'[g] = "send_task" => consumer'[r] = "none"
    BY <1>0, <1>3, <2>1, ConsumerMoves DEF HostsWait, Subscribed, Serves
  <2>3. (at'[g] = "stream" /\ consumer'[r] \in {"closing", "closed"}) => pc'[r] = "done"
    <3>1. pc[r] = "done" => pc'[r] = "done"
      BY <1>0, EndedStays
    <3>2. (at[g] = "stream" /\ consumer[r] \in {"closing", "closed"}) => pc[r] = "done"
      BY <1>0, <2>1 DEF HostsWait
    <3>3. (SendStep(r) \/ RunnerStep(r) \/ ConsumerStep(r)) \/ at'[g] = "stopped"
      BY <2>1 DEF Serves
    <3> QED
      BY <1>3, <3>1, <3>2, <3>3, ConsumerMoves DEF Serves
  <2> QED
    BY <1>0, <1>3, <2>1, <2>2, <2>3 DEF HostsWait, Subscribed
<1>5. CASE g # h
  <2>1. CASE ~Holds(g)
    BY <1>0, <1>3, <2>1 DEF HostsWait
  <2>2. CASE Holds(g)
    <3>1. /\ call[g] # r /\ call[g] \in Requests
          /\ taskId[g] # target[r] /\ taskId[g] \in TaskIds
      BY <1>0, <1>2, <1>5, <2>2 DEF Owner, HostsWait, CliTypeOK, Holds
    <3>2. /\ pc'[call[g]] = pc[call[g]] /\ consumer'[call[g]] = consumer[call[g]]
          /\ tasks'[taskId[g]] = tasks[taskId[g]]
      BY <1>1, <3>1 DEF OnlyOf
    <3> QED
      BY <1>0, <1>3, <2>2, <3>2 DEF HostsWait, Over, Connected, Subscribed
  <2> QED
    BY <2>1, <2>2
<1> QED
  BY <1>4, <1>5

LEMMA ServesHeld ==
  ASSUME CliIInv, NEW r \in Requests, Serves(r)
  PROVE  HostsDiffer' /\ BusyIsHeld' /\ PausedIsHeld'
<1>1. OnlyOf(r) /\ HasTarget(r)
  BY WorkIsAlone DEF CliIInv, Serves
<1>2. PICK h \in Clis : Owner(h, r)
  BY WorkIsAlone DEF CliIInv, Serves
<1>3. UNCHANGED <<call, taskId>> /\ \A g \in Clis : Holds(g)' = Holds(g)
  BY DEF Serves, Holds
<1>4. HostsDiffer'
  BY <1>3 DEF CliIInv, CliInv, HostsDiffer
<1>5. BusyIsHeld'
  <2> SUFFICES ASSUME NEW q \in Requests, Running(q)' \/ Connected(q)'
               PROVE  \E g \in Clis : call[g] = q /\ Holds(g)
    BY <1>3 DEF BusyIsHeld
  <2>1. CASE q = r
    BY <1>2, <2>1 DEF Owner
  <2>2. CASE q # r
    <3>1. Running(q) \/ Connected(q)
      BY <1>1, <2>2 DEF OnlyOf, Running, Connected
    <3> QED
      BY <3>1 DEF CliIInv, CliInv, BusyIsHeld
  <2> QED
    BY <2>1, <2>2
<1>6. PausedIsHeld'
  <2> SUFFICES ASSUME NEW t \in TaskIds, tasks'[t].status.state = "input-required"
               PROVE  \E g \in Clis : taskId[g] = t
    BY <1>3 DEF PausedIsHeld
  <2>1. CASE t = target[r]
    BY <1>2, <2>1 DEF Owner
  <2>2. CASE t # target[r]
    <3>1. tasks'[t] = tasks[t]
      BY <1>1, <2>2 DEF OnlyOf
    <3> QED
      BY <3>1 DEF CliIInv, CliInv, PausedIsHeld
  <2> QED
    BY <2>1, <2>2
<1> QED
  BY <1>4, <1>5, <1>6

(* What Shows says, of the next state too.                                 *)
ShowsOf(status, st) ==
  IF st = NoStatus THEN status.state \in {"submitted", "input-required"} ELSE status = st

(* The status that a run writes is its last one, and the last to speak.    *)
Told(task, q, st) ==
  LET history == task.history
      last    == history[Len(history)]
  IN  last.role = "agent" \/ (last = UserMessage(q) /\ ~st.message)

LEMMA WritesTell ==
  ASSUME TypeOK, NEW r \in Requests, HasTarget(r),
         NEW st \in Statuses, NEW as \in Seq(Requests), Writes(r, st, as)
  PROVE  /\ tasks'[target[r]].status = st /\ newStatus'[r] = st
         /\ Told(tasks[target[r]], r, newStatus[r]) => Told(tasks'[target[r]], r, st)
<1> DEFINE t == target[r]
           h == tasks[t].history
<1>0. t \in TaskIds /\ tasks \in Stores /\ h \in Seq(Messages)
  BY TaskFields DEF HasTarget, TypeOK, Stores
<1>1. /\ Appended(tasks, tasks', t, StatusMessages(st), as)
      /\ tasks'[t].status = st
  BY <1>0, UpdateStoreAppends DEF Writes
<1>2. newStatus'[r] = st
  BY DEF Writes, TypeOK
<1>3. CASE st.message
  <2>1. AgentMessage(st) \in Messages /\ AgentMessage(st).role = "agent"
    BY DEF AgentMessage, Messages, Statuses
  <2>2. tasks'[t].history = h \o <<AgentMessage(st)>>
    BY <1>1, <1>3 DEF Appended, StatusMessages
  <2>3. Len(tasks'[t].history) = Len(h) + 1
    <3>1. <<AgentMessage(st)>> \in Seq(Messages) /\ Len(<<AgentMessage(st)>>) = 1
      BY <2>1
    <3> QED
      BY <1>0, <2>2, <3>1, ConcatProperties
  <2>4. tasks'[t].history[Len(h) + 1] = AgentMessage(st)
    BY <1>0, <2>1, <2>2, OneMore
  <2> QED
    BY <1>1, <1>2, <2>1, <2>3, <2>4 DEF Told
<1>4. CASE ~st.message
  <2>1. tasks'[t].history = h
    BY <1>0, <1>1, <1>4, ConcatEmptySeq DEF Appended, StatusMessages
  <2> QED
    BY <1>1, <1>2, <1>4, <2>1 DEF Told
<1> QED
  BY <1>3, <1>4

LEMMA ServesSaid ==
  ASSUME CliIInv, NEW r \in Requests, Serves(r)
  PROVE  StatusIsOwn' /\ LastSaid'
<1>0. TypeOK /\ CliTypeOK /\ HostsWait /\ StatusIsOwn /\ LastSaid
  BY DEF CliIInv, CliInv, IInv
<1>1. OnlyOf(r) /\ HasTarget(r) /\ StatusStep(r)
  BY WorkIsAlone DEF CliIInv, Serves
<1>2. PICK h \in Clis : Owner(h, r)
  BY WorkIsAlone DEF CliIInv, Serves
<1>3. UNCHANGED <<call, taskId, target>> /\ \A g \in Clis : Holds(g)' = Holds(g)
  BY <1>1 DEF Serves, Holds, OnlyOf
<1> SUFFICES ASSUME NEW g \in Clis, Holds(g)
             PROVE  /\ ShowsOf(tasks'[taskId[g]].status, newStatus'[call[g]])
                    /\ Told(tasks'[taskId[g]], call[g], newStatus'[call[g]])
  BY <1>3 DEF StatusIsOwn, LastSaid, Told, Shows, ShowsOf
<1>4. /\ ShowsOf(tasks[taskId[g]].status, newStatus[call[g]])
      /\ Told(tasks[taskId[g]], call[g], newStatus[call[g]])
  BY <1>0 DEF StatusIsOwn, LastSaid, Told, Shows, ShowsOf
<1>5. CASE g = h
  <2>1. call[g] = r /\ taskId[g] = target[r]
    BY <1>2, <1>5 DEF Owner
  <2>2. CASE UNCHANGED <<tasks, newStatus>>
    BY <1>4, <2>2
  <2>3. ASSUME NEW st \in Statuses, NEW as \in Seq(Requests), Writes(r, st, as)
        PROVE  /\ ShowsOf(tasks'[taskId[g]].status, newStatus'[call[g]])
               /\ Told(tasks'[taskId[g]], call[g], newStatus'[call[g]])
    <3>1. /\ tasks'[taskId[g]].status = st /\ newStatus'[call[g]] = st
          /\ Told(tasks'[taskId[g]], call[g], newStatus'[call[g]])
      BY <1>0, <1>1, <1>4, <2>1, <2>3, WritesTell
    <3>2. st # NoStatus
      BY DEF Statuses, NoStatus, TaskStates
    <3> QED
      BY <3>1, <3>2 DEF ShowsOf
  <2> QED
    BY <1>1, <2>2, <2>3 DEF StatusStep
<1>6. CASE g # h
  <2>1. /\ call[g] # r /\ call[g] \in Requests
        /\ taskId[g] # target[r] /\ taskId[g] \in TaskIds
    BY <1>0, <1>2, <1>6 DEF Owner, HostsWait, CliTypeOK, Holds
  <2>2. newStatus'[call[g]] = newStatus[call[g]] /\ tasks'[taskId[g]] = tasks[taskId[g]]
    BY <1>1, <2>1 DEF OnlyOf
  <2> QED
    BY <1>4, <2>2
<1> QED
  BY <1>5, <1>6

(* How the step of a run leaves it.                                        *)
EndsWell(q) ==
  /\ (pc[q] = "post_result" \/ reply[q].type = "task") => Final(newStatus[q])
  /\ pc[q] = "done" => Failed(q) \/ Final(newStatus[q])

LEMMA RaisingFails ==
  ASSUME TypeOK, NEW r \in Requests, HasTarget(r), StreamRaises(r)
  PROVE  Failed(r)'
<1> DEFINE l == announced[target[r]]
<1>1. ErrorEvent(r) \in Events /\ l \in Seq(Events)
  BY DEF ErrorEvent, Events, TypeOK, HasTarget
<1>2. UNCHANGED target /\ announced'[target[r]] = l \o <<ErrorEvent(r)>>
  BY DEF StreamRaises, Broadcast, TypeOK, HasTarget
<1>3. Len(l) + 1 \in DOMAIN LogOf(r)' /\ LogOf(r)'[Len(l) + 1] = ErrorEvent(r)
  <2>1. LogOf(r)' = l \o <<ErrorEvent(r)>>
    BY <1>2 DEF LogOf
  <2> HIDE DEF l
  <2> QED
    BY <1>1, <2>1, OneMore
<1>4. ErrorEvent(r)' = ErrorEvent(r)
  BY DEF ErrorEvent
<1> QED
  BY <1>3, <1>4 DEF Failed

LEMMA WorkEndsWell ==
  ASSUME CliIInv, [Next]_vars, NEW r \in Requests, Works(r), pc[r] # "done"
  PROVE  EndsWell(r)'
<1> USE DEF store, sse
<1>0. /\ TypeOK /\ HasTarget(r) /\ (pc[r] = "post_result" => Final(newStatus[r]))
      /\ reply[r].type # "task"
  BY WorkIsAlone DEF CliIInv, CliInv, IInv, RunsEnd, StoreInv, Progress
<1>1. CASE WorkingPosted(r)
  BY <1>0, <1>1 DEF WorkingPosted, EndsWell, TypeOK
<1>2. CASE AgentResponds(r)
  <2>1. PICK st \in Statuses, as \in Seq(Requests) : Writes(r, st, as) /\ Final(st)
    BY <1>2, RespondsWrites
  <2>2. newStatus'[r] = st
    BY <1>0, <2>1 DEF Writes, TypeOK
  <2>3. Final(newStatus[r])'
    BY <2>1, <2>2 DEF Final
  <2> QED
    BY <2>3 DEF EndsWell
<1>3. CASE AgentRaises(r)
  <2>1. reply'[r].type = "error" /\ pc'[r] = "done"
    BY <1>0, <1>3 DEF AgentRaises, TypeOK, ErrorReply
  <2> QED
    BY <2>1 DEF EndsWell, Failed
<1>4. CASE ResultPosted(r)
  <2>1. pc[r] = "post_result" /\ UNCHANGED newStatus
    BY <1>4 DEF ResultPosted
  <2>2. Final(newStatus[r])'
    BY <1>0, <2>1 DEF Final
  <2> QED
    BY <2>2 DEF EndsWell
<1>5. CASE StreamItem(r)
  <2>1. PICK st \in Statuses, as \in Seq(Requests) :
          /\ Writes(r, st, as)
          /\ pc' = [pc EXCEPT ![r] = AfterNotify(target[r], "post_update", AfterStatus(st))]
    BY <1>0, <1>5, ItemWrites
  <2>2. newStatus'[r] = st
    BY <1>0, <2>1 DEF Writes, TypeOK
  <2>3. pc'[r] = "done" => Final(st)
    BY <1>0, <2>1 DEF AfterNotify, AfterStatus, TypeOK
  <2>4. pc'[r] # "post_result" /\ UNCHANGED reply
    BY <1>0, <1>5, <2>1 DEF AfterNotify, AfterStatus, TypeOK, StreamItem
  <2> QED
    BY <1>0, <2>2, <2>3, <2>4 DEF EndsWell, Final
<1>6. CASE UpdatePosted(r)
  <2>1. pc'[r] = AfterStatus(newStatus[r]) /\ newStatus'[r] = newStatus[r] /\ UNCHANGED reply
    BY <1>0, <1>6 DEF UpdatePosted, TypeOK
  <2> QED
    BY <1>0, <2>1 DEF EndsWell, AfterStatus, Final
<1>7. CASE StreamRaises(r)
  <2>1. Failed(r)'
    BY <1>0, <1>7, RaisingFails
  <2>2. pc'[r] = "done" /\ UNCHANGED reply
    BY <1>0, <1>7 DEF StreamRaises, TypeOK
  <2> QED
    BY <1>0, <2>1, <2>2 DEF EndsWell
<1>8. CASE StreamExhausted(r)
  BY <1>0, <1>8 DEF StreamExhausted, EndsWell, TypeOK
<1>9. CASE ConsumerStep(r) \/ ClientDisconnects(r)
  <2>1. UNCHANGED <<pc, newStatus, reply>>
    BY <1>9 DEF ConsumerStep, DeliverEvent, CloseStream, ClientDisconnects
  <2>2. Final(newStatus[r])' = Final(newStatus[r])
    BY <2>1 DEF Final
  <2> QED
    BY <1>0, <2>1, <2>2 DEF EndsWell
<1> QED
  BY <1>1, <1>2, <1>3, <1>4, <1>5, <1>6, <1>7, <1>8, <1>9 DEF Works, SendStep, RunnerStep

LEMMA ServesRunsEnd ==
  ASSUME CliIInv, StoreStep, [Next]_vars, NEW r \in Requests, Serves(r)
  PROVE  RunsEnd' /\ ConcludedIsOver'
<1>0. TypeOK /\ CliTypeOK /\ RunsEnd /\ ConcludedIsOver /\ IInv /\ StoreInv
  BY DEF CliIInv, CliInv, IInv
<1>1. OnlyOf(r) /\ HasTarget(r) /\ StatusStep(r)
  BY WorkIsAlone DEF CliIInv, Serves
<1>2. ASSUME NEW q \in Requests, pc[q] = "done" \/ q # r, target[q] # NoId
      PROVE  EndsWell(q)'
  <2>1. pc'[q] = pc[q] /\ newStatus'[q] = newStatus[q] /\ reply'[q] = reply[q]
    BY <1>0, <1>1, <1>2, EndedStays DEF OnlyOf
  <2>2. Final(newStatus[q])' = Final(newStatus[q])
    BY <2>1 DEF Final
  <2>3. Failed(q) => Failed(q)'
    BY <1>0, <1>2, FailedStays DEF TypeOK
  <2> QED
    BY <1>0, <1>2, <2>1, <2>2, <2>3 DEF EndsWell, RunsEnd
<1>3. ASSUME NEW q \in Requests, target'[q] # NoId
      PROVE  EndsWell(q)'
  <2>1. target[q] # NoId
    BY <1>1, <1>3 DEF OnlyOf
  <2>2. CASE pc[q] = "done" \/ q # r
    BY <1>2, <2>1, <2>2
  <2>3. CASE pc[q] # "done" /\ q = r
    BY <2>3, WorkEndsWell DEF Serves
  <2> QED
    BY <2>2, <2>3
<1>4. ASSUME NEW q \in Requests, target'[q] = NoId
      PROVE  pc'[q] = pc[q] /\ newStatus'[q] = newStatus[q] /\ reply'[q] = reply[q]
  BY <1>1, <1>4, TaskManagerAssumption DEF OnlyOf, HasTarget
<1>5. ASSUME NEW q \in Requests
      PROVE  newStatus'[q].state = "input-required" => newStatus'[q].message
  <2>1. CASE newStatus'[q] = newStatus[q]
    BY <1>0, <2>1 DEF RunsEnd
  <2>2. ASSUME q = r, NEW st \in Statuses, NEW as \in Seq(Requests), Writes(r, st, as)
        PROVE  newStatus'[q].state = "input-required" => newStatus'[q].message
    BY <1>0, <2>2 DEF Writes, TypeOK
  <2> QED
    BY <1>1, <2>1, <2>2 DEF StatusStep, OnlyOf
<1>6. ASSUME NEW q \in Requests, pc'[q] = "post_result" \/ reply'[q].type = "task"
      PROVE  Final(newStatus[q])'
  <2>1. CASE target'[q] # NoId
    BY <1>3, <1>6, <2>1 DEF EndsWell
  <2>2. CASE target'[q] = NoId
    <3>1. Final(newStatus[q])
      BY <1>0, <1>4, <1>6, <2>2 DEF RunsEnd
    <3> QED
      BY <1>4, <2>2, <3>1 DEF Final
  <2> QED
    BY <2>1, <2>2
<1>7. RunsEnd'
  BY <1>3, <1>5, <1>6 DEF RunsEnd, EndsWell
<1>8. ConcludedIsOver'
  BY <1>0, <1>1, EndedStays DEF ConcludedIsOver, Serves, OnlyOf
<1> QED
  BY <1>7, <1>8

-----------------------------------------------------------------------------
(* Events of the own run.                                                  *)

Fits(e, q) ==
  /\ e.run = q
  /\ EndsStream(e) => pc[q] = "done"
  /\ e.final => e = StatusEvent(newStatus[q], TRUE)

(* The event e, of this state or not, fits after the step.                 *)
FitsNext(e, q) ==
  /\ e.run = q
  /\ EndsStream(e) => pc'[q] = "done"
  /\ e.final => e = StatusEvent(newStatus'[q], TRUE)

LEMMA FitsStays ==
  ASSUME TypeOK, [Next]_vars, NEW q \in Requests, NEW e, Fits(e, q)
  PROVE  FitsNext(e, q)
<1>1. e.final => EndsStream(e)
  BY DEF Fits, EndsStream, StatusEvent
<1>2. pc[q] = "done" => pc'[q] = "done" /\ newStatus'[q] = newStatus[q]
  BY EndedStays
<1> QED
  BY <1>1, <1>2 DEF Fits, FitsNext

LEMMA StatusFits ==
  ASSUME NEW r \in Requests, NEW st \in Statuses, st.run = r,
         newStatus'[r] = st, Final(st) => pc'[r] = "done",
         NEW i \in DOMAIN StatusEvents(st)
  PROVE  FitsNext(StatusEvents(st)[i], r)
<1> DEFINE e == StatusEvent(st, Final(st))
<1>1. Final(st) \in BOOLEAN
  BY DEF Final
<1>2. e.run = r /\ e.final = Final(st) /\ e.type = "status"
  BY DEF StatusEvent
<1>3. EndsStream(e) => pc'[r] = "done"
  BY <1>1, <1>2 DEF EndsStream
<1>4. e.final => e = StatusEvent(newStatus'[r], TRUE)
  BY <1>1, <1>2
<1>5. StatusEvents(st)[i] = e
  BY DEF StatusEvents
<1> HIDE DEF e
<1> QED
  BY <1>2, <1>3, <1>4, <1>5 DEF FitsNext

LEMMA ArtifactFits ==
  ASSUME NEW r \in Requests, NEW st \in Statuses, NEW i \in DOMAIN Artifacts(r, st)
  PROVE  FitsNext(Artifacts(r, st)[i], r)
<1>1. Artifacts(r, st)[i] = ArtifactEvent(r)
  BY DEF Artifacts
<1>2. /\ ArtifactEvent(r).run = r /\ ~ArtifactEvent(r).final
      /\ ArtifactEvent(r).type = "artifact"
  BY DEF ArtifactEvent
<1> QED
  BY <1>1, <1>2 DEF FitsNext, EndsStream

LEMMA ConcatFits ==
  ASSUME NEW s \in Seq(Events), NEW u \in Seq(Events), NEW q,
         \A i \in DOMAIN s : FitsNext(s[i], q), \A i \in DOMAIN u : FitsNext(u[i], q),
         NEW i \in DOMAIN (s \o u)
  PROVE  FitsNext((s \o u)[i], q)
BY ConcatElement

LEMMA ItemFits ==
  ASSUME TypeOK, NEW r \in Requests, HasTarget(r), NEW st \in Statuses,
         NEW as \in Seq(Requests), NEW es \in Seq(Events), ItemStep(r, st, as, es),
         NEW i \in DOMAIN es
  PROVE  FitsNext(es[i], r)
<1>1. st.run = r /\ newStatus'[r] = st
  BY DEF ItemStep, TypeOK
<1>2. \A k \in DOMAIN Artifacts(r, st) : FitsNext(Artifacts(r, st)[k], r)
  BY ArtifactFits
<1>3. Artifacts(r, st) \in Seq(Events) /\ StatusEvents(st) \in Seq(Events)
  BY ArtifactsTyped, StatusEventsTyped
<1>4. CASE target[r] \in pushInfos
  <2>1. es = Artifacts(r, st)
    BY <1>4 DEF ItemStep, AfterNotify
  <2> QED
    BY <1>2, <2>1
<1>5. CASE target[r] \notin pushInfos
  <2>1. es = Artifacts(r, st) \o StatusEvents(st)
    BY <1>5 DEF ItemStep, AfterNotify
  <2>2. Final(st) => pc'[r] = "done"
    BY <1>5 DEF ItemStep, AfterNotify, AfterStatus, TypeOK
  <2>3. \A k \in DOMAIN StatusEvents(st) : FitsNext(StatusEvents(st)[k], r)
    BY <1>1, <2>2, StatusFits
  <2> QED
    BY <1>2, <1>3, <2>1, <2>3, ConcatFits
<1> QED
  BY <1>4, <1>5

LEMMA RunnerEventsFit ==
  ASSUME TypeOK, Lifecycle, NEW r \in Requests, RunnerStep(r), ~StreamExhausted(r)
  PROVE  \E es \in Seq(Events) : /\ Broadcast(target[r], es)
                                 /\ \A i \in DOMAIN es : FitsNext(es[i], r)
<1>0. HasTarget(r)
  BY ActiveHasTarget
<1>1. CASE StreamItem(r)
  <2>1. PICK st \in Statuses, as \in Seq(Requests), es \in Seq(Events) : ItemStep(r, st, as, es)
    BY <1>1, StreamItemStep
  <2>2. \A i \in DOMAIN es : FitsNext(es[i], r)
    BY <1>0, <2>1, ItemFits
  <2> QED
    BY <2>1, <2>2 DEF ItemStep
<1>2. CASE UpdatePosted(r)
  <2>1. newStatus[r] \in Statuses /\ newStatus[r].run = r
    BY <1>2, NobodyAssumption DEF TypeOK, Lifecycle, UpdatePosted, NoStatus
  <2>2. PICK st \in Statuses : st = newStatus[r]
    BY <2>1
  <2>3. /\ st.run = r /\ newStatus'[r] = st /\ Broadcast(target[r], StatusEvents(st))
        /\ Final(st) => pc'[r] = "done"
    BY <1>2, <2>1, <2>2 DEF UpdatePosted, AfterStatus, TypeOK
  <2>4. StatusEvents(st) \in Seq(Events)
    BY StatusEventsTyped
  <2>5. \A i \in DOMAIN StatusEvents(st) : FitsNext(StatusEvents(st)[i], r)
    BY <2>3, StatusFits
  <2> QED
    BY <2>3, <2>4, <2>5
<1>3. CASE StreamRaises(r)
  <2> DEFINE e == ErrorEvent(r)
  <2>1. e \in Events /\ e.run = r /\ ~e.final
    BY DEF ErrorEvent, Events
  <2>2. pc'[r] = "done" /\ Broadcast(target[r], <<e>>)
    BY <1>3 DEF StreamRaises, TypeOK
  <2> HIDE DEF e
  <2>3. FitsNext(e, r)
    BY <2>1, <2>2 DEF FitsNext
  <2>4. <<e>> \in Seq(Events) /\ \A i \in DOMAIN <<e>> : <<e>>[i] = e
    BY <2>1
  <2> QED
    BY <2>2, <2>3, <2>4
<1> QED
  BY <1>1, <1>2, <1>3 DEF RunnerStep

LEMMA QueueFits ==
  ASSUME CliIInv, [Next]_vars, NEW r \in Requests, Works(r), NEW i \in DOMAIN queues'[r]
  PROVE  FitsNext(queues'[r][i], r)
<1> USE DEF sse
<1>0. /\ TypeOK /\ Lifecycle /\ HasTarget(r) /\ queues[r] \in Seq(Events)
      /\ \A k \in DOMAIN queues[r] : Fits(queues[r][k], r)
  BY WorkIsAlone DEF CliIInv, CliInv, IInv, OwnEvents, Fits, TypeOK
<1>1. \A k \in DOMAIN queues[r] : FitsNext(queues[r][k], r)
  BY <1>0, FitsStays
<1>2. CASE UNCHANGED queues
  BY <1>1, <1>2
<1>3. CASE RunnerStep(r) /\ ~StreamExhausted(r)
  <2>1. PICK es \in Seq(Events) : /\ Broadcast(target[r], es)
                                  /\ \A k \in DOMAIN es : FitsNext(es[k], r)
    BY <1>0, <1>3, RunnerEventsFit
  <2>2. queues'[r] = queues[r] \/ queues'[r] = queues[r] \o es
    BY <2>1 DEF Broadcast, EnqueueEvents
  <2> QED
    BY <1>0, <1>1, <2>1, <2>2, ConcatFits
<1>4. CASE DeliverEvent(r)
  <2>1. queues'[r] = Tail(queues[r]) /\ queues[r] # <<>>
    BY <1>0, <1>4 DEF DeliverEvent, TypeOK
  <2>2. i + 1 \in DOMAIN queues[r] /\ queues'[r][i] = queues[r][i + 1]
    BY <1>0, <2>1
  <2> QED
    BY <1>1, <2>2
<1>5. CASE CloseStream(r)
  BY <1>0, <1>5 DEF CloseStream, TypeOK
<1> QED
  BY <1>2, <1>3, <1>4, <1>5
  DEF Works, SendStep, WorkingPosted, AgentResponds, AgentRaises, ResultPosted, RunnerStep,
      StreamExhausted, ConsumerStep, ClientDisconnects

LEMMA ServesOwnEvents ==
  ASSUME CliIInv, [Next]_vars, NEW r \in Requests, Serves(r)
  PROVE  OwnEvents'
<1>0. TypeOK /\ OwnEvents
  BY DEF CliIInv, CliInv, IInv
<1>1. OnlyOf(r) /\ \A q \in Requests : q # r => queues'[q] = queues[q]
  BY WorkIsAlone DEF CliIInv, Serves
<1>2. ASSUME NEW q \in Requests, NEW i \in DOMAIN queues'[q]
      PROVE  FitsNext(queues'[q][i], q)
  <2>1. CASE q = r
    BY <2>1, QueueFits DEF Serves
  <2>2. CASE q # r
    <3>1. /\ i \in DOMAIN queues[q] /\ queues'[q][i] = queues[q][i]
          /\ pc'[q] = pc[q] /\ newStatus'[q] = newStatus[q]
      BY <1>1, <2>2 DEF OnlyOf
    <3>2. Fits(queues[q][i], q)
      BY <1>0, <3>1 DEF OwnEvents, Fits
    <3> QED
      BY <3>1, <3>2 DEF Fits, FitsNext
  <2> QED
    BY <2>1, <2>2
<1>3. ASSUME NEW q \in Requests, NEW i \in DOMAIN received'[q]
      PROVE  received'[q][i].run = q
  <2>1. CASE received'[q] = received[q]
    BY <1>0, <1>3, <2>1 DEF OwnEvents
  <2>2. CASE q = r /\ DeliverEvent(r)
    <3>1. queues[r] # <<>> /\ received'[r] = Append(received[r], Head(queues[r]))
      BY <1>0, <2>2 DEF DeliverEvent, TypeOK
    <3>2. Head(queues[r]) \in Events /\ Head(queues[r]).run = r
      <4>1. 1 \in DOMAIN queues[r] /\ Head(queues[r]) = queues[r][1] /\ Head(queues[r]) \in Events
        BY <1>0, <3>1, HeadOfQueue
      <4>2. \A k \in DOMAIN queues[r] : queues[r][k].run = r
        BY <1>0 DEF OwnEvents
      <4>3. queues[r][1].run = r
        BY <4>1, <4>2
      <4> QED
        BY <4>1, <4>3
    <3>3. PICK e \in Events : e = Head(queues[r]) /\ e.run = r
      BY <3>2
    <3>4. PICK s \in Seq(Events) : s = received[r]
      BY <1>0 DEF TypeOK
    <3>5. \A k \in DOMAIN s : s[k].run = r
      BY <1>0, <3>4 DEF OwnEvents
    <3>6. received'[q] = Append(s, e)
      BY <2>2, <3>1, <3>3, <3>4
    <3>7. \A k \in DOMAIN Append(s, e) : Append(s, e)[k].run = r
      BY <3>3, <3>5
    <3> QED
      BY <2>2, <3>6, <3>7
  <2>3. received'[q] = received[q] \/ (q = r /\ DeliverEvent(r))
    <3>1. RunnerStep(r) => UNCHANGED received
      BY <1>0, RunnerFrame
    <3> QED
      BY <1>1, <3>1 DEF Serves, Works, SendStep, WorkingPosted, AgentResponds, AgentRaises,
           ResultPosted, ConsumerStep, CloseStream, ClientDisconnects, OnlyOf, sse
  <2> QED
    BY <2>1, <2>2, <2>3
<1> QED
  BY <1>2, <1>3 DEF OwnEvents, FitsNext

-----------------------------------------------------------------------------
(* Replies, verdicts and turns.                                            *)

LEMMA WorkReplies ==
  ASSUME CliIInv, NEW r \in Requests, Works(r), pc[r] # "done", reply'[r].type = "task"
  PROVE  reply'[r].status = newStatus'[r]
<1> USE DEF store, sse
<1>0. TypeOK /\ CliTypeOK /\ HasTarget(r) /\ reply[r].type = "none"
  <2>1. reply[r].type \in {"none", "error", "task"}
    BY DEF CliIInv, IInv, TypeOK
  <2> QED
    BY <2>1, WorkIsAlone DEF CliIInv, IInv, StoreInv, Progress
<1>1. CASE AgentResponds(r)
  <2>1. PICK st \in Statuses, as \in Seq(Requests) : Writes(r, st, as) /\ Final(st)
    BY <1>1, RespondsWrites
  <2>2. tasks'[target[r]].status = st /\ newStatus'[r] = st
    BY <1>0, <2>1, WritesTell
  <2>3. reply'[r] = AfterNotify(target[r], NoReply, TaskReply(target[r]))
    BY <1>0, <1>1 DEF AgentResponds, TypeOK
  <2> QED
    BY <1>1, <2>2, <2>3 DEF AfterNotify, NoReply, TaskReply
<1>2. CASE ResultPosted(r)
  <2>1. pc[r] = "post_result" /\ UNCHANGED <<tasks, newStatus>>
        /\ reply'[r].status = tasks'[target[r]].status
    BY <1>0, <1>2 DEF ResultPosted, TaskReply, TypeOK
  <2>2. PICK h \in Clis : Owner(h, r)
    BY WorkIsAlone DEF CliIInv
  <2>3. newStatus[r] # NoStatus
    BY <2>1 DEF CliIInv, CliInv, RunsEnd, Final, NoStatus
  <2>4. tasks[target[r]].status = newStatus[r]
    BY <2>2, <2>3 DEF CliIInv, CliInv, StatusIsOwn, Shows, Owner
  <2> QED
    BY <2>1, <2>4
<1>3. CASE AgentRaises(r)
  BY <1>0, <1>3 DEF AgentRaises, TypeOK, ErrorReply
<1>4. ASSUME UNCHANGED reply
      PROVE  FALSE
  BY <1>0, <1>4
<1> QED
  BY <1>1, <1>2, <1>3, <1>4
  DEF Works, SendStep, WorkingPosted, RunnerStep, StreamItem, UpdatePosted, StreamRaises,
      StreamExhausted, ConsumerStep, DeliverEvent, CloseStream, ClientDisconnects

LEMMA ServesReplies ==
  ASSUME CliIInv, [Next]_vars, NEW r \in Requests, Serves(r)
  PROVE  ReplyIsOwnResult'
<1>0. TypeOK /\ ReplyIsOwnResult /\ OnlyOf(r)
  BY WorkIsAlone DEF CliIInv, CliInv, IInv, Serves
<1> SUFFICES ASSUME NEW q \in Requests, reply'[q].type = "task"
             PROVE  reply'[q].status = newStatus'[q]
  BY DEF ReplyIsOwnResult
<1>1. CASE pc[q] = "done" \/ q # r
  <2>1. reply'[q] = reply[q] /\ newStatus'[q] = newStatus[q]
    BY <1>0, <1>1, EndedStays DEF OnlyOf
  <2> QED
    BY <1>0, <2>1 DEF ReplyIsOwnResult
<1>2. CASE pc[q] # "done" /\ q = r
  BY <1>2, WorkReplies DEF Serves
<1> QED
  BY <1>1, <1>2

(* A verdict stays right: the run it is about is over.                     *)
LEMMA VerdictStays ==
  ASSUME CliIInv, StoreStep, [Next]_vars, NEW q \in Requests, result[q] # NoStatus
  PROVE  /\ ShowsOf(result[q], newStatus'[q])
         /\ Failed(q)' \/ Final(newStatus[q])'
<1>1. pc[q] = "done" /\ target[q] \in TaskIds
  BY DEF CliIInv, CliInv, ConcludedIsOver, IInv, TypeOK
<1>2. newStatus'[q] = newStatus[q]
  BY <1>1, EndedStays DEF CliIInv, IInv
<1>3. Failed(q) => Failed(q)'
  BY <1>1, FailedStays DEF CliIInv
<1>4. ShowsOf(result[q], newStatus[q]) /\ (Failed(q) \/ Final(newStatus[q]))
  BY DEF CliIInv, CliInv, VerdictIsOwn, Shows, ShowsOf
<1>5. Final(newStatus[q])' = Final(newStatus[q])
  BY <1>2 DEF Final
<1> QED
  BY <1>2, <1>3, <1>4, <1>5

(* The turns so far still alternate after the step.                        *)
TurnIsRight(t, i) ==
  LET before == tasks[t].history[i - 1] IN before.role = "agent" \/ Failed(before.run)

LEMMA TurnsStayRight ==
  ASSUME CliIInv, TypeOK', StoreStep, [Next]_vars,
         NEW t \in TaskIds, NEW i \in DOMAIN tasks[t].history \ {1},
         tasks'[t].history[i].role = "user"
  PROVE  TurnIsRight(t, i)'
<1> DEFINE h == tasks[t].history
<1>0. TypeOK /\ TurnsAlternate /\ HistoryOwned
  BY DEF CliIInv, CliInv, IInv, StoreInv
<1>1. h \in Seq(Messages) /\ tasks'[t].history \in Seq(Messages)
  BY <1>0, TaskFields DEF TypeOK, Stores
<1>2. IsPrefixOf(h, tasks'[t].history)
  BY <1>0, StoreGrows
<1>3. \A k \in DOMAIN h : k \in DOMAIN tasks'[t].history /\ tasks'[t].history[k] = h[k]
  BY <1>1, <1>2, PrefixKeepsMembers
<1>4. i - 1 \in DOMAIN h
  <2>1. DOMAIN h = 1..Len(h) /\ Len(h) \in Nat
    BY <1>1, LenProperties
  <2> QED
    BY <2>1
<1>5. h[i].role = "user" /\ tasks'[t].history[i - 1] = h[i - 1]
  BY <1>3, <1>4
<1>6. PICK m \in Messages : m = h[i - 1]
  BY <1>1, <1>4
<1>7. m.role = "agent" \/ Failed(m.run)
  BY <1>0, <1>5, <1>6 DEF TurnsAlternate
<1>8. m.run \in Requests /\ target[m.run] = t
  BY <1>0, <1>4, <1>6 DEF HistoryOwned, Messages
<1>9. m.role = "agent" \/ Failed(m.run)'
  BY <1>7, <1>8, FailedStays DEF CliIInv
<1>10. tasks'[t].history[i - 1] = m
  BY <1>5, <1>6
<1> HIDE DEF h
<1> QED
  BY <1>9, <1>10 DEF TurnIsRight, Failed, LogOf, ErrorEvent

LEMMA ServesTurns ==
  ASSUME CliIInv, TypeOK', StoreStep, [Next]_vars, NEW r \in Requests, Serves(r)
  PROVE  VerdictIsOwn' /\ TurnsAlternate'
<1>0. TypeOK /\ OnlyOf(r) /\ StatusStep(r) /\ HasTarget(r)
  BY WorkIsAlone DEF CliIInv, CliInv, IInv, Serves
<1>1. VerdictIsOwn'
  <2> SUFFICES ASSUME NEW q \in Requests, result'[q] # NoStatus
               PROVE  ShowsOf(result'[q], newStatus'[q]) /\ (Failed(q)' \/ Final(newStatus[q])')
    BY DEF VerdictIsOwn, Shows, ShowsOf
  <2>1. result'[q] = result[q]
    BY DEF Serves
  <2> QED
    BY <2>1, VerdictStays
<1>2. ASSUME NEW t \in TaskIds, NEW i \in DOMAIN tasks'[t].history,
             tasks'[t].history[i].role = "user"
      PROVE  i \in DOMAIN tasks[t].history
  <2>1. CASE tasks'[t] = tasks[t]
    BY <1>2, <2>1
  <2>2. ASSUME NEW st \in Statuses, NEW as \in Seq(Requests), Writes(r, st, as), t = target[r]
        PROVE  i \in DOMAIN tasks[t].history
    <3> DEFINE h == tasks[t].history
    <3>1. tasks \in Stores /\ h \in Seq(Messages)
      BY <1>0, TaskFields DEF TypeOK, Stores
    <3>2. tasks'[t].history = h \o StatusMessages(st)
      <4>1. Appended(tasks, UpdateStore(tasks, t, st, as), t, StatusMessages(st), as)
        BY <3>1, UpdateStoreAppends
      <4>2. tasks' = UpdateStore(tasks, t, st, as)
        BY <2>2 DEF Writes
      <4> QED
        BY <4>1, <4>2 DEF Appended
    <3>3. StatusMessages(st) = <<>> \/ StatusMessages(st) = <<AgentMessage(st)>>
      BY DEF StatusMessages
    <3>4. CASE StatusMessages(st) = <<>>
      BY <3>1, <3>2, <3>4, ConcatEmptySeq
    <3>5. CASE StatusMessages(st) = <<AgentMessage(st)>>
      <4>1. AgentMessage(st) \in Messages /\ AgentMessage(st).role = "agent"
        BY DEF AgentMessage, Messages, Statuses
      <4> HIDE DEF h
      <4>2. /\ DOMAIN tasks'[t].history = 1..(Len(h) + 1) /\ DOMAIN h = 1..Len(h)
            /\ Len(h) \in Nat /\ tasks'[t].history[Len(h) + 1] = AgentMessage(st)
        BY <3>1, <3>2, <3>5, <4>1, OneMore
      <4>3. i # Len(h) + 1
        BY <1>2, <4>1, <4>2
      <4>4. i \in DOMAIN h
        BY <4>2, <4>3
      <4> QED
        BY <4>4 DEF h
    <3> QED
      BY <3>3, <3>4, <3>5
  <2> QED
    BY <1>0, <2>1, <2>2 DEF StatusStep, OnlyOf
<1>3. TurnsAlternate'
  BY <1>2, TurnsStayRight DEF TurnsAlternate, TurnIsRight
<1> QED
  BY <1>1, <1>3

LEMMA ServesCliInv ==
  ASSUME CliIInv, TypeOK', StoreStep, [Next]_vars, NEW r \in Requests, Serves(r)
  PROVE  CliInv'
BY ServesHostsWait, ServesHeld, ServesSaid, ServesRunsEnd, ServesOwnEvents, ServesReplies,
   ServesTurns DEF CliInv

-----------------------------------------------------------------------------
(* Steps of the hosts between calls.                                       *)

Rests == UNCHANGED <<tasks, queues, target, pc, newStatus, consumer, received, reply, announced>>

LEMMA RestsKeeps ==
  ASSUME CliInv, Rests
  PROVE  RunsEnd' /\ OwnEvents' /\ ReplyIsOwnResult' /\ TurnsAlternate'
<1> USE DEF CliInv, Rests
<1>1. \A q : Failed(q)' = Failed(q)
  BY DEF Failed, LogOf, ErrorEvent
<1>2. RunsEnd'
  BY <1>1 DEF RunsEnd, Final
<1>3. OwnEvents'
  BY DEF OwnEvents, EndsStream, StatusEvent
<1>4. ReplyIsOwnResult'
  BY DEF ReplyIsOwnResult
<1>5. TurnsAlternate'
  BY DEF TurnsAlternate, Failed, LogOf, ErrorEvent
<1> QED
  BY <1>2, <1>3, <1>4, <1>5

(* A host that does not conclude: it stops, or its stream is over.         *)
Passes ==
  /\ Rests
  /\ UNCHANGED <<taskId, call, result>>
  /\ \A g \in Clis : \/ at'[g] = at[g]
                     \/ at'[g] = "stopped"
                     \/ at[g] = "stream" /\ at'[g] = "get_task" /\ Over(call[g])

LEMMA PassesCliInv ==
  ASSUME CliInv, Passes
  PROVE  CliInv'
<1>1. RunsEnd' /\ OwnEvents' /\ ReplyIsOwnResult' /\ TurnsAlternate'
  BY RestsKeeps DEF Passes
<1>2. HostsDiffer' /\ BusyIsHeld' /\ PausedIsHeld'
  BY DEF CliInv, Passes, Rests, HostsDiffer, BusyIsHeld, PausedIsHeld, Holds, Running, Connected
<1>3. HostsWait'
  BY DEF CliInv, Passes, Rests, HostsWait, Holds, Over, Connected, Subscribed
<1>4. StatusIsOwn' /\ ConcludedIsOver'
  BY DEF CliInv, Passes, Rests, StatusIsOwn, Shows, Holds, ConcludedIsOver
<1>5. LastSaid'
  BY DEF CliInv, Passes, Rests, LastSaid, Holds, UserMessage
<1>6. VerdictIsOwn'
  BY DEF CliInv, Passes, Rests, VerdictIsOwn, Shows, Failed, LogOf, ErrorEvent, Final
<1> QED
  BY <1>1, <1>2, <1>3, <1>4, <1>5, <1>6 DEF CliInv

(* What a host concludes from is the status of the task it holds.          *)
LEMMA VerdictIsTheStatus ==
  ASSUME CliIInv, NEW h \in Clis, GetTask(h) \/ SendReturns(h)
  PROVE  /\ Over(call[h]) /\ target[call[h]] # NoId
         /\ Verdict(h) = tasks[taskId[h]].status
         /\ Shows(call[h], Verdict(h)) /\ (Failed(call[h]) \/ Final(newStatus[call[h]]))
<1> DEFINE r == call[h]
<1>0. /\ Concludes(h) /\ Holds(h) /\ r \in Requests /\ taskId[h] \in TaskIds
      /\ taskId[h] = target[r]
  BY HostConcludes DEF CliIInv, CliInv, HostsWait
<1>1. target[r] # NoId
  BY <1>0 DEF Holds
<1>2. Shows(r, tasks[taskId[h]].status)
  BY <1>0 DEF CliIInv, CliInv, StatusIsOwn
<1>3. Final(newStatus[r]) => newStatus[r] # NoStatus
  BY DEF Final, NoStatus
<1>4. CASE at[h] = "get_task"
  <2>1. Over(r)
    BY <1>0, <1>4 DEF CliIInv, CliInv, HostsWait
  <2>2. Verdict(h) = tasks[taskId[h]].status
    BY <1>4 DEF Verdict
  <2>3. Failed(r) \/ Final(newStatus[r])
    BY <1>0, <1>1, <2>1 DEF CliIInv, CliInv, RunsEnd, Over
  <2> QED
    BY <1>1, <1>2, <2>1, <2>2, <2>3
<1>5. CASE at[h] = "send_task"
  <2>1. reply[r].type = "task" /\ ~Subscribed(r)
    BY <1>0, <1>5 DEF Concludes, CliIInv, CliInv, HostsWait
  <2>2. Over(r)
    BY <1>0, <2>1 DEF Over, Subscribed, Connected, CliIInv, StoreInv, Progress
  <2>3. Verdict(h) = newStatus[r] /\ Final(newStatus[r])
    BY <1>0, <1>5, <2>1 DEF Verdict, CliIInv, CliInv, ReplyIsOwnResult, RunsEnd
  <2> QED
    BY <1>1, <1>2, <1>3, <2>2, <2>3 DEF Shows
<1> QED
  BY <1>0, <1>4, <1>5 DEF Concludes

LEMMA ConcludesCliInv ==
  ASSUME CliIInv, NEW h \in Clis, GetTask(h) \/ SendReturns(h)
  PROVE  CliInv'
<1> DEFINE r == call[h]
           v == Verdict(h)
<1>0. /\ Concludes(h) /\ Holds(h) /\ r \in Requests /\ taskId[h] \in TaskIds
      /\ taskId[h] = target[r]
  BY HostConcludes DEF CliIInv, CliInv, HostsWait
<1>1. /\ Over(r) /\ target[r] # NoId /\ v = tasks[taskId[h]].status
      /\ Shows(r, v) /\ (Failed(r) \/ Final(newStatus[r]))
  BY VerdictIsTheStatus
<1>2. /\ at'[h] = "prompt" /\ \A g \in Clis : g # h => at'[g] = at[g]
      /\ taskId'[h] = IF v.state = "input-required" THEN taskId[h] ELSE NoId
      /\ \A g \in Clis : g # h => taskId'[g] = taskId[g]
      /\ result'[r] = v /\ \A q \in Requests : q # r => result'[q] = result[q]
      /\ UNCHANGED call /\ UNCHANGED vars
  BY <1>0 DEF Concludes, Conclude, CliIInv, CliTypeOK
<1> HIDE DEF v
<1>3. Rests /\ CliInv
  BY <1>2 DEF Rests, vars, CliIInv
<1>4. RunsEnd' /\ OwnEvents' /\ ReplyIsOwnResult' /\ TurnsAlternate'
  BY <1>3, RestsKeeps
<1>5. \A g \in Clis : Holds(g)' => Holds(g) /\ taskId'[g] = taskId[g]
  BY <1>0, <1>2 DEF Holds
<1>6. HostsDiffer'
  BY <1>2, <1>3, <1>5 DEF CliInv, HostsDiffer, Holds
<1>7. HostsWait'
  <2>1. ASSUME NEW g \in Clis, g # h
        PROVE  call'[g] = call[g] /\ at'[g] = at[g] /\ taskId'[g] = taskId[g]
    BY <1>2, <2>1
  <2>2. Holds(h)' => taskId'[h] = target[r] /\ tasks[taskId'[h]].status.state = "input-required"
    BY <1>0, <1>1, <1>2 DEF Holds
  <2> QED
    BY <1>0, <1>1, <1>2, <1>3, <2>1, <2>2, NobodyAssumption
    DEF Rests, CliInv, HostsWait, Holds, Over, Connected, Subscribed
<1>8. BusyIsHeld'
  <2> SUFFICES ASSUME NEW q \in Requests, Running(q)' \/ Connected(q)'
               PROVE  \E g \in Clis : call'[g] = q /\ Holds(g)'
    BY DEF BusyIsHeld
  <2>1. Running(q) \/ Connected(q)
    BY <1>3 DEF Rests, Running, Connected
  <2>2. q # r
    BY <1>1, <2>1 DEF Over, Running
  <2>3. PICK g \in Clis : call[g] = q /\ Holds(g)
    BY <1>3, <2>1 DEF CliInv, BusyIsHeld
  <2> QED
    BY <1>2, <2>2, <2>3 DEF Holds
<1>9. PausedIsHeld'
  <2> SUFFICES ASSUME NEW t \in TaskIds, tasks[t].status.state = "input-required"
               PROVE  \E g \in Clis : taskId'[g] = t
    BY <1>3 DEF PausedIsHeld, Rests
  <2>1. PICK g \in Clis : taskId[g] = t
    BY <1>3 DEF CliInv, PausedIsHeld
  <2> QED
    BY <1>1, <1>2, <2>1
<1>10. StatusIsOwn'
  BY <1>2, <1>3, <1>5 DEF CliInv, StatusIsOwn, Shows, Rests
<1>11. LastSaid'
  BY <1>2, <1>3, <1>5 DEF CliInv, LastSaid, Rests, UserMessage
<1>12. ConcludedIsOver'
  BY <1>1, <1>2, <1>3 DEF CliInv, ConcludedIsOver, Rests, Over
<1>13. VerdictIsOwn'
  <2> SUFFICES ASSUME NEW q \in Requests, result'[q] # NoStatus
               PROVE  Shows(q, result[q])' /\ (Failed(q)' \/ Final(newStatus[q])')
    BY DEF VerdictIsOwn
  <2>1. (Failed(q)' = Failed(q)) /\ newStatus'[q] = newStatus[q]
    BY <1>3 DEF Rests, Failed, LogOf, ErrorEvent
  <2>2. Shows(q, result'[q]) /\ (Failed(q) \/ Final(newStatus[q]))
    BY <1>1, <1>2, <1>3 DEF CliInv, VerdictIsOwn
  <2> QED
    BY <2>1, <2>2 DEF Shows, Final
<1> QED
  BY <1>4, <1>6, <1>7, <1>8, <1>9, <1>10, <1>11, <1>12, <1>13 DEF CliInv

-----------------------------------------------------------------------------
(* A host sends a message.                                                 *)

(* The call is a new one: nobody has made it, nothing is known of it.      *)
LEMMA CallIsNew ==
  ASSUME CliIInv, NEW h \in Clis, Send(h)
  PROVE  LET r == NewRequest IN
         /\ r \in Requests /\ pc[r] = "idle" /\ target[r] = NoId /\ newStatus[r] = NoStatus
         /\ consumer[r] = "none" /\ queues[r] = <<>> /\ received[r] = <<>>
         /\ reply[r].type = "none" /\ result[r] = NoStatus
         /\ \A g \in Clis : call[g] # r
<1> DEFINE r == NewRequest
<1>1. r \in Requests /\ pc[r] = "idle"
  BY TurnNames DEF CliIInv
<1> HIDE DEF r
<1>2. target[r] = NoId /\ newStatus[r] = NoStatus /\ reply[r].type = "none"
  <2>1. reply[r].type \in {"none", "error", "task"}
    BY <1>1 DEF CliIInv, IInv, TypeOK
  <2> QED
    BY <1>1, <2>1 DEF CliIInv, StoreInv, Progress
<1>3. consumer[r] = "none"
  BY <1>1 DEF CliIInv, IInv, Lifecycle
<1>4. queues[r] = <<>> /\ received[r] = <<>>
  BY <1>1, <1>3 DEF CliIInv, IInv, FreshUntilSubscribed, Subscribed
<1>5. result[r] = NoStatus
  BY <1>1 DEF CliIInv, CliInv, ConcludedIsOver
<1>6. \A g \in Clis : call[g] # r
  BY <1>1, <1>2, NobodyAssumption DEF CliIInv, CliTypeOK
<1> QED
  BY <1>1, <1>2, <1>3, <1>4, <1>5, <1>6 DEF r

(* No other host holds the task; a task nobody holds yet has no history.   *)
LEMMA TurnIsOwn ==
  ASSUME CliIInv, NEW h \in Clis, Send(h)
  PROVE  LET t == TaskOfTurn(h) IN
         /\ t \in TaskIds
         /\ \A g \in Clis : g # h => taskId[g] # t
         /\ Holds(h) => taskId[h] = t
         /\ ~Holds(h) => tasks[t].history = <<>>
<1> DEFINE t == TaskOfTurn(h)
<1>1. /\ t \in TaskIds
      /\ ~Holds(h) => ~Exists(tasks, t)
      /\ Holds(h) => taskId[h] = t
  BY TurnNames DEF CliIInv, Holds
<1> HIDE DEF t
<1>2. ASSUME NEW g \in Clis, Holds(g)
      PROVE  Exists(tasks, taskId[g])
  <2>1. call[g] \in Requests /\ taskId[g] = target[call[g]] /\ taskId[g] # NoId
    BY <1>2 DEF CliIInv, CliInv, HostsWait, Holds, CliTypeOK
  <2>2. PICK i \in DOMAIN tasks[taskId[g]].history : TRUE
    BY <2>1 DEF CliIInv, StoreInv, QuestionBeforeAnswers
  <2> QED
    BY <2>2 DEF Exists, NoTask
<1>3. ASSUME NEW g \in Clis, g # h
      PROVE  taskId[g] # t
  <2>1. CASE Holds(h)
    BY <1>1, <1>3, <2>1, TaskManagerAssumption DEF CliIInv, CliInv, HostsDiffer, Holds
  <2>2. CASE ~Holds(h) /\ Holds(g)
    BY <1>1, <1>2, <2>2
  <2>3. CASE ~Holds(g)
    BY <1>1, <2>3, TaskManagerAssumption DEF Holds
  <2> QED
    BY <2>1, <2>2, <2>3
<1>4. ~Holds(h) => tasks[t].history = <<>>
  BY <1>1 DEF Exists, NoTask
<1> QED
  BY <1>1, <1>3, <1>4 DEF t

(* What the call does at the server.                                       *)
Started(r, t) ==
  /\ target'[r] = t
  /\ pc'[r] \in {"stream", "post_working", "invoke"}
  /\ ~newStatus'[r].message /\ newStatus'[r].state # "input-required"
  /\ ShowsOf(tasks'[t].status, newStatus'[r])
  /\ \A q \in Requests : q # r =>
       /\ target'[q] = target[q] /\ pc'[q] = pc[q] /\ newStatus'[q] = newStatus[q]
       /\ consumer'[q] = consumer[q]
  /\ UNCHANGED <<queues, received, reply, announced>>
  /\ tasks'[t].history = tasks[t].history \o <<UserMessage(r)>>
  /\ \A u \in TaskIds : u # t => tasks'[u] = tasks[u]

LEMMA SendStarts ==
  ASSUME CliIInv, NEW h \in Clis, Send(h)
  PROVE  /\ Started(NewRequest, TaskOfTurn(h))
         /\ at'[h] = "send_task" => consumer'[NewRequest] = "none"
         /\ consumer'[NewRequest] \in {"none", "open"}
         /\ at'[h] \in {"stream", "send_task"}
         /\ taskId'[h] = TaskOfTurn(h) /\ call'[h] = NewRequest
         /\ \A g \in Clis : g # h =>
              at'[g] = at[g] /\ taskId'[g] = taskId[g] /\ call'[g] = call[g]
         /\ UNCHANGED result
<1> DEFINE r == NewRequest
           t == TaskOfTurn(h)
<1>0. /\ r \in Requests /\ t \in TaskIds /\ TypeOK /\ tasks \in Stores
      /\ newStatus[r] = NoStatus /\ consumer[r] = "none"
  BY CallIsNew, TurnIsOwn DEF CliIInv, IInv, TypeOK, Stores
<1>1. CASE streaming
  <2>1. OnSendTaskSubscribe(r, t)
    BY <1>1 DEF Send
  <2> HIDE DEF r, t
  <2>2. tasks' = UpsertTask(tasks, t, r)
    BY <2>1 DEF OnSendTaskSubscribe
  <2>3. Appended(tasks, tasks', t, <<UserMessage(r)>>, <<>>)
    BY <1>0, <2>2, UpsertTaskAppends
  <2>4. newStatus'[r] = NoStatus
    BY <1>0, <2>1 DEF OnSendTaskSubscribe
  <2>8. tasks'[t].status.state \in {"submitted", "input-required"}
    <3>1. CASE Exists(tasks, t)
      <4>1. Holds(h) /\ taskId[h] = t /\ at[h] = "prompt"
        BY <3>1, TurnNames DEF CliIInv, Holds, Send, t
      <4>2. tasks[t].status.state = "input-required"
        BY <4>1 DEF CliIInv, CliInv, HostsWait
      <4>3. tasks'[t].status = tasks[t].status
        <5>1. tasks[t] \in Tasks
          BY <1>0, <3>1 DEF Exists, Stores
        <5> QED
          BY <1>0, <2>2, <3>1, <5>1 DEF UpsertTask, Stores, Tasks
      <4> QED
        BY <4>2, <4>3
    <3>2. CASE ~Exists(tasks, t)
      <4>1. tasks'[t] = NewTask(r)
        BY <1>0, <2>2, <3>2 DEF UpsertTask, Stores
      <4> QED
        BY <4>1 DEF NewTask, TaskStatus
    <3> QED
      BY <3>1, <3>2
  <2>5. Started(r, t)
    BY <1>0, <2>1, <2>3, <2>4, <2>8
    DEF Started, ShowsOf, OnSendTaskSubscribe, TypeOK, Appended, NoStatus
  <2>6. consumer'[r] = "open"
    BY <1>0, <2>1 DEF OnSendTaskSubscribe, TypeOK
  <2>7. at'[h] = "stream"
    BY <1>1 DEF Send, CliIInv, CliTypeOK
  <2> QED
    BY <2>5, <2>6, <2>7 DEF Send, CliIInv, CliTypeOK, r, t
<1>2. CASE ~streaming
  <2> DEFINE working == TaskStatus("working", r, 0, FALSE)
  <2>1. OnSendTask(r, t)
    BY <1>2 DEF Send
  <2> HIDE DEF r, t
  <2>2. /\ working \in Statuses /\ working # NoStatus
        /\ ~working.message /\ working.state # "input-required"
    BY <1>0, TaskStatusTyped DEF TaskStates, TaskStatus, NoStatus
  <2>3. /\ tasks' = UpdateStore(UpsertTask(tasks, t, r), t, working, <<>>)
        /\ newStatus' = [newStatus EXCEPT ![r] = working]
    BY <2>1 DEF OnSendTask
  <2> HIDE DEF working
  <2>4. Appended(tasks, tasks', t, <<UserMessage(r)>>, <<>>)
    BY <1>0, <2>2, <2>3, SendAppends
  <2>5. tasks'[t].status = working
    <3>1. UpsertTask(tasks, t, r) \in Stores /\ <<>> \in Seq(Requests)
      BY <1>0, UpsertTaskTyped
    <3> QED
      BY <1>0, <2>2, <2>3, <3>1, UpdateStoreAppends
  <2>6. newStatus'[r] = working
    BY <1>0, <2>3 DEF TypeOK
  <2>7. Started(r, t)
    BY <1>0, <2>1, <2>2, <2>3, <2>4, <2>5, <2>6
    DEF Started, ShowsOf, OnSendTask, TypeOK, Appended, AfterNotify, sse
  <2>8. consumer'[r] = "none"
    BY <1>0, <2>1 DEF OnSendTask, sse
  <2>9. at'[h] = "send_task"
    BY <1>2 DEF Send, CliIInv, CliTypeOK
  <2> QED
    BY <2>7, <2>8, <2>9 DEF Send, CliIInv, CliTypeOK, r, t
<1> QED
  BY <1>1, <1>2

(* The user speaks after the agent, or after a run that failed.            *)
LEMMA LastWasRight ==
  ASSUME CliIInv, NEW h \in Clis, at[h] = "prompt", Holds(h)
  PROVE  LET history == tasks[taskId[h]].history
             last    == history[Len(history)]
         IN  \/ last.role = "agent"
             \/ last = UserMessage(call[h]) /\ Failed(call[h])
<1> DEFINE history == tasks[taskId[h]].history
           last    == history[Len(history)]
           r       == call[h]
<1>1. last.role = "agent" \/ (last = UserMessage(r) /\ ~newStatus[r].message)
  BY DEF CliIInv, CliInv, LastSaid
<1>2. /\ r \in Requests /\ target[r] # NoId /\ pc[r] = "done"
      /\ tasks[taskId[h]].status.state = "input-required"
  BY DEF CliIInv, CliInv, HostsWait, CliTypeOK, Over, Holds
<1>3. Failed(r) \/ Final(newStatus[r])
  BY <1>2 DEF CliIInv, CliInv, RunsEnd
<1>4. Final(newStatus[r]) => newStatus[r].message
  <2> SUFFICES ASSUME Final(newStatus[r])
               PROVE  newStatus[r].message
    OBVIOUS
  <2>1. newStatus[r] # NoStatus
    BY DEF Final, NoStatus
  <2>2. newStatus[r].state = "input-required"
    BY <1>2, <2>1 DEF CliIInv, CliInv, StatusIsOwn, Shows
  <2> QED
    BY <1>2, <2>2 DEF CliIInv, CliInv, RunsEnd
<1> QED
  BY <1>1, <1>3, <1>4

LEMMA SendTurns ==
  ASSUME CliIInv, TypeOK', StoreStep, [Next]_vars, NEW h \in Clis, Send(h)
  PROVE  TurnsAlternate'
<1> DEFINE r == NewRequest
           t == TaskOfTurn(h)
           s == tasks[t].history
<1>0. /\ r \in Requests /\ t \in TaskIds /\ s \in Seq(Messages) /\ UserMessage(r) \in Messages
      /\ tasks'[t].history = s \o <<UserMessage(r)>>
      /\ \A u \in TaskIds : u # t => tasks'[u] = tasks[u]
  BY CallIsNew, TurnIsOwn, SendStarts, UserMessageTyped, TaskFields
  DEF Started, CliIInv, IInv, TypeOK, Stores
<1>1. /\ DOMAIN tasks'[t].history = 1..(Len(s) + 1) /\ DOMAIN s = 1..Len(s) /\ Len(s) \in Nat
      /\ \A k \in 1..Len(s) : tasks'[t].history[k] = s[k]
  BY <1>0, OneMore
<1>2. Holds(h) => taskId[h] = t
  BY TurnIsOwn
<1>3. ~Holds(h) => s = <<>>
  BY TurnIsOwn
<1> HIDE DEF r, t
<1>4. ASSUME NEW u \in TaskIds, u = t,
             NEW i \in DOMAIN tasks'[t].history \ {1}, i = Len(s) + 1
      PROVE  TurnIsRight(u, i)'
  <2>1. Len(s) # 0 /\ i - 1 = Len(s) /\ Len(s) \in DOMAIN s
    BY <1>1, <1>4
  <2>2. Holds(h)
    BY <1>3, <2>1
  <2>3. s[Len(s)].role = "agent" \/ (s[Len(s)] = UserMessage(call[h]) /\ Failed(call[h]))
    BY <1>2, <2>2, LastWasRight DEF Send
  <2>4. tasks'[t].history[i - 1] = s[Len(s)]
    BY <1>1, <2>1
  <2>5. call[h] \in Requests /\ target[call[h]] \in TaskIds
    BY <2>2 DEF CliIInv, CliInv, HostsWait, Holds, CliTypeOK
  <2>6. PICK q \in Requests : q = call[h]
    BY <2>5
  <2>7. Failed(q) => Failed(q)'
    BY <2>5, <2>6, FailedStays DEF CliIInv
  <2>8. CASE s[Len(s)].role = "agent"
    BY <1>4, <2>4, <2>8 DEF TurnIsRight
  <2>9. CASE s[Len(s)] = UserMessage(q) /\ Failed(q)'
    <3>1. tasks'[t].history[i - 1].run = q
      BY <2>4, <2>9 DEF UserMessage
    <3> QED
      BY <1>4, <2>9, <3>1 DEF TurnIsRight, Failed, LogOf, ErrorEvent
  <2> QED
    BY <2>3, <2>6, <2>7, <2>8, <2>9
<1> SUFFICES ASSUME NEW u \in TaskIds, NEW i \in DOMAIN tasks'[u].history \ {1},
                    tasks'[u].history[i].role = "user"
             PROVE  TurnIsRight(u, i)'
  BY DEF TurnsAlternate, TurnIsRight
<1>5. CASE i \in DOMAIN tasks[u].history
  BY <1>5, TurnsStayRight
<1>6. CASE i \notin DOMAIN tasks[u].history
  <2>1. u = t
    BY <1>0, <1>6
  <2>2. i = Len(s) + 1
    BY <1>1, <1>6, <2>1
  <2> QED
    BY <1>4, <2>1, <2>2
<1> QED
  BY <1>5, <1>6

LEMMA SendHosts ==
  ASSUME CliIInv, NEW h \in Clis, Send(h)
  PROVE  HostsDiffer' /\ HostsWait' /\ BusyIsHeld' /\ PausedIsHeld'
<1> DEFINE r == NewRequest
           t == TaskOfTurn(h)
<1>0. CliTypeOK /\ HostsDiffer /\ HostsWait /\ BusyIsHeld /\ PausedIsHeld
  BY DEF CliIInv, CliInv
<1>1. r \in Requests /\ \A g \in Clis : call[g] # r
  BY CallIsNew
<1>2. /\ t \in TaskIds /\ \A g \in Clis : g # h => taskId[g] # t
      /\ Holds(h) => taskId[h] = t
  BY TurnIsOwn
<1>3. Started(r, t)
  BY SendStarts
<1>4. /\ at'[h] = "send_task" => consumer'[r] = "none"
      /\ consumer'[r] \in {"none", "open"} /\ at'[h] \in {"stream", "send_task"}
      /\ taskId'[h] = t /\ call'[h] = r
      /\ \A g \in Clis : g # h =>
           at'[g] = at[g] /\ taskId'[g] = taskId[g] /\ call'[g] = call[g]
  BY SendStarts
<1> HIDE DEF r, t
<1>5. HostsDiffer'
  BY <1>0, <1>1, <1>2, <1>4 DEF HostsDiffer
<1>6. Holds(h)' /\ \A g \in Clis : g # h => Holds(g)' = Holds(g)
  BY <1>2, <1>4, TaskManagerAssumption DEF Holds
<1>7. ASSUME NEW g \in Clis, g # h, Holds(g)
      PROVE  /\ call[g] \in Requests /\ call[g] # r
             /\ taskId[g] \in TaskIds /\ taskId[g] # t
             /\ pc'[call[g]] = pc[call[g]] /\ consumer'[call[g]] = consumer[call[g]]
             /\ target'[call[g]] = target[call[g]] /\ tasks'[taskId[g]] = tasks[taskId[g]]
  <2>1. /\ call[g] \in Requests /\ call[g] # r
        /\ taskId[g] \in TaskIds /\ taskId[g] # t
    BY <1>0, <1>1, <1>2, <1>7 DEF HostsWait, Holds, CliTypeOK
  <2> QED
    BY <1>3, <2>1 DEF Started
<1>8. HostsWait'
  <2> SUFFICES ASSUME NEW g \in Clis
               PROVE
      /\ Holds(g)' => call'[g] # Nobody /\ taskId'[g] = target'[call'[g]]
      /\ at'[g] \in {"stream", "get_task", "send_task"} => Holds(g)'
      /\ at'[g] = "send_task" => ~Subscribed(call[g])'
      /\ (at'[g] = "stream" /\ consumer'[call'[g]] \in {"closing", "closed"}) =>
           pc'[call'[g]] = "done"
      /\ (at'[g] \in {"get_task", "prompt"} /\ Holds(g)') => Over(call[g])'
      /\ (at'[g] = "prompt" /\ Holds(g)') => tasks'[taskId'[g]].status.state = "input-required"
    BY DEF HostsWait
  <2>1. CASE g = h
    BY <1>1, <1>3, <1>4, <1>6, <2>1, NobodyAssumption DEF Started, Subscribed
  <2>2. CASE g # h /\ Holds(g)
    BY <1>0, <1>4, <1>7, <2>2 DEF HostsWait, Holds, Over, Connected, Subscribed
  <2>3. CASE g # h /\ ~Holds(g)
    BY <1>0, <1>4, <1>6, <2>3 DEF HostsWait
  <2> QED
    BY <2>1, <2>2, <2>3
<1>9. BusyIsHeld'
  <2> SUFFICES ASSUME NEW q \in Requests, Running(q)' \/ Connected(q)'
               PROVE  \E g \in Clis : call'[g] = q /\ Holds(g)'
    BY DEF BusyIsHeld
  <2>1. CASE q = r
    BY <1>4, <1>6, <2>1
  <2>2. CASE q # r
    <3>1. Running(q) \/ Connected(q)
      BY <1>3, <2>2 DEF Started, Running, Connected
    <3>2. PICK g \in Clis : call[g] = q /\ Holds(g)
      BY <1>0, <3>1 DEF BusyIsHeld
    <3>3. g # h
      BY <1>0, <3>1, <3>2 DEF Send, HostsWait, Over, Running
    <3> QED
      BY <1>4, <1>6, <3>2, <3>3
  <2> QED
    BY <2>1, <2>2
<1>10. PausedIsHeld'
  <2> SUFFICES ASSUME NEW u \in TaskIds, tasks'[u].status.state = "input-required"
               PROVE  \E g \in Clis : taskId'[g] = u
    BY DEF PausedIsHeld
  <2>1. CASE u = t
    BY <1>4, <2>1
  <2>2. CASE u # t
    <3>1. tasks'[u] = tasks[u]
      BY <1>3, <2>2 DEF Started
    <3>2. PICK g \in Clis : taskId[g] = u
      BY <1>0, <3>1 DEF PausedIsHeld
    <3>3. g # h
      BY <1>2, <2>2, <3>2, TaskManagerAssumption DEF Holds
    <3> QED
      BY <1>4, <3>2, <3>3
  <2> QED
    BY <2>1, <2>2
<1> QED
  BY <1>5, <1>8, <1>9, <1>10

LEMMA SendSaid ==
  ASSUME CliIInv, NEW h \in Clis, Send(h)
  PROVE  StatusIsOwn' /\ LastSaid'
<1> DEFINE r == NewRequest
           t == TaskOfTurn(h)
           s == tasks[t].history
<1>0. /\ r \in Requests /\ t \in TaskIds /\ s \in Seq(Messages) /\ UserMessage(r) \in Messages
      /\ \A g \in Clis : call[g] # r /\ (g # h => taskId[g] # t)
  BY CallIsNew, TurnIsOwn, UserMessageTyped, TaskFields DEF CliIInv, IInv, TypeOK, Stores
<1>1. Started(r, t)
  BY SendStarts
<1>2. /\ taskId'[h] = t /\ call'[h] = r
      /\ \A g \in Clis : g # h => taskId'[g] = taskId[g] /\ call'[g] = call[g]
  BY SendStarts
<1> HIDE DEF r, t
<1>3. Told(tasks'[t], r, newStatus'[r])
  <2>1. tasks'[t].history = s \o <<UserMessage(r)>> /\ ~newStatus'[r].message
    BY <1>1 DEF Started
  <2>2. tasks'[t].history[Len(s) + 1] = UserMessage(r)
    BY <1>0, <2>1, OneMore
  <2>3. Len(tasks'[t].history) = Len(s) + 1
    <3>1. <<UserMessage(r)>> \in Seq(Messages) /\ Len(<<UserMessage(r)>>) = 1
      BY <1>0
    <3> QED
      BY <1>0, <2>1, <3>1, ConcatProperties
  <2> QED
    BY <2>1, <2>2, <2>3 DEF Told
<1> SUFFICES ASSUME NEW g \in Clis, Holds(g)'
             PROVE  /\ ShowsOf(tasks'[taskId'[g]].status, newStatus'[call'[g]])
                    /\ Told(tasks'[taskId'[g]], call'[g], newStatus'[call'[g]])
  BY DEF StatusIsOwn, LastSaid, Told, UserMessage, Shows, ShowsOf
<1>4. CASE g = h
  BY <1>1, <1>2, <1>3, <1>4 DEF Started
<1>5. CASE g # h
  <2>1. /\ Holds(g) /\ call'[g] = call[g] /\ taskId'[g] = taskId[g]
        /\ call[g] # r /\ taskId[g] # t
    BY <1>0, <1>2, <1>5 DEF Holds
  <2>2. call[g] \in Requests /\ taskId[g] \in TaskIds
    BY <2>1 DEF CliIInv, CliInv, HostsWait, Holds, CliTypeOK
  <2>3. newStatus'[call[g]] = newStatus[call[g]] /\ tasks'[taskId[g]] = tasks[taskId[g]]
    BY <1>1, <2>1, <2>2 DEF Started
  <2>4. /\ ShowsOf(tasks[taskId[g]].status, newStatus[call[g]])
        /\ Told(tasks[taskId[g]], call[g], newStatus[call[g]])
    BY <2>1 DEF CliIInv, CliInv, StatusIsOwn, LastSaid, Told, Shows, ShowsOf
  <2> QED
    BY <2>1, <2>3, <2>4
<1> QED
  BY <1>4, <1>5

LEMMA SendRuns ==
  ASSUME CliIInv, StoreStep, [Next]_vars, NEW h \in Clis, Send(h)
  PROVE  /\ RunsEnd' /\ OwnEvents' /\ ConcludedIsOver' /\ ReplyIsOwnResult' /\ VerdictIsOwn'
<1> DEFINE r == NewRequest
           t == TaskOfTurn(h)
<1>0. /\ r \in Requests /\ queues[r] = <<>> /\ received[r] = <<>>
      /\ reply[r].type = "none" /\ result[r] = NoStatus /\ TypeOK
  BY CallIsNew DEF CliIInv, IInv
<1>1. Started(r, t) /\ UNCHANGED result
  BY SendStarts
<1> HIDE DEF r, t
<1>2. ASSUME NEW q \in Requests, q # r
      PROVE  /\ target'[q] = target[q] /\ pc'[q] = pc[q] /\ newStatus'[q] = newStatus[q]
             /\ reply'[q] = reply[q] /\ queues'[q] = queues[q]
  BY <1>1, <1>2 DEF Started
<1>3. RunsEnd'
  <2> SUFFICES ASSUME NEW q \in Requests
               PROVE  /\ (pc'[q] = "post_result" \/ reply'[q].type = "task") => Final(newStatus[q])'
                      /\ (pc'[q] = "done" /\ target'[q] # NoId) =>
                           Failed(q)' \/ Final(newStatus[q])'
                      /\ newStatus'[q].state = "input-required" => newStatus'[q].message
    BY DEF RunsEnd
  <2>1. CASE q = r
    BY <1>0, <1>1, <2>1 DEF Started
  <2>2. CASE q # r
    <3>1. (Failed(q) /\ target[q] # NoId) => Failed(q)'
      BY <1>0, FailedStays DEF CliIInv, TypeOK
    <3>2. Final(newStatus[q])' = Final(newStatus[q])
      BY <1>2, <2>2 DEF Final
    <3> QED
      BY <1>2, <2>2, <3>1, <3>2 DEF CliIInv, CliInv, RunsEnd
  <2> QED
    BY <2>1, <2>2
<1>4. OwnEvents'
  <2>1. ASSUME NEW q \in Requests, NEW i \in DOMAIN queues[q]
        PROVE  FitsNext(queues[q][i], q)
    <3>1. Fits(queues[q][i], q)
      BY DEF CliIInv, CliInv, OwnEvents, Fits
    <3> QED
      BY <1>0, <3>1, FitsStays
  <2>2. UNCHANGED <<queues, received>>
    BY <1>1 DEF Started
  <2> QED
    BY <2>1, <2>2 DEF OwnEvents, FitsNext, CliIInv, CliInv
<1>5. ConcludedIsOver'
  BY <1>0, <1>1, <1>2 DEF CliIInv, CliInv, ConcludedIsOver
<1>6. ReplyIsOwnResult'
  BY <1>0, <1>1, <1>2 DEF CliIInv, CliInv, ReplyIsOwnResult, Started
<1>7. VerdictIsOwn'
  <2> SUFFICES ASSUME NEW q \in Requests, result'[q] # NoStatus
               PROVE  ShowsOf(result'[q], newStatus'[q]) /\ (Failed(q)' \/ Final(newStatus[q])')
    BY DEF VerdictIsOwn, Shows, ShowsOf
  <2> QED
    BY <1>1, VerdictStays
<1> QED
  BY <1>3, <1>4, <1>5, <1>6, <1>7

LEMMA SendCliInv ==
  ASSUME CliIInv, TypeOK', StoreStep, [Next]_vars, NEW h \in Clis, Send(h)
  PROVE  CliInv'
BY SendHosts, SendSaid, SendRuns, SendTurns DEF CliInv

-----------------------------------------------------------------------------
(* The invariant, and what follows from it.                                *)

LEMMA InitCliIInv == CliInit => CliIInv
<1> SUFFICES ASSUME CliInit
             PROVE  CliIInv
  OBVIOUS
<1>1. IInv /\ StoreInv /\ TypeOK
  BY InitIInv, InitStoreInv DEF CliInit, IInv
<1>2. CliTypeOK
  BY <1>1 DEF CliInit, CliTypeOK
<1>3. /\ \A h \in Clis : at[h] = "prompt" /\ taskId[h] = NoId /\ call[h] = Nobody
      /\ \A r \in Requests : /\ pc[r] = "idle" /\ consumer[r] = "none" /\ result[r] = NoStatus
                             /\ queues[r] = <<>> /\ received[r] = <<>>
                             /\ newStatus[r] = NoStatus /\ reply[r] = NoReply
      /\ \A t \in TaskIds : tasks[t] = NoTask
  BY DEF CliInit, Init
<1>4. HostsDiffer /\ HostsWait
  BY <1>3 DEF HostsDiffer, HostsWait, Holds
<1>5. BusyIsHeld /\ StatusIsOwn /\ LastSaid /\ ConcludedIsOver /\ VerdictIsOwn
  BY <1>3 DEF BusyIsHeld, StatusIsOwn, LastSaid, Holds, Running, Connected,
              ConcludedIsOver, VerdictIsOwn
<1>6. PausedIsHeld
  BY <1>3 DEF PausedIsHeld, NoTask, NoStatus
<1>7. RunsEnd
  <2>1. NoReply.type = "none" /\ NoStatus.state = "absent"
    BY DEF NoReply, NoStatus
  <2>2. \A r \in Requests : pc[r] = "idle" /\ newStatus[r] = NoStatus /\ reply[r] = NoReply
    BY <1>3
  <2> QED
    BY <2>1, <2>2 DEF RunsEnd
<1>8. OwnEvents
  <2>1. DOMAIN <<>> = {}
    OBVIOUS
  <2>2. \A r \in Requests : queues[r] = <<>> /\ received[r] = <<>>
    BY <1>3
  <2> QED
    BY <2>1, <2>2, Zenon DEF OwnEvents
<1>9. ReplyIsOwnResult
  BY <1>3 DEF ReplyIsOwnResult, NoReply
<1>10. TurnsAlternate
  <2>1. \A t \in TaskIds : tasks[t].history = <<>>
    BY <1>3 DEF NoTask
  <2> QED
    BY <2>1 DEF TurnsAlternate
<1> QED
  BY <1>1, <1>2, <1>4, <1>5, <1>6, <1>7, <1>8, <1>9, <1>10 DEF CliIInv, CliInv

LEMMA NextCliIInv == CliIInv /\ [CliNext]_cliVars => CliIInv'
<1> SUFFICES ASSUME CliIInv, [CliNext]_cliVars
             PROVE  CliIInv'
  OBVIOUS
<1>1. [Next]_vars
  BY CliStepIsStep DEF CliIInv, CliInv
<1>2. IInv' /\ StoreInv' /\ TypeOK'
  BY <1>1, NextIInv, NextStoreInv DEF CliIInv, IInv
<1>3. StoreStep
  BY <1>1, NextStoreStep DEF CliIInv, IInv, StoreInv
<1>4. CliTypeOK'
  BY <1>2, <1>3, NextCliTypeOK DEF CliIInv, CliInv
<1>5. ASSUME NEW r \in Requests, SendStep(r) \/ RunnerStep(r) \/ ConsumerStep(r), UNCHANGED host
      PROVE  CliInv'
  <2>1. Serves(r)
    BY <1>5 DEF Serves, Works, host
  <2> QED
    BY <1>1, <1>2, <1>3, <2>1, ServesCliInv
<1>6. ASSUME NEW h \in Clis, HostDies(h)
      PROVE  CliInv'
  <2>1. (call[h] \in Requests /\ Holds(h)) \/ UNCHANGED vars
    BY <1>6 DEF HostDies, CliIInv, CliInv, HostsWait, Holds, CliTypeOK
  <2>2. CASE UNCHANGED vars
    <3>1. Passes
      BY <1>6, <2>2 DEF HostDies, Passes, Rests, vars, CliIInv, CliTypeOK
    <3> QED
      BY <3>1, PassesCliInv DEF CliIInv
  <2>3. CASE ~UNCHANGED vars
    <3>1. ClientDisconnects(call[h]) /\ call[h] \in Requests
      BY <1>6, <2>1, <2>3, HostDiesDisconnects
    <3>2. \A g \in Clis : g # h => call[g] # call[h]
      BY <3>1, NobodyAssumption DEF CliIInv, CliInv, HostsDiffer
    <3>3. at'[h] = "stopped" /\ \A g \in Clis : g # h => at'[g] = at[g]
      BY <1>6 DEF HostDies, CliIInv, CliTypeOK
    <3>4. PICK r \in Requests : r = call[h]
      BY <3>1
    <3>5. Serves(r)
      BY <1>6, <3>1, <3>2, <3>3, <3>4 DEF Serves, Works, HostDies
    <3> QED
      BY <1>1, <1>2, <1>3, <3>5, ServesCliInv
  <2> QED
    BY <2>2, <2>3
<1>7. ASSUME NEW h \in Clis, Quit(h) \/ StreamOver(h)
      PROVE  CliInv'
  <2>1. StreamOver(h) => Over(call[h])
    BY DEF StreamOver, Over, Connected, CliIInv, CliInv, HostsWait
  <2>2. Passes
    BY <1>7, <2>1 DEF Quit, StreamOver, Passes, Rests, vars, CliIInv, CliTypeOK
  <2> QED
    BY <2>2, PassesCliInv DEF CliIInv
<1>8. ASSUME NEW h \in Clis, GetTask(h) \/ SendReturns(h)
      PROVE  CliInv'
  BY <1>8, ConcludesCliInv
<1>9. ASSUME NEW h \in Clis, Send(h)
      PROVE  CliInv'
  BY <1>1, <1>2, <1>3, <1>9, SendCliInv
<1>10. ASSUME \E t \in TaskIds : SetPushNotification(t), UNCHANGED host
       PROVE  CliInv'
  <2>1. Passes
    BY <1>10 DEF SetPushNotification, Passes, Rests, sse, host
  <2> QED
    BY <2>1, PassesCliInv DEF CliIInv
<1>11. ASSUME UNCHANGED cliVars
       PROVE  CliInv'
  <2>1. Passes
    BY <1>11 DEF Passes, Rests, cliVars, host, vars
  <2> QED
    BY <2>1, PassesCliInv DEF CliIInv
<1>12. ASSUME ServerStep
       PROVE  CliInv'
  BY <1>5, <1>10, <1>12 DEF ServerStep
<1>13. ASSUME \E h \in Clis : Send(h) \/ Quit(h) \/ HostStep(h) \/ HostDies(h)
       PROVE  CliInv'
  <2>1. PICK h \in Clis : Send(h) \/ Quit(h) \/ HostStep(h) \/ HostDies(h)
    BY <1>13
  <2>2. CASE HostStep(h)
    BY <1>7, <1>8, <2>2 DEF HostStep
  <2> QED
    BY <1>6, <1>7, <1>9, <2>1, <2>2
<1>14. CliInv'
  BY <1>11, <1>12, <1>13 DEF CliNext
<1> QED
  BY <1>2, <1>4, <1>14 DEF CliIInv

LEMMA CliInvariant == CliSpec => []CliIInv
<1>1. CliInit => CliIInv
  BY InitCliIInv
<1>2. CliIInv /\ [CliNext]_cliVars => CliIInv'
  BY NextCliIInv
<1> QED
  BY <1>1, <1>2, PTL DEF CliSpec

(* CliInv holds in every reachable state of the hosts and the server they  *)
(* talk to.                                                                *)
THEOREM CliInductive == CliSpec => []CliInv
<1>1. CliIInv => CliInv
  BY DEF CliIInv
<1> QED
  BY <1>1, CliInvariant, PTL

(* The hosts use the task manager only through its handlers: what they and *)
(* the server do together is a behaviour of TaskManager, so its theorems   *)
(* hold of the composition.                                                *)
THEOREM HostsUseTheServer == CliSpec => Spec
<1>1. CliInit => Init
  BY DEF CliInit
<1>2. CliIInv /\ [CliNext]_cliVars => [Next]_vars
  BY CliStepIsStep DEF CliIInv, CliInv
<1> QED
  BY <1>1, <1>2, CliInvariant, PTL DEF CliSpec, Spec

(* Every variable of the hosts keeps its type.                             *)
THEOREM CliTypeCorrect == CliSpec => []CliTypeOK
<1>1. CliIInv => CliTypeOK
  BY DEF CliIInv
<1> QED
  BY <1>1, CliInvariant, PTL

(* completeTask never starts a turn on a task the agent still works on:    *)
(* two runs at a time are runs of two hosts, which hold different tasks.   *)
THEOREM OneRunAtATime == CliSpec => []OneRunPerTask
<1>1. CliIInv => OneRunPerTask
  <2> SUFFICES ASSUME CliIInv, NEW r \in Requests, NEW s \in Requests,
                      r # s, Running(r), Running(s)
               PROVE  target[r] # target[s]
    BY DEF OneRunPerTask
  <2>1. PICK g \in Clis : call[g] = r /\ Holds(g)
    BY DEF CliIInv, CliInv, BusyIsHeld
  <2>2. PICK h \in Clis : call[h] = s /\ Holds(h)
    BY DEF CliIInv, CliInv, BusyIsHeld
  <2>3. taskId[g] = target[r] /\ taskId[h] = target[s]
    BY <2>1, <2>2 DEF CliIInv, CliInv, HostsWait
  <2>4. taskId[g] # taskId[h]
    BY <2>1, <2>2 DEF CliIInv, CliInv, HostsDiffer, Holds
  <2> QED
    BY <2>3, <2>4
<1> QED
  BY <1>1, CliInvariant, PTL

(* The status completeTask decides by, read with tasks/get or taken from   *)
(* the reply, is the last and final one of the run it asked for.           *)
THEOREM VerdictsAreOwn == CliSpec => []VerdictIsOwn
<1>1. CliIInv => VerdictIsOwn
  BY DEF CliIInv, CliInv
<1> QED
  BY <1>1, CliInvariant, PTL

(* The user speaks again only after the agent has, or after a failed run:  *)
(* no conversation takes up a finished task.                               *)
THEOREM ConversationsAlternate == CliSpec => []TurnsAlternate
<1>1. CliIInv => TurnsAlternate
  BY DEF CliIInv, CliInv
<1> QED
  BY <1>1, CliInvariant, PTL

(* A host that has drawn its conclusion about a task which waits for input *)
(* has kept the id of that task.                                           *)
THEOREM NoPausedTaskForgotten == CliSpec => []PausedTaskIsKept
<1>1. CliIInv => PausedTaskIsKept
  <2> SUFFICES ASSUME CliIInv, NEW r \in Requests, result[r] # NoStatus,
                      tasks[target[r]].status.state = "input-required"
               PROVE  \E h \in Clis : taskId[h] = target[r]
    BY DEF PausedTaskIsKept
  <2>1. target[r] \in TaskIds
    BY DEF CliIInv, CliInv, ConcludedIsOver, CliTypeOK, TypeOK
  <2> QED
    BY <2>1 DEF CliIInv, CliInv, PausedIsHeld
<1> QED
  BY <1>1, CliInvariant, PTL

(* Under the CLI hosts a stream only carries events of its own run, so it  *)
(* is that run which ends it: the task manager alone does not promise it.  *)
THEOREM StreamsEndWithOwnRun == CliSpec => []StreamEndsWithOwnRun
<1>1. CliIInv => StreamEndsWithOwnRun
  BY DEF CliIInv, CliInv, OwnEvents, StreamEndsWithOwnRun
<1> QED
  BY <1>1, CliInvariant, PTL

(* The task a tasks/send returns shows the status its own run built last,  *)
(* although it is serialised after a POST.                                 *)
THEOREM RepliesAreOwn == CliSpec => []ReplyIsOwnResult
<1>1. CliIInv => ReplyIsOwnResult
  BY DEF CliIInv, CliInv
<1> QED
  BY <1>1, CliInvariant, PTL

LEMMA OnlyDeliveryShows ==
  ASSUME TypeOK, [Next]_vars, NEW r \in Requests, received'[r] # received[r]
  PROVE  DeliverEvent(r)
<1> USE DEF sse
<1>1. CASE ClientCalls
  BY <1>1 DEF ClientCalls, RejectRequest, OnSendTask, OnSendTaskSubscribe
<1>2. ASSUME NEW q \in Requests, SendStep(q) \/ RunnerStep(q) \/ ConsumerStep(q) \/ ClientDisconnects(q)
      PROVE  DeliverEvent(r)
  <2>1. CASE SendStep(q)
    BY <2>1 DEF SendStep, WorkingPosted, AgentResponds, AgentRaises, ResultPosted
  <2>2. CASE RunnerStep(q)
    BY <2>2 DEF RunnerStep, StreamItem, UpdatePosted, StreamRaises, StreamExhausted
  <2>3. CASE DeliverEvent(q)
    BY <2>3 DEF DeliverEvent, TypeOK
  <2>4. CASE CloseStream(q) \/ ClientDisconnects(q)
    BY <2>4 DEF CloseStream, ClientDisconnects
  <2> QED
    BY <1>2, <2>1, <2>2, <2>3, <2>4 DEF ConsumerStep
<1>3. CASE \E t \in TaskIds : SetPushNotification(t)
  BY <1>3 DEF SetPushNotification
<1>4. CASE UNCHANGED vars
  BY <1>4 DEF vars
<1> QED
  BY <1>1, <1>2, <1>3, <1>4 DEF Next

(* When the event that ends a stream reaches the host, the store has the   *)
(* very status it carries: the tasks/get that follows cannot miss it.      *)
THEOREM FinalsAreStored == CliSpec => FinalIsStored
<1>1. CliIInv /\ [CliNext]_cliVars =>
        [\A r \in Requests :
           LET e == received'[r][Len(received'[r])] IN
           (received'[r] # received[r] /\ e.final) => tasks'[target[r]].status = e.status]_vars
  <2> SUFFICES ASSUME CliIInv, [CliNext]_cliVars, NEW r \in Requests, received'[r] # received[r],
                      received'[r][Len(received'[r])].final
               PROVE  tasks'[target[r]].status = received'[r][Len(received'[r])].status
    OBVIOUS
  <2> DEFINE e == Head(queues[r])
  <2>1. DeliverEvent(r)
    BY CliStepIsStep, OnlyDeliveryShows DEF CliIInv, CliInv, IInv
  <2>2. 1 \in DOMAIN queues[r] /\ e = queues[r][1]
    BY <2>1, HeadOfQueue DEF DeliverEvent, CliIInv, IInv
  <2>3. received'[r] = Append(received[r], e) /\ received[r] \in Seq(Events)
        /\ UNCHANGED tasks
    BY <2>1 DEF DeliverEvent, CliIInv, IInv, TypeOK, store
  <2> HIDE DEF e
  <2>4. e.run = r /\ (e.final => e = StatusEvent(newStatus[r], TRUE))
    <3>1. /\ queues[r][1].run = r
          /\ queues[r][1].final => queues[r][1] = StatusEvent(newStatus[r], TRUE)
      BY <2>2, Zenon DEF CliIInv, CliInv, OwnEvents
    <3> QED
      BY <2>2, <3>1
  <2>5. received'[r][Len(received'[r])] = e
    BY <2>3
  <2>6. e.status = newStatus[r] /\ newStatus[r] # NoStatus
    <3>1. e = StatusEvent(newStatus[r], TRUE)
      BY <2>4, <2>5
    <3>2. e.status = newStatus[r] /\ e.run = newStatus[r].run
      BY <3>1 DEF StatusEvent
    <3> QED
      BY <2>4, <3>2, NobodyAssumption DEF NoStatus
  <2>7. PICK h \in Clis : call[h] = r /\ Holds(h)
    BY <2>1 DEF DeliverEvent, Connected, CliIInv, CliInv, BusyIsHeld
  <2>8. tasks[target[r]].status = newStatus[r]
    BY <2>6, <2>7 DEF CliIInv, CliInv, HostsWait, StatusIsOwn, Shows
  <2> QED
    BY <2>3, <2>5, <2>6, <2>8
<1> QED
  BY <1>1, CliInvariant, PTL DEF CliSpec, FinalIsStored
=============================================================================
