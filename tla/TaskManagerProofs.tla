-------------------------- MODULE TaskManagerProofs --------------------------
(***************************************************************************)
(* Proofs about TaskManager, for every set of requests and task ids, every *)
(* MaxItems and every AgentFaults.                                         *)
(***************************************************************************)
EXTENDS TaskManager, SequenceTheorems, TLAPS

USE NobodyAssumption, TaskManagerAssumption

Stores == [TaskIds -> Tasks \cup {NoTask}]

-----------------------------------------------------------------------------
(* The operators on the store keep it a store.                             *)

LEMMA TaskStatusTyped ==
  ASSUME NEW state \in TaskStates, NEW r \in Requests, NEW n \in Nat, NEW m \in BOOLEAN
  PROVE  TaskStatus(state, r, n, m) \in Statuses
BY DEF TaskStatus, Statuses

LEMMA UserMessageTyped ==
  ASSUME NEW r \in Requests
  PROVE  UserMessage(r) \in Messages
BY DEF UserMessage, Messages

LEMMA NewTaskTyped ==
  ASSUME NEW r \in Requests
  PROVE  NewTask(r) \in Tasks
<1>1. TaskStatus("submitted", r, 0, FALSE) \in Statuses
  BY TaskStatusTyped DEF TaskStates
<1>2. <<UserMessage(r)>> \in Seq(Messages)
  BY UserMessageTyped
<1>3. <<>> \in Seq(Requests)
  OBVIOUS
<1> QED
  BY <1>1, <1>2, <1>3 DEF NewTask, Tasks

LEMMA UpsertTaskTyped ==
  ASSUME NEW s \in Stores, NEW t \in TaskIds, NEW r \in Requests
  PROVE  UpsertTask(s, t, r) \in Stores
<1>1. CASE Exists(s, t)
  <2>1. s[t] \in Tasks
    BY <1>1 DEF Exists, Stores
  <2>2. Append(s[t].history, UserMessage(r)) \in Seq(Messages)
    BY <2>1, UserMessageTyped DEF Tasks
  <2>3. [s[t] EXCEPT !.history = Append(@, UserMessage(r))] \in Tasks
    BY <2>1, <2>2 DEF Tasks
  <2> QED
    BY <1>1, <2>3 DEF UpsertTask, Stores
<1>2. CASE ~Exists(s, t)
  BY <1>2, NewTaskTyped DEF UpsertTask, Stores
<1> QED
  BY <1>1, <1>2

LEMMA StatusMessagesTyped ==
  ASSUME NEW st \in Statuses
  PROVE  StatusMessages(st) \in Seq(Messages)
<1>1. AgentMessage(st) \in Messages
  BY DEF AgentMessage, Messages, Statuses
<1> QED
  BY <1>1 DEF StatusMessages

LEMMA UpdateStoreTyped ==
  ASSUME NEW s \in Stores, NEW t \in TaskIds, NEW st \in Statuses,
         NEW artifacts \in Seq(Requests)
  PROVE  UpdateStore(s, t, st, artifacts) \in Stores
<1>1. s[t].history \in Seq(Messages) /\ s[t].artifacts \in Seq(Requests)
  <2>1. CASE s[t] \in Tasks
    BY <2>1 DEF Tasks
  <2>2. CASE s[t] = NoTask
    BY <2>2 DEF NoTask
  <2> QED
    BY <2>1, <2>2 DEF Stores
<1>2. s[t].history \o StatusMessages(st) \in Seq(Messages)
  BY <1>1, StatusMessagesTyped
<1>3. s[t].artifacts \o artifacts \in Seq(Requests)
  BY <1>1
<1>4. [status |-> st, history |-> s[t].history \o StatusMessages(st),
       artifacts |-> s[t].artifacts \o artifacts] \in Tasks
  BY <1>2, <1>3 DEF Tasks
<1> QED
  BY <1>4 DEF UpdateStore, Stores

LEMMA EnqueueEventsTyped ==
  ASSUME NEW qs \in [Requests -> Seq(Events)], NEW S, NEW es \in Seq(Events)
  PROVE  EnqueueEvents(qs, S, es) \in [Requests -> Seq(Events)]
BY DEF EnqueueEvents

LEMMA EventsTyped ==
  ASSUME NEW st \in Statuses, NEW r \in Requests, NEW f \in BOOLEAN
  PROVE  /\ StatusEvent(st, f) \in Events
         /\ ArtifactEvent(r) \in Events
         /\ ErrorEvent(r) \in Events
BY DEF StatusEvent, ArtifactEvent, ErrorEvent, Events, Statuses

-----------------------------------------------------------------------------
(* Type correctness.                                                       *)

Replies == [type : {"none", "error", "task"}, status : Statuses \cup {NoStatus}]

LEMMA InitTypeOK == Init => TypeOK
BY DEF Init, TypeOK, PcStates, NoReply, NoStatus

LEMMA ErrorReplyTyped == ErrorReply \in Replies
BY DEF ErrorReply, Replies

LEMMA TaskReplyTyped ==
  ASSUME tasks' \in Stores, NEW t \in TaskIds
  PROVE  TaskReply(t) \in Replies
<1>1. tasks'[t] \in Tasks \cup {NoTask}
  BY DEF Stores
<1>2. tasks'[t].status \in Statuses \cup {NoStatus}
  BY <1>1 DEF Tasks, NoTask
<1> QED
  BY <1>2 DEF TaskReply, Replies

LEMMA BroadcastTyped ==
  ASSUME TypeOK, NEW t \in TaskIds, NEW es \in Seq(Events), Broadcast(t, es)
  PROVE  /\ queues' \in [Requests -> Seq(Events)]
         /\ announced' \in [TaskIds -> Seq(Events)]
<1>1. queues' \in [Requests -> Seq(Events)]
  BY EnqueueEventsTyped DEF Broadcast, TypeOK
<1>2. announced[t] \o es \in Seq(Events)
  BY DEF TypeOK
<1>3. announced' \in [TaskIds -> Seq(Events)]
  BY <1>2 DEF Broadcast, TypeOK
<1> QED
  BY <1>1, <1>3

LEMMA StatusEventsTyped ==
  ASSUME NEW st \in Statuses
  PROVE  StatusEvents(st) \in Seq(Events)
<1>1. Final(st) \in BOOLEAN
  BY DEF Final
<1>2. StatusEvent(st, Final(st)) \in Events
  BY <1>1, EventsTyped, NobodyAssumption DEF Statuses
<1> QED
  BY <1>2 DEF StatusEvents

LEMMA ItemStatusTyped ==
  ASSUME TypeOK, NEW r \in Requests,
         NEW item \in [require_user_input : BOOLEAN, is_task_complete : BOOLEAN]
  PROVE  ItemStatus(r, item) \in Statuses
<1> DEFINE state == IF item.require_user_input THEN "input-required"
                    ELSE IF item.is_task_complete THEN "completed" ELSE "working"
<1>1. state \in TaskStates
  BY DEF TaskStates
<1>2. newStatus[r].n + 1 \in Nat
  <2>1. newStatus[r] \in Statuses \cup {NoStatus}
    BY DEF TypeOK
  <2> QED
    BY <2>1 DEF Statuses, NoStatus
<1>3. (state # "completed") \in BOOLEAN
  OBVIOUS
<1> HIDE DEF state
<1>4. TaskStatus(state, r, newStatus[r].n + 1, state # "completed") \in Statuses
  BY <1>1, <1>2, <1>3, TaskStatusTyped
<1> QED
  BY <1>4 DEF ItemStatus, state

(* Every step keeps the type, given that an active request has a target.   *)
HasTarget(r) == target[r] \in TaskIds

LEMMA RejectTypeOK ==
  ASSUME TypeOK, NEW r \in Requests, RejectRequest(r)
  PROVE  TypeOK'
BY ErrorReplyTyped DEF RejectRequest, Replies, TypeOK, PcStates, store, sse

LEMMA CallsTypeOK ==
  ASSUME TypeOK, NEW r \in Requests, NEW t \in TaskIds,
         OnSendTask(r, t) \/ OnSendTaskSubscribe(r, t)
  PROVE  TypeOK'
<1> USE DEF TypeOK, PcStates, store, sse
<1>2. CASE OnSendTask(r, t)
  <2> DEFINE working == TaskStatus("working", r, 0, FALSE)
  <2>1. working \in Statuses
    BY TaskStatusTyped DEF TaskStates
  <2>2. tasks \in Stores
    BY DEF Stores
  <2>3. UpsertTask(tasks, t, r) \in Stores
    BY <2>2, UpsertTaskTyped
  <2>4. <<>> \in Seq(Requests)
    OBVIOUS
  <2> HIDE DEF working
  <2>5. UpdateStore(UpsertTask(tasks, t, r), t, working, <<>>) \in Stores
    BY <2>1, <2>3, <2>4, UpdateStoreTyped
  <2>6. tasks' \in Stores
    BY <1>2, <2>5 DEF OnSendTask, working
  <2>7. newStatus' \in [Requests -> Statuses \cup {NoStatus}]
    BY <1>2, <2>1 DEF OnSendTask, working
  <2>8. pc' \in [Requests -> PcStates]
    BY <1>2 DEF OnSendTask, AfterNotify
  <2> QED
    BY <1>2, <2>6, <2>7, <2>8 DEF OnSendTask, Stores
<1>3. CASE OnSendTaskSubscribe(r, t)
  <2>1. tasks' \in Stores
    BY <1>3, UpsertTaskTyped DEF OnSendTaskSubscribe, Stores
  <2>2. joined' \in [Requests -> Nat]
    <3>1. Len(announced[t]) \in Nat
      BY LenProperties
    <3> QED
      BY <1>3, <3>1 DEF OnSendTaskSubscribe
  <2> QED
    BY <1>3, <2>1, <2>2 DEF OnSendTaskSubscribe, Stores
<1> QED
  BY <1>2, <1>3

LEMMA SendStepTypeOK ==
  ASSUME TypeOK, NEW r \in Requests, HasTarget(r), SendStep(r)
  PROVE  TypeOK'
<1> USE DEF TypeOK, PcStates, store, sse
<1>1. CASE WorkingPosted(r)
  BY <1>1 DEF WorkingPosted
<1>2. CASE AgentResponds(r)
  <2>1. PICK require \in BOOLEAN :
          LET status == IF require THEN TaskStatus("input-required", r, 1, TRUE)
                                   ELSE TaskStatus("completed", r, 1, FALSE)
          IN  /\ newStatus' = [newStatus EXCEPT ![r] = status]
              /\ tasks' = UpdateStore(tasks, target[r], status,
                                      IF require THEN <<>> ELSE <<r>>)
    BY <1>2 DEF AgentResponds
  <2> DEFINE status == IF require THEN TaskStatus("input-required", r, 1, TRUE)
                                  ELSE TaskStatus("completed", r, 1, FALSE)
  <2>2. status \in Statuses
    BY TaskStatusTyped DEF TaskStates
  <2>3. (IF require THEN <<>> ELSE <<r>>) \in Seq(Requests)
    OBVIOUS
  <2> HIDE DEF status
  <2>4. tasks' \in Stores
    BY <2>1, <2>2, <2>3, UpdateStoreTyped DEF Stores, HasTarget, status
  <2>5. newStatus' \in [Requests -> Statuses \cup {NoStatus}]
    BY <2>1, <2>2 DEF status
  <2>6. AfterNotify(target[r], NoReply, TaskReply(target[r])) \in Replies
    <3>1. TaskReply(target[r]) \in Replies
      BY <2>4, TaskReplyTyped DEF HasTarget
    <3> QED
      BY <3>1 DEF AfterNotify, NoReply, Replies
  <2>7. reply' \in [Requests -> Replies]
    BY <1>2, <2>6 DEF AgentResponds, Replies
  <2>8. pc' \in [Requests -> PcStates]
    BY <1>2 DEF AgentResponds, AfterNotify
  <2> QED
    BY <1>2, <2>4, <2>5, <2>7, <2>8 DEF AgentResponds, Stores, Replies
<1>3. CASE AgentRaises(r)
  BY <1>3, ErrorReplyTyped DEF AgentRaises, Replies
<1>4. CASE ResultPosted(r)
  <2>1. tasks' \in Stores
    BY <1>4 DEF ResultPosted, Stores
  <2>2. TaskReply(target[r]) \in Replies
    BY <2>1, TaskReplyTyped DEF HasTarget
  <2> QED
    BY <1>4, <2>2 DEF ResultPosted, Replies
<1> QED
  BY <1>1, <1>2, <1>3, <1>4 DEF SendStep

LEMMA RunnerStepTypeOK ==
  ASSUME TypeOK, Lifecycle, NEW r \in Requests, HasTarget(r), RunnerStep(r)
  PROVE  TypeOK'
<1> USE DEF TypeOK, PcStates, store, sse
<1>1. CASE StreamItem(r)
  <2> DEFINE t == target[r]
             status(item) == ItemStatus(r, item)
             artifact(item) == IF status(item).state = "completed"
                               THEN <<ArtifactEvent(r)>> ELSE <<>>
             events(item) == AfterNotify(t, artifact(item),
                                         artifact(item) \o StatusEvents(status(item)))
  <2>1. PICK item \in [require_user_input : BOOLEAN, is_task_complete : BOOLEAN] :
          /\ tasks' = UpdateStore(tasks, t, status(item),
                                  IF status(item).state = "completed" THEN <<r>> ELSE <<>>)
          /\ newStatus' = [newStatus EXCEPT ![r] = status(item)]
          /\ pc' = [pc EXCEPT ![r] = AfterNotify(t, "post_update", AfterStatus(status(item)))]
          /\ Broadcast(t, events(item))
    BY <1>1 DEF StreamItem
  <2>2. status(item) \in Statuses
    BY ItemStatusTyped
  <2>3. (IF status(item).state = "completed" THEN <<r>> ELSE <<>>) \in Seq(Requests)
    OBVIOUS
  <2>4. artifact(item) \in Seq(Events)
    <3>1. ArtifactEvent(r) \in Events
      BY <2>2, EventsTyped
    <3> QED
      BY <3>1
  <2>5. events(item) \in Seq(Events)
    <3>1. StatusEvents(status(item)) \in Seq(Events)
      BY <2>2, StatusEventsTyped
    <3>2. artifact(item) \o StatusEvents(status(item)) \in Seq(Events)
      BY <2>4, <3>1
    <3> QED
      BY <2>4, <3>2 DEF AfterNotify
  <2> HIDE DEF status, events
  <2>6. tasks' \in Stores
    BY <2>1, <2>2, <2>3, UpdateStoreTyped DEF Stores, HasTarget
  <2>7. newStatus' \in [Requests -> Statuses \cup {NoStatus}]
    BY <2>1, <2>2
  <2>8. pc' \in [Requests -> PcStates]
    BY <2>1 DEF AfterNotify, AfterStatus
  <2>9. /\ queues' \in [Requests -> Seq(Events)]
        /\ announced' \in [TaskIds -> Seq(Events)]
    BY <2>1, <2>5, BroadcastTyped DEF HasTarget
  <2> QED
    BY <1>1, <2>6, <2>7, <2>8, <2>9 DEF StreamItem, Stores
<1>2. CASE UpdatePosted(r)
  <2>1. newStatus[r] \in Statuses
    BY <1>2, NobodyAssumption DEF UpdatePosted, Lifecycle, NoStatus
  <2>2. StatusEvents(newStatus[r]) \in Seq(Events)
    BY <2>1, StatusEventsTyped
  <2>3. /\ queues' \in [Requests -> Seq(Events)]
        /\ announced' \in [TaskIds -> Seq(Events)]
    BY <1>2, <2>2, BroadcastTyped DEF UpdatePosted, HasTarget
  <2>4. pc' \in [Requests -> PcStates]
    BY <1>2 DEF UpdatePosted, AfterStatus
  <2> QED
    BY <1>2, <2>3, <2>4 DEF UpdatePosted
<1>3. CASE StreamRaises(r)
  <2>1. <<ErrorEvent(r)>> \in Seq(Events)
    <3>1. ErrorEvent(r) \in Events
      BY DEF ErrorEvent, Events
    <3> QED
      BY <3>1
  <2>2. /\ queues' \in [Requests -> Seq(Events)]
        /\ announced' \in [TaskIds -> Seq(Events)]
    BY <1>3, <2>1, BroadcastTyped DEF StreamRaises, HasTarget
  <2> QED
    BY <1>3, <2>2 DEF StreamRaises
<1>4. CASE StreamExhausted(r)
  BY <1>4 DEF StreamExhausted
<1> QED
  BY <1>1, <1>2, <1>3, <1>4 DEF RunnerStep

LEMMA ConsumerTypeOK ==
  ASSUME TypeOK, NEW r \in Requests, HasTarget(r), ConsumerStep(r) \/ ClientDisconnects(r)
  PROVE  TypeOK'
<1> USE DEF TypeOK, store, sse
<1>1. CASE DeliverEvent(r)
  <2>1. queues[r] \in Seq(Events) /\ queues[r] # <<>>
    BY <1>1 DEF DeliverEvent
  <2>2. Head(queues[r]) \in Events /\ Tail(queues[r]) \in Seq(Events)
    BY <2>1, HeadTailProperties
  <2>3. Append(received[r], Head(queues[r])) \in Seq(Events)
    BY <2>2, AppendProperties
  <2>4. queues' \in [Requests -> Seq(Events)] /\ received' \in [Requests -> Seq(Events)]
    BY <1>1, <2>2, <2>3 DEF DeliverEvent
  <2>5. consumer' \in [Requests -> {"none", "open", "closing", "closed"}]
    BY <1>1 DEF DeliverEvent
  <2> QED
    BY <1>1, <2>4, <2>5 DEF DeliverEvent
<1>2. CASE CloseStream(r)
  <2>1. queues' \in [Requests -> Seq(Events)]
    BY <1>2 DEF CloseStream
  <2>2. subscribers' \in [TaskIds -> SUBSET Requests]
    BY <1>2 DEF CloseStream, HasTarget
  <2> QED
    BY <1>2, <2>1, <2>2 DEF CloseStream
<1>3. CASE ClientDisconnects(r)
  BY <1>3 DEF ClientDisconnects
<1> QED
  BY <1>1, <1>2, <1>3 DEF ConsumerStep

LEMMA ActiveHasTarget ==
  ASSUME Lifecycle, NEW r \in Requests,
         SendStep(r) \/ RunnerStep(r) \/ ConsumerStep(r) \/ ClientDisconnects(r)
  PROVE  HasTarget(r)
BY DEF Lifecycle, HasTarget, Running, Subscribed, SendStep, WorkingPosted, AgentResponds,
       AgentRaises, ResultPosted, RunnerStep, StreamItem, UpdatePosted, StreamRaises,
       StreamExhausted, ConsumerStep, DeliverEvent, CloseStream, ClientDisconnects

LEMMA NextTypeOK ==
  ASSUME TypeOK, Lifecycle, [Next]_vars
  PROVE  TypeOK'
<1>1. CASE ClientCalls
  BY <1>1, RejectTypeOK, CallsTypeOK DEF ClientCalls
<1>2. ASSUME NEW r \in Requests,
             SendStep(r) \/ RunnerStep(r) \/ ConsumerStep(r) \/ ClientDisconnects(r)
      PROVE  TypeOK'
  <2>1. HasTarget(r)
    BY <1>2, ActiveHasTarget
  <2> QED
    BY <1>2, <2>1, SendStepTypeOK, RunnerStepTypeOK, ConsumerTypeOK
<1>3. ASSUME NEW t \in TaskIds, SetPushNotification(t)
      PROVE  TypeOK'
  BY <1>3 DEF SetPushNotification, TypeOK, sse
<1>4. CASE UNCHANGED vars
  BY <1>4 DEF vars, TypeOK
<1> QED
  BY <1>1, <1>2, <1>3, <1>4 DEF Next

-----------------------------------------------------------------------------
LEMMA LastOfConcat ==
  ASSUME NEW S, NEW s \in Seq(S), NEW e \in S
  PROVE  (s \o <<e>>)[Len(s) + 1] = e
<1>1. <<e>> \in Seq(S) /\ Len(<<e>>) = 1 /\ <<e>>[1] = e
  OBVIOUS
<1>2. Len(s) \in Nat
  BY LenProperties
<1> QED
  BY <1>1, <1>2, ConcatProperties

(* Lifecycle and SubscribersExact are inductive together with TypeOK.      *)

LEMMA InitRest ==
  Init => /\ Lifecycle /\ FreshUntilSubscribed
          /\ SubscribersExact /\ DeliveredInOrder /\ NoOrphanWaiter
<1> SUFFICES ASSUME Init
             PROVE  /\ Lifecycle /\ FreshUntilSubscribed
                    /\ SubscribersExact /\ DeliveredInOrder /\ NoOrphanWaiter
  OBVIOUS
<1>1. \A r \in Requests : pc[r] = "idle" /\ consumer[r] = "none"
  BY DEF Init
<1>2. \A t \in TaskIds : subscribers[t] = {}
  BY DEF Init
<1>3. FreshUntilSubscribed
  BY DEF Init, FreshUntilSubscribed
<1> QED
  BY <1>1, <1>2, <1>3 DEF Lifecycle, SubscribersExact, DeliveredInOrder, NoOrphanWaiter,
                    Running, Subscribed, Connected

LEMMA BroadcastGrowsLog ==
  ASSUME TypeOK, NEW t \in TaskIds, NEW es \in Seq(Events), Broadcast(t, es)
  PROVE  \A u \in TaskIds : Len(announced[u]) <= Len(announced'[u])
<1>1. Len(announced[t] \o es) = Len(announced[t]) + Len(es) /\ Len(es) \in Nat
      /\ Len(announced[t]) \in Nat
  BY ConcatProperties, LenProperties DEF TypeOK
<1>2. announced'[t] = announced[t] \o es
  BY DEF Broadcast, TypeOK
<1>3. \A u \in TaskIds : u # t => announced'[u] = announced[u]
  BY DEF Broadcast, TypeOK
<1>4. \A u \in TaskIds : Len(announced[u]) \in Nat
  BY LenProperties DEF TypeOK
<1> QED
  BY <1>1, <1>2, <1>3, <1>4

(* What a runner's step enqueues: a sequence of events, the last of which  *)
(* ends a stream when the runner leaves its loop by it.                    *)
LEMMA RunnerBroadcasts ==
  ASSUME TypeOK, Lifecycle, NEW r \in Requests, HasTarget(r), RunnerStep(r),
         ~StreamExhausted(r)
  PROVE  \E es \in Seq(Events) :
           /\ Broadcast(target[r], es)
           /\ pc'[r] = "done" => \E k \in 1..Len(es) : EndsStream(es[k])
<1> USE DEF TypeOK
<1>1. CASE StreamItem(r)
  <2> DEFINE t == target[r]
             status(item) == ItemStatus(r, item)
             artifact(item) == IF status(item).state = "completed"
                               THEN <<ArtifactEvent(r)>> ELSE <<>>
             events(item) == AfterNotify(t, artifact(item),
                                         artifact(item) \o StatusEvents(status(item)))
  <2>1. PICK item \in [require_user_input : BOOLEAN, is_task_complete : BOOLEAN] :
          /\ pc' = [pc EXCEPT ![r] = AfterNotify(t, "post_update", AfterStatus(status(item)))]
          /\ Broadcast(t, events(item))
    BY <1>1 DEF StreamItem
  <2>2. status(item) \in Statuses
    BY ItemStatusTyped
  <2> HIDE DEF status
  <2>3. artifact(item) \in Seq(Events)
    <3>1. ArtifactEvent(r) \in Events
      BY <2>2, EventsTyped
    <3> QED
      BY <3>1
  <2>4. StatusEvents(status(item)) \in Seq(Events)
    BY <2>2, StatusEventsTyped
  <2> HIDE DEF artifact
  <2>5. events(item) \in Seq(Events)
    BY <2>3, <2>4 DEF AfterNotify
  <2>6. ASSUME pc'[r] = "done"
        PROVE  \E k \in 1..Len(events(item)) : EndsStream(events(item)[k])
    <3>1. t \notin pushInfos /\ Final(status(item))
      BY <2>1, <2>6 DEF AfterNotify, AfterStatus
    <3>2. events(item) = artifact(item) \o <<StatusEvent(status(item), TRUE)>>
      BY <3>1 DEF AfterNotify, StatusEvents, Final
    <3>3. Len(artifact(item)) + 1 \in 1..Len(events(item))
      BY <2>3, <3>2, LenProperties
    <3>4. events(item)[Len(artifact(item)) + 1] = StatusEvent(status(item), TRUE)
      <4>1. StatusEvent(status(item), TRUE) \in Events
        BY <2>2, EventsTyped
      <4>2. (artifact(item) \o <<StatusEvent(status(item), TRUE)>>)[Len(artifact(item)) + 1]
              = StatusEvent(status(item), TRUE)
        BY <2>3, <4>1, LastOfConcat
      <4> HIDE DEF events
      <4> QED
        BY <3>2, <4>2
    <3>5. EndsStream(StatusEvent(status(item), TRUE))
      BY DEF EndsStream, StatusEvent
    <3> QED
      BY <3>3, <3>4, <3>5
  <2> QED
    BY <2>1, <2>5, <2>6
<1>2. CASE UpdatePosted(r)
  <2> DEFINE es == StatusEvents(newStatus[r])
  <2>1. newStatus[r] \in Statuses
    BY <1>2, NobodyAssumption DEF UpdatePosted, Lifecycle, NoStatus
  <2>2. es \in Seq(Events)
    BY <2>1, StatusEventsTyped
  <2>3. ASSUME pc'[r] = "done"
        PROVE  \E k \in 1..Len(es) : EndsStream(es[k])
    <3>1. Final(newStatus[r])
      BY <1>2, <2>3 DEF UpdatePosted, AfterStatus
    <3>2. es[1] = StatusEvent(newStatus[r], TRUE) /\ Len(es) = 1
      BY <3>1 DEF StatusEvents, Final
    <3> QED
      BY <3>2 DEF EndsStream, StatusEvent
  <2>4. Broadcast(target[r], es)
    BY <1>2 DEF UpdatePosted
  <2> QED
    BY <2>2, <2>3, <2>4
<1>3. CASE StreamRaises(r)
  <2> DEFINE es == <<ErrorEvent(r)>>
  <2>1. ErrorEvent(r) \in Events
    BY DEF ErrorEvent, Events
  <2>2. es \in Seq(Events) /\ Len(es) = 1 /\ es[1] = ErrorEvent(r)
    BY <2>1
  <2>3. EndsStream(es[1])
    BY <2>2 DEF EndsStream, ErrorEvent
  <2>4. Broadcast(target[r], es)
    BY <1>3 DEF StreamRaises
  <2>5. 1 \in 1..Len(es)
    BY <2>2
  <2> HIDE DEF es
  <2> QED
    BY <2>2, <2>3, <2>4, <2>5
<1> QED
  BY <1>1, <1>2, <1>3 DEF RunnerStep

(* What a runner's step leaves alone, and where it leads.                  *)
LEMMA RunnerFrame ==
  ASSUME TypeOK, NEW r \in Requests, RunnerStep(r)
  PROVE  /\ UNCHANGED <<subscribers, target, consumer, joined, received>>
         /\ \A q \in Requests : q # r => pc'[q] = pc[q] /\ newStatus'[q] = newStatus[q]
         /\ pc[r] \in {"stream", "post_update"}
         /\ pc'[r] \in {"stream", "post_update", "exhausted", "done"}
         /\ pc'[r] = "exhausted" <=> StreamExhausted(r)
         /\ pc'[r] = "post_update" => newStatus'[r].run = r
<1> USE DEF TypeOK
<1>1. CASE StreamItem(r)
  <2>1. PICK item \in [require_user_input : BOOLEAN, is_task_complete : BOOLEAN] :
          /\ newStatus' = [newStatus EXCEPT ![r] = ItemStatus(r, item)]
          /\ pc' = [pc EXCEPT ![r] = AfterNotify(target[r], "post_update",
                                                 AfterStatus(ItemStatus(r, item)))]
    BY <1>1 DEF StreamItem
  <2>2. ItemStatus(r, item).run = r
    BY DEF ItemStatus, TaskStatus
  <2>3. pc'[r] \in {"stream", "post_update", "done"} /\ pc[r] = "stream"
    BY <1>1, <2>1 DEF AfterNotify, AfterStatus, StreamItem
  <2> QED
    BY <1>1, <2>1, <2>2, <2>3 DEF StreamItem, StreamExhausted
<1>2. CASE UpdatePosted(r)
  BY <1>2 DEF UpdatePosted, AfterStatus, StreamExhausted
<1>3. CASE StreamRaises(r)
  BY <1>3 DEF StreamRaises, StreamExhausted
<1>4. CASE StreamExhausted(r)
  BY <1>4 DEF StreamExhausted, sse
<1> QED
  BY <1>1, <1>2, <1>3, <1>4 DEF RunnerStep

LEMMA RunnerLogGrows ==
  ASSUME TypeOK, Lifecycle, NEW r \in Requests, HasTarget(r), RunnerStep(r)
  PROVE  \A u \in TaskIds : Len(announced[u]) <= Len(announced'[u])
<1>1. CASE StreamExhausted(r)
  <2>1. \A u \in TaskIds : Len(announced[u]) \in Nat
    BY LenProperties DEF TypeOK
  <2> QED
    BY <1>1, <2>1 DEF StreamExhausted, sse
<1>2. CASE ~StreamExhausted(r)
  BY <1>2, RunnerBroadcasts, BroadcastGrowsLog DEF HasTarget
<1> QED
  BY <1>1, <1>2

LEMMA NextLifecycle ==
  ASSUME TypeOK, Lifecycle, [Next]_vars
  PROVE  Lifecycle'
<1> USE DEF TypeOK, Lifecycle, Running, Subscribed, LogOf, store, sse
<1>1. ASSUME NEW r \in Requests, RejectRequest(r)
      PROVE  Lifecycle'
  BY <1>1 DEF RejectRequest, Arrives
<1>2. ASSUME NEW r \in Requests, NEW t \in TaskIds, OnSendTask(r, t)
      PROVE  Lifecycle'
  BY <1>2 DEF OnSendTask, Arrives, AfterNotify
<1>3. ASSUME NEW r \in Requests, NEW t \in TaskIds, OnSendTaskSubscribe(r, t)
      PROVE  Lifecycle'
  <2>1. Len(announced[t]) \in Nat
    BY LenProperties
  <2> QED
    BY <1>3, <2>1 DEF OnSendTaskSubscribe, Arrives
<1>4. ASSUME NEW r \in Requests, SendStep(r)
      PROVE  Lifecycle'
  <2>1. CASE WorkingPosted(r)
    BY <2>1 DEF WorkingPosted
  <2>2. CASE AgentResponds(r)
    <3>1. /\ pc[r] = "invoke" /\ pc' = [pc EXCEPT ![r] = AfterNotify(target[r], "post_result", "done")]
          /\ \A q \in Requests : q # r => newStatus'[q] = newStatus[q]
          /\ UNCHANGED <<consumer, target, joined, announced>>
      BY <2>2 DEF AgentResponds
    <3> QED
      BY <3>1 DEF AfterNotify
  <2>3. CASE AgentRaises(r)
    BY <2>3 DEF AgentRaises
  <2>4. CASE ResultPosted(r)
    BY <2>4 DEF ResultPosted
  <2> QED
    BY <1>4, <2>1, <2>2, <2>3, <2>4 DEF SendStep
<1>5. ASSUME NEW r \in Requests, RunnerStep(r)
      PROVE  Lifecycle'
  <2>1. HasTarget(r)
    BY <1>5, ActiveHasTarget
  <2>2. \A u \in TaskIds : /\ Len(announced[u]) <= Len(announced'[u])
                           /\ Len(announced[u]) \in Nat /\ Len(announced'[u]) \in Nat
    <3>1. announced' \in [TaskIds -> Seq(Events)]
      BY <1>5, <2>1, RunnerStepTypeOK
    <3> QED
      BY <1>5, <2>1, <3>1, RunnerLogGrows, LenProperties
  <2>3. /\ UNCHANGED <<target, consumer, joined>>
        /\ \A q \in Requests : q # r => pc'[q] = pc[q] /\ newStatus'[q] = newStatus[q]
        /\ pc[r] \in {"stream", "post_update"}
        /\ pc'[r] \in {"stream", "post_update", "exhausted", "done"}
        /\ pc'[r] = "post_update" => newStatus'[r].run = r
    BY <1>5, RunnerFrame
  <2>4. ASSUME NEW q \in Requests
        PROVE  Subscribed(q)' => joined'[q] <= Len(LogOf(q)')
    <3>1. Subscribed(q) => target[q] \in TaskIds /\ joined[q] <= Len(announced[target[q]])
      OBVIOUS
    <3> QED
      BY <2>2, <2>3, <3>1
  <2>5. ASSUME NEW q \in Requests
        PROVE  /\ pc'[q] \in {"idle", "post_working", "invoke", "post_result"}
                    => consumer'[q] = "none"
               /\ (Running(q)' \/ Subscribed(q)') => target'[q] \in TaskIds
               /\ pc'[q] = "post_update" => newStatus'[q].run = q
    <3>1. CASE q = r
      BY <2>1, <2>3, <3>1 DEF HasTarget
    <3>2. CASE q # r
      BY <2>3, <3>2
    <3> QED
      BY <3>1, <3>2
  <2> QED
    BY <2>4, <2>5
<1>6. ASSUME NEW r \in Requests, ConsumerStep(r) \/ ClientDisconnects(r)
      PROVE  Lifecycle'
  <2>1. /\ UNCHANGED <<target, pc, newStatus, announced, joined>>
        /\ consumer[r] # "none"
        /\ \A q \in Requests : q # r => consumer'[q] = consumer[q]
    BY <1>6 DEF ConsumerStep, DeliverEvent, CloseStream, ClientDisconnects
  <2> QED
    BY <2>1
<1>7. ASSUME NEW t \in TaskIds, SetPushNotification(t)
      PROVE  Lifecycle'
  BY <1>7 DEF SetPushNotification
<1>8. CASE UNCHANGED vars
  BY <1>8 DEF vars
<1> QED
  BY <1>1, <1>2, <1>3, <1>4, <1>5, <1>6, <1>7, <1>8 DEF Next, ClientCalls

LEMMA NextSubscribersExact ==
  ASSUME TypeOK, Lifecycle, SubscribersExact, [Next]_vars
  PROVE  SubscribersExact'
<1> USE DEF TypeOK, Lifecycle, SubscribersExact, Connected, store, sse
<1>1. ASSUME NEW r \in Requests, RejectRequest(r)
      PROVE  SubscribersExact'
  BY <1>1 DEF RejectRequest
<1>2. ASSUME NEW r \in Requests, NEW t \in TaskIds, OnSendTask(r, t)
      PROVE  SubscribersExact'
  BY <1>2 DEF OnSendTask, Arrives
<1>3. ASSUME NEW r \in Requests, NEW t \in TaskIds, OnSendTaskSubscribe(r, t)
      PROVE  SubscribersExact'
  BY <1>3 DEF OnSendTaskSubscribe, Arrives
<1>4. ASSUME NEW r \in Requests, SendStep(r)
      PROVE  SubscribersExact'
  <2>1. UNCHANGED <<subscribers, consumer, target>>
    BY <1>4 DEF SendStep, WorkingPosted, AgentResponds, AgentRaises, ResultPosted
  <2> QED
    BY <2>1
<1>5. ASSUME NEW r \in Requests, RunnerStep(r)
      PROVE  SubscribersExact'
  <2>1. UNCHANGED <<subscribers, consumer, target>>
    BY <1>5, RunnerFrame
  <2> QED
    BY <2>1
<1>6. ASSUME NEW r \in Requests, DeliverEvent(r) \/ ClientDisconnects(r)
      PROVE  SubscribersExact'
  <2>1. /\ UNCHANGED <<subscribers, target>>
        /\ consumer[r] = "open" /\ consumer'[r] \in {"open", "closing"}
        /\ \A q \in Requests : q # r => consumer'[q] = consumer[q]
    BY <1>6 DEF DeliverEvent, ClientDisconnects
  <2> QED
    BY <2>1
<1>7. ASSUME NEW r \in Requests, CloseStream(r)
      PROVE  SubscribersExact'
  BY <1>7 DEF CloseStream, Subscribed
<1>8. ASSUME NEW t \in TaskIds, SetPushNotification(t)
      PROVE  SubscribersExact'
  BY <1>8 DEF SetPushNotification
<1>9. CASE UNCHANGED vars
  BY <1>9 DEF vars
<1> QED
  BY <1>1, <1>2, <1>3, <1>4, <1>5, <1>6, <1>7, <1>8, <1>9
  DEF Next, ClientCalls, ConsumerStep

-----------------------------------------------------------------------------
(* A stream whose runner has left its loop finds the ending event in its   *)
(* queue: it was a subscriber when the event was enqueued.                 *)

LEMMA BroadcastKeepsEnd ==
  ASSUME TypeOK, NEW t \in TaskIds, NEW es \in Seq(Events), Broadcast(t, es),
         NEW q \in Requests
  PROVE  (\E i \in DOMAIN queues[q] : EndsStream(queues[q][i]))
           => (\E i \in DOMAIN queues'[q] : EndsStream(queues'[q][i]))
<1> USE DEF TypeOK
<1>1. queues[q] \in Seq(Events)
  OBVIOUS
<1>2. CASE q \notin subscribers[t]
  BY <1>2 DEF Broadcast, EnqueueEvents
<1>3. CASE q \in subscribers[t]
  <2>1. queues'[q] = queues[q] \o es
    BY <1>3 DEF Broadcast, EnqueueEvents
  <2>2. \A i \in DOMAIN queues[q] : i \in DOMAIN queues'[q] /\ queues'[q][i] = queues[q][i]
    <3>1. Len(queues[q]) \in Nat /\ Len(es) \in Nat /\ DOMAIN queues[q] = 1..Len(queues[q])
      BY <1>1, LenProperties
    <3>2. queues'[q] \in Seq(Events) /\ Len(queues'[q]) = Len(queues[q]) + Len(es)
      BY <1>1, <2>1, ConcatProperties
    <3>3. DOMAIN queues'[q] = 1..Len(queues'[q])
      BY <3>2, LenProperties
    <3>4. \A i \in 1..Len(queues[q]) : queues'[q][i] = queues[q][i]
      BY <1>1, <2>1, <3>1, ConcatProperties
    <3> QED
      BY <3>1, <3>2, <3>3, <3>4
  <2> QED
    BY <2>2
<1> QED
  BY <1>2, <1>3

LEMMA BroadcastBringsEnd ==
  ASSUME TypeOK, NEW t \in TaskIds, NEW es \in Seq(Events), Broadcast(t, es),
         NEW q \in subscribers[t], \E k \in 1..Len(es) : EndsStream(es[k])
  PROVE  \E i \in DOMAIN queues'[q] : EndsStream(queues'[q][i])
<1> USE DEF TypeOK
<1>1. q \in Requests /\ queues[q] \in Seq(Events)
  OBVIOUS
<1>2. queues'[q] = queues[q] \o es
  BY <1>1 DEF Broadcast, EnqueueEvents
<1>3. PICK k \in 1..Len(es) : EndsStream(es[k])
  OBVIOUS
<1>4. Len(queues[q]) \in Nat /\ Len(es) \in Nat
  BY <1>1, LenProperties
<1>5. queues'[q] \in Seq(Events) /\ Len(queues'[q]) = Len(queues[q]) + Len(es)
  BY <1>1, <1>2, ConcatProperties
<1>6. Len(queues[q]) + k \in DOMAIN queues'[q]
  BY <1>4, <1>5, LenProperties
<1>7. queues'[q][Len(queues[q]) + k] = es[k]
  BY <1>1, <1>2, <1>4, ConcatProperties
<1> QED
  BY <1>3, <1>6, <1>7

Ending(s) == \E i \in DOMAIN s : EndsStream(s[i])

LEMMA TailKeepsEnd ==
  ASSUME NEW s \in Seq(Events), s # <<>>, Ending(s), ~EndsStream(Head(s))
  PROVE  Ending(Tail(s))
<1>1. PICK i \in 1..Len(s) : EndsStream(s[i])
  BY LenProperties DEF Ending
<1>2. Len(s) \in Nat /\ Len(s) # 0
  BY LenProperties, EmptySeq
<1>3. Head(s) = s[1]
  BY HeadTailProperties
<1>4. i # 1
  BY <1>1, <1>3
<1>5. Len(Tail(s)) = Len(s) - 1 /\ Tail(s) \in Seq(Events)
  BY HeadTailProperties
<1>6. i - 1 \in 1..Len(Tail(s))
  BY <1>1, <1>2, <1>4, <1>5
<1>7. Tail(s)[i - 1] = s[i]
  BY <1>1, <1>2, <1>4, <1>6, <1>5
<1> QED
  BY <1>1, <1>5, <1>6, <1>7, LenProperties DEF Ending

LEMMA NextNoOrphanWaiter ==
  ASSUME TypeOK, Lifecycle, SubscribersExact, NoOrphanWaiter, [Next]_vars
  PROVE  NoOrphanWaiter'
<1> DEFINE Fine(q) == (pc[q] = "done" /\ consumer[q] = "open") => Ending(queues[q])
<1>0. NoOrphanWaiter <=> \A q \in Requests : Fine(q)
  BY DEF NoOrphanWaiter, Ending
<1>a. NoOrphanWaiter' <=> \A q \in Requests : Fine(q)'
  BY DEF NoOrphanWaiter, Ending
<1> USE DEF TypeOK, store, sse
<1>1. ASSUME NEW r \in Requests, RejectRequest(r)
      PROVE  \A q \in Requests : Fine(q)'
  BY <1>0, <1>1 DEF RejectRequest, Arrives, Lifecycle
<1>2. ASSUME NEW r \in Requests, NEW t \in TaskIds, OnSendTask(r, t)
      PROVE  \A q \in Requests : Fine(q)'
  BY <1>0, <1>2 DEF OnSendTask, Arrives, Lifecycle
<1>3. ASSUME NEW r \in Requests, NEW t \in TaskIds, OnSendTaskSubscribe(r, t)
      PROVE  \A q \in Requests : Fine(q)'
  BY <1>0, <1>3 DEF OnSendTaskSubscribe
<1>4. ASSUME NEW r \in Requests, SendStep(r)
      PROVE  \A q \in Requests : Fine(q)'
  <2>1. /\ UNCHANGED <<consumer, queues>>
        /\ consumer[r] = "none"
        /\ \A q \in Requests : q # r => pc'[q] = pc[q]
    BY <1>4 DEF SendStep, WorkingPosted, AgentResponds, AgentRaises, ResultPosted, Lifecycle
  <2> QED
    BY <1>0, <2>1
<1>5. ASSUME NEW r \in Requests, RunnerStep(r), ~StreamExhausted(r)
      PROVE  \A q \in Requests : Fine(q)'
  <2>1. HasTarget(r)
    BY <1>5, ActiveHasTarget
  <2>2. PICK es \in Seq(Events) :
          /\ Broadcast(target[r], es)
          /\ pc'[r] = "done" => \E k \in 1..Len(es) : EndsStream(es[k])
    BY <1>5, <2>1, RunnerBroadcasts
  <2>3. ASSUME NEW q \in Requests, Ending(queues[q])
        PROVE  Ending(queues[q])'
    BY <2>1, <2>2, <2>3, BroadcastKeepsEnd DEF Ending, HasTarget
  <2>4. ASSUME pc'[r] = "done", consumer[r] = "open"
        PROVE  Ending(queues[r])'
    <3>1. r \in subscribers[target[r]]
      BY <2>1, <2>4 DEF SubscribersExact, Connected, HasTarget
    <3> QED
      BY <2>1, <2>2, <2>4, <3>1, BroadcastBringsEnd DEF Ending, HasTarget
  <2>5. /\ UNCHANGED consumer
        /\ \A q \in Requests : q # r => pc'[q] = pc[q]
    BY <1>5, RunnerFrame
  <2> QED
    BY <1>0, <2>3, <2>4, <2>5
<1>6. ASSUME NEW r \in Requests, StreamExhausted(r)
      PROVE  \A q \in Requests : Fine(q)'
  BY <1>0, <1>6 DEF StreamExhausted
<1>7. ASSUME NEW r \in Requests, DeliverEvent(r)
      PROVE  \A q \in Requests : Fine(q)'
  <2>1. queues[r] \in Seq(Events) /\ queues[r] # <<>> /\ queues'[r] = Tail(queues[r])
    BY <1>7 DEF DeliverEvent
  <2>2. consumer[r] = "open" /\ (consumer'[r] = "open" => ~EndsStream(Head(queues[r])))
    BY <1>7 DEF DeliverEvent
  <2>3. Fine(r)'
    BY <1>0, <1>7, <2>1, <2>2, TailKeepsEnd DEF DeliverEvent
  <2>4. \A q \in Requests : q # r => queues'[q] = queues[q] /\ consumer'[q] = consumer[q]
    BY <1>7 DEF DeliverEvent
  <2> QED
    BY <1>0, <1>7, <2>3, <2>4 DEF DeliverEvent
<1>8. ASSUME NEW r \in Requests, ClientDisconnects(r)
      PROVE  \A q \in Requests : Fine(q)'
  BY <1>0, <1>8 DEF ClientDisconnects
<1>9. ASSUME NEW r \in Requests, CloseStream(r)
      PROVE  \A q \in Requests : Fine(q)'
  <2>1. consumer'[r] = "closed" /\ UNCHANGED pc
        /\ \A q \in Requests : q # r => queues'[q] = queues[q] /\ consumer'[q] = consumer[q]
    BY <1>9 DEF CloseStream
  <2> QED
    BY <1>0, <2>1
<1>10. ASSUME NEW t \in TaskIds, SetPushNotification(t)
       PROVE  \A q \in Requests : Fine(q)'
  <2>1. UNCHANGED <<pc, consumer, queues>>
    BY <1>10 DEF SetPushNotification
  <2> QED
    BY <1>0, <2>1 DEF Ending
<1>11. ASSUME UNCHANGED vars
       PROVE  \A q \in Requests : Fine(q)'
  <2>1. UNCHANGED <<pc, consumer, queues>>
    BY <1>11 DEF vars
  <2> QED
    BY <1>0, <2>1 DEF Ending
<1>12. \A q \in Requests : Fine(q)'
  BY <1>1, <1>2, <1>3, <1>4, <1>5, <1>6, <1>7, <1>8, <1>9, <1>10, <1>11
  DEF Next, ClientCalls, ConsumerStep, RunnerStep
<1> QED
  BY <1>a, <1>12

-----------------------------------------------------------------------------
(* Delivery: what a stream has been handed and still holds is the slice of *)
(* its task's log since it subscribed.                                     *)

LEMMA SubSeqGrows ==
  ASSUME NEW S, NEW s \in Seq(S), NEW es \in Seq(S), NEW j \in Nat, j <= Len(s)
  PROVE  SubSeq(s \o es, j + 1, Len(s \o es)) = SubSeq(s, j + 1, Len(s)) \o es
<1> DEFINE left == SubSeq(s \o es, j + 1, Len(s \o es))
           front == SubSeq(s, j + 1, Len(s))
<1>1. /\ Len(s) \in Nat /\ Len(es) \in Nat /\ s \o es \in Seq(S)
      /\ Len(s \o es) = Len(s) + Len(es)
  BY LenProperties, ConcatProperties
<1>2. /\ \A i \in j + 1 .. Len(s \o es) : (s \o es)[i] \in S
      /\ \A i \in j + 1 .. Len(s) : s[i] \in S
  BY <1>1, ElementOfSeq
<1>3. /\ left \in Seq(S)
      /\ Len(left) = Len(s) + Len(es) - j
      /\ \A i \in 1 .. Len(s) + Len(es) - j : left[i] = (s \o es)[j + i]
  <2>1. Len(left) = IF j + 1 <= Len(s \o es) THEN Len(s \o es) - (j + 1) + 1 ELSE 0
    BY <1>1, <1>2, SubSeqProperties
  <2>2. \A i \in 1 .. Len(s \o es) - (j + 1) + 1 : left[i] = (s \o es)[(j + 1) + i - 1]
    BY <1>1, <1>2, SubSeqProperties
  <2>3. left \in Seq(S)
    BY <1>1, <1>2, SubSeqProperties
  <2> HIDE DEF left
  <2>4. Len(left) = Len(s) + Len(es) - j
    BY <1>1, <2>1
  <2>5. ASSUME NEW i \in 1 .. Len(s) + Len(es) - j
        PROVE  left[i] = (s \o es)[j + i]
    <3>1. i \in 1 .. Len(s \o es) - (j + 1) + 1 /\ (j + 1) + i - 1 = j + i
      BY <1>1
    <3> QED
      BY <2>2, <3>1
  <2> QED
    BY <2>3, <2>4, <2>5
<1>4. /\ front \in Seq(S)
      /\ Len(front) = Len(s) - j
      /\ \A i \in 1 .. Len(s) - j : front[i] = s[j + i]
  <2>1. Len(front) = IF j + 1 <= Len(s) THEN Len(s) - (j + 1) + 1 ELSE 0
    BY <1>1, <1>2, SubSeqProperties
  <2>2. \A i \in 1 .. Len(s) - (j + 1) + 1 : front[i] = s[(j + 1) + i - 1]
    BY <1>1, <1>2, SubSeqProperties
  <2>3. front \in Seq(S)
    BY <1>1, <1>2, SubSeqProperties
  <2> HIDE DEF front
  <2>4. Len(front) = Len(s) - j
    BY <1>1, <2>1
  <2>5. ASSUME NEW i \in 1 .. Len(s) - j
        PROVE  front[i] = s[j + i]
    <3>1. i \in 1 .. Len(s) - (j + 1) + 1 /\ (j + 1) + i - 1 = j + i
      BY <1>1
    <3> QED
      BY <2>2, <3>1
  <2> QED
    BY <2>3, <2>4, <2>5
<1> HIDE DEF left, front
<1>5. /\ front \o es \in Seq(S)
      /\ Len(front \o es) = Len(s) + Len(es) - j
  <2>1. front \o es \in Seq(S) /\ Len(front \o es) = Len(front) + Len(es)
    BY <1>4, ConcatProperties
  <2> QED
    BY <1>1, <1>4, <2>1
<1>6. ASSUME NEW i \in 1 .. Len(s) + Len(es) - j
      PROVE  left[i] = (front \o es)[i]
  <2>1. left[i] = (s \o es)[j + i]
    BY <1>3
  <2>2. j + i \in 1 .. Len(s) + Len(es)
    BY <1>1
  <2>3. (s \o es)[j + i] = IF j + i <= Len(s) THEN s[j + i] ELSE es[j + i - Len(s)]
    BY <2>2, ConcatProperties
  <2>4. i \in 1 .. Len(front) + Len(es)
    BY <1>1, <1>4
  <2>5. (front \o es)[i] = IF i <= Len(front) THEN front[i] ELSE es[i - Len(front)]
    BY <1>4, <2>4, ConcatProperties
  <2>6. i - Len(front) = j + i - Len(s) /\ (i <= Len(front) <=> j + i <= Len(s))
    BY <1>1, <1>4
  <2>7. j + i <= Len(s) => front[i] = s[j + i]
    BY <1>1, <1>4
  <2> QED
    BY <2>1, <2>3, <2>5, <2>6, <2>7
<1>7. left = front \o es
  BY <1>1, <1>3, <1>5, <1>6, SeqEqual
<1> QED
  BY <1>7 DEF left, front

LEMMA HandOverKeepsOrder ==
  ASSUME NEW S, NEW q \in Seq(S), q # <<>>, NEW p \in Seq(S)
  PROVE  Append(p, Head(q)) \o Tail(q) = p \o q
<1>1. Head(q) \in S /\ Tail(q) \in Seq(S) /\ <<Head(q)>> \in Seq(S)
  BY HeadTailProperties
<1>2. Append(p, Head(q)) = p \o <<Head(q)>>
  BY <1>1, AppendIsConcat
<1>3. <<Head(q)>> \o Tail(q) = q
  <2>1. Len(q) \in Nat \ {0}
    BY EmptySeq
  <2>2. q = SubSeq(q, 1, Len(q))
    BY SubSeqFull
  <2>3. SubSeq(q, 1, Len(q)) = <<q[1]>> \o SubSeq(q, 2, Len(q))
    BY <2>1, SubSeqRecursiveFirst
  <2>4. Tail(q) = SubSeq(q, 2, Len(q))
    BY TailIsSubSeq
  <2>5. Head(q) = q[1]
    OBVIOUS
  <2> QED
    BY <2>2, <2>3, <2>4, <2>5
<1> QED
  BY <1>1, <1>2, <1>3, ConcatAssociative

LEMMA NextFreshUntilSubscribed ==
  ASSUME TypeOK, Lifecycle, FreshUntilSubscribed, SubscribersExact, [Next]_vars
  PROVE  FreshUntilSubscribed'
<1> USE DEF TypeOK, FreshUntilSubscribed, Subscribed, store, sse
<1>0. ASSUME NEW r \in Requests, RejectRequest(r)
      PROVE  FreshUntilSubscribed'
  BY <1>0 DEF RejectRequest
<1>1. ASSUME NEW r \in Requests, NEW t \in TaskIds, OnSendTask(r, t)
      PROVE  FreshUntilSubscribed'
  BY <1>1 DEF OnSendTask
<1>2. ASSUME NEW r \in Requests, NEW t \in TaskIds, OnSendTaskSubscribe(r, t)
      PROVE  FreshUntilSubscribed'
  BY <1>2 DEF OnSendTaskSubscribe
<1>3. ASSUME NEW r \in Requests, SendStep(r)
      PROVE  FreshUntilSubscribed'
  <2>1. UNCHANGED <<consumer, queues, received>>
    BY <1>3 DEF SendStep, WorkingPosted, AgentResponds, AgentRaises, ResultPosted
  <2> QED
    BY <2>1
<1>4. ASSUME NEW r \in Requests, RunnerStep(r), ~StreamExhausted(r)
      PROVE  FreshUntilSubscribed'
  <2>1. HasTarget(r)
    BY <1>4, ActiveHasTarget
  <2>2. PICK es \in Seq(Events) : Broadcast(target[r], es)
    BY <1>4, <2>1, RunnerBroadcasts
  <2>3. UNCHANGED <<consumer, received>>
    BY <1>4, RunnerFrame
  <2>4. ASSUME NEW q \in Requests, ~Subscribed(q)
        PROVE  queues'[q] = queues[q]
    <3>1. q \notin subscribers[target[r]]
      BY <2>1, <2>4 DEF SubscribersExact, Connected, HasTarget
    <3> QED
      BY <2>2, <3>1 DEF Broadcast, EnqueueEvents
  <2> QED
    BY <2>3, <2>4
<1>5. ASSUME NEW r \in Requests, StreamExhausted(r)
      PROVE  FreshUntilSubscribed'
  BY <1>5 DEF StreamExhausted
<1>6. ASSUME NEW r \in Requests, ConsumerStep(r) \/ ClientDisconnects(r)
      PROVE  FreshUntilSubscribed'
  <2>1. /\ consumer'[r] # "none"
        /\ \A q \in Requests : q # r => /\ consumer'[q] = consumer[q]
                                        /\ queues'[q] = queues[q]
                                        /\ received'[q] = received[q]
    BY <1>6 DEF ConsumerStep, DeliverEvent, CloseStream, ClientDisconnects
  <2> QED
    BY <2>1
<1>7. ASSUME NEW t \in TaskIds, SetPushNotification(t)
      PROVE  FreshUntilSubscribed'
  BY <1>7 DEF SetPushNotification
<1>8. CASE UNCHANGED vars
  BY <1>8 DEF vars
<1> QED
  BY <1>0, <1>1, <1>2, <1>3, <1>4, <1>5, <1>6, <1>7, <1>8 DEF Next, ClientCalls, RunnerStep

LEMMA EventsAssociative ==
  \A p, q, s \in Seq(Events) : (p \o q) \o s = p \o (q \o s)
BY ConcatAssociative

LEMMA NextDeliveredInOrder ==
  ASSUME IInv, [Next]_vars
  PROVE  DeliveredInOrder'
<1> DEFINE InOrder(q) == Connected(q) => received[q] \o queues[q] = SinceJoined(q)
<1>0. (DeliveredInOrder <=> \A q \in Requests : InOrder(q))
      /\ (DeliveredInOrder' <=> \A q \in Requests : InOrder(q)')
  BY DEF DeliveredInOrder
<1>a. \A q \in Requests : InOrder(q)
  BY <1>0 DEF IInv
<1>b. TypeOK /\ Lifecycle /\ FreshUntilSubscribed /\ SubscribersExact
  BY DEF IInv
<1> USE DEF store, sse
<1>1. ASSUME NEW r \in Requests, RejectRequest(r)
      PROVE  \A q \in Requests : InOrder(q)'
  <2>1. UNCHANGED <<received, queues, consumer, announced, joined, target>>
    BY <1>1 DEF RejectRequest
  <2> QED
    BY <1>a, <2>1 DEF SinceJoined, LogOf, Connected
<1>2. ASSUME NEW r \in Requests, NEW t \in TaskIds, OnSendTask(r, t)
      PROVE  \A q \in Requests : InOrder(q)'
  <2>1. /\ UNCHANGED <<received, queues, consumer, announced, joined>>
        /\ consumer[r] = "none"
        /\ \A q \in Requests : q # r => target'[q] = target[q]
    BY <1>2, <1>b DEF OnSendTask, Arrives, Lifecycle, TypeOK
  <2> QED
    BY <1>a, <2>1 DEF SinceJoined, LogOf, Connected
<1>3. ASSUME NEW r \in Requests, NEW t \in TaskIds, OnSendTaskSubscribe(r, t)
      PROVE  \A q \in Requests : InOrder(q)'
  <2>1. /\ UNCHANGED <<received, queues, announced>>
        /\ target'[r] = t /\ joined'[r] = Len(announced[t])
        /\ \A q \in Requests : q # r => /\ target'[q] = target[q]
                                        /\ consumer'[q] = consumer[q]
                                        /\ joined'[q] = joined[q]
    BY <1>3, <1>b DEF OnSendTaskSubscribe, TypeOK
  <2>2. received[r] = <<>> /\ queues[r] = <<>>
    BY <1>3, <1>b DEF OnSendTaskSubscribe, Arrives, Lifecycle, FreshUntilSubscribed, Subscribed
  <2>3. SinceJoined(r)' = <<>>
    <3>1. Len(announced[t]) \in Nat
      BY <1>b, LenProperties DEF TypeOK
    <3>2. SubSeq(announced[t], Len(announced[t]) + 1, Len(announced[t])) = <<>>
      BY <3>1, SubSeqEmpty
    <3> QED
      BY <2>1, <3>2 DEF SinceJoined, LogOf
  <2>4. InOrder(r)'
    <3>1. <<>> \o <<>> = <<>>
      BY ConcatEmptySeq, EmptySeq
    <3> QED
      BY <2>1, <2>2, <2>3, <3>1
  <2>5. ASSUME NEW q \in Requests, q # r
        PROVE  InOrder(q)'
    BY <1>a, <2>1, <2>5 DEF SinceJoined, LogOf, Connected
  <2> QED
    BY <2>4, <2>5
<1>4. ASSUME NEW r \in Requests, SendStep(r)
      PROVE  \A q \in Requests : InOrder(q)'
  <2>1. UNCHANGED <<received, queues, consumer, announced, joined, target>>
    BY <1>4 DEF SendStep, WorkingPosted, AgentResponds, AgentRaises, ResultPosted
  <2> QED
    BY <1>a, <2>1 DEF SinceJoined, LogOf, Connected
<1>5. ASSUME NEW r \in Requests, RunnerStep(r), ~StreamExhausted(r)
      PROVE  \A q \in Requests : InOrder(q)'
  <2>1. HasTarget(r)
    BY <1>5, <1>b, ActiveHasTarget
  <2>2. PICK es \in Seq(Events) : Broadcast(target[r], es)
    BY <1>5, <1>b, <2>1, RunnerBroadcasts
  <2>3. UNCHANGED <<received, consumer, joined, target>>
    BY <1>5, <1>b, RunnerFrame
  <2>4. ASSUME NEW q \in Requests, Connected(q), target[q] # target[r]
        PROVE  InOrder(q)'
    <3>1. q \notin subscribers[target[r]] /\ target[q] \in TaskIds
      BY <1>b, <2>1, <2>4 DEF SubscribersExact, HasTarget, Lifecycle, Subscribed, Connected
    <3>2. queues'[q] = queues[q] /\ announced'[target[q]] = announced[target[q]]
      BY <1>b, <2>1, <2>2, <2>4, <3>1 DEF Broadcast, EnqueueEvents, TypeOK, HasTarget
    <3> QED
      BY <1>a, <2>3, <3>2 DEF SinceJoined, LogOf, Connected
  <2>5. ASSUME NEW q \in Requests, Connected(q), target[q] = target[r]
        PROVE  InOrder(q)'
    <3> DEFINE l == announced[target[q]]
    <3>1. q \in subscribers[target[r]]
      BY <1>b, <2>1, <2>5 DEF SubscribersExact, HasTarget
    <3>2. queues'[q] = queues[q] \o es /\ announced'[target[q]] = l \o es
      BY <1>b, <2>1, <2>2, <2>5, <3>1 DEF Broadcast, EnqueueEvents, TypeOK, HasTarget
    <3>3. l \in Seq(Events) /\ joined[q] \in Nat /\ joined[q] <= Len(l)
      BY <1>b, <2>1, <2>5 DEF TypeOK, Lifecycle, Subscribed, Connected, LogOf, HasTarget
    <3>4. SubSeq(l \o es, joined[q] + 1, Len(l \o es)) = SubSeq(l, joined[q] + 1, Len(l)) \o es
      BY <3>3, SubSeqGrows
    <3>5. received[q] \o queues[q] = SubSeq(l, joined[q] + 1, Len(l))
      BY <1>a, <2>5 DEF SinceJoined, LogOf
    <3>6. received[q] \in Seq(Events) /\ queues[q] \in Seq(Events) /\ es \in Seq(Events)
      BY <1>b DEF TypeOK
    <3>7. (received[q] \o queues[q]) \o es = received[q] \o (queues[q] \o es)
      BY <3>6, EventsAssociative
    <3>8. SinceJoined(q)' = SubSeq(l \o es, joined[q] + 1, Len(l \o es))
      BY <2>3, <3>2 DEF SinceJoined, LogOf
    <3> HIDE DEF l
    <3>9. received'[q] \o queues'[q] = SinceJoined(q)'
      BY <2>3, <3>2, <3>4, <3>5, <3>7, <3>8
    <3> QED
      BY <3>9
  <2> QED
    BY <2>3, <2>4, <2>5 DEF Connected
<1>6. ASSUME NEW r \in Requests, StreamExhausted(r)
      PROVE  \A q \in Requests : InOrder(q)'
  <2>1. UNCHANGED <<received, queues, consumer, announced, joined, target>>
    BY <1>6 DEF StreamExhausted
  <2> QED
    BY <1>a, <2>1 DEF SinceJoined, LogOf, Connected
<1>7. ASSUME NEW r \in Requests, DeliverEvent(r)
      PROVE  \A q \in Requests : InOrder(q)'
  <2>1. /\ UNCHANGED <<announced, joined, target>>
        /\ queues[r] \in Seq(Events) /\ queues[r] # <<>> /\ received[r] \in Seq(Events)
        /\ queues'[r] = Tail(queues[r])
        /\ received'[r] = Append(received[r], Head(queues[r]))
        /\ consumer[r] = "open"
        /\ \A q \in Requests : q # r => /\ consumer'[q] = consumer[q]
                                        /\ queues'[q] = queues[q]
                                        /\ received'[q] = received[q]
    BY <1>7, <1>b DEF DeliverEvent, TypeOK
  <2>2. received'[r] \o queues'[r] = received[r] \o queues[r]
    BY <2>1, HandOverKeepsOrder
  <2>3. InOrder(r)'
    BY <1>a, <2>1, <2>2 DEF SinceJoined, LogOf, Connected
  <2>4. ASSUME NEW q \in Requests, q # r
        PROVE  InOrder(q)'
    BY <1>a, <2>1, <2>4 DEF SinceJoined, LogOf, Connected
  <2> QED
    BY <2>3, <2>4
<1>8. ASSUME NEW r \in Requests, CloseStream(r) \/ ClientDisconnects(r)
      PROVE  \A q \in Requests : InOrder(q)'
  <2>1. /\ UNCHANGED <<announced, joined, target, received>>
        /\ Connected(r)' => Connected(r) /\ queues'[r] = queues[r]
        /\ \A q \in Requests : q # r => /\ consumer'[q] = consumer[q]
                                        /\ queues'[q] = queues[q]
    BY <1>8, <1>b DEF CloseStream, ClientDisconnects, TypeOK, Connected
  <2> QED
    BY <1>a, <2>1 DEF SinceJoined, LogOf, Connected
<1>9. ASSUME NEW t \in TaskIds, SetPushNotification(t)
      PROVE  \A q \in Requests : InOrder(q)'
  <2>1. UNCHANGED <<received, queues, consumer, announced, joined, target>>
    BY <1>9 DEF SetPushNotification
  <2> QED
    BY <1>a, <2>1 DEF SinceJoined, LogOf, Connected
<1>10. ASSUME UNCHANGED vars
       PROVE  \A q \in Requests : InOrder(q)'
  <2>1. UNCHANGED <<received, queues, consumer, announced, joined, target>>
    BY <1>10 DEF vars
  <2> QED
    BY <1>a, <2>1 DEF SinceJoined, LogOf, Connected
<1>11. \A q \in Requests : InOrder(q)'
  BY <1>1, <1>2, <1>3, <1>4, <1>5, <1>6, <1>7, <1>8, <1>9, <1>10
  DEF Next, ClientCalls, ConsumerStep, RunnerStep
<1> QED
  BY <1>0, <1>11

-----------------------------------------------------------------------------
(* The inductive invariant, and what follows from it.                      *)

LEMMA InitIInv == Init => IInv
BY InitTypeOK, InitRest DEF IInv

LEMMA NextIInv == IInv /\ [Next]_vars => IInv'
BY NextTypeOK, NextLifecycle, NextFreshUntilSubscribed, NextSubscribersExact,
   NextDeliveredInOrder, NextNoOrphanWaiter DEF IInv

(* IInv holds in every reachable state of the task manager.                *)
THEOREM Inductive == Spec => []IInv
<1>1. Init => IInv
  BY InitIInv
<1>2. IInv /\ [Next]_vars => IInv'
  BY NextIInv
<1> QED
  BY <1>1, <1>2, PTL DEF Spec

(* Every variable keeps its type: in particular whatever enters a queue or *)
(* a log is an event, and the status of a task is one some request built.  *)
THEOREM TypeCorrect == Spec => []TypeOK
<1>1. IInv => TypeOK
  BY DEF IInv
<1> QED
  BY <1>1, Inductive, PTL

(* setup_sse_consumer and the finally clause of the generator keep the     *)
(* registered queues equal to those of the connected streams.              *)
THEOREM NoLeakedQueue == Spec => []SubscribersExact
<1>1. IInv => SubscribersExact
  BY DEF IInv
<1> QED
  BY <1>1, Inductive, PTL

(* A connected stream neither misses, repeats nor reorders an event of its *)
(* task, however many requests enqueue and disconnect meanwhile.           *)
THEOREM DeliveryCorrect == Spec => []DeliveredInOrder
<1>1. IInv => DeliveredInOrder
  BY DEF IInv
<1> QED
  BY <1>1, Inductive, PTL

(* Once the runner has returned or raised, the event that ends the stream  *)
(* is in the queue of a stream that is still waiting.                      *)
THEOREM WaitersAreEnded == Spec => []NoOrphanWaiter
<1>1. IInv => NoOrphanWaiter
  BY DEF IInv
<1> QED
  BY <1>1, Inductive, PTL

-----------------------------------------------------------------------------
(* Refinement: each step of the task manager is a step of EventTopic or    *)
(* leaves everything EventTopic sees as it is.                             *)

topicOf  == [r \in Requests |-> IF Subscribed(r) THEN target[r] ELSE NoId]
openOnes == {r \in Requests : consumer[r] = "open"}
seen     == <<announced, topicOf, joined, received, openOnes>>

LEMMA InitTopic == Init => Topic!TopicInit
<1> SUFFICES ASSUME Init
             PROVE  Topic!TopicInit
  OBVIOUS
<1>1. \A r \in Requests : consumer[r] = "none"
  BY DEF Init
<1>2. topicOf = [r \in Requests |-> NoId]
  BY <1>1 DEF topicOf, Subscribed
<1>3. openOnes = {}
  BY <1>1 DEF openOnes
<1> QED
  BY <1>2, <1>3 DEF Init, Topic!TopicInit, topicOf, openOnes

LEMMA BroadcastPublishes ==
  ASSUME TypeOK, NEW t \in TaskIds, NEW es \in Seq(Events), Broadcast(t, es),
         UNCHANGED <<topicOf, joined, received, openOnes>>
  PROVE  Topic!TopicNext \/ UNCHANGED seen
<1> DEFINE l == announced[t]
<1>1. l \in Seq(Events) /\ announced' = [announced EXCEPT ![t] = l \o es]
  BY DEF TypeOK, Broadcast
<1>2. announced'[t] = l \o es /\ Len(l \o es) = Len(l) + Len(es)
      /\ Len(l) \in Nat /\ Len(es) \in Nat
  BY <1>1, ConcatProperties, LenProperties DEF TypeOK
<1>3. CASE es = <<>>
  <2>1. l \o es = l
    BY <1>1, <1>3, ConcatEmptySeq
  <2> QED
    BY <1>1, <2>1 DEF seen, TypeOK
<1>4. CASE es # <<>>
  <2>1. Len(es) > 0
    BY <1>2, <1>4, EmptySeq
  <2>2. SubSeq(l \o es, 1, Len(l)) = l
    <3>1. CASE l = <<>>
      <4>1. Len(l) = 0
        BY <3>1, EmptySeq
      <4>2. SubSeq(l \o es, 1, 0) = <<>>
        BY SubSeqEmpty
      <4> QED
        BY <3>1, <4>1, <4>2
    <3>2. CASE l # <<>>
      <4>1. 1 \in 1..Len(l) /\ Len(l) \in 1..Len(l)
        BY <1>1, <1>2, <3>2, EmptySeq
      <4> HIDE DEF l
      <4>2. SubSeq(l \o es, 1, Len(l)) = SubSeq(l, 1, Len(l))
        BY <1>1, <4>1, SubSeqOfConcat1
      <4> QED
        BY <1>1, <4>2, SubSeqFull
    <3> QED
      BY <3>1, <3>2
  <2>3. Topic!Publish(t)
    <3>1. Len(announced[t]) < Len(announced'[t])
      BY <1>2, <2>1
    <3>2. SubSeq(announced'[t], 1, Len(announced[t])) = announced[t]
      BY <1>2, <2>2
    <3>3. announced' = [announced EXCEPT ![t] = announced'[t]]
      BY <1>1, <1>2
    <3> QED
      BY <3>1, <3>2, <3>3 DEF Topic!Publish, topicOf, openOnes
  <2> QED
    BY <2>3 DEF Topic!TopicNext
<1> QED
  BY <1>3, <1>4

LEMMA SubscribeRefines ==
  ASSUME IInv, NEW r \in Requests, NEW t \in TaskIds, OnSendTaskSubscribe(r, t)
  PROVE  Topic!Subscribe(r, t)
<1> USE DEF IInv, TypeOK
<1>1. consumer[r] = "none"
  BY DEF OnSendTaskSubscribe, Arrives, Lifecycle
<1>2. topicOf[r] = NoId
  BY <1>1 DEF topicOf, Subscribed
<1>3. topicOf' = [topicOf EXCEPT ![r] = t]
  BY DEF topicOf, Subscribed, OnSendTaskSubscribe
<1>4. openOnes' = openOnes \cup {r}
  BY DEF openOnes, OnSendTaskSubscribe
<1> QED
  BY <1>2, <1>3, <1>4 DEF Topic!Subscribe, topicOf, openOnes, OnSendTaskSubscribe

(* What DeliverEvent takes from the queue is the next entry of the log.    *)
LEMMA HeadIsNextEntry ==
  ASSUME NEW S, NEW p \in Seq(S), NEW q \in Seq(S), q # <<>>,
         NEW l \in Seq(S), NEW j \in Nat, j <= Len(l),
         p \o q = SubSeq(l, j + 1, Len(l))
  PROVE  /\ j + Len(p) < Len(l)
         /\ Head(q) = l[j + Len(p) + 1]
<1>1. /\ Len(p) \in Nat /\ Len(q) \in Nat \ {0} /\ Len(l) \in Nat
      /\ Len(p \o q) = Len(p) + Len(q)
  BY LenProperties, EmptySeq, ConcatProperties
<1>2. \A i \in j + 1 .. Len(l) : l[i] \in S
  BY <1>1, ElementOfSeq
<1>3. Len(SubSeq(l, j + 1, Len(l))) = IF j + 1 <= Len(l) THEN Len(l) - (j + 1) + 1 ELSE 0
  BY <1>1, <1>2, SubSeqProperties
<1>4. \A i \in 1 .. Len(l) - (j + 1) + 1 : SubSeq(l, j + 1, Len(l))[i] = l[(j + 1) + i - 1]
  BY <1>1, <1>2, SubSeqProperties
<1>5. Len(p) + Len(q) = Len(l) - j
  BY <1>1, <1>3
<1>6. Len(p) + 1 \in 1 .. Len(l) - (j + 1) + 1 /\ (j + 1) + (Len(p) + 1) - 1 = j + Len(p) + 1
  BY <1>1, <1>5
<1>7. SubSeq(l, j + 1, Len(l))[Len(p) + 1] = l[j + Len(p) + 1]
  BY <1>4, <1>6
<1>8. (p \o q)[Len(p) + 1] = q[1]
  <2> DEFINE k == Len(p) + 1
  <2>1. k \in 1 .. Len(p) + Len(q) /\ ~(k <= Len(p)) /\ k - Len(p) = 1
    BY <1>1
  <2> HIDE DEF k
  <2>2. (p \o q)[k] = IF k <= Len(p) THEN p[k] ELSE q[k - Len(p)]
    BY <2>1, ConcatProperties
  <2>3. (p \o q)[k] = q[1]
    BY <2>1, <2>2
  <2> QED
    BY <2>3 DEF k
<1>9. Head(q) = q[1]
  OBVIOUS
<1> QED
  BY <1>1, <1>5, <1>7, <1>8, <1>9

LEMMA DeliverRefines ==
  ASSUME IInv, NEW r \in Requests, DeliverEvent(r)
  PROVE  Topic!Read(r)
<1> DEFINE l == announced[target[r]]
<1>1. consumer[r] = "open" /\ queues[r] # <<>>
  BY DEF DeliverEvent
<1>2. topicOf[r] = target[r] /\ target[r] \in TaskIds
  BY <1>1 DEF topicOf, Subscribed, IInv, Lifecycle
<1>3. /\ received[r] \in Seq(Events) /\ queues[r] \in Seq(Events) /\ l \in Seq(Events)
      /\ joined[r] \in Nat /\ joined[r] <= Len(l)
  BY <1>1, <1>2 DEF IInv, TypeOK, Lifecycle, Subscribed, LogOf
<1>4. received[r] \o queues[r] = SubSeq(l, joined[r] + 1, Len(l))
  BY <1>1 DEF IInv, DeliveredInOrder, SinceJoined, LogOf, Connected
<1> HIDE DEF l
<1>5. /\ joined[r] + Len(received[r]) < Len(l)
      /\ Head(queues[r]) = l[joined[r] + Len(received[r]) + 1]
  <2> DEFINE p == received[r]
             q == queues[r]
             j == joined[r]
  <2>1. /\ p \in Seq(Events) /\ q \in Seq(Events) /\ l \in Seq(Events) /\ j \in Nat
        /\ q # <<>> /\ j <= Len(l) /\ p \o q = SubSeq(l, j + 1, Len(l))
    BY <1>1, <1>3, <1>4
  <2> HIDE DEF p, q, j
  <2>2. j + Len(p) < Len(l) /\ Head(q) = l[j + Len(p) + 1]
    BY <2>1, HeadIsNextEntry
  <2> QED
    BY <2>2 DEF p, q, j
<1>6. Topic!NextEntry(r) = Head(queues[r])
  BY <1>2, <1>5 DEF Topic!NextEntry, topicOf, l
<1>7. received' = [received EXCEPT ![r] = Append(@, Head(queues[r]))]
  BY DEF DeliverEvent
<1>8. openOnes' = IF EndsStream(Head(queues[r])) THEN openOnes \ {r} ELSE openOnes
  BY <1>1 DEF DeliverEvent, openOnes, IInv, TypeOK
<1>9. UNCHANGED <<announced, joined, topicOf>>
  BY <1>1 DEF DeliverEvent, topicOf, Subscribed, IInv, TypeOK
<1>10. r \in openOnes
  BY <1>1 DEF openOnes
<1> QED
  BY <1>2, <1>5, <1>6, <1>7, <1>8, <1>9, <1>10 DEF Topic!Read, topicOf, openOnes, l

LEMMA NextTopic ==
  ASSUME IInv, [Next]_vars
  PROVE  Topic!TopicNext \/ UNCHANGED seen
<1>b. TypeOK /\ Lifecycle
  BY DEF IInv
<1> USE DEF store, sse
<1>1. ASSUME NEW r \in Requests, RejectRequest(r)
      PROVE  UNCHANGED seen
  BY <1>1 DEF RejectRequest, seen, topicOf, openOnes, Subscribed
<1>2. ASSUME NEW r \in Requests, NEW t \in TaskIds, OnSendTask(r, t)
      PROVE  UNCHANGED seen
  <2>1. consumer[r] = "none"
        /\ \A q \in Requests : q # r => target'[q] = target[q]
    BY <1>2, <1>b DEF OnSendTask, Arrives, Lifecycle, TypeOK
  <2>2. UNCHANGED <<announced, joined, received, consumer>>
    BY <1>2 DEF OnSendTask
  <2> QED
    BY <2>1, <2>2 DEF seen, topicOf, openOnes, Subscribed
<1>3. ASSUME NEW r \in Requests, NEW t \in TaskIds, OnSendTaskSubscribe(r, t)
      PROVE  Topic!TopicNext
  BY <1>3, SubscribeRefines DEF Topic!TopicNext
<1>4. ASSUME NEW r \in Requests, SendStep(r)
      PROVE  UNCHANGED seen
  <2>1. UNCHANGED <<announced, joined, received, consumer, target>>
    BY <1>4 DEF SendStep, WorkingPosted, AgentResponds, AgentRaises, ResultPosted
  <2> QED
    BY <2>1 DEF seen, topicOf, openOnes, Subscribed
<1>5. ASSUME NEW r \in Requests, RunnerStep(r), ~StreamExhausted(r)
      PROVE  Topic!TopicNext \/ UNCHANGED seen
  <2>1. HasTarget(r)
    BY <1>5, <1>b, ActiveHasTarget
  <2>2. PICK es \in Seq(Events) : Broadcast(target[r], es)
    BY <1>5, <1>b, <2>1, RunnerBroadcasts
  <2>3. UNCHANGED <<received, consumer, joined, target>>
    BY <1>5, <1>b, RunnerFrame
  <2>4. UNCHANGED <<topicOf, joined, received, openOnes>>
    BY <2>3 DEF topicOf, openOnes, Subscribed
  <2> QED
    BY <1>b, <2>1, <2>2, <2>4, BroadcastPublishes DEF HasTarget
<1>6. ASSUME NEW r \in Requests, StreamExhausted(r)
      PROVE  UNCHANGED seen
  BY <1>6 DEF StreamExhausted, seen, topicOf, openOnes, Subscribed
<1>7. ASSUME NEW r \in Requests, DeliverEvent(r)
      PROVE  Topic!TopicNext
  BY <1>7, DeliverRefines DEF Topic!TopicNext
<1>8. ASSUME NEW r \in Requests, ClientDisconnects(r)
      PROVE  Topic!TopicNext
  <2>1. r \in openOnes /\ openOnes' = openOnes \ {r}
    BY <1>8, <1>b DEF ClientDisconnects, openOnes, TypeOK
  <2>2. UNCHANGED <<announced, joined, received, topicOf>>
    BY <1>8, <1>b DEF ClientDisconnects, topicOf, Subscribed, TypeOK
  <2>3. Topic!Leave(r)
    BY <2>1, <2>2 DEF Topic!Leave, openOnes, topicOf
  <2> QED
    BY <2>3 DEF Topic!TopicNext
<1>9. ASSUME NEW r \in Requests, CloseStream(r)
      PROVE  UNCHANGED seen
  <2>1. UNCHANGED <<announced, joined, received>>
    BY <1>9 DEF CloseStream
  <2>2. UNCHANGED topicOf /\ UNCHANGED openOnes
    BY <1>9, <1>b DEF CloseStream, topicOf, openOnes, Subscribed, TypeOK
  <2> QED
    BY <2>1, <2>2 DEF seen
<1>10. ASSUME NEW t \in TaskIds, SetPushNotification(t)
       PROVE  UNCHANGED seen
  BY <1>10 DEF SetPushNotification, seen, topicOf, openOnes, Subscribed
<1>11. CASE UNCHANGED vars
  BY <1>11 DEF vars, seen, topicOf, openOnes, Subscribed
<1> QED
  BY <1>1, <1>2, <1>3, <1>4, <1>5, <1>6, <1>7, <1>8, <1>9, <1>10, <1>11
  DEF Next, ClientCalls, ConsumerStep, RunnerStep

(* The queues, the subscriber lists and the generators together behave as  *)
(* readers of one growing log per task, each up to its first ending event. *)
THEOREM QueuesImplementTopic == Spec => ImplementsTopic
<1>1. Init => Topic!TopicInit
  BY InitTopic
<1>2. IInv /\ [Next]_vars => [Topic!TopicNext]_(Topic!tvars)
  BY NextTopic DEF seen, topicOf, openOnes, Topic!tvars
<1> QED
  BY <1>1, <1>2, Inductive, PTL DEF Spec, ImplementsTopic, Topic!TopicSpec
=============================================================================
