----------------------------- MODULE TaskManager -----------------------------
(***************************************************************************)
(* The Semantic Kernel TaskManager (samples/agents/semantickernel/         *)
(* task_manager.py) on top of InMemoryTaskManager.                         *)
(*                                                                         *)
(* All handlers run on one asyncio event loop, so an action is what one    *)
(* coroutine does between two suspension points.  The suspension points    *)
(* are: the POST of a push notification, the agent (invoke, and each item  *)
(* of stream), the get on an empty SSE queue, and the hand-over of an SSE  *)
(* event to the client.                                                    *)
(*                                                                         *)
(* A tasks/sendSubscribe call has two coroutines: the runner that          *)
(* create_task starts (pc) and the SSE generator (consumer).               *)
(***************************************************************************)
EXTENDS TaskStore

CONSTANTS
  TaskIds,       (* the task ids clients use                               *)
  NoId,          (* no task id                                             *)
  MaxItems,      (* bound: items the agent's stream yields per request     *)
  AgentFaults    (* "raise": the agent may raise;                          *)
                 (* "exhaust": its stream may end without a last item      *)

ASSUME TaskManagerAssumption ==
  /\ NoId \notin TaskIds
  /\ MaxItems \in Nat \ {0}
  /\ AgentFaults \subseteq {"raise", "exhaust"}

VARIABLES
  tasks,        (* self.tasks                                              *)
  pushInfos,    (* the keys of self.push_notification_infos                *)
  subscribers,  (* self.task_sse_subscribers: whose queues, per task       *)
  queues,       (* the asyncio.Queue of each sendSubscribe request         *)
  target,       (* request.params.id                                       *)
  pc,           (* where the coroutine that runs the agent is suspended    *)
  newStatus,    (* its local new_status: the last status it has built      *)
  consumer,     (* where the SSE generator is                              *)
  announced,    (* history: every event enqueued for a task, in order      *)
  joined,       (* history: Len(announced) when the request subscribed     *)
  received,     (* history: the events handed over to the client           *)
  reply         (* history: the JSON-RPC reply that ended the call         *)

store  == <<tasks, pushInfos>>
sse    == <<subscribers, queues, consumer, announced, joined, received>>
vars   == <<tasks, pushInfos, subscribers, queues, target, pc, newStatus,
            consumer, announced, joined, received, reply>>

NoReply      == [type |-> "none", status |-> NoStatus]
ErrorReply   == [type |-> "error", status |-> NoStatus]
TaskReply_Stale(t) == [type |-> "task", status |-> tasks[t].status]
TaskReply(t) == [type |-> "task", status |-> tasks'[t].status]

PcStates ==
  {"idle", "post_working", "invoke", "post_result",   (* on_send_task         *)
   "stream", "post_update",                            (* _run_streaming_agent *)
   "exhausted", "done"}

(* The shape of the manager's dicts, of the coroutines' locals and of the  *)
(* history: in particular artifacts stay one flat list per task.           *)
TypeOK ==
  /\ tasks \in [TaskIds -> Tasks \cup {NoTask}]
  /\ pushInfos \in SUBSET TaskIds
  /\ subscribers \in [TaskIds -> SUBSET Requests]
  /\ queues \in [Requests -> Seq(Events)]
  /\ target \in [Requests -> TaskIds \cup {NoId}]
  /\ pc \in [Requests -> PcStates]
  /\ newStatus \in [Requests -> Statuses \cup {NoStatus}]
  /\ consumer \in [Requests -> {"none", "open", "closing", "closed"}]
  /\ announced \in [TaskIds -> Seq(Events)]
  /\ joined \in [Requests -> Nat]
  /\ received \in [Requests -> Seq(Events)]
  /\ reply \in [Requests -> [type : {"none", "error", "task"},
                             status : Statuses \cup {NoStatus}]]

Init ==
  /\ tasks = [t \in TaskIds |-> NoTask]
  /\ pushInfos = {}
  /\ subscribers = [t \in TaskIds |-> {}]
  /\ queues = [r \in Requests |-> <<>>]
  /\ target = [r \in Requests |-> NoId]
  /\ pc = [r \in Requests |-> "idle"]
  /\ newStatus = [r \in Requests |-> NoStatus]
  /\ consumer = [r \in Requests |-> "none"]
  /\ announced = [t \in TaskIds |-> <<>>]
  /\ joined = [r \in Requests |-> 0]
  /\ received = [r \in Requests |-> <<>>]
  /\ reply = [r \in Requests |-> NoReply]

-----------------------------------------------------------------------------
Running(r) == pc[r] \notin {"idle", "exhausted", "done"}
Connected(r) == consumer[r] \in {"open", "closing"}

(* A client makes its call r about a task; nothing keeps it from naming a  *)
(* task that has a request in progress.                                    *)
Arrives(r) == pc[r] = "idle"

(* send_task_notification suspends in its POST only when the task has a    *)
(* push configuration; else the coroutine goes on to next at once.         *)
AfterNotify(t, posting, next) == IF t \in pushInfos THEN posting ELSE next

(* _validate_request fails: no accepted output mode is supported.  Nothing *)
(* of the store is touched.                                                *)
RejectRequest(r) ==
  /\ Arrives(r)
  /\ pc' = [pc EXCEPT ![r] = "done"]
  /\ reply' = [reply EXCEPT ![r] = ErrorReply]
  /\ UNCHANGED <<store, sse, target, newStatus>>

-----------------------------------------------------------------------------
(* tasks/send.                                                             *)

(* on_send_task up to its first suspension: upsert, WORKING, notification. *)
OnSendTask(r, t) ==
  LET working == TaskStatus("working", r, 0, FALSE) IN
  /\ Arrives(r)
  /\ target' = [target EXCEPT ![r] = t]
  /\ tasks' = UpdateStore(UpsertTask(tasks, t, r), t, working, <<>>)
  /\ newStatus' = [newStatus EXCEPT ![r] = working]
  /\ pc' = [pc EXCEPT ![r] = AfterNotify(t, "post_working", "invoke")]
  /\ UNCHANGED <<pushInfos, sse, reply>>

(* The POST returned, failed or timed out (send_push_notification swallows *)
(* the error): the agent is invoked.                                       *)
WorkingPosted(r) ==
  /\ pc[r] = "post_working"
  /\ pc' = [pc EXCEPT ![r] = "invoke"]
  /\ UNCHANGED <<store, sse, target, newStatus, reply>>

(* _process_agent_response.  The reply is the live Task object, serialised *)
(* when the handler returns: here when there was nothing to POST, else in  *)
(* ResultPosted.                                                           *)
AgentResponds(r) ==
  LET t == target[r] IN
  /\ pc[r] = "invoke"
  /\ \E requireUserInput \in BOOLEAN :
       LET status == IF requireUserInput
                     THEN TaskStatus("input-required", r, 1, TRUE)
                     ELSE TaskStatus("completed", r, 1, FALSE)
       IN  /\ newStatus' = [newStatus EXCEPT ![r] = status]
           /\ tasks' = UpdateStore(tasks, t, status,
                                   IF requireUserInput THEN <<>> ELSE <<r>>)
  /\ pc' = [pc EXCEPT ![r] = AfterNotify(t, "post_result", "done")]
  /\ reply' = [reply EXCEPT ![r] = AfterNotify(t, NoReply, TaskReply(t))]
  /\ UNCHANGED <<pushInfos, sse, target>>

ResultPosted(r) ==
  /\ pc[r] = "post_result"
  /\ pc' = [pc EXCEPT ![r] = "done"]
  /\ UNCHANGED <<store, sse, target, newStatus>>
  /\ reply' = [reply EXCEPT ![r] = TaskReply(target[r])]

(* invoke raises (or the message has no leading text part): ValueError,    *)
(* which the server answers with an InternalError.  The store keeps the    *)
(* WORKING status.                                                         *)
AgentRaises(r) ==
  /\ "raise" \in AgentFaults
  /\ pc[r] = "invoke"
  /\ pc' = [pc EXCEPT ![r] = "done"]
  /\ reply' = [reply EXCEPT ![r] = ErrorReply]
  /\ UNCHANGED <<store, sse, target, newStatus>>

-----------------------------------------------------------------------------
(* tasks/sendSubscribe.                                                    *)

(* on_send_task_subscribe: upsert (no status change for a known task),     *)
(* setup_sse_consumer, create_task, and the generator is handed to the SSE *)
(* response.                                                               *)
OnSendTaskSubscribe(r, t) ==
  /\ Arrives(r)
  /\ target' = [target EXCEPT ![r] = t]
  /\ tasks' = UpsertTask(tasks, t, r)
  /\ subscribers' = [subscribers EXCEPT ![t] = @ \cup {r}]
  /\ consumer' = [consumer EXCEPT ![r] = "open"]
  /\ joined' = [joined EXCEPT ![r] = Len(announced[t])]
  /\ pc' = [pc EXCEPT ![r] = "stream"]
  /\ UNCHANGED <<pushInfos, queues, newStatus, announced, received, reply>>

(* The status an item of the agent's stream stands for; asking for user    *)
(* input takes precedence.  Every status but COMPLETED carries a message.  *)
ItemStatus(r, item) ==
  LET state == IF item.require_user_input THEN "input-required"
               ELSE IF item.is_task_complete THEN "completed" ELSE "working"
  IN  TaskStatus(state, r, newStatus[r].n + 1, state # "completed")

Final_Always(status) == TRUE

Final(status) == status.state \in {"input-required", "completed"}

Broadcast(t, events) ==
  /\ queues' = EnqueueEvents(queues, subscribers[t], events)
  /\ announced' = [announced EXCEPT ![t] = @ \o events]

StatusEvents(status) == <<StatusEvent(status, Final(status))>>

(* After a final status event the runner leaves its loop.                  *)
AfterStatus(status) == IF Final(status) THEN "done" ELSE "stream"

(* One item of the agent's stream: the artifact event, update_store and    *)
(* the notification; the status event follows at once unless the           *)
(* notification has to be POSTed first.                                    *)
StreamItem(r) ==
  LET t == target[r] IN
  /\ pc[r] = "stream"
  /\ \E item \in [require_user_input : BOOLEAN, is_task_complete : BOOLEAN] :
       LET status    == ItemStatus(r, item)
           completed == status.state = "completed"
           artifact  == IF completed THEN <<ArtifactEvent(r)>> ELSE <<>>
       IN  /\ Final(status) \/ status.n < MaxItems
           /\ tasks' = UpdateStore(tasks, t, status, IF completed THEN <<r>> ELSE <<>>)
           /\ newStatus' = [newStatus EXCEPT ![r] = status]
           /\ pc' = [pc EXCEPT ![r] = AfterNotify(t, "post_update", AfterStatus(status))]
           /\ Broadcast(t, AfterNotify(t, artifact, artifact \o StatusEvents(status)))
  /\ UNCHANGED <<pushInfos, subscribers, target, consumer, joined, received, reply>>

UpdatePosted(r) ==
  /\ pc[r] = "post_update"
  /\ Broadcast(target[r], StatusEvents(newStatus[r]))
  /\ pc' = [pc EXCEPT ![r] = AfterStatus(newStatus[r])]
  /\ UNCHANGED <<store, subscribers, target, newStatus, consumer, joined, received, reply>>

(* The except clause of the runner: an InternalError for the subscribers;  *)
(* the store keeps the status it has.                                      *)
StreamRaises_Silent(r) ==
  /\ "raise" \in AgentFaults
  /\ pc[r] = "stream"
  /\ pc' = [pc EXCEPT ![r] = "done"]
  /\ UNCHANGED <<store, sse, target, newStatus, reply>>

StreamRaises(r) ==
  /\ "raise" \in AgentFaults
  /\ pc[r] = "stream"
  /\ Broadcast(target[r], <<ErrorEvent(r)>>)
  /\ pc' = [pc EXCEPT ![r] = "done"]
  /\ UNCHANGED <<store, subscribers, target, newStatus, consumer, joined, received, reply>>

(* The async for runs out of items: the runner returns without a word.     *)
StreamExhausted(r) ==
  /\ "exhaust" \in AgentFaults
  /\ pc[r] = "stream"
  /\ pc' = [pc EXCEPT ![r] = "exhausted"]
  /\ UNCHANGED <<store, sse, target, newStatus, reply>>

(* dequeue_events_for_sse: one get, one yield.                             *)
DeliverEvent_GoesOnAfterError(r) ==
  LET event == Head(queues[r]) IN
  /\ consumer[r] = "open"
  /\ queues[r] # <<>>
  /\ queues' = [queues EXCEPT ![r] = Tail(@)]
  /\ received' = [received EXCEPT ![r] = Append(@, event)]
  /\ consumer' = [consumer EXCEPT ![r] = IF event.final THEN "closing" ELSE "open"]
  /\ UNCHANGED <<store, subscribers, target, pc, newStatus, announced, joined, reply>>

DeliverEvent(r) ==
  LET event == Head(queues[r]) IN
  /\ consumer[r] = "open"
  /\ queues[r] # <<>>
  /\ queues' = [queues EXCEPT ![r] = Tail(@)]
  /\ received' = [received EXCEPT ![r] = Append(@, event)]
  /\ consumer' = [consumer EXCEPT ![r] = IF EndsStream(event) THEN "closing" ELSE "open"]
  /\ UNCHANGED <<store, subscribers, target, pc, newStatus, announced, joined, reply>>

(* The client goes away: the generator is cancelled or collected.          *)
ClientDisconnects(r) ==
  /\ consumer[r] = "open"
  /\ consumer' = [consumer EXCEPT ![r] = "closing"]
  /\ UNCHANGED <<store, subscribers, queues, target, pc, newStatus, announced,
                 joined, received, reply>>

(* The generator's finally clause; the queue goes with it.                 *)
CloseStream_KeepsQueue(r) ==
  /\ consumer[r] = "closing"
  /\ consumer' = [consumer EXCEPT ![r] = "closed"]
  /\ UNCHANGED <<store, subscribers, queues, target, pc, newStatus, announced,
                 joined, received, reply>>

CloseStream(r) ==
  /\ consumer[r] = "closing"
  /\ consumer' = [consumer EXCEPT ![r] = "closed"]
  /\ subscribers' = [subscribers EXCEPT ![target[r]] = @ \ {r}]
  /\ queues' = [queues EXCEPT ![r] = <<>>]
  /\ UNCHANGED <<store, target, pc, newStatus, announced, joined, received, reply>>

-----------------------------------------------------------------------------
(* tasks/pushNotification/set; for an unknown task it only reports an      *)
(* error.  The configuration itself is not kept apart.                     *)
SetPushNotification(t) ==
  /\ Exists(tasks, t)
  /\ pushInfos' = pushInfos \cup {t}
  /\ UNCHANGED <<tasks, sse, target, pc, newStatus, reply>>

-----------------------------------------------------------------------------
ClientCalls ==
  \E r \in Requests :
    \/ RejectRequest(r)
    \/ \E t \in TaskIds : OnSendTask(r, t) \/ OnSendTaskSubscribe(r, t)

SendStep(r) == WorkingPosted(r) \/ AgentResponds(r) \/ AgentRaises(r) \/ ResultPosted(r)

RunnerStep(r) == StreamItem(r) \/ UpdatePosted(r) \/ StreamRaises(r) \/ StreamExhausted(r)

ConsumerStep(r) == DeliverEvent(r) \/ CloseStream(r)

Next ==
  \/ ClientCalls
  \/ \E r \in Requests : SendStep(r) \/ RunnerStep(r) \/ ConsumerStep(r)
                         \/ ClientDisconnects(r)
  \/ \E t \in TaskIds : SetPushNotification(t)

Spec == Init /\ [][Next]_vars

(* The event loop runs every coroutine that can go on, POSTs time out      *)
(* after 10 s, and the agent is assumed to answer or raise.  Clients owe   *)
(* nothing.                                                                *)
Fairness ==
  \A r \in Requests : WF_vars(SendStep(r)) /\ WF_vars(RunnerStep(r)) /\ WF_vars(ConsumerStep(r))

FairSpec == Spec /\ Fairness

-----------------------------------------------------------------------------
(* Properties.                                                             *)

Subscribed(r) == consumer[r] # "none"
LogOf(r)      == announced[target[r]]

(* What has been announced for the task since r subscribed.                *)
SinceJoined(r) == SubSeq(LogOf(r), joined[r] + 1, Len(LogOf(r)))

(* The queues registered for a task are exactly those of its connected     *)
(* streams: none is lost while its generator waits, none is left behind by *)
(* setup_sse_consumer and the generator's finally clause.                  *)
SubscribersExact ==
  \A r \in Requests, t \in TaskIds :
    r \in subscribers[t] <=> (Connected(r) /\ target[r] = t)

(* Whatever other requests do to the task, a connected stream has handed   *)
(* over or still holds every event enqueued for the task since it          *)
(* subscribed, once and in the order of enqueueing.                        *)
DeliveredInOrder ==
  \A r \in Requests : Connected(r) => received[r] \o queues[r] = SinceJoined(r)

(* Each request that subscribed finds on its own stream the statuses of    *)
(* its own run, numbered 1, 2, ... without a gap: the consumer is set up   *)
(* before create_task, and the POST in between announces nothing twice.    *)
Numbered(events, r, built) ==
  LET own == {i \in DOMAIN events : events[i].type = "status" /\ events[i].run = r} IN
  /\ \A i \in own : events[i].status.n \in 1..built
  /\ \A n \in 1..built : \E i \in own : events[i].status.n = n
  /\ \A i, j \in own : i < j => events[i].status.n < events[j].status.n

Built(r) == IF pc[r] = "post_update" THEN newStatus[r].n - 1 ELSE newStatus[r].n

OwnUpdatesComplete ==
  \A r \in Requests : Connected(r) => Numbered(received[r] \o queues[r], r, Built(r))

(* No client is told of anything that tasks/get would not show it: the     *)
(* artifact of an artifact event and the message of a status event are in  *)
(* the store as soon as the event is enqueued.                             *)
AnnouncedIsStored ==
  \A t \in TaskIds : \A i \in DOMAIN announced[t] :
    LET e == announced[t][i] IN
    /\ e.type = "artifact" =>
         \E k \in DOMAIN tasks[t].artifacts : tasks[t].artifacts[k] = e.run
    /\ (e.type = "status" /\ e.status.message) =>
         \E k \in DOMAIN tasks[t].history : tasks[t].history[k] = AgentMessage(e.status)

(* Every accepted request has put its user message into the history of its *)
(* task exactly once, ahead of whatever the agent said in answer to it,    *)
(* even when requests for the same task interleave.                        *)
QuestionBeforeAnswers ==
  \A r \in Requests : target[r] # NoId =>
    LET history == tasks[target[r]].history IN
    \E i \in DOMAIN history :
      /\ history[i] = UserMessage(r)
      /\ \A k \in DOMAIN history : (k # i /\ history[k].run = r) =>
           k > i /\ history[k].role = "agent"

(* Nothing a client was ever shown leaves a task: no step of any request   *)
(* shortens or rewrites a history or the artifacts.                        *)
IsPrefixOf(s, u) == Len(s) <= Len(u) /\ \A i \in 1..Len(s) : s[i] = u[i]

TasksOnlyGrow ==
  [][\A t \in TaskIds : /\ IsPrefixOf(tasks[t].history, tasks'[t].history)
                        /\ IsPrefixOf(tasks[t].artifacts, tasks'[t].artifacts)]_vars

(* A stream whose runner has left its loop is not left waiting: the event  *)
(* that ends it is in its queue.  ("exhausted" is the one way out of the   *)
(* loop that enqueues nothing.)                                            *)
NoOrphanWaiter ==
  \A r \in Requests : (pc[r] = "done" /\ consumer[r] = "open") =>
    \E i \in DOMAIN queues[r] : EndsStream(queues[r][i])

(* A task none of whose requests is in progress is not left in SUBMITTED   *)
(* or WORKING (update_store, whoever calls it last).                       *)
Quiet(t) == Exists(tasks, t) /\ \A r \in Requests : target[r] = t => ~Running(r)

Settled(t) == tasks[t].status.state \notin {"submitted", "working"}

QuietTaskSettled == \A t \in TaskIds : Quiet(t) => Settled(t)

(* The same for a task none of whose runs has failed (an error reply, an   *)
(* InternalError for the streams, an agent that stopped without a last     *)
(* item): no interleaving of runs that all finish leaves it WORKING, for   *)
(* the last status written is always a final one.                          *)
Failed(r) ==
  \/ reply[r].type = "error"
  \/ pc[r] = "exhausted"
  \/ \E i \in DOMAIN LogOf(r) : LogOf(r)[i] = ErrorEvent(r)

SettledUnlessFailed ==
  \A t \in TaskIds :
    (Quiet(t) /\ \A r \in Requests : target[r] = t => ~Failed(r)) => Settled(t)

(* A stream is ended by its own run: what ends it is the last status or    *)
(* the error of the request that opened it.                                *)
StreamEndsWithOwnRun ==
  \A r \in Requests : \A i \in DOMAIN received[r] :
    EndsStream(received[r][i]) => received[r][i].run = r

(* The reply to tasks/send shows the status this request built last, not   *)
(* one of another request: the reply is the live Task object, serialised   *)
(* after a POST during which others could run.                             *)
ReplyIsOwnResult ==
  \A r \in Requests : reply[r].type = "task" => reply[r].status = newStatus[r]

(* When the event that ends a stream is handed over, tasks/get (which the  *)
(* CLI host calls next) finds that very status in the store.               *)
FinalIsStored ==
  [][\A r \in Requests :
       LET e == received'[r][Len(received'[r])] IN
       (received'[r] # received[r] /\ e.final) => tasks'[target[r]].status = e.status]_vars

(* Every call comes to its end: tasks/send is answered, and the stream of  *)
(* tasks/sendSubscribe is closed and its queue released.                   *)
EveryCallEnds ==
  \A r \in Requests :
    /\ (target[r] # NoId /\ ~Subscribed(r)) ~> (reply[r].type # "none")
    /\ Subscribed(r) ~> (consumer[r] = "closed")

(* The SSE half implements the abstract EventTopic: subscribers and queues *)
(* behave as cursors into one log per task.                                *)
Topic == INSTANCE EventTopic WITH
           Readers <- Requests,
           Topics  <- TaskIds,
           NoTopic <- NoId,
           Ends    <- EndsStream,
           log     <- announced,
           topic   <- [r \in Requests |-> IF Subscribed(r) THEN target[r] ELSE NoId],
           from    <- joined,
           got     <- received,
           open    <- {r \in Requests : consumer[r] = "open"}

ImplementsTopic == Topic!TopicSpec

(* What makes the invariants above inductive: which coroutines a request   *)
(* may have, and that a subscription points into the log of its task.      *)
Lifecycle ==
  \A r \in Requests :
    /\ pc[r] \in {"idle", "post_working", "invoke", "post_result"} => consumer[r] = "none"
    /\ (Running(r) \/ Subscribed(r)) => target[r] \in TaskIds
    /\ pc[r] = "post_update" => newStatus[r].run = r
    /\ Subscribed(r) => joined[r] <= Len(LogOf(r))

(* Only a request that subscribed has been given an event.                 *)
FreshUntilSubscribed ==
  \A r \in Requests : ~Subscribed(r) => queues[r] = <<>> /\ received[r] = <<>>

(* The inductive invariant: with the two above, the type, the exact        *)
(* subscriptions, the delivery order and the waiters that will be ended.   *)
IInv ==
  /\ TypeOK
  /\ Lifecycle
  /\ FreshUntilSubscribed
  /\ SubscribersExact
  /\ DeliveredInOrder
  /\ NoOrphanWaiter

(* The same for the store.  A request that has not arrived has no target   *)
(* and no status; only the end of its coroutine answers a call; a status   *)
(* that waits for its POST was built by its run.                           *)
Progress ==
  \A r \in Requests :
    /\ pc[r] = "idle" => target[r] = NoId /\ newStatus[r] = NoStatus
    /\ reply[r].type # "none" => pc[r] = "done"
    /\ pc[r] = "post_update" => newStatus[r].n > 0

(* A history only holds messages of the requests about its task.           *)
HistoryOwned ==
  \A t \in TaskIds : \A k \in DOMAIN tasks[t].history :
    target[tasks[t].history[k].run] = t

(* The message of a status whose event waits for its POST is stored.       *)
PendingIsStored ==
  \A r \in Requests : (pc[r] = "post_update" /\ newStatus[r].message) =>
    \E k \in DOMAIN tasks[target[r]].history :
      tasks[target[r]].history[k] = AgentMessage(newStatus[r])

(* The status of a task was written by a request about it, which, as long  *)
(* as that status is not a settled one, has failed or will write another.  *)
WillWrite(r) ==
  \/ pc[r] \in {"post_working", "invoke", "stream"}
  \/ pc[r] = "post_update" /\ ~Final(newStatus[r])

StatusOwned ==
  \A t \in TaskIds : Exists(tasks, t) =>
    LET r == tasks[t].status.run IN
    target[r] = t /\ (Settled(t) \/ Failed(r) \/ WillWrite(r))

StoreInv ==
  /\ Progress
  /\ HistoryOwned
  /\ QuestionBeforeAnswers
  /\ PendingIsStored
  /\ AnnouncedIsStored
  /\ OwnUpdatesComplete
  /\ StatusOwned
=============================================================================
