------------------------------ MODULE TaskStore ------------------------------
(***************************************************************************)
(* The data InMemoryTaskManager keeps (samples/common/server/              *)
(* task_manager.py) and what its methods do to that data.  Both            *)
(* asyncio.Locks of the class guard bodies that contain no suspension      *)
(* point (an unbounded Queue.put never suspends), so every method below is *)
(* one indivisible change and is written as an operator on the data.       *)
(***************************************************************************)
EXTENDS Naturals, Sequences

CONSTANTS
  Requests,   (* the tasks/send and tasks/sendSubscribe calls of clients   *)
  Nobody      (* stands where no request is meant                          *)

ASSUME NobodyAssumption == Nobody \notin Requests

-----------------------------------------------------------------------------
(* A message is identified by its role, the request it belongs to and, for *)
(* the agent's, the number of the status that carried it.                  *)
Messages == [role : {"user", "agent"}, run : Requests, n : Nat]

UserMessage(r) == [role |-> "user", run |-> r, n |-> 0]

(* A TaskStatus is a fresh object per update (timestamp, text): run and n  *)
(* identify it as the n-th status request run has built.                   *)
TaskStates == {"submitted", "working", "input-required", "completed"}

Statuses == [state : TaskStates, run : Requests, n : Nat, message : BOOLEAN]

TaskStatus(state, r, n, message) ==
  [state |-> state, run |-> r, n |-> n, message |-> message]

NoStatus == [state |-> "absent", run |-> Nobody, n |-> 0, message |-> FALSE]

(* An artifact is identified by the request whose run produced it.         *)
Tasks == [status : Statuses, history : Seq(Messages), artifacts : Seq(Requests)]

(* The value of tasks[t] for a task id that is not a key of the dict.      *)
NoTask == [status |-> NoStatus, history |-> <<>>, artifacts |-> <<>>]

Exists(store, t) == store[t] # NoTask

-----------------------------------------------------------------------------
(* upsert_task: create the task as SUBMITTED, or append to its history.    *)
(* The status and the artifacts of an existing task stay as they are.      *)
NewTask(r) == [status    |-> TaskStatus("submitted", r, 0, FALSE),
               history   |-> <<UserMessage(r)>>,
               artifacts |-> <<>>]

UpsertTask_Overwrites(store, t, r) == [store EXCEPT ![t] = NewTask(r)]

UpsertTask_DropsMessage(store, t, r) ==
  IF Exists(store, t) THEN store ELSE [store EXCEPT ![t] = NewTask(r)]

UpsertTask(store, t, r) ==
  IF Exists(store, t)
  THEN [store EXCEPT ![t].history = Append(@, UserMessage(r))]
  ELSE [store EXCEPT ![t] = NewTask(r)]

(* update_store: the new status replaces the old one, its message (if any) *)
(* joins the history, the artifacts accumulate.                            *)
AgentMessage(st) == [role |-> "agent", run |-> st.run, n |-> st.n]

StatusMessages(st) == IF st.message THEN <<AgentMessage(st)>> ELSE <<>>

UpdateStore_LosesMessage(store, t, st, artifacts) ==
  [store EXCEPT ![t] = [status    |-> st,
                        history   |-> @.history,
                        artifacts |-> @.artifacts \o artifacts]]

UpdateStore_AppendsList(store, t, st, artifacts) ==
  [store EXCEPT ![t] = [status    |-> st,
                        history   |-> @.history \o StatusMessages(st),
                        artifacts |-> Append(@.artifacts, artifacts)]]

UpdateStore_NeedsMessage(store, t, st, artifacts) ==
  [store EXCEPT ![t] = [status    |-> IF st.message THEN st ELSE @.status,
                        history   |-> @.history \o StatusMessages(st),
                        artifacts |-> @.artifacts \o artifacts]]

UpdateStore(store, t, st, artifacts) ==
  [store EXCEPT ![t] = [status    |-> st,
                        history   |-> @.history \o StatusMessages(st),
                        artifacts |-> @.artifacts \o artifacts]]

-----------------------------------------------------------------------------
(* What an SSE queue carries: TaskStatusUpdateEvent, TaskArtifactUpdate-   *)
(* Event, and the JSONRPCError that reports a failed run.                  *)
Events == [type : {"status", "artifact", "error"}, status : Statuses \cup {NoStatus},
           run : Requests, final : BOOLEAN]

StatusEvent(st, final) ==
  [type |-> "status", status |-> st, run |-> st.run, final |-> final]

ArtifactEvent(r) ==
  [type |-> "artifact", status |-> NoStatus, run |-> r, final |-> FALSE]

ErrorEvent(r) ==
  [type |-> "error", status |-> NoStatus, run |-> r, final |-> FALSE]

(* The two tests on which dequeue_events_for_sse leaves its loop.          *)
EndsStream_NotOnError(event) == event.type = "status" /\ event.final

EndsStream(event) ==
  \/ event.type = "error"
  \/ event.type = "status" /\ event.final

(* enqueue_events_for_sse: every current subscriber of the task gets them. *)
(* events: what one coroutine enqueues without a suspension in between.    *)
EnqueueEvents_FirstOnly(queues, subscribed, events) ==
  LET first == CHOOSE r \in Requests : r \in subscribed
  IN  [r \in Requests |-> IF r \in subscribed /\ r = first THEN queues[r] \o events
                                                           ELSE queues[r]]

EnqueueEvents_OneQueue(queues, subscribed, events) ==
  [r \in Requests |-> queues[r] \o events]

EnqueueEvents_Lifo(queues, subscribed, events) ==
  [r \in Requests |-> IF r \in subscribed THEN events \o queues[r] ELSE queues[r]]

EnqueueEvents(queues, subscribed, events) ==
  [r \in Requests |-> IF r \in subscribed THEN queues[r] \o events ELSE queues[r]]
=============================================================================
