# Agent-Too-Agent: specification and proofs

TLA+ specifications of this repository: the task manager with its event
streams, the two hosts that call it, push notifications, the cache, and the
deployed JSON-RPC endpoint. TLC checks them on small instances. TLAPS proves every
invariant and action property those runs pass, and both refinements, for every
number of requests, tasks, hosts, threads, agents and notifications; liveness is
checked by TLC alone.

## 1. The system

The repository is a sample of the Agent2Agent (A2A) protocol in the middle of a
migration, and it holds two generations of code:

* the **deployed** generation, A2A 1.0: `HttpTrigger/` calls the travel agent
  `samples/agents/semantickernel/agent.py` with the schema of
  `samples/common/types.py`;
* the **task-based** generation, earlier A2A: the Starlette server, the task
  managers, the clients and the hosts under `samples/`. They import names
  (`TaskSendParams`, `SendTaskRequest`, ...) that the present `types.py` no
  longer has, so at this commit they cannot be imported. They carry all of the
  state and nearly all of the concurrency of the system; they are modelled as
  written, with the schema they were written for.

| Component | State it keeps | Operations | Interacts with | Hard parts |
|---|---|---|---|---|
| `InMemoryTaskManager` (`samples/common/server/task_manager.py`) | `tasks`, `push_notification_infos`, `task_sse_subscribers` with one `asyncio.Queue` per stream | `upsert_task`, `update_store`, `set_push_notification_info`, `setup_sse_consumer`, `enqueue_events_for_sse`, `dequeue_events_for_sse`; read-only: `on_get_task`, `on_cancel_task` (always refuses), `on_get_task_push_notification`, `on_resubscribe_to_task` (not implemented) | base class of the next one | interleaved coroutines, queues of clients that go away |
| Semantic Kernel `TaskManager` (`samples/agents/semantickernel/task_manager.py`) | none of its own | `on_send_task`, `on_send_task_subscribe`, `_run_streaming_agent`, `_process_agent_response`, `send_task_notification` | agent, push sender, SSE response | an agent that fails half way, several runs of one task, replies that are live objects |
| Travel agent (`agent.py`) | `thread`, always `None` | `send_message`, `stream` | language model | broken model output, notices at most once |
| `HttpTrigger/__init__.py` | none | `main` | travel agent | three nested `except` clauses |
| `InMemoryCache` (`samples/common/utils/in_memory_cache.py`) | the singleton, two dicts, two locks | construction, `set`, `get`, `delete`, `clear` | threads | double-checked locking, expiry |
| `A2AServer` (`samples/common/server/server.py`) | none | `_process_request`, `_handle_exception`, `_create_response` | task manager | error mapping |
| `A2AClient`, `A2ACardResolver` | the URL | one HTTP call per method | server | timeouts |
| CLI host (`samples/hosts/cli`) | one task id | the loop of `completeTask` | client, listener thread | stream, then `tasks/get`, then perhaps the same task again |
| Multi-agent host (`samples/hosts/multiagent`) | session state, connections | `send_task`, `register_agent_card`, `before_model_callback` | client | callbacks, a task id that is never stored |
| Push authentication and listener | keys | sign, send, verify | task manager, CLI host | freshness window, lost POSTs |
| Agent card, `tasks/send`, `tasks/sendSubscribe`, `__main__` | none | one request each | agent | none |

What makes each correct: the task manager must neither lose, double nor reorder
events and history entries however its coroutines interleave, must end what it
started, and its streams, replies and store must agree; the cache must be one
object on which operations are atomic; the endpoint must answer every request
once, as JSON-RPC and with its id (streams fail to, see section 4), and must
report the agent's outcome as it was. The CLI host
draws its conclusions from a second call, not from the stream it has watched: it
must conclude from the run it asked for, and must not start a second run of a
task beside a first. The multi-agent host keeps one agent and one flag for all
delegations of a conversation: they must point to the agent that waits for the
user. A push notification must be taken once if it comes in time, and lateness
and restarts must not confuse the listener.

`PROJECT.json` lists every component with its status, and every hazard with its
line and the properties that watch it.

## 2. Modules

| Module | Models |
|---|---|
| `TaskStore` | the data of `InMemoryTaskManager` and its methods, as operators on that data |
| `TaskManager` | the state machine of the two task managers |
| `EventTopic` | abstract: one log per task, one cursor per stream |
| `InMemoryCache` | the cache, one access to a shared attribute per step |
| `Cache` | abstract: a map with expiry and indivisible operations |
| `CliHost` | the CLI host and its client, composed with `TaskManager` (which it extends) |
| `HostAgent` | the multi-agent host with its remote connections |
| `PushNotifications` | sender, network and listener of push notifications |
| `HttpTrigger` | the endpoint and the agent behind it |
| `TaskManagerProofs`, `StoreProofs` | theorems about `TaskManager`: its streams, its store |
| `CliHostProofs`, `HostAgentProofs`, `PushNotificationsProofs`, `CacheProofs`, `HttpTriggerProofs` | theorems about the module each is named for |
| `MCTaskManager`, `MCCliHost`, `MCHostAgent`, `MCPushNotifications`, `MCInMemoryCache`, `MCHttpTrigger` | instances for TLC |

The names ending in `_Something` (`UpdateStore_LosesMessage`, ...) are mutated
definitions: each is a bug the code might have had, and shows that a property
would have caught it. No specification uses them.

### TaskManager

All handlers run on one asyncio event loop, so an action is what one coroutine
does between two **suspension points**. These are the POST of a push
notification, the agent (`invoke`, and each item of `stream`), `get` on an empty
queue, and the hand-over of an event to the SSE response. The two
`asyncio.Lock`s guard bodies in which nothing suspends (`put` on an unbounded
queue does not), so they are never contended and need no variable.

A `tasks/send` request is one coroutine; a `tasks/sendSubscribe` request is two,
the runner that `create_task` starts and the generator that feeds the response.

| Variable | In the code |
|---|---|
| `tasks` | `self.tasks`; `NoTask` for an id that is no key |
| `pushInfos` | the keys of `self.push_notification_infos` |
| `subscribers`, `queues` | `self.task_sse_subscribers` and its queues, one per subscribing request |
| `target`, `pc`, `newStatus` | `request.params.id`, where the agent's coroutine is suspended, its local `new_status` |
| `consumer` | where the generator is: `open` at its `get`, `closing` before its `finally`, `closed` after it |
| `announced`, `joined`, `received`, `reply` | history only: events enqueued, subscription point, events handed over, reply |

| Action | Code |
|---|---|
| `RejectRequest` | `_validate_request` refuses the output modes |
| `OnSendTask` | `on_send_task` up to its first suspension: upsert, WORKING, notification |
| `WorkingPosted` | the POST of WORKING came back (or failed, or timed out), `invoke` is next |
| `AgentResponds`, `ResultPosted`, `AgentRaises` | `_process_agent_response`, its end after a POST, the `except` of `on_send_task` |
| `OnSendTaskSubscribe` | upsert, `setup_sse_consumer`, `create_task`, the generator |
| `StreamItem`, `UpdatePosted` | one turn of the runner's loop, cut at the POST when there is one |
| `StreamRaises`, `StreamExhausted` | the runner's `except`; its loop running out of items |
| `DeliverEvent`, `CloseStream` | one `get` and `yield` of `dequeue_events_for_sse`; its `finally` |
| `ClientDisconnects` | the response is cancelled |
| `SetPushNotification` | `tasks/pushNotification/set` |

Abstractions. A message is its role, its request and a number; a status is its
state, its request, a number and whether it carries a message; an artifact is
the request that made it. Validation is a free choice. The client chooses task
ids; two requests may name one task. The value of a push configuration does not
matter, only that there is one. The generator of an SSE response starts before a
disconnect can cancel it. The agent's interface is the one the task manager was
written for (dicts with `require_user_input`, `is_task_complete`, `content`).

### CliHost

The hosts are processes beside the server: a step is a step of one host or one of
`TaskManager`, whose actions are used as they are.

| Action | Code |
|---|---|
| `Send`, `Quit` | `cli` and `completeTask` up to the call; the task of the turn is the paused one or a new uuid |
| `StreamOver` | the `async for` over the stream ends; nothing but the end of the response ends it |
| `GetTask` | `client.get_task` and the decision, `Conclude` |
| `SendReturns` | `client.send_task` returns a task, then `Conclude` |
| `HostDies`, `SendFails` | the exceptions of `_send_request`, which nothing catches; a killed host |

`at` is where the host's coroutine is, `taskId` its local of that name, `call`
its last request; `result` is history. A call and its arrival at the server are
one step, since nobody else knows the task. New requests and new uuids differ in
name only, so `CHOOSE` takes one. The text and the file of a message are not told
apart, and the host's session id, which no handler reads, is left out.

### HostAgent

One session of the Agent Development Kit. Its code is not here, so it is
external, as are the model and the remote agents: it computes the instruction,
calls `before_model_callback` and the model, runs the tool calls of one answer in
turn, and calls the model again unless `skip_summarization` is set once their
actions are merged. Two things it may do in either way: whether state written
before a tool raised survives (`Raise`), and whether the flag of one call
outlives a later call of the same answer that leaves it unset (`sticky`, chosen
once, in `Merged`; every call has an actions object of its own).

| Action | Code |
|---|---|
| `ModelCalled` | `root_instruction` with `check_state`, then `before_model_callback` |
| `ListRemoteAgents`, `ModelDelegates`, `ModelAnswers` | the answers the model may give |
| `UnknownAgent`, `Delegate` | `send_task` up to the request |
| `StatusEvent`, `OtherEvent`, `StreamOver`, `Response` | the loop and the ends of `RemoteAgentConnections.send_task`, then `Finish` |
| `CallFails` | the client raises |
| `RegisterAgentCard` | `register_agent_card`, at any time |

`session` holds the keys `session_id`, `session_active` and `agent` of the
state. The task callback, when there is one, returns the task with the newest
status it was given, as its type promises. `shown`, `before`, `outcome` and `waiting` (the
agents that `send_task` has reported to wait for input in this turn) are history. Message ids and metadata are left out.

### PushNotifications

Each run of the agent awaits its POSTs one after the other. The network may
lose a notification or its answer and may hold it back, also beyond the sender's
timeout. A restart makes a new signing key and leaves old notifications under
way. `keys` is what the listener's `PyJWKClient` (external) has cached: it fetches
again when a key is missing, and may fetch when it is not, because its cache
expires; a fetch is taken to succeed. The digest of the body is left out (the
network does not alter a notification).

| Action | Code |
|---|---|
| `Notify` | `send_push_notification` up to its answer |
| `GiveUp` | the POST times out or fails: logged, never retried |
| `Restart`, `GenerateJwk` | the process starts anew with `main`; `generate_jwk` |
| `Deliver` | `handle_notification` with `verify_push_notification`; the answer may be lost |
| `Lose`, `Tick` | the network, the clock |

### InMemoryCache

Threads may be preempted anywhere. The unlocked tests of `_instance` and
`_initialized` are steps of their own; so are the writes to `_cache_data` and to
`_ttl` inside an operation, so that a missing lock would be seen. The three
assignments of `__init__` that come before the flag are one step: until the flag
is set no other thread gets past the lock. Reading the clock and using the value
read are one step. `contents` and `result` are history: what the map was when
the last operation returned, and what it returned.

### HttpTrigger

Requests share the agent object, but nothing in it changes; they meet in no
state. What is modelled is control: which of the three `except` clauses catches
what, which chunk produces an event, and which final state a model answer leads
to. A reply (`Reply`) is its kind, HTTP status, JSON-RPC code, id and the events
in its body.

## 3. Runs

| Run | Instance | Shows |
|---|---|---|
| `overlap` | 2 requests, 2 tasks, up to 2 items per stream, agent may raise or stop early, overlapping | exact subscriptions, ordered delivery, own updates complete, announced is stored, questions before answers, only growing tasks, no orphan waiter, no task left unsettled but by a run that failed; both inductive invariants; the refinement of `EventTopic` |
| `live` | 2 requests, 1 task, 1 item, agent may raise, overlapping | every call ends, whichever run ends its stream |
| `fault` | 2 requests, 1 task, 2 items, agent may raise | *violated*: a task whose agent raised is working for ever |
| `shared` | as `fault`, no agent faults | *violated*: the final status of one run ends the stream of another |
| `cli` | 2 hosts, 3 requests, 2 tasks, up to 2 items, agent may raise | a stream ends with its own run, a reply shows its own result, the final event is stored when it is handed over, one run per task at a time, conclusions are drawn from the own run (or, if it failed early, from the status its turn began with), turns alternate, paused tasks are kept, every call brings the host back |
| `host` | 2 agents, 2 answers per turn, 2 tool calls per answer | what `send_task` returns is what the remote said last; a pause, of any call of the answer, hands the turn to the user, except where the ADK drops the flag; the agent of the last delegation, if it paused, is current until the next one |
| `host_streamed` | 1 agent | *violated*: a streaming delegation without a callback brings back nothing |
| `push` | 2 runs, 2 notifications each, 1 restart, timeout 1, freshness 2 | what overtakes was preceded by a timeout, nothing is taken twice, nothing good is refused, no POST waits for ever |
| `cache` | 2 threads, 2 keys, 2 values, ttl 0 and 1, 3 instants | singleton, safe lazy initialisation, atomic operations (refinement of `Cache`) |
| `http` | 2 requests, every body, method, params and answer | a stream tells one story; exactly two sorts of request (a body that is no object, a stream) are not answered in JSON-RPC with their id; every request is answered |
| `http_pause` | 1 request | *violated*: `input_required` is reported as working or completed |
| `http_body` | 1 request | *violated*: not every reply is JSON-RPC with the id of its request; a body that is no object crashes the error path |

`cli` is the serial use of the task manager: in `overlap` the properties about a
stream's own run would not hold, as `shared` shows, and in `cli` they do, although
the two hosts overlap and the follow-up of a turn may start while the coroutine
of the turn before is still in a push POST.

Why the bounds are enough. Coroutines meet only through one task's entry in the
store and its subscribers; two requests give every pair (send and send, send and
stream, stream and stream), a second task gives a place where events must not
go. Two items per stream give an update that is not final before the one that
is. Requests are never reused, so a finished one stays as a third party's past.
For safety the proofs remove the bounds on the number of requests, tasks,
hosts, threads and agents altogether. For the cache two threads
give every race of the double-checked locking, and three instants with ttl 0 and
1 give an entry before, at and after its expiry. Three requests of two hosts give
a turn, its follow-up and a stranger, or three turns of one host. Two agents and
two calls per answer give a delegation to another agent between a pause and the
next instruction. For `push`, the properties compare two notifications of one run
and a restart between them; a timeout below the freshness window is all that
matters of the two durations. `HttpTrigger` shares no state between requests; two of them show that this is so.

Each passing run but `live` also checks the inductive invariants the proofs use
(`IInv` and `StoreInv`, `CliInv`, `HostInv`, `PInv`, `CInv`, `HInv`). All but
`StoreInv` and `CliInv` contain the type invariant of their module, so that it is
not listed a second time.

Symmetry is used where no liveness is checked; model values are only compared
for equality. `CHECK_DEADLOCK FALSE` appears where the number of requests is
finite: the server is idle once they have ended. The cache never stops and is
checked for deadlock, which covers both of its locks.

**Fairness.** `FairSpec` of `TaskManager` asks weak fairness of each coroutine
(`SendStep`, `RunnerStep`, `ConsumerStep`): the event loop resumes whatever can
go on, and a POST ends after at most 10 s. It also means that the agent answers
or raises; the code sets no timeout of its own, so that is an assumption about
the model service. `FairSpec` of `HttpTrigger` says the same of a request's
model call. `FairCliSpec` adds that a host goes on once its call is answered, which is
its own event loop; its user owes nothing, nor does it owe to die, except that a
`tasks/send` answered with an error does end it. `FairSpec` of `PushNotifications`
says that time passes and that a POST whose time is up is given up (`httpx` does
that); the network owes nothing. Clients, disconnects and new requests are under
no obligation, and an agent whose stream ends without a last item is left out of
the liveness runs: with it a stream really does wait for ever, as `NoOrphanWaiter` spells out.

## 4. Where code and documents disagree

1. A task whose agent raised stays `working` (or `submitted`): the error goes to
   the stream or the reply, never to the store. The A2A text kept in
   `copilot-context/Agent2AgentSpec` (lines 424, 428) wants `failed`.
2. Events are addressed by task, not by request, so the `final` of one run ends
   every stream of the task, also of runs still going on (line 761 of that text;
   the comment at `task_manager.py:137`).
3. `agent.py` reports an answer that asks for input as `working` in a stream and
   as `completed` otherwise (line 425).
4. `RemoteAgentConnections.send_task` returns only what the callback returned.
   The callback is optional (`host_agent.py:35`) and `agent.py` gives none, so
   every streaming delegation ends in an `AttributeError` at line 187.
5. Not every reply of `HttpTrigger` is a JSON-RPC response, or a stream of them,
   with the id of the request (lines 665 and 731). The outer `except` raises again
   when the body is JSON but no object: this is the trace TLC shows. And the events
   of a stream are what the agent yielded, without envelope or id
   (`HttpTrigger/__init__.py:53`). `JsonRpcUnlessStreamed` says, and
   `HttpTriggerProofs` proves, that all other requests get one.

Seen while reading, without a run: the model call that summarises a completed
delegation sets `session_active` again and `agent` is never cleared, so the
instruction of the next turn names the finished agent as the current one
(`host_agent.py:95`); `HttpTrigger` answers `-32602 Invalid params`
for every failure of `SendMessage`, the model's included (line 886); the agent's `thread` is never assigned, so
there is no conversational memory; `state['task_id']` of the multi-agent host is
never written, so a follow-up starts a new task; if the ADK lets a later call of an
answer unset `skip_summarization`, an agent that asked for input in an earlier call
of it is not heard by the user (the exception in `PauseReturnsToUser`), and its
session has room for one agent, so that the next delegation makes it forget the one
that waits; the CLI host prints "task is complete" also after a run that failed, or
takes the `input-required` of the turn before for a new question (`VerdictIsOwn`
says what it may see then, which is never the result of another run), and puts `pushNotification` into the parameters of the task, which no task manager
stores; `_handle_exception` answers with id `None` (line 630 wants the id of the
request); `tasks/send` calls a method the agent does not have.

## 5. Proofs

The proofs assume only the named assumptions of the modules: `Nobody` is no
request, `NoId` is no task id, `MaxItems` is a positive natural number, and the
like. Nothing is finite. Every specification is proved without its fairness
(`Spec`, `CliSpec`), which a safety property does not need.

Each component has one **inductive invariant**, the conjunction of its type, of
the properties that matter and of what these lack to be inductive. A theorem says
that it holds of the specification, and each property has a theorem that derives
it. The proof that a step preserves the invariant goes action by action, and under
each action over the conjuncts it can disturb.

| Module | Invariant | Theorems |
|---|---|---|
| `TaskManagerProofs` | `IInv`: `Inductive` | `TypeCorrect`, `NoLeakedQueue` (`SubscribersExact`), `DeliveryCorrect` (`DeliveredInOrder`), `WaitersAreEnded` (`NoOrphanWaiter`), `QueuesImplementTopic` (`ImplementsTopic`) |
| `StoreProofs` | `StoreInv`: `StoreInductive` | `QuestionsComeFirst` (`QuestionBeforeAnswers`), `NothingUnstoredAnnounced` (`AnnouncedIsStored`), `NoUpdateLost` (`OwnUpdatesComplete`), `QuietTasksSettle` (`SettledUnlessFailed`), `StoreOnlyGrows` (`TasksOnlyGrow`), `FaultlessTasksSettle` (`QuietTaskSettled`, without agent faults) |
| `CliHostProofs` | `CliInv`: `CliInductive` | `HostsUseTheServer` (`CliSpec => Spec`), `CliTypeCorrect`, `OneRunAtATime` (`OneRunPerTask`), `VerdictsAreOwn` (`VerdictIsOwn`), `ConversationsAlternate` (`TurnsAlternate`), `NoPausedTaskForgotten` (`PausedTaskIsKept`), `StreamsEndWithOwnRun` (`StreamEndsWithOwnRun`), `RepliesAreOwn` (`ReplyIsOwnResult`), `FinalsAreStored` (`FinalIsStored`) |
| `HostAgentProofs` | `HostInv`: `HostInductive` | `HostTypeCorrect`, `PausesReachTheUser` (`PauseReturnsToUser`), `PausedAgentStays` (`PausedAgentIsCurrent`), `RemotesResultReturned` (`ResultIsTheRemotes`) |
| `PushNotificationsProofs` | `PInv`: `PushInductive` | `PushTypeCorrect`, `NoDuplicate` (`AtMostOnce`), `OvertakingIsExplained` (`OvertakenWasAbandoned`), `GoodOnesAreNotRefused` (`GoodOnesAreTaken`) |
| `CacheProofs` | `CInv`: `CacheInductive` | `CacheTypeCorrect`, `OneCache` (`Singleton`), `NoHalfMadeCache` (`ReadyIsInitialized`), `NoOrphanExpiry` (`ExpiryHasValue`), `CacheRefines` (`ImplementsCache`) |
| `HttpTriggerProofs` | `HInv`: `TriggerInductive` | `TriggerTypeCorrect`, `OneStoryTold` (`StreamTellsOneStory`), `WhoGetsJsonRpc` (`JsonRpcUnlessStreamed`) |

**Streams (`IInv`).** `DeliveredInOrder` is not inductive. When a request
subscribes, its queue and what it has received must be empty
(`FreshUntilSubscribed`); when an event is enqueued, the queues that get it must
be exactly those of the connected streams of that task (`SubscribersExact`); the
subscription point must lie inside the log (`Lifecycle`). `SubscribersExact` in
turn needs `Lifecycle`: only a request that has no stream yet may subscribe, and
a connected one has a task. `NoOrphanWaiter` needs that a runner that leaves its
loop has just enqueued an ending event for its own queue, which is
`SubscribersExact` again, and that delivery takes an ending event only while it
closes the stream. For the refinement, `StreamItem`, `UpdatePosted` and
`StreamRaises` are `Publish` (or a stutter when a `StreamItem` enqueues nothing),
`OnSendTaskSubscribe` is `Subscribe`, `DeliverEvent` is `Read`, because
`DeliveredInOrder` makes the head of the queue the next entry of the log,
`ClientDisconnects` is `Leave`, and the remaining steps stutter.

**The store (`StoreInv`).** Every step only appends to a task, which is
`TasksOnlyGrow`; and what it appends is at most the user message of the request
that arrives or the agent message of the status just built.
`QuestionBeforeAnswers` needs that a history holds only messages of requests
about its task (`HistoryOwned`), so that a new request finds nothing of its own
there. `AnnouncedIsStored` needs the message of a status whose event still waits
for its POST to be stored (`PendingIsStored`), and growth for the rest.
`OwnUpdatesComplete` counts what a run has built (`Numbered`, `Built`): an event
of another run leaves the count, the own status carries it on by one, a POST in
between postpones it. It is stated by the positions of the own statuses, not by
`SelectSeq`, whose recursion the provers cannot unfold. `SettledUnlessFailed`
follows from `StatusOwned`: the status of a task was written by some request,
which has failed, or will write again, unless that status is a settled one.
`FaultlessTasksSettle` completes the violated run `fault`: if the agent neither
raises nor stops early no run fails (`NoneFails`), and no task is left working
(TLC agrees on the instance of `shared`).

**Hosts and server (`CliInv`).** The properties of `CliHost` are false of the task
manager alone, as `shared` shows; they hold because of how the hosts use it.
Hosts share neither calls nor tasks (`HostsDiffer`); the task a host holds is that
of its last call, and it concludes and prompts only when the run of that call is
over (`HostsWait`); every run and every stream is that of the call of some host
(`BusyIsHeld`), and so is every pause (`PausedIsHeld`). Hence whatever the server
does for a request it does alone (lemma `WorkIsAlone`): no other run writes its
task and no other queue listens to it. So the status of a held task is what its
own run built last, or the one the turn began with (`StatusIsOwn`), its last message the agent's or the one still
to be answered (`LastSaid`), its stream has events of its own run only, and an
event that ends it carries that run's last status (`OwnEvents`); a run that ends
without failure ends with a final status (`RunsEnd`). The steps are then of three
kinds: a request is served (or its client dies), a host moves between two calls,
or a host sends. `HostsUseTheServer` makes the theorems about `TaskManager` hold of
the composition, and its proof uses them.

**Multi-agent host (`HostInv`).** The local task of a delegation is absent or in the
state the remote reported last (`TaskIsRemotes`), so the flags `Finish` sets speak
of the remote; after a pause the session is active for the agent that paused
(`PausedIsActive`), which no other part of a turn may change before the model
speaks again. `waiting` remembers every pause of the turn, not only the last: where
flags are sticky the flag of such a call is still set when the next one runs, and
the turn ends with the batch (`WaitingIsSkipped`); where they are not, the model is
called again only after a last delegation that did not pause, which is the
exception `PauseReturnsToUser` states.

**Push notifications (`PInv`).** A notification under way is the only copy of its
number and has not been taken (`OnlyCopy`), and its sender waits for it or has
given it up (`AwaitedOrAbandoned`). So one that overtakes another finds that other
one abandoned, and nothing is taken twice.

**The cache (`CInv`).** `Locks` ties the two locks to the places where their holders
are; `OneObject` says who has the instance and that there was only one;
`FlagIsHonest` that the flag is set only once the attributes exist, also for a
thread that reads it without the lock; `StorageIsContents` and `InOperation` that
the two dicts are the abstract map except at the one key, or during the one
`clear`, that the thread holding the data lock is in the middle of. For the
refinement every operation is one step of `Cache`, taken when it returns.

**The endpoint (`HInv`).** Before a stream is answered its notices are distinct, and
each has set the flag that bars its repetition; a request that waits for the model
has been dispatched on its method, and nothing has been answered (`Collecting`).

**Only model-checked.** The liveness properties (`EveryCallEnds`, `HostReturns`,
`PostsEnd`, `EveryRequestAnswered`): they rest on fairness and `ENABLED`, which are
out of the prover's reach. The properties of the violated runs are false as they
stand; `QuietTaskSettled` and `StreamEndsWithOwnRun` are proved under the
conditions that make them true (no agent faults; requests made by the CLI hosts).

## 6. Plan

Everything that carries state is modelled, and every safety property of the passing
runs is proved. What could still be added:

1. An abstract specification of a conversation (a user and an agent that take
   turns, a result per turn) which `CliHost` with the task manager implements:
   `CliInv` has what the refinement needs, since a run that is over has its result
   in the store and a host concludes from that.
2. The safety facts on which the liveness properties rest: that a call which has not
   ended always has a step it can take, stated by the guards instead of `ENABLED`.
3. The condition under which a violated property holds, as it is stated for
   `RepliesAreJsonRpc` by `JsonRpcUnlessStreamed`: a streamed delegation with a
   callback (`StreamedTaskComesBack`).
4. Clients that share a task. `ReplyIsOwnResult` and `VerdictIsOwn` hold because the
   CLI hosts never do; for others one would first have to decide what a reply that is
   serialised after another run has written should show.

## 7. Not modelled

The kernel, its plugins, the model service and the ADK (external); the agent card
(a constant); start-up code; the two stateless `tasks/*` functions, which end in
their `except` clause for every valid request; `verify_push_notification_url` and
its handler, which nothing calls; `cancel_task` and the push configuration calls of
the client, which nothing calls; the read-only handlers of the task manager, except
`tasks/get` as the CLI host uses it; of `A2AServer`, the refusal of requests before
dispatch and the id of error responses (both hosts of the repository make one call
at a time over a connection of its own, so no interleaving of theirs can confuse
two answers). Memory is never reclaimed by the task manager, and the runner's task
may be collected by the garbage collector: nothing in the code speaks about either,
so no property does.
