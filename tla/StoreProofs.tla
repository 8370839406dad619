----------------------------- MODULE StoreProofs -----------------------------
(***************************************************************************)
(* Proofs about what TaskManager keeps in its store: histories and         *)
(* artifacts only grow, questions come before their answers, and what is   *)
(* announced is stored.                                                    *)
(***************************************************************************)
EXTENDS TaskManagerProofs

-----------------------------------------------------------------------------
(* What the operators on the store do to one task.                         *)

Appended(before, after, t, ms, as) ==
  /\ after[t].history = before[t].history \o ms
  /\ after[t].artifacts = before[t].artifacts \o as
  /\ \A u \in TaskIds : u # t => after[u] = before[u]

LEMMA TaskFields ==
  ASSUME NEW s \in Stores, NEW t \in TaskIds
  PROVE  /\ s[t].history \in Seq(Messages)
         /\ s[t].artifacts \in Seq(Requests)
         /\ s[t].status \in Statuses \cup {NoStatus}
<1>1. CASE s[t] \in Tasks
  BY <1>1 DEF Tasks
<1>2. CASE s[t] = NoTask
  BY <1>2 DEF NoTask
<1> QED
  BY <1>1, <1>2 DEF Stores

LEMMA UpsertTaskAppends ==
  ASSUME NEW s \in Stores, NEW t \in TaskIds, NEW r \in Requests
  PROVE  Appended(s, UpsertTask(s, t, r), t, <<UserMessage(r)>>, <<>>)
<1> DEFINE after == UpsertTask(s, t, r)
<1>1. /\ s[t].history \in Seq(Messages) /\ s[t].artifacts \in Seq(Requests)
      /\ UserMessage(r) \in Messages
  BY TaskFields, UserMessageTyped
<1>2. s[t].artifacts \o <<>> = s[t].artifacts
  BY <1>1, ConcatEmptySeq
<1>3. CASE Exists(s, t)
  <2>1. after = [s EXCEPT ![t].history = Append(@, UserMessage(r))]
    BY <1>3 DEF UpsertTask
  <2>2. s[t] \in Tasks
    BY <1>3 DEF Exists, Stores
  <2>3. after[t].history = Append(s[t].history, UserMessage(r))
        /\ after[t].artifacts = s[t].artifacts
    BY <2>1, <2>2 DEF Stores, Tasks
  <2>4. Append(s[t].history, UserMessage(r)) = s[t].history \o <<UserMessage(r)>>
    BY <1>1, AppendIsConcat
  <2>5. \A u \in TaskIds : u # t => after[u] = s[u]
    BY <2>1 DEF Stores
  <2> HIDE DEF after
  <2>6. Appended(s, after, t, <<UserMessage(r)>>, <<>>)
    BY <1>2, <2>3, <2>4, <2>5 DEF Appended
  <2> QED
    BY <2>6 DEF after
<1>4. CASE ~Exists(s, t)
  <2>1. after = [s EXCEPT ![t] = NewTask(r)]
    BY <1>4 DEF UpsertTask
  <2>2. s[t].history = <<>> /\ s[t].artifacts = <<>>
    BY <1>4 DEF Exists, NoTask
  <2>3. after[t].history = <<UserMessage(r)>> /\ after[t].artifacts = <<>>
    BY <2>1 DEF NewTask, Stores
  <2>4. <<>> \o <<UserMessage(r)>> = <<UserMessage(r)>>
    BY <1>1, ConcatEmptySeq
  <2>5. \A u \in TaskIds : u # t => after[u] = s[u]
    BY <2>1 DEF Stores
  <2> HIDE DEF after
  <2>6. Appended(s, after, t, <<UserMessage(r)>>, <<>>)
    BY <1>2, <2>2, <2>3, <2>4, <2>5 DEF Appended
  <2> QED
    BY <2>6 DEF after
<1> QED
  BY <1>3, <1>4

LEMMA UpdateStoreAppends ==
  ASSUME NEW s \in Stores, NEW t \in TaskIds, NEW st \in Statuses, NEW as \in Seq(Requests)
  PROVE  /\ Appended(s, UpdateStore(s, t, st, as), t, StatusMessages(st), as)
         /\ UpdateStore(s, t, st, as)[t].status = st
BY DEF UpdateStore, Appended, Stores

(* on_send_task: the new message joins the history, WORKING carries none.  *)
LEMMA SendAppends ==
  ASSUME NEW s \in Stores, NEW t \in TaskIds, NEW r \in Requests, NEW st \in Statuses,
         ~st.message
  PROVE  Appended(s, UpdateStore(UpsertTask(s, t, r), t, st, <<>>),
                  t, <<UserMessage(r)>>, <<>>)
<1> DEFINE middle == UpsertTask(s, t, r)
           after  == UpdateStore(middle, t, st, <<>>)
<1>1. middle \in Stores /\ <<>> \in Seq(Requests)
  BY UpsertTaskTyped
<1>2. Appended(s, middle, t, <<UserMessage(r)>>, <<>>)
  BY UpsertTaskAppends
<1> HIDE DEF middle
<1>3. Appended(middle, after, t, StatusMessages(st), <<>>)
  BY <1>1, UpdateStoreAppends
<1>4. StatusMessages(st) = <<>>
  BY DEF StatusMessages
<1>5. middle[t].history \in Seq(Messages) /\ middle[t].artifacts \in Seq(Requests)
  BY <1>1, TaskFields
<1>6. middle[t].history \o <<>> = middle[t].history
      /\ middle[t].artifacts \o <<>> = middle[t].artifacts
  BY <1>5, ConcatEmptySeq
<1> HIDE DEF after
<1>7. Appended(s, after, t, <<UserMessage(r)>>, <<>>)
  BY <1>2, <1>3, <1>4, <1>6 DEF Appended
<1> QED
  BY <1>7 DEF after, middle

LEMMA ConcatKeepsPrefix ==
  ASSUME NEW S, NEW s \in Seq(S), NEW u \in Seq(S)
  PROVE  IsPrefixOf(s, s \o u)
<1>1. Len(s) \in Nat /\ Len(u) \in Nat /\ Len(s \o u) = Len(s) + Len(u)
  BY LenProperties, ConcatProperties
<1>2. \A i \in 1..Len(s) : (s \o u)[i] = s[i]
  BY <1>1, ConcatProperties
<1> QED
  BY <1>1, <1>2 DEF IsPrefixOf

LEMMA PrefixReflexive ==
  ASSUME NEW S, NEW s \in Seq(S)
  PROVE  IsPrefixOf(s, s)
BY LenProperties DEF IsPrefixOf

-----------------------------------------------------------------------------
(* What the steps do to the store.                                         *)

Artifacts(r, st) == IF st.state = "completed" THEN <<ArtifactEvent(r)>> ELSE <<>>

LEMMA ArtifactsTyped ==
  ASSUME NEW r \in Requests, NEW st \in Statuses
  PROVE  Artifacts(r, st) \in Seq(Events)
<1>1. ArtifactEvent(r) \in Events
  BY DEF ArtifactEvent, Events
<1> QED
  BY <1>1 DEF Artifacts

(* One item of the agent's stream, with all that it changes.               *)
ItemStep(r, st, as, es) ==
  LET t == target[r] IN
  /\ st.run = r /\ st.n = newStatus[r].n + 1
  /\ tasks' = UpdateStore(tasks, t, st, as)
  /\ st.state = "completed" => as = <<r>>
  /\ newStatus' = [newStatus EXCEPT ![r] = st]
  /\ pc' = [pc EXCEPT ![r] = AfterNotify(t, "post_update", AfterStatus(st))]
  /\ es = AfterNotify(t, Artifacts(r, st), Artifacts(r, st) \o StatusEvents(st))
  /\ Broadcast(t, es)

LEMMA StreamItemStep ==
  ASSUME TypeOK, NEW r \in Requests, StreamItem(r)
  PROVE  \E st \in Statuses, as \in Seq(Requests), es \in Seq(Events) : ItemStep(r, st, as, es)
<1>1. PICK item \in [require_user_input : BOOLEAN, is_task_complete : BOOLEAN] :
        LET status == ItemStatus(r, item)
            artifact == IF status.state = "completed" THEN <<ArtifactEvent(r)>> ELSE <<>>
        IN  /\ tasks' = UpdateStore(tasks, target[r], status,
                                    IF status.state = "completed" THEN <<r>> ELSE <<>>)
            /\ newStatus' = [newStatus EXCEPT ![r] = status]
            /\ pc' = [pc EXCEPT ![r] = AfterNotify(target[r], "post_update", AfterStatus(status))]
            /\ Broadcast(target[r], AfterNotify(target[r], artifact, artifact \o StatusEvents(status)))
  BY DEF StreamItem
<1> DEFINE st == ItemStatus(r, item)
           as == IF st.state = "completed" THEN <<r>> ELSE <<>>
           es == AfterNotify(target[r], Artifacts(r, st), Artifacts(r, st) \o StatusEvents(st))
<1>2. st \in Statuses
  BY ItemStatusTyped
<1>3. st.run = r /\ st.n = newStatus[r].n + 1
  BY DEF ItemStatus, TaskStatus
<1> HIDE DEF st
<1>4. as \in Seq(Requests)
  OBVIOUS
<1>5. es \in Seq(Events)
  <2>1. Artifacts(r, st) \in Seq(Events) /\ StatusEvents(st) \in Seq(Events)
    BY <1>2, ArtifactsTyped, StatusEventsTyped
  <2>2. Artifacts(r, st) \o StatusEvents(st) \in Seq(Events)
    BY <2>1
  <2> QED
    BY <2>1, <2>2 DEF AfterNotify
<1>6. /\ tasks' = UpdateStore(tasks, target[r], st, as)
      /\ newStatus' = [newStatus EXCEPT ![r] = st]
      /\ pc' = [pc EXCEPT ![r] = AfterNotify(target[r], "post_update", AfterStatus(st))]
      /\ Broadcast(target[r], es)
  BY <1>1 DEF st, Artifacts
<1>7. st.state = "completed" => as = <<r>>
  OBVIOUS
<1> HIDE DEF as, es
<1>8. es = AfterNotify(target[r], Artifacts(r, st), Artifacts(r, st) \o StatusEvents(st))
  BY DEF es
<1> QED
  BY <1>2, <1>3, <1>4, <1>5, <1>6, <1>7, <1>8 DEF ItemStep

LEMMA RespondsStep ==
  ASSUME TypeOK, NEW r \in Requests, HasTarget(r), AgentResponds(r)
  PROVE  \E st \in Statuses, as \in Seq(Requests) :
           /\ st.run = r /\ Final(st)
           /\ tasks' = UpdateStore(tasks, target[r], st, as)
           /\ newStatus' = [newStatus EXCEPT ![r] = st]
<1>1. PICK require \in BOOLEAN :
        LET status == IF require THEN TaskStatus("input-required", r, 1, TRUE)
                                 ELSE TaskStatus("completed", r, 1, FALSE)
        IN  /\ newStatus' = [newStatus EXCEPT ![r] = status]
            /\ tasks' = UpdateStore(tasks, target[r], status, IF require THEN <<>> ELSE <<r>>)
  BY DEF AgentResponds
<1> DEFINE st == IF require THEN TaskStatus("input-required", r, 1, TRUE)
                            ELSE TaskStatus("completed", r, 1, FALSE)
           as == IF require THEN <<>> ELSE <<r>>
<1>2. st \in Statuses
  BY TaskStatusTyped DEF TaskStates
<1>3. st.run = r /\ Final(st)
  BY DEF TaskStatus, Final
<1>4. as \in Seq(Requests)
  OBVIOUS
<1>5. tasks' = UpdateStore(tasks, target[r], st, as) /\ newStatus' = [newStatus EXCEPT ![r] = st]
  BY <1>1
<1> HIDE DEF st, as
<1> QED
  BY <1>2, <1>3, <1>4, <1>5

(* A step leaves the store alone, lets a request arrive, or adds what a    *)
(* request with a target has made.                                         *)
StoreStep ==
  \/ UNCHANGED <<tasks, target>>
  \/ \E r \in Requests, t \in TaskIds :
       /\ target[r] = NoId /\ target'[r] = t
       /\ \A q \in Requests : q # r => target'[q] = target[q]
       /\ Appended(tasks, tasks', t, <<UserMessage(r)>>, <<>>)
  \/ \E r \in Requests, st \in Statuses, as \in Seq(Requests) :
       /\ UNCHANGED target /\ target[r] \in TaskIds /\ st.run = r
       /\ Appended(tasks, tasks', target[r], StatusMessages(st), as)

LEMMA NextStoreStep ==
  ASSUME TypeOK, Lifecycle, Progress, [Next]_vars
  PROVE  StoreStep
<1>0. tasks \in Stores
  BY DEF TypeOK, Stores
<1> USE DEF store, sse
<1>1. ASSUME NEW r \in Requests, RejectRequest(r)
      PROVE  StoreStep
  BY <1>1 DEF RejectRequest, StoreStep
<1>2. ASSUME NEW r \in Requests, NEW t \in TaskIds, OnSendTask(r, t)
      PROVE  StoreStep
  <2> DEFINE working == TaskStatus("working", r, 0, FALSE)
  <2>1. working \in Statuses /\ ~working.message
    BY TaskStatusTyped DEF TaskStates, TaskStatus
  <2>2. tasks' = UpdateStore(UpsertTask(tasks, t, r), t, working, <<>>)
    BY <1>2 DEF OnSendTask
  <2> HIDE DEF working
  <2>3. Appended(tasks, tasks', t, <<UserMessage(r)>>, <<>>)
    BY <1>0, <2>1, <2>2, SendAppends
  <2>4. /\ target[r] = NoId /\ target'[r] = t
        /\ \A q \in Requests : q # r => target'[q] = target[q]
    BY <1>2 DEF OnSendTask, Arrives, Progress, TypeOK
  <2> QED
    BY <2>3, <2>4 DEF StoreStep
<1>3. ASSUME NEW r \in Requests, NEW t \in TaskIds, OnSendTaskSubscribe(r, t)
      PROVE  StoreStep
  <2>1. tasks' = UpsertTask(tasks, t, r)
    BY <1>3 DEF OnSendTaskSubscribe
  <2>2. Appended(tasks, tasks', t, <<UserMessage(r)>>, <<>>)
    BY <1>0, <2>1, UpsertTaskAppends
  <2>3. /\ target[r] = NoId /\ target'[r] = t
        /\ \A q \in Requests : q # r => target'[q] = target[q]
    BY <1>3 DEF OnSendTaskSubscribe, Arrives, Progress, TypeOK
  <2> QED
    BY <2>2, <2>3 DEF StoreStep
<1>4. ASSUME NEW r \in Requests, WorkingPosted(r) \/ AgentRaises(r) \/ ResultPosted(r)
      PROVE  StoreStep
  BY <1>4 DEF WorkingPosted, AgentRaises, ResultPosted, StoreStep
<1>5. ASSUME NEW r \in Requests, AgentResponds(r)
      PROVE  StoreStep
  <2>1. HasTarget(r)
    BY <1>5, ActiveHasTarget DEF SendStep
  <2>2. PICK st \in Statuses, as \in Seq(Requests) :
          st.run = r /\ tasks' = UpdateStore(tasks, target[r], st, as)
    BY <1>5, <2>1, RespondsStep
  <2>3. Appended(tasks, tasks', target[r], StatusMessages(st), as)
    BY <1>0, <2>1, <2>2, UpdateStoreAppends DEF HasTarget
  <2>4. UNCHANGED target
    BY <1>5 DEF AgentResponds
  <2> QED
    BY <2>1, <2>2, <2>3, <2>4 DEF StoreStep, HasTarget
<1>6. ASSUME NEW r \in Requests, StreamItem(r)
      PROVE  StoreStep
  <2>1. HasTarget(r)
    BY <1>6, ActiveHasTarget DEF RunnerStep
  <2>2. PICK st \in Statuses, as \in Seq(Requests), es \in Seq(Events) : ItemStep(r, st, as, es)
    BY <1>6, StreamItemStep
  <2>3. st.run = r /\ tasks' = UpdateStore(tasks, target[r], st, as)
    BY <2>2 DEF ItemStep
  <2>4. Appended(tasks, tasks', target[r], StatusMessages(st), as)
    BY <1>0, <2>1, <2>3, UpdateStoreAppends DEF HasTarget
  <2>5. UNCHANGED target
    BY <1>6 DEF StreamItem
  <2> QED
    BY <2>1, <2>3, <2>4, <2>5 DEF StoreStep, HasTarget
<1>7. ASSUME NEW r \in Requests,
             \/ UpdatePosted(r) \/ StreamRaises(r) \/ StreamExhausted(r)
             \/ ConsumerStep(r) \/ ClientDisconnects(r)
      PROVE  StoreStep
  BY <1>7 DEF UpdatePosted, StreamRaises, StreamExhausted, ConsumerStep, DeliverEvent,
              CloseStream, ClientDisconnects, StoreStep
<1>8. ASSUME NEW t \in TaskIds, SetPushNotification(t)
      PROVE  StoreStep
  BY <1>8 DEF SetPushNotification, StoreStep
<1>9. CASE UNCHANGED vars
  BY <1>9 DEF vars, StoreStep
<1> QED
  BY <1>1, <1>2, <1>3, <1>4, <1>5, <1>6, <1>7, <1>8, <1>9
  DEF Next, ClientCalls, SendStep, RunnerStep

-----------------------------------------------------------------------------
(* Growth.                                                                 *)

LEMMA StoreGrows ==
  ASSUME TypeOK, StoreStep, NEW u \in TaskIds
  PROVE  /\ IsPrefixOf(tasks[u].history, tasks'[u].history)
         /\ IsPrefixOf(tasks[u].artifacts, tasks'[u].artifacts)
<1>0. tasks[u].history \in Seq(Messages) /\ tasks[u].artifacts \in Seq(Requests)
  BY TaskFields DEF TypeOK, Stores
<1>1. /\ IsPrefixOf(tasks[u].history, tasks[u].history)
      /\ IsPrefixOf(tasks[u].artifacts, tasks[u].artifacts)
  BY <1>0, PrefixReflexive
<1>2. ASSUME NEW t \in TaskIds, NEW ms \in Seq(Messages), NEW as \in Seq(Requests),
             Appended(tasks, tasks', t, ms, as)
      PROVE  /\ IsPrefixOf(tasks[u].history, tasks'[u].history)
             /\ IsPrefixOf(tasks[u].artifacts, tasks'[u].artifacts)
  <2>1. /\ IsPrefixOf(tasks[u].history, tasks[u].history \o ms)
        /\ IsPrefixOf(tasks[u].artifacts, tasks[u].artifacts \o as)
    BY <1>0, ConcatKeepsPrefix
  <2> QED
    BY <1>1, <1>2, <2>1 DEF Appended
<1>3. ASSUME NEW r \in Requests
      PROVE  <<UserMessage(r)>> \in Seq(Messages)
  <2>1. UserMessage(r) \in Messages
    BY UserMessageTyped
  <2> QED
    BY <2>1
<1>4. <<>> \in Seq(Requests)
  OBVIOUS
<1> QED
  BY <1>1, <1>2, <1>3, <1>4, StatusMessagesTyped DEF StoreStep

-----------------------------------------------------------------------------
(* Who a message of a history belongs to.                                  *)

LEMMA OneMore ==
  ASSUME NEW S, NEW s \in Seq(S), NEW e \in S
  PROVE  /\ DOMAIN (s \o <<e>>) = 1..(Len(s) + 1)
         /\ DOMAIN s = 1..Len(s) /\ Len(s) \in Nat
         /\ (s \o <<e>>)[Len(s) + 1] = e
         /\ \A k \in 1..Len(s) : (s \o <<e>>)[k] = s[k]
<1>1. Len(s) \in Nat /\ DOMAIN s = 1..Len(s)
  BY LenProperties
<1>2. <<e>> \in Seq(S) /\ Len(<<e>>) = 1
  OBVIOUS
<1>3. Len(s \o <<e>>) = Len(s) + 1 /\ s \o <<e>> \in Seq(S)
  BY <1>2, ConcatProperties
<1>4. DOMAIN (s \o <<e>>) = 1..(Len(s) + 1)
  BY <1>3, LenProperties
<1>5. \A k \in 1..Len(s) : (s \o <<e>>)[k] = s[k]
  BY <1>1, <1>2, ConcatProperties
<1> QED
  BY <1>1, <1>4, <1>5, LastOfConcat

(* A step adds at most one message, to the history of one task: it is the  *)
(* user message of a request that arrives, or the agent's, of a request    *)
(* about that task.                                                        *)
MessageStep ==
  \/ /\ \A u \in TaskIds : tasks'[u].history = tasks[u].history
     /\ UNCHANGED target
  \/ \E t \in TaskIds, m \in Messages :
       /\ tasks'[t].history = tasks[t].history \o <<m>>
       /\ \A u \in TaskIds : u # t => tasks'[u].history = tasks[u].history
       /\ target'[m.run] = t
       /\ \A q \in Requests : q # m.run => target'[q] = target[q]
       /\ \/ target[m.run] = NoId /\ m = UserMessage(m.run)
          \/ target[m.run] = t /\ m.role = "agent"

LEMMA StoreStepAddsMessage ==
  ASSUME TypeOK, StoreStep
  PROVE  MessageStep
<1>0. NoId \notin TaskIds
  BY TaskManagerAssumption
<1>1. CASE UNCHANGED <<tasks, target>>
  BY <1>1 DEF MessageStep
<1>2. ASSUME NEW r \in Requests, NEW t \in TaskIds,
             target[r] = NoId, target'[r] = t,
             \A q \in Requests : q # r => target'[q] = target[q],
             Appended(tasks, tasks', t, <<UserMessage(r)>>, <<>>)
      PROVE  MessageStep
  <2>1. UserMessage(r) \in Messages /\ UserMessage(r).run = r
    BY UserMessageTyped DEF UserMessage
  <2>2. /\ tasks'[t].history = tasks[t].history \o <<UserMessage(r)>>
        /\ \A u \in TaskIds : u # t => tasks'[u].history = tasks[u].history
    BY <1>2 DEF Appended
  <2> QED
    BY <1>2, <2>1, <2>2 DEF MessageStep
<1>3. ASSUME NEW r \in Requests, NEW st \in Statuses, NEW as \in Seq(Requests),
             UNCHANGED target, target[r] \in TaskIds, st.run = r,
             Appended(tasks, tasks', target[r], StatusMessages(st), as)
      PROVE  MessageStep
  <2>1. CASE st.message
    <3>1. /\ AgentMessage(st) \in Messages
          /\ AgentMessage(st).run = r /\ AgentMessage(st).role = "agent"
      BY <1>3 DEF AgentMessage, Messages, Statuses
    <3>2. /\ tasks'[target[r]].history = tasks[target[r]].history \o <<AgentMessage(st)>>
          /\ \A u \in TaskIds : u # target[r] => tasks'[u].history = tasks[u].history
      BY <1>3, <2>1 DEF Appended, StatusMessages
    <3> QED
      BY <1>3, <3>1, <3>2 DEF MessageStep
  <2>2. CASE ~st.message
    <3>1. tasks[target[r]].history \in Seq(Messages)
      BY <1>3, TaskFields DEF TypeOK, Stores
    <3>2. tasks[target[r]].history \o <<>> = tasks[target[r]].history
      BY <3>1, ConcatEmptySeq
    <3>3. \A u \in TaskIds : tasks'[u].history = tasks[u].history
      BY <1>3, <2>2, <3>2 DEF Appended, StatusMessages
    <3> QED
      BY <1>3, <3>3 DEF MessageStep
  <2> QED
    BY <2>1, <2>2
<1> QED
  BY <1>1, <1>2, <1>3 DEF StoreStep

LEMMA NextHistoryOwned ==
  ASSUME TypeOK, HistoryOwned, MessageStep
  PROVE  HistoryOwned'
<1>0. NoId \notin TaskIds
  BY TaskManagerAssumption
<1>1. ASSUME NEW u \in TaskIds, NEW k \in DOMAIN tasks[u].history
      PROVE  /\ tasks[u].history[k].run \in Requests
             /\ target'[tasks[u].history[k].run] = u
  <2>1. tasks[u].history \in Seq(Messages)
    BY TaskFields DEF TypeOK, Stores
  <2>2. tasks[u].history[k] \in Messages
    BY <2>1
  <2>3. tasks[u].history[k].run \in Requests
    BY <2>2 DEF Messages
  <2>4. target[tasks[u].history[k].run] = u
    BY DEF HistoryOwned
  <2> QED
    BY <1>0, <2>3, <2>4 DEF MessageStep
<1>2. CASE \A u \in TaskIds : tasks'[u].history = tasks[u].history
  BY <1>1, <1>2 DEF HistoryOwned
<1>3. ASSUME NEW t \in TaskIds, NEW m \in Messages,
             tasks'[t].history = tasks[t].history \o <<m>>,
             \A u \in TaskIds : u # t => tasks'[u].history = tasks[u].history,
             target'[m.run] = t
      PROVE  HistoryOwned'
  <2>1. tasks[t].history \in Seq(Messages)
    BY TaskFields DEF TypeOK, Stores
  <2>2. ASSUME NEW k \in DOMAIN tasks'[t].history
        PROVE  target'[tasks'[t].history[k].run] = t
    BY <1>1, <1>3, <2>1, <2>2, OneMore
  <2>3. ASSUME NEW u \in TaskIds, u # t, NEW k \in DOMAIN tasks'[u].history
        PROVE  target'[tasks'[u].history[k].run] = u
    BY <1>1, <1>3, <2>3
  <2> QED
    BY <2>2, <2>3 DEF HistoryOwned
<1> QED
  BY <1>2, <1>3 DEF MessageStep

Asked(h, q) ==
  \E i \in DOMAIN h :
    /\ h[i] = UserMessage(q)
    /\ \A k \in DOMAIN h : (k # i /\ h[k].run = q) => k > i /\ h[k].role = "agent"

LEMMA NextQuestionBeforeAnswers ==
  ASSUME TypeOK, HistoryOwned, QuestionBeforeAnswers, MessageStep
  PROVE  QuestionBeforeAnswers'
<1>0. /\ \A q \in Requests : target[q] \in TaskIds \cup {NoId}
      /\ \A t \in TaskIds : tasks[t].history \in Seq(Messages)
      /\ NoId \notin TaskIds
  BY TaskFields, TaskManagerAssumption DEF TypeOK, Stores
<1>1. ASSUME NEW q \in Requests, target[q] # NoId
      PROVE  Asked(tasks[target[q]].history, q)
  BY <1>1 DEF QuestionBeforeAnswers, Asked
<1> SUFFICES ASSUME NEW q \in Requests, target'[q] # NoId
             PROVE  Asked(tasks'[target'[q]].history, q)
  BY DEF QuestionBeforeAnswers, Asked
<1>2. CASE (\A u \in TaskIds : tasks'[u].history = tasks[u].history) /\ UNCHANGED target
  BY <1>0, <1>1, <1>2
<1>3. ASSUME NEW t \in TaskIds, NEW m \in Messages,
             tasks'[t].history = tasks[t].history \o <<m>>,
             \A u \in TaskIds : u # t => tasks'[u].history = tasks[u].history,
             target'[m.run] = t,
             \A p \in Requests : p # m.run => target'[p] = target[p],
             \/ target[m.run] = NoId /\ m = UserMessage(m.run)
             \/ target[m.run] = t /\ m.role = "agent"
      PROVE  Asked(tasks'[target'[q]].history, q)
  <2> DEFINE h == tasks[t].history
  <2>1. h \in Seq(Messages)
    BY <1>0
  <2>2. /\ DOMAIN tasks'[t].history = 1..(Len(h) + 1) /\ DOMAIN h = 1..Len(h)
        /\ Len(h) \in Nat /\ tasks'[t].history[Len(h) + 1] = m
        /\ \A k \in 1..Len(h) : tasks'[t].history[k] = h[k]
    BY <1>3, <2>1, OneMore
  <2>3. CASE target[q] = NoId
    <3>1. q = m.run /\ m = UserMessage(q) /\ target'[q] = t
      BY <1>0, <1>3, <2>3
    <3>2. \A k \in 1..Len(h) : h[k].run # q
      BY <1>0, <2>2, <2>3 DEF HistoryOwned
    <3>3. \A k \in DOMAIN tasks'[t].history :
            k # Len(h) + 1 => tasks'[t].history[k].run # q
      BY <2>2, <3>2
    <3>4. Asked(tasks'[t].history, q)
      BY <2>2, <3>1, <3>3 DEF Asked
    <3> QED
      BY <3>1, <3>4
  <2>4. CASE target[q] # NoId /\ target[q] # t
    <3>1. target'[q] = target[q] /\ target[q] \in TaskIds
      BY <1>0, <1>3, <2>4
    <3> QED
      BY <1>1, <1>3, <2>4, <3>1
  <2>5. CASE target[q] = t
    <3>1. target'[q] = t /\ Asked(h, q)
      <4>1. target'[q] = t
        BY <1>3, <2>5
      <4>2. target[q] # NoId
        BY <1>0, <2>5
      <4> QED
        BY <1>1, <2>5, <4>1, <4>2
    <3>2. m.run = q => m.role = "agent"
      BY <1>0, <1>3, <2>5
    <3> HIDE DEF h
    <3>3. Asked(tasks'[t].history, q)
      BY <2>2, <3>1, <3>2 DEF Asked
    <3> QED
      BY <3>1, <3>3
  <2> QED
    BY <2>3, <2>4, <2>5
<1> QED
  BY <1>2, <1>3 DEF MessageStep

-----------------------------------------------------------------------------
(* What is announced is stored.                                            *)

StoredIn(e, task) ==
  /\ e.type = "artifact" => \E k \in DOMAIN task.artifacts : task.artifacts[k] = e.run
  /\ (e.type = "status" /\ e.status.message) =>
       \E k \in DOMAIN task.history : task.history[k] = AgentMessage(e.status)

LEMMA PrefixKeepsMembers ==
  ASSUME NEW S, NEW s \in Seq(S), NEW u \in Seq(S), IsPrefixOf(s, u), NEW i \in DOMAIN s
  PROVE  i \in DOMAIN u /\ u[i] = s[i]
<1>1. Len(s) \in Nat /\ Len(u) \in Nat /\ DOMAIN s = 1..Len(s) /\ DOMAIN u = 1..Len(u)
  BY LenProperties
<1> QED
  BY <1>1 DEF IsPrefixOf

LEMMA StoredForGood ==
  ASSUME TypeOK, TypeOK', StoreStep, NEW t \in TaskIds, NEW e
  PROVE  StoredIn(e, tasks[t]) => StoredIn(e, tasks'[t])
<1>1. /\ tasks[t].history \in Seq(Messages) /\ tasks[t].artifacts \in Seq(Requests)
      /\ tasks'[t].history \in Seq(Messages) /\ tasks'[t].artifacts \in Seq(Requests)
  BY TaskFields DEF TypeOK, Stores
<1>2. /\ IsPrefixOf(tasks[t].history, tasks'[t].history)
      /\ IsPrefixOf(tasks[t].artifacts, tasks'[t].artifacts)
  BY StoreGrows
<1>3. \A k \in DOMAIN tasks[t].history :
        k \in DOMAIN tasks'[t].history /\ tasks'[t].history[k] = tasks[t].history[k]
  BY <1>1, <1>2, PrefixKeepsMembers
<1>4. \A k \in DOMAIN tasks[t].artifacts :
        k \in DOMAIN tasks'[t].artifacts /\ tasks'[t].artifacts[k] = tasks[t].artifacts[k]
  BY <1>1, <1>2, PrefixKeepsMembers
<1> QED
  BY <1>3, <1>4 DEF StoredIn

AllStored(es, task) == \A i \in DOMAIN es : StoredIn(es[i], task)

LEMMA ConcatElement ==
  ASSUME NEW S, NEW s \in Seq(S), NEW u \in Seq(S), NEW i \in DOMAIN (s \o u)
  PROVE  \/ i \in DOMAIN s /\ (s \o u)[i] = s[i]
         \/ i - Len(s) \in DOMAIN u /\ (s \o u)[i] = u[i - Len(s)]
<1>1. /\ Len(s) \in Nat /\ Len(u) \in Nat /\ DOMAIN s = 1..Len(s) /\ DOMAIN u = 1..Len(u)
      /\ s \o u \in Seq(S) /\ Len(s \o u) = Len(s) + Len(u)
  BY LenProperties, ConcatProperties
<1>2. i \in 1..(Len(s) + Len(u))
  BY <1>1, LenProperties
<1>3. \A k \in 1..(Len(s) + Len(u)) :
        (s \o u)[k] = IF k <= Len(s) THEN s[k] ELSE u[k - Len(s)]
  BY <1>1, ConcatProperties
<1> QED
  BY <1>1, <1>2, <1>3

LEMMA ConcatStored ==
  ASSUME NEW s \in Seq(Events), NEW u \in Seq(Events), NEW task,
         AllStored(s, task), AllStored(u, task)
  PROVE  AllStored(s \o u, task)
BY ConcatElement DEF AllStored

LEMMA SingleEvent ==
  ASSUME NEW e \in Events
  PROVE  <<e>> \in Seq(Events) /\ DOMAIN <<e>> = {1} /\ <<e>>[1] = e
OBVIOUS

AnnounceStep ==
  \/ UNCHANGED announced
  \/ \E t \in TaskIds, es \in Seq(Events) :
       /\ announced' = [announced EXCEPT ![t] = @ \o es]
       /\ AllStored(es, tasks'[t])

LEMMA StatusEventTyped ==
  ASSUME NEW st \in Statuses
  PROVE  StatusEvent(st, Final(st)) \in Events
<1>1. Final(st) \in BOOLEAN
  BY DEF Final
<1> QED
  BY <1>1, EventsTyped, NobodyAssumption DEF Statuses

LEMMA ItemIsStored ==
  ASSUME TypeOK, NEW r \in Requests, HasTarget(r), NEW st \in Statuses, NEW as \in Seq(Requests),
         NEW es \in Seq(Events), ItemStep(r, st, as, es)
  PROVE  /\ AllStored(es, tasks'[target[r]])
         /\ st.message => \E k \in DOMAIN tasks'[target[r]].history :
                            tasks'[target[r]].history[k] = AgentMessage(st)
<1> DEFINE t == target[r]
           task == tasks'[t]
<1>1. t \in TaskIds /\ tasks \in Stores
  BY DEF TypeOK, Stores, HasTarget
<1>2. Appended(tasks, tasks', t, StatusMessages(st), as)
  BY <1>1, UpdateStoreAppends DEF ItemStep
<1>3. ASSUME st.message
      PROVE  \E k \in DOMAIN task.history : task.history[k] = AgentMessage(st)
  <2>1. task.history = tasks[t].history \o <<AgentMessage(st)>>
    BY <1>2, <1>3 DEF Appended, StatusMessages
  <2>2. tasks[t].history \in Seq(Messages) /\ AgentMessage(st) \in Messages
    BY <1>1, TaskFields DEF AgentMessage, Messages, Statuses
  <2> HIDE DEF task
  <2>3. Len(tasks[t].history) + 1 \in DOMAIN task.history
        /\ task.history[Len(tasks[t].history) + 1] = AgentMessage(st)
    BY <2>1, <2>2, OneMore
  <2> QED
    BY <2>3
<1>4. AllStored(Artifacts(r, st), task)
  <2>1. CASE st.state = "completed"
    <3>1. as = <<r>>
      BY <2>1 DEF ItemStep
    <3>2. \E k \in DOMAIN task.artifacts : task.artifacts[k] = r
      <4>1. task.artifacts = tasks[t].artifacts \o <<r>>
        BY <1>2, <3>1 DEF Appended
      <4>2. tasks[t].artifacts \in Seq(Requests)
        BY <1>1, TaskFields
      <4> HIDE DEF task
      <4>3. Len(tasks[t].artifacts) + 1 \in DOMAIN task.artifacts
            /\ task.artifacts[Len(tasks[t].artifacts) + 1] = r
        BY <4>1, <4>2, OneMore
      <4> QED
        BY <4>3
    <3>3. StoredIn(ArtifactEvent(r), task)
      BY <3>2 DEF StoredIn, ArtifactEvent
    <3>4. ArtifactEvent(r) \in Events
      BY DEF ArtifactEvent, Events
    <3> QED
      BY <2>1, <3>3, <3>4, SingleEvent DEF Artifacts, AllStored
  <2>2. CASE st.state # "completed"
    BY <2>2 DEF Artifacts, AllStored
  <2> QED
    BY <2>1, <2>2
<1> HIDE DEF task
<1>5. AllStored(StatusEvents(st), task)
  <2>1. StatusEvent(st, Final(st)) \in Events
    BY StatusEventTyped
  <2>2. StoredIn(StatusEvent(st, Final(st)), task)
    BY <1>3 DEF StoredIn, StatusEvent
  <2> QED
    BY <2>1, <2>2, SingleEvent DEF StatusEvents, AllStored
<1>6. AllStored(Artifacts(r, st) \o StatusEvents(st), task)
  BY <1>4, <1>5, ConcatStored, ArtifactsTyped, StatusEventsTyped
<1>7. AllStored(es, task)
  BY <1>4, <1>6 DEF ItemStep, AfterNotify
<1> QED
  BY <1>3, <1>7 DEF task, t

LEMMA NextAnnounceStep ==
  ASSUME TypeOK, Lifecycle, PendingIsStored, [Next]_vars
  PROVE  AnnounceStep
<1> USE DEF store, sse
<1>1. ASSUME NEW r \in Requests, StreamItem(r)
      PROVE  AnnounceStep
  <2>1. HasTarget(r)
    BY <1>1, ActiveHasTarget DEF RunnerStep
  <2>2. PICK st \in Statuses, as \in Seq(Requests), es \in Seq(Events) : ItemStep(r, st, as, es)
    BY <1>1, StreamItemStep
  <2>3. AllStored(es, tasks'[target[r]])
    BY <2>1, <2>2, ItemIsStored
  <2> QED
    BY <2>1, <2>2, <2>3 DEF AnnounceStep, ItemStep, Broadcast, HasTarget
<1>2. ASSUME NEW r \in Requests, UpdatePosted(r)
      PROVE  AnnounceStep
  <2> DEFINE st == newStatus[r]
             t  == target[r]
  <2>1. t \in TaskIds
    BY <1>2, ActiveHasTarget DEF RunnerStep, HasTarget
  <2>2. st \in Statuses
    BY <1>2, NobodyAssumption DEF TypeOK, Lifecycle, UpdatePosted, NoStatus
  <2>3. StatusEvent(st, Final(st)) \in Events /\ StatusEvents(st) \in Seq(Events)
    BY <2>2, StatusEventTyped, StatusEventsTyped
  <2>4. StoredIn(StatusEvent(st, Final(st)), tasks[t])
    BY <1>2 DEF StoredIn, StatusEvent, PendingIsStored, UpdatePosted
  <2>5. UNCHANGED tasks /\ announced' = [announced EXCEPT ![t] = @ \o StatusEvents(st)]
    BY <1>2 DEF UpdatePosted, Broadcast
  <2> HIDE DEF st, t
  <2>6. AllStored(StatusEvents(st), tasks'[t])
    BY <2>3, <2>4, <2>5, SingleEvent DEF StatusEvents, AllStored
  <2> QED
    BY <2>1, <2>3, <2>5, <2>6 DEF AnnounceStep
<1>3. ASSUME NEW r \in Requests, StreamRaises(r)
      PROVE  AnnounceStep
  <2>1. target[r] \in TaskIds
    BY <1>3, ActiveHasTarget DEF RunnerStep, HasTarget
  <2>2. ErrorEvent(r) \in Events
    BY DEF ErrorEvent, Events
  <2>3. announced' = [announced EXCEPT ![target[r]] = @ \o <<ErrorEvent(r)>>]
    BY <1>3 DEF StreamRaises, Broadcast
  <2>4. \A task : StoredIn(ErrorEvent(r), task)
    BY DEF StoredIn, ErrorEvent
  <2>5. AllStored(<<ErrorEvent(r)>>, tasks'[target[r]])
    BY <2>2, <2>4, SingleEvent DEF AllStored
  <2> QED
    BY <2>1, <2>2, <2>3, <2>5, SingleEvent DEF AnnounceStep
<1>4. ASSUME NEW r \in Requests,
             \/ RejectRequest(r) \/ SendStep(r) \/ StreamExhausted(r)
             \/ ConsumerStep(r) \/ ClientDisconnects(r)
             \/ \E t \in TaskIds : OnSendTask(r, t) \/ OnSendTaskSubscribe(r, t)
      PROVE  UNCHANGED announced
  BY <1>4 DEF RejectRequest, SendStep, WorkingPosted, AgentResponds, AgentRaises, ResultPosted,
     StreamExhausted, ConsumerStep, DeliverEvent, CloseStream, ClientDisconnects,
     OnSendTask, OnSendTaskSubscribe
<1>5. ASSUME NEW t \in TaskIds, SetPushNotification(t)
      PROVE  UNCHANGED announced
  BY <1>5 DEF SetPushNotification
<1>6. CASE UNCHANGED vars
  BY <1>6 DEF vars, AnnounceStep
<1> QED
  BY <1>1, <1>2, <1>3, <1>4, <1>5, <1>6 DEF Next, ClientCalls, RunnerStep, AnnounceStep

LEMMA NextAnnouncedIsStored ==
  ASSUME TypeOK, TypeOK', AnnouncedIsStored, StoreStep, AnnounceStep
  PROVE  AnnouncedIsStored'
<1>0. /\ \A t \in TaskIds : announced[t] \in Seq(Events)
      /\ announced \in [TaskIds -> Seq(Events)]
  BY DEF TypeOK
<1>1. AnnouncedIsStored <=> \A t \in TaskIds : AllStored(announced[t], tasks[t])
  BY DEF AnnouncedIsStored, AllStored, StoredIn
<1>2. AnnouncedIsStored' <=> \A t \in TaskIds : AllStored(announced'[t], tasks'[t])
  BY DEF AnnouncedIsStored, AllStored, StoredIn
<1>3. ASSUME NEW t \in TaskIds
      PROVE  AllStored(announced[t], tasks'[t])
  BY <1>1, StoredForGood DEF AllStored
<1>4. CASE UNCHANGED announced
  BY <1>2, <1>3, <1>4
<1>5. ASSUME NEW t \in TaskIds, NEW es \in Seq(Events),
             announced' = [announced EXCEPT ![t] = @ \o es],
             AllStored(es, tasks'[t])
      PROVE  AnnouncedIsStored'
  <2>1. AllStored(announced[t] \o es, tasks'[t])
    BY <1>0, <1>3, <1>5, ConcatStored
  <2>2. announced'[t] = announced[t] \o es /\ \A u \in TaskIds : u # t => announced'[u] = announced[u]
    BY <1>0, <1>5
  <2> QED
    BY <1>2, <1>3, <2>1, <2>2
<1> QED
  BY <1>4, <1>5 DEF AnnounceStep

(* A status that waits for its POST after a step waited before, or is that *)
(* of the item the step took from the agent's stream.                      *)
LEMMA WaitsOn ==
  ASSUME TypeOK, [Next]_vars, NEW q \in Requests, pc'[q] = "post_update", ~StreamItem(q)
  PROVE  pc[q] = "post_update" /\ newStatus'[q] = newStatus[q] /\ target'[q] = target[q]
<1> USE DEF TypeOK, store, sse
<1>1. ASSUME NEW r \in Requests, RejectRequest(r)
      PROVE  pc[q] = "post_update" /\ newStatus'[q] = newStatus[q] /\ target'[q] = target[q]
  BY <1>1 DEF RejectRequest
<1>2. ASSUME NEW r \in Requests, NEW t \in TaskIds,
             OnSendTask(r, t) \/ OnSendTaskSubscribe(r, t)
      PROVE  pc[q] = "post_update" /\ newStatus'[q] = newStatus[q] /\ target'[q] = target[q]
  BY <1>2 DEF OnSendTask, OnSendTaskSubscribe, AfterNotify
<1>3. ASSUME NEW r \in Requests, SendStep(r)
      PROVE  pc[q] = "post_update" /\ newStatus'[q] = newStatus[q] /\ target'[q] = target[q]
  BY <1>3 DEF SendStep, WorkingPosted, AgentResponds, AgentRaises, ResultPosted, AfterNotify
<1>4. ASSUME NEW r \in Requests, RunnerStep(r)
      PROVE  pc[q] = "post_update" /\ newStatus'[q] = newStatus[q] /\ target'[q] = target[q]
  <2>1. CASE q # r
    BY <1>4, <2>1, RunnerFrame
  <2>2. CASE q = r
    BY <1>4, <2>2 DEF RunnerStep, UpdatePosted, StreamRaises, StreamExhausted, AfterStatus
  <2> QED
    BY <2>1, <2>2
<1>5. ASSUME NEW r \in Requests, ConsumerStep(r) \/ ClientDisconnects(r)
      PROVE  pc[q] = "post_update" /\ newStatus'[q] = newStatus[q] /\ target'[q] = target[q]
  BY <1>5 DEF ConsumerStep, DeliverEvent, CloseStream, ClientDisconnects
<1>6. ASSUME NEW t \in TaskIds, SetPushNotification(t)
      PROVE  pc[q] = "post_update" /\ newStatus'[q] = newStatus[q] /\ target'[q] = target[q]
  BY <1>6 DEF SetPushNotification
<1>7. CASE UNCHANGED vars
  BY <1>7 DEF vars
<1> QED
  BY <1>1, <1>2, <1>3, <1>4, <1>5, <1>6, <1>7 DEF Next, ClientCalls

LEMMA NextPendingIsStored ==
  ASSUME TypeOK, TypeOK', Lifecycle, PendingIsStored, StoreStep, [Next]_vars
  PROVE  PendingIsStored'
<1> SUFFICES ASSUME NEW q \in Requests, pc'[q] = "post_update", newStatus'[q].message
             PROVE  \E k \in DOMAIN tasks'[target'[q]].history :
                      tasks'[target'[q]].history[k] = AgentMessage(newStatus'[q])
  BY DEF PendingIsStored, AgentMessage
<1>1. CASE StreamItem(q)
  <2>1. HasTarget(q)
    BY <1>1, ActiveHasTarget DEF RunnerStep
  <2>2. PICK st \in Statuses, as \in Seq(Requests), es \in Seq(Events) : ItemStep(q, st, as, es)
    BY <1>1, StreamItemStep
  <2>3. newStatus'[q] = st /\ target'[q] = target[q]
    BY <1>1, <2>2 DEF ItemStep, StreamItem, TypeOK
  <2> QED
    BY <2>1, <2>2, <2>3, ItemIsStored
<1>2. CASE ~StreamItem(q)
  <2>1. pc[q] = "post_update" /\ newStatus'[q] = newStatus[q] /\ target'[q] = target[q]
    BY <1>2, WaitsOn
  <2>2. target[q] \in TaskIds
    BY <2>1 DEF Lifecycle, Running
  <2>3. PICK k \in DOMAIN tasks[target[q]].history :
          tasks[target[q]].history[k] = AgentMessage(newStatus[q])
    BY <2>1 DEF PendingIsStored
  <2>4. IsPrefixOf(tasks[target[q]].history, tasks'[target[q]].history)
    BY <2>2, StoreGrows
  <2>5. tasks[target[q]].history \in Seq(Messages) /\ tasks'[target[q]].history \in Seq(Messages)
    BY <2>2, TaskFields DEF TypeOK, Stores
  <2>6. k \in DOMAIN tasks'[target[q]].history
        /\ tasks'[target[q]].history[k] = tasks[target[q]].history[k]
    BY <2>4, <2>5, PrefixKeepsMembers
  <2> QED
    BY <2>1, <2>3, <2>6
<1> QED
  BY <1>1, <1>2

LEMMA NextProgress ==
  ASSUME TypeOK, Lifecycle, Progress, [Next]_vars
  PROVE  Progress'
<1> USE DEF TypeOK, Progress, store, sse
<1>1. ASSUME NEW r \in Requests, RejectRequest(r)
      PROVE  Progress'
  BY <1>1 DEF RejectRequest, Arrives
<1>2. ASSUME NEW r \in Requests, NEW t \in TaskIds, OnSendTask(r, t)
      PROVE  Progress'
  BY <1>2 DEF OnSendTask, AfterNotify, Arrives
<1>3. ASSUME NEW r \in Requests, NEW t \in TaskIds, OnSendTaskSubscribe(r, t)
      PROVE  Progress'
  BY <1>3 DEF OnSendTaskSubscribe, Arrives
<1>4. ASSUME NEW r \in Requests, SendStep(r)
      PROVE  Progress'
  <2>1. CASE AgentResponds(r)
    BY <2>1 DEF AgentResponds, AfterNotify, NoReply
  <2>2. CASE WorkingPosted(r) \/ AgentRaises(r) \/ ResultPosted(r)
    BY <2>2 DEF WorkingPosted, AgentRaises, ResultPosted
  <2> QED
    BY <1>4, <2>1, <2>2 DEF SendStep
<1>5. ASSUME NEW r \in Requests, StreamItem(r)
      PROVE  Progress'
  <2>1. PICK st \in Statuses, as \in Seq(Requests), es \in Seq(Events) : ItemStep(r, st, as, es)
    BY <1>5, StreamItemStep
  <2>2. /\ newStatus' = [newStatus EXCEPT ![r] = st] /\ st.n = newStatus[r].n + 1
        /\ pc' = [pc EXCEPT ![r] = AfterNotify(target[r], "post_update", AfterStatus(st))]
    BY <2>1 DEF ItemStep
  <2>3. newStatus[r].n \in Nat
    BY DEF Statuses, NoStatus
  <2>4. pc[r] = "stream" /\ UNCHANGED <<target, reply>>
    BY <1>5 DEF StreamItem
  <2>5. AfterNotify(target[r], "post_update", AfterStatus(st)) \in {"post_update", "stream", "done"}
    BY DEF AfterNotify, AfterStatus
  <2> QED
    BY <2>2, <2>3, <2>4, <2>5
<1>6. ASSUME NEW r \in Requests, UpdatePosted(r) \/ StreamRaises(r) \/ StreamExhausted(r)
      PROVE  Progress'
  BY <1>6 DEF UpdatePosted, StreamRaises, StreamExhausted, AfterStatus
<1>7. ASSUME NEW r \in Requests, ConsumerStep(r) \/ ClientDisconnects(r)
      PROVE  Progress'
  BY <1>7 DEF ConsumerStep, DeliverEvent, CloseStream, ClientDisconnects
<1>8. ASSUME NEW t \in TaskIds, SetPushNotification(t)
      PROVE  Progress'
  BY <1>8 DEF SetPushNotification
<1>9. CASE UNCHANGED vars
  BY <1>9 DEF vars
<1> QED
  BY <1>1, <1>2, <1>3, <1>4, <1>5, <1>6, <1>7, <1>8, <1>9 DEF Next, ClientCalls, RunnerStep

-----------------------------------------------------------------------------
(* The statuses of a run on its own stream.                                *)

IsOwn(e, r) == e.type = "status" /\ e.run = r

LEMMA NumberedOthers ==
  ASSUME NEW r, NEW b \in Nat, NEW s \in Seq(Events), NEW u \in Seq(Events),
         \A i \in DOMAIN u : ~IsOwn(u[i], r),
         Numbered(s, r, b)
  PROVE  Numbered(s \o u, r, b)
<1> DEFINE c == s \o u
           own == {i \in DOMAIN s : IsOwn(s[i], r)}
<1>1. /\ Len(s) \in Nat /\ Len(u) \in Nat /\ DOMAIN s = 1..Len(s)
      /\ DOMAIN c = 1..(Len(s) + Len(u))
      /\ \A i \in 1..Len(s) : c[i] = s[i]
  BY LenProperties, ConcatProperties
<1>2. \A i \in DOMAIN c : i \in DOMAIN s \/ ~IsOwn(c[i], r)
  BY ConcatElement
<1>3. {i \in DOMAIN c : IsOwn(c[i], r)} = own /\ \A i \in own : c[i] = s[i] /\ i \in Int
  BY <1>1, <1>2
<1>4. /\ \A i \in own : s[i].status.n \in 1..b
      /\ \A n \in 1..b : \E i \in own : s[i].status.n = n
      /\ \A i, j \in own : i < j => s[i].status.n < s[j].status.n
  BY DEF Numbered, IsOwn
<1> HIDE DEF own, c
<1>5. /\ \A i \in own : c[i].status.n \in 1..b
      /\ \A n \in 1..b : \E i \in own : c[i].status.n = n
      /\ \A i, j \in own : i < j => c[i].status.n < c[j].status.n
  BY <1>3, <1>4
<1>6. Numbered(c, r, b)
  BY <1>3, <1>5 DEF Numbered, IsOwn
<1> QED
  BY <1>6 DEF c

LEMMA NumberedOwn ==
  ASSUME NEW r, NEW b \in Nat, NEW s \in Seq(Events), NEW e \in Events,
         IsOwn(e, r), e.status.n = b + 1,
         Numbered(s, r, b)
  PROVE  Numbered(s \o <<e>>, r, b + 1)
<1> DEFINE c == s \o <<e>>
           last == Len(s) + 1
           own == {i \in DOMAIN s : IsOwn(s[i], r)}
<1>1. /\ DOMAIN c = 1..last /\ DOMAIN s = 1..Len(s) /\ Len(s) \in Nat
      /\ c[last] = e /\ \A k \in 1..Len(s) : c[k] = s[k]
  BY OneMore
<1>2. /\ {i \in DOMAIN c : IsOwn(c[i], r)} = own \cup {last}
      /\ \A i \in own : c[i] = s[i] /\ i \in 1..Len(s)
  BY <1>1
<1>3. /\ \A i \in own : s[i].status.n \in 1..b
      /\ \A n \in 1..b : \E i \in own : s[i].status.n = n
      /\ \A i, j \in own : i < j => s[i].status.n < s[j].status.n
  BY DEF Numbered, IsOwn
<1> HIDE DEF own, c
<1>4. \A i \in own \cup {last} : c[i].status.n \in 1..(b + 1)
  BY <1>1, <1>2, <1>3
<1>5. \A n \in 1..(b + 1) : \E i \in own \cup {last} : c[i].status.n = n
  <2>1. \A n \in 1..b : \E i \in own \cup {last} : c[i].status.n = n
    BY <1>2, <1>3
  <2> QED
    BY <1>1, <2>1
<1>6. ASSUME NEW i \in own \cup {last}, NEW j \in own \cup {last}, i < j
      PROVE  c[i].status.n < c[j].status.n
  <2>1. i \in own /\ i \in 1..Len(s)
    BY <1>1, <1>2, <1>6
  <2>2. CASE j = last
    BY <1>1, <1>2, <1>3, <2>1, <2>2
  <2>3. CASE j \in own
    BY <1>2, <1>3, <1>6, <2>1, <2>3
  <2> QED
    BY <1>6, <2>2, <2>3
<1>7. Numbered(c, r, b + 1)
  BY <1>2, <1>4, <1>5, <1>6 DEF Numbered, IsOwn
<1> QED
  BY <1>7 DEF c

LEMMA ArtifactsAreNoStatus ==
  ASSUME NEW r \in Requests, NEW st
  PROVE  \A i \in DOMAIN Artifacts(r, st) :
           Artifacts(r, st)[i].run = r /\ ~IsOwn(Artifacts(r, st)[i], r)
<1>1. ArtifactEvent(r) \in Events /\ ArtifactEvent(r).run = r /\ ~IsOwn(ArtifactEvent(r), r)
  BY DEF ArtifactEvent, Events, IsOwn
<1>2. CASE st.state = "completed"
  BY <1>1, <1>2, SingleEvent DEF Artifacts
<1>3. CASE st.state # "completed"
  BY <1>3 DEF Artifacts
<1> QED
  BY <1>2, <1>3

(* What a runner announces is its own, and carries the numbering on.       *)
CarriesOn(es, r) ==
  /\ Broadcast(target[r], es)
  /\ \A i \in DOMAIN es : es[i].run = r
  /\ \A s \in Seq(Events) : Numbered(s, r, Built(r)) => Numbered(s \o es, r, Built(r)')

LEMMA ItemCarriesOn ==
  ASSUME TypeOK, NEW r \in Requests, HasTarget(r), StreamItem(r)
  PROVE  \E es \in Seq(Events) : CarriesOn(es, r)
<1>1. PICK st \in Statuses, as \in Seq(Requests), es \in Seq(Events) : ItemStep(r, st, as, es)
  BY StreamItemStep
<1> DEFINE n == newStatus[r].n
           arts == Artifacts(r, st)
           e == StatusEvent(st, Final(st))
<1>2. n \in Nat /\ Built(r) = n
  BY DEF TypeOK, Statuses, NoStatus, StreamItem, Built
<1>3. /\ newStatus'[r] = st /\ st.n = n + 1 /\ st.run = r
      /\ pc'[r] = AfterNotify(target[r], "post_update", AfterStatus(st))
      /\ es = AfterNotify(target[r], arts, arts \o StatusEvents(st))
      /\ Broadcast(target[r], es)
  BY <1>1 DEF ItemStep, TypeOK
<1>4. /\ arts \in Seq(Events) /\ e \in Events
      /\ \A i \in DOMAIN arts : arts[i].run = r /\ ~IsOwn(arts[i], r)
  BY ArtifactsTyped, StatusEventTyped, ArtifactsAreNoStatus
<1>5. IsOwn(e, r) /\ e.status.n = n + 1 /\ e.run = r
  BY <1>3 DEF IsOwn, StatusEvent
<1>6. StatusEvents(st) = <<e>> /\ <<e>> \in Seq(Events) /\ DOMAIN <<e>> = {1} /\ <<e>>[1] = e
  BY <1>4, SingleEvent DEF StatusEvents
<1> HIDE DEF arts, e, n
<1>7. CASE target[r] \in pushInfos
  <2>1. es = arts /\ Built(r)' = n
    <3>1. pc'[r] = "post_update" /\ es = arts
      BY <1>3, <1>7 DEF AfterNotify
    <3>2. (n + 1) - 1 = n
      BY <1>2
    <3> QED
      BY <1>3, <3>1, <3>2 DEF Built
  <2>2. \A s \in Seq(Events) : Numbered(s, r, n) => Numbered(s \o arts, r, n)
    BY <1>2, <1>4, NumberedOthers
  <2> QED
    BY <1>2, <1>3, <1>4, <2>1, <2>2 DEF CarriesOn
<1>8. CASE target[r] \notin pushInfos
  <2>1. es = arts \o <<e>> /\ Built(r)' = n + 1
    <3>1. pc'[r] # "post_update" /\ es = arts \o <<e>>
      BY <1>3, <1>6, <1>8 DEF AfterNotify, AfterStatus
    <3> QED
      BY <1>3, <3>1 DEF Built
  <2>2. \A i \in DOMAIN es : es[i].run = r
    BY <1>4, <1>5, <1>6, <2>1, ConcatElement
  <2>3. ASSUME NEW s \in Seq(Events), Numbered(s, r, n)
        PROVE  Numbered(s \o es, r, n + 1)
    <3>1. s \o arts \in Seq(Events) /\ Numbered(s \o arts, r, n)
      BY <1>2, <1>4, <2>3, NumberedOthers
    <3>2. Numbered((s \o arts) \o <<e>>, r, n + 1)
      BY <1>2, <1>4, <1>5, <3>1, NumberedOwn
    <3>3. (s \o arts) \o <<e>> = s \o (arts \o <<e>>)
      BY <1>4, <1>6, EventsAssociative
    <3> QED
      BY <2>1, <3>2, <3>3
  <2> QED
    BY <1>2, <1>3, <2>1, <2>2, <2>3 DEF CarriesOn
<1> QED
  BY <1>7, <1>8

LEMMA RunnerCarriesOn ==
  ASSUME TypeOK, Lifecycle, Progress, NEW r \in Requests, RunnerStep(r), ~StreamExhausted(r)
  PROVE  \E es \in Seq(Events) : CarriesOn(es, r)
<1>1. CASE StreamItem(r)
  <2>1. HasTarget(r)
    BY <1>1, ActiveHasTarget DEF RunnerStep
  <2> QED
    BY <1>1, <2>1, ItemCarriesOn
<1>2. CASE UpdatePosted(r)
  <2> DEFINE st == newStatus[r]
             e  == StatusEvent(st, Final(st))
             b  == st.n - 1
  <2>1. /\ pc[r] = "post_update" /\ UNCHANGED newStatus
        /\ Broadcast(target[r], StatusEvents(st))
        /\ pc'[r] \in {"done", "stream"}
    BY <1>2 DEF UpdatePosted, AfterStatus, TypeOK
  <2>2. st \in Statuses /\ st.run = r /\ st.n \in Nat /\ st.n > 0
    BY <2>1, NobodyAssumption DEF TypeOK, Lifecycle, Progress, NoStatus, Statuses
  <2>3. b \in Nat /\ Built(r) = b /\ Built(r)' = b + 1 /\ st.n = b + 1
    BY <2>1, <2>2 DEF Built
  <2>4. e \in Events /\ IsOwn(e, r) /\ e.status.n = b + 1 /\ e.run = r
    BY <2>2, <2>3, StatusEventTyped DEF IsOwn, StatusEvent
  <2>5. /\ StatusEvents(st) = <<e>> /\ <<e>> \in Seq(Events)
        /\ DOMAIN <<e>> = {1} /\ <<e>>[1] = e
    BY <2>4, SingleEvent DEF StatusEvents
  <2> HIDE DEF e, b, st
  <2>6. \A s \in Seq(Events) : Numbered(s, r, b) => Numbered(s \o <<e>>, r, b + 1)
    BY <2>3, <2>4, NumberedOwn
  <2>7. CarriesOn(<<e>>, r)
    BY <2>1, <2>3, <2>4, <2>5, <2>6 DEF CarriesOn
  <2> QED
    BY <2>5, <2>7
<1>3. CASE StreamRaises(r)
  <2> DEFINE e == ErrorEvent(r)
             b == newStatus[r].n
  <2>1. /\ pc[r] = "stream" /\ pc'[r] = "done" /\ UNCHANGED newStatus
        /\ Broadcast(target[r], <<e>>)
    BY <1>3 DEF StreamRaises, TypeOK
  <2>2. b \in Nat /\ Built(r) = b /\ Built(r)' = b
    BY <2>1 DEF Built, TypeOK, Statuses, NoStatus
  <2>3. e \in Events /\ e.run = r /\ ~IsOwn(e, r)
    BY DEF ErrorEvent, Events, IsOwn
  <2>4. <<e>> \in Seq(Events) /\ DOMAIN <<e>> = {1} /\ <<e>>[1] = e
    BY <2>3, SingleEvent
  <2> HIDE DEF e, b
  <2>5. \A i \in DOMAIN <<e>> : <<e>>[i].run = r /\ ~IsOwn(<<e>>[i], r)
    BY <2>3, <2>4
  <2>6. \A s \in Seq(Events) : Numbered(s, r, b) => Numbered(s \o <<e>>, r, b)
    BY <2>2, <2>4, <2>5, NumberedOthers
  <2>7. CarriesOn(<<e>>, r)
    BY <2>1, <2>2, <2>5, <2>6 DEF CarriesOn
  <2> QED
    BY <2>4, <2>7
<1> QED
  BY <1>1, <1>2, <1>3 DEF RunnerStep

LEMMA NextOwnUpdatesComplete ==
  ASSUME IInv, Progress, OwnUpdatesComplete, [Next]_vars
  PROVE  OwnUpdatesComplete'
<1> DEFINE Told(q) == Connected(q) => Numbered(received[q] \o queues[q], q, Built(q))
<1>0. (OwnUpdatesComplete <=> \A q \in Requests : Told(q))
      /\ (OwnUpdatesComplete' <=> \A q \in Requests : Told(q)')
  BY DEF OwnUpdatesComplete
<1>a. \A q \in Requests : Told(q)
  BY <1>0
<1>b. TypeOK /\ Lifecycle /\ FreshUntilSubscribed /\ SubscribersExact
  BY DEF IInv
<1>c. ASSUME NEW r \in Requests, UNCHANGED <<received, queues, consumer>>,
             consumer[r] = "none",
             \A q \in Requests : q # r => newStatus'[q] = newStatus[q] /\ pc'[q] = pc[q]
      PROVE  \A q \in Requests : Told(q)'
  BY <1>a, <1>c DEF Connected, Built
<1> USE DEF store, sse
<1>1. ASSUME NEW r \in Requests, NEW t \in TaskIds, OnSendTask(r, t)
      PROVE  \A q \in Requests : Told(q)'
  <2>1. /\ UNCHANGED <<received, queues, consumer>> /\ consumer[r] = "none"
        /\ \A q \in Requests : q # r => newStatus'[q] = newStatus[q] /\ pc'[q] = pc[q]
    BY <1>1, <1>b DEF OnSendTask, Arrives, Lifecycle, TypeOK
  <2> QED
    BY <1>c, <2>1
<1>2. ASSUME NEW r \in Requests, RejectRequest(r)
      PROVE  \A q \in Requests : Told(q)'
  <2>1. /\ UNCHANGED <<received, queues, consumer>> /\ consumer[r] = "none"
        /\ \A q \in Requests : q # r => newStatus'[q] = newStatus[q] /\ pc'[q] = pc[q]
    BY <1>2, <1>b DEF RejectRequest, Arrives, Lifecycle, TypeOK
  <2> QED
    BY <1>c, <2>1
<1>3. ASSUME NEW r \in Requests, NEW t \in TaskIds, OnSendTaskSubscribe(r, t)
      PROVE  \A q \in Requests : Told(q)'
  <2>1. /\ UNCHANGED <<received, queues, newStatus>>
        /\ \A q \in Requests : q # r => consumer'[q] = consumer[q] /\ pc'[q] = pc[q]
        /\ pc'[r] = "stream"
    BY <1>3, <1>b DEF OnSendTaskSubscribe, TypeOK
  <2>2. received[r] = <<>> /\ queues[r] = <<>> /\ newStatus[r].n = 0
    BY <1>3, <1>b DEF OnSendTaskSubscribe, Arrives, Lifecycle, FreshUntilSubscribed, Subscribed,
       Progress, NoStatus
  <2>3. <<>> \o <<>> = <<>>
    BY ConcatEmptySeq, EmptySeq
  <2>4. Numbered(<<>>, r, 0)
    BY DEF Numbered
  <2>5. Told(r)'
    BY <2>1, <2>2, <2>3, <2>4 DEF Built
  <2>6. ASSUME NEW q \in Requests, q # r
        PROVE  Told(q)'
    BY <1>a, <2>1, <2>6 DEF Connected, Built
  <2> QED
    BY <2>5, <2>6
<1>4. ASSUME NEW r \in Requests, SendStep(r)
      PROVE  \A q \in Requests : Told(q)'
  <2>1. /\ UNCHANGED <<received, queues, consumer>> /\ consumer[r] = "none"
        /\ \A q \in Requests : q # r => newStatus'[q] = newStatus[q] /\ pc'[q] = pc[q]
    BY <1>4, <1>b DEF SendStep, WorkingPosted, AgentResponds, AgentRaises, ResultPosted,
       Lifecycle, TypeOK
  <2> QED
    BY <1>c, <2>1
<1>5. ASSUME NEW r \in Requests, RunnerStep(r), ~StreamExhausted(r)
      PROVE  \A q \in Requests : Told(q)'
  <2>1. HasTarget(r)
    BY <1>5, <1>b, ActiveHasTarget
  <2>2. PICK es \in Seq(Events) : CarriesOn(es, r)
    BY <1>5, <1>b, RunnerCarriesOn
  <2>3. /\ UNCHANGED <<received, consumer>>
        /\ \A q \in Requests : q # r => pc'[q] = pc[q] /\ newStatus'[q] = newStatus[q]
    BY <1>5, <1>b, RunnerFrame
  <2>4. ASSUME NEW q \in Requests, Connected(q)
        PROVE  Numbered(received'[q] \o queues'[q], q, Built(q)')
    <3> DEFINE s == received[q] \o queues[q]
    <3>1. Numbered(s, q, Built(q)) /\ s \in Seq(Events)
          /\ received[q] \in Seq(Events) /\ queues[q] \in Seq(Events)
      BY <1>a, <1>b, <2>4 DEF TypeOK
    <3>2. Numbered(s \o es, q, Built(q)')
      <4>1. CASE q = r
        BY <2>2, <3>1, <4>1 DEF CarriesOn
      <4>2. CASE q # r
        <5>1. Built(q)' = Built(q)
          BY <2>3, <4>2 DEF Built
        <5>2. \A i \in DOMAIN es : ~IsOwn(es[i], q)
          BY <2>2, <4>2 DEF CarriesOn, IsOwn
        <5>3. Built(q) \in Nat
          BY <1>b DEF Built, TypeOK, Statuses, NoStatus, Progress
        <5> QED
          BY <3>1, <5>1, <5>2, <5>3, NumberedOthers
      <4> QED
        BY <4>1, <4>2
    <3>3. CASE q \in subscribers[target[r]]
      <4>1. queues'[q] = queues[q] \o es
        BY <1>b, <2>1, <2>2, <3>3 DEF CarriesOn, Broadcast, EnqueueEvents, TypeOK, HasTarget
      <4>2. es \in Seq(Events)
        OBVIOUS
      <4>3. (received[q] \o queues[q]) \o es = received[q] \o (queues[q] \o es)
        BY <3>1, <4>2, EventsAssociative
      <4>4. received'[q] = received[q]
        BY <2>3
      <4> QED
        BY <3>2, <4>1, <4>3, <4>4
    <3>4. CASE q \notin subscribers[target[r]]
      <4>1. queues'[q] = queues[q]
        BY <1>b, <2>1, <2>2, <3>4 DEF CarriesOn, Broadcast, EnqueueEvents, TypeOK, HasTarget
      <4>2. q # r
        BY <1>b, <2>1, <2>4, <3>4 DEF SubscribersExact, HasTarget
      <4>3. Built(q)' = Built(q)
        BY <2>3, <4>2 DEF Built
      <4> QED
        BY <2>3, <3>1, <4>1, <4>3
    <3> QED
      BY <3>3, <3>4
  <2> QED
    BY <2>3, <2>4 DEF Connected
<1>6. ASSUME NEW r \in Requests, StreamExhausted(r)
      PROVE  \A q \in Requests : Told(q)'
  <2>1. /\ UNCHANGED <<received, queues, consumer, newStatus>>
        /\ \A q \in Requests : pc'[q] = "post_update" <=> pc[q] = "post_update"
    BY <1>6, <1>b DEF StreamExhausted, TypeOK
  <2> QED
    BY <1>a, <2>1 DEF Connected, Built
<1>7. ASSUME NEW r \in Requests, DeliverEvent(r)
      PROVE  \A q \in Requests : Told(q)'
  <2>1. /\ UNCHANGED <<newStatus, pc>>
        /\ queues[r] \in Seq(Events) /\ queues[r] # <<>> /\ received[r] \in Seq(Events)
        /\ queues'[r] = Tail(queues[r])
        /\ received'[r] = Append(received[r], Head(queues[r]))
        /\ consumer[r] = "open"
        /\ \A q \in Requests : q # r => /\ consumer'[q] = consumer[q]
                                        /\ queues'[q] = queues[q]
                                        /\ received'[q] = received[q]
    BY <1>7, <1>b DEF DeliverEvent, TypeOK
  <2>2. received'[r] \o queues'[r] = received[r] \o queues[r]
    BY <2>1, HandOverKeepsOrder
  <2>3. Told(r)'
    BY <1>a, <2>1, <2>2 DEF Connected, Built
  <2>4. ASSUME NEW q \in Requests, q # r
        PROVE  Told(q)'
    BY <1>a, <2>1, <2>4 DEF Connected, Built
  <2> QED
    BY <2>3, <2>4
<1>8. ASSUME NEW r \in Requests, CloseStream(r) \/ ClientDisconnects(r)
      PROVE  \A q \in Requests : Told(q)'
  <2>1. /\ UNCHANGED <<newStatus, pc, received>>
        /\ Connected(r)' => Connected(r) /\ queues'[r] = queues[r]
        /\ \A q \in Requests : q # r => /\ consumer'[q] = consumer[q]
                                        /\ queues'[q] = queues[q]
    BY <1>8, <1>b DEF CloseStream, ClientDisconnects, TypeOK, Connected
  <2> QED
    BY <1>a, <2>1 DEF Connected, Built
<1>9. ASSUME UNCHANGED <<newStatus, pc, received, queues, consumer>>
      PROVE  \A q \in Requests : Told(q)'
  BY <1>a, <1>9 DEF Connected, Built
<1>10. CASE UNCHANGED vars \/ \E t \in TaskIds : SetPushNotification(t)
  <2>1. UNCHANGED <<newStatus, pc, received, queues, consumer>>
    BY <1>10 DEF vars, SetPushNotification
  <2> QED
    BY <1>0, <1>9, <2>1
<1>11. \A q \in Requests : Told(q)'
  BY <1>0, <1>1, <1>2, <1>3, <1>4, <1>5, <1>6, <1>7, <1>8, <1>10
  DEF Next, ClientCalls, ConsumerStep, RunnerStep
<1> QED
  BY <1>0, <1>11

-----------------------------------------------------------------------------
(* Who will write the status of a task next.                               *)

RaisedInLog(q) == \E i \in DOMAIN LogOf(q) : LogOf(q)[i] = ErrorEvent(q)

LEMMA RaisedForGood ==
  ASSUME TypeOK, AnnounceStep, NEW q \in Requests, target[q] \in TaskIds,
         target'[q] = target[q], RaisedInLog(q)
  PROVE  RaisedInLog(q)'
<1> DEFINE l == announced[target[q]]
<1>1. l \in Seq(Events)
  BY DEF TypeOK
<1>2. PICK i \in DOMAIN l : l[i] = ErrorEvent(q)
  BY DEF RaisedInLog, LogOf
<1>3. CASE UNCHANGED announced
  BY <1>2, <1>3 DEF RaisedInLog, LogOf
<1>4. ASSUME NEW t \in TaskIds, NEW es \in Seq(Events),
             announced' = [announced EXCEPT ![t] = @ \o es]
      PROVE  RaisedInLog(q)'
  <2>1. CASE t = target[q]
    <3>1. announced'[target'[q]] = l \o es
      BY <1>4, <2>1 DEF TypeOK
    <3>2. i \in DOMAIN (l \o es) /\ (l \o es)[i] = l[i]
      <4>1. /\ DOMAIN l = 1..Len(l) /\ Len(l) \in Nat /\ Len(es) \in Nat
            /\ l \o es \in Seq(Events) /\ Len(l \o es) = Len(l) + Len(es)
        BY <1>1, LenProperties, ConcatProperties
      <4>2. DOMAIN (l \o es) = 1..(Len(l) + Len(es))
        BY <4>1, LenProperties
      <4> QED
        BY <1>1, <4>1, <4>2, ConcatProperties
    <3> QED
      BY <1>2, <3>1, <3>2 DEF RaisedInLog, LogOf, ErrorEvent
  <2>2. CASE t # target[q]
    <3>1. announced'[target'[q]] = l
      BY <1>4, <2>2 DEF TypeOK
    <3> QED
      BY <1>2, <3>1 DEF RaisedInLog, LogOf, ErrorEvent
  <2> QED
    BY <2>1, <2>2
<1> QED
  BY <1>3, <1>4 DEF AnnounceStep

Onwards(q) ==
  /\ target'[q] = target[q]
  /\ (WillWrite(q) \/ Failed(q)) => (WillWrite(q) \/ Failed(q))'

LEMMA RestingGoesOn ==
  ASSUME TypeOK, AnnounceStep, NEW q \in Requests, target[q] \in TaskIds,
         target'[q] = target[q], pc'[q] = pc[q], newStatus'[q] = newStatus[q],
         reply'[q] = reply[q]
  PROVE  Onwards(q)
<1>1. RaisedInLog(q) => RaisedInLog(q)'
  BY RaisedForGood
<1> QED
  BY <1>1 DEF Onwards, WillWrite, Failed, RaisedInLog, Final

(* A step of r that writes no status.                                      *)
LEMMA QuietStepGoesOn ==
  ASSUME TypeOK, Lifecycle, Progress, AnnounceStep, NEW r \in Requests, target[r] \in TaskIds,
         \/ WorkingPosted(r) \/ AgentRaises(r) \/ ResultPosted(r)
         \/ UpdatePosted(r) \/ StreamRaises(r) \/ StreamExhausted(r)
  PROVE  Onwards(r)
<1> USE DEF store, sse
<1>1. UNCHANGED target
  BY DEF WorkingPosted, AgentRaises, ResultPosted, UpdatePosted, StreamRaises, StreamExhausted
<1>2. RaisedInLog(r) => RaisedInLog(r)'
  BY <1>1, RaisedForGood
<1>3. ASSUME Failed(r), pc[r] \notin {"exhausted", "done"}
      PROVE  Failed(r)'
  BY <1>2, <1>3 DEF Failed, RaisedInLog, Progress
<1>4. CASE WorkingPosted(r)
  BY <1>1, <1>4 DEF WorkingPosted, Onwards, WillWrite, TypeOK
<1>5. CASE AgentRaises(r)
  BY <1>1, <1>5 DEF AgentRaises, Onwards, Failed, TypeOK, ErrorReply
<1>6. CASE ResultPosted(r)
  BY <1>1, <1>3, <1>6 DEF ResultPosted, Onwards, WillWrite
<1>7. CASE UpdatePosted(r)
  BY <1>1, <1>3, <1>7 DEF UpdatePosted, AfterStatus, Onwards, WillWrite, TypeOK
<1>8. CASE StreamRaises(r)
  <2>1. announced'[target[r]] = announced[target[r]] \o <<ErrorEvent(r)>>
    BY <1>8 DEF StreamRaises, Broadcast, TypeOK
  <2>2. announced[target[r]] \in Seq(Events) /\ ErrorEvent(r) \in Events
    BY DEF TypeOK, ErrorEvent, Events
  <2>3. Len(announced[target[r]]) + 1 \in DOMAIN announced'[target[r]]
        /\ announced'[target[r]][Len(announced[target[r]]) + 1] = ErrorEvent(r)
    BY <2>1, <2>2, OneMore
  <2>4. RaisedInLog(r)'
    BY <1>1, <2>3 DEF RaisedInLog, LogOf, ErrorEvent
  <2> QED
    BY <1>1, <2>4 DEF RaisedInLog, Onwards, Failed
<1>9. CASE StreamExhausted(r)
  BY <1>1, <1>9 DEF StreamExhausted, Onwards, Failed, TypeOK
<1> QED
  BY <1>4, <1>5, <1>6, <1>7, <1>8, <1>9

Owned(t) ==
  Exists(tasks, t) =>
    LET r == tasks[t].status.run IN
    target[r] = t /\ (Settled(t) \/ Failed(r) \/ WillWrite(r))

LEMMA OwnedStays ==
  ASSUME TypeOK, NEW t \in TaskIds, Owned(t), Exists(tasks, t),
         tasks'[t].status = tasks[t].status,
         target[tasks[t].status.run] = t => Onwards(tasks[t].status.run)
  PROVE  Owned(t)'
BY DEF Owned, Onwards, Settled

LEMMA OwnerIsRequest ==
  ASSUME TypeOK, NEW t \in TaskIds, Owned(t), Exists(tasks, t)
  PROVE  tasks[t].status.run \in Requests /\ target[tasks[t].status.run] = t
<1>1. tasks[t] \in Tasks
  BY DEF TypeOK, Exists
<1> QED
  BY <1>1 DEF Tasks, Statuses, Owned

(* A step that writes no status: the requests go on.                       *)
LEMMA UnwrittenStaysOwned ==
  ASSUME TypeOK, AnnounceStep, UNCHANGED <<tasks, target>>, NEW r,
         r \in Requests /\ target[r] \in TaskIds => Onwards(r),
         \A q \in Requests : (q # r /\ target[q] \in TaskIds) =>
           pc'[q] = pc[q] /\ newStatus'[q] = newStatus[q] /\ reply'[q] = reply[q],
         NEW t \in TaskIds, Owned(t)
  PROVE  Owned(t)'
<1>1. CASE ~Exists(tasks, t)
  BY <1>1 DEF Owned, Exists
<1>2. CASE Exists(tasks, t)
  <2> DEFINE q == tasks[t].status.run
  <2>1. q \in Requests /\ target[q] = t
    BY <1>2, OwnerIsRequest
  <2>2. Onwards(q)
    <3> HIDE DEF q
    <3>1. CASE q = r
      BY <2>1, <3>1
    <3>2. CASE q # r
      BY <2>1, <3>2, RestingGoesOn
    <3> QED
      BY <3>1, <3>2
  <2> QED
    BY <1>2, <2>2, OwnedStays
<1> QED
  BY <1>1, <1>2

(* A step of r that writes the status of a task: the other tasks.          *)
LEMMA OthersStayOwned ==
  ASSUME TypeOK, AnnounceStep, NEW r \in Requests,
         \A q \in Requests : q # r => /\ target'[q] = target[q] /\ pc'[q] = pc[q]
                                      /\ newStatus'[q] = newStatus[q]
                                      /\ reply'[q] = reply[q],
         NEW t \in TaskIds, Owned(t), target[r] # t,
         tasks'[t] # NoTask => tasks[t] # NoTask,
         tasks'[t].status = tasks[t].status
  PROVE  Owned(t)'
<1>1. CASE ~Exists(tasks, t)
  BY <1>1 DEF Owned, Exists
<1>2. CASE Exists(tasks, t)
  <2> DEFINE q == tasks[t].status.run
  <2>1. q \in Requests /\ target[q] = t
    BY <1>2, OwnerIsRequest
  <2> HIDE DEF q
  <2>2. q # r
    BY <2>1
  <2>3. Onwards(q)
    BY <2>1, <2>2, RestingGoesOn
  <2> QED
    BY <1>2, <2>3, OwnedStays DEF q
<1> QED
  BY <1>1, <1>2

LEMMA NextStatusOwned ==
  ASSUME TypeOK, Lifecycle, Progress, StatusOwned, AnnounceStep, [Next]_vars
  PROVE  StatusOwned'
<1>0. tasks \in Stores /\ NoId \notin TaskIds
  BY TaskManagerAssumption DEF TypeOK, Stores
<1>a. (StatusOwned <=> \A t \in TaskIds : Owned(t))
      /\ (StatusOwned' <=> \A t \in TaskIds : Owned(t)')
  BY DEF StatusOwned, Owned
<1>b. \A t \in TaskIds : Owned(t)
  BY <1>a
<1> USE DEF store, sse
<1>1. ASSUME NEW r \in Requests, RejectRequest(r)
      PROVE  \A t \in TaskIds : Owned(t)'
  <2>1. /\ UNCHANGED <<tasks, target>> /\ target[r] \notin TaskIds
        /\ \A q \in Requests : q # r =>
             pc'[q] = pc[q] /\ newStatus'[q] = newStatus[q] /\ reply'[q] = reply[q]
    BY <1>0, <1>1 DEF RejectRequest, Arrives, Progress, TypeOK
  <2> QED
    BY <1>b, <2>1, UnwrittenStaysOwned
<1>2. ASSUME NEW r \in Requests, NEW t \in TaskIds, OnSendTask(r, t)
      PROVE  \A u \in TaskIds : Owned(u)'
  <2> DEFINE working == TaskStatus("working", r, 0, FALSE)
  <2>1. /\ target[r] = NoId /\ target'[r] = t /\ pc'[r] \in {"post_working", "invoke"}
        /\ \A q \in Requests : q # r => /\ target'[q] = target[q] /\ pc'[q] = pc[q]
                                        /\ newStatus'[q] = newStatus[q]
                                        /\ reply'[q] = reply[q]
    BY <1>2 DEF OnSendTask, Arrives, Progress, TypeOK, AfterNotify
  <2>2. working \in Statuses /\ working.run = r
    BY TaskStatusTyped DEF TaskStates, TaskStatus
  <2>3. tasks' = UpdateStore(UpsertTask(tasks, t, r), t, working, <<>>)
    BY <1>2 DEF OnSendTask
  <2>4. UpsertTask(tasks, t, r) \in Stores /\ <<>> \in Seq(Requests)
    BY <1>0, UpsertTaskTyped
  <2> HIDE DEF working
  <2>5. tasks'[t].status = working
    BY <2>2, <2>3, <2>4, UpdateStoreAppends
  <2>6. \A u \in TaskIds : u # t => tasks'[u] = tasks[u]
    <3>1. \A u \in TaskIds : u # t => tasks'[u] = UpsertTask(tasks, t, r)[u]
      BY <2>3, <2>4 DEF UpdateStore, Stores
    <3>2. \A u \in TaskIds : u # t => UpsertTask(tasks, t, r)[u] = tasks[u]
      BY <1>0, UpsertTaskAppends DEF Appended
    <3> QED
      BY <3>1, <3>2
  <2>7. Owned(t)'
    BY <2>1, <2>2, <2>5 DEF Owned, WillWrite
  <2>8. ASSUME NEW u \in TaskIds, u # t
        PROVE  Owned(u)'
    BY <1>0, <1>b, <2>1, <2>6, <2>8, OthersStayOwned
  <2> QED
    BY <2>7, <2>8
<1>3. ASSUME NEW r \in Requests, NEW t \in TaskIds, OnSendTaskSubscribe(r, t)
      PROVE  \A u \in TaskIds : Owned(u)'
  <2>1. /\ target[r] = NoId /\ target'[r] = t /\ pc'[r] = "stream"
        /\ \A q \in Requests : q # r => /\ target'[q] = target[q] /\ pc'[q] = pc[q]
                                        /\ newStatus'[q] = newStatus[q]
                                        /\ reply'[q] = reply[q]
    BY <1>3 DEF OnSendTaskSubscribe, Arrives, Progress, TypeOK
  <2>2. tasks' = UpsertTask(tasks, t, r)
    BY <1>3 DEF OnSendTaskSubscribe
  <2>3. \A u \in TaskIds : u # t => tasks'[u] = tasks[u]
    BY <1>0, <2>2, UpsertTaskAppends DEF Appended
  <2>4. Owned(t)'
    <3>1. CASE Exists(tasks, t)
      <4>1. tasks'[t].status = tasks[t].status
        <5>1. tasks[t] \in Tasks
          BY <1>0, <3>1 DEF Exists, Stores
        <5> QED
          BY <1>0, <2>2, <3>1, <5>1 DEF UpsertTask, Stores, Tasks
      <4> QED
        BY <1>0, <1>b, <2>1, <3>1, <4>1, OthersStayOwned DEF Exists
    <3>2. CASE ~Exists(tasks, t)
      <4>1. tasks'[t].status.run = r
        BY <1>0, <2>2, <3>2 DEF UpsertTask, Stores, NewTask, TaskStatus
      <4> QED
        BY <2>1, <4>1 DEF Owned, WillWrite
    <3> QED
      BY <3>1, <3>2
  <2>5. ASSUME NEW u \in TaskIds, u # t
        PROVE  Owned(u)'
    BY <1>0, <1>b, <2>1, <2>3, <2>5, OthersStayOwned
  <2> QED
    BY <2>4, <2>5
<1>4. ASSUME NEW r \in Requests,
             \/ WorkingPosted(r) \/ AgentRaises(r) \/ ResultPosted(r)
             \/ UpdatePosted(r) \/ StreamRaises(r) \/ StreamExhausted(r)
      PROVE  \A t \in TaskIds : Owned(t)'
  <2>1. target[r] \in TaskIds
    BY <1>4, ActiveHasTarget DEF HasTarget, SendStep, RunnerStep
  <2>2. Onwards(r)
    BY <1>4, <2>1, QuietStepGoesOn
  <2>3. /\ UNCHANGED <<tasks, target>>
        /\ \A q \in Requests : q # r =>
             pc'[q] = pc[q] /\ newStatus'[q] = newStatus[q] /\ reply'[q] = reply[q]
    BY <1>4 DEF WorkingPosted, AgentRaises, ResultPosted, UpdatePosted, StreamRaises,
                StreamExhausted, TypeOK
  <2> QED
    BY <1>b, <2>2, <2>3, UnwrittenStaysOwned
<1>5. ASSUME NEW r \in Requests, AgentResponds(r)
      PROVE  \A t \in TaskIds : Owned(t)'
  <2>0. HasTarget(r)
    BY <1>5, ActiveHasTarget DEF SendStep
  <2>1. PICK t \in TaskIds : t = target[r]
    BY <2>0 DEF HasTarget
  <2>2. PICK st \in Statuses, as \in Seq(Requests) :
          st.run = r /\ Final(st) /\ tasks' = UpdateStore(tasks, target[r], st, as)
    BY <1>5, <2>0, RespondsStep
  <2>3. /\ UNCHANGED target
        /\ \A q \in Requests : q # r =>
             pc'[q] = pc[q] /\ newStatus'[q] = newStatus[q] /\ reply'[q] = reply[q]
    BY <1>5 DEF AgentResponds, TypeOK
  <2>4. /\ tasks'[t].status = st
        /\ \A u \in TaskIds : u # t => tasks'[u] = tasks[u]
    <3>1. tasks' = UpdateStore(tasks, t, st, as)
      BY <2>1, <2>2
    <3> QED
      BY <1>0, <3>1 DEF UpdateStore, Stores
  <2>5. Owned(t)'
    BY <2>1, <2>2, <2>3, <2>4 DEF Owned, Settled, Final
  <2>6. ASSUME NEW u \in TaskIds, u # t
        PROVE  Owned(u)'
    BY <1>b, <2>1, <2>3, <2>4, <2>6, OthersStayOwned
  <2> QED
    BY <2>5, <2>6
<1>6. ASSUME NEW r \in Requests, StreamItem(r)
      PROVE  \A t \in TaskIds : Owned(t)'
  <2>1. PICK t \in TaskIds : t = target[r]
    BY <1>6, ActiveHasTarget DEF RunnerStep, HasTarget
  <2>2. PICK st \in Statuses, as \in Seq(Requests), es \in Seq(Events) : ItemStep(r, st, as, es)
    BY <1>6, StreamItemStep
  <2>3. /\ UNCHANGED <<target, reply>>
        /\ st.run = r /\ newStatus'[r] = st
        /\ pc'[r] = AfterNotify(target[r], "post_update", AfterStatus(st))
        /\ tasks' = UpdateStore(tasks, target[r], st, as)
        /\ \A q \in Requests : q # r => pc'[q] = pc[q] /\ newStatus'[q] = newStatus[q]
    BY <1>6, <2>2 DEF ItemStep, StreamItem, TypeOK
  <2>4. /\ tasks'[t].status = st
        /\ \A u \in TaskIds : u # t => tasks'[u] = tasks[u]
    <3>1. tasks' = UpdateStore(tasks, t, st, as)
      BY <2>1, <2>3
    <3> QED
      BY <1>0, <3>1 DEF UpdateStore, Stores
  <2>5. Owned(t)'
    <3>1. CASE Final(st)
      BY <2>1, <2>3, <2>4, <3>1 DEF Owned, Settled, Final
    <3>2. CASE ~Final(st)
      <4>1. WillWrite(r)'
        BY <2>3, <3>2 DEF WillWrite, AfterNotify, AfterStatus, Final
      <4> QED
        BY <2>1, <2>3, <2>4, <4>1 DEF Owned
    <3> QED
      BY <3>1, <3>2
  <2>6. ASSUME NEW u \in TaskIds, u # t
        PROVE  Owned(u)'
    BY <1>b, <2>1, <2>3, <2>4, <2>6, OthersStayOwned
  <2> QED
    BY <2>5, <2>6
<1>7. ASSUME UNCHANGED <<tasks, target, pc, newStatus, reply>>
      PROVE  \A t \in TaskIds : Owned(t)'
  <2>1. Nobody \notin Requests
    BY NobodyAssumption
  <2> QED
    BY <1>b, <1>7, <2>1, UnwrittenStaysOwned
<1>8. ASSUME NEW r \in Requests, ConsumerStep(r) \/ ClientDisconnects(r)
      PROVE  UNCHANGED <<tasks, target, pc, newStatus, reply>>
  BY <1>8 DEF ConsumerStep, DeliverEvent, CloseStream, ClientDisconnects
<1>9. CASE UNCHANGED vars \/ \E t \in TaskIds : SetPushNotification(t)
  <2>1. UNCHANGED <<tasks, target, pc, newStatus, reply>>
    BY <1>9 DEF vars, SetPushNotification
  <2> QED
    BY <1>a, <1>7, <2>1
<1>10. \A t \in TaskIds : Owned(t)'
  BY <1>a, <1>1, <1>2, <1>3, <1>4, <1>5, <1>6, <1>7, <1>8, <1>9
  DEF Next, ClientCalls, SendStep, RunnerStep
<1> QED
  BY <1>a, <1>10

-----------------------------------------------------------------------------
(* The inductive invariant of the store, and what follows from it.         *)

LEMMA InitStoreInv == Init => StoreInv
<1> SUFFICES ASSUME Init
             PROVE  StoreInv
  OBVIOUS
<1>1. Progress /\ PendingIsStored /\ OwnUpdatesComplete
  BY DEF Init, Progress, PendingIsStored, OwnUpdatesComplete, Connected, NoReply
<1>2. HistoryOwned /\ StatusOwned
  BY DEF Init, HistoryOwned, StatusOwned, NoTask, Exists
<1>3. QuestionBeforeAnswers /\ AnnouncedIsStored
  BY DEF Init, QuestionBeforeAnswers, AnnouncedIsStored
<1> QED
  BY <1>1, <1>2, <1>3 DEF StoreInv

LEMMA NextStoreInv == IInv /\ StoreInv /\ [Next]_vars => StoreInv'
<1> SUFFICES ASSUME IInv, StoreInv, [Next]_vars
             PROVE  StoreInv'
  OBVIOUS
<1> USE DEF IInv, StoreInv
<1>1. TypeOK'
  BY NextTypeOK
<1>2. StoreStep /\ AnnounceStep
  BY NextStoreStep, NextAnnounceStep
<1>3. MessageStep
  BY <1>2, StoreStepAddsMessage
<1>4. HistoryOwned' /\ QuestionBeforeAnswers'
  BY <1>3, NextHistoryOwned, NextQuestionBeforeAnswers
<1>5. PendingIsStored' /\ AnnouncedIsStored'
  BY <1>1, <1>2, NextPendingIsStored, NextAnnouncedIsStored
<1>6. Progress' /\ OwnUpdatesComplete' /\ StatusOwned'
  BY <1>2, NextProgress, NextOwnUpdatesComplete, NextStatusOwned
<1> QED
  BY <1>4, <1>5, <1>6

(* StoreInv holds in every reachable state of the task manager.            *)
THEOREM StoreInductive == Spec => []StoreInv
<1>1. Init => StoreInv
  BY InitStoreInv
<1>2. IInv /\ StoreInv /\ [Next]_vars => StoreInv'
  BY NextStoreInv
<1> QED
  BY <1>1, <1>2, Inductive, PTL DEF Spec

(* upsert_task appends the user message of every accepted request to the   *)
(* history of its task, once, and before any answer to it.                 *)
THEOREM QuestionsComeFirst == Spec => []QuestionBeforeAnswers
<1>1. StoreInv => QuestionBeforeAnswers
  BY DEF StoreInv
<1> QED
  BY <1>1, StoreInductive, PTL

(* _run_streaming_agent has update_store write what an event tells before  *)
(* it enqueues the event, also when a POST lies in between.                *)
THEOREM NothingUnstoredAnnounced == Spec => []AnnouncedIsStored
<1>1. StoreInv => AnnouncedIsStored
  BY DEF StoreInv
<1> QED
  BY <1>1, StoreInductive, PTL

(* The stream of a request carries every status its run has built, in      *)
(* order and once, whatever happens between the update and its event.      *)
THEOREM NoUpdateLost == Spec => []OwnUpdatesComplete
<1>1. StoreInv => OwnUpdatesComplete
  BY DEF StoreInv
<1> QED
  BY <1>1, StoreInductive, PTL

(* No interleaving of runs that all finish leaves a task WORKING: the run  *)
(* that wrote the status of a quiet task has written its last one.         *)
THEOREM QuietTasksSettle == Spec => []SettledUnlessFailed
<1>1. TypeOK /\ StoreInv => SettledUnlessFailed
  <2> SUFFICES ASSUME TypeOK, StoreInv, NEW t \in TaskIds, Quiet(t),
                      \A r \in Requests : target[r] = t => ~Failed(r)
               PROVE  Settled(t)
    BY DEF SettledUnlessFailed
  <2> DEFINE r == tasks[t].status.run
  <2>1. target[r] = t /\ (Settled(t) \/ Failed(r) \/ WillWrite(r))
    BY DEF StoreInv, StatusOwned, Quiet
  <2>2. r \in Requests
    BY DEF Quiet, Exists, TypeOK, Tasks, Statuses
  <2>3. ~WillWrite(r)
    BY <2>1, <2>2 DEF Quiet, Running, WillWrite
  <2> HIDE DEF r
  <2> QED
    BY <2>1, <2>2, <2>3
<1> QED
  BY <1>1, StoreInductive, TypeCorrect, PTL

(* upsert_task and update_store only ever append: no step of any request   *)
(* shortens or rewrites a history or a list of artifacts.                  *)
THEOREM StoreOnlyGrows == Spec => TasksOnlyGrow
<1>1. IInv /\ StoreInv /\ [Next]_vars =>
        [\A t \in TaskIds : /\ IsPrefixOf(tasks[t].history, tasks'[t].history)
                            /\ IsPrefixOf(tasks[t].artifacts, tasks'[t].artifacts)]_vars
  BY NextStoreStep, StoreGrows DEF IInv, StoreInv
<1> QED
  BY <1>1, Inductive, StoreInductive, PTL DEF Spec, TasksOnlyGrow

-----------------------------------------------------------------------------
(* An agent that neither raises nor stops early leaves no request failed.  *)

NoErrors(es) == \A i \in DOMAIN es : es[i].type # "error"

NoneFails ==
  /\ \A r \in Requests : pc[r] # "exhausted" /\ (reply[r].type = "error" => target[r] = NoId)
  /\ \A t \in TaskIds : NoErrors(announced[t])

LEMMA ConcatNoErrors ==
  ASSUME NEW s \in Seq(Events), NEW u \in Seq(Events), NoErrors(s), NoErrors(u)
  PROVE  NoErrors(s \o u)
BY ConcatElement DEF NoErrors

LEMMA StatusEventsAreNoErrors ==
  ASSUME NEW st \in Statuses
  PROVE  NoErrors(StatusEvents(st))
<1> DEFINE e == StatusEvent(st, Final(st))
<1>1. e \in Events /\ e.type = "status"
  BY StatusEventTyped DEF StatusEvent
<1>2. StatusEvents(st) = <<e>>
  BY DEF StatusEvents
<1> HIDE DEF e
<1> QED
  BY <1>1, <1>2, SingleEvent DEF NoErrors

LEMMA ArtifactsAreNoErrors ==
  ASSUME NEW r \in Requests, NEW st
  PROVE  NoErrors(Artifacts(r, st))
<1>1. ArtifactEvent(r) \in Events /\ ArtifactEvent(r).type = "artifact"
  BY DEF ArtifactEvent, Events
<1>2. CASE st.state = "completed"
  BY <1>1, <1>2, SingleEvent DEF Artifacts, NoErrors
<1>3. CASE st.state # "completed"
  BY <1>3 DEF Artifacts, NoErrors
<1> QED
  BY <1>2, <1>3

LEMMA BroadcastNoErrors ==
  ASSUME TypeOK, NEW t \in TaskIds, NEW es \in Seq(Events), Broadcast(t, es), NoErrors(es),
         \A u \in TaskIds : NoErrors(announced[u])
  PROVE  \A u \in TaskIds : NoErrors(announced'[u])
<1>1. announced'[t] = announced[t] \o es /\ announced[t] \in Seq(Events)
  BY DEF Broadcast, TypeOK
<1>2. NoErrors(announced'[t])
  BY <1>1, ConcatNoErrors
<1>3. \A u \in TaskIds : u # t => announced'[u] = announced[u]
  BY DEF Broadcast, TypeOK
<1> QED
  BY <1>2, <1>3

LEMMA FaultlessRunner ==
  ASSUME AgentFaults = {}, TypeOK, Lifecycle, NEW r \in Requests, RunnerStep(r)
  PROVE  \E es \in Seq(Events) : Broadcast(target[r], es) /\ NoErrors(es)
<1>1. CASE StreamItem(r)
  <2>1. PICK st \in Statuses, as \in Seq(Requests), es \in Seq(Events) : ItemStep(r, st, as, es)
    BY <1>1, StreamItemStep
  <2>2. /\ Artifacts(r, st) \in Seq(Events) /\ StatusEvents(st) \in Seq(Events)
        /\ NoErrors(Artifacts(r, st)) /\ NoErrors(StatusEvents(st))
    BY ArtifactsTyped, StatusEventsTyped, ArtifactsAreNoErrors, StatusEventsAreNoErrors
  <2>3. NoErrors(Artifacts(r, st) \o StatusEvents(st))
    BY <2>2, ConcatNoErrors
  <2> QED
    BY <2>1, <2>2, <2>3 DEF ItemStep, AfterNotify
<1>2. CASE UpdatePosted(r)
  <2>1. newStatus[r] \in Statuses
    BY <1>2, NobodyAssumption DEF TypeOK, Lifecycle, UpdatePosted, NoStatus
  <2> QED
    BY <1>2, <2>1, StatusEventsTyped, StatusEventsAreNoErrors DEF UpdatePosted
<1> QED
  BY <1>1, <1>2 DEF RunnerStep, StreamRaises, StreamExhausted

LEMMA NextNoneFails ==
  ASSUME AgentFaults = {}, IInv, StoreInv, NoneFails, [Next]_vars
  PROVE  NoneFails'
<1> USE DEF sse, store
<1>0. TypeOK /\ Lifecycle /\ Progress
  BY DEF IInv, StoreInv
<1>1. ASSUME UNCHANGED announced
      PROVE  \A t \in TaskIds : NoErrors(announced[t])'
  BY <1>1 DEF NoneFails, NoErrors
<1>2. ASSUME NEW r \in Requests, RejectRequest(r)
      PROVE  NoneFails'
  <2>1. target[r] = NoId
    BY <1>0, <1>2 DEF RejectRequest, Arrives, Progress
  <2> QED
    BY <1>0, <1>1, <1>2, <2>1 DEF RejectRequest, NoneFails, TypeOK
<1>3. ASSUME NEW r \in Requests, NEW t \in TaskIds,
             OnSendTask(r, t) \/ OnSendTaskSubscribe(r, t)
      PROVE  NoneFails'
  <2>1. reply[r].type = "none"
    BY <1>0, <1>3 DEF OnSendTask, OnSendTaskSubscribe, Arrives, Progress
  <2>2. UNCHANGED <<reply, announced>> /\ \A q \in Requests : q # r => target'[q] = target[q]
    BY <1>0, <1>3 DEF OnSendTask, OnSendTaskSubscribe, TypeOK
  <2>3. \A q \in Requests : pc'[q] # "exhausted"
    BY <1>0, <1>3 DEF OnSendTask, OnSendTaskSubscribe, AfterNotify, NoneFails, TypeOK
  <2> QED
    BY <1>1, <2>1, <2>2, <2>3 DEF NoneFails
<1>4. ASSUME NEW r \in Requests, SendStep(r)
      PROVE  NoneFails'
  <2>1. ~AgentRaises(r)
    BY DEF AgentRaises
  <2>2. UNCHANGED <<target, announced>>
    BY <1>4 DEF SendStep, WorkingPosted, AgentResponds, AgentRaises, ResultPosted
  <2>3. \A q \in Requests : pc'[q] # "exhausted"
    BY <1>0, <1>4 DEF SendStep, WorkingPosted, AgentResponds, AgentRaises, ResultPosted,
                      AfterNotify, NoneFails, TypeOK
  <2>4. \A q \in Requests : reply'[q].type = "error" => reply[q].type = "error"
    <3>1. NoReply.type # "error" /\ \A t : TaskReply(t).type # "error"
      BY DEF NoReply, TaskReply
    <3>2. CASE WorkingPosted(r)
      BY <3>2 DEF WorkingPosted
    <3>3. CASE AgentResponds(r)
      <4>1. \/ reply' = [reply EXCEPT ![r] = NoReply]
            \/ reply' = [reply EXCEPT ![r] = TaskReply(target[r])]
        BY <3>3 DEF AgentResponds, AfterNotify
      <4>2. PICK answer : answer.type # "error" /\ reply' = [reply EXCEPT ![r] = answer]
        <5>1. CASE reply' = [reply EXCEPT ![r] = NoReply]
          BY <3>1, <5>1
        <5>2. CASE reply' = [reply EXCEPT ![r] = TaskReply(target[r])]
          BY <3>1, <5>2
        <5> QED
          BY <4>1, <5>1, <5>2
      <4> QED
        BY <1>0, <4>2 DEF TypeOK
    <3>4. CASE ResultPosted(r)
      BY <1>0, <3>1, <3>4 DEF ResultPosted, TypeOK
    <3> QED
      BY <1>4, <2>1, <3>2, <3>3, <3>4 DEF SendStep
  <2> QED
    BY <1>1, <2>2, <2>3, <2>4 DEF NoneFails
<1>5. ASSUME NEW r \in Requests, RunnerStep(r)
      PROVE  NoneFails'
  <2>1. HasTarget(r) /\ ~StreamExhausted(r)
    BY <1>0, <1>5, ActiveHasTarget DEF StreamExhausted
  <2>2. \A t \in TaskIds : NoErrors(announced'[t])
    BY <1>0, <1>5, <2>1, FaultlessRunner, BroadcastNoErrors DEF HasTarget, NoneFails
  <2>3. UNCHANGED target /\ \A q \in Requests : pc'[q] # "exhausted"
    BY <1>0, <1>5, <2>1, RunnerFrame DEF NoneFails
  <2>4. UNCHANGED reply
    BY <1>5 DEF RunnerStep, StreamItem, UpdatePosted, StreamRaises, StreamExhausted
  <2> QED
    BY <2>2, <2>3, <2>4 DEF NoneFails, NoErrors
<1>6. ASSUME NEW r \in Requests, ConsumerStep(r) \/ ClientDisconnects(r)
      PROVE  NoneFails'
  <2>1. UNCHANGED <<target, pc, reply, announced>>
    BY <1>6 DEF ConsumerStep, DeliverEvent, CloseStream, ClientDisconnects
  <2> QED
    BY <1>1, <2>1 DEF NoneFails
<1>7. ASSUME (\E t \in TaskIds : SetPushNotification(t)) \/ UNCHANGED vars
      PROVE  NoneFails'
  <2>1. UNCHANGED <<target, pc, reply, announced>>
    BY <1>7 DEF SetPushNotification, vars
  <2> QED
    BY <1>1, <2>1 DEF NoneFails
<1> QED
  BY <1>2, <1>3, <1>4, <1>5, <1>6, <1>7 DEF Next, ClientCalls

(* Only a fault of the agent leaves a task unsettled: with an agent that   *)
(* neither raises nor stops early, every task whose requests have all      *)
(* ended waits for input or is completed, however they interleaved.        *)
THEOREM FaultlessTasksSettle ==
  ASSUME AgentFaults = {}
  PROVE  Spec => []QuietTaskSettled
<1>1. Init => NoneFails
  <2> SUFFICES ASSUME Init
               PROVE  NoneFails
    OBVIOUS
  <2>1. NoReply.type = "none"
    BY DEF NoReply
  <2>2. \A r \in Requests : pc[r] = "idle" /\ target[r] = NoId
    BY DEF Init
  <2>3. \A t \in TaskIds : announced[t] = <<>>
    BY DEF Init
  <2> QED
    BY <2>2, <2>3 DEF NoneFails, NoErrors
<1>2. IInv /\ StoreInv /\ NoneFails /\ [Next]_vars => NoneFails'
  BY NextNoneFails
<1>3. NoneFails /\ TypeOK /\ SettledUnlessFailed => QuietTaskSettled
  <2> SUFFICES ASSUME NoneFails, TypeOK, SettledUnlessFailed, NEW t \in TaskIds, Quiet(t)
               PROVE  Settled(t)
    BY DEF QuietTaskSettled
  <2>1. ASSUME NEW r \in Requests, target[r] = t
        PROVE  ~Failed(r)
    <3>1. \A i \in DOMAIN announced[t] : announced[t][i] # ErrorEvent(r)
      BY DEF NoneFails, NoErrors, ErrorEvent
    <3> QED
      BY <2>1, <3>1, TaskManagerAssumption DEF NoneFails, Failed, LogOf
  <2> QED
    BY <2>1 DEF SettledUnlessFailed
<1> QED
  BY <1>1, <1>2, <1>3, Inductive, StoreInductive, TypeCorrect, QuietTasksSettle, PTL DEF Spec
=============================================================================
