--------------------------- MODULE HttpTriggerProofs ---------------------------
(***************************************************************************)
(* Proofs about HttpTrigger: whatever the body of a request, the chunks of *)
(* the model and the moment it raises, a streamed reply tells one story,   *)
(* and it is known exactly which requests get a JSON-RPC response.         *)
(***************************************************************************)
EXTENDS HttpTrigger, TLAPS

Replies == [kind   : {"none", "crash", "error", "result", "stream"},
            status : {0, 200, 400, 404, 500},
            code   : {0, -32601, -32602, -32603},
            id     : Requests \cup {NoId},
            events : Seq(Events)]

-----------------------------------------------------------------------------
(* The replies.                                                            *)

LEMMA EmptyReply ==
  <<>> \in Seq(Events) /\ NoReply \in Replies /\ NoReply.kind = "none"
BY DEF NoReply, Reply, Replies

LEMMA CrashReply ==
  Crash \in Replies /\ Crash.kind = "crash" /\ Crash.id = NoId
BY EmptyReply DEF Crash, Reply, Replies

LEMMA ErrorReply ==
  ASSUME NEW status \in {400, 404, 500}, NEW code \in {-32601, -32602, -32603},
         NEW id \in Requests \cup {NoId}
  PROVE  /\ Error(status, code, id) \in Replies
         /\ Error(status, code, id).kind = "error" /\ Error(status, code, id).id = id
BY EmptyReply DEF Error, Reply, Replies

LEMMA ResultReply ==
  ASSUME NEW state \in States, NEW id \in Requests
  PROVE  /\ Result(state, id) \in Replies
         /\ Result(state, id).kind = "result" /\ Result(state, id).id = id
<1>1. Task(state) \in Events
  BY DEF Task, Events
<1>2. <<Task(state)>> \in Seq(Events)
  BY <1>1
<1> QED
  BY <1>2 DEF Result, Reply, Replies

LEMMA StreamReply ==
  ASSUME NEW events \in Seq(Events)
  PROVE  /\ EventStream(events) \in Replies /\ EventStream(events).id = NoId
         /\ EventStream(events).kind = "stream" /\ EventStream(events).events = events
BY DEF EventStream, Reply, Replies

(* An except clause of main answers with the id it has read.               *)
LEMMA FailureReply ==
  ASSUME NEW method, NEW r \in Requests
  PROVE  /\ Failure(method, r) \in Replies
         /\ Failure(method, r).kind = "error" /\ Failure(method, r).id = r
BY ErrorReply DEF Failure

LEMMA RejectionReply ==
  ASSUME NEW c \in Calls, NEW r \in Requests
  PROVE  /\ Rejection(c, r) \in Replies /\ Rejection(c, r).kind \in {"error", "crash"}
         /\ Rejection(c, r).kind = "crash" <=> c.body = "array"
         /\ Rejection(c, r).id = IF c.body = "object" THEN r ELSE NoId
<1>1. CASE c.body = "malformed"
  BY <1>1, ErrorReply DEF Rejection
<1>2. CASE c.body = "array"
  BY <1>2, CrashReply DEF Rejection
<1>3. CASE c.body = "object" /\ c.params = "unindexable"
  BY <1>3, ErrorReply DEF Rejection
<1>4. CASE c.body = "object" /\ c.params # "unindexable" /\ c.method = "other"
  BY <1>4, ErrorReply DEF Rejection
<1>5. CASE c.body = "object" /\ c.params # "unindexable" /\ c.method # "other"
  BY <1>5, FailureReply DEF Rejection
<1>6. c.body \in {"malformed", "array", "object"}
  BY DEF Calls
<1> QED
  BY <1>1, <1>2, <1>3, <1>4, <1>5, <1>6

-----------------------------------------------------------------------------
(* One request's share of the invariant.                                   *)

Typed(r) ==
  /\ call[r] \in Calls
  /\ pc[r] \in {"idle", "get_response", "invoke_stream", "done"}
  /\ tool_call_in_progress[r] \in BOOLEAN /\ message_in_progress[r] \in BOOLEAN
  /\ response_data[r] \in Seq(Events)
  /\ answer[r] \in Answers \cup {"none"}
  /\ reply[r] \in Replies

OneStory(r) ==
  reply[r].kind = "stream" =>
    LET events == reply[r].events
        last   == events[Len(events)]
    IN  /\ events # <<>> /\ last.type = "task"
        /\ last.state = "completed" <=> answer[r] = "completed"
        /\ last.state = "failed" <=> answer[r] \notin {"completed", "input_required", "error"}
        /\ \A i, j \in DOMAIN events : i # j => events[i].text # events[j].text

Conforms(r) ==
  pc[r] = "done" => (IsJsonRpc(r) <=> call[r].body # "array" /\ ~Streamed(r))

Collects(r) ==
  /\ pc[r] # "done" => reply[r] = NoReply /\ answer[r] = "none"
  /\ pc[r] = "idle" => response_data[r] = <<>>
  /\ pc[r] = "get_response" => Branch(r, "SendMessage")
  /\ pc[r] = "invoke_stream" => Branch(r, "SendStreamingMessage") /\ Notices(r)

Good(r) == Typed(r) /\ Collects(r) /\ OneStory(r) /\ Conforms(r)

IsMap(f) == f = [r \in Requests |-> f[r]]

Functions ==
  /\ IsMap(call) /\ IsMap(pc) /\ IsMap(tool_call_in_progress) /\ IsMap(message_in_progress)
  /\ IsMap(response_data) /\ IsMap(answer) /\ IsMap(reply)

LEMMA Parts == HInv <=> Functions /\ \A r \in Requests : Good(r)
<1>1. TypeOK <=> Functions /\ \A r \in Requests : Typed(r)
  BY DEF TypeOK, Functions, IsMap, Typed, Replies
<1>2. /\ Collecting <=> \A r \in Requests : Collects(r)
      /\ StreamTellsOneStory <=> \A r \in Requests : OneStory(r)
      /\ JsonRpcUnlessStreamed <=> \A r \in Requests : Conforms(r)
  BY DEF Collecting, Collects, StreamTellsOneStory, OneStory, JsonRpcUnlessStreamed, Conforms
<1> QED
  BY <1>1, <1>2 DEF HInv, Good

LEMMA PartsNext == HInv' <=> Functions' /\ \A r \in Requests : Good(r)'
<1>1. TypeOK' <=> Functions' /\ \A r \in Requests : Typed(r)'
  BY DEF TypeOK, Functions, IsMap, Typed, Replies
<1>2. /\ Collecting' <=> \A r \in Requests : Collects(r)'
      /\ StreamTellsOneStory' <=> \A r \in Requests : OneStory(r)'
      /\ JsonRpcUnlessStreamed' <=> \A r \in Requests : Conforms(r)'
  BY DEF Collecting, Collects, StreamTellsOneStory, OneStory, JsonRpcUnlessStreamed, Conforms
<1> QED
  BY <1>1, <1>2 DEF HInv, Good

-----------------------------------------------------------------------------
(* What a stream collects.                                                 *)

Distinct(events) == \A i, j \in DOMAIN events : i # j => events[i].text # events[j].text

LEMMA AppendDistinct ==
  ASSUME NEW events \in Seq(Events), NEW e \in Events, Distinct(events),
         \A i \in DOMAIN events : events[i].text # e.text
  PROVE  /\ Append(events, e) \in Seq(Events)
         /\ Distinct(Append(events, e))
         /\ Append(events, e) # <<>>
         /\ Append(events, e)[Len(Append(events, e))] = e
<1> DEFINE after == Append(events, e)
<1>1. /\ after \in Seq(Events) /\ Len(after) = Len(events) + 1 /\ Len(events) \in Nat
      /\ after[Len(events) + 1] = e
      /\ DOMAIN after = 1 .. Len(events) + 1 /\ DOMAIN events = 1 .. Len(events)
      /\ \A i \in DOMAIN events : after[i] = events[i]
  OBVIOUS
<1> HIDE DEF after
<1>2. ASSUME NEW i \in DOMAIN after
      PROVE  i = Len(events) + 1 \/ i \in DOMAIN events
  BY <1>1
<1>3. Distinct(after)
  <2> SUFFICES ASSUME NEW i \in DOMAIN after, NEW j \in DOMAIN after, i # j
               PROVE  after[i].text # after[j].text
    BY DEF Distinct
  <2>1. CASE i \in DOMAIN events /\ j \in DOMAIN events
    BY <1>1, <2>1 DEF Distinct
  <2>2. CASE i \notin DOMAIN events
    BY <1>1, <1>2, <2>2
  <2>3. CASE j \notin DOMAIN events
    BY <1>1, <1>2, <2>3
  <2> QED
    BY <2>1, <2>2, <2>3
<1>4. after # <<>>
  BY <1>1
<1> QED
  BY <1>1, <1>3, <1>4 DEF after

(* A notice that its flag still lets through joins the notices.            *)
LEMMA NoticeJoins ==
  ASSUME NEW r \in Requests, response_data[r] \in Seq(Events), Notices(r),
         NEW text \in {"processing", "building"},
         text = "processing" => ~tool_call_in_progress[r] /\ tool_call_in_progress'[r]
                                /\ message_in_progress'[r] = message_in_progress[r],
         text = "building" => ~message_in_progress[r] /\ message_in_progress'[r]
                              /\ tool_call_in_progress'[r] = tool_call_in_progress[r],
         response_data'[r] = Append(response_data[r], Working(text))
  PROVE  response_data'[r] \in Seq(Events) /\ Notices(r)'
<1> DEFINE events == response_data[r]
           after == response_data'[r]
<1>1. Working(text) \in Events /\ Working(text).text = text
  BY DEF Working, Events, States
<1>2. Distinct(events) /\ \A i \in DOMAIN events : events[i].text # text
  BY DEF Notices, Distinct
<1>3. after \in Seq(Events) /\ Distinct(after)
  BY <1>1, <1>2, AppendDistinct
<1>4. ASSUME NEW i \in DOMAIN after
      PROVE  \/ after[i].text = "processing" /\ tool_call_in_progress'[r]
             \/ after[i].text = "building" /\ message_in_progress'[r]
  <2>1. CASE i \in DOMAIN events
    <3>1. after[i] = events[i]
      BY <2>1
    <3> QED
      BY <2>1, <3>1 DEF Notices
  <2>2. CASE i \notin DOMAIN events
    <3>1. after[i] = Working(text)
      BY <1>4, <2>2
    <3> QED
      BY <1>1, <3>1
  <2> QED
    BY <2>1, <2>2
<1> QED
  BY <1>3, <1>4 DEF Notices, Distinct

-----------------------------------------------------------------------------
(* A step of one request.                                                  *)

Step(r) == Reject(r) \/ Accept(r) \/ AgentStep(r)

Same(s) ==
  /\ call'[s] = call[s] /\ pc'[s] = pc[s]
  /\ tool_call_in_progress'[s] = tool_call_in_progress[s]
  /\ message_in_progress'[s] = message_in_progress[s]
  /\ response_data'[s] = response_data[s]
  /\ answer'[s] = answer[s] /\ reply'[s] = reply[s]

(* f changes at most at r.                                                 *)
Moved(f, g, r) == g = f \/ \E x : g = [f EXCEPT ![r] = x]

LEMMA MovedFrame ==
  ASSUME NEW f, IsMap(f), NEW g, NEW r \in Requests, Moved(f, g, r)
  PROVE  IsMap(g) /\ \A s \in Requests \ {r} : g[s] = f[s]
<1>1. CASE g = f
  BY <1>1
<1>2. ASSUME NEW x, g = [f EXCEPT ![r] = x]
      PROVE  IsMap(g) /\ \A s \in Requests \ {r} : g[s] = f[s]
  BY <1>2 DEF IsMap
<1> QED
  BY <1>1, <1>2 DEF Moved

LEMMA StepMoves ==
  ASSUME NEW r \in Requests, Step(r)
  PROVE  /\ Moved(call, call', r) /\ Moved(pc, pc', r) /\ Moved(answer, answer', r)
         /\ Moved(tool_call_in_progress, tool_call_in_progress', r)
         /\ Moved(message_in_progress, message_in_progress', r)
         /\ Moved(response_data, response_data', r) /\ Moved(reply, reply', r)
<1> USE DEF Moved, stream, Respond
<1>1. CASE Reject(r)
  BY <1>1 DEF Reject
<1>2. CASE Accept(r)
  BY <1>2 DEF Accept
<1>3. CASE SendMessage(r)
  BY <1>3 DEF SendMessage
<1>4. CASE ToolChunk(r)
  BY <1>4 DEF ToolChunk
<1>5. CASE TextChunk(r)
  BY <1>5 DEF TextChunk
<1>6. CASE StreamEnds(r)
  BY <1>6 DEF StreamEnds
<1>7. CASE AgentRaises(r)
  BY <1>7 DEF AgentRaises
<1> QED
  BY <1>1, <1>2, <1>3, <1>4, <1>5, <1>6, <1>7 DEF Step, AgentStep

LEMMA StepOthers ==
  ASSUME Functions, NEW r \in Requests, Step(r)
  PROVE  Functions' /\ \A s \in Requests \ {r} : Same(s)
BY StepMoves, MovedFrame DEF Functions, Same

LEMMA Frame ==
  ASSUME NEW s \in Requests, Good(s), Same(s)
  PROVE  Good(s)'
BY DEF Good, Same, Typed, Collects, Branch, Notices, OneStory, Conforms, IsJsonRpc, RequestId,
       Streamed

LEMMA StepGood ==
  ASSUME Functions, NEW r \in Requests, Good(r), Step(r)
  PROVE  Good(r)'
<1> USE DEF Good
<1>1. CASE Reject(r)
  <2>1. PICK c \in Calls : /\ call' = [call EXCEPT ![r] = c] /\ Respond(r, Rejection(c, r))
    BY <1>1 DEF Reject
  <2>2. /\ call'[r] = c /\ pc'[r] = "done" /\ reply'[r] = Rejection(c, r)
        /\ UNCHANGED <<stream, answer>> /\ pc[r] = "idle"
    BY <1>1, <2>1 DEF Reject, Respond, Functions, IsMap
  <2>3. Typed(r)'
    BY <2>2, RejectionReply DEF Typed, stream
  <2>4. ~Streamed(r)'
    BY <2>2 DEF Collects, Streamed
  <2>5. Conforms(r)'
    BY <2>2, <2>4, RejectionReply DEF Conforms, IsJsonRpc, RequestId
  <2> QED
    BY <2>2, <2>3, <2>5, RejectionReply DEF Collects, OneStory
<1>2. CASE Accept(r)
  <2>1. PICK c \in Calls, label \in {"get_response", "invoke_stream"} :
          /\ call' = [call EXCEPT ![r] = c] /\ pc' = [pc EXCEPT ![r] = label]
          /\ pc[r] = "idle" /\ UNCHANGED <<stream, answer, reply>>
          /\ c.body = "object"
          /\ c.method = IF label = "get_response" THEN "SendMessage" ELSE "SendStreamingMessage"
    BY <1>2 DEF Accept, Accepted
  <2>2. call'[r] = c /\ pc'[r] = label
    BY <2>1 DEF Functions, IsMap
  <2>3. reply'[r] = NoReply /\ answer'[r] = "none" /\ response_data'[r] = <<>>
    BY <2>1 DEF Collects, stream
  <2>4. Typed(r)'
    BY <2>1, <2>2 DEF Typed, stream
  <2>5. Collects(r)'
    BY <2>1, <2>2, <2>3 DEF Collects, Branch, Notices
  <2> QED
    BY <2>2, <2>3, <2>4, <2>5, EmptyReply DEF OneStory, Conforms
<1>3. CASE SendMessage(r)
  <2>1. PICK a \in Answers, response \in {Failure("SendMessage", r), Result("completed", r)} :
          answer' = [answer EXCEPT ![r] = a] /\ Respond(r, response)
    BY <1>3 DEF SendMessage
  <2>2. answer'[r] = a /\ pc'[r] = "done" /\ reply'[r] = response
    BY <2>1 DEF Respond, Functions, IsMap
  <2>3. response \in Replies /\ response.kind \in {"error", "result"} /\ response.id = r
    BY FailureReply, ResultReply DEF States
  <2>4. UNCHANGED <<call, stream>> /\ Branch(r, "SendMessage")
    BY <1>3 DEF SendMessage, Collects
  <2>5. Typed(r)'
    BY <2>2, <2>3, <2>4 DEF Typed, stream
  <2>6. Conforms(r)'
    BY <2>2, <2>3, <2>4 DEF Conforms, Branch, IsJsonRpc, RequestId, Streamed
  <2> QED
    BY <2>2, <2>3, <2>5, <2>6 DEF Collects, OneStory
<1>4. CASE ToolChunk(r) \/ TextChunk(r)
  <2>1. PICK text \in {"processing", "building"} :
          /\ response_data' = [response_data EXCEPT ![r] = Append(response_data[r], Working(text))]
          /\ text = "processing" => ToolChunk(r)
          /\ text = "building" => TextChunk(r)
    BY <1>4 DEF ToolChunk, TextChunk
  <2>2. response_data'[r] = Append(response_data[r], Working(text))
    BY <2>1 DEF Functions, IsMap
  <2>3. /\ pc[r] = "invoke_stream" /\ UNCHANGED <<call, pc, answer, reply>>
        /\ tool_call_in_progress'[r] \in BOOLEAN /\ message_in_progress'[r] \in BOOLEAN
    BY <1>4 DEF ToolChunk, TextChunk, Functions, Typed, IsMap
  <2>4. /\ text = "processing" => ~tool_call_in_progress[r] /\ tool_call_in_progress'[r]
                                  /\ message_in_progress'[r] = message_in_progress[r]
        /\ text = "building" => ~message_in_progress[r] /\ message_in_progress'[r]
                                /\ tool_call_in_progress'[r] = tool_call_in_progress[r]
    BY <2>1 DEF ToolChunk, TextChunk, Functions, IsMap
  <2>5. response_data[r] \in Seq(Events) /\ Notices(r)
    BY <2>3 DEF Typed, Collects
  <2>6. response_data'[r] \in Seq(Events) /\ Notices(r)'
    BY <2>2, <2>4, <2>5, NoticeJoins
  <2>7. Typed(r)'
    BY <2>3, <2>6 DEF Typed
  <2>8. Collects(r)'
    BY <2>3, <2>6 DEF Collects, Branch
  <2> QED
    BY <2>3, <2>7, <2>8 DEF OneStory, Conforms
<1>5. CASE StreamEnds(r)
  <2>1. PICK a \in Answers :
          /\ answer' = [answer EXCEPT ![r] = a]
          /\ response_data' = [response_data EXCEPT
                                 ![r] = Append(response_data[r], Task(FinalState(a)))]
    BY <1>5 DEF StreamEnds
  <2> DEFINE events == Append(response_data[r], Task(FinalState(a)))
  <2>2. /\ pc[r] = "invoke_stream" /\ Respond(r, EventStream(response_data'[r]))
        /\ UNCHANGED <<call, tool_call_in_progress, message_in_progress>>
    BY <1>5 DEF StreamEnds
  <2>3. answer'[r] = a /\ response_data'[r] = events
    BY <2>1 DEF Functions, IsMap
  <2>4. pc'[r] = "done" /\ reply'[r] = EventStream(events)
    BY <2>2, <2>3 DEF Respond, Functions, IsMap
  <2>5. /\ FinalState(a) \in States
        /\ FinalState(a) = "completed" <=> a = "completed"
        /\ FinalState(a) = "failed" <=> a \notin {"completed", "input_required", "error"}
    BY Zenon DEF FinalState, States
  <2>6. /\ Task(FinalState(a)) \in Events /\ Task(FinalState(a)).text = "final"
        /\ Task(FinalState(a)).type = "task" /\ Task(FinalState(a)).state = FinalState(a)
    BY <2>5 DEF Task, Events
  <2>7. /\ response_data[r] \in Seq(Events) /\ Distinct(response_data[r])
        /\ \A i \in DOMAIN response_data[r] : response_data[r][i].text # "final"
    BY <2>2 DEF Typed, Collects, Notices, Distinct
  <2>8. /\ events \in Seq(Events) /\ Distinct(events) /\ events # <<>>
        /\ events[Len(events)] = Task(FinalState(a))
    BY <2>6, <2>7, AppendDistinct
  <2> HIDE DEF events
  <2>9. /\ EventStream(events) \in Replies /\ EventStream(events).id = NoId
        /\ EventStream(events).kind = "stream" /\ EventStream(events).events = events
    BY <2>8, StreamReply
  <2>10. Typed(r)'
    BY <2>2, <2>3, <2>4, <2>8, <2>9 DEF Typed
  <2>11. OneStory(r)'
    BY <2>3, <2>4, <2>5, <2>6, <2>8, <2>9 DEF OneStory, Distinct
  <2>12. /\ Branch(r, "SendStreamingMessage") /\ RequestId(r)' = r
         /\ Streamed(r)'
    BY <2>2, <2>3 DEF Collects, Branch, RequestId, Streamed, Answers
  <2>13. Conforms(r)'
    BY <2>4, <2>9, <2>12, NoIdAssumption DEF Conforms, IsJsonRpc
  <2> QED
    BY <2>4, <2>10, <2>11, <2>13 DEF Collects
<1>6. CASE AgentRaises(r)
  <2>1. /\ pc'[r] = "done" /\ reply'[r] = Failure(call[r].method, r)
        /\ UNCHANGED <<call, stream, answer>> /\ pc[r] \in {"get_response", "invoke_stream"}
    BY <1>6 DEF AgentRaises, Respond, Functions, IsMap
  <2>2. Typed(r)'
    BY <2>1, FailureReply DEF Typed, stream
  <2>3. call[r].body = "object" /\ answer[r] = "none"
    BY <2>1 DEF Collects, Branch
  <2>4. Conforms(r)'
    BY <2>1, <2>3, FailureReply DEF Conforms, IsJsonRpc, RequestId, Streamed
  <2> QED
    BY <2>1, <2>2, <2>4, FailureReply DEF Collects, OneStory
<1> QED
  BY <1>1, <1>2, <1>3, <1>4, <1>5, <1>6 DEF Step, AgentStep

-----------------------------------------------------------------------------
(* Theorems.                                                               *)

(* What a request has collected, flagged, answered and been told holds     *)
(* together in every state.                                                *)
THEOREM TriggerInductive == Spec => []HInv
<1>1. Init => HInv
  <2> SUFFICES ASSUME Init PROVE Functions /\ \A r \in Requests : Good(r)
    BY Parts
  <2>1. Functions
    BY DEF Init, Functions, IsMap
  <2>2. ASSUME NEW r \in Requests
        PROVE  Good(r)
    <3>1. /\ call[r] = NoCall /\ pc[r] = "idle" /\ ~tool_call_in_progress[r]
          /\ ~message_in_progress[r] /\ response_data[r] = <<>> /\ answer[r] = "none"
          /\ reply[r] = NoReply
      BY DEF Init
    <3>2. Typed(r)
      <4>1. NoCall \in Calls
        BY DEF NoCall, Calls
      <4>2. tool_call_in_progress[r] \in BOOLEAN /\ message_in_progress[r] \in BOOLEAN
        BY DEF Init
      <4> QED
        BY <3>1, <4>1, <4>2, EmptyReply DEF Typed
    <3> QED
      BY <3>1, <3>2, EmptyReply DEF Good, Collects, OneStory, Conforms
  <2> QED
    BY <2>1, <2>2
<1>2. HInv /\ [Next]_vars => HInv'
  <2> SUFFICES ASSUME HInv, [Next]_vars PROVE HInv'
    OBVIOUS
  <2>1. Functions /\ \A r \in Requests : Good(r)
    BY Parts
  <2>2. CASE UNCHANGED vars
    BY <2>2 DEF vars, HInv, TypeOK, Collecting, Branch, Notices, StreamTellsOneStory,
                JsonRpcUnlessStreamed, IsJsonRpc, RequestId, Streamed
  <2>3. ASSUME NEW r \in Requests, Step(r)
        PROVE  HInv'
    <3>1. Functions' /\ \A s \in Requests : Good(s)'
      BY <2>1, <2>3, StepOthers, StepGood, Frame
    <3> QED
      BY <3>1, PartsNext
  <2> QED
    BY <2>2, <2>3 DEF Next, Step
<1> QED
  BY <1>1, <1>2, PTL DEF Spec

(* Every variable has its type; in particular each reply pairs an HTTP     *)
(* status with a JSON-RPC code.                                            *)
THEOREM TriggerTypeCorrect == Spec => []TypeOK
<1>1. HInv => TypeOK
  BY DEF HInv
<1> QED
  BY <1>1, TriggerInductive, PTL

(* A streamed reply has each notice at most once, then one task, whose     *)
(* state is what the model's final text says: completed, failed when it    *)
(* cannot be read, else working.                                           *)
THEOREM OneStoryTold == Spec => []StreamTellsOneStory
<1>1. HInv => StreamTellsOneStory
  BY DEF HInv
<1> QED
  BY <1>1, TriggerInductive, PTL

(* A request gets a JSON-RPC response with its id, whatever fails and      *)
(* however early, unless its body is no object or its stream came to an    *)
(* end; these two never get one.                                           *)
THEOREM WhoGetsJsonRpc == Spec => []JsonRpcUnlessStreamed
<1>1. HInv => JsonRpcUnlessStreamed
  BY DEF HInv
<1> QED
  BY <1>1, TriggerInductive, PTL
=============================================================================
