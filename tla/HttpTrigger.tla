----------------------------- MODULE HttpTrigger -----------------------------
(***************************************************************************)
(* The deployed endpoint: HttpTrigger/__init__.py and the travel agent it  *)
(* calls (samples/agents/semantickernel/agent.py).  The language model     *)
(* behind self.agent is external: it answers in one piece (get_response)   *)
(* or in chunks (invoke_stream), and may raise at any point.               *)
(*                                                                         *)
(* Requests are handled on one event loop and share the agent object, but  *)
(* nothing in it changes (thread stays None): they meet in no state.       *)
(***************************************************************************)
EXTENDS Integers, Sequences

CONSTANTS
  Requests,     (* the HTTP requests; a request is also its JSON-RPC id    *)
  NoId          (* id null                                                 *)

ASSUME NoIdAssumption == NoId \notin Requests

VARIABLES
  call,                  (* what the request carries                       *)
  pc,
  tool_call_in_progress,
  message_in_progress,
  response_data,         (* the SSE events collected so far                *)
  answer,                (* history: what the model answered in the end    *)
  reply                  (* the HTTP response                              *)

stream == <<tool_call_in_progress, message_in_progress, response_data>>
vars   == <<call, pc, tool_call_in_progress, message_in_progress, response_data,
            answer, reply>>

(* The body is no JSON, JSON but no object, or an object; its params have  *)
(* no element 0 ([] or an object), one that is no SendMessageRequest (also *)
(* when params is missing), or a valid one.                                *)
Calls == [body   : {"malformed", "array", "object"},
          method : {"SendMessage", "SendStreamingMessage", "other"},
          params : {"unindexable", "invalid", "valid"}]

NoCall == [body |-> "malformed", method |-> "other", params |-> "unindexable"]

(* The model's text: a ResponseFormat with one of its three statuses, JSON *)
(* of another shape (bad_message: its "message" is no string), or no JSON. *)
Answers == {"completed", "input_required", "error", "other_json", "bad_message", "no_json"}

States   == {"completed", "working", "failed"}
Events   == [type : {"statusUpdate", "task"}, state : States,
             text : {"processing", "building", "final"}]

Working(text) == [type |-> "statusUpdate", state |-> "working", text |-> text]
Task(state)   == [type |-> "task", state |-> state, text |-> "final"]

(* kind "crash": the handler itself raised, and the host answers.  id is   *)
(* the one in the body; the events of a stream are what agent.stream has   *)
(* yielded, without a JSON-RPC envelope and its id.                        *)
Reply(kind, status, code, id, events) ==
  [kind |-> kind, status |-> status, code |-> code, id |-> id, events |-> events]

NoReply                 == Reply("none", 0, 0, NoId, <<>>)
Crash                   == Reply("crash", 500, 0, NoId, <<>>)
Error(status, code, id) == Reply("error", status, code, id, <<>>)
Result(state, id)       == Reply("result", 200, 0, id, <<Task(state)>>)
EventStream(events)     == Reply("stream", 200, 0, NoId, events)

(* Every reply pairs an HTTP status with a JSON-RPC code, in that order.   *)
TypeOK ==
  /\ call \in [Requests -> Calls]
  /\ pc \in [Requests -> {"idle", "get_response", "invoke_stream", "done"}]
  /\ tool_call_in_progress \in [Requests -> BOOLEAN]
  /\ message_in_progress \in [Requests -> BOOLEAN]
  /\ response_data \in [Requests -> Seq(Events)]
  /\ answer \in [Requests -> Answers \cup {"none"}]
  /\ reply \in [Requests -> [kind   : {"none", "crash", "error", "result", "stream"},
                             status : {0, 200, 400, 404, 500},
                             code   : {0, -32601, -32602, -32603},
                             id     : Requests \cup {NoId},
                             events : Seq(Events)]]

Init ==
  /\ call = [r \in Requests |-> NoCall]
  /\ pc = [r \in Requests |-> "idle"]
  /\ tool_call_in_progress = [r \in Requests |-> FALSE]
  /\ message_in_progress = [r \in Requests |-> FALSE]
  /\ response_data = [r \in Requests |-> <<>>]
  /\ answer = [r \in Requests |-> "none"]
  /\ reply = [r \in Requests |-> NoReply]

Respond(r, response) ==
  /\ pc' = [pc EXCEPT ![r] = "done"]
  /\ reply' = [reply EXCEPT ![r] = response]

-----------------------------------------------------------------------------
(* main up to the first await.                                             *)

Accepted(c) == /\ c.body = "object" /\ c.params = "valid"
               /\ c.method \in {"SendMessage", "SendStreamingMessage"}

(* The except clause around a branch of main.                              *)
Failure_Swapped(method, r) == IF method = "SendMessage" THEN Error(-32602, 400, r)
                                                        ELSE Error(-32603, 500, r)

Failure(method, r) == IF method = "SendMessage" THEN Error(400, -32602, r)
                                                ELSE Error(500, -32603, r)

(* The outermost except clause reads req_body again: it is unbound for a   *)
(* malformed body and has no get for an array.                             *)
Rejection(c, r) ==
  CASE c.body = "malformed"   -> Error(500, -32603, NoId)
    [] c.body = "array"       -> Crash
    [] c.body = "object" /\ c.params = "unindexable" -> Error(500, -32603, r)
    [] c.body = "object" /\ c.params # "unindexable" /\ c.method = "other"
                              -> Error(404, -32601, r)
    [] OTHER                  -> Failure(c.method, r)

Reject(r) ==
  /\ pc[r] = "idle"
  /\ \E c \in Calls : /\ ~Accepted(c)
                      /\ call' = [call EXCEPT ![r] = c]
                      /\ Respond(r, Rejection(c, r))
  /\ UNCHANGED <<stream, answer>>

Accept(r) ==
  /\ pc[r] = "idle"
  /\ \E c \in Calls :
       /\ Accepted(c)
       /\ call' = [call EXCEPT ![r] = c]
       /\ pc' = [pc EXCEPT ![r] = IF c.method = "SendMessage" THEN "get_response"
                                                              ELSE "invoke_stream"]
  /\ UNCHANGED <<stream, answer, reply>>

-----------------------------------------------------------------------------
(* send_message: whatever the model says, the task is completed; only an   *)
(* answer that json.loads or Part(text=...) refuses is an error.           *)
SendMessage(r) ==
  /\ pc[r] = "get_response"
  /\ \E a \in Answers :
       /\ answer' = [answer EXCEPT ![r] = a]
       /\ Respond(r, IF a \in {"bad_message", "no_json"} THEN Failure("SendMessage", r)
                                      ELSE Result("completed", r))
  /\ UNCHANGED <<call, stream>>

(* stream: the first chunk with a tool call or its result is announced,    *)
(* and so is the first one with text; the later ones are not.              *)
ToolChunk_Repeats(r) ==
  /\ pc[r] = "invoke_stream"
  /\ response_data' = [response_data EXCEPT ![r] = Append(@, Working("processing"))]
  /\ UNCHANGED <<call, pc, tool_call_in_progress, message_in_progress, answer, reply>>

ToolChunk(r) ==
  /\ pc[r] = "invoke_stream"
  /\ ~tool_call_in_progress[r]
  /\ tool_call_in_progress' = [tool_call_in_progress EXCEPT ![r] = TRUE]
  /\ response_data' = [response_data EXCEPT ![r] = Append(@, Working("processing"))]
  /\ UNCHANGED <<call, pc, message_in_progress, answer, reply>>

TextChunk(r) ==
  /\ pc[r] = "invoke_stream"
  /\ ~message_in_progress[r]
  /\ message_in_progress' = [message_in_progress EXCEPT ![r] = TRUE]
  /\ response_data' = [response_data EXCEPT ![r] = Append(@, Working("building"))]
  /\ UNCHANGED <<call, pc, tool_call_in_progress, answer, reply>>

(* The state of the final task; without a text chunk there is nothing to   *)
(* parse.                                                                  *)
FinalState(a) == CASE a = "completed"                   -> "completed"
                   [] a \in {"input_required", "error"} -> "working"
                   [] OTHER                             -> "failed"

StreamEnds(r) ==
  /\ pc[r] = "invoke_stream"
  /\ \E a \in Answers :
       /\ ~message_in_progress[r] => a = "no_json"
       /\ answer' = [answer EXCEPT ![r] = a]
       /\ response_data' = [response_data EXCEPT ![r] = Append(@, Task(FinalState(a)))]
  /\ Respond(r, EventStream(response_data'[r]))
  /\ UNCHANGED <<call, tool_call_in_progress, message_in_progress>>

(* The model call fails, at once or between two chunks: what was collected *)
(* is dropped.                                                             *)
AgentRaises_NoReply(r) ==
  /\ pc[r] \in {"get_response", "invoke_stream"}
  /\ pc' = [pc EXCEPT ![r] = "done"]
  /\ UNCHANGED <<call, stream, answer, reply>>

AgentRaises_HalfStream(r) ==
  /\ pc[r] \in {"get_response", "invoke_stream"}
  /\ Respond(r, IF pc[r] = "invoke_stream" /\ response_data[r] # <<>>
                  THEN EventStream(response_data[r]) ELSE Failure(call[r].method, r))
  /\ UNCHANGED <<call, stream, answer>>

AgentRaises(r) ==
  /\ pc[r] \in {"get_response", "invoke_stream"}
  /\ Respond(r, Failure(call[r].method, r))
  /\ UNCHANGED <<call, stream, answer>>

AgentStep(r) == SendMessage(r) \/ ToolChunk(r) \/ TextChunk(r) \/ StreamEnds(r) \/ AgentRaises(r)

Next == \E r \in Requests : Reject(r) \/ Accept(r) \/ AgentStep(r)

Spec == Init /\ [][Next]_vars

(* The event loop resumes a handler whose model call has come back, and    *)
(* every model call is assumed to come back.                               *)
FairSpec == Spec /\ \A r \in Requests : WF_vars(AgentStep(r))

-----------------------------------------------------------------------------
(* Properties.                                                             *)

(* A streamed reply tells one story, whatever chunks the model sent: each  *)
(* notice at most once, then exactly one task, which comes last.  It is    *)
(* "completed" exactly when the model's final text says so, "failed"       *)
(* exactly when that text is no ResponseFormat, else "working".            *)
StreamTellsOneStory ==
  \A r \in Requests : reply[r].kind = "stream" =>
    LET events == reply[r].events
        last   == events[Len(events)]
    IN  /\ events # <<>> /\ last.type = "task"
        /\ last.state = "completed" <=> answer[r] = "completed"
        /\ last.state = "failed" <=> answer[r] \notin {"completed", "input_required", "error"}
        /\ \A i, j \in DOMAIN events : i # j => events[i].text # events[j].text

(* What A2A asks of a reply: it is a JSON-RPC response, or a stream each   *)
(* of whose events is one, with the id of the request; that id is null     *)
(* when the body has none.                                                 *)
RequestId(r) == IF call[r].body = "object" THEN r ELSE NoId

IsJsonRpc(r) == reply[r].kind \in {"error", "result", "stream"} /\ reply[r].id = RequestId(r)

RepliesAreJsonRpc == \A r \in Requests : pc[r] = "done" => IsJsonRpc(r)

(* Exactly two sorts of request do not get that: a body that is JSON but   *)
(* no object, and a streaming call whose model came to an end, for no      *)
(* event of its stream carries the id.  All others do, also when main      *)
(* fails before it has dispatched on the method, and when the model raises *)
(* half way through a stream, whose events are then withheld.              *)
Streamed(r) == call[r].method = "SendStreamingMessage" /\ answer[r] # "none"

JsonRpcUnlessStreamed ==
  \A r \in Requests : pc[r] = "done" =>
    (IsJsonRpc(r) <=> call[r].body # "array" /\ ~Streamed(r))

(* Every request is answered, even when the model raises between chunks.   *)
EveryRequestAnswered == \A r \in Requests : (pc[r] # "idle") ~> (reply[r].kind # "none")

(* The final word on a call whose agent asked the user for more says so:   *)
(* it is neither "completed" nor "working".                                *)
PauseIsVisible ==
  \A r \in Requests : (pc[r] = "done" /\ answer[r] = "input_required") =>
    \A i \in DOMAIN reply[r].events :
      reply[r].events[i].type = "task" => reply[r].events[i].state \notin {"completed", "working"}

(* The inductive invariant: the branch a request is in and what it has     *)
(* collected before it is answered.  The text of a notice says which flag  *)
(* let it through.                                                         *)
Branch(r, method) == call[r].body = "object" /\ call[r].method = method

Notices(r) ==
  LET events == response_data[r] IN
  /\ \A i \in DOMAIN events : \/ events[i].text = "processing" /\ tool_call_in_progress[r]
                              \/ events[i].text = "building" /\ message_in_progress[r]
  /\ \A i, j \in DOMAIN events : i # j => events[i].text # events[j].text

Collecting ==
  \A r \in Requests :
    /\ pc[r] # "done" => reply[r] = NoReply /\ answer[r] = "none"
    /\ pc[r] = "idle" => response_data[r] = <<>>
    /\ pc[r] = "get_response" => Branch(r, "SendMessage")
    /\ pc[r] = "invoke_stream" => Branch(r, "SendStreamingMessage") /\ Notices(r)

HInv == TypeOK /\ Collecting /\ StreamTellsOneStory /\ JsonRpcUnlessStreamed
=============================================================================
