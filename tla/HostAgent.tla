------------------------------ MODULE HostAgent ------------------------------
(***************************************************************************)
(* The multi-agent host: HostAgent and RemoteAgentConnections              *)
(* (samples/hosts/multiagent), in one session of the Agent Development     *)
(* Kit (ADK) that runs it.                                                 *)
(*                                                                         *)
(* External: the language model (which tools it calls), the remote agents  *)
(* (which events they send), the task callback (it returns the task with   *)
(* the newest status it has been given), and the ADK: it computes the      *)
(* instruction, calls before_model_callback and the model, runs the tool   *)
(* calls of the answer one after the other and calls the model again with  *)
(* their results, unless skip_summarization is set once their actions are  *)
(* merged.  Every call has actions of its own; whether a flag outlives a   *)
(* later call of the answer that leaves it unset depends on the merge.  An *)
(* exception of a tool ends the turn.                                      *)
(***************************************************************************)
EXTENDS Naturals, Sequences

CONSTANTS
  Agents,       (* names the model may give to send_task                   *)
  NoAgent,      (* no agent, 'None' in the instruction                     *)
  MaxCalls      (* bound: tool calls in one answer of the model, and       *)
                (* answers in one turn                                     *)

ASSUME HostAgentAssumption == NoAgent \notin Agents /\ MaxCalls \in Nat \ {0}

VARIABLES
  callback,   (* was a task_callback given to HostAgent?                   *)
  streaming,  (* card.capabilities.streaming of each agent                 *)
  sticky,     (* does the ADK keep a flag that a later call leaves unset?  *)
  cards,      (* the keys of self.cards and self.remote_agent_connections  *)
  session,    (* tool_context.state: session_id, session_active, agent     *)
  pc,         (* where the turn is                                         *)
  answers,    (* answers of the model in this turn                         *)
  batch,      (* names in the tool calls that are left                     *)
  before,     (* the session when the model gave that answer               *)
  skip,       (* actions.skip_summarization, merged so far                 *)
  task,       (* the local task of send_task: its state, or "None"         *)
  remote,     (* the state the remote agent reported last, "none" so far   *)
  shown,      (* the current agent of the last instruction                 *)
  outcome,    (* history: how the last delegation ended                    *)
  waiting     (* history: the agents that send_task has reported to wait   *)
              (* for input since the user last spoke                       *)

setup == <<callback, streaming, sticky>>
turn  == <<answers, batch, before, skip>>
call  == <<task, remote>>
past  == <<outcome, waiting>>
vars  == <<callback, streaming, sticky, cards, session, pc, answers, batch, before, skip,
           task, remote, shown, outcome, waiting>>

Sessions == [id : BOOLEAN, active : BOOLEAN, agent : Agents \cup {NoAgent}]

States   == {"submitted", "working", "input-required", "completed", "canceled", "failed",
             "unknown"}
Inactive_AlsoPaused == {"completed", "canceled", "failed", "unknown", "input-required"}
Inactive == {"completed", "canceled", "failed", "unknown"}

(* Last conjunct: send_task reads state['session_id'] and self.cards       *)
(* without a test, so both must be there whenever it runs.                 *)
TypeOK ==
  /\ callback \in BOOLEAN /\ sticky \in BOOLEAN
  /\ streaming \in [Agents -> BOOLEAN]
  /\ cards \subseteq Agents
  /\ session \in Sessions /\ before \in Sessions
  /\ pc \in {"user", "instruction", "model", "tools", "sending"}
  /\ answers \in 0..MaxCalls
  /\ batch \in Seq(Agents) /\ Len(batch) <= MaxCalls
  /\ skip \in BOOLEAN
  /\ task \in States \cup {"None"}
  /\ remote \in States \cup {"none"}
  /\ shown \in Agents \cup {NoAgent}
  /\ outcome \in [agent : Agents \cup {NoAgent}, state : States \cup {"none"}, returned : BOOLEAN]
  /\ waiting \subseteq Agents
  /\ pc = "sending" => session.id /\ Head(batch) \in cards

Init ==
  /\ callback \in BOOLEAN /\ sticky \in BOOLEAN
  /\ streaming \in [Agents -> BOOLEAN]
  /\ cards \in SUBSET Agents
  /\ session = [id |-> FALSE, active |-> FALSE, agent |-> NoAgent]
  /\ pc = "user"
  /\ answers = 0
  /\ batch = <<>>
  /\ before = session
  /\ skip = FALSE
  /\ task = "None"
  /\ remote = "none"
  /\ shown = NoAgent
  /\ outcome = [agent |-> NoAgent, state |-> "none", returned |-> FALSE]
  /\ waiting = {}

-----------------------------------------------------------------------------
(* The application learns of another agent, at any time.                   *)
RegisterAgentCard(a) ==
  /\ cards' = cards \cup {a}
  /\ UNCHANGED <<setup, session, pc, turn, call, shown, past>>

UserMessage ==
  /\ pc = "user"
  /\ pc' = "instruction"
  /\ answers' = 0
  /\ waiting' = {}
  /\ UNCHANGED <<setup, cards, session, batch, before, skip, call, shown, outcome>>

(* check_state.                                                            *)
ActiveAgent == IF session.id /\ session.active THEN session.agent ELSE NoAgent

(* root_instruction, then before_model_callback: every call of the model   *)
(* leaves the session active.                                              *)
ModelCalled_WithoutSession ==
  /\ pc = "instruction"
  /\ shown' = ActiveAgent
  /\ session' = [session EXCEPT !.active = TRUE]
  /\ pc' = "model"
  /\ UNCHANGED <<setup, cards, turn, call, past>>

ModelCalled ==
  /\ pc = "instruction"
  /\ shown' = ActiveAgent
  /\ session' = IF session.active THEN session
                                  ELSE [session EXCEPT !.id = TRUE, !.active = TRUE]
  /\ pc' = "model"
  /\ UNCHANGED <<setup, cards, turn, call, past>>

(* Text for the user ends the turn.                                        *)
ModelAnswers ==
  /\ pc = "model"
  /\ pc' = "user"
  /\ UNCHANGED <<setup, cards, session, turn, call, shown, past>>

ListRemoteAgents ==
  /\ pc = "model" /\ answers < MaxCalls
  /\ answers' = answers + 1
  /\ pc' = "instruction"
  /\ UNCHANGED <<setup, cards, session, batch, before, skip, call, shown, past>>

ModelDelegates ==
  /\ pc = "model" /\ answers < MaxCalls
  /\ \E n \in 1..MaxCalls : batch' \in [1..n -> Agents]
  /\ answers' = answers + 1
  /\ before' = session
  /\ skip' = FALSE
  /\ pc' = "tools"
  /\ UNCHANGED <<setup, cards, session, call, shown, past>>

-----------------------------------------------------------------------------
(* send_task.                                                              *)

Agent == Head(batch)

(* An exception ends the turn.  Whether what the tools of this answer had  *)
(* written to the state survives is up to the ADK.                         *)
Raise(written) ==
  /\ session' \in {before, written}
  /\ pc' = "user"
  /\ batch' = <<>>
  /\ outcome' = [agent |-> Agent, state |-> remote', returned |-> FALSE]
  /\ UNCHANGED <<answers, before, skip, waiting>>

UnknownAgent ==
  /\ pc = "tools"
  /\ Agent \notin cards
  /\ UNCHANGED <<setup, cards, call, shown>>
  /\ Raise(session)

(* Up to the request: the callback, if any, is given the SUBMITTED task of *)
(* a streaming call, but what it returns is dropped.                       *)
Delegate ==
  /\ pc = "tools"
  /\ Agent \in cards
  /\ pc' = "sending"
  /\ task' = "None"
  /\ remote' = "none"
  /\ UNCHANGED <<setup, cards, session, turn, shown, past>>

Chosen == [session EXCEPT !.agent = Agent]

(* From the return of client.send_task on.  None has no status; canceled   *)
(* and failed raise after session_active is written, and so does a part    *)
(* that cannot be converted.  A pause, and a file among the parts, set     *)
(* skip_summarization in the actions of this call; nobody looks at those   *)
(* of the calls before.                                                    *)
Written(t) == [Chosen EXCEPT !.active = t \notin Inactive]

Return(t) ==
  /\ session' = Written(t)
  /\ batch' = Tail(batch)
  /\ pc' = CASE batch' # <<>> -> "tools" [] batch' = <<>> /\ skip' -> "user"
                                         [] OTHER -> "instruction"
  /\ outcome' = [agent |-> Agent, state |-> remote', returned |-> TRUE]
  /\ waiting' = IF remote' = "input-required" THEN waiting \cup {Agent} ELSE waiting
  /\ UNCHANGED <<answers, before>>

Merged(flag) == flag \/ (sticky /\ skip)

Finish_WritesFlag(t) ==
  \/ t = "None" /\ Raise(Chosen)
  \/ t # "None" /\ Raise(Written(t))
  \/ /\ t \notin {"None", "canceled", "failed"}
     /\ \E file \in BOOLEAN : skip' = (t = "input-required" \/ file)
     /\ Return(t)

Finish(t) ==
  \/ t = "None" /\ Raise(Chosen)
  \/ t # "None" /\ Raise(Written(t))
  \/ /\ t \notin {"None", "canceled", "failed"}
     /\ \E file \in BOOLEAN : skip' = Merged(t = "input-required" \/ file)
     /\ Return(t)

(* One status event of a streaming call: the callback's task replaces the  *)
(* local one; after a final event the loop is left.                        *)
Returned(state) == IF callback THEN state ELSE "None"

StatusEvent_FinalFirst ==
  /\ pc = "sending" /\ streaming[Agent]
  /\ \E state \in States, final \in BOOLEAN :
       /\ remote' = state
       /\ task' = IF final THEN task ELSE Returned(state)
       /\ IF final THEN Finish(task') ELSE UNCHANGED <<session, pc, turn, past>>
  /\ UNCHANGED <<setup, cards, shown>>

StatusEvent ==
  /\ pc = "sending" /\ streaming[Agent]
  /\ \E state \in States, final \in BOOLEAN :
       /\ remote' = state
       /\ task' = Returned(state)
       /\ IF final THEN Finish(task') ELSE UNCHANGED <<session, pc, turn, past>>
  /\ UNCHANGED <<setup, cards, shown>>

(* An artifact, or an error (whose result is None): the callback returns   *)
(* the task as it was.                                                     *)
OtherEvent ==
  /\ pc = "sending" /\ streaming[Agent]
  /\ task' = Returned(IF remote = "none" THEN "submitted" ELSE remote)
  /\ UNCHANGED <<setup, cards, session, pc, turn, remote, shown, past>>

(* The server closes the stream without a final event.                     *)
StreamOver ==
  /\ pc = "sending" /\ streaming[Agent]
  /\ UNCHANGED <<setup, cards, call, shown>>
  /\ Finish(task)

(* The response of an agent that does not stream: its task, or an error,   *)
(* whose result is None.                                                   *)
Response ==
  /\ pc = "sending" /\ ~streaming[Agent]
  /\ \/ \E state \in States : remote' = state /\ task' = state
     \/ remote' = remote /\ task' = "None"
  /\ Finish(task')
  /\ UNCHANGED <<setup, cards, shown>>

(* The connection fails or times out, or the callback cannot do with None. *)
CallFails ==
  /\ pc = "sending"
  /\ UNCHANGED <<setup, cards, call, shown>>
  /\ Raise(Chosen)

Next ==
  \/ \E a \in Agents : RegisterAgentCard(a)
  \/ UserMessage \/ ModelCalled \/ ModelAnswers \/ ListRemoteAgents \/ ModelDelegates
  \/ UnknownAgent \/ Delegate
  \/ StatusEvent \/ OtherEvent \/ StreamOver \/ Response \/ CallFails

Spec == Init /\ [][Next]_vars

-----------------------------------------------------------------------------
(* Properties.                                                             *)

(* What send_task returns to the model, and leaves in the session, is what *)
(* the remote agent said last: its final event is not overlooked, no       *)
(* failed or canceled task is passed off as a result, and a task that goes *)
(* on keeps its agent active.                                              *)
ResultIsTheRemotes ==
  [][(pc = "sending" /\ pc' # "sending" /\ outcome'.returned /\ remote' # "none") =>
       /\ remote' \notin {"canceled", "failed"}
       /\ session'.active <=> remote' \notin Inactive]_vars

(* A task that waits for the user hands the turn back, whatever else the   *)
(* model has called in the same answer, before it or after it: the model   *)
(* is not called again before the user has spoken.  send_task can see to   *)
(* it only in its own call, so there is one exception: an ADK that lets a  *)
(* later call unset the flag, and a last delegation that did not pause.    *)
Paused == outcome.returned /\ outcome.state = "input-required"

PauseReturnsToUser ==
  (pc \in {"instruction", "model"} /\ waiting # {}) =>
    ~sticky /\ outcome.returned /\ outcome.state # "input-required"

(* When the last delegation has left a task that waits for the user, its   *)
(* agent is the current one of every instruction until the next            *)
(* delegation, whatever the model is asked meanwhile.  The session has     *)
(* room for one agent: the next delegation, in the same answer or later,   *)
(* takes the place of one that waits.                                      *)
PausedAgentIsCurrent == (pc = "model" /\ Paused) => shown = outcome.agent

(* A delegation sent streaming, because the agent supports it, brings back *)
(* the remote task once its final event is there.  The callback is         *)
(* optional: agent.py makes its HostAgent without one.                     *)
StreamedTaskComesBack ==
  [][(StatusEvent /\ pc' # "sending") => task' # "None"]_vars

(* The inductive invariant.  An active session has an id; tool calls are   *)
(* left while the tools run; the local task, if there is one, is in the    *)
(* state the remote agent reported; the agent of a paused task is active.  *)
SessionHasId ==
  /\ session.active => session.id
  /\ before.active => before.id
  /\ pc \in {"model", "tools", "sending"} => session.id

CallsLeft == pc \in {"tools", "sending"} => batch # <<>>

TaskIsRemotes ==
  pc = "sending" => task \in {"None", IF remote = "none" THEN "submitted" ELSE remote}

(* Where flags are sticky, the flag of an earlier call is still set.       *)
WaitingIsSkipped ==
  sticky /\ waiting # {} => pc = "user" \/ (pc \in {"tools", "sending"} /\ skip)

PausedIsActive == Paused => session.active /\ session.agent = outcome.agent

HostInv ==
  /\ TypeOK
  /\ SessionHasId
  /\ CallsLeft
  /\ TaskIsRemotes
  /\ PausedIsActive
  /\ WaitingIsSkipped
  /\ PauseReturnsToUser
  /\ PausedAgentIsCurrent
=============================================================================
