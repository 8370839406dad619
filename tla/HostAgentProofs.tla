---------------------------- MODULE HostAgentProofs ----------------------------
(***************************************************************************)
(* Proofs about HostAgent: whatever the model calls and the remote agents  *)
(* send, a delegation returns what the remote agent said last, and a pause *)
(* goes to the user and leaves its agent current.                          *)
(***************************************************************************)
EXTENDS HostAgent, TLAPS

LEMMA NamesDiffer ==
  /\ "None" \notin States /\ "none" \notin States /\ "submitted" \in States
  /\ "input-required" \in States /\ "input-required" \notin Inactive
BY DEF States, Inactive

-----------------------------------------------------------------------------
(* The part of the invariant that speaks of tasks that wait for the user.  *)
Pauses == PausedIsActive /\ WaitingIsSkipped /\ PauseReturnsToUser /\ PausedAgentIsCurrent

(* The steps in which nothing is delegated.                                *)
Talk == UserMessage \/ ModelCalled \/ ModelAnswers \/ ListRemoteAgents \/ ModelDelegates
        \/ \E a \in Agents : RegisterAgentCard(a)

LEMMA TalkInv ==
  ASSUME HostInv, Talk
  PROVE  HostInv'
<1> USE DEF HostInv, setup, turn, call, past
<1>1. CASE UserMessage
  <2>1. /\ pc = "user" /\ pc' = "instruction" /\ answers' = 0
        /\ waiting' = {}
        /\ UNCHANGED <<callback, streaming, sticky, cards, session, batch, before, skip, task,
                       remote, shown, outcome>>
    BY <1>1 DEF UserMessage
  <2>2. TypeOK'
    BY <2>1, HostAgentAssumption DEF TypeOK
  <2>3. SessionHasId' /\ CallsLeft' /\ TaskIsRemotes'
    BY <2>1 DEF SessionHasId, CallsLeft, TaskIsRemotes
  <2>4. Pauses'
    BY <2>1 DEF Pauses, PausedIsActive, WaitingIsSkipped, PauseReturnsToUser,
                PausedAgentIsCurrent, Paused
  <2> QED
    BY <2>2, <2>3, <2>4 DEF Pauses
<1>2. CASE ModelCalled
  <2>1. /\ pc = "instruction" /\ pc' = "model" /\ shown' = ActiveAgent
        /\ UNCHANGED <<callback, streaming, sticky, cards, answers, batch, before, skip, task,
                       remote, outcome, waiting>>
    BY <1>2 DEF ModelCalled
  <2>2. /\ session' \in Sessions /\ session'.id /\ session'.active
        /\ session'.agent = session.agent
        /\ session.active => session' = session
    BY <1>2 DEF ModelCalled, TypeOK, Sessions, SessionHasId
  <2>3. ActiveAgent \in Agents \cup {NoAgent}
    BY DEF ActiveAgent, TypeOK, Sessions
  <2>4. TypeOK'
    BY <2>1, <2>2, <2>3 DEF TypeOK
  <2>5. SessionHasId' /\ CallsLeft' /\ TaskIsRemotes'
    BY <2>1, <2>2 DEF SessionHasId, CallsLeft, TaskIsRemotes
  <2>6. PausedIsActive' /\ WaitingIsSkipped' /\ PauseReturnsToUser'
    BY <2>1, <2>2 DEF PausedIsActive, WaitingIsSkipped, PauseReturnsToUser, Paused
  <2>7. PausedAgentIsCurrent'
    BY <2>1 DEF PausedIsActive, PausedAgentIsCurrent, Paused, ActiveAgent, SessionHasId
  <2> QED
    BY <2>4, <2>5, <2>6, <2>7
<1>3. CASE ModelAnswers
  BY <1>3 DEF ModelAnswers, TypeOK, SessionHasId, CallsLeft, TaskIsRemotes, PausedIsActive,
              WaitingIsSkipped, PauseReturnsToUser, PausedAgentIsCurrent, Paused
<1>4. CASE ListRemoteAgents
  <2>1. /\ pc = "model" /\ pc' = "instruction" /\ answers' = answers + 1 /\ answers < MaxCalls
        /\ UNCHANGED <<callback, streaming, sticky, cards, session, batch, before, skip,
                       task, remote,
                       shown, outcome, waiting>>
    BY <1>4 DEF ListRemoteAgents
  <2>2. answers' \in 0..MaxCalls
    BY <2>1, HostAgentAssumption DEF TypeOK
  <2>3. TypeOK'
    BY <2>1, <2>2 DEF TypeOK
  <2>4. SessionHasId' /\ CallsLeft' /\ TaskIsRemotes'
    BY <2>1 DEF SessionHasId, CallsLeft, TaskIsRemotes
  <2>5. Pauses'
    BY <2>1 DEF Pauses, PausedIsActive, WaitingIsSkipped, PauseReturnsToUser,
                PausedAgentIsCurrent, Paused
  <2> QED
    BY <2>3, <2>4, <2>5 DEF Pauses
<1>5. CASE ModelDelegates
  <2>1. PICK n \in 1..MaxCalls : batch' \in [1..n -> Agents]
    BY <1>5 DEF ModelDelegates
  <2>2. /\ pc = "model" /\ pc' = "tools" /\ answers' = answers + 1 /\ answers < MaxCalls
        /\ before' = session /\ skip' = FALSE
        /\ UNCHANGED <<callback, streaming, sticky, cards, session, task, remote, shown,
                       outcome, waiting>>
    BY <1>5 DEF ModelDelegates
  <2>3. batch' \in Seq(Agents) /\ Len(batch') = n /\ n \in Nat
    BY <2>1, HostAgentAssumption
  <2>4. Len(batch') <= MaxCalls /\ batch' # <<>>
    BY <2>1, <2>3, HostAgentAssumption
  <2>5. answers' \in 0..MaxCalls
    BY <2>2, HostAgentAssumption DEF TypeOK
  <2>6. TypeOK'
    BY <2>2, <2>3, <2>4, <2>5 DEF TypeOK
  <2>7. SessionHasId' /\ CallsLeft' /\ TaskIsRemotes'
    BY <2>2, <2>4 DEF SessionHasId, CallsLeft, TaskIsRemotes
  <2>8. Pauses'
    BY <2>2 DEF Pauses, PausedIsActive, WaitingIsSkipped, PauseReturnsToUser,
                PausedAgentIsCurrent, Paused
  <2> QED
    BY <2>6, <2>7, <2>8 DEF Pauses
<1>6. ASSUME NEW a \in Agents, RegisterAgentCard(a)
      PROVE  HostInv'
  BY <1>6 DEF RegisterAgentCard, TypeOK, SessionHasId, CallsLeft, TaskIsRemotes, PausedIsActive,
              WaitingIsSkipped, PauseReturnsToUser, PausedAgentIsCurrent, Paused
<1> QED
  BY <1>1, <1>2, <1>3, <1>4, <1>5, <1>6 DEF Talk

-----------------------------------------------------------------------------
(* How a delegation ends.                                                  *)

(* What the steps of send_task have in common.                             *)
Framed == UNCHANGED <<callback, streaming, sticky, cards, shown>>

LEMMA RaiseInv ==
  ASSUME HostInv, Framed, pc \in {"tools", "sending"}, NEW written \in Sessions,
         written.id, task' \in States \cup {"None"}, remote' \in States \cup {"none"},
         Raise(written)
  PROVE  HostInv'
<1> USE DEF HostInv, Framed
<1>1. /\ session' \in {before, written} /\ pc' = "user" /\ batch' = <<>>
      /\ outcome' = [agent |-> Agent, state |-> remote', returned |-> FALSE]
      /\ UNCHANGED <<answers, before, skip, waiting>>
  BY DEF Raise
<1>2. Agent \in Agents
  BY DEF Agent, CallsLeft, TypeOK
<1>3. outcome' \in [agent : Agents \cup {NoAgent}, state : States \cup {"none"}, returned : BOOLEAN]
      /\ ~outcome'.returned
  BY <1>1, <1>2
<1>4. <<>> \in Seq(Agents) /\ Len(<<>>) = 0
  OBVIOUS
<1>5. TypeOK'
  BY <1>1, <1>3, <1>4, HostAgentAssumption DEF TypeOK
<1>6. SessionHasId' /\ CallsLeft' /\ TaskIsRemotes'
  BY <1>1 DEF SessionHasId, CallsLeft, TaskIsRemotes
<1>7. Pauses'
  BY <1>1, <1>3 DEF Pauses, PausedIsActive, WaitingIsSkipped, PauseReturnsToUser,
                    PausedAgentIsCurrent, Paused
<1> QED
  BY <1>5, <1>6, <1>7 DEF Pauses

LEMMA WrittenTyped ==
  ASSUME HostInv, pc = "sending", NEW t
  PROVE  /\ Agent \in Agents
         /\ Chosen \in Sessions /\ Chosen.id /\ Chosen.agent = Agent
         /\ Written(t) \in Sessions /\ Written(t).id /\ Written(t).agent = Agent
         /\ Written(t).active <=> t \notin Inactive
<1>1. session \in Sessions /\ session.id /\ Agent \in Agents
  BY DEF HostInv, TypeOK, SessionHasId, CallsLeft, Agent
<1>2. Chosen \in Sessions /\ Chosen.id /\ Chosen.agent = Agent
  BY <1>1 DEF Chosen, Sessions
<1> QED
  BY <1>1, <1>2 DEF Written, Sessions

(* send_task returns: its task is in the state the remote agent reported.  *)
LEMMA ReturnInv ==
  ASSUME HostInv, Framed, pc = "sending", NEW t \in States,
         task' \in States \cup {"None"}, remote' \in States \cup {"none"},
         remote' # "none" => t = remote',
         NEW file \in BOOLEAN, skip' = Merged(t = "input-required" \/ file),
         Return(t)
  PROVE  HostInv'
<1> USE DEF HostInv, Framed
<1>1. /\ session' = Written(t) /\ batch' = Tail(batch)
      /\ pc' = CASE batch' # <<>> -> "tools" [] batch' = <<>> /\ skip' -> "user"
                                             [] OTHER -> "instruction"
      /\ outcome' = [agent |-> Agent, state |-> remote', returned |-> TRUE]
      /\ waiting' = IF remote' = "input-required" THEN waiting \cup {Agent} ELSE waiting
      /\ UNCHANGED <<answers, before>>
  BY DEF Return
<1>2. /\ pc' \in {"tools", "user", "instruction"}
      /\ pc' = "tools" => batch' # <<>>
      /\ pc' = "instruction" => ~skip'
  BY <1>1
<1>3. batch # <<>> /\ batch \in Seq(Agents) /\ Len(batch) <= MaxCalls /\ MaxCalls \in Nat
  BY HostAgentAssumption DEF CallsLeft, TypeOK
<1>4. batch' \in Seq(Agents) /\ Len(batch') <= MaxCalls
  <2>1. Tail(batch) \in Seq(Agents) /\ Len(Tail(batch)) = Len(batch) - 1 /\ Len(batch) \in Nat
    BY <1>3
  <2> QED
    BY <1>1, <1>3, <2>1
<1>5. /\ outcome' \in [agent : Agents \cup {NoAgent}, state : States \cup {"none"},
                       returned : BOOLEAN]
      /\ outcome'.agent = Agent /\ outcome'.state = remote' /\ outcome'.returned
      /\ waiting' \subseteq Agents
  BY <1>1, WrittenTyped DEF TypeOK
<1>6. /\ session' \in Sessions /\ session'.id /\ session'.agent = Agent
      /\ session'.active <=> t \notin Inactive
  BY <1>1, WrittenTyped
<1>7. /\ skip' \in BOOLEAN
      /\ remote' = "input-required" => skip'
      /\ sticky /\ skip => skip'
  BY NamesDiffer DEF Merged, TypeOK
<1>8. TypeOK'
  BY <1>1, <1>2, <1>4, <1>5, <1>6, <1>7 DEF TypeOK
<1>9. SessionHasId' /\ CallsLeft' /\ TaskIsRemotes'
  BY <1>1, <1>2, <1>6 DEF SessionHasId, CallsLeft, TaskIsRemotes
<1>10. PausedIsActive'
  BY <1>5, <1>6, NamesDiffer DEF PausedIsActive, Paused
<1>11. PausedAgentIsCurrent'
  BY <1>2 DEF PausedAgentIsCurrent
<1>12. WaitingIsSkipped'
  <2> SUFFICES ASSUME sticky, waiting' # {}
               PROVE  pc' = "user" \/ (pc' \in {"tools", "sending"} /\ skip')
    BY DEF WaitingIsSkipped
  <2>1. skip'
    BY <1>1, <1>7 DEF WaitingIsSkipped
  <2> QED
    BY <1>2, <2>1
<1>13. PauseReturnsToUser'
  <2> SUFFICES ASSUME pc' \in {"instruction", "model"}, waiting' # {}
               PROVE  ~sticky /\ outcome'.returned /\ outcome'.state # "input-required"
    BY DEF PauseReturnsToUser
  <2>1. ~skip'
    BY <1>2
  <2>2. ~sticky
    BY <1>12, <2>1 DEF WaitingIsSkipped
  <2> QED
    BY <1>5, <1>7, <2>1, <2>2
<1> QED
  BY <1>8, <1>9, <1>10, <1>11, <1>12, <1>13

LEMMA FinishInv ==
  ASSUME HostInv, Framed, pc = "sending", NEW t \in States \cup {"None"},
         task' \in States \cup {"None"}, remote' \in States \cup {"none"},
         remote' # "none" => t \in {"None", remote'},
         Finish(t)
  PROVE  HostInv'
<1>1. CASE Raise(Chosen) \/ Raise(Written(t))
  BY <1>1, WrittenTyped, RaiseInv
<1>2. CASE /\ t \notin {"None", "canceled", "failed"}
           /\ \E file \in BOOLEAN : skip' = Merged(t = "input-required" \/ file)
           /\ Return(t)
  <2>1. PICK file \in BOOLEAN : skip' = Merged(t = "input-required" \/ file)
    BY <1>2
  <2> QED
    BY <1>2, <2>1, ReturnInv
<1> QED
  BY <1>1, <1>2 DEF Finish

-----------------------------------------------------------------------------
(* send_task.                                                              *)

SendTask == UnknownAgent \/ Delegate \/ StatusEvent \/ OtherEvent \/ StreamOver \/ Response
            \/ CallFails

(* An event that is not the last one.                                      *)
LEMMA GoesOnInv ==
  ASSUME HostInv, Framed, pc = "sending", UNCHANGED <<session, pc, turn, past>>,
         task' \in States \cup {"None"}, remote' \in States \cup {"none"},
         task' \in {"None", IF remote' = "none" THEN "submitted" ELSE remote'}
  PROVE  HostInv'
BY DEF HostInv, Framed, turn, past, TypeOK, SessionHasId, CallsLeft, TaskIsRemotes,
       PausedIsActive, WaitingIsSkipped, PauseReturnsToUser, PausedAgentIsCurrent, Paused

LEMMA SendTaskInv ==
  ASSUME HostInv, SendTask
  PROVE  HostInv'
<1> USE DEF setup, call
<1>0. TypeOK /\ SessionHasId /\ TaskIsRemotes
  BY DEF HostInv
<1>1. CASE UnknownAgent
  <2>1. /\ Framed /\ pc = "tools" /\ Raise(session) /\ UNCHANGED <<task, remote>>
    BY <1>1 DEF UnknownAgent, Framed
  <2>2. session \in Sessions /\ session.id
    BY <1>0, <2>1 DEF TypeOK, SessionHasId
  <2> QED
    BY <1>0, <2>1, <2>2, RaiseInv DEF TypeOK
<1>2. CASE Delegate
  <2>1. /\ pc = "tools" /\ pc' = "sending" /\ Agent \in cards /\ task' = "None" /\ remote' = "none"
        /\ UNCHANGED <<callback, streaming, sticky, cards, session, answers, batch, before,
                       skip, shown,
                       outcome, waiting>>
    BY <1>2 DEF Delegate, turn, past
  <2> QED
    BY <2>1 DEF HostInv, TypeOK, SessionHasId, CallsLeft, TaskIsRemotes, PausedIsActive,
                WaitingIsSkipped, PauseReturnsToUser, PausedAgentIsCurrent, Paused, Agent
<1>3. CASE StatusEvent
  <2>1. PICK state \in States, final \in BOOLEAN :
          /\ remote' = state /\ task' = Returned(state)
          /\ IF final THEN Finish(task') ELSE UNCHANGED <<session, pc, turn, past>>
    BY <1>3 DEF StatusEvent
  <2>2. pc = "sending" /\ Framed
    BY <1>3 DEF StatusEvent, Framed
  <2>3. task' \in {"None", remote'} /\ remote' \in States /\ remote' # "none"
    BY <2>1, NamesDiffer DEF Returned
  <2> QED
    BY <2>1, <2>2, <2>3, FinishInv, GoesOnInv
<1>4. CASE OtherEvent
  <2>1. /\ pc = "sending" /\ Framed /\ UNCHANGED <<session, pc, turn, past>> /\ remote' = remote
        /\ task' \in {"None", IF remote = "none" THEN "submitted" ELSE remote}
    BY <1>4 DEF OtherEvent, Framed, Returned
  <2>2. task' \in States \cup {"None"} /\ remote' \in States \cup {"none"}
    BY <1>0, <2>1, NamesDiffer DEF TypeOK
  <2> QED
    BY <2>1, <2>2, GoesOnInv
<1>5. CASE StreamOver
  <2>1. pc = "sending" /\ Framed /\ UNCHANGED <<task, remote>> /\ Finish(task)
    BY <1>5 DEF StreamOver, Framed
  <2>2. task \in States \cup {"None"} /\ remote \in States \cup {"none"}
    BY <1>0 DEF TypeOK
  <2>3. remote # "none" => task \in {"None", remote}
    BY <1>0, <2>1 DEF TaskIsRemotes
  <2> QED
    BY <2>1, <2>2, <2>3, FinishInv
<1>6. CASE Response
  <2>1. pc = "sending" /\ Framed /\ Finish(task')
    BY <1>6 DEF Response, Framed
  <2>2. /\ remote' \in States \cup {"none"} /\ task' \in States \cup {"None"}
        /\ task' \in {"None", remote'}
    BY <1>0, <1>6 DEF Response, TypeOK
  <2> QED
    BY <2>1, <2>2, FinishInv
<1>7. CASE CallFails
  <2>1. pc = "sending" /\ Framed /\ UNCHANGED <<task, remote>> /\ Raise(Chosen)
    BY <1>7 DEF CallFails, Framed
  <2>2. Chosen \in Sessions /\ Chosen.id
    BY <2>1, WrittenTyped
  <2> QED
    BY <1>0, <2>1, <2>2, RaiseInv DEF TypeOK
<1> QED
  BY <1>1, <1>2, <1>3, <1>4, <1>5, <1>6, <1>7 DEF SendTask

-----------------------------------------------------------------------------
(* Theorems.                                                               *)

(* The session, the tool calls that are left, the local task and the last  *)
(* delegation fit together in every state.                                 *)
THEOREM HostInductive == Spec => []HostInv
<1>1. Init => HostInv
  <2> SUFFICES ASSUME Init PROVE HostInv
    OBVIOUS
  <2>1. session \in Sessions /\ before \in Sessions /\ ~session.active /\ ~before.active
    BY DEF Init, Sessions
  <2>2. /\ outcome \in [agent : Agents \cup {NoAgent}, state : States \cup {"none"},
                        returned : BOOLEAN]
        /\ ~Paused /\ waiting = {}
    BY DEF Init, Paused
  <2>3. batch \in Seq(Agents) /\ Len(batch) = 0
    BY DEF Init
  <2>4. TypeOK
    <3>1. Len(batch) <= MaxCalls /\ answers \in 0..MaxCalls
      BY <2>3, HostAgentAssumption DEF Init
    <3>2. /\ callback \in BOOLEAN /\ sticky \in BOOLEAN /\ streaming \in [Agents -> BOOLEAN]
          /\ cards \subseteq Agents
          /\ pc = "user" /\ skip \in BOOLEAN /\ task = "None" /\ remote = "none" /\ shown = NoAgent
      BY DEF Init
    <3> QED
      BY <2>1, <2>2, <2>3, <3>1, <3>2 DEF TypeOK
  <2>5. pc = "user"
    BY DEF Init
  <2>6. SessionHasId /\ CallsLeft /\ TaskIsRemotes
    BY <2>1, <2>5 DEF SessionHasId, CallsLeft, TaskIsRemotes
  <2>7. Pauses
    BY <2>2 DEF Pauses, PausedIsActive, WaitingIsSkipped, PauseReturnsToUser, PausedAgentIsCurrent
  <2> QED
    BY <2>4, <2>6, <2>7 DEF HostInv, Pauses
<1>2. HostInv /\ [Next]_vars => HostInv'
  <2> SUFFICES ASSUME HostInv, [Next]_vars PROVE HostInv'
    OBVIOUS
  <2>1. CASE UNCHANGED vars
    BY <2>1 DEF vars, HostInv, TypeOK, SessionHasId, CallsLeft, TaskIsRemotes, PausedIsActive,
                WaitingIsSkipped, PauseReturnsToUser, PausedAgentIsCurrent, Paused
  <2>2. CASE Talk \/ SendTask
    BY <2>2, TalkInv, SendTaskInv
  <2> QED
    BY <2>1, <2>2 DEF Next, Talk, SendTask
<1> QED
  BY <1>1, <1>2, PTL DEF Spec

(* Every variable has its type, and send_task never misses the session id  *)
(* or the connection it reads without a test.                              *)
THEOREM HostTypeCorrect == Spec => []TypeOK
<1>1. HostInv => TypeOK
  BY DEF HostInv
<1> QED
  BY <1>1, HostInductive, PTL

(* While a task waits for the user the model is not called, whatever else  *)
(* the same answer delegated; only an ADK in which a later call unsets the *)
(* flag, and a last delegation that did not pause, can bring that about.   *)
THEOREM PausesReachTheUser == Spec => []PauseReturnsToUser
<1>1. HostInv => PauseReturnsToUser
  BY DEF HostInv
<1> QED
  BY <1>1, HostInductive, PTL

(* The model is told that the agent whose task waits for the user is the   *)
(* current one, until the next delegation.                                 *)
THEOREM PausedAgentStays == Spec => []PausedAgentIsCurrent
<1>1. HostInv => PausedAgentIsCurrent
  BY DEF HostInv
<1> QED
  BY <1>1, HostInductive, PTL

LEMMA FinishResult ==
  ASSUME HostInv, pc = "sending", NEW t \in States \cup {"None"}, remote' \in States,
         t \in {"None", remote'}, Finish(t), outcome'.returned
  PROVE  /\ remote' \notin {"canceled", "failed"}
         /\ session'.active <=> remote' \notin Inactive
<1>1. ASSUME NEW written, Raise(written)
      PROVE  FALSE
  BY <1>1 DEF Raise
<1>2. t \notin {"None", "canceled", "failed"} /\ Return(t)
  BY <1>1 DEF Finish
<1> QED
  BY <1>2, WrittenTyped DEF Return

(* A delegation that returns does so with the state the remote agent       *)
(* reported last, never with a failed or canceled task, and leaves the     *)
(* session active exactly when that task goes on.                          *)
THEOREM RemotesResultReturned == Spec => ResultIsTheRemotes
<1> DEFINE Told == (pc = "sending" /\ pc' # "sending" /\ outcome'.returned /\ remote' # "none") =>
                     /\ remote' \notin {"canceled", "failed"}
                     /\ session'.active <=> remote' \notin Inactive
<1>1. HostInv /\ [Next]_vars => [Told]_vars
  <2> SUFFICES ASSUME HostInv, Next, pc = "sending", pc' # "sending", outcome'.returned,
                      remote' # "none"
               PROVE  /\ remote' \notin {"canceled", "failed"}
                      /\ session'.active <=> remote' \notin Inactive
    OBVIOUS
  <2>0. TypeOK /\ TaskIsRemotes
    BY DEF HostInv
  <2>1. CASE Talk
    BY <2>1 DEF Talk, UserMessage, ModelCalled, ModelAnswers, ListRemoteAgents, ModelDelegates,
                RegisterAgentCard
  <2>2. CASE UnknownAgent \/ Delegate \/ OtherEvent
    BY <2>2 DEF UnknownAgent, Delegate, OtherEvent
  <2>3. CASE StatusEvent
    <3>1. PICK state \in States : remote' = state /\ task' = Returned(state) /\ Finish(task')
      BY <2>3 DEF StatusEvent
    <3>2. task' \in {"None", remote'} /\ remote' \in States
      BY <3>1 DEF Returned
    <3> QED
      BY <3>1, <3>2, FinishResult
  <2>4. CASE StreamOver
    <3>1. Finish(task) /\ remote' = remote
      BY <2>4 DEF StreamOver, call
    <3>2. remote' \in States /\ task \in {"None", remote'}
      BY <2>0, <3>1 DEF TypeOK, TaskIsRemotes
    <3> QED
      BY <3>1, <3>2, FinishResult
  <2>5. CASE Response
    <3>1. Finish(task') /\ task' \in {"None", remote'} /\ remote' \in States
      BY <2>0, <2>5 DEF Response, TypeOK
    <3> QED
      BY <3>1, FinishResult
  <2>6. CASE CallFails
    BY <2>6 DEF CallFails, Raise
  <2> QED
    BY <2>1, <2>2, <2>3, <2>4, <2>5, <2>6 DEF Next, Talk
<1> QED
  BY <1>1, HostInductive, PTL DEF Spec, ResultIsTheRemotes
=============================================================================
