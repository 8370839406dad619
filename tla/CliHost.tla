------------------------------- MODULE CliHost -------------------------------
(***************************************************************************)
(* The command line host (samples/hosts/cli/__main__.py) with its          *)
(* A2AClient (samples/common/client/client.py), composed with the task     *)
(* manager it talks to.  Hosts are processes of their own; the steps of    *)
(* the server are those of TaskManager.                                    *)
(*                                                                         *)
(* A call and its arrival at the server are one step: no other request     *)
(* names the task meanwhile.  The answer is a step of its own.             *)
(***************************************************************************)
EXTENDS TaskManager

CONSTANT Clis    (* the running hosts                                      *)

VARIABLES
  streaming,  (* card.capabilities.streaming: one card, read once          *)
  at,         (* where the coroutine completeTask of the host is           *)
  taskId,     (* its taskId; NoId: cli() makes a new one at the next turn  *)
  call,       (* its last request, Nobody before the first                 *)
  result      (* history: taskResult.result.status, per request            *)

host    == <<streaming, at, taskId, call, result>>
cliVars == <<vars, host>>

CliTypeOK ==
  /\ TypeOK
  /\ streaming \in BOOLEAN
  /\ at \in [Clis -> {"prompt", "stream", "get_task", "send_task", "stopped"}]
  /\ taskId \in [Clis -> TaskIds \cup {NoId}]
  /\ call \in [Clis -> Requests \cup {Nobody}]
  /\ result \in [Requests -> Statuses \cup {NoStatus}]
  /\ \A h \in Clis : call[h] # Nobody => target[call[h]] # NoId

CliInit ==
  /\ Init
  /\ streaming \in BOOLEAN
  /\ at = [h \in Clis |-> "prompt"]
  /\ taskId = [h \in Clis |-> NoId]
  /\ call = [h \in Clis |-> Nobody]
  /\ result = [r \in Requests |-> NoStatus]

-----------------------------------------------------------------------------
(* The task of the next message: the paused one, or one with a new uuid.   *)
(* New requests and new uuids differ in name only, so which one is taken   *)
(* makes no difference.                                                    *)
Unused == {t \in TaskIds : ~Exists(tasks, t)}

TaskOfTurn(h) == IF taskId[h] # NoId THEN taskId[h] ELSE CHOOSE t \in Unused : TRUE

NewRequest == CHOOSE r \in Requests : pc[r] = "idle"

(* completeTask up to its call.  The server accepts it: the output mode    *)
(* 'text' is a supported one.                                              *)
Send(h) ==
  /\ at[h] = "prompt"
  /\ \E r \in Requests : pc[r] = "idle"
  /\ taskId[h] # NoId \/ Unused # {}
  /\ taskId' = [taskId EXCEPT ![h] = TaskOfTurn(h)]
  /\ call' = [call EXCEPT ![h] = NewRequest]
  /\ IF streaming THEN OnSendTaskSubscribe(NewRequest, TaskOfTurn(h))
                  ELSE OnSendTask(NewRequest, TaskOfTurn(h))
  /\ at' = [at EXCEPT ![h] = IF streaming THEN "stream" ELSE "send_task"]
  /\ UNCHANGED <<streaming, result>>

(* The user types quit.                                                    *)
Quit(h) ==
  /\ at[h] = "prompt"
  /\ at' = [at EXCEPT ![h] = "stopped"]
  /\ UNCHANGED <<vars, streaming, taskId, call, result>>

(* The server has closed the response: the async for of completeTask is    *)
(* over.  Neither a final status nor an error event ends it earlier.       *)
StreamOver_AtFirstEvent(h) ==
  /\ at[h] = "stream"
  /\ received[call[h]] # <<>>
  /\ at' = [at EXCEPT ![h] = "get_task"]
  /\ UNCHANGED <<vars, streaming, taskId, call, result>>

StreamOver(h) ==
  /\ at[h] = "stream"
  /\ consumer[call[h]] = "closed"
  /\ at' = [at EXCEPT ![h] = "get_task"]
  /\ UNCHANGED <<vars, streaming, taskId, call, result>>

(* The decision at the end of completeTask: the same task again when input *)
(* is required, otherwise the task counts as complete.                     *)
Conclude_Never(h, status) ==
  /\ result' = [result EXCEPT ![call[h]] = status]
  /\ at' = [at EXCEPT ![h] = "prompt"]
  /\ taskId' = [taskId EXCEPT ![h] = NoId]
  /\ UNCHANGED <<streaming, call>>

Conclude_Continues(h, status) ==
  /\ result' = [result EXCEPT ![call[h]] = status]
  /\ at' = [at EXCEPT ![h] = "prompt"]
  /\ UNCHANGED <<streaming, taskId, call>>

Conclude(h, status) ==
  /\ result' = [result EXCEPT ![call[h]] = status]
  /\ at' = [at EXCEPT ![h] = "prompt"]
  /\ taskId' = [taskId EXCEPT ![h] = IF status.state = "input-required" THEN @ ELSE NoId]
  /\ UNCHANGED <<streaming, call>>

(* on_get_task without a historyLength: the task without its history.      *)
OnGetTask(t) == [tasks[t] EXCEPT !.history = <<>>]

GetTask(h) ==
  /\ at[h] = "get_task"
  /\ Conclude(h, OnGetTask(taskId[h]).status)
  /\ UNCHANGED vars

SendReturns(h) ==
  /\ at[h] = "send_task"
  /\ reply[call[h]].type = "task"
  /\ Conclude(h, reply[call[h]].status)
  /\ UNCHANGED vars

(* The host dies in the middle of a call: it is killed, the connection     *)
(* breaks, the 60 s of a tasks/send or tasks/get run out, or the server    *)
(* answers 400 because the agent raised (A2AClientHTTPError).  The server  *)
(* notices only if it was streaming.                                       *)
HostDies(h) ==
  /\ at[h] \notin {"prompt", "stopped"}
  /\ at' = [at EXCEPT ![h] = "stopped"]
  /\ IF consumer[call[h]] = "open" THEN ClientDisconnects(call[h]) ELSE UNCHANGED vars
  /\ UNCHANGED <<streaming, taskId, call, result>>

HostStep(h) == StreamOver(h) \/ GetTask(h) \/ SendReturns(h)

SendFails(h) == reply[call[h]].type = "error" /\ HostDies(h)

(* Another client may have given the task a push configuration.            *)
ServerStep ==
  /\ \/ \E r \in Requests : SendStep(r) \/ RunnerStep(r) \/ ConsumerStep(r)
     \/ \E t \in TaskIds : SetPushNotification(t)
  /\ UNCHANGED host

CliNext ==
  \/ ServerStep
  \/ \E h \in Clis : Send(h) \/ Quit(h) \/ HostStep(h) \/ HostDies(h)

CliSpec == CliInit /\ [][CliNext]_cliVars

(* The user owes nothing; a host goes on when its call has been answered.  *)
FairCliSpec ==
  /\ CliSpec
  /\ Fairness
  /\ \A h \in Clis : WF_cliVars(HostStep(h)) /\ WF_cliVars(at[h] = "send_task" /\ SendFails(h))

-----------------------------------------------------------------------------
(* Properties.                                                             *)

(* Hosts take turns with the agent: a follow-up (completeTask calling      *)
(* itself) never starts while the agent still works on the task, although  *)
(* the host goes by what tasks/get says, not by the event it was sent.     *)
OneRunPerTask ==
  \A r, s \in Requests : (r # s /\ Running(r) /\ Running(s)) => target[r] # target[s]

(* The status a host draws its conclusion from is the last one of the run  *)
(* it asked for, and unless that run failed a final one.  tasks/get never  *)
(* tells that it failed: a host that asks after a run which had built no   *)
(* status yet sees the one its turn began with, submitted or the question  *)
(* of the turn before, and never the result of another run.                *)
Shows(r, status) ==
  IF newStatus[r] = NoStatus THEN status.state \in {"submitted", "input-required"}
                             ELSE status = newStatus[r]

VerdictIsOwn ==
  \A r \in Requests : result[r] # NoStatus =>
    Shows(r, result[r]) /\ (Failed(r) \/ Final(newStatus[r]))

(* A conversation alternates: after the first user message of a task, the  *)
(* next one answers an agent message, or repeats a turn whose run failed.  *)
(* So no finished task is taken up again.                                  *)
TurnsAlternate ==
  \A t \in TaskIds : \A i \in DOMAIN tasks[t].history \ {1} :
    tasks[t].history[i].role = "user" =>
      LET before == tasks[t].history[i - 1] IN before.role = "agent" \/ Failed(before.run)

(* No paused task is forgotten: when a host has drawn its conclusion about *)
(* a task that waits for input, it still holds the id of that task.        *)
PausedTaskIsKept ==
  \A r \in Requests :
    (result[r] # NoStatus /\ tasks[target[r]].status.state = "input-required") =>
      \E h \in Clis : taskId[h] = target[r]

(* A host that has sent a message comes back to its prompt or stops, also  *)
(* when the agent raises before or after its first item.                   *)
HostReturns ==
  \A h \in Clis : (at[h] \notin {"prompt", "stopped"}) ~> (at[h] \in {"prompt", "stopped"})

(* What makes the invariants above inductive.  Hosts share neither calls   *)
(* nor tasks; the task a host holds is that of its last call; it goes on   *)
(* to ask, to conclude and to prompt when the run of that call is over;    *)
(* and what it prompts for is a task that waits for input.                 *)
HostsDiffer ==
  \A g, h \in Clis : g # h =>
    /\ call[g] = call[h] => call[h] = Nobody
    /\ taskId[g] = taskId[h] => taskId[h] = NoId

Holds(h) == taskId[h] # NoId

Over(r) == pc[r] = "done" /\ ~Connected(r)

HostsWait ==
  \A h \in Clis :
    /\ Holds(h) => call[h] # Nobody /\ taskId[h] = target[call[h]]
    /\ at[h] \in {"stream", "get_task", "send_task"} => Holds(h)
    /\ at[h] = "send_task" => ~Subscribed(call[h])
    /\ (at[h] = "stream" /\ consumer[call[h]] \in {"closing", "closed"}) =>
         pc[call[h]] = "done"
    /\ (at[h] \in {"get_task", "prompt"} /\ Holds(h)) => Over(call[h])
    /\ (at[h] = "prompt" /\ Holds(h)) => tasks[taskId[h]].status.state = "input-required"

(* Every run and every stream is that of the call of a host, which holds   *)
(* the task of the call; so does the host of every task that is paused.    *)
BusyIsHeld ==
  \A r \in Requests : (Running(r) \/ Connected(r)) =>
    \E h \in Clis : call[h] = r /\ Holds(h)

PausedIsHeld ==
  \A t \in TaskIds : tasks[t].status.state = "input-required" =>
    \E h \in Clis : taskId[h] = t

(* The status of a task somebody holds is the last one its run has built,  *)
(* or the one it began with, and the last message is the agent's or the    *)
(* one still to be answered.                                               *)
StatusIsOwn ==
  \A h \in Clis : Holds(h) => Shows(call[h], tasks[taskId[h]].status)

LastSaid ==
  \A h \in Clis : Holds(h) =>
    LET history == tasks[taskId[h]].history
        last    == history[Len(history)]
    IN  \/ last.role = "agent"
        \/ last = UserMessage(call[h]) /\ ~newStatus[call[h]].message

(* How a run ends, and that a stream only has events of its own run.       *)
RunsEnd ==
  \A r \in Requests :
    /\ (pc[r] = "post_result" \/ reply[r].type = "task") => Final(newStatus[r])
    /\ (pc[r] = "done" /\ target[r] # NoId) => Failed(r) \/ Final(newStatus[r])
    /\ newStatus[r].state = "input-required" => newStatus[r].message

OwnEvents ==
  \A r \in Requests :
    /\ \A i \in DOMAIN queues[r] :
         /\ queues[r][i].run = r
         /\ EndsStream(queues[r][i]) => pc[r] = "done"
         /\ queues[r][i].final => queues[r][i] = StatusEvent(newStatus[r], TRUE)
    /\ \A i \in DOMAIN received[r] : received[r][i].run = r

(* A conclusion about a run is drawn when that run is over.                *)
ConcludedIsOver ==
  \A r \in Requests : result[r] # NoStatus => pc[r] = "done" /\ target[r] # NoId

(* Inductive together with CliTypeOK and the invariants of TaskManager,    *)
(* IInv and StoreInv.                                                      *)
CliInv ==
  /\ HostsDiffer
  /\ HostsWait
  /\ BusyIsHeld
  /\ PausedIsHeld
  /\ StatusIsOwn
  /\ LastSaid
  /\ RunsEnd
  /\ OwnEvents
  /\ ConcludedIsOver
  /\ ReplyIsOwnResult
  /\ VerdictIsOwn
  /\ TurnsAlternate
=============================================================================
