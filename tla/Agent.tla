-------------------------------- MODULE Agent --------------------------------
(***************************************************************************)
(* The stateful Agent of packages/agent/src/agent.ts around the loop of     *)
(* AgentLoop: one active run at a time, the transcript reduced from the     *)
(* loop's events, the steering and follow-up queues, abort, and the failure *)
(* path when a listener throws.                                             *)
(*                                                                         *)
(* A client may call any public method between any two awaits of a run.     *)
(* The mode of a queue ("all" or "one-at-a-time") can be set at any moment, *)
(* so that each drain takes either, without a variable for it.              *)
(***************************************************************************)
EXTENDS AgentLoop

CONSTANTS MaxMessages,    \* bound: user messages
          ListenersThrow, \* whether a listener may throw
          Resumes         \* whether the agent may be given an earlier transcript

ASSUME AgentConstants ==
  MaxMessages \in Nat /\ ListenersThrow \in BOOLEAN /\ Resumes \in BOOLEAN

VARIABLES
  activeRun,         \* Agent.activeRun
  skipPoll,          \* runs whose skipInitialSteeringPoll is still set
  messages,          \* _state.messages
  streamingMessage,  \* _state.streamingMessage
  pendingToolCalls,  \* _state.pendingToolCalls, a call as <<run, call>>
  steeringQueue,
  followUpQueue,
  sent,              \* user messages handed to the agent so far
  cleared,           \* numbers of those removed by a clear or a reset
  dropped,           \* numbers of those lost in a failed run
  rewritten,         \* history: reset() replaced the transcript under a run
  ended              \* history: runs that have emitted agent_end

vars == <<loop, out, activeRun, skipPoll, messages, streamingMessage, pendingToolCalls,
          steeringQueue, followUpQueue, sent, cleared, dropped, rewritten, ended>>

NoRun == "no run"
ASSUME NoRunIsNoRun == NoRun \notin Runs

stateVars == <<messages, streamingMessage, pendingToolCalls>>
queues    == <<steeringQueue, followUpQueue>>
history   == <<sent, cleared, dropped, rewritten, ended>>

Init ==
  /\ LoopInit
  /\ activeRun = NoRun /\ skipPoll = {}
  /\ messages \in {<<>>} \cup (IF Resumes THEN {<<AssistantMessage("stop", 0)>>} ELSE {})
  /\ streamingMessage = NoMessage /\ pendingToolCalls = {}
  /\ steeringQueue = <<>> /\ followUpQueue = <<>>
  /\ sent = 0 /\ cleared = {} /\ dropped = {} /\ rewritten = FALSE /\ ended = {}

Numbers(s) == {s[i].n : i \in {j \in 1..Len(s) : s[j].role = "user"}}

(* What a drain may take: the whole queue or its first message.              *)
Drains(queue) ==
  IF queue = <<>> THEN {<<>>} ELSE {queue, <<queue[1]>>}

(* Mutant: the drained messages stay in the queue.                           *)
RestAll(queue, taken) == queue

Rest(queue, taken) == SubSeq(queue, Len(taken) + 1, Len(queue))

-----------------------------------------------------------------------------
(* Starting a run: runWithLifecycle.                                         *)

StartRun(r, prompts) ==
  /\ activeRun = NoRun
  /\ RunAgentLoop(r, prompts, messages)
  /\ activeRun' = r
  /\ streamingMessage' = NoMessage
  /\ rewritten' = FALSE
  /\ UNCHANGED <<messages, pendingToolCalls, cleared, dropped, ended>>

Prompt(r) ==
  /\ sent < MaxMessages
  /\ StartRun(r, <<UserMessage("prompt", sent + 1)>>)
  /\ sent' = sent + 1
  /\ UNCHANGED <<skipPoll, queues>>

(* continue() after an assistant message: queued messages are the prompts,   *)
(* steering before follow-ups.                                               *)
LastRole == IF messages = <<>> THEN "none" ELSE messages[Len(messages)].role

ContinueWithSteering(r) ==
  /\ LastRole = "assistant" /\ steeringQueue # <<>>
  /\ \E taken \in Drains(steeringQueue) :
       /\ StartRun(r, taken)
       /\ steeringQueue' = Rest(steeringQueue, taken)
  /\ skipPoll' = skipPoll \cup {r}
  /\ UNCHANGED <<followUpQueue, sent>>

ContinueWithFollowUps(r) ==
  /\ LastRole = "assistant" /\ steeringQueue = <<>> /\ followUpQueue # <<>>
  /\ \E taken \in Drains(followUpQueue) :
       /\ StartRun(r, taken)
       /\ followUpQueue' = Rest(followUpQueue, taken)
  /\ UNCHANGED <<skipPoll, steeringQueue, sent>>

(* continue() after a user or tool result message: runAgentLoopContinue.     *)
Continue(r) ==
  /\ LastRole \in {"user", "toolResult"}
  /\ StartRun(r, <<>>)
  /\ UNCHANGED <<skipPoll, queues, sent>>

-----------------------------------------------------------------------------
(* The public methods that may be called at any moment.                      *)

SteerWith(message, queue) ==
  /\ sent < MaxMessages
  /\ steeringQueue' = queue
  /\ sent' = message.n
  /\ UNCHANGED <<loop, out, activeRun, skipPoll, stateVars, followUpQueue, cleared, dropped,
                 rewritten, ended>>

NewSteer == UserMessage("steer", sent + 1)

(* Mutant: a steering message overtakes the queued ones.                     *)
SteerFirst == SteerWith(NewSteer, <<NewSteer>> \o steeringQueue)

Steer == SteerWith(NewSteer, Append(steeringQueue, NewSteer))

FollowUp ==
  /\ sent < MaxMessages
  /\ followUpQueue' = Append(followUpQueue, UserMessage("followUp", sent + 1))
  /\ sent' = sent + 1
  /\ UNCHANGED <<loop, out, activeRun, skipPoll, stateVars, steeringQueue, cleared, dropped,
                 rewritten, ended>>

ClearAllQueues ==
  /\ steeringQueue \o followUpQueue # <<>>
  /\ cleared' = cleared \cup Numbers(steeringQueue \o followUpQueue)
  /\ steeringQueue' = <<>> /\ followUpQueue' = <<>>
  /\ UNCHANGED <<loop, out, activeRun, skipPoll, stateVars, sent, dropped, rewritten, ended>>

Abort ==
  /\ activeRun # NoRun /\ ~loop[activeRun].aborted
  /\ loop' = [loop EXCEPT ![activeRun].aborted = TRUE]
  /\ UNCHANGED <<out, activeRun, skipPoll, stateVars, queues, history>>

(* reset() has no guard: it also clears the transcript of an active run.     *)
Reset ==
  /\ messages # <<>>
  /\ cleared' = cleared \cup Numbers(steeringQueue \o followUpQueue \o messages)
  /\ messages' = <<>> /\ streamingMessage' = NoMessage /\ pendingToolCalls' = {}
  /\ steeringQueue' = <<>> /\ followUpQueue' = <<>>
  /\ rewritten' = (activeRun # NoRun)
  /\ UNCHANGED <<loop, out, activeRun, skipPoll, sent, dropped, ended>>

-----------------------------------------------------------------------------
(* The polls of the loop, answered from the queues.  A run that took its     *)
(* prompts from the steering queue skips its initial poll                    *)
(* (skipInitialSteeringPoll).                                                *)

PollSteering(r) ==
  /\ \E taken \in IF r \in skipPoll THEN {<<>>} ELSE Drains(steeringQueue) :
       /\ SteeringPolled(r, taken)
       /\ steeringQueue' = Rest(steeringQueue, taken)
  /\ skipPoll' = skipPoll \ {r}
  /\ UNCHANGED <<activeRun, stateVars, followUpQueue, history>>

PollFollowUps(r) ==
  /\ \E taken \in Drains(followUpQueue) :
       /\ FollowUpPolled(r, taken)
       /\ followUpQueue' = Rest(followUpQueue, taken)
  /\ UNCHANGED <<activeRun, skipPoll, stateVars, steeringQueue, history>>

(* The agent's prepareNextTurn hands out no fresh context.                   *)
PrepareNextTurn(r) ==
  /\ TurnPrepared(r, loop[r].ctx)
  /\ UNCHANGED <<activeRun, skipPoll, stateVars, queues, history>>

-----------------------------------------------------------------------------
(* processEvents: reduce the event, then await the listeners.  The reducer   *)
(* runs before the check that a run is active.                               *)

Reduce(r, e) ==
  CASE e.type = "message_start" ->
         /\ streamingMessage' = e.msg
         /\ UNCHANGED <<messages, pendingToolCalls>>
    [] e.type = "message_end" ->
         /\ streamingMessage' = NoMessage
         /\ messages' = Append(messages, e.msg)
         /\ UNCHANGED pendingToolCalls
    [] e.type = "tool_execution_start" ->
         /\ pendingToolCalls' = pendingToolCalls \cup {<<r, e.call>>}
         /\ UNCHANGED <<messages, streamingMessage>>
    [] e.type = "agent_end" ->
         /\ streamingMessage' = NoMessage
         /\ UNCHANGED <<messages, pendingToolCalls>>
    [] OTHER -> UNCHANGED stateVars

FailureMessage(r) ==
  AssistantMessage(IF loop[r].aborted THEN "aborted" ELSE "error", 0)

(* Mutant: the failure report starts with the context of the run.            *)
FailureEventsWithContext(r) ==
  MessageEvents(Append(loop[r].ctx, FailureMessage(r))) \o <<Event("turn_end"), Event("agent_end")>>

FailureEvents(r) ==
  MessageEvents(<<FailureMessage(r)>>) \o <<Event("turn_end"), Event("agent_end")>>

(* User messages that events still carry into the transcript.                *)
InFlight(events) ==
  {events[i].msg.n : i \in {j \in 1..Len(events) : /\ events[j].type = "message_end"
                                                   /\ events[j].msg.role = "user"}}

HandleEvent(r) ==
  /\ out[r] # <<>>
  /\ LET e == out[r][1] IN
       /\ Reduce(r, e)
       /\ out' = [out EXCEPT ![r] = Tail(@)]
       /\ ended' = IF e.type = "agent_end" THEN ended \cup {r} ELSE ended
  /\ UNCHANGED <<loop, activeRun, skipPoll, queues, sent, cleared, dropped, rewritten>>

(* A listener throws while it handles the event: the loop is left where it   *)
(* is and handleRunFailure reports a failure message; a listener that throws *)
(* again ends that too.                                                      *)
ListenerThrows(r) ==
  /\ ListenersThrow
  /\ out[r] # <<>>
  /\ LET e == out[r][1] IN
       /\ Reduce(r, e)
       /\ dropped' = dropped \cup InFlight(Tail(out[r]))
       /\ ended' = IF e.type = "agent_end" THEN ended \cup {r} ELSE ended
  /\ IF loop[r].pc = "failing"
     THEN /\ loop' = [loop EXCEPT ![r].pc = "dead"]
          /\ out' = [out EXCEPT ![r] = <<>>]
     ELSE /\ loop' = [loop EXCEPT ![r].pc = "failing"]
          /\ out' = [out EXCEPT ![r] = FailureEvents(r)]
  /\ UNCHANGED <<activeRun, skipPoll, queues, sent, cleared, rewritten>>

(* Mutant: an ended call stays pending.                                      *)
EndCallPending(r, c) ==
  /\ CallEnded(r, c)
  /\ UNCHANGED <<activeRun, skipPoll, stateVars, queues, history>>

(* tool_execution_end, emitted by the call itself.                           *)
EndCall(r, c) ==
  /\ CallEnded(r, c)
  /\ pendingToolCalls' = pendingToolCalls \ {<<r, c>>}
  /\ UNCHANGED <<activeRun, skipPoll, messages, streamingMessage, queues, history>>

(* The listener of a tool_execution_end throws: the run of that call fails,  *)
(* and the other calls of a parallel batch go on without it.                 *)
EndCallThrows(r, c) ==
  /\ ListenersThrow
  /\ loop[r].pc \in {"tools", "joining"}
  /\ c \in With(r, {"ending"})
  /\ loop' = [loop EXCEPT ![r].calls[c] = "done", ![r].pc = "failing"]
  /\ out' = [out EXCEPT ![r] = FailureEvents(r)]
  /\ pendingToolCalls' = pendingToolCalls \ {<<r, c>>}
  /\ UNCHANGED <<activeRun, skipPoll, messages, streamingMessage, queues, history>>

Settled(r) == loop[r].pc \in {"returned", "dead"} \/ At(r, "failing")

(* finishRun.  Nothing is left of the run but the tools it did not wait for. *)
LeaveRun(r, pending) ==
  /\ activeRun = r
  /\ loop' = [loop EXCEPT ![r] = [Unused EXCEPT !.pc = "dead",
                  !.calls = IF With(r, {"running", "ending"}) = {} THEN <<>> ELSE loop[r].calls]]
  /\ skipPoll' = skipPoll \ {r}
  /\ activeRun' = NoRun
  /\ streamingMessage' = NoMessage /\ pendingToolCalls' = pending
  /\ UNCHANGED <<out, messages, queues, history>>

(* Mutants: the pending calls survive the run, a failed run is never         *)
(* finished, and an aborted one is finished before its tools have settled.   *)
FinishRunPending(r) == Settled(r) /\ LeaveRun(r, pendingToolCalls)
FinishRunOnReturn(r) == loop[r].pc = "returned" /\ LeaveRun(r, {})
FinishRunOnAbort(r) ==
  (Settled(r) \/ (At(r, "joining") /\ loop[r].aborted)) /\ LeaveRun(r, {})

(* The executor or handleRunFailure has settled.                             *)
FinishRun(r) == Settled(r) /\ LeaveRun(r, {})

RunStep(r) ==
  \/ LoopStep(r) /\ UNCHANGED <<activeRun, skipPoll, stateVars, queues, history>>
  \/ PollSteering(r) \/ PollFollowUps(r) \/ PrepareNextTurn(r)
  \/ HandleEvent(r) \/ \E c \in Calls(r) : EndCall(r, c)
  \/ FinishRun(r)

Failure(r) == ListenerThrows(r) \/ \E c \in Calls(r) : EndCallThrows(r, c)

Client(r) == Prompt(r) \/ ContinueWithSteering(r) \/ ContinueWithFollowUps(r) \/ Continue(r)

Next ==
  \/ \E r \in Runs : Client(r) \/ RunStep(r) \/ Failure(r)
  \/ Steer \/ FollowUp \/ ClearAllQueues \/ Abort \/ Reset

Spec == Init /\ [][Next]_vars

(* Providers, tools and listeners settle sooner or later, and the event loop *)
(* of the runtime goes on; nothing is assumed of the clients.                *)
Fairness == \A r \in Runs : WF_vars(RunStep(r) \/ Failure(r))
FairSpec == Spec /\ Fairness

-----------------------------------------------------------------------------
(* What a provider is sent is the transcript: when a request is under way,   *)
(* the loop's private context holds exactly the messages the agent shows     *)
(* (unless reset() emptied the transcript under the run).                    *)
RequestIsTranscript ==
  \A r \in Runs : (r = activeRun /\ loop[r].pc = "waiting" /\ ~rewritten)
                    => loop[r].ctx = messages

(* Every user message handed to the agent is in exactly one place: a queue,  *)
(* on its way into the transcript, in the transcript, or cleared, or dropped *)
(* by a run that failed.  Steering messages enter the transcript in the      *)
(* order they were given, and so do follow-ups, over any number of runs.     *)
Places == <<Numbers(steeringQueue), Numbers(followUpQueue),
            IF activeRun = NoRun THEN {} ELSE InFlight(out[activeRun]),
            Numbers(messages), cleared, dropped>>
NothingLostOrDoubled ==
  /\ LET places == Places IN
       \A n \in 1..sent : Cardinality({i \in DOMAIN places : n \in places[i]}) = 1
  /\ \A i, j \in DOMAIN messages :
       (i # j /\ messages[i].role = "user" /\ messages[j].role = "user")
         => messages[i].n # messages[j].n
  /\ \A i, j \in DOMAIN messages :
       (i < j /\ messages[i].kind = messages[j].kind /\ messages[i].kind \in {"steer", "followUp"})
         => messages[i].n < messages[j].n

(* A request never leaves a tool call open: unless the run was aborted or    *)
(* the transcript replaced, the results of the run's last tool calls follow  *)
(* them in the order of the calls, whatever order the tools finished in.     *)
LastAssistant(s) ==
  CHOOSE i \in DOMAIN s : /\ s[i].role = "assistant"
                          /\ \A j \in (i+1)..Len(s) : s[j].role # "assistant"
CallsAnswered ==
  \A r \in Runs :
    LET ctx == loop[r].ctx
        i == LastAssistant(ctx)
        n == IF ctx[i].kind = "toolUse" THEN ctx[i].n ELSE 0
    IN  (r = activeRun /\ loop[r].pc = "waiting" /\ loop[r].turns > 0 /\ ~loop[r].aborted)
          => /\ Len(ctx) >= i + n
             /\ \A c \in 1..n : ctx[i + c] = ToolResult(c)
             /\ \A j \in (i + n + 1)..Len(ctx) : ctx[j].role = "user"

(* state.pendingToolCalls names exactly the calls of the active run whose    *)
(* tool_execution_start was handled and whose tool_execution_end was not.    *)
(* When the agent is idle no tool of an earlier run is still at work (unless *)
(* listeners throw): a caller of waitForIdle() may touch the same files.     *)
Announced(r) == IF out[r] # <<>> /\ out[r][1].type = "tool_execution_start"
                THEN {out[r][1].call} ELSE {}
PendingCallsExact ==
  /\ ~rewritten =>
       pendingToolCalls =
         IF activeRun = NoRun THEN {}
         ELSE {<<activeRun, c>> : c \in With(activeRun, {"started", "prepared", "running", "ending"})
                                          \ Announced(activeRun)}
  /\ (activeRun = NoRun /\ ~ListenersThrow) =>
       \A r \in Runs : With(r, {"running", "ending"}) = {}

(* agent_end is the last event of a run, as long as listeners do not throw:  *)
(* after one of them has, the tools of a parallel batch go on and report.    *)
QuietAfterEnd ==
  \A r \in ended : /\ Len(out'[r]) >= Len(out[r])
                   /\ \A c \in With(r, {"ending"}) : loop'[r].calls[c] = "ending"
AgentEndIsLast == [][~ListenersThrow => QuietAfterEnd]_vars

(* A run ends: the agent becomes idle again, whatever was queued or aborted. *)
RunsEnd == activeRun # NoRun ~> activeRun = NoRun
=============================================================================
