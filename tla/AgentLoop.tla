------------------------------ MODULE AgentLoop ------------------------------
(***************************************************************************)
(* The low-level loop of packages/agent/src/agent-loop.ts: runAgentLoop,    *)
(* runLoop, streamAssistantResponse and the execution of tool calls.        *)
(*                                                                         *)
(* The loop belongs to nobody: it emits events and awaits whoever handles   *)
(* them, and it asks its configuration for steering and follow-up messages. *)
(* This module therefore has no Next of its own.  A module that extends it  *)
(* (Agent, AgentHarness) handles the head of out[r], answers the polls and  *)
(* adds everybody else who acts between two awaits of the loop.             *)
(*                                                                         *)
(* Abstractions.  A message is its role and what tells it apart; the        *)
(* streaming updates of a message and of a tool are left out (they change   *)
(* no state the properties see).  What a provider answers and what a tool   *)
(* or a before/after hook decides is a nondeterministic choice.             *)
(***************************************************************************)
EXTENDS Integers, Sequences, FiniteSets

CONSTANTS Runs,      \* names of the calls of runAgentLoop
          MaxTurns,  \* bound: turns of a run whose answer may ask for tools
          MaxCalls   \* bound: tool calls in one assistant message

ASSUME LoopBounds == MaxTurns \in Nat /\ MaxCalls \in Nat

VARIABLES
  loop,  \* the local state of each run
  out    \* the events each run has emitted and still awaits, in order

loopVars == <<loop, out>>

-----------------------------------------------------------------------------
(* Messages and events.                                                      *)

Stops == {"stop", "toolUse", "error", "aborted"}
UserKinds == {"prompt", "steer", "followUp", "nextTurn", "write"}

UserMessage(kind, n)      == [role |-> "user", kind |-> kind, n |-> n]
AssistantMessage(stop, n) == [role |-> "assistant", kind |-> stop, n |-> n]
ToolResult(call)          == [role |-> "toolResult", kind |-> "result", n |-> call]
NoMessage                 == [role |-> "none", kind |-> "none", n |-> 0]

Messages == [role : {"user", "assistant", "toolResult"},
             kind : Stops \cup UserKinds \cup {"result"},
             n    : Nat]

Event(type)           == [type |-> type, msg |-> NoMessage, call |-> 0]
MessageEvent(type, m) == [type |-> type, msg |-> m, call |-> 0]
CallEvent(type, c)    == [type |-> type, msg |-> NoMessage, call |-> c]

Events == [type : {"turn_start", "message_start", "message_end",
                   "tool_execution_start", "turn_end", "agent_end"},
           msg  : Messages \cup {NoMessage},
           call : Nat]

(* message_start and message_end of each message, in order.                  *)
MessageEvents(msgs) ==
  [i \in 1..(2 * Len(msgs)) |->
     MessageEvent(IF i % 2 = 1 THEN "message_start" ELSE "message_end",
                  msgs[(i + 1) \div 2])]

-----------------------------------------------------------------------------
(* The local state of runLoop.  calls is the tool batch being executed: one  *)
(* status per tool call of the assistant message.                            *)

CallStatus == {"new",       \* not reached yet
               "started",   \* tool_execution_start emitted, in prepareToolCall
               "prepared",  \* waiting for the parallel launch
               "running",   \* tool.execute is under way
               "ending",    \* finalised, tool_execution_end not handled yet
               "done",      \* tool_execution_end handled
               "reported"}  \* its tool result message is emitted

LoopStates == {"unused", "steering", "followUp", "stream", "waiting", "replied",
               "tools", "joining", "batchEnd", "turnEnd", "ending", "returned",
               "failing", "dead"}

LoopRecord == [pc      : LoopStates,
               ctx     : Seq(Messages),   \* currentContext.messages
               first   : BOOLEAN,         \* firstTurn
               more    : BOOLEAN,         \* hasMoreToolCalls
               turns   : Nat,
               calls   : Seq(CallStatus),
               mode    : {"sequential", "parallel"},
               term    : BOOLEAN,         \* every result so far says terminate
               aborted : BOOLEAN]         \* the run's abort signal

Unused == [pc |-> "unused", ctx |-> <<>>, first |-> TRUE, more |-> TRUE, turns |-> 0,
           calls |-> <<>>, mode |-> "parallel", term |-> TRUE, aborted |-> FALSE]

LoopInit == /\ loop = [r \in Runs |-> Unused]
            /\ out = [r \in Runs |-> <<>>]

(* Every event emitted so far has been awaited: the loop itself may go on.   *)
Awaited(r) == out[r] = <<>>
At(r, pc)  == loop[r].pc = pc /\ Awaited(r)

(* runAgentLoop (and runAgentLoopContinue, with no prompts): the opening     *)
(* events, then the initial poll for steering messages.  agent_start and     *)
(* turn_start, which change nothing anywhere, are one event.                 *)
RunAgentLoop(r, prompts, ctx) ==
  /\ loop[r].pc = "unused"
  /\ loop' = [loop EXCEPT ![r] = [Unused EXCEPT !.pc = "steering", !.ctx = ctx \o prompts]]
  /\ out' = [out EXCEPT ![r] = <<Event("turn_start")>> \o MessageEvents(prompts)]

(* Mutant: injected messages are announced and left out of the context.      *)
EnterTurnUninjected(r, msgs) ==
  /\ loop' = [loop EXCEPT ![r].pc = "stream", ![r].first = FALSE]
  /\ out' = [out EXCEPT ![r] = (IF loop[r].first THEN <<>> ELSE <<Event("turn_start")>>)
                                 \o MessageEvents(msgs)]

(* The head of the inner loop: turn_start unless this is the first turn, and *)
(* the pending messages injected before the next assistant response.         *)
EnterTurn(r, msgs) ==
  /\ loop' = [loop EXCEPT ![r].pc = "stream", ![r].first = FALSE,
                          ![r].ctx = @ \o msgs]
  /\ out' = [out EXCEPT ![r] = (IF loop[r].first THEN <<>> ELSE <<Event("turn_start")>>)
                                 \o MessageEvents(msgs)]

(* getSteeringMessages answered msgs.                                        *)
SteeringPolled(r, msgs) ==
  /\ At(r, "steering")
  /\ IF loop[r].more \/ msgs # <<>>
     THEN EnterTurn(r, msgs)
     ELSE /\ loop' = [loop EXCEPT ![r].pc = "followUp"]
          /\ UNCHANGED out

(* getFollowUpMessages answered msgs, where the agent would stop: the outer  *)
(* loop takes another round, or the run ends.                                *)
FollowUpPolled(r, msgs) ==
  /\ At(r, "followUp")
  /\ IF msgs # <<>>
     THEN EnterTurn(r, msgs)
     ELSE /\ loop' = [loop EXCEPT ![r].pc = "ending"]
          /\ out' = [out EXCEPT ![r] = <<Event("agent_end")>>]

(* streamAssistantResponse: the request is sent with the current context ... *)
Request(r) ==
  /\ At(r, "stream")
  /\ loop' = [loop EXCEPT ![r].pc = "waiting"]
  /\ UNCHANGED out

(* ... and the final message arrives.  A provider reports an abort or a      *)
(* failure as a message, never by throwing.                                  *)
Replies(r) ==
  {AssistantMessage("stop", 0), AssistantMessage("error", 0)}
    \cup (IF loop[r].aborted THEN {AssistantMessage("aborted", 0)} ELSE {})
    \cup (IF loop[r].turns < MaxTurns
          THEN {AssistantMessage("toolUse", n) : n \in 1..MaxCalls} ELSE {})

Respond(r) ==
  /\ At(r, "waiting")
  /\ \E m \in Replies(r) :
       /\ loop' = [loop EXCEPT ![r].pc = "replied", ![r].ctx = Append(@, m),
                               ![r].turns = @ + 1]
       /\ out' = [out EXCEPT ![r] = MessageEvents(<<m>>)]

Reply(r) == loop[r].ctx[Len(loop[r].ctx)]

(* Mutant: the two last events the other way round.                          *)
StopOnErrorSwapped(r) ==
  /\ At(r, "replied") /\ Reply(r).kind \in {"error", "aborted"}
  /\ loop' = [loop EXCEPT ![r].pc = "ending"]
  /\ out' = [out EXCEPT ![r] = <<Event("agent_end"), Event("turn_end")>>]

(* An error or an abort ends the run: no tools, no polls.                    *)
StopOnError(r) ==
  /\ At(r, "replied") /\ Reply(r).kind \in {"error", "aborted"}
  /\ loop' = [loop EXCEPT ![r].pc = "ending"]
  /\ out' = [out EXCEPT ![r] = <<Event("turn_end"), Event("agent_end")>>]

EndTurnWithoutTools(r) ==
  /\ At(r, "replied") /\ Reply(r).kind = "stop"
  /\ loop' = [loop EXCEPT ![r].pc = "turnEnd", ![r].more = FALSE]
  /\ out' = [out EXCEPT ![r] = <<Event("turn_end")>>]

(* executeToolCalls: the batch is sequential when the configuration or one   *)
(* of its tools says so.                                                     *)
ExecuteToolCalls(r, mode) ==
  /\ At(r, "replied") /\ Reply(r).kind = "toolUse"
  /\ loop' = [loop EXCEPT ![r].pc = "tools", ![r].mode = mode, ![r].term = TRUE,
                          ![r].calls = [c \in 1..Reply(r).n |-> "new"]]
  /\ UNCHANGED out

-----------------------------------------------------------------------------
(* The tool batch.                                                           *)

Calls(r)          == 1..Len(loop[r].calls)
With(r, statuses) == {c \in Calls(r) : loop[r].calls[c] \in statuses}
Busy(r)           == With(r, {"started", "running", "ending"})

(* The for loops of both modes stop at an aborted signal, except before the  *)
(* first call.                                                               *)
BatchCut(r) == loop[r].aborted /\ With(r, {"new"}) # Calls(r)

StartCall(r, c) ==
  /\ At(r, "tools")
  /\ c \in With(r, {"new"}) /\ \A b \in With(r, {"new"}) : c <= b
  /\ ~BatchCut(r)
  /\ Busy(r) = {}
  /\ loop[r].mode = "sequential" => With(r, {"done"}) = {}
  /\ loop' = [loop EXCEPT ![r].calls[c] = "started"]
  /\ out' = [out EXCEPT ![r] = <<CallEvent("tool_execution_start", c)>>]

(* prepareToolCall ends at once with an error result: the tool is unknown,   *)
(* its arguments are invalid, the hook blocked it or threw, or the run was   *)
(* aborted.                                                                  *)
RefuseCall(r, c) ==
  /\ At(r, "tools") /\ c \in With(r, {"started"})
  /\ loop' = [loop EXCEPT ![r].calls[c] = "ending", ![r].term = FALSE]
  /\ UNCHANGED out

PrepareCall(r, c) ==
  /\ At(r, "tools") /\ c \in With(r, {"started"})
  /\ ~loop[r].aborted
  /\ loop' = [loop EXCEPT ![r].calls[c] =
                IF loop[r].mode = "sequential" THEN "running" ELSE "prepared"]
  /\ UNCHANGED out

(* executeToolCallsParallel starts every prepared call after the last        *)
(* preparation, and waits for all of them (Promise.all).                     *)
LaunchCalls(r) ==
  /\ At(r, "tools") /\ loop[r].mode = "parallel"
  /\ Busy(r) = {}
  /\ With(r, {"new"}) = {} \/ BatchCut(r)
  /\ loop' = [loop EXCEPT ![r].pc = "joining",
                          ![r].calls = [c \in Calls(r) |->
                             IF @[c] = "prepared" THEN "running" ELSE @[c]]]
  /\ UNCHANGED out

(* tool.execute and afterToolCall settle, with a result that may or may not  *)
(* ask to terminate.  A tool goes on when the run it belongs to has failed.  *)
FinishCall(r, c) ==
  /\ c \in With(r, {"running"})
  /\ \E t \in BOOLEAN :
       loop' = [loop EXCEPT ![r].calls[c] = "ending", ![r].term = @ /\ t]
  /\ UNCHANGED out

(* The handler of tool_execution_end has settled.                            *)
CallEnded(r, c) ==
  /\ c \in With(r, {"ending"})
  /\ loop' = [loop EXCEPT ![r].calls[c] = "done"]
  /\ UNCHANGED out

(* The tool result messages: one after each call in sequential mode, and in  *)
(* the order of the calls after the last of them in parallel mode.           *)
ReportResults(r) ==
  /\ \/ At(r, "tools") /\ loop[r].mode = "sequential" /\ With(r, {"done"}) # {}
     \/ At(r, "joining") /\ With(r, {"running", "ending"}) = {}
  /\ LET done == With(r, {"done"})
         nth[c \in done] == Cardinality({b \in done : b <= c})
     IN  out' = [out EXCEPT ![r] = MessageEvents(
           [i \in 1..Cardinality(done) |-> ToolResult(CHOOSE c \in done : nth[c] = i)])]
  /\ loop' = [loop EXCEPT ![r].pc = IF @ = "joining" THEN "batchEnd" ELSE @,
                          ![r].calls = [c \in Calls(r) |->
                             IF @[c] = "done" THEN "reported" ELSE @[c]]]

(* The sequential loop is over.                                              *)
EndSequentialBatch(r) ==
  /\ At(r, "tools") /\ loop[r].mode = "sequential"
  /\ Busy(r) = {} /\ With(r, {"done"}) = {}
  /\ With(r, {"new"}) = {} \/ BatchCut(r)
  /\ loop' = [loop EXCEPT ![r].pc = "batchEnd"]
  /\ UNCHANGED out

(* Mutant: the results do not join the context.                              *)
EndBatchForgetful(r) ==
  /\ At(r, "batchEnd")
  /\ loop' = [loop EXCEPT ![r].pc = "turnEnd", ![r].more = ~loop[r].term, ![r].calls = <<>>]
  /\ out' = [out EXCEPT ![r] = <<Event("turn_end")>>]

(* Back in runLoop: the results join the context, and another turn follows   *)
(* unless every one of them terminates.                                      *)
EndBatch(r) ==
  /\ At(r, "batchEnd")
  /\ LET reported == Cardinality(With(r, {"reported"}))
     IN  loop' = [loop EXCEPT ![r].pc = "turnEnd", ![r].more = ~loop[r].term,
                              ![r].ctx = @ \o [c \in 1..reported |-> ToolResult(c)],
                              ![r].calls = <<>>]
  /\ out' = [out EXCEPT ![r] = <<Event("turn_end")>>]

(* prepareNextTurn answered, with a fresh context or none (ctx unchanged).   *)
TurnPrepared(r, ctx) ==
  /\ At(r, "turnEnd")
  /\ loop' = [loop EXCEPT ![r].pc = "steering", ![r].ctx = ctx]
  /\ UNCHANGED out

(* The last event has been handled: runLoop returns.                         *)
LoopReturns(r) ==
  /\ At(r, "ending")
  /\ loop' = [loop EXCEPT ![r].pc = "returned"]
  /\ UNCHANGED out

(* Steps of the loop that nobody has to answer.                              *)
LoopStep(r) ==
  \/ Request(r) \/ Respond(r)
  \/ StopOnError(r) \/ EndTurnWithoutTools(r)
  \/ \E mode \in {"sequential", "parallel"} : ExecuteToolCalls(r, mode)
  \/ \E c \in Calls(r) : StartCall(r, c) \/ RefuseCall(r, c) \/ PrepareCall(r, c)
                           \/ FinishCall(r, c)
  \/ LaunchCalls(r) \/ ReportResults(r) \/ EndSequentialBatch(r) \/ EndBatch(r)
  \/ LoopReturns(r)

LoopTypeOK ==
  /\ loop \in [Runs -> LoopRecord]
  /\ out \in [Runs -> Seq(Events)]
=============================================================================
