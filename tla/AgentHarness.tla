---------------------------- MODULE AgentHarness ----------------------------
(***************************************************************************)
(* The orchestration layer of packages/agent/src/harness/agent-harness.ts   *)
(* over the loop of AgentLoop: the phase lock, the turn snapshot, the       *)
(* steering, follow-up and next-turn queues, the session writes that are    *)
(* put off while an operation is active, abort and its barrier, and the     *)
(* order in which a run settles.                                            *)
(*                                                                         *)
(* Each piece of code between two awaits is one action.  The session is a   *)
(* log of messages, each with its parent; an append reads the leaf in one   *)
(* step and commits in a later one (SessionStorage has the stages between). *)
(* A run is a call of prompt(), skill() or promptFromTemplate(); a          *)
(* structural operation without a run is compact().                         *)
(*                                                                         *)
(* Overlap says how careful the callers are.  FALSE: a caller starts an     *)
(* operation, or writes to the session, only when every earlier prompt()    *)
(* and idle write has settled.  TRUE: as soon as the phase is "idle", which *)
(* is all the code asks for.                                                *)
(***************************************************************************)
EXTENDS AgentLoop

CONSTANTS MaxMessages,  \* bound: user messages and session writes
          MaxCompacts,  \* bound: calls of compact()
          Overlap,      \* whether callers overlap operations
          HooksThrow    \* whether listeners and hooks may throw

ASSUME HarnessConstants ==
  MaxMessages \in Nat /\ MaxCompacts \in Nat /\ Overlap \in BOOLEAN /\ HooksThrow \in BOOLEAN

VARIABLES
  phase, runPromise, runAbortController,
  steerQueue, followUpQueue, nextTurnQueue, pendingSessionWrites,
  log,       \* the session: [m |-> message, parent |-> index of its parent]
  leaf,      \* the index of the current leaf, 0 for the root
  io,        \* per actor: the session append under way
  frame,     \* per run: where prompt() and executeTurn() are
  compact,   \* where compact() is, and how many calls there were
  aborting,  \* where abort() is, and the runs that were live when it was last called
  sent,      \* messages and writes given to the harness so far
  deferred,  \* history: numbers of the writes accepted as pending
  withdrawn  \* history: numbers of the messages abort() handed back

harnessVars == <<phase, runPromise, runAbortController>>
queueVars   == <<steerQueue, followUpQueue, nextTurnQueue>>
storeVars   == <<pendingSessionWrites, log, leaf, io>>
callVars    == <<compact, aborting>>
history     == <<deferred, withdrawn>>
otherVars   == <<harnessVars, queueVars, storeVars, callVars, sent, history>>
vars        == <<loopVars, frame, otherVars>>

NoRun == "no run"
Client == "client"
Compactor == "compactor"
ASSUME ActorsDiffer == {NoRun, Client, Compactor} \cap Runs = {}
Actors == Runs \cup {Client, Compactor}

NoIO == [m |-> NoMessage, parent |-> 0]

Stages == {"unused", "snapshot", "queue", "queueUpdate", "hook", "running",
           "reporting", "finally", "done"}
(* step: the part of handleAgentEvent (or of the poll) that is next.         *)
Steps == {"new", "append", "notify", "flush", "flushed", "drain"}
Frame == [stage  : Stages,
          msgs   : Seq(Messages),  \* the prompts of the run
          snap   : Seq(Messages),  \* turnState.messages
          step   : Steps,
          error  : BOOLEAN,        \* an error that is thrown after a flush
          held   : Seq(Messages),  \* messages drained, their queue_update awaited
          orphan : BOOLEAN]        \* abort() has replaced the queue they came from
NewFrame == [stage |-> "unused", msgs |-> <<>>, snap |-> <<>>, step |-> "new",
             error |-> FALSE, held |-> <<>>, orphan |-> FALSE]

Init ==
  /\ LoopInit
  /\ phase = "idle" /\ runPromise = NoRun /\ runAbortController = NoRun
  /\ steerQueue = <<>> /\ followUpQueue = <<>> /\ nextTurnQueue = <<>>
  /\ pendingSessionWrites = <<>>
  /\ log = <<>> /\ leaf = 0
  /\ io = [a \in Actors |-> NoIO]
  /\ frame = [r \in Runs |-> NewFrame]
  /\ compact = [at |-> "none", calls |-> 0]
  /\ aborting = [at |-> "none", on |-> NoRun, live |-> {}]
  /\ sent = 0 /\ deferred = {} /\ withdrawn = {}

Live == {r \in Runs : frame[r].stage \notin {"unused", "done"}}

(* A disciplined caller does not use the moments when the phase is "idle"    *)
(* and an earlier prompt() or write has yet to settle.                       *)
CallersWait ==
  (~Overlap /\ phase = "idle") => Live = {} /\ \A a \in Actors : io[a] = NoIO

-----------------------------------------------------------------------------
(* The session.                                                              *)

(* Session.buildContext: the messages on the path from the leaf to the root. *)
Branch ==
  LET path[i \in 0..Len(log)] ==
        IF i = 0 THEN <<>> ELSE Append(path[log[i].parent], log[i].m)
  IN  path[leaf]

BeginAppend(a, m) ==
  /\ io[a] = NoIO
  /\ io' = [io EXCEPT ![a] = [m |-> m, parent |-> leaf]]

CommitAppend(a) ==
  /\ io[a] # NoIO
  /\ log' = Append(log, io[a])
  /\ leaf' = Len(log) + 1
  /\ io' = [io EXCEPT ![a] = NoIO]

-----------------------------------------------------------------------------
(* prompt(), skill(), promptFromTemplate(): up to the start of the loop.     *)

BeginPrompt(r) ==
  /\ CallersWait
  /\ frame[r].stage = "unused" /\ sent < MaxMessages
  /\ phase' = "turn"
  /\ runPromise' = r
  /\ frame' = [frame EXCEPT ![r].stage = "snapshot",
                            ![r].msgs = <<UserMessage("prompt", sent + 1)>>]
  /\ sent' = sent + 1
  /\ UNCHANGED <<loopVars, runAbortController, queueVars, storeVars, callVars, history>>

(* The lock (a mutant has BeginPrompt in its place).                         *)
Prompt(r) == phase = "idle" /\ BeginPrompt(r)

CreateTurnState(r) ==
  /\ frame[r].stage = "snapshot"
  /\ frame' = [frame EXCEPT ![r].stage = "queue", ![r].snap = Branch]
  /\ UNCHANGED <<loopVars, otherVars>>

(* executeTurn takes the next-turn messages, then awaits queue_update.       *)
TakeNextTurn(r) ==
  /\ frame[r].stage = "queue"
  /\ frame' = [frame EXCEPT ![r].stage = IF nextTurnQueue = <<>> THEN "hook" ELSE "queueUpdate",
                            ![r].held = nextTurnQueue]
  /\ nextTurnQueue' = <<>>
  /\ UNCHANGED <<loopVars, harnessVars, steerQueue, followUpQueue, storeVars, callVars,
                 sent, history>>

(* The next-turn messages come before the prompt.                            *)
NextTurnTaken(r) ==
  /\ frame[r].stage = "queueUpdate"
  /\ frame' = [frame EXCEPT ![r].stage = "hook", ![r].held = <<>>,
                            ![r].msgs = frame[r].held \o frame[r].msgs]
  /\ UNCHANGED <<loopVars, otherVars>>

(* before_agent_start has answered: only now is there something to abort.    *)
StartLoop(r) ==
  /\ frame[r].stage = "hook"
  /\ RunAgentLoop(r, frame[r].msgs, frame[r].snap)
  /\ runAbortController' = r
  /\ frame' = [frame EXCEPT ![r].stage = "running", ![r].msgs = <<>>, ![r].snap = <<>>]
  /\ UNCHANGED <<phase, runPromise, queueVars, storeVars, callVars, sent, history>>

(* Something throws before the loop starts: createTurnState (a system prompt *)
(* callback), an unknown skill or template, a queue_update listener, or      *)
(* before_agent_start.  The phase is released; only a failed queue_update    *)
(* puts the next-turn messages back.                                         *)
PromptFails(r) ==
  /\ HooksThrow
  /\ frame[r].stage \in {"snapshot", "queueUpdate", "hook"}
  /\ nextTurnQueue' = frame[r].held \o nextTurnQueue
  /\ phase' = "idle" /\ runPromise' = NoRun
  /\ frame' = [frame EXCEPT ![r] = [NewFrame EXCEPT !.stage = "done"]]
  /\ UNCHANGED <<loopVars, runAbortController, steerQueue, followUpQueue, storeVars,
                 callVars, sent, history>>

-----------------------------------------------------------------------------
(* flushPendingSessionWrites: the head of the queue is written, and then the *)
(* head of the queue is removed.                                             *)

Flushing(r) == frame[r].step = "flush" \/ frame[r].stage = "finally"

FlushWrite(r) ==
  /\ Flushing(r) /\ pendingSessionWrites # <<>>
  /\ BeginAppend(r, pendingSessionWrites[1])
  /\ UNCHANGED <<loopVars, harnessVars, queueVars, pendingSessionWrites, log, leaf,
                 frame, callVars, sent, history>>

FlushLeaves(r, rest) ==
  /\ Flushing(r)
  /\ CommitAppend(r)
  /\ pendingSessionWrites' = rest
  /\ UNCHANGED <<loopVars, harnessVars, queueVars, frame, callVars, sent, history>>

(* Mutant: the queue is emptied after a write, with what came in meanwhile.  *)
FlushWrittenAll(r) == FlushLeaves(r, <<>>)

FlushWritten(r) ==
  FlushLeaves(r, SubSeq(pendingSessionWrites, 2, Len(pendingSessionWrites)))

Flushed(r) == Flushing(r) /\ io[r] = NoIO /\ pendingSessionWrites = <<>>

FlushEnds(r) ==
  /\ frame[r].step = "flush" /\ Flushed(r)
  /\ frame' = [frame EXCEPT ![r].step = "flushed"]
  /\ UNCHANGED <<loopVars, otherVars>>

-----------------------------------------------------------------------------
(* handleAgentEvent, for the event at the head of out[r].                    *)

Head_(r) == out[r][1]
Handling(r, types, step) ==
  out[r] # <<>> /\ Head_(r).type \in types /\ frame[r].step = step

(* The event is handled and the loop goes on ...                             *)
Handled(r) ==
  /\ out' = [out EXCEPT ![r] = Tail(@)]
  /\ frame' = [frame EXCEPT ![r].step = "new", ![r].error = FALSE]
  /\ UNCHANGED loop

(* ... or handling throws: the loop is abandoned and emitRunFailure reports  *)
(* a failure message through the same handler; when that throws too, there   *)
(* is nothing left but the finally block, with an error.                     *)
FailureEvents(r) ==
  MessageEvents(<<AssistantMessage(IF loop[r].aborted THEN "aborted" ELSE "error", 0)>>)
    \o <<Event("turn_end"), Event("agent_end")>>

ReportFailure(r) ==
  /\ loop' = [loop EXCEPT ![r].pc = "failing", ![r].calls = <<>>]
  /\ out' = [out EXCEPT ![r] = FailureEvents(r)]
  /\ frame' = [frame EXCEPT ![r].stage = "reporting", ![r].step = "new",
                            ![r].error = FALSE, ![r].held = <<>>, ![r].orphan = FALSE]

GiveUp(r, stage) ==
  /\ loop' = [loop EXCEPT ![r].pc = "dead"]
  /\ out' = [out EXCEPT ![r] = <<>>]
  /\ frame' = [frame EXCEPT ![r].stage = stage, ![r].step = "new", ![r].error = TRUE]

(* Mutant: when the failure report fails as well, nobody cleans up.          *)
RunThrowsForGood(r) ==
  IF frame[r].stage = "running" THEN ReportFailure(r) ELSE GiveUp(r, "reporting")

RunThrows(r) ==
  IF frame[r].stage = "running" THEN ReportFailure(r) ELSE GiveUp(r, "finally")

(* The listeners of an event settle, or one of them throws.                  *)
Notified(r) == Handled(r) \/ (HooksThrow /\ RunThrows(r))

(* message_end is persisted before anybody is told.                          *)
PersistMessage(r) ==
  /\ Handling(r, {"message_end"}, "new")
  /\ BeginAppend(r, Head_(r).msg)
  /\ frame' = [frame EXCEPT ![r].step = "append"]
  /\ UNCHANGED <<loopVars, harnessVars, queueVars, pendingSessionWrites, log, leaf,
                 callVars, sent, history>>

MessagePersisted(r) ==
  /\ Handling(r, {"message_end"}, "append")
  /\ CommitAppend(r)
  /\ frame' = [frame EXCEPT ![r].step = "notify"]
  /\ UNCHANGED <<loopVars, harnessVars, queueVars, pendingSessionWrites, callVars, sent,
                 history>>

NotifyMessage(r) ==
  /\ Handling(r, {"message_end"}, "notify")
  /\ Notified(r)
  /\ UNCHANGED <<otherVars>>

NotifyPlain(r) ==
  /\ Handling(r, {"turn_start", "message_start", "tool_execution_start"}, "new")
  /\ Notified(r)
  /\ UNCHANGED <<otherVars>>

(* turn_end: the listeners first; their error waits for the flush.           *)
NotifyTurnEnd(r) ==
  /\ Handling(r, {"turn_end"}, "new")
  /\ \E error \in IF HooksThrow THEN BOOLEAN ELSE {FALSE} :
       frame' = [frame EXCEPT ![r].step = "flush", ![r].error = error]
  /\ UNCHANGED <<loopVars, otherVars>>

SavePoint(r) ==
  /\ Handling(r, {"turn_end"}, "flushed")
  /\ IF frame[r].error THEN RunThrows(r) ELSE Notified(r)
  /\ UNCHANGED <<otherVars>>

(* agent_end: flush, release the phase, and only then tell the listeners.    *)
FlushAtEnd(r) ==
  /\ Handling(r, {"agent_end"}, "new")
  /\ frame' = [frame EXCEPT ![r].step = "flush"]
  /\ UNCHANGED <<loopVars, otherVars>>

ReleasePhase(r) ==
  /\ Handling(r, {"agent_end"}, "flushed")
  /\ phase' = "idle"
  /\ frame' = [frame EXCEPT ![r].step = "notify"]
  /\ UNCHANGED <<loopVars, runPromise, runAbortController, queueVars, storeVars,
                 callVars, sent, history>>

NotifyAgentEnd(r) ==
  /\ Handling(r, {"agent_end"}, "notify")
  /\ Notified(r)
  /\ UNCHANGED <<otherVars>>

EndCall(r, c) ==
  /\ frame[r].stage = "running"
  /\ \/ CallEnded(r, c) /\ UNCHANGED frame
     \/ HooksThrow /\ c \in With(r, {"ending"}) /\ RunThrows(r)
  /\ UNCHANGED <<otherVars>>

-----------------------------------------------------------------------------
(* The callbacks of createLoopConfig.                                        *)

Drains(queue) == IF queue = <<>> THEN {<<>>} ELSE {queue, <<queue[1]>>}
Rest(queue, taken) == SubSeq(queue, Len(taken) + 1, Len(queue))

(* drainQueuedMessages, the steering poll: with nothing queued it answers at *)
(* once, otherwise queue_update is awaited with the messages in hand.        *)
DrainSteering(r) ==
  /\ At(r, "steering") /\ frame[r].step = "new"
  /\ \E taken \in Drains(steerQueue) :
       IF taken = <<>>
       THEN SteeringPolled(r, <<>>) /\ UNCHANGED <<steerQueue, frame>>
       ELSE /\ steerQueue' = Rest(steerQueue, taken)
            /\ frame' = [frame EXCEPT ![r].step = "drain", ![r].held = taken]
            /\ UNCHANGED <<loopVars>>
  /\ UNCHANGED <<harnessVars, followUpQueue, nextTurnQueue, storeVars, callVars, sent,
                 history>>

DrainFollowUps(r) ==
  /\ At(r, "followUp") /\ frame[r].step = "new"
  /\ \E taken \in Drains(followUpQueue) :
       IF taken = <<>>
       THEN FollowUpPolled(r, <<>>) /\ UNCHANGED <<followUpQueue, frame>>
       ELSE /\ followUpQueue' = Rest(followUpQueue, taken)
            /\ frame' = [frame EXCEPT ![r].step = "drain", ![r].held = taken]
            /\ UNCHANGED <<loopVars>>
  /\ UNCHANGED <<harnessVars, steerQueue, nextTurnQueue, storeVars, callVars, sent,
                 history>>

Drained(r) ==
  /\ frame[r].step = "drain"
  /\ SteeringPolled(r, frame[r].held) \/ FollowUpPolled(r, frame[r].held)
  /\ frame' = [frame EXCEPT ![r].step = "new", ![r].held = <<>>, ![r].orphan = FALSE]
  /\ UNCHANGED <<otherVars>>

(* queue_update fails: the messages go back to the array they were taken     *)
(* from, which is no longer the queue when abort() came in between.          *)
DrainFails(r) ==
  /\ HooksThrow /\ frame[r].step = "drain"
  /\ RunThrows(r)
  /\ steerQueue' = IF loop[r].pc = "steering" /\ ~frame[r].orphan
                   THEN frame[r].held \o steerQueue ELSE steerQueue
  /\ followUpQueue' = IF loop[r].pc = "followUp" /\ ~frame[r].orphan
                      THEN frame[r].held \o followUpQueue ELSE followUpQueue
  /\ UNCHANGED <<harnessVars, nextTurnQueue, storeVars, callVars, sent, history>>

(* prepareNextTurn: flush again, then a fresh snapshot of the session.       *)
PrepareNextTurn(r) ==
  /\ At(r, "turnEnd") /\ frame[r].step = "new"
  /\ frame' = [frame EXCEPT ![r].step = "flush"]
  /\ UNCHANGED <<loopVars, otherVars>>

NextTurnContext(r, ctx) ==
  /\ At(r, "turnEnd") /\ frame[r].step = "flushed"
  /\ \/ /\ TurnPrepared(r, ctx)
        /\ frame' = [frame EXCEPT ![r].step = "new"]
     \/ HooksThrow /\ RunThrows(r)
  /\ UNCHANGED <<otherVars>>

(* Mutant: the next turn goes on with the old context.                       *)
NextTurnStale(r) == NextTurnContext(r, loop[r].ctx)

NextTurnState(r) == NextTurnContext(r, Branch)

-----------------------------------------------------------------------------
(* The end of executeTurn and prompt().  The finally blocks clear the abort  *)
(* controller and the run promise of the harness, whoever's they are.        *)

EnterFinally(r) ==
  /\ \/ frame[r].stage = "running" /\ loop[r].pc = "returned"
     \/ frame[r].stage = "reporting" /\ At(r, "failing") /\ frame[r].step = "new"
  /\ frame' = [frame EXCEPT ![r].stage = "finally"]
  /\ UNCHANGED <<loopVars, otherVars>>

FinishRunAt(r, nextPhase) ==
  /\ frame[r].stage = "finally" /\ Flushed(r)
  /\ runAbortController' = NoRun
  /\ runPromise' = NoRun
  /\ phase' = nextPhase
  /\ frame' = [frame EXCEPT ![r] = [NewFrame EXCEPT !.stage = "done"]]
  /\ loop' = [loop EXCEPT ![r] = [Unused EXCEPT !.pc = "dead"]]
  /\ UNCHANGED <<out, queueVars, storeVars, callVars, sent, history>>

(* Mutant: prompt() does not release the phase when it fails.                *)
FinishRunInPhase(r) == FinishRunAt(r, phase)

FinishRun(r) == FinishRunAt(r, IF frame[r].error THEN "idle" ELSE phase)

-----------------------------------------------------------------------------
(* The other public methods.                                                 *)

Steer ==
  /\ phase # "idle" /\ sent < MaxMessages
  /\ steerQueue' = Append(steerQueue, UserMessage("steer", sent + 1))
  /\ sent' = sent + 1
  /\ UNCHANGED <<loopVars, harnessVars, followUpQueue, nextTurnQueue, storeVars, frame,
                 callVars, history>>

FollowUp ==
  /\ phase # "idle" /\ sent < MaxMessages
  /\ followUpQueue' = Append(followUpQueue, UserMessage("followUp", sent + 1))
  /\ sent' = sent + 1
  /\ UNCHANGED <<loopVars, harnessVars, steerQueue, nextTurnQueue, storeVars, frame,
                 callVars, history>>

NextTurn ==
  /\ sent < MaxMessages
  /\ nextTurnQueue' = Append(nextTurnQueue, UserMessage("nextTurn", sent + 1))
  /\ sent' = sent + 1
  /\ UNCHANGED <<loopVars, harnessVars, steerQueue, followUpQueue, storeVars, frame,
                 callVars, history>>

PutOff(write, queue) ==
  /\ phase # "idle" /\ sent < MaxMessages
  /\ pendingSessionWrites' = queue
  /\ sent' = write.n
  /\ deferred' = deferred \cup {write.n}
  /\ UNCHANGED <<loopVars, harnessVars, queueVars, log, leaf, io, frame, callVars,
                 withdrawn>>

NewWrite == UserMessage("write", sent + 1)

(* Mutant: a write that is put off overtakes the earlier ones.               *)
DeferWriteFirst == PutOff(NewWrite, <<NewWrite>> \o pendingSessionWrites)

(* appendMessage, and likewise setModel, setThinkingLevel, setTools and      *)
(* setActiveTools: put off while busy ...                                    *)
DeferWrite == PutOff(NewWrite, Append(pendingSessionWrites, NewWrite))

WriteNow ==
  /\ CallersWait /\ sent < MaxMessages
  /\ BeginAppend(Client, NewWrite)
  /\ sent' = sent + 1
  /\ UNCHANGED <<loopVars, harnessVars, queueVars, pendingSessionWrites, log, leaf,
                 frame, callVars, history>>

(* ... and written at once while idle (a mutant has WriteNow in its place).  *)
WriteIdle == phase = "idle" /\ WriteNow

IdleWritten ==
  /\ CommitAppend(Client)
  /\ UNCHANGED <<loopVars, harnessVars, queueVars, pendingSessionWrites, frame,
                 callVars, sent, history>>

(* compact(): lock, summarise, append the compaction entry, unlock.  It may  *)
(* fail before the append (no auth, nothing to compact, cancelled).          *)
Compact ==
  /\ phase = "idle" /\ CallersWait
  /\ compact.at = "none" /\ compact.calls < MaxCompacts
  /\ phase' = "compaction"
  /\ compact' = [at |-> "summary", calls |-> compact.calls + 1]
  /\ UNCHANGED <<loopVars, runPromise, runAbortController, queueVars, storeVars, frame,
                 aborting, sent, history>>

AppendSummary(entry) ==
  /\ compact.at = "summary" /\ io[Compactor] = NoIO
  /\ io' = [io EXCEPT ![Compactor] = entry]
  /\ compact' = [compact EXCEPT !.at = "append"]
  /\ UNCHANGED <<loopVars, harnessVars, queueVars, pendingSessionWrites, log, leaf,
                 frame, aborting, sent, history>>

(* Mutant: the entry is appended without its message, off a wrong leaf.      *)
AppendNoCompaction == AppendSummary([m |-> NoMessage, parent |-> leaf + 1])

AppendCompaction == AppendSummary([m |-> AssistantMessage("stop", 0), parent |-> leaf])

CompactEnds ==
  /\ \/ compact.at = "append" /\ CommitAppend(Compactor)
     \/ compact.at = "summary" /\ UNCHANGED <<log, leaf, io>>
  /\ phase' = "idle"
  /\ compact' = [compact EXCEPT !.at = "none"]
  /\ UNCHANGED <<loopVars, runPromise, runAbortController, queueVars,
                 pendingSessionWrites, frame, aborting, sent, history>>

(* abort(): empty the two queues, abort the controller if there is one, then *)
(* await queue_update, then the run promise found at that moment.            *)
NumbersIn(s) == {s[i].n : i \in 1..Len(s)}

AbortRun ==
  /\ aborting.at \in {"none", "returned"}
  /\ withdrawn' = withdrawn \cup NumbersIn(steerQueue \o followUpQueue)
  /\ loop' = IF runAbortController = NoRun THEN loop
             ELSE [loop EXCEPT ![runAbortController].aborted = TRUE]
  /\ aborting' = [at |-> "update", on |-> NoRun, live |-> Live]
  /\ UNCHANGED <<out, harnessVars, nextTurnQueue, storeVars, compact, sent, deferred>>

(* Mutant: abort() reports the queued messages and leaves them queued.       *)
AbortKeepsQueues == AbortRun /\ UNCHANGED <<steerQueue, followUpQueue, frame>>

Abort ==
  /\ AbortRun
  /\ steerQueue' = <<>> /\ followUpQueue' = <<>>
  /\ frame' = [r \in Runs |-> [frame[r] EXCEPT !.orphan = frame[r].step = "drain"]]

AbortWaits ==
  /\ aborting.at = "update"
  /\ aborting' = [aborting EXCEPT !.at = "wait", !.on = runPromise]
  /\ UNCHANGED <<loopVars, harnessVars, queueVars, storeVars, frame, compact, sent,
                 history>>

AbortOver ==
  /\ aborting.at = "wait"
  /\ aborting' = [at |-> "returned", on |-> NoRun, live |-> aborting.live]
  /\ UNCHANGED <<loopVars, harnessVars, queueVars, storeVars, frame, compact, sent,
                 history>>

(* The barrier (a mutant has AbortOver in its place).                        *)
AbortReturns == AbortOver /\ (aborting.on = NoRun \/ aborting.on \notin Live)

-----------------------------------------------------------------------------
RunStep(r) ==
  \/ CreateTurnState(r) \/ TakeNextTurn(r) \/ NextTurnTaken(r) \/ StartLoop(r)
  \/ PromptFails(r)
  \/ /\ frame[r].stage = "running" /\ LoopStep(r)
     /\ UNCHANGED <<frame, otherVars>>
  \/ FlushWrite(r) \/ FlushWritten(r) \/ FlushEnds(r)
  \/ PersistMessage(r) \/ MessagePersisted(r) \/ NotifyMessage(r) \/ NotifyPlain(r)
  \/ NotifyTurnEnd(r) \/ SavePoint(r)
  \/ FlushAtEnd(r) \/ ReleasePhase(r) \/ NotifyAgentEnd(r)
  \/ \E c \in Calls(r) : EndCall(r, c)
  \/ DrainSteering(r) \/ DrainFollowUps(r) \/ Drained(r) \/ DrainFails(r)
  \/ PrepareNextTurn(r) \/ NextTurnState(r)
  \/ EnterFinally(r) \/ FinishRun(r)

ClientStep ==
  \/ \E r \in Runs : Prompt(r)
  \/ Steer \/ FollowUp \/ NextTurn \/ DeferWrite \/ WriteIdle \/ Compact \/ Abort

Continuations == IdleWritten \/ AppendCompaction \/ CompactEnds \/ AbortWaits \/ AbortReturns

Next == (\E r \in Runs : RunStep(r)) \/ ClientStep \/ Continuations

Spec == Init /\ [][Next]_vars

(* Whatever is awaited settles: providers, tools, hooks, listeners and the   *)
(* file system.  Nothing is assumed of the callers.                          *)
Fairness == /\ \A r \in Runs : WF_vars(RunStep(r))
            /\ WF_vars(IdleWritten) /\ WF_vars(AppendCompaction \/ CompactEnds)
            /\ WF_vars(AbortWaits \/ AbortReturns)
FairSpec == Spec /\ Fairness

-----------------------------------------------------------------------------
(* Type invariant.                                                           *)
TypeOK ==
  /\ LoopTypeOK
  /\ phase \in {"idle", "turn", "compaction"}
  /\ runPromise \in Runs \cup {NoRun} /\ runAbortController \in Runs \cup {NoRun}
  /\ steerQueue \in Seq(Messages) /\ followUpQueue \in Seq(Messages)
  /\ nextTurnQueue \in Seq(Messages) /\ pendingSessionWrites \in Seq(Messages)
  /\ log \in Seq([m : Messages, parent : Nat]) /\ leaf \in Nat
  /\ io \in [Actors -> [m : Messages \cup {NoMessage}, parent : Nat]]
  /\ frame \in [Runs -> Frame]
  /\ compact \in [at : {"none", "summary", "append"}, calls : Nat]
  /\ aborting \in [at : {"none", "update", "wait", "returned"},
                   on : Runs \cup {NoRun}, live : SUBSET Runs]
  /\ sent \in Nat /\ deferred \subseteq Nat /\ withdrawn \subseteq Nat

(* A session write that was put off is neither lost nor written twice: at    *)
(* every moment it is once in the queue or once in the session, and the      *)
(* session has the writes that were put off in the order they were made.     *)
Written(n) == {i \in 1..Len(log) : log[i].m.kind = "write" /\ log[i].m.n = n}
Waiting(n) == {i \in 1..Len(pendingSessionWrites) : pendingSessionWrites[i].n = n}
DeferredWrittenOnce ==
  /\ \A n \in deferred : Cardinality(Written(n)) + Cardinality(Waiting(n)) = 1
  /\ \A m, n \in deferred : m < n => \A i \in Written(m), j \in Written(n) : i < j

(* The session stays one line of messages: no append hangs off an old leaf,  *)
(* and nothing comes between an assistant message and the results of its     *)
(* calls.                                                                    *)
FollowsItsCall(i) ==
  /\ i > 1
  /\ \/ log[i-1].m.role = "toolResult" /\ log[i-1].m.n + 1 = log[i].m.n
     \/ log[i-1].m.kind = "toolUse" /\ log[i].m.n = 1
TranscriptIsLinear ==
  \A i \in 1..Len(log) :
    /\ log[i].parent = i - 1
    /\ log[i].m.role = "toolResult" => FollowsItsCall(i)

(* Every provider request is made of the persisted session.                  *)
RequestIsSession ==
  \A r \in Live : loop[r].pc = "waiting" => loop[r].ctx = Branch

(* The phase is "idle" only when no loop is at work, and only one run has    *)
(* one: prompt(), compact() and idle writes never interleave with a turn.    *)
Working == {r \in Live : loop[r].pc \notin {"unused", "ending", "returned", "failing", "dead"}}
PhaseGuardsTheLoop ==
  /\ Working # {} => phase = "turn"
  /\ Cardinality(Working) <= 1

(* When abort() returns, every run that was live when it was called is over. *)
AbortIsBarrier == aborting.at = "returned" => aborting.live \cap Live = {}

(* abort() aborts the run it finds: each run that is live when abort() is    *)
(* called gets the signal, or is past the point where there is a loop.       *)
AbortReachesTheRun ==
  \A r \in aborting.live \cap Live :
    frame[r].stage = "running" /\ loop[r].pc \in LoopStates \ {"ending", "returned"}
      => loop[r].aborted

(* Every message given to the harness is in exactly one place at any moment: *)
(* a queue, the hands of a run, the session, or back with the caller of      *)
(* abort(); none is delivered twice, or delivered after it was handed back.  *)
InHand(r) ==
  LET rest == IF frame[r].step = "notify" THEN 2 ELSE 1
      ends == {i \in rest..Len(out[r]) : out[r][i].type = "message_end"
                                           /\ out[r][i].msg.role = "user"}
  IN  NumbersIn(frame[r].held \o frame[r].msgs) \cup {out[r][i].msg.n : i \in ends}
InLog == {i \in 1..Len(log) : log[i].m.role = "user"}
Places == <<NumbersIn(steerQueue), NumbersIn(followUpQueue), NumbersIn(nextTurnQueue),
            NumbersIn(pendingSessionWrites), UNION {InHand(r) : r \in Runs},
            {io[Client].m.n} \ {0}, {log[i].m.n : i \in InLog}, withdrawn>>
EveryMessageOnce ==
  /\ \A n \in 1..sent : Cardinality({p \in DOMAIN Places : n \in Places[p]}) = 1
  /\ \A i, j \in InLog : log[i].m.n = log[j].m.n => i = j

(* Every operation settles, and abort() returns.                             *)
OperationsSettle == (phase # "idle") ~> (phase = "idle")
AbortSettles == (aborting.at = "update") ~> (aborting.at = "returned")
=============================================================================
