---------------------------- MODULE AgentSession ----------------------------
(***************************************************************************)
(* AgentSession of packages/coding-agent/src/core/agent-session.ts: what the *)
(* coding agent wraps around an Agent.  It writes the messages of a run to   *)
(* the session file when their events arrive, mirrors the queues for the     *)
(* user interface, retries requests that failed, compacts the session on     *)
(* overflow or demand, and holds back bash results while a run is active.    *)
(*                                                                         *)
(* A run of the Agent is reduced to what the session can tell apart: the     *)
(* messages it delivers, its polls of the queues and how its answers end     *)
(* (modules AgentLoop and Agent have the rest).  The session log is the      *)
(* branch from the root to the leaf (module SessionManager has the tree).    *)
(* Messages have distinct texts, so that a mirrored text is the number of    *)
(* its message.                                                              *)
(***************************************************************************)
EXTENDS Integers, FiniteSets, SequencesExt, Filter

CONSTANTS Callers,      \* prompt() calls that may be outstanding at once
          Stops,        \* how the provider may end an answer
          Resumes,      \* how the last answer of a session opened again ended
          Keeps,        \* how much compactions may keep: "all", "recent"
          MaxRetries,   \* settings: retry.maxRetries
          MaxSent,      \* bound: messages sent to the session
          MaxCalls,     \* bound: calls that start a run
          MaxExtras     \* bound: answers that call tools, bash results, aborts and
                        \* compactions on demand or at the threshold, together

VARIABLES
  run,          \* the active run of the agent
  messages,     \* agent.state.messages
  steering,     \* agent.steeringQueue
  followUps,    \* agent.followUpQueue
  log,          \* the branch of the session that ends at its leaf
  mirror,       \* _steeringMessages and _followUpMessages, as a record
  nextTurn,     \* _pendingNextTurnMessages
  pendingBash,  \* _pendingBashMessages
  last,         \* _lastAssistantMessage
  attempt,      \* _retryAttempt
  tried,        \* _overflowRecoveryAttempted
  connected,    \* whether _handleAgentEvent is subscribed to the agent
  op,           \* where each prompt() call is
  manual,       \* where the compact() call is
  sent,         \* messages sent to the session so far
  calls,        \* calls that have started a run
  extras,       \* how many of those there were
  cleared,      \* history: numbers removed by clearQueue, or rejected
  returned,     \* history: taken by a run and given back by clearQueue, not started
  unheard,      \* history: an event passed while the session was disconnected
  failures      \* history: failed answers heard since progress or a call

agentVars == <<run, messages, steering, followUps>>
history   == <<cleared, returned, unheard, failures>>
vars == <<agentVars, log, mirror, nextTurn, pendingBash, last, attempt, tried, connected,
          op, manual, sent, calls, extras, history>>

-----------------------------------------------------------------------------
(* Messages and entries.                                                     *)

Message(role, n, kind, age) == [role |-> role, n |-> n, kind |-> kind, age |-> age]

NoMessage == Message("none", 0, "none", 0)

(* A user message knows by which way it came, an answer how it ended and how *)
(* many compactions the branch had then (its timestamp).                     *)
User(n, way)  == Message("user", n, way, 0)
Custom(n)     == Message("custom", n, "none", 0)
BashResult(n) == Message("bashExecution", n, "none", 0)
Answer(stop, age) == Message("assistant", 0, stop, age)
ToolResult    == Message("toolResult", 0, "none", 0)
Summary       == Message("compactionSummary", 0, "none", 0)

(* An entry that compacts the session keeps the entries from position k on.  *)
Compaction(k) == Message("compaction", k, "none", 0)

Failed(msg)     == msg.kind \in {"retryable", "overflow", "fatal"}
Overflowed(msg) == msg.kind \in {"overflow", "silent"}

Compactions(entries) == Cardinality({i \in 1..Len(entries) : entries[i].role = "compaction"})

LatestCompaction(entries) ==
  CHOOSE i \in 0..Len(entries) :
    /\ i > 0 => entries[i].role = "compaction"
    /\ \A j \in i + 1..Len(entries) : entries[j].role # "compaction"

Messages(s) == {x \in Range(s) : x.role # "compaction"}
Answers(s)  == {x \in Range(s) : x.role = "assistant"}

(* buildSessionContext on a branch.                                          *)
Context(entries) ==
  LET c == LatestCompaction(entries) IN
    IF c = 0 THEN entries
    ELSE <<Summary>> \o Only(SubSeq(entries, entries[c].n, c - 1), Messages(entries))
                     \o SubSeq(entries, c + 1, Len(entries))

(* findCutPoint cuts at any entry but a tool result, from where the previous *)
(* compaction began to keep.  Which one depends on sizes: "all" keeps what it *)
(* can, "recent" as little.                                                  *)
CutPoints(entries) ==
  LET c     == LatestCompaction(entries)
      start == IF c = 0 THEN 1 ELSE entries[c].n
      cuts  == {i \in start..Len(entries) : entries[i].role \notin {"toolResult", "compaction"}}
  IN  {IF cuts = {} THEN start ELSE IF keep = "all" THEN Min(cuts) ELSE Max(cuts) : keep \in Keeps}

(* prepareCompaction returns something.                                      *)
Compactable(entries) == entries # <<>> /\ entries[Len(entries)].role # "compaction"

LastOf(m) == IF m = <<>> THEN NoMessage ELSE m[Len(m)]

DropAnswer(m) == IF LastOf(m).role = "assistant" THEN Front(m) ELSE m

LastAnswer(m) == LastOf(Only(m, Answers(m)))

(* The last answer whose usage counts the tokens of the context.             *)
LastUsage(m) ==
  LastOf(Only(m, {x \in Answers(m) : ~Failed(x) /\ x.kind # "aborted"}))

NumbersOf(s) == [i \in 1..Len(s) |-> s[i].n]
Without(s, n) == Only(s, Range(s) \ {n})

-----------------------------------------------------------------------------
(* The run of the agent.  pc says what the run is about to do; while out has *)
(* messages it delivers the first of them: "start" handles its               *)
(* message_start, "end" its message_end up to the await of the extensions,   *)
(* "save" the rest.  then is what follows the last of them.                  *)

NoRun  == [pc |-> "none", owner |-> "nobody", out |-> <<>>, then |-> "none",
           aborted |-> FALSE, heard |-> FALSE]
Active == run.pc # "none"      \* isStreaming
Queued == steering # <<>> \/ followUps # <<>>

Deliver(r, out, then) ==
  [r EXCEPT !.out = out, !.then = then,
            !.pc = IF out = <<>> THEN then
                   ELSE IF out[1].role = "user" THEN "start" ELSE "end"]

Drains(queue) == IF queue = <<>> THEN {<<>>} ELSE {queue, <<queue[1]>>}
Rest(queue, taken) == SubSeq(queue, Len(taken) + 1, Len(queue))

NewRun(p, prompts, then) == Deliver([NoRun EXCEPT !.owner = p], prompts, then)

(* _handleAgentEvent on the message_start of a user message.                 *)
MessageStart ==
  /\ run.pc = "start"
  /\ run' = [run EXCEPT !.pc = "end"]
  /\ returned' = returned \ {run.out[1].n}
  /\ IF connected
     THEN LET n == run.out[1].n IN
            /\ tried' = FALSE
            /\ mirror' = IF Contains(mirror.steering, n)
                         THEN [mirror EXCEPT !.steering = Without(@, n)]
                         ELSE [mirror EXCEPT !.followUps = Without(@, n)]
            /\ UNCHANGED unheard
     ELSE unheard' = TRUE /\ UNCHANGED <<tried, mirror>>
  /\ UNCHANGED <<messages, steering, followUps, log, nextTurn, pendingBash, last, attempt,
                 connected, op, manual, sent, calls, extras, cleared, failures>>

(* message_end: the agent has pushed the message, the session awaits its     *)
(* extensions before it saves it.                                            *)
MessageEnd ==
  /\ run.pc = "end"
  /\ messages' = Append(messages, run.out[1])
  /\ run' = [run EXCEPT !.pc = "save", !.heard = connected]
  /\ unheard' = (unheard \/ ~connected)
  /\ UNCHANGED <<steering, followUps, log, mirror, nextTurn, pendingBash, last, attempt, tried,
                 connected, op, manual, sent, calls, extras, cleared, returned, failures>>

Progress(msg) == msg.role = "assistant" /\ ~Failed(msg)

SaveMessage ==
  /\ run.pc = "save"
  /\ LET msg == run.out[1] IN
       /\ run' = Deliver(run, Tail(run.out), run.then)
       /\ IF run.heard
          THEN /\ log' = Append(log, msg)
               /\ last' = IF msg.role = "assistant" THEN msg ELSE last
               /\ tried' = (tried /\ ~Progress(msg))
               /\ attempt' = IF Progress(msg) THEN 0 ELSE attempt
          ELSE UNCHANGED <<log, last, tried, attempt>>
       /\ failures' = IF ~Failed(msg) THEN 0 ELSE IF run.heard THEN failures + 1 ELSE failures
  /\ UNCHANGED <<messages, steering, followUps, mirror, nextTurn, pendingBash, connected, op,
                 manual, sent, calls, extras, cleared, returned, unheard>>

runOnly == <<messages, log, mirror, nextTurn, pendingBash, last, attempt, tried, connected,
             op, manual, sent, calls, history>>

PollSteering ==
  /\ run.pc = "poll"
  /\ \E taken \in Drains(steering) :
       /\ run' = Deliver(run, taken, "request")
       /\ steering' = Rest(steering, taken)
  /\ UNCHANGED <<runOnly, followUps, extras>>

Request ==
  /\ run.pc = "request"
  /\ \E stop \in IF run.aborted THEN {"aborted"} ELSE Stops :
       /\ stop = "toolUse" => extras < MaxExtras
       /\ extras' = IF stop = "toolUse" THEN extras + 1 ELSE extras
       /\ run' = Deliver(run, <<Answer(stop, Compactions(log))>>,
                         CASE stop = "toolUse" -> "tools"
                           [] stop \in {"stop", "silent"} -> "pollBoth"
                           [] OTHER -> "finish")
  /\ UNCHANGED <<runOnly, steering, followUps>>

RunTools ==
  /\ run.pc = "tools"
  /\ run' = Deliver(run, <<ToolResult>>, "poll")
  /\ UNCHANGED <<runOnly, steering, followUps, extras>>

(* After an answer without calls: steering messages, else follow-ups, else   *)
(* the run ends.                                                             *)
PollBoth ==
  /\ run.pc = "pollBoth"
  /\ \E taken \in Drains(steering) :
       IF taken # <<>>
       THEN /\ run' = Deliver(run, taken, "request")
            /\ steering' = Rest(steering, taken) /\ UNCHANGED followUps
       ELSE \E more \in Drains(followUps) :
              /\ run' = Deliver(run, more, IF more = <<>> THEN "finish" ELSE "request")
              /\ followUps' = Rest(followUps, more) /\ UNCHANGED steering
  /\ UNCHANGED <<runOnly, extras>>

(* agent_end has been handled: finishRun, and whoever waited for the run     *)
(* goes on.                                                                  *)
FinishRun ==
  /\ run.pc = "finish"
  /\ run' = NoRun
  /\ op' = [op EXCEPT ![run.owner].pc = "postRun"]
  /\ manual' = IF manual.pc = "waiting" THEN [manual EXCEPT !.pc = "ready"] ELSE manual
  /\ UNCHANGED <<messages, steering, followUps, log, mirror, nextTurn, pendingBash, last,
                 attempt, tried, connected, sent, calls, extras, history>>

RunStep ==
  \/ MessageStart \/ MessageEnd \/ SaveMessage
  \/ PollSteering \/ Request \/ RunTools \/ PollBoth \/ FinishRun

-----------------------------------------------------------------------------
(* prompt() and what follows a run: _runAgentPrompt, _handlePostAgentRun,    *)
(* _checkCompaction, _runAutoCompaction, _prepareRetry.  stage tells the     *)
(* three places from which a call reaches them: "check" before its prompt    *)
(* has been built, "pre" in the runs that a compaction before the prompt     *)
(* asked for, "main" once the prompt is with the agent.                      *)

IdleOp == [pc |-> "idle", stage |-> "main", n |-> 0, prompts |-> <<>>, msg |-> NoMessage,
           why |-> "none", kept |-> 0, quiet |-> FALSE]

Set(p, o, pc) == op' = [op EXCEPT ![p] = [o EXCEPT !.pc = pc]]

(* The three places a bash result or a message can be moved between at once: *)
(* the transcript, the session and the results held back.                    *)
Now == [messages |-> messages, log |-> log, held |-> pendingBash]

Become(w) == messages' = w.messages /\ log' = w.log /\ pendingBash' = w.held

(* Mutant: the results that were held back reach only the transcript.        *)
FlushUnsaved(w) == [w EXCEPT !.messages = @ \o w.held, !.held = <<>>]

(* _flushPendingBashMessages.                                                *)
Flush(w) == [messages |-> w.messages \o w.held, log |-> w.log \o w.held, held |-> <<>>]

(* Mutant: the nextTurn messages are sent again with every prompt.           *)
BuildPromptKeeps(p, o, w) ==
  /\ Become(w)
  /\ Set(p, [o EXCEPT !.stage = "main", !.prompts = <<User(o.n, "prompt")>> \o nextTurn],
         "preflight")
  /\ UNCHANGED nextTurn

(* The message list of a new prompt takes the pending nextTurn messages.     *)
BuildPrompt(p, o, w) ==
  /\ Become(w)
  /\ Set(p, [o EXCEPT !.stage = "main", !.prompts = <<User(o.n, "prompt")>> \o nextTurn],
         "preflight")
  /\ nextTurn' = <<>>

Idle(p, w) ==
  /\ Become(w)
  /\ op' = [op EXCEPT ![p] = IdleOp]
  /\ UNCHANGED nextTurn

(* A check or a compaction after which the call does not go on by itself.    *)
NoMore(p, o, w) ==
  IF o.stage = "check" THEN BuildPrompt(p, o, w)
  ELSE IF Queued THEN Become(w) /\ Set(p, o, "continue") /\ UNCHANGED nextTurn
  ELSE IF o.stage = "pre" THEN BuildPrompt(p, o, Flush(w))
  ELSE Idle(p, Flush(w))

(* A compaction asks for another run.                                        *)
GoOn(p, o, w) ==
  /\ Become(w)
  /\ Set(p, [o EXCEPT !.stage = IF @ = "check" THEN "pre" ELSE @], "continue")
  /\ UNCHANGED nextTurn

(* Mutant: an overflow may be recovered from again and again.                *)
AsksAlways(msg, skipAborted, w) ==
  IF Overflowed(msg) /\ msg.age = Compactions(w.log) THEN {"overflow"}
  ELSE {"nothing"}

(* What a message asks _checkCompaction for.  Nothing while the setting is   *)
(* off, which may change at any time, as the model may: an overflow counts   *)
(* for the model that reported it.  An answer that failed has no usage of    *)
(* its own; whether the threshold is passed depends on sizes.                *)
Asks(msg, skipAborted, w) ==
  LET usage == IF Failed(msg) THEN LastUsage(w.messages) ELSE msg IN
    IF \/ msg = NoMessage
       \/ skipAborted /\ msg.kind = "aborted"
       \/ msg.age < Compactions(w.log)
    THEN {"nothing"}
    ELSE {"nothing"}
         \cup {ask \in {"overflow"} : Overflowed(msg) /\ ~tried}
         \cup {ask \in {"threshold"} :
                 usage # NoMessage /\ usage.age = Compactions(w.log) /\ extras < MaxExtras}

(* _checkCompaction, and _runAutoCompaction up to the await of the API key.  *)
CheckCompaction(p, o, msg, skipAborted, w) ==
  \E ask \in Asks(msg, skipAborted, w) :
    LET kept == IF ask = "overflow" THEN [w EXCEPT !.messages = DropAnswer(@)] ELSE w IN
      /\ tried' = (tried \/ ask = "overflow")
      /\ IF ask = "nothing" THEN NoMore(p, o, kept)
         ELSE /\ Become(kept)
              /\ Set(p, [o EXCEPT !.why = ask], "preparing")
              /\ UNCHANGED nextTurn
      /\ extras' = IF ask = "threshold" THEN extras + 1 ELSE extras

(* prompt() while nothing streams: flush, then check the last answer.        *)
Prompt(p) ==
  /\ op[p].pc = "idle" /\ ~Active
  /\ calls < MaxCalls /\ calls' = calls + 1
  /\ sent < MaxSent
  /\ sent' = sent + 1
  /\ LET w == Flush(Now) IN
       CheckCompaction(p, [IdleOp EXCEPT !.stage = "check", !.n = sent + 1],
                       LastAnswer(w.messages), FALSE, w)
  /\ UNCHANGED <<run, steering, followUps, mirror, last, attempt, connected, manual, cleared,
                 returned, unheard>>

StartRun(p, o, prompts, then) ==
  /\ run' = NewRun(p, prompts, then)
  /\ Set(p, [o EXCEPT !.prompts = <<>>], "running")

(* The call throws: its finally flushes, and what it still held is rejected. *)
Reject(p) ==
  /\ Idle(p, Flush(Now))
  /\ cleared' = cleared \cup (IF op[p].stage = "pre" THEN {op[p].n} ELSE {})
                        \cup {op[p].prompts[i].n : i \in DOMAIN op[p].prompts}
  /\ UNCHANGED <<run, steering, followUps>>

outside == <<mirror, last, connected, manual, sent, calls, returned, unheard, failures>>

(* agent.prompt, once the before_agent_start handlers have returned.         *)
SendPrompt(p) ==
  /\ op[p].pc = "preflight"
  /\ IF Active THEN Reject(p)
     ELSE /\ StartRun(p, op[p], op[p].prompts, "poll")
          /\ UNCHANGED <<messages, steering, followUps, log, nextTurn, pendingBash, cleared>>
  /\ UNCHANGED <<outside, attempt, tried, extras>>

(* agent.continue.  After an answer it takes its prompts from the queues, or *)
(* throws.                                                                   *)
Continuable == ~Active /\ messages # <<>> /\ (LastOf(messages).role = "assistant" => Queued)

ContinueRun(p) ==
  /\ op[p].pc = "continue"
  /\ IF ~Continuable THEN Reject(p)
     ELSE /\ IF LastOf(messages).role # "assistant"
             THEN StartRun(p, op[p], <<>>, "poll") /\ UNCHANGED <<steering, followUps>>
             ELSE IF steering # <<>>
             THEN \E taken \in Drains(steering) \ {<<>>} :
                    /\ StartRun(p, op[p], taken, "request")
                    /\ steering' = Rest(steering, taken) /\ UNCHANGED followUps
             ELSE \E taken \in Drains(followUps) \ {<<>>} :
                    /\ StartRun(p, op[p], taken, "poll")
                    /\ followUps' = Rest(followUps, taken) /\ UNCHANGED steering
          /\ UNCHANGED <<messages, log, nextTurn, pendingBash, cleared>>
  /\ UNCHANGED <<outside, attempt, tried, extras>>

elsewhere == <<run, steering, followUps, mirror, connected, manual, sent, calls, cleared, returned,
               unheard, failures>>

(* Mutant: one retry more than the settings allow.                           *)
MayRetryOnceMore(msg) == msg.kind = "retryable" /\ attempt <= MaxRetries

(* _isRetryableError, and _prepareRetry has an attempt left.                 *)
MayRetry(msg) == msg.kind = "retryable" /\ attempt < MaxRetries

(* _handlePostAgentRun.                                                      *)
AfterRun(p) ==
  /\ op[p].pc = "postRun"
  /\ last' = NoMessage
  /\ IF last = NoMessage
     THEN /\ IF op[p].stage = "pre" THEN BuildPrompt(p, op[p], Flush(Now))
             ELSE Idle(p, Flush(Now))
          /\ UNCHANGED <<attempt, tried, extras>>
     ELSE IF MayRetry(last)
     THEN /\ attempt' = attempt + 1
          /\ Become([Now EXCEPT !.messages = DropAnswer(@)])
          /\ Set(p, [op[p] EXCEPT !.msg = last], "sleeping")
          /\ UNCHANGED <<nextTurn, tried, extras>>
     ELSE /\ attempt' = IF Failed(last) THEN 0 ELSE attempt
          /\ CheckCompaction(p, op[p], last, TRUE, Now)
  /\ UNCHANGED elsewhere

(* The delay of a retry is over.                                             *)
WakeUp(p) ==
  /\ op[p].pc = "sleeping" /\ ~op[p].quiet
  /\ Set(p, op[p], "continue")
  /\ UNCHANGED <<elsewhere, messages, log, nextTurn, pendingBash, last, attempt, tried, extras>>

(* Mutant: cancelling the delay stops its timer and nothing else.            *)
RetryCancelledNever(p) == op[p].pc = "sleeping" /\ op[p].quiet /\ UNCHANGED vars

(* abortRetry has cancelled the delay.                                       *)
RetryCancelled(p) ==
  /\ op[p].pc = "sleeping" /\ op[p].quiet
  /\ attempt' = 0
  /\ CheckCompaction(p, [op[p] EXCEPT !.quiet = FALSE], op[p].msg, TRUE, Now)
  /\ UNCHANGED <<elsewhere, last>>

(* Mutant: the transcript is left as it was.                                 *)
CompactedLogOnly(k, w) == [w EXCEPT !.log = Append(@, Compaction(k))]

(* The summary is there: append the compaction, rebuild the transcript from  *)
(* the session.                                                              *)
Compacted(k, w) ==
  LET entries == Append(w.log, Compaction(k)) IN
    [w EXCEPT !.log = entries, !.messages = Context(entries)]

(* The API key is there: what is to be summarized is chosen.                 *)
AutoCompactionPrepared(p) ==
  /\ op[p].pc = "preparing" /\ Compactable(log)
  /\ \E k \in CutPoints(log) : Set(p, [op[p] EXCEPT !.kept = k], "compacting")
  /\ UNCHANGED <<elsewhere, messages, log, nextTurn, pendingBash, last, attempt, tried, extras>>

AutoCompacted(p) ==
  /\ op[p].pc = "compacting"
  /\ LET w == Compacted(op[p].kept, Now) IN
       IF op[p].why = "overflow"
       THEN GoOn(p, op[p], IF Failed(LastOf(w.messages))
                           THEN [w EXCEPT !.messages = DropAnswer(@)] ELSE w)
       ELSE IF Queued THEN GoOn(p, op[p], w) ELSE NoMore(p, op[p], w)
  /\ UNCHANGED <<elsewhere, last, attempt, tried, extras>>

(* There is no API key or nothing to compact, the summary fails, or the      *)
(* compaction is cancelled.                                                  *)
AutoCompactionFails(p) ==
  /\ op[p].pc \in {"preparing", "compacting"}
  /\ NoMore(p, op[p], Now)
  /\ UNCHANGED <<elsewhere, last, attempt, tried, extras>>

OpStep(p) ==
  \/ SendPrompt(p) \/ ContinueRun(p) \/ AfterRun(p) \/ WakeUp(p) \/ RetryCancelled(p)
  \/ AutoCompactionPrepared(p) \/ AutoCompacted(p) \/ AutoCompactionFails(p)

-----------------------------------------------------------------------------
(* The other public methods.  Like prompt() they are called from tasks of    *)
(* their own: whenever the session awaits something outside, never between   *)
(* two steps of one chain of promises.                                       *)

AtAwait == \A p \in Callers : op[p].pc \notin {"postRun", "continue"}

aside == <<messages, log, nextTurn, pendingBash, last, attempt, tried, connected, manual>>

Say   == sent < MaxSent /\ sent' = sent + 1
Extra == extras < MaxExtras /\ extras' = extras + 1

(* prompt() or sendUserMessage() while a run streams; steer() and followUp() *)
(* do not look whether one does.                                             *)
Steer ==
  /\ Say
  /\ mirror' = [mirror EXCEPT !.steering = Append(@, sent + 1)]
  /\ steering' = Append(steering, User(sent + 1, "steer"))
  /\ UNCHANGED <<aside, run, followUps, op, calls, extras, cleared, returned, unheard>>

FollowUp ==
  /\ Say
  /\ mirror' = [mirror EXCEPT !.followUps = Append(@, sent + 1)]
  /\ followUps' = Append(followUps, User(sent + 1, "followUp"))
  /\ UNCHANGED <<aside, run, steering, op, calls, extras, cleared, returned, unheard>>

(* sendCustomMessage: for the next turn, into a queue of a streaming agent,  *)
(* as a prompt of its own, or straight into the transcript and the session.  *)
CustomForNextTurn ==
  /\ Say
  /\ nextTurn' = Append(nextTurn, Custom(sent + 1))
  /\ UNCHANGED <<agentVars, log, mirror, pendingBash, last, attempt, tried, connected, manual,
                 op, calls, extras, cleared, returned, unheard>>

CustomQueued ==
  /\ Active /\ Say
  /\ \/ steering' = Append(steering, Custom(sent + 1)) /\ UNCHANGED followUps
     \/ followUps' = Append(followUps, Custom(sent + 1)) /\ UNCHANGED steering
  /\ UNCHANGED <<aside, run, mirror, op, calls, extras, cleared, returned, unheard>>

CustomTurn(p) ==
  /\ op[p].pc = "idle" /\ ~Active /\ Say
  /\ calls < MaxCalls /\ calls' = calls + 1
  /\ StartRun(p, IdleOp, <<Custom(sent + 1)>>, "poll")
  /\ UNCHANGED <<aside, steering, followUps, mirror, extras, cleared, returned, unheard>>

CustomAppended ==
  /\ ~Active /\ Say
  /\ messages' = Append(messages, Custom(sent + 1))
  /\ log' = Append(log, Custom(sent + 1))
  /\ UNCHANGED <<run, steering, followUps, mirror, nextTurn, pendingBash, last, attempt, tried,
                 connected, manual, op, calls, extras, cleared, returned, unheard>>

(* Mutant: a bash result enters the transcript of a streaming agent.         *)
RecordNow(result, w) == [w EXCEPT !.messages = Append(@, result), !.log = Append(@, result)]

Record(result, w) ==
  IF Active THEN [w EXCEPT !.held = Append(@, result)]
  ELSE [w EXCEPT !.messages = Append(@, result), !.log = Append(@, result)]

(* recordBashResult.                                                         *)
RecordBashResult ==
  /\ Extra
  /\ Become(Record(BashResult(extras + 1), Now))
  /\ UNCHANGED <<run, steering, followUps, mirror, nextTurn, last, attempt, tried, connected,
                 manual, op, sent, calls, cleared, returned, unheard>>

NoMirror == [steering |-> <<>>, followUps |-> <<>>]

(* Mutant: the queues of the agent are left alone.                           *)
ClearMirrorOnly ==
  /\ Queued
  /\ mirror' = NoMirror
  /\ UNCHANGED <<aside, run, steering, followUps, op, sent, calls, extras, cleared, returned,
                 unheard>>

(* clearQueue has no guard; with nothing queued or shown it changes nothing. *)
ClearQueue ==
  /\ Queued \/ mirror # NoMirror
  /\ mirror' = NoMirror
  /\ steering' = <<>> /\ followUps' = <<>>
  /\ LET queued == Range(NumbersOf(steering \o followUps)) IN
       /\ cleared' = cleared \cup queued
       /\ returned' = returned \cup (Range(mirror.steering \o mirror.followUps) \ queued)
  /\ UNCHANGED <<aside, run, op, sent, calls, extras, unheard>>

(* abortRetry, then agent.abort.                                             *)
Cancelled ==
  /\ run' = [run EXCEPT !.aborted = Active]
  /\ op' = [p \in Callers |-> [op[p] EXCEPT !.quiet = (op[p].pc = "sleeping")]]

Abort ==
  /\ Active \/ \E p \in Callers : op[p].pc = "sleeping"
  /\ Extra
  /\ Cancelled
  /\ UNCHANGED <<aside, steering, followUps, mirror, sent, calls, cleared, returned, unheard>>

(* compact(): disconnect, abort and wait for the run, then compact.          *)
Compact ==
  /\ manual.pc = "idle" /\ Extra
  /\ connected' = FALSE
  /\ Cancelled
  /\ manual' = [manual EXCEPT !.pc = IF Active THEN "waiting" ELSE "ready"]
  /\ UNCHANGED <<messages, steering, followUps, log, mirror, nextTurn, pendingBash, last,
                 attempt, tried, sent, calls, cleared, returned, unheard>>

NoManual == [pc |-> "idle", kept |-> 0]

rest == <<run, steering, followUps, mirror, nextTurn, last, attempt, tried, op, sent, calls, extras,
          history>>

(* It awaits the API key, and gives up without one or with nothing to do.    *)
CompactPrepared ==
  /\ manual.pc = "ready"
  /\ \/ /\ Compactable(log)
        /\ \E k \in CutPoints(log) : manual' = [pc |-> "compacting", kept |-> k]
        /\ UNCHANGED connected
     \/ manual' = NoManual /\ connected' = TRUE
  /\ UNCHANGED <<rest, messages, log, pendingBash>>

CompactDone ==
  /\ manual.pc = "compacting"
  /\ \/ Become(Compacted(manual.kept, Now))
     \/ UNCHANGED <<messages, log, pendingBash>>
  /\ manual' = NoManual /\ connected' = TRUE
  /\ UNCHANGED rest

Client ==
  /\ AtAwait
  /\ failures' = 0
  /\ \/ \E p \in Callers : Prompt(p) \/ CustomTurn(p)
     \/ Steer \/ FollowUp \/ CustomForNextTurn \/ CustomQueued \/ CustomAppended
     \/ RecordBashResult \/ ClearQueue \/ Abort \/ Compact

(* The session may be a new one or one that was opened again.                *)
Resumed(stop) == <<User(0, "prompt"), Answer(stop, 0)>>

Init ==
  /\ messages \in {<<>>} \cup {Resumed(stop) : stop \in Resumes}
  /\ log = messages
  /\ run = NoRun /\ steering = <<>> /\ followUps = <<>>
  /\ mirror = NoMirror /\ nextTurn = <<>> /\ pendingBash = <<>>
  /\ last = NoMessage /\ attempt = 0 /\ tried = FALSE /\ connected = TRUE
  /\ op = [p \in Callers |-> IdleOp] /\ manual = NoManual
  /\ sent = 0 /\ calls = 0 /\ extras = 0
  /\ cleared = {} /\ returned = {} /\ unheard = FALSE /\ failures = 0

Next ==
  \/ RunStep \/ \E p \in Callers : OpStep(p)
  \/ CompactPrepared \/ CompactDone
  \/ Client

Spec == Init /\ [][Next]_vars

(* Providers, tools, extensions, timers and summaries settle.                *)
Fairness ==
  /\ WF_vars(RunStep)
  /\ \A p \in Callers : WF_vars(OpStep(p))
  /\ WF_vars(CompactPrepared \/ CompactDone)

FairSpec == Spec /\ Fairness

-----------------------------------------------------------------------------
(* Reopening the session would show what the agent shows: the transcript is  *)
(* the context built from the session, up to the message being saved and to  *)
(* the answers that retries and recoveries take out of the transcript only.  *)
(* (compact() disconnects from a run it then waits for: its last messages    *)
(* are not saved.)                                                           *)
Kept(s) == Only(s, {x \in Range(s) : ~Failed(x) /\ ~Overflowed(x)})

TranscriptIsSaved ==
  ~unheard => Kept(messages) =
              Kept(Context(log) \o (IF run.pc = "save" THEN <<run.out[1]>> ELSE <<>>))

(* Every message handed to the session is in one place: a call that prepares *)
(* it, the next turn, a queue, on its way into the transcript, saved, or     *)
(* cleared, or rejected; and none is saved twice.                            *)
Spoken(s) == {s[i].n : i \in {j \in DOMAIN s : s[j].role \in {"user", "custom"}}} \ {0}

Preparing(p) ==
  IF op[p].pc = "preflight" THEN Spoken(op[p].prompts)
  ELSE IF op[p].stage \in {"check", "pre"} THEN {op[p].n} ELSE {}

Places == <<UNION {Preparing(p) : p \in Callers}, Spoken(nextTurn), Spoken(steering),
            Spoken(followUps), Spoken(run.out), Spoken(log), cleared>>

Repeats(s, roles) ==
  \E i, j \in DOMAIN s : i < j /\ s[i].role \in roles /\ s[i] = s[j]

EveryMessageOnce ==
  LET places == Places IN
    /\ \A n \in 1..sent :
         LET in == {i \in DOMAIN places : n \in places[i]} IN
           Cardinality(in) = 1 \/ (unheard /\ in = {})
    /\ \A s \in {log, messages} : ~Repeats(s, {"user", "custom", "bashExecution"})

(* The mirror shows the user messages waiting in the agent's queues and on   *)
(* their way out of them, in that order, but for those that clearQueue gave  *)
(* back when the run had them already.                                       *)
NotStarted ==
  IF run.out = <<>> \/ run.pc = "start" THEN run.out ELSE Tail(run.out)
Shown(way, s) == {x \in Range(s) : x.role = "user" /\ x.kind = way /\ x.n \notin returned}
Waiting(way, queue) ==
  LET waiting == NotStarted \o queue IN NumbersOf(Only(waiting, Shown(way, waiting)))

MirrorIsFaithful ==
  ~unheard => /\ mirror.steering = Waiting("steer", steering)
              /\ mirror.followUps = Waiting("followUp", followUps)

(* No message separates a call from its result, in the transcript or in the  *)
(* session (agent-session.ts, recordBashResult: "defer adding to avoid       *)
(* breaking tool_use/tool_result ordering").                                 *)
ResultsFollowCalls ==
  ~unheard => \A s \in {messages, log} : \A i \in 1..Len(s) - 1 :
                (s[i].kind = "toolUse" \/ s[i + 1].role = "toolResult")
                  => s[i].kind = "toolUse" /\ s[i + 1].role = "toolResult"

(* However long the provider fails, the session gives up after a bounded     *)
(* number of requests unless a client calls: the retries, and after one      *)
(* recovery from an overflow as many again.                                  *)
FailuresBounded == failures <= 2 * (MaxRetries + 1)

(* Every prompt() settles.                                                   *)
PromptsSettle == \A p \in Callers : (op[p].pc # "idle") ~> (op[p].pc = "idle")

(* Not so: a compaction that succeeds after an overflow is followed by       *)
(* another run (docs/rpc.md: "the agent will automatically retry the         *)
(* prompt").                                                                 *)
RecoveryRetries ==
  \A p \in Callers : (op[p].pc = "continue" /\ op[p].why = "overflow") => Continuable
=============================================================================
