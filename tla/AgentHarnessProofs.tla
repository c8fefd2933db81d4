------------------------- MODULE AgentHarnessProofs -------------------------
(***************************************************************************)
(* Type correctness of the agent harness, for any number of runs and       *)
(* messages, whether or not callers overlap and hooks throw; and its lock: *)
(* while callers wait for their calls, at most one run has a loop, nobody  *)
(* else writes the session meanwhile, and abort() returns only when the    *)
(* runs it found are over.  A branch is defined by recursion along the     *)
(* parents: that the recursion has a solution is shown here, because every *)
(* parent is older than its entry.  The second part is about what a harness*)
(* writes, the third about the session writes it puts off, the fourth about*)
(* where each message is that was given to it.                             *)
(***************************************************************************)
EXTENDS AgentHarness, AgentLoopProofs

Writes == {m \in Messages : m.role = "user" /\ m.kind = "write"}
Inputs == {m \in Messages : m.role = "user" /\ m.kind # "write"}

FrameRecord == [stage  : Stages,
                msgs   : Seq(Inputs),
                snap   : Seq(Messages),
                step   : Steps,
                error  : BOOLEAN,
                held   : Seq(Inputs),
                orphan : BOOLEAN]

Scalars ==
  /\ phase \in {"idle", "turn", "compaction"}
  /\ runPromise \in Runs \cup {NoRun} /\ runAbortController \in Runs \cup {NoRun}
  /\ compact \in [at : {"none", "summary", "append"}, calls : Nat]
  /\ aborting \in [at : {"none", "update", "wait", "returned"},
                   on : Runs \cup {NoRun}, live : SUBSET Runs]
  /\ sent \in Nat /\ deferred \subseteq Nat /\ withdrawn \subseteq Nat

QueueTypes ==
  /\ steerQueue \in Seq(Inputs) /\ followUpQueue \in Seq(Inputs)
  /\ nextTurnQueue \in Seq(Inputs) /\ pendingSessionWrites \in Seq(Writes)

StoreTypes ==
  /\ log \in Seq([m : Messages, parent : Nat]) /\ leaf \in 0..Len(log)
  /\ io \in [Actors -> [m : Messages \cup {NoMessage}, parent : Nat]]
  /\ \A i \in 1..Len(log) : log[i].parent < i
  /\ \A a \in Actors : io[a] # NoIO => io[a].m \in Messages /\ io[a].parent <= Len(log)

Before == {"unused", "snapshot", "queue", "queueUpdate", "hook"}

(* Where a run is: prompt(), its loop and the handling of the loop's events. *)
RunShape(r) ==
  /\ frame[r].stage \in Before => loop[r].pc = "unused"
  /\ frame[r].stage = "running" => loop[r].pc \notin {"unused", "failing", "dead"}
  /\ frame[r].stage = "reporting" => loop[r].pc = "failing"
  /\ frame[r].stage = "finally" => loop[r].pc \in {"returned", "failing", "dead"}
  /\ frame[r].stage = "done" => loop[r].pc \in {"unused", "dead"}
  /\ frame[r].stage \notin {"running", "reporting"} => out[r] = <<>> /\ frame[r].step = "new"
  /\ loop[r].pc = "returned" => out[r] = <<>>
  /\ frame[r].step \in {"flush", "flushed"} =>
       loop[r].pc \in {"turnEnd", "ending", "failing"}
  /\ frame[r].step = "append" => out[r] # <<>> /\ out[r][1].type = "message_end"
  /\ frame[r].step = "notify" => out[r] # <<>> /\ out[r][1].type \in {"message_end", "agent_end"}
  /\ frame[r].step = "drain" => out[r] = <<>> /\ loop[r].pc \in {"steering", "followUp"}
  /\ out[r] = <<>> /\ frame[r].step # "new" => loop[r].pc \in {"steering", "followUp", "turnEnd"}

HarnessTypes == LoopShape /\ Scalars /\ QueueTypes /\ StoreTypes /\ frame \in [Runs -> FrameRecord]

-----------------------------------------------------------------------------
(* Session.buildContext.                                                     *)

(* The recursion of Branch has a solution over any tree.                     *)
IsPath(f, t, k) ==
  f = [i \in 0..k |-> IF i = 0 THEN <<>> ELSE Append(f[t[i].parent], t[i].m)]

LEMMA PathExists ==
  ASSUME NEW t \in Seq([m : Messages, parent : Nat]),
         \A i \in 1..Len(t) : t[i].parent < i
  PROVE  \E f : IsPath(f, t, Len(t))
<1> DEFINE n == Len(t)
           T == {k \in 0..n : ~\E f : IsPath(f, t, k)}
<1>1. n \in Nat /\ \A i \in 1..n : t[i].parent \in Nat /\ t[i].parent < i
  <2>1. n \in Nat /\ \A i \in 1..n : t[i] \in [m : Messages, parent : Nat]
    BY ElementOfSeq, LenProperties
  <2> QED BY <2>1
<1> HIDE DEF n
<1>2. SUFFICES ASSUME T # {} PROVE FALSE
  <2>1. n \in 0..n
    BY <1>1
  <2> QED BY <2>1 DEF n
<1>3. PICK k \in T : \A j \in T : k <= j
  <2>1. T \in SUBSET Nat
    BY <1>1
  <2> HIDE DEF T
  <2> QED BY <1>2, <2>1, HasMinimum
<1>4. CASE k = 0
  <2> DEFINE f == [i \in 0..0 |-> <<>>]
  <2>1. IsPath(f, t, 0)
    <3>1. \A i \in 0..0 : i = 0
      OBVIOUS
    <3> QED BY <3>1 DEF IsPath
  <2> QED BY <1>3, <1>4, <2>1
<1>5. CASE k # 0
  <2>1. k - 1 \in 0..n /\ k - 1 \notin T /\ k \in 1..n
    <3>1. k \in 0..n
      BY <1>3
    <3>2. k \in 1..n /\ k - 1 \in 0..n /\ ~(k <= k - 1)
      BY <1>1, <1>5, <3>1
    <3> HIDE DEF T
    <3> QED BY <1>3, <3>2
  <2>2. PICK f : IsPath(f, t, k - 1)
    BY <2>1
  <2> DEFINE g == [i \in 0..k |-> IF i = k THEN Append(f[t[k].parent], t[k].m) ELSE f[i]]
  <2>3. ASSUME NEW i \in 0..k
        PROVE  g[i] = IF i = 0 THEN <<>> ELSE Append(g[t[i].parent], t[i].m)
    <3>1. CASE i = k
      <4>1. t[k].parent \in 0..(k - 1) /\ t[k].parent # k
        BY <1>1, <2>1
      <4>2. g[t[k].parent] = f[t[k].parent]
        BY <4>1
      <4> QED BY <1>5, <2>1, <3>1, <4>2
    <3>2. CASE i = 0
      <4>1. 0 \in 0..(k - 1) /\ 0 # k
        BY <2>1
      <4>2. f[0] = <<>>
        BY <2>2, <4>1 DEF IsPath
      <4> QED BY <3>2, <4>1, <4>2
    <3>3. CASE i # k /\ i # 0
      <4>1. i \in 0..(k - 1) /\ i \in 1..n
        BY <1>1, <2>1, <3>3
      <4>2. t[i].parent \in 0..(k - 1) /\ t[i].parent # k
        BY <1>1, <2>1, <4>1
      <4>3. f[i] = Append(f[t[i].parent], t[i].m)
        BY <2>2, <3>3, <4>1 DEF IsPath
      <4>4. g[i] = f[i] /\ g[t[i].parent] = f[t[i].parent]
        BY <3>3, <4>1, <4>2
      <4> QED BY <3>3, <4>3, <4>4
    <3> QED BY <3>1, <3>2, <3>3
  <2>4. IsPath(g, t, k)
    <3>1. g = [i \in 0..k |-> g[i]]
      OBVIOUS
    <3> HIDE DEF g
    <3> QED BY <2>3, <3>1 DEF IsPath
  <2> QED BY <1>3, <2>4
<1> QED BY <1>4, <1>5

Solution(t) == CHOOSE f : IsPath(f, t, Len(t))

LEMMA BranchIsSolution == Branch = Solution(log)[leaf]
BY DEF Branch, Solution, IsPath

(* What Branch gives is a sequence of messages.                              *)
LEMMA BranchType ==
  ASSUME StoreTypes
  PROVE  Branch \in Seq(Messages)
<1> DEFINE n == Len(log)
           f == Solution(log)
           T == {k \in 0..n : f[k] \notin Seq(Messages)}
<1>1. n \in Nat /\ \A i \in 1..n : log[i].parent \in 0..(i - 1) /\ log[i].m \in Messages
  <2>1. n \in Nat /\ \A i \in 1..n : log[i] \in [m : Messages, parent : Nat]
    BY ElementOfSeq, LenProperties DEF StoreTypes
  <2> QED BY <2>1 DEF StoreTypes
<1>2. IsPath(f, log, n)
  BY PathExists DEF Solution, StoreTypes
<1>3. leaf \in 0..n
  BY DEF StoreTypes
<1> HIDE DEF n, f
<1>4. ASSUME T # {} PROVE FALSE
  <2>1. PICK k \in T : \A j \in T : k <= j
    <3>1. T \in SUBSET Nat
      BY <1>1
    <3> HIDE DEF T
    <3> QED BY <1>4, <3>1, HasMinimum
  <2>2. k # 0
    BY <1>1, <1>2, <2>1 DEF IsPath
  <2>3. k \in 1..n /\ log[k].parent \in 0..n /\ log[k].parent < k /\ log[k].m \in Messages
    BY <1>1, <2>1, <2>2
  <2>4. f[log[k].parent] \in Seq(Messages)
    BY <1>1, <2>1, <2>3
  <2>5. f[k] = Append(f[log[k].parent], log[k].m)
    BY <1>2, <2>1, <2>2 DEF IsPath
  <2>6. f[k] \in Seq(Messages)
    BY <2>3, <2>4, <2>5, AppendProperties
  <2> QED BY <2>1, <2>6
<1>5. f[leaf] \in Seq(Messages)
  BY <1>3, <1>4
<1> QED BY <1>5, BranchIsSolution DEF f

-----------------------------------------------------------------------------
(* Types.                                                                    *)

LEMMA InputsSpoken ==
  ASSUME NEW msgs \in Seq(Inputs)
  PROVE  msgs \in Seq(Spoken) /\ msgs \in Seq(Messages)
<1>1. Inputs \subseteq Spoken /\ Inputs \subseteq Messages
  BY DEF Inputs, Spoken
<1> QED BY <1>1, SeqMonotonic

LEMMA InputTypes ==
  \A n \in Nat : \A k \in {"prompt", "steer", "followUp", "nextTurn"} : UserMessage(k, n) \in Inputs
BY MessageTypes DEF UserKinds, UserMessage, Inputs

LEMMA WriteTypes == \A n \in Nat : UserMessage("write", n) \in Writes
BY MessageTypes DEF UserKinds, UserMessage, Writes

LEMMA ScalarsKept ==
  ASSUME HarnessTypes, [Next]_vars
  PROVE  Scalars'
<1> USE DEF Scalars
<1>0. Scalars
  BY DEF HarnessTypes
<1>1. CASE UNCHANGED vars
  BY <1>0, <1>1 DEF vars, otherVars, harnessVars, callVars, history
<1>2. ASSUME NEW r \in Runs, RunStep(r) PROVE Scalars'
  <2>1. CASE UNCHANGED <<harnessVars, callVars, sent, history>>
    BY <1>0, <2>1 DEF harnessVars, callVars, history
  <2>2. CASE StartLoop(r) \/ PromptFails(r) \/ ReleasePhase(r) \/ FinishRun(r)
    BY <1>0, <2>2 DEF StartLoop, PromptFails, ReleasePhase, FinishRun, FinishRunAt, callVars,
                      history
  <2>3. CASE CreateTurnState(r) \/ NextTurnTaken(r) \/ NotifyMessage(r) \/ NotifyPlain(r)
             \/ NotifyTurnEnd(r) \/ SavePoint(r) \/ FlushAtEnd(r) \/ NotifyAgentEnd(r)
             \/ (\E c \in Calls(r) : EndCall(r, c)) \/ Drained(r) \/ PrepareNextTurn(r)
             \/ NextTurnState(r) \/ EnterFinally(r) \/ FlushEnds(r)
             \/ (UNCHANGED otherVars)
    BY <2>1, <2>3 DEF CreateTurnState, NextTurnTaken, NotifyMessage, NotifyPlain, NotifyTurnEnd,
         SavePoint, FlushAtEnd, NotifyAgentEnd, EndCall, Drained, PrepareNextTurn, NextTurnState,
         NextTurnContext, EnterFinally, FlushEnds, otherVars
  <2>4. CASE TakeNextTurn(r) \/ FlushWrite(r) \/ FlushWritten(r) \/ PersistMessage(r)
             \/ MessagePersisted(r) \/ DrainSteering(r) \/ DrainFollowUps(r) \/ DrainFails(r)
    BY <2>1, <2>4 DEF TakeNextTurn, FlushWrite, FlushWritten, FlushLeaves, PersistMessage,
         MessagePersisted, DrainSteering, DrainFollowUps, DrainFails
  <2> QED BY <1>2, <2>2, <2>3, <2>4 DEF RunStep
<1>3. ASSUME NEW r \in Runs, Prompt(r) PROVE Scalars'
  BY <1>0, <1>3 DEF Prompt, BeginPrompt, callVars, history
<1>4. CASE Steer \/ FollowUp \/ NextTurn \/ WriteIdle
  <2>1. sent' = sent + 1 /\ UNCHANGED <<harnessVars, callVars, history>>
    BY <1>4 DEF Steer, FollowUp, NextTurn, WriteIdle, WriteNow
  <2> QED BY <1>0, <2>1 DEF harnessVars, callVars, history
<1>5. CASE DeferWrite
  BY <1>0, <1>5 DEF DeferWrite, PutOff, NewWrite, UserMessage, harnessVars, callVars
<1>6. CASE Compact
  BY <1>0, <1>6 DEF Compact, history
<1>7. CASE Abort
  <2>1. NumbersIn(steerQueue \o followUpQueue) \subseteq Nat
    <3>1. steerQueue \o followUpQueue \in Seq(Inputs)
      BY DEF HarnessTypes, QueueTypes
    <3>2. \A m \in Inputs : m.n \in Nat
      BY DEF Inputs, Messages
    <3> QED BY <3>1, <3>2, ElementOfSeq DEF NumbersIn
  <2>2. Live \subseteq Runs
    BY DEF Live
  <2>3. aborting' \in [at : {"none", "update", "wait", "returned"},
                      on : Runs \cup {NoRun}, live : SUBSET Runs]
    BY <1>7, <2>2 DEF Abort, AbortRun
  <2>4. withdrawn' \subseteq Nat
    BY <1>0, <1>7, <2>1 DEF Abort, AbortRun
  <2>5. UNCHANGED <<phase, runPromise, runAbortController, compact, sent, deferred>>
    BY <1>7 DEF Abort, AbortRun, harnessVars
  <2> QED BY <1>0, <2>3, <2>4, <2>5, Zenon
<1>8. CASE IdleWritten
  BY <1>0, <1>8 DEF IdleWritten, harnessVars, callVars, history
<1>9. CASE AppendCompaction \/ CompactEnds
  BY <1>0, <1>9 DEF AppendCompaction, AppendSummary, CompactEnds, harnessVars, history
<1>10. CASE AbortWaits \/ AbortReturns
  <2>1. aborting' \in [at : {"none", "update", "wait", "returned"},
                      on : Runs \cup {NoRun}, live : SUBSET Runs]
    <3>1. CASE AbortWaits
      BY <1>0, <3>1 DEF AbortWaits
    <3>2. CASE AbortReturns
      <4>1. aborting' = [at |-> "returned", on |-> NoRun, live |-> aborting.live]
        BY <3>2 DEF AbortReturns, AbortOver
      <4>2. aborting.live \in SUBSET Runs
        BY <1>0
      <4> QED BY <4>1, <4>2
    <3> QED BY <1>10, <3>1, <3>2
  <2>2. UNCHANGED <<phase, runPromise, runAbortController, compact, sent, deferred, withdrawn>>
    BY <1>10 DEF AbortWaits, AbortReturns, AbortOver, harnessVars, history
  <2> QED BY <1>0, <2>1, <2>2, Zenon
<1> QED BY <1>1, <1>2, <1>3, <1>4, <1>5, <1>6, <1>7, <1>8, <1>9, <1>10
        DEF Next, ClientStep, Continuations

LEMMA DrainsType ==
  ASSUME NEW queue \in Seq(Inputs), NEW taken \in Drains(queue)
  PROVE  taken \in Seq(Inputs) /\ Rest(queue, taken) \in Seq(Inputs)
<1>1. taken \in Seq(Inputs)
  <2>1. CASE queue = <<>>
    BY <2>1 DEF Drains
  <2>2. CASE queue # <<>>
    <3>1. queue[1] \in Inputs
      BY <2>2
    <3>2. <<queue[1]>> \in Seq(Inputs)
      BY <3>1
    <3> QED BY <2>2, <3>2 DEF Drains
  <2> QED BY <2>1, <2>2
<1> QED BY <1>1 DEF Rest

LEMMA QueuesKept ==
  ASSUME HarnessTypes, [Next]_vars
  PROVE  QueueTypes'
<1> USE DEF QueueTypes
<1>0. QueueTypes /\ sent \in Nat /\ frame \in [Runs -> FrameRecord]
  BY DEF HarnessTypes, Scalars
<1>1. CASE UNCHANGED vars
  BY <1>0, <1>1 DEF vars, otherVars, queueVars, storeVars
<1>2. ASSUME NEW r \in Runs, RunStep(r) PROVE QueueTypes'
  <2>0. frame[r].held \in Seq(Inputs)
    BY <1>0 DEF FrameRecord
  <2>1. CASE UNCHANGED <<queueVars, pendingSessionWrites>>
    BY <1>0, <2>1 DEF queueVars
  <2>2. CASE TakeNextTurn(r)
    BY <1>0, <2>2 DEF TakeNextTurn, storeVars
  <2>3. CASE PromptFails(r)
    BY <1>0, <2>0, <2>3 DEF PromptFails, storeVars
  <2>4. CASE FlushWritten(r)
    <3>1. SubSeq(pendingSessionWrites, 2, Len(pendingSessionWrites)) \in Seq(Writes)
      BY <1>0
    <3> QED BY <1>0, <2>4, <3>1 DEF FlushWritten, FlushLeaves, queueVars
  <2>5. CASE DrainSteering(r) \/ DrainFollowUps(r)
    <3> QED BY <1>0, <2>5, DrainsType DEF DrainSteering, DrainFollowUps, storeVars
  <2>6. CASE DrainFails(r)
    BY <1>0, <2>0, <2>6 DEF DrainFails, storeVars
  <2>7. CASE CreateTurnState(r) \/ NextTurnTaken(r) \/ NotifyMessage(r) \/ NotifyPlain(r)
             \/ NotifyTurnEnd(r) \/ SavePoint(r) \/ FlushAtEnd(r) \/ NotifyAgentEnd(r)
             \/ (\E c \in Calls(r) : EndCall(r, c)) \/ Drained(r) \/ PrepareNextTurn(r)
             \/ NextTurnState(r) \/ EnterFinally(r) \/ FlushEnds(r)
             \/ (UNCHANGED otherVars)
    BY <2>1, <2>7 DEF CreateTurnState, NextTurnTaken, NotifyMessage, NotifyPlain, NotifyTurnEnd,
         SavePoint, FlushAtEnd, NotifyAgentEnd, EndCall, Drained, PrepareNextTurn, NextTurnState,
         NextTurnContext, EnterFinally, FlushEnds, otherVars, storeVars
  <2>8. CASE FlushWrite(r) \/ PersistMessage(r) \/ MessagePersisted(r) \/ StartLoop(r)
             \/ ReleasePhase(r) \/ FinishRun(r)
    BY <2>1, <2>8 DEF FlushWrite, PersistMessage, MessagePersisted, StartLoop, ReleasePhase,
         FinishRun, FinishRunAt, storeVars
  <2> QED BY <1>2, <2>2, <2>3, <2>4, <2>5, <2>6, <2>7, <2>8 DEF RunStep
<1>3. ASSUME NEW r \in Runs, Prompt(r) PROVE QueueTypes'
  BY <1>0, <1>3 DEF Prompt, BeginPrompt, queueVars, storeVars
<1>4. CASE Steer \/ FollowUp \/ NextTurn
  <2>1. \A k \in {"prompt", "steer", "followUp", "nextTurn"} : UserMessage(k, sent + 1) \in Inputs
    BY <1>0, InputTypes
  <2>2. CASE Steer
    BY <1>0, <2>1, <2>2 DEF Steer, storeVars
  <2>3. CASE FollowUp
    BY <1>0, <2>1, <2>3 DEF FollowUp, storeVars
  <2>4. CASE NextTurn
    BY <1>0, <2>1, <2>4 DEF NextTurn, storeVars
  <2> QED BY <1>4, <2>2, <2>3, <2>4
<1>5. CASE DeferWrite
  <2>1. NewWrite \in Writes
    BY <1>0, WriteTypes DEF NewWrite
  <2> QED BY <1>0, <1>5, <2>1 DEF DeferWrite, PutOff, queueVars
<1>6. CASE WriteIdle \/ Compact \/ IdleWritten \/ AppendCompaction \/ CompactEnds
           \/ AbortWaits \/ AbortReturns
  BY <1>0, <1>6 DEF WriteIdle, WriteNow, Compact, IdleWritten, AppendCompaction, AppendSummary,
                    CompactEnds, AbortWaits, AbortReturns, AbortOver, queueVars, storeVars
<1>7. CASE Abort
  BY <1>0, <1>7 DEF Abort, AbortRun, storeVars
<1> QED BY <1>1, <1>2, <1>3, <1>4, <1>5, <1>6, <1>7 DEF Next, ClientStep, Continuations

LEMMA StoreKept ==
  ASSUME HarnessTypes, [Next]_vars
  PROVE  StoreTypes'
<1> DEFINE Lines == [m : Messages, parent : Nat]
<1>0. /\ log \in Seq(Lines) /\ Len(log) \in Nat /\ leaf \in 0..Len(log) /\ leaf \in Nat
      /\ io \in [Actors -> [m : Messages \cup {NoMessage}, parent : Nat]]
      /\ sent \in Nat /\ pendingSessionWrites \in Seq(Writes)
      /\ out \in [Runs -> Seq(Events)] /\ Runs \subseteq Actors /\ Client \in Actors
      /\ Compactor \in Actors
  BY DEF HarnessTypes, StoreTypes, QueueTypes, Scalars, LoopShape, LoopTypeOK, Actors
<1>1. ASSUME UNCHANGED <<log, leaf, io>> PROVE StoreTypes'
  BY <1>1 DEF HarnessTypes, StoreTypes
<1>2. ASSUME NEW a \in Actors, NEW m \in Messages,
             io' = [io EXCEPT ![a] = [m |-> m, parent |-> leaf]], UNCHANGED <<log, leaf>>
      PROVE  StoreTypes'
  <2>1. [m |-> m, parent |-> leaf] \in [m : Messages \cup {NoMessage}, parent : Nat]
    BY <1>0
  <2> QED BY <1>0, <1>2, <2>1 DEF HarnessTypes, StoreTypes
<1>3. ASSUME NEW a \in Actors, CommitAppend(a) PROVE StoreTypes'
  <2>1. /\ io[a] \in Lines /\ io[a].parent <= Len(log) /\ io[a].parent \in Nat
        /\ log' = Append(log, io[a]) /\ leaf' = Len(log) + 1
        /\ io' = [io EXCEPT ![a] = NoIO]
    BY <1>0, <1>3 DEF CommitAppend, HarnessTypes, StoreTypes
  <2>2. /\ log' \in Seq(Lines) /\ Len(log') = Len(log) + 1
        /\ \A i \in 1..Len(log) : log'[i] = log[i]
        /\ log'[Len(log) + 1] = io[a]
    BY <1>0, <2>1, AppendProperties
  <2>3. NoIO \in [m : Messages \cup {NoMessage}, parent : Nat]
    BY DEF NoIO
  <2>4. io' \in [Actors -> [m : Messages \cup {NoMessage}, parent : Nat]]
    BY <1>0, <2>1, <2>3
  <2>5. leaf' \in 0..Len(log')
    BY <1>0, <2>1, <2>2
  <2>6. \A i \in 1..Len(log') : log'[i].parent < i
    <3> TAKE i \in 1..Len(log')
    <3>1. CASE i = Len(log) + 1
      BY <1>0, <2>1, <2>2, <3>1
    <3>2. CASE i # Len(log) + 1
      <4>1. i \in 1..Len(log)
        BY <1>0, <2>2, <3>2
      <4> QED BY <2>2, <4>1 DEF HarnessTypes, StoreTypes
    <3> QED BY <3>1, <3>2
  <2>7. \A b \in Actors : io'[b] # NoIO => io'[b].m \in Messages /\ io'[b].parent <= Len(log')
    <3> TAKE b \in Actors
    <3>1. CASE b = a
      BY <1>0, <2>1, <3>1
    <3>2. CASE b # a
      <4>1. io'[b] = io[b] /\ io[b].parent \in Nat
        BY <1>0, <2>1, <3>2
      <4>2. io[b] # NoIO => io[b].m \in Messages /\ io[b].parent <= Len(log)
        BY DEF HarnessTypes, StoreTypes
      <4> QED BY <1>0, <2>2, <4>1, <4>2
    <3> QED BY <3>1, <3>2
  <2> QED BY <2>2, <2>4, <2>5, <2>6, <2>7 DEF StoreTypes
<1>4. CASE UNCHANGED vars
  BY <1>1, <1>4 DEF vars, otherVars, storeVars
<1>5. ASSUME NEW r \in Runs, RunStep(r) PROVE StoreTypes'
  <2>1. CASE FlushWrite(r)
    <3>1. pendingSessionWrites[1] \in Writes
      BY <1>0, <2>1 DEF FlushWrite
    <3>2. pendingSessionWrites[1] \in Messages
      BY <3>1 DEF Writes
    <3> QED BY <1>0, <1>2, <2>1, <3>2 DEF FlushWrite, BeginAppend
  <2>2. CASE PersistMessage(r)
    <3>1. out[r] # <<>> /\ Head_(r).type = "message_end"
      BY <2>2 DEF PersistMessage, Handling
    <3>2. Fits(out[r][1], loop[r].pc)
      <4>1. 1 \in 1..Len(out[r])
        BY <1>0, <3>1
      <4> QED BY <4>1 DEF HarnessTypes, LoopShape, Shape
    <3>3. Head_(r).msg \in Messages
      BY <3>1, <3>2 DEF Fits, Head_, Speakable
    <3> QED BY <1>0, <1>2, <2>2, <3>3 DEF PersistMessage, BeginAppend
  <2>3. CASE FlushWritten(r) \/ MessagePersisted(r)
    BY <1>0, <1>3, <2>3 DEF FlushWritten, FlushLeaves, MessagePersisted
  <2>4. CASE CreateTurnState(r) \/ NextTurnTaken(r) \/ NotifyMessage(r) \/ NotifyPlain(r)
             \/ NotifyTurnEnd(r) \/ SavePoint(r) \/ FlushAtEnd(r) \/ NotifyAgentEnd(r)
             \/ (\E c \in Calls(r) : EndCall(r, c)) \/ Drained(r) \/ PrepareNextTurn(r)
             \/ NextTurnState(r) \/ EnterFinally(r) \/ FlushEnds(r)
             \/ (UNCHANGED otherVars)
    BY <1>1, <2>4 DEF CreateTurnState, NextTurnTaken, NotifyMessage, NotifyPlain, NotifyTurnEnd,
         SavePoint, FlushAtEnd, NotifyAgentEnd, EndCall, Drained, PrepareNextTurn, NextTurnState,
         NextTurnContext, EnterFinally, FlushEnds, otherVars, storeVars
  <2>5. CASE TakeNextTurn(r) \/ PromptFails(r) \/ StartLoop(r) \/ ReleasePhase(r)
             \/ FinishRun(r) \/ DrainSteering(r) \/ DrainFollowUps(r) \/ DrainFails(r)
    BY <1>1, <2>5 DEF TakeNextTurn, PromptFails, StartLoop, ReleasePhase, FinishRun, FinishRunAt,
         DrainSteering, DrainFollowUps, DrainFails, storeVars
  <2> QED BY <1>5, <2>1, <2>2, <2>3, <2>4, <2>5 DEF RunStep
<1>6. CASE WriteIdle
  <2>1. NewWrite \in Messages
    BY <1>0, WriteTypes DEF NewWrite, Writes
  <2> QED BY <1>0, <1>2, <1>6, <2>1 DEF WriteIdle, WriteNow, BeginAppend
<1>7. CASE AppendCompaction
  <2>1. AssistantMessage("stop", 0) \in Messages
    BY MessageTypes DEF Stops
  <2> QED BY <1>0, <1>2, <1>7, <2>1 DEF AppendCompaction, AppendSummary
<1>8. CASE IdleWritten \/ CompactEnds
  BY <1>0, <1>1, <1>3, <1>8 DEF IdleWritten, CompactEnds
<1>9. ASSUME NEW r \in Runs, Prompt(r) PROVE StoreTypes'
  BY <1>1, <1>9 DEF Prompt, BeginPrompt, storeVars
<1>10. CASE Steer \/ FollowUp \/ NextTurn \/ DeferWrite \/ Compact \/ Abort
            \/ AbortWaits \/ AbortReturns
  BY <1>1, <1>10 DEF Steer, FollowUp, NextTurn, DeferWrite, PutOff, Compact, Abort, AbortRun,
                     AbortWaits, AbortReturns, AbortOver, storeVars
<1> QED BY <1>4, <1>5, <1>6, <1>7, <1>8, <1>9, <1>10 DEF Next, ClientStep, Continuations

LEMMA FrameKept ==
  ASSUME HarnessTypes, [Next]_vars
  PROVE  frame' \in [Runs -> FrameRecord]
<1> DEFINE Fine == frame' \in [Runs -> FrameRecord]
<1>0. /\ frame \in [Runs -> FrameRecord]
      /\ nextTurnQueue \in Seq(Inputs) /\ steerQueue \in Seq(Inputs)
      /\ followUpQueue \in Seq(Inputs) /\ sent \in Nat
      /\ <<>> \in Seq(Inputs) /\ <<>> \in Seq(Messages)
  BY DEF HarnessTypes, QueueTypes, Scalars
<1>1. NewFrame \in FrameRecord /\ [NewFrame EXCEPT !.stage = "done"] \in FrameRecord
  BY <1>0 DEF NewFrame, FrameRecord, Stages, Steps
<1>2. CASE UNCHANGED frame
  BY <1>0, <1>2
<1>3. ASSUME NEW r \in Runs, RunStep(r) PROVE Fine
  <2>0. /\ frame[r] \in FrameRecord
        /\ frame[r].held \o frame[r].msgs \in Seq(Inputs)
    BY <1>0 DEF FrameRecord
  <2>1. ASSUME RunThrows(r) PROVE Fine
    <3>1. CASE ReportFailure(r)
      BY <1>0, <2>0, <3>1 DEF ReportFailure, FrameRecord, Stages, Steps
    <3>2. CASE GiveUp(r, "finally")
      BY <1>0, <2>0, <3>2 DEF GiveUp, FrameRecord, Stages, Steps
    <3> QED BY <2>1, <3>1, <3>2 DEF RunThrows
  <2>2. ASSUME Handled(r) PROVE Fine
    BY <1>0, <2>0, <2>2 DEF Handled, FrameRecord, Steps
  <2>3. CASE CreateTurnState(r)
    <3>1. Branch \in Seq(Messages)
      BY BranchType DEF HarnessTypes
    <3> QED BY <1>0, <2>0, <2>3, <3>1 DEF CreateTurnState, FrameRecord, Stages
  <2>4. CASE TakeNextTurn(r)
    <3> DEFINE stage == IF nextTurnQueue = <<>> THEN "hook" ELSE "queueUpdate"
    <3>1. stage \in Stages
      BY DEF Stages
    <3>2. frame' = [frame EXCEPT ![r].stage = stage, ![r].held = nextTurnQueue]
      BY <2>4 DEF TakeNextTurn
    <3> HIDE DEF stage
    <3> QED BY <1>0, <2>0, <3>1, <3>2 DEF FrameRecord
  <2>5. CASE NextTurnTaken(r)
    <3> DEFINE msgs == frame[r].held \o frame[r].msgs
    <3>1. frame' = [frame EXCEPT ![r].stage = "hook", ![r].held = <<>>, ![r].msgs = msgs]
      BY <2>5 DEF NextTurnTaken
    <3>2. msgs \in Seq(Inputs)
      BY <2>0
    <3> HIDE DEF msgs
    <3> QED BY <1>0, <2>0, <3>1, <3>2 DEF FrameRecord, Stages
  <2>6. CASE StartLoop(r)
    BY <1>0, <2>0, <2>6 DEF StartLoop, FrameRecord, Stages
  <2>7. CASE PromptFails(r) \/ FinishRun(r)
    BY <1>0, <1>1, <2>7 DEF PromptFails, FinishRun, FinishRunAt
  <2>8. CASE FlushEnds(r) \/ PersistMessage(r) \/ MessagePersisted(r) \/ FlushAtEnd(r)
             \/ ReleasePhase(r) \/ PrepareNextTurn(r)
    <3>1. ASSUME NEW step \in Steps, frame' = [frame EXCEPT ![r].step = step] PROVE Fine
      BY <1>0, <2>0, <3>1 DEF FrameRecord
    <3> QED BY <2>8, <3>1 DEF FlushEnds, PersistMessage, MessagePersisted, FlushAtEnd,
         ReleasePhase, PrepareNextTurn, Steps
  <2>9. CASE NotifyTurnEnd(r)
    <3>1. PICK error \in BOOLEAN :
            frame' = [frame EXCEPT ![r].step = "flush", ![r].error = error]
      BY <2>9 DEF NotifyTurnEnd
    <3> QED BY <1>0, <2>0, <3>1 DEF FrameRecord, Steps
  <2>10. CASE NotifyMessage(r) \/ NotifyPlain(r) \/ SavePoint(r) \/ NotifyAgentEnd(r)
    BY <2>1, <2>2, <2>10 DEF NotifyMessage, NotifyPlain, SavePoint, NotifyAgentEnd, Notified
  <2>11. CASE \E c \in Calls(r) : EndCall(r, c)
    BY <1>2, <2>1, <2>11 DEF EndCall
  <2>12. ASSUME NEW queue \in Seq(Inputs), NEW taken \in Drains(queue),
                frame' = [frame EXCEPT ![r].step = "drain", ![r].held = taken]
         PROVE  Fine
    <3>1. taken \in Seq(Inputs)
      BY <2>12, DrainsType
    <3> QED BY <1>0, <2>0, <2>12, <3>1 DEF FrameRecord, Steps
  <2>13. CASE DrainSteering(r)
    BY <1>0, <1>2, <2>12, <2>13 DEF DrainSteering
  <2>14. CASE DrainFollowUps(r)
    BY <1>0, <1>2, <2>12, <2>14 DEF DrainFollowUps
  <2>15. CASE Drained(r)
    BY <1>0, <2>0, <2>15 DEF Drained, FrameRecord, Steps
  <2>16. CASE DrainFails(r)
    BY <2>1, <2>16 DEF DrainFails
  <2>17. CASE NextTurnState(r)
    <3>1. CASE frame' = [frame EXCEPT ![r].step = "new"]
      BY <1>0, <2>0, <3>1 DEF FrameRecord, Steps
    <3> QED BY <2>1, <2>17, <3>1 DEF NextTurnState, NextTurnContext
  <2>18. CASE EnterFinally(r)
    BY <1>0, <2>0, <2>18 DEF EnterFinally, FrameRecord, Stages
  <2>19. CASE UNCHANGED frame \/ FlushWrite(r) \/ FlushWritten(r)
    BY <1>2, <2>19 DEF FlushWrite, FlushWritten, FlushLeaves
  <2> QED BY <1>3, <2>3, <2>4, <2>5, <2>6, <2>7, <2>8, <2>9, <2>10, <2>11, <2>13, <2>14,
             <2>15, <2>16, <2>17, <2>18, <2>19 DEF RunStep
<1>4. ASSUME NEW r \in Runs, Prompt(r) PROVE Fine
  <2>1. <<UserMessage("prompt", sent + 1)>> \in Seq(Inputs)
    <3>1. UserMessage("prompt", sent + 1) \in Inputs
      BY <1>0, InputTypes
    <3> QED BY <3>1
  <2> DEFINE msgs == <<UserMessage("prompt", sent + 1)>>
  <2>2. frame' = [frame EXCEPT ![r].stage = "snapshot", ![r].msgs = msgs]
    BY <1>4 DEF Prompt, BeginPrompt
  <2> HIDE DEF msgs
  <2>3. frame[r] \in FrameRecord /\ msgs \in Seq(Inputs)
    BY <1>0, <2>1 DEF msgs
  <2> QED BY <1>0, <2>2, <2>3 DEF FrameRecord, Stages
<1>5. CASE Abort
  <2>1. \A r \in Runs : [frame[r] EXCEPT !.orphan = (frame[r].step = "drain")] \in FrameRecord
    BY <1>0 DEF FrameRecord
  <2> QED BY <1>5, <2>1 DEF Abort
<1>6. CASE UNCHANGED vars \/ Steer \/ FollowUp \/ NextTurn \/ DeferWrite \/ WriteIdle
           \/ Compact \/ IdleWritten \/ AppendCompaction \/ CompactEnds \/ AbortWaits
           \/ AbortReturns
  BY <1>2, <1>6 DEF vars, Steer, FollowUp, NextTurn, DeferWrite, PutOff, WriteIdle, WriteNow,
        Compact, IdleWritten, AppendCompaction, AppendSummary, CompactEnds, AbortWaits,
        AbortReturns, AbortOver
<1> QED BY <1>3, <1>4, <1>5, <1>6 DEF Next, ClientStep, Continuations

LEMMA LoopKept ==
  ASSUME HarnessTypes, \A r \in Runs : RunShape(r), [Next]_vars
  PROVE  LoopShape'
<1>0. /\ LoopShape /\ LoopTypeOK /\ frame \in [Runs -> FrameRecord]
      /\ loop \in [Runs -> LoopRecord] /\ out \in [Runs -> Seq(Events)]
  BY DEF HarnessTypes, LoopShape, LoopTypeOK
<1>1. CASE UNCHANGED loopVars
  BY <1>0, <1>1 DEF loopVars, LoopShape, LoopTypeOK, Shape
<1>2. ASSUME NEW r \in Runs, RunStep(r) PROVE LoopShape'
  <2>0. /\ frame[r].msgs \in Seq(Spoken) /\ frame[r].held \in Seq(Spoken)
        /\ frame[r].snap \in Seq(Messages) /\ <<>> \in Seq(Spoken) /\ <<>> \in Seq(Messages)
        /\ loop[r] \in LoopRecord /\ out[r] \in Seq(Events)
    <3>1. frame[r].msgs \in Seq(Inputs) /\ frame[r].held \in Seq(Inputs)
      BY <1>0 DEF FrameRecord
    <3> QED BY <1>0, <3>1, InputsSpoken DEF FrameRecord
  <2>1. ASSUME RunThrows(r) PROVE LoopShape'
    <3>1. CASE ReportFailure(r)
      <4> DEFINE rec == [loop[r] EXCEPT !.pc = "failing", !.calls = <<>>]
                 m == AssistantMessage(IF loop[r].aborted THEN "aborted" ELSE "error", 0)
      <4>1. rec \in LoopRecord /\ rec.pc = "failing"
        <5>1. <<>> \in Seq(CallStatus) /\ "failing" \in LoopStates
          BY DEF LoopStates
        <5> QED BY <2>0, <5>1 DEF LoopRecord
      <4>2. m \in Spoken
        <5>1. m \in Messages
          BY MessageTypes DEF Stops
        <5> QED BY <5>1 DEF Spoken, AssistantMessage
      <4>3. <<m>> \in Seq(Speakable("failing"))
        <5>1. <<m>> \in Seq(Spoken)
          BY <4>2
        <5> QED BY <5>1, SpokenSpeakable
      <4> DEFINE s == MessageEvents(<<m>>)
                 t == <<Event("turn_end"), Event("agent_end")>>
      <4>4. s \in Seq(Events) /\ \A i \in 1..Len(s) : Fits(s[i], "failing")
        BY <4>3, MessageEventsFit
      <4>5. t \in Seq(Events) /\ \A i \in 1..Len(t) : Fits(t[i], "failing")
        <5>1. Fits(Event("turn_end"), "failing") /\ Fits(Event("agent_end"), "failing")
          BY PlainEventsFit
        <5> QED BY <5>1 DEF Fits
      <4>6. loop' = [loop EXCEPT ![r] = rec] /\ out' = [out EXCEPT ![r] = s \o t]
        BY <3>1 DEF ReportFailure, FailureEvents
      <4> HIDE DEF rec, s, t
      <4>7. s \o t \in Seq(Events) /\ \A i \in 1..Len(s \o t) : Fits((s \o t)[i], "failing")
        BY <4>4, <4>5, ConcatFits
      <4> QED BY <1>0, <4>1, <4>6, <4>7, ShapeKept
    <3>2. CASE GiveUp(r, "finally")
      <4> DEFINE rec == [loop[r] EXCEPT !.pc = "dead"]
      <4>1. rec \in LoopRecord /\ rec.pc = "dead"
        BY <2>0 DEF LoopRecord, LoopStates
      <4>2. loop' = [loop EXCEPT ![r] = rec] /\ out' = [out EXCEPT ![r] = <<>>]
        BY <3>2 DEF GiveUp
      <4> HIDE DEF rec
      <4> QED BY <1>0, <4>1, <4>2, MoveShape
    <3> QED BY <2>1, <3>1, <3>2 DEF RunThrows
  <2>2. ASSUME Handled(r), out[r] # <<>> PROVE LoopShape'
    <3>1. loop' = [loop EXCEPT ![r] = loop[r]] /\ out' = [out EXCEPT ![r] = Tail(out[r])]
      BY <1>0, <2>2 DEF Handled
    <3>2. /\ Tail(out[r]) \in Seq(Events) /\ Len(Tail(out[r])) = Len(out[r]) - 1
          /\ \A i \in 1..Len(Tail(out[r])) : Tail(out[r])[i] = out[r][i + 1]
          /\ Len(out[r]) \in Nat
      BY <2>0, <2>2, HeadTailProperties, LenProperties
    <3>3. Shape(r)
      BY <1>0 DEF LoopShape
    <3>4. \A i \in 1..Len(Tail(out[r])) : Fits(Tail(out[r])[i], loop[r].pc)
      BY <3>2, <3>3 DEF Shape
    <3> QED BY <1>0, <2>0, <3>1, <3>2, <3>3, <3>4, ShapeKept DEF Shape
  <2>3. CASE StartLoop(r)
    BY <1>0, <2>0, <2>3, StartShape DEF StartLoop
  <2>4. CASE LoopStep(r)
    BY <1>0, <2>4, LoopStepShape
  <2>5. CASE NotifyMessage(r) \/ NotifyPlain(r) \/ SavePoint(r) \/ NotifyAgentEnd(r)
    BY <2>1, <2>2, <2>5 DEF NotifyMessage, NotifyPlain, SavePoint, NotifyAgentEnd, Notified, Handling
  <2>6. CASE \E c \in Calls(r) : EndCall(r, c)
    BY <1>0, <2>1, <2>6, BatchShape DEF EndCall
  <2>7. CASE DrainSteering(r) \/ DrainFollowUps(r)
    BY <1>0, <1>1, <2>0, <2>7, AnswerShape DEF DrainSteering, DrainFollowUps
  <2>8. CASE Drained(r)
    BY <1>0, <2>0, <2>8, AnswerShape DEF Drained
  <2>9. CASE DrainFails(r)
    BY <2>1, <2>9 DEF DrainFails
  <2>10. CASE NextTurnState(r)
    <3>1. Branch \in Seq(Messages)
      BY BranchType DEF HarnessTypes
    <3> QED BY <1>0, <2>0, <2>1, <2>10, <3>1, AnswerShape DEF NextTurnState, NextTurnContext
  <2>11. CASE FinishRun(r)
    <3> DEFINE rec == [Unused EXCEPT !.pc = "dead"]
    <3>1. loop' = [loop EXCEPT ![r] = rec] /\ UNCHANGED out
      BY <2>11 DEF FinishRun, FinishRunAt
    <3>2. rec \in LoopRecord /\ rec.pc = "dead"
      <4>1. <<>> \in Seq(Messages) /\ <<>> \in Seq(CallStatus)
        OBVIOUS
      <4> QED BY <4>1 DEF Unused, LoopRecord, LoopStates
    <3> HIDE DEF rec
    <3>3. out[r] = <<>>
      BY <2>11 DEF FinishRun, FinishRunAt, RunShape
    <3> QED BY <1>0, <2>0, <3>1, <3>2, <3>3, QuietShape
  <2>12. CASE UNCHANGED loopVars \/ CreateTurnState(r) \/ TakeNextTurn(r) \/ NextTurnTaken(r)
              \/ PromptFails(r) \/ FlushWrite(r) \/ FlushWritten(r) \/ FlushEnds(r)
              \/ PersistMessage(r) \/ MessagePersisted(r) \/ NotifyTurnEnd(r) \/ FlushAtEnd(r)
              \/ ReleasePhase(r) \/ PrepareNextTurn(r) \/ EnterFinally(r)
    BY <1>1, <2>12 DEF CreateTurnState, TakeNextTurn, NextTurnTaken, PromptFails, FlushWrite,
         FlushWritten, FlushLeaves, FlushEnds, PersistMessage, MessagePersisted, NotifyTurnEnd,
         FlushAtEnd, ReleasePhase, PrepareNextTurn, EnterFinally
  <2> QED BY <1>2, <2>3, <2>4, <2>5, <2>6, <2>7, <2>8, <2>9, <2>10, <2>11, <2>12 DEF RunStep
<1>3. ASSUME NEW r \in Runs, Prompt(r) PROVE LoopShape'
  BY <1>1, <1>3 DEF Prompt, BeginPrompt
<1>4. CASE Abort
  <2>1. CASE UNCHANGED loopVars
    BY <1>1, <2>1
  <2>2. CASE ~UNCHANGED loopVars
    <3> DEFINE r == runAbortController
               rec == [loop[r] EXCEPT !.aborted = TRUE]
    <3>1. r # NoRun /\ loop' = [loop EXCEPT ![r] = rec] /\ UNCHANGED out
      BY <1>4, <2>2 DEF Abort, AbortRun, loopVars
    <3>2. r \in Runs
      BY <3>1 DEF HarnessTypes, Scalars
    <3> HIDE DEF r
    <3>3. rec \in LoopRecord /\ rec.pc = loop[r].pc /\ rec.ctx = loop[r].ctx
      BY <1>0, <3>2 DEF LoopRecord
    <3>4. out' = [out EXCEPT ![r] = out[r]] /\ out[r] \in Seq(Events)
      BY <1>0, <3>1, <3>2
    <3> QED BY <1>0, <3>1, <3>2, <3>3, <3>4, ShapeKept DEF LoopShape, Shape
  <2> QED BY <2>1, <2>2
<1>5. CASE UNCHANGED vars \/ Steer \/ FollowUp \/ NextTurn \/ DeferWrite \/ WriteIdle
           \/ Compact \/ IdleWritten \/ AppendCompaction \/ CompactEnds \/ AbortWaits
           \/ AbortReturns
  BY <1>1, <1>5 DEF vars, Steer, FollowUp, NextTurn, DeferWrite, PutOff, WriteIdle, WriteNow,
        Compact, IdleWritten, AppendCompaction, AppendSummary, CompactEnds, AbortWaits,
        AbortReturns, AbortOver
<1> QED BY <1>2, <1>3, <1>4, <1>5 DEF Next, ClientStep, Continuations

LEMMA OthersStay ==
  ASSUME HarnessTypes, NEW r \in Runs, RunStep(r)
  PROVE  \A q \in Runs \ {r} :
           frame'[q] = frame[q] /\ loop'[q] = loop[q] /\ out'[q] = out[q]
<1> DEFINE Stay == \A q \in Runs \ {r} :
                     frame'[q] = frame[q] /\ loop'[q] = loop[q] /\ out'[q] = out[q]
<1>0. /\ LoopTypeOK /\ frame \in [Runs -> FrameRecord]
      /\ loop \in [Runs -> LoopRecord] /\ out \in [Runs -> Seq(Events)]
  BY DEF HarnessTypes, LoopShape, LoopTypeOK
<1>1. ASSUME RunThrows(r) PROVE Stay
  BY <1>0, <1>1 DEF RunThrows, ReportFailure, GiveUp
<1>2. ASSUME Handled(r) PROVE Stay
  BY <1>0, <1>2 DEF Handled
<1>3. CASE frame[r].stage = "running" /\ LoopStep(r) /\ UNCHANGED <<frame, otherVars>>
  BY <1>0, <1>3, LoopStepEffect DEF LoopEffect
<1>4. CASE CreateTurnState(r) \/ TakeNextTurn(r) \/ NextTurnTaken(r) \/ PromptFails(r)
  BY <1>0, <1>4 DEF CreateTurnState, TakeNextTurn, NextTurnTaken, PromptFails, loopVars
<1>5. CASE StartLoop(r)
  BY <1>0, <1>5 DEF StartLoop, RunAgentLoop
<1>6. CASE FlushWrite(r) \/ FlushWritten(r) \/ FlushEnds(r) \/ PersistMessage(r)
           \/ MessagePersisted(r) \/ NotifyTurnEnd(r)
  BY <1>0, <1>6 DEF FlushWrite, FlushWritten, FlushLeaves, FlushEnds, PersistMessage,
                    MessagePersisted, NotifyTurnEnd, loopVars
<1>7. CASE FlushAtEnd(r) \/ ReleasePhase(r) \/ PrepareNextTurn(r) \/ EnterFinally(r)
           \/ FinishRun(r)
  BY <1>0, <1>7 DEF FlushAtEnd, ReleasePhase, PrepareNextTurn, EnterFinally, FinishRun,
                    FinishRunAt, loopVars
<1>8. CASE NotifyMessage(r) \/ NotifyPlain(r) \/ SavePoint(r) \/ NotifyAgentEnd(r)
  BY <1>1, <1>2, <1>8 DEF NotifyMessage, NotifyPlain, SavePoint, NotifyAgentEnd, Notified
<1>9. CASE \E c \in Calls(r) : EndCall(r, c)
  BY <1>0, <1>1, <1>9 DEF EndCall, CallEnded
<1>10. CASE DrainSteering(r)
  BY <1>0, <1>10 DEF DrainSteering, SteeringPolled, EnterTurn, loopVars
<1>11. CASE DrainFollowUps(r)
  BY <1>0, <1>11 DEF DrainFollowUps, FollowUpPolled, EnterTurn, loopVars
<1>12. CASE Drained(r)
  BY <1>0, <1>12 DEF Drained, SteeringPolled, FollowUpPolled, EnterTurn
<1>13. CASE DrainFails(r)
  BY <1>1, <1>13 DEF DrainFails
<1>14. CASE NextTurnState(r)
  BY <1>0, <1>1, <1>14 DEF NextTurnState, NextTurnContext, TurnPrepared
<1> QED BY <1>3, <1>4, <1>5, <1>6, <1>7, <1>8, <1>9, <1>10, <1>11, <1>12, <1>13, <1>14
        DEF RunStep

(* The head of what a run awaits fits where its loop is.                     *)
LEMMA HeadFits ==
  ASSUME HarnessTypes, NEW r \in Runs, out[r] # <<>>
  PROVE  /\ Head_(r) = out[r][1] /\ Fits(out[r][1], loop[r].pc)
         /\ Tail(out[r]) \in Seq(Events)
<1>1. out[r] \in Seq(Events)
  BY DEF HarnessTypes, LoopShape, LoopTypeOK
<1>2. 1 \in 1..Len(out[r])
  BY <1>1
<1> QED BY <1>1, <1>2 DEF HarnessTypes, LoopShape, Shape, Head_

LEMMA RunShapeKept ==
  ASSUME HarnessTypes, NEW r \in Runs, RunShape(r), RunStep(r)
  PROVE  RunShape(r)'
<1> DEFINE Fine == RunShape(r)'
<1> USE DEF RunShape
<1>0. /\ LoopTypeOK /\ frame \in [Runs -> FrameRecord]
      /\ loop \in [Runs -> LoopRecord] /\ out \in [Runs -> Seq(Events)]
      /\ frame[r] \in FrameRecord /\ loop[r] \in LoopRecord /\ out[r] \in Seq(Events)
  BY DEF HarnessTypes, LoopShape, LoopTypeOK
<1>1. ASSUME RunThrows(r), frame[r].stage \in {"running", "reporting"} PROVE Fine
  <2>1. CASE ReportFailure(r)
    <3>1. /\ frame'[r].stage = "reporting" /\ frame'[r].step = "new"
          /\ loop'[r].pc = "failing"
      BY <1>0, <2>1 DEF ReportFailure, FrameRecord, LoopRecord
    <3> QED BY <3>1 DEF Before
  <2>2. CASE GiveUp(r, "finally")
    <3>1. /\ frame'[r].stage = "finally" /\ frame'[r].step = "new"
          /\ loop'[r].pc = "dead" /\ out'[r] = <<>>
      BY <1>0, <2>2 DEF GiveUp, FrameRecord, LoopRecord
    <3> QED BY <3>1 DEF Before
  <2> QED BY <1>1, <2>1, <2>2 DEF RunThrows
<1>2. ASSUME Handled(r), out[r] # <<>> PROVE Fine
  <2>1. /\ frame'[r].stage = frame[r].stage /\ frame'[r].step = "new"
        /\ loop'[r].pc = loop[r].pc
    BY <1>0, <1>2 DEF Handled, FrameRecord
  <2> QED BY <1>2, <2>1 DEF Before
<1>3. CASE frame[r].stage = "running" /\ LoopStep(r) /\ UNCHANGED <<frame, otherVars>>
  <2>1. LoopEffect(r) /\ frame' = frame
    BY <1>0, <1>3, LoopStepEffect
  <2> QED BY <1>3, <2>1 DEF LoopEffect, Before
<1>4. CASE CreateTurnState(r) \/ TakeNextTurn(r) \/ NextTurnTaken(r) \/ PromptFails(r)
  <2>1. /\ frame'[r].stage \in Before \cup {"done"} /\ frame'[r].step = frame[r].step
        /\ loop'[r] = loop[r] /\ out'[r] = out[r] /\ frame[r].stage \in Before
    <3>1. CASE CreateTurnState(r)
      BY <1>0, <3>1 DEF CreateTurnState, FrameRecord, Before, loopVars
    <3>2. CASE TakeNextTurn(r)
      BY <1>0, <3>2 DEF TakeNextTurn, FrameRecord, Before, loopVars
    <3>3. CASE NextTurnTaken(r)
      BY <1>0, <3>3 DEF NextTurnTaken, FrameRecord, Before, loopVars
    <3>4. CASE PromptFails(r)
      BY <1>0, <3>4 DEF PromptFails, FrameRecord, Before, NewFrame, loopVars
    <3> QED BY <1>4, <3>1, <3>2, <3>3, <3>4
  <2> QED BY <2>1 DEF Before
<1>5. CASE StartLoop(r)
  <2>1. /\ frame'[r].stage = "running" /\ frame'[r].step = frame[r].step
        /\ loop'[r].pc = "steering" /\ frame[r].stage = "hook"
    BY <1>0, <1>5 DEF StartLoop, RunAgentLoop, Unused, FrameRecord
  <2> QED BY <2>1 DEF Before
<1>6. ASSUME UNCHANGED <<frame, loop, out>> PROVE Fine
  BY <1>6
<1>7. CASE FlushWrite(r) \/ FlushWritten(r)
  BY <1>6, <1>7 DEF FlushWrite, FlushWritten, FlushLeaves, loopVars
<1>8. ASSUME NEW step \in Steps, frame' = [frame EXCEPT ![r].step = step],
             UNCHANGED loopVars, frame[r].stage \in {"running", "reporting"}
      PROVE  /\ frame'[r].stage = frame[r].stage /\ frame'[r].step = step
             /\ loop'[r] = loop[r] /\ out'[r] = out[r]
  BY <1>0, <1>8 DEF FrameRecord, loopVars
<1>9. frame[r].step # "new" \/ out[r] # <<>> \/ (loop[r].pc = "turnEnd" /\ frame[r].stage # "done")
        => frame[r].stage \in {"running", "reporting"}
  BY <1>0 DEF FrameRecord, Stages, Before
<1>10. CASE FlushEnds(r)
  BY <1>8, <1>9, <1>10 DEF FlushEnds, Steps, Before
<1>11. CASE PersistMessage(r)
  BY <1>8, <1>9, <1>11 DEF PersistMessage, Handling, Head_, Steps, Before
<1>12. CASE MessagePersisted(r)
  BY <1>8, <1>9, <1>12 DEF MessagePersisted, Handling, Head_, Steps, Before
<1>13. CASE NotifyTurnEnd(r)
  <2>1. /\ frame'[r].stage = frame[r].stage /\ frame'[r].step = "flush"
        /\ loop'[r] = loop[r] /\ out'[r] = out[r]
        /\ out[r] # <<>> /\ out[r][1].type = "turn_end"
    BY <1>0, <1>13 DEF NotifyTurnEnd, Handling, Head_, FrameRecord, loopVars
  <2>2. loop[r].pc \in {"turnEnd", "ending", "failing"}
    BY <2>1, HeadFits DEF Fits
  <2> QED BY <1>9, <2>1, <2>2 DEF Before
<1>14. CASE FlushAtEnd(r)
  <2>1. /\ frame'[r].stage = frame[r].stage /\ frame'[r].step = "flush"
        /\ loop'[r] = loop[r] /\ out'[r] = out[r]
        /\ out[r] # <<>> /\ out[r][1].type = "agent_end"
    BY <1>0, <1>14 DEF FlushAtEnd, Handling, Head_, FrameRecord, loopVars
  <2>2. loop[r].pc \in {"turnEnd", "ending", "failing"}
    BY <2>1, HeadFits DEF Fits
  <2> QED BY <1>9, <2>1, <2>2 DEF Before
<1>15. CASE ReleasePhase(r)
  BY <1>8, <1>9, <1>15 DEF ReleasePhase, Handling, Head_, Steps, Before
<1>16. CASE PrepareNextTurn(r)
  BY <1>8, <1>9, <1>16 DEF PrepareNextTurn, At, Awaited, Steps, Before
<1>17. CASE NotifyMessage(r) \/ NotifyPlain(r) \/ SavePoint(r) \/ NotifyAgentEnd(r)
  BY <1>1, <1>2, <1>9, <1>17 DEF NotifyMessage, NotifyPlain, SavePoint, NotifyAgentEnd,
                                 Notified, Handling
<1>18. ASSUME NEW c \in Calls(r), EndCall(r, c) PROVE Fine
  <2>1. CASE CallEnded(r, c) /\ UNCHANGED frame
    <3>1. loop'[r].pc = loop[r].pc /\ out'[r] = out[r] /\ frame' = frame
      BY <1>0, <2>1 DEF CallEnded, LoopRecord
    <3> QED BY <3>1
  <2> QED BY <1>1, <1>18, <2>1 DEF EndCall
<1>19. ASSUME NEW msgs, SteeringPolled(r, msgs) \/ FollowUpPolled(r, msgs),
              frame[r].stage = "running",
              frame'[r].stage = frame[r].stage, frame'[r].step = "new"
       PROVE  Fine
  <2>1. loop'[r].pc \in {"stream", "followUp", "ending"}
    BY <1>0, <1>19 DEF SteeringPolled, FollowUpPolled, EnterTurn, LoopRecord
  <2> QED BY <1>19, <2>1 DEF Before
<1>20. loop[r].pc \in {"steering", "followUp"} => frame[r].stage = "running"
  BY <1>0 DEF FrameRecord, Stages, Before
<1>21. ASSUME NEW taken, frame' = [frame EXCEPT ![r].step = "drain", ![r].held = taken],
              UNCHANGED loopVars, out[r] = <<>>, loop[r].pc \in {"steering", "followUp"}
       PROVE  Fine
  <2>1. /\ frame'[r].stage = frame[r].stage /\ frame'[r].step = "drain"
        /\ loop'[r] = loop[r] /\ out'[r] = out[r]
    BY <1>0, <1>21 DEF FrameRecord, loopVars
  <2> QED BY <1>20, <1>21, <2>1 DEF Before
<1>22. CASE DrainSteering(r)
  BY <1>19, <1>20, <1>21, <1>22 DEF DrainSteering, At, Awaited
<1>23. CASE DrainFollowUps(r)
  BY <1>19, <1>20, <1>21, <1>23 DEF DrainFollowUps, At, Awaited
<1>24. CASE Drained(r)
  <2>1. frame'[r].stage = frame[r].stage /\ frame'[r].step = "new"
    BY <1>0, <1>24 DEF Drained, FrameRecord
  <2>2. SteeringPolled(r, frame[r].held) \/ FollowUpPolled(r, frame[r].held)
    BY <1>24 DEF Drained
  <2> QED BY <1>19, <1>20, <1>24, <2>1, <2>2 DEF Drained
<1>25. CASE DrainFails(r)
  BY <1>1, <1>20, <1>25 DEF DrainFails
<1>26. CASE NextTurnState(r)
  <2>1. frame[r].stage \in {"running", "reporting"}
    BY <1>9, <1>26 DEF NextTurnState, NextTurnContext
  <2>2. CASE TurnPrepared(r, Branch) /\ frame' = [frame EXCEPT ![r].step = "new"]
    <3>1. /\ frame'[r].stage = frame[r].stage /\ frame'[r].step = "new"
          /\ loop'[r].pc = "steering" /\ out' = out /\ loop[r].pc = "turnEnd"
      BY <1>0, <2>2 DEF TurnPrepared, At, FrameRecord, LoopRecord
    <3> QED BY <2>1, <3>1 DEF Before
  <2> QED BY <1>1, <1>26, <2>1, <2>2 DEF NextTurnState, NextTurnContext
<1>27. CASE EnterFinally(r)
  <2>1. /\ frame'[r].stage = "finally" /\ frame'[r].step = frame[r].step
        /\ loop'[r] = loop[r] /\ out'[r] = out[r]
    BY <1>0, <1>27 DEF EnterFinally, FrameRecord, loopVars
  <2> QED BY <1>27, <2>1 DEF EnterFinally, At, Awaited, Before
<1>28. CASE FinishRun(r)
  <2>1. /\ frame'[r].stage = "done" /\ frame'[r].step = "new"
        /\ loop'[r].pc = "dead" /\ out'[r] = out[r] /\ frame[r].stage = "finally"
    BY <1>0, <1>28 DEF FinishRun, FinishRunAt, FrameRecord, NewFrame, Unused
  <2> QED BY <2>1 DEF Before
<1> QED BY <1>3, <1>4, <1>5, <1>7, <1>10, <1>11, <1>12, <1>13, <1>14, <1>15, <1>16, <1>17, <1>18,
           <1>22, <1>23, <1>24, <1>25, <1>26, <1>27, <1>28 DEF RunStep

TypesInv == HarnessTypes /\ \A r \in Runs : RunShape(r)

LEMMA TypesInit == Init => TypesInv
<1> SUFFICES ASSUME Init PROVE TypesInv
  OBVIOUS
<1>0. \A S : <<>> \in Seq(S)
  OBVIOUS
<1>1. LoopShape
  <2>1. Unused \in LoopRecord
    BY <1>0 DEF Unused, LoopRecord, LoopStates
  <2>2. \A r \in Runs : loop[r] = Unused /\ out[r] = <<>>
    BY DEF Init, LoopInit
  <2>3. loop \in [Runs -> LoopRecord] /\ out \in [Runs -> Seq(Events)]
    BY <1>0, <2>1 DEF Init, LoopInit
  <2>4. \A r \in Runs : Shape(r)
    BY <2>2 DEF Shape, Unused
  <2> QED BY <2>3, <2>4 DEF LoopShape, LoopTypeOK
<1>2. Scalars
  BY DEF Init, Scalars
<1>3. QueueTypes
  BY <1>0 DEF Init, QueueTypes
<1>4. StoreTypes
  <2>1. NoIO \in [m : Messages \cup {NoMessage}, parent : Nat]
    BY DEF NoIO
  <2>2. io \in [Actors -> [m : Messages \cup {NoMessage}, parent : Nat]]
    BY <2>1 DEF Init
  <2>3. \A a \in Actors : io[a] = NoIO
    BY DEF Init
  <2> QED BY <1>0, <2>2, <2>3 DEF Init, StoreTypes
<1>5. frame \in [Runs -> FrameRecord]
  <2>1. NewFrame \in FrameRecord
    BY <1>0 DEF NewFrame, FrameRecord, Stages, Steps
  <2> QED BY <2>1 DEF Init
<1>6. \A r \in Runs : RunShape(r)
  <2>1. \A r \in Runs : frame[r] = NewFrame /\ loop[r] = Unused /\ out[r] = <<>>
    BY DEF Init, LoopInit
  <2> QED BY <2>1 DEF RunShape, NewFrame, Unused, Before
<1> QED BY <1>1, <1>2, <1>3, <1>4, <1>5, <1>6 DEF TypesInv, HarnessTypes

LEMMA TypesStep == TypesInv /\ [Next]_vars => TypesInv'
<1> SUFFICES ASSUME TypesInv, [Next]_vars PROVE TypesInv'
  OBVIOUS
<1>0. /\ HarnessTypes /\ \A r \in Runs : RunShape(r)
      /\ frame \in [Runs -> FrameRecord] /\ loop \in [Runs -> LoopRecord]
      /\ out \in [Runs -> Seq(Events)] /\ runAbortController \in Runs \cup {NoRun}
  BY DEF TypesInv, HarnessTypes, LoopShape, LoopTypeOK, Scalars
<1>1. HarnessTypes'
  BY <1>0, ScalarsKept, QueuesKept, StoreKept, FrameKept, LoopKept DEF HarnessTypes
<1>2. ASSUME NEW q \in Runs PROVE RunShape(q)'
  <2>0. RunShape(q) /\ frame[q] \in FrameRecord /\ loop[q] \in LoopRecord
    BY <1>0
  <2>1. ASSUME NEW r \in Runs, RunStep(r) PROVE RunShape(q)'
    <3>1. CASE q = r
      BY <1>0, <2>1, <3>1, RunShapeKept
    <3>2. CASE q # r
      BY <1>0, <2>0, <2>1, <3>2, OthersStay DEF RunShape
    <3> QED BY <3>1, <3>2
  <2>2. ASSUME NEW r \in Runs, Prompt(r) PROVE RunShape(q)'
    <3>1. /\ frame[r].stage = "unused" /\ UNCHANGED <<loop, out>>
          /\ q # r => frame'[q] = frame[q]
          /\ q = r => frame'[q].stage = "snapshot" /\ frame'[q].step = frame[q].step
      BY <1>0, <2>0, <2>2 DEF Prompt, BeginPrompt, loopVars, FrameRecord
    <3> QED BY <2>0, <3>1 DEF RunShape, Before
  <2>3. CASE Abort
    <3>1. /\ frame'[q].stage = frame[q].stage /\ frame'[q].step = frame[q].step
          /\ out' = out
      BY <1>0, <2>0, <2>3 DEF Abort, AbortRun, FrameRecord
    <3>2. loop'[q].pc = loop[q].pc
      BY <1>0, <2>0, <2>3 DEF Abort, AbortRun, LoopRecord
    <3> QED BY <2>0, <3>1, <3>2 DEF RunShape
  <2>4. CASE UNCHANGED <<frame, loop, out>>
    BY <2>0, <2>4 DEF RunShape
  <2>5. CASE UNCHANGED vars \/ Steer \/ FollowUp \/ NextTurn \/ DeferWrite \/ WriteIdle
             \/ Compact \/ IdleWritten \/ AppendCompaction \/ CompactEnds \/ AbortWaits
             \/ AbortReturns
    BY <2>4, <2>5 DEF vars, Steer, FollowUp, NextTurn, DeferWrite, PutOff, WriteIdle, WriteNow,
          Compact, IdleWritten, AppendCompaction, AppendSummary, CompactEnds, AbortWaits,
          AbortReturns, AbortOver, loopVars
  <2> QED BY <2>1, <2>2, <2>3, <2>5 DEF Next, ClientStep, Continuations
<1> QED BY <1>1, <1>2 DEF TypesInv

LEMMA TypesGive == TypesInv => TypeOK
<1> SUFFICES ASSUME TypesInv PROVE TypeOK
  OBVIOUS
<1>1. Inputs \subseteq Messages /\ Writes \subseteq Messages
  BY DEF Inputs, Writes
<1>2. /\ steerQueue \in Seq(Messages) /\ followUpQueue \in Seq(Messages)
      /\ nextTurnQueue \in Seq(Messages) /\ pendingSessionWrites \in Seq(Messages)
  BY <1>1, SeqMonotonic DEF TypesInv, HarnessTypes, QueueTypes
<1>3. frame \in [Runs -> Frame]
  <2>1. Seq(Inputs) \subseteq Seq(Messages)
    BY <1>1, SeqMonotonic
  <2>2. \A f \in FrameRecord : f \in Frame
    BY <2>1 DEF FrameRecord, Frame
  <2> QED BY <2>2 DEF TypesInv, HarnessTypes
<1>4. leaf \in Nat
  BY DEF TypesInv, HarnessTypes, StoreTypes
<1> QED BY <1>2, <1>3, <1>4
        DEF TypeOK, TypesInv, HarnessTypes, LoopShape, Scalars, StoreTypes

(* TypeOK: type correctness of the harness's fields, queues and session,     *)
(* whatever the callers and the hooks do.                                    *)
THEOREM HarnessTypeCorrect == Spec => []TypeOK
<1>1. Spec => []TypesInv
  BY TypesInit, TypesStep, PTL DEF Spec
<1> QED BY <1>1, TypesGive, PTL

-----------------------------------------------------------------------------
(* The batches of the runs.                                                  *)

LEMMA BatchKept ==
  ASSUME TypesInv, NEW r \in Runs, Batch(r), RunStep(r)
  PROVE  Batch(r)'
<1>0. /\ LoopShape /\ LoopTypeOK /\ frame \in [Runs -> FrameRecord]
      /\ loop \in [Runs -> LoopRecord] /\ out \in [Runs -> Seq(Events)]
      /\ HarnessTypes /\ RunShape(r)
  BY DEF TypesInv, HarnessTypes, LoopShape, LoopTypeOK
<1>1. ASSUME RunThrows(r) PROVE Batch(r)'
  <2>1. loop'[r].pc \in {"failing", "dead"}
    BY <1>0, <1>1 DEF RunThrows, ReportFailure, GiveUp, LoopRecord
  <2> QED BY <2>1, BatchFailed
<1>2. ASSUME Handled(r), out[r] # <<>> PROVE Batch(r)'
  <2>1. loop'[r] = loop[r] /\ out'[r] = Tail(out[r])
    BY <1>0, <1>2 DEF Handled
  <2> QED BY <1>0, <1>2, <2>1, BatchHandled
<1>3. ASSUME UNCHANGED loopVars PROVE Batch(r)'
  BY <1>3, BatchUnchanged DEF loopVars
<1>4. CASE StartLoop(r)
  BY <1>0, <1>4, BatchTurns DEF StartLoop
<1>5. CASE LoopStep(r)
  BY <1>0, <1>5, LoopStepBatch
<1>6. CASE \E c \in Calls(r) : EndCall(r, c)
  BY <1>0, <1>1, <1>6, BatchSteps DEF EndCall
<1>7. CASE DrainSteering(r) \/ DrainFollowUps(r)
  BY <1>0, <1>3, <1>7, BatchTurns DEF DrainSteering, DrainFollowUps
<1>8. CASE Drained(r)
  BY <1>0, <1>8, BatchTurns DEF Drained
<1>9. CASE DrainFails(r)
  BY <1>1, <1>9 DEF DrainFails
<1>10. CASE NextTurnState(r)
  BY <1>0, <1>1, <1>10, BatchTurns DEF NextTurnState, NextTurnContext
<1>11. CASE NotifyMessage(r) \/ NotifyPlain(r) \/ SavePoint(r) \/ NotifyAgentEnd(r)
  BY <1>1, <1>2, <1>11 DEF NotifyMessage, NotifyPlain, SavePoint, NotifyAgentEnd, Notified,
                           Handling
<1>12. CASE FinishRun(r)
  <2>1. loop'[r].pc = "dead"
    BY <1>0, <1>12 DEF FinishRun, FinishRunAt, Unused
  <2> QED BY <2>1, BatchFailed
<1>13. CASE CreateTurnState(r) \/ TakeNextTurn(r) \/ NextTurnTaken(r)
            \/ PromptFails(r) \/ FlushWrite(r) \/ FlushWritten(r) \/ FlushEnds(r)
            \/ PersistMessage(r) \/ MessagePersisted(r) \/ NotifyTurnEnd(r) \/ FlushAtEnd(r)
            \/ ReleasePhase(r) \/ PrepareNextTurn(r) \/ EnterFinally(r)
  BY <1>3, <1>13 DEF CreateTurnState, TakeNextTurn, NextTurnTaken, PromptFails, FlushWrite,
       FlushWritten, FlushLeaves, FlushEnds, PersistMessage, MessagePersisted, NotifyTurnEnd,
       FlushAtEnd, ReleasePhase, PrepareNextTurn, EnterFinally
<1> QED BY <1>4, <1>5, <1>6, <1>7, <1>8, <1>9, <1>10, <1>11, <1>12, <1>13 DEF RunStep

-----------------------------------------------------------------------------
(* What a step of a run may do to the lock, the run promise, the stage of    *)
(* its frame and the append it has under way.                                *)

(* A run appends a message it is handling, or the writes it flushes.         *)
RunAppends(r) == io[r] # NoIO => frame[r].step = "append" \/ Flushing(r)

LockEffect(r) ==
  /\ r \in Live /\ frame'[r].stage # "unused"
  /\ UNCHANGED <<compact, aborting>>
  /\ \/ /\ UNCHANGED <<phase, runPromise>>
        /\ frame'[r].stage # "done"
        /\ frame'[r].stage \in Before => frame[r].stage \in Before
     \/ /\ phase' = "idle" /\ UNCHANGED <<runPromise, loop>>
        /\ frame'[r].stage = frame[r].stage /\ loop[r].pc \in {"ending", "failing"}
     \/ runPromise' = NoRun /\ phase' \in {phase, "idle"} /\ frame'[r].stage = "done"

LEMMA RunStepLock ==
  ASSUME TypesInv, NEW r \in Runs, RunStep(r)
  PROVE  LockEffect(r)
<1> USE DEF LockEffect
<1>0. /\ frame \in [Runs -> FrameRecord] /\ loop \in [Runs -> LoopRecord]
      /\ out \in [Runs -> Seq(Events)] /\ frame[r] \in FrameRecord /\ loop[r] \in LoopRecord
      /\ HarnessTypes /\ RunShape(r)
  BY DEF TypesInv, HarnessTypes, LoopShape, LoopTypeOK
<1>1. ASSUME frame[r].stage \in {"running", "reporting"}, UNCHANGED <<harnessVars, callVars>>,
             frame'[r].stage \in {"running", "reporting", "finally"}
      PROVE  LockEffect(r)
  BY <1>1 DEF Live, harnessVars, callVars, Before
<1>2. frame[r].step # "new" \/ out[r] # <<>> \/ loop[r].pc \in {"steering", "followUp", "turnEnd"}
        => frame[r].stage \in {"running", "reporting"}
  BY <1>0 DEF FrameRecord, Stages, Before, RunShape
<1>3. ASSUME RunThrows(r) PROVE frame'[r].stage \in {"running", "reporting", "finally"}
  BY <1>0, <1>3 DEF RunThrows, ReportFailure, GiveUp, FrameRecord
<1>4. ASSUME Notified(r) \/ RunThrows(r) \/ Handled(r), frame[r].stage \in {"running", "reporting"}
      PROVE  frame'[r].stage \in {"running", "reporting", "finally"}
  BY <1>0, <1>3, <1>4 DEF Notified, Handled, FrameRecord
<1>5. ASSUME NEW step, frame' = [frame EXCEPT ![r].step = step]
      PROVE  frame'[r].stage = frame[r].stage
  BY <1>0, <1>5 DEF FrameRecord
<1>6. CASE CreateTurnState(r) \/ TakeNextTurn(r) \/ NextTurnTaken(r)
  <2>1. /\ frame'[r].stage \in Before \ {"unused"} /\ frame[r].stage \in Before \ {"unused"}
        /\ UNCHANGED <<harnessVars, callVars>>
    <3>1. CASE CreateTurnState(r)
      BY <1>0, <3>1 DEF CreateTurnState, FrameRecord, Before, otherVars
    <3>2. CASE TakeNextTurn(r)
      BY <1>0, <3>2 DEF TakeNextTurn, FrameRecord, Before
    <3>3. CASE NextTurnTaken(r)
      BY <1>0, <3>3 DEF NextTurnTaken, FrameRecord, Before, otherVars
    <3> QED BY <1>6, <3>1, <3>2, <3>3
  <2> QED BY <2>1 DEF Live, harnessVars, callVars, Before
<1>7. CASE StartLoop(r)
  <2>1. frame'[r].stage = "running" /\ frame[r].stage = "hook"
    BY <1>0, <1>7 DEF StartLoop, FrameRecord
  <2> QED BY <1>7, <2>1 DEF StartLoop, Live, callVars, Before
<1>8. CASE PromptFails(r)
  BY <1>0, <1>8 DEF PromptFails, Live, callVars, NewFrame
<1>9. CASE frame[r].stage = "running" /\ LoopStep(r) /\ UNCHANGED <<frame, otherVars>>
  BY <1>1, <1>9 DEF otherVars
<1>10. CASE FlushWrite(r) \/ FlushWritten(r)
  <2>1. frame' = frame /\ UNCHANGED <<harnessVars, callVars>> /\ Flushing(r)
    BY <1>10 DEF FlushWrite, FlushWritten, FlushLeaves
  <2>2. CASE frame[r].step = "flush"
    BY <1>1, <1>2, <2>1, <2>2
  <2>3. CASE frame[r].stage = "finally"
    BY <2>1, <2>3 DEF Live, harnessVars, callVars, Before
  <2> QED BY <2>1, <2>2, <2>3 DEF Flushing
<1>11. CASE FlushEnds(r) \/ PersistMessage(r) \/ MessagePersisted(r) \/ FlushAtEnd(r)
            \/ PrepareNextTurn(r)
  BY <1>1, <1>2, <1>5, <1>11 DEF FlushEnds, PersistMessage, MessagePersisted, FlushAtEnd,
       PrepareNextTurn, Handling, At, otherVars
<1>12. CASE NotifyMessage(r) \/ NotifyPlain(r) \/ SavePoint(r) \/ NotifyAgentEnd(r)
  BY <1>1, <1>2, <1>4, <1>12 DEF NotifyMessage, NotifyPlain, SavePoint, NotifyAgentEnd,
       Handling, otherVars
<1>13. CASE NotifyTurnEnd(r)
  <2>1. frame'[r].stage = frame[r].stage
    BY <1>0, <1>13 DEF NotifyTurnEnd, FrameRecord
  <2> QED BY <1>1, <1>2, <1>13, <2>1 DEF NotifyTurnEnd, Handling, otherVars
<1>14. CASE ReleasePhase(r)
  <2>1. /\ phase' = "idle" /\ UNCHANGED <<runPromise, loop, compact, aborting>>
        /\ frame'[r].stage = frame[r].stage
    BY <1>5, <1>14 DEF ReleasePhase, loopVars, callVars
  <2>2. loop[r].pc \in {"ending", "failing"}
    <3>1. out[r] # <<>> /\ out[r][1].type = "agent_end"
      BY <1>14 DEF ReleasePhase, Handling, Head_
    <3> QED BY <1>0, <3>1, HeadFits DEF Fits
  <2>3. frame[r].stage \in {"running", "reporting"}
    BY <1>2, <1>14 DEF ReleasePhase, Handling
  <2> QED BY <2>1, <2>2, <2>3 DEF Live
<1>15. ASSUME NEW c \in Calls(r), EndCall(r, c) PROVE LockEffect(r)
  BY <1>1, <1>4, <1>15 DEF EndCall, otherVars
<1>16. CASE DrainSteering(r) \/ DrainFollowUps(r)
  <2>1. UNCHANGED <<harnessVars, callVars>> /\ loop[r].pc \in {"steering", "followUp", "turnEnd"}
    BY <1>16 DEF DrainSteering, DrainFollowUps, At
  <2>2. frame'[r].stage = frame[r].stage
    <3>1. ASSUME NEW taken, frame' = [frame EXCEPT ![r].step = "drain", ![r].held = taken]
          PROVE  frame'[r].stage = frame[r].stage
      BY <1>0, <3>1 DEF FrameRecord
    <3> QED BY <1>16, <3>1 DEF DrainSteering, DrainFollowUps
  <2> QED BY <1>1, <1>2, <2>1, <2>2
<1>17. CASE Drained(r)
  <2>1. frame'[r].stage = frame[r].stage
    BY <1>0, <1>17 DEF Drained, FrameRecord
  <2> QED BY <1>1, <1>2, <1>17, <2>1 DEF Drained, otherVars
<1>18. CASE DrainFails(r)
  BY <1>1, <1>2, <1>4, <1>18 DEF DrainFails, callVars
<1>19. CASE NextTurnState(r)
  BY <1>1, <1>2, <1>4, <1>5, <1>19 DEF NextTurnState, NextTurnContext, otherVars
<1>20. CASE EnterFinally(r)
  <2>1. frame'[r].stage = "finally"
    BY <1>0, <1>20 DEF EnterFinally, FrameRecord
  <2> QED BY <1>1, <1>20, <2>1 DEF EnterFinally, otherVars
<1>21. CASE FinishRun(r)
  BY <1>0, <1>21 DEF FinishRun, FinishRunAt, NewFrame, Live, callVars
<1> QED BY <1>6, <1>7, <1>8, <1>9, <1>10, <1>11, <1>12, <1>13, <1>14, <1>15, <1>16, <1>17,
           <1>18, <1>19, <1>20, <1>21 DEF RunStep

(* A loop that is over stays over.                                           *)
Over == {"ending", "returned", "failing", "dead"}

LEMMA OverForGood ==
  ASSUME TypesInv, NEW r \in Runs, RunStep(r), loop[r].pc \in Over
  PROVE  loop'[r].pc \in Over
<1> USE DEF Over
<1>0. LoopTypeOK /\ loop \in [Runs -> LoopRecord]
  BY DEF TypesInv, HarnessTypes, LoopShape, LoopTypeOK
<1>1. ASSUME RunThrows(r) PROVE loop'[r].pc \in Over
  BY <1>0, <1>1 DEF RunThrows, ReportFailure, GiveUp, LoopRecord
<1>2. ASSUME UNCHANGED loop PROVE loop'[r].pc \in Over
  BY <1>2
<1>3. CASE LoopStep(r)
  BY <1>0, <1>3, LoopStepEffect DEF LoopEffect
<1>4. CASE \E c \in Calls(r) : EndCall(r, c)
  <2>1. ASSUME NEW c, CallEnded(r, c) PROVE loop'[r].pc \in Over
    BY <1>0, <2>1 DEF CallEnded, LoopRecord
  <2> QED BY <1>1, <1>4, <2>1 DEF EndCall
<1>5. CASE NotifyMessage(r) \/ NotifyPlain(r) \/ SavePoint(r) \/ NotifyAgentEnd(r)
           \/ DrainFails(r) \/ NextTurnState(r)
  BY <1>1, <1>2, <1>5 DEF NotifyMessage, NotifyPlain, SavePoint, NotifyAgentEnd, DrainFails,
       NextTurnState, NextTurnContext, At, Notified, Handled
<1>6. CASE FinishRun(r)
  BY <1>0, <1>6 DEF FinishRun, FinishRunAt, Unused
<1>7. CASE StartLoop(r) \/ DrainSteering(r) \/ DrainFollowUps(r) \/ Drained(r)
  BY <1>7 DEF StartLoop, RunAgentLoop, DrainSteering, DrainFollowUps, Drained, SteeringPolled,
              FollowUpPolled, At
<1>8. CASE CreateTurnState(r) \/ TakeNextTurn(r) \/ NextTurnTaken(r)
            \/ PromptFails(r) \/ FlushWrite(r) \/ FlushWritten(r) \/ FlushEnds(r)
            \/ PersistMessage(r) \/ MessagePersisted(r) \/ NotifyTurnEnd(r) \/ FlushAtEnd(r)
            \/ ReleasePhase(r) \/ PrepareNextTurn(r) \/ EnterFinally(r)
  BY <1>2, <1>8 DEF CreateTurnState, TakeNextTurn, NextTurnTaken, PromptFails, FlushWrite,
       FlushWritten, FlushLeaves, FlushEnds, PersistMessage, MessagePersisted, NotifyTurnEnd,
       FlushAtEnd, ReleasePhase, PrepareNextTurn, EnterFinally, loopVars
<1> QED BY <1>3, <1>4, <1>5, <1>6, <1>7, <1>8 DEF RunStep

LEMMA RunAppendsKept ==
  ASSUME TypesInv, NEW r \in Runs, Batch(r), RunAppends(r), RunStep(r)
  PROVE  RunAppends(r)' /\ \A a \in Actors \ {r} : io'[a] = io[a]
<1> DEFINE Fine == RunAppends(r)' /\ \A a \in Actors \ {r} : io'[a] = io[a]
<1>0. /\ frame \in [Runs -> FrameRecord] /\ frame[r] \in FrameRecord
      /\ HarnessTypes /\ RunShape(r) /\ LoopTypeOK /\ r \in Actors
      /\ io \in [Actors -> [m : Messages \cup {NoMessage}, parent : Nat]]
  BY DEF TypesInv, HarnessTypes, LoopShape, LoopTypeOK, StoreTypes, Actors
<1>1. ASSUME io' = io, io[r] = NoIO \/ (frame[r].step \notin {"append", "flush"}
                                         /\ frame[r].stage # "finally")
      PROVE  Fine
  BY <1>1 DEF RunAppends, Flushing
<1>2. ASSUME io' = io, frame' = frame PROVE Fine
  BY <1>2 DEF RunAppends, Flushing
<1>3. frame[r].step # "new" \/ out[r] # <<>> \/ loop[r].pc \in {"steering", "followUp", "turnEnd"}
        => frame[r].stage \in {"running", "reporting"}
  BY <1>0 DEF FrameRecord, Stages, Before, RunShape
<1>4. CASE CreateTurnState(r) \/ TakeNextTurn(r) \/ NextTurnTaken(r) \/ StartLoop(r)
           \/ PromptFails(r)
  BY <1>0, <1>1, <1>4 DEF CreateTurnState, TakeNextTurn, NextTurnTaken, StartLoop, PromptFails,
                          otherVars, storeVars, RunShape
<1>5. CASE frame[r].stage = "running" /\ LoopStep(r) /\ UNCHANGED <<frame, otherVars>>
  BY <1>2, <1>5 DEF otherVars, storeVars
<1>6. CASE FlushWrite(r)
  BY <1>0, <1>6 DEF FlushWrite, BeginAppend, RunAppends, Flushing
<1>7. CASE FlushWritten(r) \/ MessagePersisted(r)
  <2>1. io' = [io EXCEPT ![r] = NoIO]
    BY <1>7 DEF FlushWritten, FlushLeaves, MessagePersisted, CommitAppend
  <2> QED BY <1>0, <2>1 DEF RunAppends
<1>8. CASE PersistMessage(r)
  <2>1. frame'[r].step = "append"
    BY <1>0, <1>8 DEF PersistMessage, FrameRecord
  <2> QED BY <1>0, <1>8, <2>1 DEF PersistMessage, BeginAppend, RunAppends
<1>9. CASE FlushEnds(r) \/ FinishRun(r)
  BY <1>1, <1>9 DEF FlushEnds, FinishRun, FinishRunAt, Flushed, otherVars, storeVars
<1>10. CASE NotifyMessage(r) \/ NotifyPlain(r) \/ NotifyTurnEnd(r) \/ SavePoint(r)
            \/ FlushAtEnd(r) \/ ReleasePhase(r) \/ NotifyAgentEnd(r)
  BY <1>1, <1>3, <1>10 DEF NotifyMessage, NotifyPlain, NotifyTurnEnd, SavePoint, FlushAtEnd,
       ReleasePhase, NotifyAgentEnd, Handling, otherVars, storeVars
<1>11. CASE DrainSteering(r) \/ DrainFollowUps(r) \/ Drained(r) \/ DrainFails(r)
            \/ PrepareNextTurn(r) \/ NextTurnState(r)
  BY <1>1, <1>3, <1>11 DEF DrainSteering, DrainFollowUps, Drained, DrainFails, PrepareNextTurn,
       NextTurnState, NextTurnContext, At, otherVars, storeVars
<1>12. CASE EnterFinally(r)
  <2>1. frame[r].step = "new" /\ frame[r].stage # "finally"
    BY <1>0, <1>12 DEF EnterFinally, RunShape
  <2> QED BY <1>1, <1>12, <2>1 DEF EnterFinally, otherVars, storeVars
<1>13. ASSUME NEW c \in Calls(r), EndCall(r, c) PROVE Fine
  <2>1. CASE UNCHANGED frame
    BY <1>2, <1>13, <2>1 DEF EndCall, otherVars, storeVars
  <2>2. CASE c \in With(r, {"ending"})
    <3>1. frame[r].stage = "running" /\ loop[r].pc \notin {"failing", "dead"}
      BY <1>0, <1>13 DEF EndCall, RunShape
    <3>2. frame[r].step # "append"
      <4>1. c \in With(r, {"running", "ending"})
        BY <2>2 DEF With
      <4> QED BY <1>0, <3>1, <4>1, QuietBatch DEF RunShape
    <3>3. frame[r].step # "flush"
      <4>1. SUFFICES ASSUME frame[r].step = "flush" PROVE FALSE
        OBVIOUS
      <4>2. loop[r].calls = <<>>
        BY <1>0, <3>1, <4>1 DEF RunShape, Batch, NoCalls, BatchStates
      <4> QED BY <1>13, <4>2 DEF Calls
    <3> QED BY <1>1, <1>13, <3>1, <3>2, <3>3 DEF EndCall, otherVars, storeVars
  <2> QED BY <1>13, <2>1, <2>2 DEF EndCall
<1> QED BY <1>4, <1>5, <1>6, <1>7, <1>8, <1>9, <1>10, <1>11, <1>12, <1>13 DEF RunStep

-----------------------------------------------------------------------------
(* When callers wait, the lock of the harness really is one.                 *)

OneRun == \A r, s \in Live : r = s /\ runPromise = r

InTurn == \A r \in Live :
  loop[r].pc \notin Over => phase = "turn"

Compacting == /\ compact.at # "none" => phase = "compaction"
              /\ phase = "compaction" => Live = {}

OthersAppend == /\ io[Client] # NoIO => phase = "idle" /\ Live = {}
                /\ io[Compactor] # NoIO => compact.at = "append"

Waiters == /\ \A r \in aborting.live : frame[r].stage # "unused"
           /\ aborting.at = "wait" => aborting.live \cap Live \subseteq {aborting.on}
           /\ aborting.at = "returned" => aborting.live \cap Live = {}

Locked == OneRun /\ InTurn /\ Compacting /\ OthersAppend /\ Waiters

Steady == TypesInv /\ (\A r \in Runs : Batch(r) /\ RunAppends(r))

(* A step of the run that holds the lock.                                    *)
LEMMA LockedByRun ==
  ASSUME Steady, Locked, NEW r \in Runs, RunStep(r)
  PROVE  Locked'
<1>0. /\ LockEffect(r) /\ Client \in Actors \ {r} /\ Compactor \in Actors \ {r}
      /\ \A a \in Actors \ {r} : io'[a] = io[a]
      /\ HarnessTypes /\ RunShape(r) /\ RunShape(r)'
  BY RunStepLock, RunAppendsKept, ActorsDiffer, RunShapeKept
     DEF Steady, Actors, TypesInv
<1>1. \A q \in Runs \ {r} : frame'[q] = frame[q] /\ loop'[q] = loop[q]
  BY <1>0, OthersStay
<1>2. Live' \subseteq Live /\ Live = {r} /\ runPromise = r
  BY <1>0, <1>1 DEF Live, LockEffect, Locked, OneRun
<1>3. OneRun'
  BY <1>0, <1>2 DEF OneRun, LockEffect, Live
<1>4. InTurn'
  <2>1. SUFFICES ASSUME r \in Live', loop'[r].pc \notin Over
                 PROVE  phase' = "turn"
    BY <1>2 DEF InTurn
  <2>2. frame'[r].stage # "done" /\ loop[r].pc \notin Over
    BY <2>1, OverForGood DEF Live, Steady
  <2>3. phase' = phase
    BY <1>0, <2>1, <2>2 DEF LockEffect, Over
  <2> QED BY <1>2, <2>2, <2>3 DEF Locked, InTurn
<1>5. Compacting'
  BY <1>0, <1>2 DEF Compacting, Locked, LockEffect
<1>6. OthersAppend'
  BY <1>0, <1>2 DEF OthersAppend, Locked, LockEffect
<1>7. Waiters'
  <2>1. \A q \in Runs : frame[q].stage # "unused" => frame'[q].stage # "unused"
    BY <1>0, <1>1 DEF LockEffect
  <2> QED BY <1>0, <1>2, <2>1 DEF Waiters, Locked, LockEffect, TypesInv, HarnessTypes, Scalars
<1> QED BY <1>3, <1>4, <1>5, <1>6, <1>7 DEF Locked

LEMMA SteadyStep == Steady /\ [Next]_vars => Steady'
<1> SUFFICES ASSUME Steady, [Next]_vars PROVE Steady'
  OBVIOUS
<1>0. /\ HarnessTypes /\ \A r \in Runs : RunShape(r)
      /\ frame \in [Runs -> FrameRecord] /\ loop \in [Runs -> LoopRecord]
      /\ io \in [Actors -> [m : Messages \cup {NoMessage}, parent : Nat]]
      /\ Runs \subseteq Actors
  BY DEF Steady, TypesInv, HarnessTypes, LoopShape, LoopTypeOK, StoreTypes, Actors
<1>1. TypesInv'
  BY TypesStep DEF Steady
<1>2. ASSUME NEW q \in Runs PROVE Batch(q)' /\ RunAppends(q)'
  <2>0. Batch(q) /\ RunAppends(q) /\ frame[q] \in FrameRecord /\ loop[q] \in LoopRecord
    BY <1>0 DEF Steady
  <2>1. ASSUME UNCHANGED loopVars, frame'[q].stage = frame[q].stage,
               frame'[q].step = frame[q].step, io'[q] = io[q]
        PROVE  Batch(q)' /\ RunAppends(q)'
    BY <2>0, <2>1, BatchUnchanged DEF loopVars, RunAppends, Flushing
  <2>2. ASSUME NEW r \in Runs, RunStep(r) PROVE Batch(q)' /\ RunAppends(q)'
    <3>1. CASE q = r
      BY <2>0, <2>2, <3>1, BatchKept, RunAppendsKept DEF Steady
    <3>2. CASE q # r
      <4>1. frame'[q] = frame[q] /\ loop'[q] = loop[q] /\ out'[q] = out[q] /\ io'[q] = io[q]
        BY <1>0, <2>2, <3>2, OthersStay, RunAppendsKept DEF Steady
      <4> QED BY <2>0, <4>1, BatchUnchanged DEF RunAppends, Flushing
    <3> QED BY <3>1, <3>2
  <2>3. ASSUME NEW r \in Runs, Prompt(r) PROVE Batch(q)' /\ RunAppends(q)'
    <3>1. q # r => frame'[q] = frame[q]
      BY <1>0, <2>3 DEF Prompt, BeginPrompt
    <3>2. UNCHANGED loopVars /\ io' = io
      BY <2>3 DEF Prompt, BeginPrompt, storeVars
    <3>3. CASE q = r
      <4>1. frame[q].step = "new" /\ frame[q].stage # "finally"
        BY <1>0, <2>3, <3>3 DEF Prompt, BeginPrompt, RunShape
      <4>2. io'[q] = NoIO
        BY <2>0, <3>2, <4>1 DEF RunAppends, Flushing
      <4> QED BY <2>0, <3>2, <4>2, BatchUnchanged DEF RunAppends, loopVars
    <3> QED BY <2>1, <3>1, <3>2, <3>3
  <2>4. CASE Abort
    <3>1. /\ frame'[q].stage = frame[q].stage /\ frame'[q].step = frame[q].step
          /\ out' = out /\ io' = io
      BY <1>0, <2>0, <2>4 DEF Abort, AbortRun, FrameRecord, storeVars
    <3>2. /\ loop'[q].pc = loop[q].pc /\ loop'[q].calls = loop[q].calls
          /\ loop'[q].ctx = loop[q].ctx /\ loop'[q].mode = loop[q].mode
      BY <1>0, <2>0, <2>4 DEF Abort, AbortRun, LoopRecord
    <3> QED BY <2>0, <3>1, <3>2, BatchUnchanged DEF RunAppends, Flushing
  <2>5. ASSUME NEW a \in Actors \ Runs, NEW v, io' = [io EXCEPT ![a] = v],
               UNCHANGED <<loopVars, frame>>
        PROVE  Batch(q)' /\ RunAppends(q)'
    BY <1>0, <2>1, <2>5
  <2>6. Client \in Actors \ Runs /\ Compactor \in Actors \ Runs
    BY ActorsDiffer DEF Actors
  <2>7. CASE WriteIdle \/ IdleWritten
    BY <2>5, <2>6, <2>7 DEF WriteIdle, WriteNow, BeginAppend, IdleWritten, CommitAppend
  <2>8. CASE AppendCompaction
    BY <2>5, <2>6, <2>8 DEF AppendCompaction, AppendSummary
  <2>9. CASE CompactEnds
    BY <2>1, <2>5, <2>6, <2>9 DEF CompactEnds, CommitAppend
  <2>10. CASE UNCHANGED vars \/ Steer \/ FollowUp \/ NextTurn \/ DeferWrite
              \/ Compact \/ AbortWaits \/ AbortReturns
    BY <2>1, <2>10 DEF vars, Steer, FollowUp, NextTurn, DeferWrite, PutOff,
          Compact, AbortWaits, AbortReturns, AbortOver, storeVars, otherVars
  <2> QED BY <2>2, <2>3, <2>4, <2>7, <2>8, <2>9, <2>10 DEF Next, ClientStep, Continuations
<1> QED BY <1>1, <1>2 DEF Steady

LEMMA SteadyInit == Init => Steady
<1> SUFFICES ASSUME Init PROVE Steady
  OBVIOUS
<1>1. \A r \in Runs : loop[r] = Unused /\ out[r] = <<>> /\ io[r] = NoIO
  BY DEF Init, LoopInit, Actors
<1>2. \A r \in Runs : Batch(r)
  BY <1>1 DEF Batch, NoCalls, Asked, Joined, OneByOne, Together, BatchOver, Silent, BatchStates,
              Unused
<1> QED BY <1>1, <1>2, TypesInit DEF Steady, RunAppends

LEMMA LockedStep ==
  ASSUME ~Overlap
  PROVE  Steady /\ Locked /\ [Next]_vars => Locked'
<1> SUFFICES ASSUME Steady, Locked, [Next]_vars PROVE Locked'
  OBVIOUS
<1>0. /\ frame \in [Runs -> FrameRecord] /\ loop \in [Runs -> LoopRecord]
      /\ io \in [Actors -> [m : Messages \cup {NoMessage}, parent : Nat]]
      /\ Client \in Actors /\ Compactor \in Actors /\ Client # Compactor
      /\ compact \in [at : {"none", "summary", "append"}, calls : Nat]
      /\ aborting \in [at : {"none", "update", "wait", "returned"},
                       on : Runs \cup {NoRun}, live : SUBSET Runs]
      /\ \A r \in Runs : frame[r].stage = "unused" => loop[r].pc = "unused"
  BY ActorsDiffer DEF Steady, TypesInv, HarnessTypes, LoopShape, LoopTypeOK, StoreTypes, Actors,
     Scalars, RunShape, Before, Client, Compactor
<1>1. OneRun /\ InTurn /\ Compacting /\ OthersAppend /\ Waiters
  BY DEF Locked
<1>2. ASSUME NEW r \in Runs, RunStep(r) PROVE Locked'
  BY <1>2, LockedByRun
<1>3. ASSUME NEW r \in Runs, Prompt(r) PROVE Locked'
  <2>1. /\ phase = "idle" /\ phase' = "turn" /\ runPromise' = r /\ Live = {}
        /\ \A a \in Actors : io[a] = NoIO
        /\ frame[r].stage = "unused" /\ UNCHANGED <<loop, io, compact, aborting>>
    BY <1>3 DEF Prompt, BeginPrompt, CallersWait, loopVars, storeVars, callVars
  <2>2. \A q \in Runs : IF q = r THEN frame'[q].stage = "snapshot" ELSE frame'[q] = frame[q]
    BY <1>0, <1>3 DEF Prompt, BeginPrompt, FrameRecord
  <2>3. Live' = {r}
    BY <2>1, <2>2 DEF Live
  <2>4. OneRun' /\ InTurn' /\ OthersAppend' /\ Compacting'
    BY <1>0, <1>1, <2>1, <2>3 DEF OneRun, InTurn, OthersAppend, Compacting
  <2>5. Waiters'
    <3>1. r \notin aborting.live
      BY <1>1, <2>1 DEF Waiters
    <3>2. aborting.live \subseteq Runs
      BY <1>0
    <3> QED BY <1>1, <2>1, <2>2, <2>3, <3>1, <3>2 DEF Waiters
  <2> QED BY <2>4, <2>5 DEF Locked
<1>4. ASSUME \A q \in Runs : frame'[q].stage = frame[q].stage, UNCHANGED loop,
             UNCHANGED <<phase, runPromise, io, compact, aborting>>
      PROVE  Locked'
  <2>1. Live' = Live
    BY <1>4 DEF Live
  <2>2. aborting.live \subseteq Runs
    BY <1>0
  <2> QED BY <1>1, <1>4, <2>1, <2>2 DEF Locked, OneRun, InTurn, Compacting, OthersAppend, Waiters
<1>5. CASE UNCHANGED vars \/ Steer \/ FollowUp \/ NextTurn \/ DeferWrite
  BY <1>4, <1>5 DEF vars, Steer, FollowUp, NextTurn, DeferWrite, PutOff, otherVars, loopVars,
                    harnessVars, storeVars, callVars
<1>6. CASE WriteIdle
  <2>1. /\ phase = "idle" /\ Live = {} /\ UNCHANGED <<frame, loop, phase, runPromise, compact, aborting>>
        /\ \A a \in Actors \ {Client} : io'[a] = io[a]
    BY <1>0, <1>6 DEF WriteIdle, WriteNow, CallersWait, BeginAppend, loopVars, harnessVars,
                      callVars
  <2>2. Live' = Live
    BY <2>1 DEF Live
  <2> QED BY <1>0, <1>1, <2>1, <2>2 DEF Locked, OneRun, InTurn, Compacting, OthersAppend, Waiters
<1>7. CASE IdleWritten
  <2>1. /\ UNCHANGED <<frame, loop, phase, runPromise, compact, aborting>>
        /\ io' = [io EXCEPT ![Client] = NoIO]
    BY <1>7 DEF IdleWritten, CommitAppend, loopVars, harnessVars, callVars
  <2>2. Live' = Live
    BY <2>1 DEF Live
  <2> QED BY <1>0, <1>1, <2>1, <2>2 DEF Locked, OneRun, InTurn, Compacting, OthersAppend, Waiters
<1>8. CASE Compact
  <2>1. /\ phase = "idle" /\ Live = {} /\ phase' = "compaction"
        /\ UNCHANGED <<frame, loop, runPromise, io, aborting>>
        /\ \A a \in Actors : io[a] = NoIO
    BY <1>8 DEF Compact, CallersWait, loopVars, storeVars
  <2>2. Live' = Live
    BY <2>1 DEF Live
  <2> QED BY <1>0, <1>1, <2>1, <2>2 DEF Locked, OneRun, InTurn, Compacting, OthersAppend, Waiters
<1>9. CASE AppendCompaction
  <2>1. /\ UNCHANGED <<frame, loop, phase, runPromise, aborting>>
        /\ compact.at = "summary" /\ compact'.at = "append"
        /\ \A a \in Actors \ {Compactor} : io'[a] = io[a]
    BY <1>0, <1>9 DEF AppendCompaction, AppendSummary, loopVars, harnessVars
  <2>2. Live' = Live
    BY <2>1 DEF Live
  <2> QED BY <1>0, <1>1, <2>1, <2>2 DEF Locked, OneRun, InTurn, Compacting, OthersAppend, Waiters
<1>10. CASE CompactEnds
  <2>1. /\ UNCHANGED <<frame, loop, runPromise, aborting>> /\ phase' = "idle"
        /\ compact.at # "none" /\ compact'.at = "none"
        /\ io'[Compactor] = NoIO /\ io'[Client] = io[Client]
    BY <1>0, <1>1, <1>10 DEF CompactEnds, CommitAppend, loopVars, OthersAppend
  <2>2. Live' = Live /\ Live = {}
    BY <1>1, <2>1 DEF Live, Compacting
  <2> QED BY <1>0, <1>1, <2>1, <2>2 DEF Locked, OneRun, InTurn, Compacting, OthersAppend, Waiters
<1>11. CASE Abort
  <2>1. /\ UNCHANGED <<phase, runPromise, compact, io>>
        /\ \A q \in Runs : frame'[q].stage = frame[q].stage
        /\ \A q \in Runs : loop'[q].pc = loop[q].pc
        /\ aborting' = [at |-> "update", on |-> NoRun, live |-> Live]
    BY <1>0, <1>11 DEF Abort, AbortRun, FrameRecord, LoopRecord, storeVars, harnessVars
  <2>2. Live' = Live
    BY <2>1 DEF Live
  <2>3. aborting'.at = "update" /\ aborting'.live = Live
    BY <2>1
  <2>4. \A r \in Live : frame[r].stage # "unused" /\ r \in Runs
    BY DEF Live
  <2> QED BY <1>1, <2>1, <2>2, <2>3, <2>4 DEF Locked, OneRun, InTurn, Compacting, OthersAppend, Waiters
<1>12. CASE AbortWaits \/ AbortReturns
  <2>1. /\ UNCHANGED <<frame, loop, phase, runPromise, compact, io>>
        /\ aborting'.live = aborting.live
        /\ aborting'.at = "wait" => aborting'.on = runPromise
        /\ aborting'.at = "returned" =>
              aborting.at = "wait" /\ aborting.on \notin Live
    <3>1. CASE AbortWaits
      BY <1>0, <3>1 DEF AbortWaits, loopVars, harnessVars, storeVars
    <3>2. CASE AbortReturns
      BY <1>0, <3>2, ActorsDiffer DEF AbortReturns, AbortOver, loopVars, harnessVars, storeVars, Live
    <3> QED BY <1>12, <3>1, <3>2
  <2>2. Live' = Live
    BY <2>1 DEF Live
  <2> QED BY <1>1, <2>1, <2>2 DEF Locked, OneRun, InTurn, Compacting, OthersAppend, Waiters
<1> QED BY <1>2, <1>3, <1>5, <1>6, <1>7, <1>8, <1>9, <1>10, <1>11, <1>12
        DEF Next, ClientStep, Continuations

LEMMA LockedInit == Init => Locked
<1> SUFFICES ASSUME Init PROVE Locked
  OBVIOUS
<1>1. Live = {}
  BY DEF Init, Live, NewFrame
<1>2. \A a \in Actors : io[a] = NoIO
  BY DEF Init
<1>3. Client \in Actors /\ Compactor \in Actors
  BY DEF Actors
<1> QED BY <1>1, <1>2, <1>3
        DEF Init, Locked, OneRun, InTurn, Compacting, OthersAppend, Waiters

LEMMA LockedAlways == ASSUME ~Overlap PROVE Spec => [](Steady /\ Locked)
<1>1. Init => Steady /\ Locked
  BY SteadyInit, LockedInit
<1>2. Steady /\ Locked /\ [Next]_vars => (Steady /\ Locked)'
  BY SteadyStep, LockedStep
<1> QED BY <1>1, <1>2, PTL DEF Spec

LEMMA LockedGives == Steady /\ Locked => PhaseGuardsTheLoop /\ AbortIsBarrier
<1> SUFFICES ASSUME Steady, Locked PROVE PhaseGuardsTheLoop /\ AbortIsBarrier
  OBVIOUS
<1>1. Working # {} => phase = "turn"
  BY DEF Working, Locked, InTurn, Over
<1>2. Cardinality(Working) <= 1
  <2>1. \A r, s \in Working : r = s
    BY DEF Working, Locked, OneRun
  <2>2. CASE Working = {}
    <3>1. Cardinality(Working) = 0
      BY <2>2, FS_EmptySet
    <3> QED BY <3>1
  <2>3. CASE Working # {}
    <3>1. PICK r \in Working : TRUE
      BY <2>3
    <3>2. Working = {r}
      BY <2>1, <3>1
    <3>3. Cardinality(Working) = 1
      BY <3>2, FS_Singleton
    <3> QED BY <3>3
  <2> QED BY <2>2, <2>3
<1>3. AbortIsBarrier
  BY DEF AbortIsBarrier, Locked, Waiters
<1> QED BY <1>1, <1>2, <1>3 DEF PhaseGuardsTheLoop

(* PhaseGuardsTheLoop: prompt(), compact() and a write that finds the        *)
(* harness idle take the phase; no two of them are ever at work together.    *)
THEOREM PhaseIsALock == ASSUME ~Overlap PROVE Spec => []PhaseGuardsTheLoop
BY LockedAlways, LockedGives, PTL

(* AbortIsBarrier: when abort() returns, every run that was live when it was *)
(* called is over, because the phase kept the next run from starting and     *)
(* replacing the promise that abort() waits for.                             *)
THEOREM AbortWaitsForTheRun == ASSUME ~Overlap PROVE Spec => []AbortIsBarrier
BY LockedAlways, LockedGives, PTL

-----------------------------------------------------------------------------
(***************************************************************************)
(* What a harness writes: the session is one line of messages, the context *)
(* of a run is what it has persisted followed by what it has yet to        *)
(* announce, and the results of tool calls follow the message that asked   *)
(* for them.                                                               *)
(***************************************************************************)

-----------------------------------------------------------------------------
(* Who appends.                                                              *)

LEMMA OneAppends ==
  ASSUME Steady, Locked, NEW a \in Actors, NEW b \in Actors, io[a] # NoIO, io[b] # NoIO
  PROVE  a = b
<1>1. \A r \in Runs : io[r] # NoIO => r \in Live
  BY DEF Steady, TypesInv, RunShape, RunAppends, Flushing, Live, Before
<1>2. io[Client] # NoIO => phase = "idle" /\ Live = {}
  BY DEF Locked, OthersAppend
<1>3. io[Compactor] # NoIO => phase = "compaction" /\ Live = {}
  BY DEF Locked, OthersAppend, Compacting
<1>4. \A r, s \in Live : r = s
  BY DEF Locked, OneRun
<1> QED BY <1>1, <1>2, <1>3, <1>4 DEF Actors

(* What a step does to the session.                                          *)
LEMMA StoreStep ==
  ASSUME [Next]_vars
  PROVE  \/ UNCHANGED <<log, leaf, io>>
         \/ \E a \in Actors : \E m : BeginAppend(a, m) /\ UNCHANGED <<log, leaf>>
         \/ \E a \in Actors : CommitAppend(a)
<1> DEFINE Fine == \/ UNCHANGED <<log, leaf, io>>
                   \/ \E a \in Actors : \E m : BeginAppend(a, m) /\ UNCHANGED <<log, leaf>>
                   \/ \E a \in Actors : CommitAppend(a)
<1>0. Client \in Actors /\ Compactor \in Actors /\ Runs \subseteq Actors
  BY DEF Actors
<1>1. ASSUME NEW r \in Runs, RunStep(r) PROVE Fine
  <2>1. CASE FlushWrite(r) \/ PersistMessage(r)
    BY <1>0, <2>1 DEF FlushWrite, PersistMessage
  <2>2. CASE FlushWritten(r) \/ MessagePersisted(r)
    BY <1>0, <2>2 DEF FlushWritten, FlushLeaves, MessagePersisted
  <2>3. CASE CreateTurnState(r) \/ NextTurnTaken(r) \/ NotifyMessage(r) \/ NotifyPlain(r)
             \/ NotifyTurnEnd(r) \/ SavePoint(r) \/ FlushAtEnd(r) \/ NotifyAgentEnd(r)
             \/ (\E c \in Calls(r) : EndCall(r, c)) \/ Drained(r) \/ PrepareNextTurn(r)
             \/ NextTurnState(r) \/ EnterFinally(r) \/ FlushEnds(r)
             \/ (UNCHANGED otherVars)
    BY <2>3 DEF CreateTurnState, NextTurnTaken, NotifyMessage, NotifyPlain, NotifyTurnEnd,
         SavePoint, FlushAtEnd, NotifyAgentEnd, EndCall, Drained, PrepareNextTurn, NextTurnState,
         NextTurnContext, EnterFinally, FlushEnds, otherVars, storeVars
  <2>4. CASE TakeNextTurn(r) \/ PromptFails(r) \/ StartLoop(r) \/ ReleasePhase(r)
             \/ FinishRun(r) \/ DrainSteering(r) \/ DrainFollowUps(r) \/ DrainFails(r)
    BY <2>4 DEF TakeNextTurn, PromptFails, StartLoop, ReleasePhase, FinishRun, FinishRunAt,
         DrainSteering, DrainFollowUps, DrainFails, storeVars
  <2> QED BY <1>1, <2>1, <2>2, <2>3, <2>4 DEF RunStep
<1>2. CASE WriteIdle
  BY <1>0, <1>2 DEF WriteIdle, WriteNow
<1>3. CASE AppendCompaction
  BY <1>0, <1>3 DEF AppendCompaction, AppendSummary, BeginAppend
<1>4. CASE IdleWritten \/ CompactEnds
  BY <1>0, <1>4 DEF IdleWritten, CompactEnds
<1>5. ASSUME NEW r \in Runs, Prompt(r) PROVE Fine
  BY <1>5 DEF Prompt, BeginPrompt, storeVars
<1>6. CASE UNCHANGED vars \/ Steer \/ FollowUp \/ NextTurn \/ DeferWrite \/ Compact \/ Abort
           \/ AbortWaits \/ AbortReturns
  BY <1>6 DEF vars, otherVars, Steer, FollowUp, NextTurn, DeferWrite, PutOff, Compact, Abort,
              AbortRun, AbortWaits, AbortReturns, AbortOver, storeVars
<1> QED BY <1>1, <1>2, <1>3, <1>4, <1>5, <1>6 DEF Next, ClientStep, Continuations

-----------------------------------------------------------------------------
(* The session is one line.                                                  *)

Linear ==
  /\ leaf = Len(log)
  /\ \A i \in 1..Len(log) : log[i].parent = i - 1
  /\ \A a \in Actors : io[a] # NoIO => io[a].parent = Len(log)

LEMMA LinearStep == Steady /\ Locked /\ Linear /\ [Next]_vars => Linear'
<1> SUFFICES ASSUME Steady, Locked, Linear, [Next]_vars PROVE Linear'
  OBVIOUS
<1>0. /\ log \in Seq([m : Messages, parent : Nat]) /\ Len(log) \in Nat
      /\ io \in [Actors -> [m : Messages \cup {NoMessage}, parent : Nat]]
      /\ \A a \in Actors : io[a] # NoIO => io[a] \in [m : Messages, parent : Nat]
  BY DEF Steady, TypesInv, HarnessTypes, StoreTypes
<1>1. CASE UNCHANGED <<log, leaf, io>>
  BY <1>1 DEF Linear
<1>2. ASSUME NEW a \in Actors, NEW m, BeginAppend(a, m), UNCHANGED <<log, leaf>> PROVE Linear'
  BY <1>0, <1>2 DEF Linear, BeginAppend
<1>3. ASSUME NEW a \in Actors, CommitAppend(a) PROVE Linear'
  <2>1. /\ io[a] # NoIO /\ io' = [io EXCEPT ![a] = NoIO] /\ leaf' = Len(log) + 1
        /\ log' = Append(log, io[a]) /\ io[a] \in [m : Messages, parent : Nat]
        /\ io[a].parent = Len(log)
    BY <1>0, <1>3 DEF CommitAppend, Linear
  <2>2. \A b \in Actors : io'[b] = NoIO
    BY <1>0, <2>1, OneAppends
  <2>3. /\ Len(log') = Len(log) + 1 /\ \A i \in 1..Len(log) : log'[i] = log[i]
        /\ log'[Len(log) + 1] = io[a]
    BY <1>0, <2>1, AppendProperties
  <2>4. \A i \in 1..Len(log') : log'[i].parent = i - 1
    BY <1>0, <2>1, <2>3 DEF Linear
  <2> QED BY <2>1, <2>2, <2>3, <2>4 DEF Linear
<1> QED BY <1>1, <1>2, <1>3, StoreStep

(* What buildContext returns, then, is what was appended, in order.          *)
Transcript == [i \in 1..Len(log) |-> log[i].m]

LEMMA TranscriptType ==
  ASSUME StoreTypes
  PROVE  Transcript \in Seq(Messages) /\ Len(Transcript) = Len(log)
<1>1. Len(log) \in Nat /\ \A i \in 1..Len(log) : log[i].m \in Messages
  <2>1. \A i \in 1..Len(log) : log[i] \in [m : Messages, parent : Nat]
    BY ElementOfSeq DEF StoreTypes
  <2> QED BY <2>1 DEF StoreTypes
<1> QED BY <1>1 DEF Transcript

LEMMA BranchIsTranscript ==
  ASSUME StoreTypes, Linear
  PROVE  Branch = Transcript
<1> DEFINE n == Len(log)
           f == Solution(log)
           line(k) == [i \in 1..k |-> log[i].m]
           T == {k \in 0..n : f[k] # line(k)}
<1>1. n \in Nat /\ \A i \in 1..n : log[i].parent = i - 1 /\ log[i].m \in Messages
  <2>1. n \in Nat /\ \A i \in 1..n : log[i] \in [m : Messages, parent : Nat]
    BY ElementOfSeq, LenProperties DEF StoreTypes
  <2> QED BY <2>1 DEF Linear
<1>2. IsPath(f, log, n)
  BY PathExists DEF Solution, StoreTypes
<1> HIDE DEF n, f
<1>3. ASSUME T # {} PROVE FALSE
  <2>1. PICK k \in T : \A j \in T : k <= j
    <3>1. T \in SUBSET Nat
      BY <1>1
    <3> HIDE DEF T
    <3> QED BY <1>3, <3>1, HasMinimum
  <2>2. k # 0
    <3>1. f[0] = <<>>
      BY <1>1, <1>2 DEF IsPath
    <3>2. line(0) = <<>>
      OBVIOUS
    <3> QED BY <2>1, <3>1, <3>2
  <2>3. k \in 1..n /\ k - 1 \in 0..n /\ log[k].parent = k - 1 /\ log[k].m \in Messages
    BY <1>1, <2>1, <2>2
  <2>4. f[k - 1] = line(k - 1)
    BY <2>1, <2>3
  <2>5. f[k] = Append(line(k - 1), log[k].m)
    <3> HIDE DEF line
    <3> QED BY <1>2, <2>1, <2>2, <2>3, <2>4 DEF IsPath
  <2>6. Append(line(k - 1), log[k].m) = line(k)
    <3>1. line(k - 1) \in Seq(Messages) /\ Len(line(k - 1)) = k - 1 /\ line(k) \in Seq(Messages)
          /\ Len(line(k)) = k
      <4>1. \A i \in 1..k : log[i].m \in Messages
        BY <1>1, <2>3
      <4> QED BY <1>1, <2>3, <4>1
    <3> DEFINE s == Append(line(k - 1), log[k].m)
    <3>2. s \in Seq(Messages) /\ Len(s) = k /\ s[k] = log[k].m
          /\ \A i \in 1..(k - 1) : s[i] = line(k - 1)[i]
      <4> HIDE DEF line
      <4>1. (k - 1) + 1 = k
        BY <2>3
      <4> QED BY <2>3, <3>1, <4>1, AppendProperties
    <3>3. \A i \in 1..k : s[i] = line(k)[i]
      <4> HIDE DEF s
      <4> QED BY <2>3, <3>2
    <3> HIDE DEF s, line
    <3>4. s = line(k)
      BY <3>1, <3>2, <3>3, SeqEqual
    <3> QED BY <3>4 DEF s
  <2> QED BY <2>1, <2>5, <2>6
<1>4. f[n] = line(n)
  <2>1. n \notin T
    <3> HIDE DEF T
    <3> QED BY <1>3
  <2>2. n \in 0..n
    BY <1>1
  <2> HIDE DEF line
  <2> QED BY <2>1, <2>2
<1> QED BY <1>4, BranchIsSolution DEF f, n, Linear, Transcript

LEMMA TranscriptGrows ==
  ASSUME StoreTypes, NEW a \in Actors, CommitAppend(a)
  PROVE  Transcript' = Append(Transcript, io[a].m) /\ io[a].m \in Messages
<1>1. /\ log \in Seq([m : Messages, parent : Nat]) /\ Len(log) \in Nat
      /\ io[a] \in [m : Messages, parent : Nat] /\ log' = Append(log, io[a])
  BY DEF CommitAppend, StoreTypes
<1>2. Len(log') = Len(log) + 1 /\ (\A i \in 1..Len(log) : log'[i] = log[i])
      /\ log'[Len(log) + 1] = io[a] /\ io[a].m \in Messages
  BY <1>1, AppendProperties
<1>3. Transcript \in Seq(Messages) /\ Len(Transcript) = Len(log)
  BY TranscriptType
<1> DEFINE s == Append(Transcript, io[a].m)
<1>4. s \in Seq(Messages) /\ Len(s) = Len(log) + 1 /\ s[Len(log) + 1] = io[a].m
      /\ \A i \in 1..Len(log) : s[i] = Transcript[i]
  BY <1>1, <1>2, <1>3, AppendProperties
<1>5. Transcript' \in Seq(Messages) /\ Len(Transcript') = Len(log) + 1
  <2>1. \A i \in 1..Len(log') : log'[i].m \in Messages
    <3>1. \A i \in 1..Len(log) : log[i].m \in Messages
      <4>1. \A i \in 1..Len(log) : log[i] \in [m : Messages, parent : Nat]
        BY <1>1, ElementOfSeq
      <4> QED BY <4>1
    <3> QED BY <1>1, <1>2, <3>1
  <2> QED BY <1>1, <1>2, <2>1 DEF Transcript
<1>6. \A i \in 1..(Len(log) + 1) : Transcript'[i] = s[i]
  <2> HIDE DEF s
  <2>1. \A i \in 1..(Len(log) + 1) : Transcript'[i] = log'[i].m
    BY <1>2 DEF Transcript
  <2>2. \A i \in 1..Len(log) : Transcript[i] = log[i].m
    BY DEF Transcript
  <2> QED BY <1>1, <1>2, <1>4, <2>1, <2>2
<1> HIDE DEF s
<1>7. Transcript' = s
  BY <1>4, <1>5, <1>6, SeqEqual
<1> QED BY <1>2, <1>7 DEF s

-----------------------------------------------------------------------------
(* What a run has said is the session, and the messages it still announces.  *)

(* The events that announce rest, from the next one on: with something that  *)
(* opens them, in the middle of a message, or with one event to be told yet. *)
Announced(r, rest) ==
  \/ frame[r].step \in {"new", "drain"} /\ out[r] = MessageEvents(rest)
  \/ /\ frame[r].step = "new"
     /\ \E e \in Openers : out[r] = <<e>> \o MessageEvents(rest)
  \/ /\ frame[r].step \in {"new", "append"} /\ rest # <<>>
     /\ out[r] = <<MessageEvent("message_end", rest[1])>> \o MessageEvents(Tail(rest))
  \/ /\ frame[r].step = "notify"
     /\ \E e \in Events : out[r] = <<e>> \o MessageEvents(rest)

InStep(r) == \E rest \in Seq(Messages) : Said(r) = Transcript \o rest /\ Announced(r, rest)

InUse(r) == frame[r].stage = "running" /\ loop[r].pc \in CtxStates

(* The snapshot a prompt starts from is the session.                         *)
SnapIsSession(r) ==
  frame[r].stage \in {"queue", "queueUpdate", "hook"} => frame[r].snap = Transcript

(* What is being persisted is the message whose end is announced.            *)
PersistsHead(r) == io[r] # NoIO /\ frame[r].step = "append" => io[r].m = out[r][1].msg

Faithful(r) == SnapIsSession(r) /\ (InUse(r) => InStep(r)) /\ PersistsHead(r)

LEMMA OpenersAre == \A e \in Openers : e \in Events /\ e.type \in {"turn_start", "tool_execution_start"}
BY EventShapes DEF Openers, EventTypes, Event, CallEvent

(* With nothing announced, everything said is in the session.                *)
LEMMA CaughtUp ==
  ASSUME LoopTypeOK, StoreTypes, NEW r \in Runs, InStep(r), out[r] = <<>>
  PROVE  Said(r) = Transcript
<1>1. PICK rest \in Seq(Messages) : Said(r) = Transcript \o rest /\ Announced(r, rest)
  BY DEF InStep
<1>2. \A e \in Events, s \in Seq(Messages) : <<e>> \o MessageEvents(s) # <<>>
  BY EventsAfter, MessageEventsAre
<1>3. rest # <<>> => Tail(rest) \in Seq(Messages) /\ rest[1] \in Messages
  BY EventsOfSome
<1>4. MessageEvents(rest) = <<>>
  <2>1. rest # <<>> => MessageEvent("message_end", rest[1]) \in Events
    BY <1>3, EventShapes DEF EventTypes
  <2> QED BY <1>1, <1>2, <1>3, <2>1, OpenersAre DEF Announced
<1>5. rest = <<>>
  BY <1>4, EventsOfSome
<1> QED BY <1>1, <1>5, TranscriptType, ConcatEmptySeq

LEMMA InStepStays ==
  ASSUME NEW r \in Runs, InStep(r), Said(r)' = Said(r), Transcript' = Transcript,
         out'[r] = out[r], frame'[r].step = frame[r].step
  PROVE  InStep(r)'
<1>1. PICK rest \in Seq(Messages) : Said(r) = Transcript \o rest /\ Announced(r, rest)
  BY DEF InStep
<1>2. Announced(r, rest)'
  BY <1>1 DEF Announced
<1> QED BY <1>1, <1>2 DEF InStep

(* The loop says more when everything is announced.                          *)
LEMMA InStepSays ==
  ASSUME LoopTypeOK, StoreTypes, NEW r \in Runs, InStep(r), NEW msgs \in Seq(Messages),
         Says(r, msgs), Transcript' = Transcript, frame'[r].step = "new"
  PROVE  InStep(r)'
<1>1. Said(r)' = Transcript' \o msgs
  BY CaughtUp DEF Says
<1>2. Announced(r, msgs)'
  BY DEF Says, Announced
<1> QED BY <1>1, <1>2 DEF InStep

(* The handling of the events of messages.                                   *)
LEMMA InStepPersists ==
  ASSUME LoopTypeOK, StoreTypes, NEW r \in Runs, InStep(r), out[r] # <<>>,
         out[r][1].type = "message_end", frame[r].step = "new", frame'[r].step = "append",
         out'[r] = out[r], Said(r)' = Said(r), Transcript' = Transcript
  PROVE  InStep(r)'
<1>1. PICK rest \in Seq(Messages) : Said(r) = Transcript \o rest /\ Announced(r, rest)
  BY DEF InStep
<1>2. ASSUME out[r] = MessageEvents(rest) PROVE FALSE
  <2>1. rest # <<>>
    BY <1>2, EventsOfNone
  <2>2. out[r][1] = MessageEvent("message_start", rest[1])
    BY <1>2, <2>1, EventsOfSome
  <2> QED BY <2>2 DEF MessageEvent
<1>3. ASSUME NEW e \in Openers, out[r] = <<e>> \o MessageEvents(rest) PROVE FALSE
  <2>1. out[r][1] = e
    BY <1>3, OpenersAre, EventsAfter, MessageEventsAre
  <2> QED BY <2>1, OpenersAre
<1>4. rest # <<>> /\ out[r] = <<MessageEvent("message_end", rest[1])>> \o MessageEvents(Tail(rest))
  BY <1>1, <1>2, <1>3 DEF Announced
<1>5. Announced(r, rest)'
  BY <1>4 DEF Announced
<1> QED BY <1>1, <1>5 DEF InStep

LEMMA InStepPersisted ==
  ASSUME LoopTypeOK, StoreTypes, NEW r \in Runs, InStep(r), frame[r].step = "append",
         frame'[r].step = "notify", out'[r] = out[r], Said(r)' = Said(r),
         Transcript' = Append(Transcript, out[r][1].msg)
  PROVE  InStep(r)'
<1>1. PICK rest \in Seq(Messages) : Said(r) = Transcript \o rest /\ Announced(r, rest)
  BY DEF InStep
<1> DEFINE e == MessageEvent("message_end", rest[1])
           t == Tail(rest)
           m == rest[1]
<1>2. rest # <<>> /\ out[r] = <<e>> \o MessageEvents(t)
  BY <1>1 DEF Announced
<1>3. m \in Messages /\ t \in Seq(Messages) /\ rest = <<m>> \o t
  BY <1>2, EventsOfSome
<1>4. e \in Events /\ e.msg = m
  BY <1>3, EventShapes DEF EventTypes, MessageEvent
<1> HIDE DEF e, t, m
<1>5. out[r][1] = e
  BY <1>2, <1>3, <1>4, EventsAfter, MessageEventsAre
<1>6. Transcript \in Seq(Messages)
  BY TranscriptType
<1>7. Transcript' = Transcript \o <<m>>
  BY <1>3, <1>4, <1>5, <1>6, AppendIsConcat
<1>8. Said(r)' = Transcript' \o t
  <2>1. <<m>> \in Seq(Messages)
    BY <1>3
  <2> DEFINE h == <<m>>  u == Transcript
  <2>2. Said(r) = u \o (h \o t) /\ Transcript' = u \o h
    BY <1>1, <1>3, <1>7
  <2>4. u \in Seq(Messages) /\ h \in Seq(Messages) /\ t \in Seq(Messages)
    BY <1>3, <1>6, <2>1
  <2> HIDE DEF h, u
  <2>3. (u \o h) \o t = u \o (h \o t)
    BY <2>4, ConcatAssociative
  <2> QED BY <2>2, <2>3
<1>9. Announced(r, t)'
  BY <1>2, <1>4 DEF Announced
<1> QED BY <1>3, <1>8, <1>9 DEF InStep

LEMMA InStepHandled ==
  ASSUME LoopTypeOK, StoreTypes, NEW r \in Runs, InStep(r), out[r] # <<>>,
         \/ frame[r].step = "notify"
         \/ frame[r].step = "new" /\ out[r][1].type # "message_end",
         frame'[r].step = "new", out'[r] = Tail(out[r]), Said(r)' = Said(r),
         Transcript' = Transcript
  PROVE  InStep(r)'
<1>1. PICK rest \in Seq(Messages) : Said(r) = Transcript \o rest /\ Announced(r, rest)
  BY DEF InStep
<1>2. ASSUME NEW e \in Events, out[r] = <<e>> \o MessageEvents(rest) PROVE InStep(r)'
  <2>1. out'[r] = MessageEvents(rest)
    BY <1>2, EventsAfter, MessageEventsAre
  <2>2. Announced(r, rest)'
    BY <2>1 DEF Announced
  <2> QED BY <1>1, <2>2 DEF InStep
<1>3. ASSUME out[r] = MessageEvents(rest) PROVE InStep(r)'
  <2>1. rest # <<>>
    BY <1>3, EventsOfNone
  <2>2. out'[r] = <<MessageEvent("message_end", rest[1])>> \o MessageEvents(Tail(rest))
    BY <1>3, <2>1, EventsOfSome
  <2>3. Announced(r, rest)'
    BY <2>1, <2>2 DEF Announced
  <2> QED BY <1>1, <2>3 DEF InStep
<1>4. ASSUME rest # <<>>, frame[r].step = "new",
             out[r] = <<MessageEvent("message_end", rest[1])>> \o MessageEvents(Tail(rest))
      PROVE  FALSE
  <2> DEFINE e == MessageEvent("message_end", rest[1])
             t == Tail(rest)
  <2>1. e \in Events /\ e.type = "message_end" /\ t \in Seq(Messages)
    BY <1>4, EventsOfSome, EventShapes DEF EventTypes, MessageEvent
  <2>2. out[r] = <<e>> \o MessageEvents(t)
    BY <1>4
  <2> HIDE DEF e, t
  <2>3. out[r][1] = e
    BY <2>1, <2>2, EventsAfter, MessageEventsAre
  <2> QED BY <1>4, <2>1, <2>3
<1> QED BY <1>1, <1>2, <1>3, <1>4, OpenersAre DEF Announced

(* A step of the run.                                                        *)
LEMMA FaithfulRun ==
  ASSUME Steady, Locked, Linear, NEW r \in Runs, Faithful(r), RunStep(r)
  PROVE  Faithful(r)'
<1> DEFINE Prelude == {"queue", "queueUpdate", "hook"}
<1>0. /\ frame \in [Runs -> FrameRecord] /\ loop \in [Runs -> LoopRecord]
      /\ out \in [Runs -> Seq(Events)] /\ io \in [Actors -> [m : Messages \cup {NoMessage}, parent : Nat]]
      /\ frame[r] \in FrameRecord /\ loop[r] \in LoopRecord /\ out[r] \in Seq(Events)
      /\ HarnessTypes /\ RunShape(r) /\ LoopShape /\ LoopTypeOK /\ StoreTypes /\ Batch(r)
      /\ r \in Actors
  BY DEF Steady, TypesInv, HarnessTypes, LoopShape, LoopTypeOK, StoreTypes, Actors
<1>1. Branch = Transcript
  BY <1>0, BranchIsTranscript
<1>2. SnapIsSession(r) /\ (InUse(r) => InStep(r)) /\ PersistsHead(r)
  BY DEF Faithful
<1>3. ASSUME loop'[r].pc \notin CtxStates \/ frame'[r].stage # "running",
             frame'[r].stage \notin Prelude,
             frame'[r].step # "append"
      PROVE  Faithful(r)'
  BY <1>3 DEF Faithful, SnapIsSession, InUse, PersistsHead
<1>4. ASSUME RunThrows(r) PROVE Faithful(r)'
  <2>1. /\ loop'[r].pc \in {"failing", "dead"} /\ frame'[r].stage \in {"reporting", "finally"}
        /\ frame'[r].step = "new"
    BY <1>0, <1>4 DEF RunThrows, ReportFailure, GiveUp, LoopRecord, FrameRecord
  <2> QED BY <1>3, <2>1 DEF CtxStates, BatchStates
<1>5. frame[r].step # "new" \/ out[r] # <<>> \/ loop[r].pc \in {"steering", "followUp", "turnEnd"}
        => frame[r].stage \in {"running", "reporting"}
  BY <1>0 DEF FrameRecord, Stages, Before, RunShape
(* Steps that leave the loop as it is.                                       *)
<1>6. ASSUME UNCHANGED loopVars PROVE Said(r)' = Said(r) /\ out'[r] = out[r] /\ loop' = loop
  BY <1>6 DEF Said, Results, With, Calls, loopVars
<1>7. ASSUME UNCHANGED log PROVE Transcript' = Transcript
  BY <1>7 DEF Transcript
<1>8. CASE CreateTurnState(r) \/ TakeNextTurn(r) \/ NextTurnTaken(r)
  <2>1. /\ frame'[r].stage \in Prelude /\ UNCHANGED log /\ frame'[r].step = "new"
        /\ frame'[r].snap = IF frame[r].stage \in Prelude THEN frame[r].snap ELSE Branch
    <3>1. frame[r].step = "new"
      BY <1>0, <1>8 DEF CreateTurnState, TakeNextTurn, NextTurnTaken, RunShape
    <3>2. CASE CreateTurnState(r)
      BY <1>0, <3>1, <3>2 DEF CreateTurnState, FrameRecord, otherVars, storeVars
    <3>3. CASE TakeNextTurn(r)
      BY <1>0, <3>1, <3>3 DEF TakeNextTurn, FrameRecord, storeVars
    <3>4. CASE NextTurnTaken(r)
      BY <1>0, <3>1, <3>4 DEF NextTurnTaken, FrameRecord, otherVars, storeVars
    <3> QED BY <1>8, <3>2, <3>3, <3>4
  <2>2. frame'[r].snap = Transcript'
    BY <1>1, <1>2, <1>7, <2>1 DEF SnapIsSession
  <2> QED BY <2>1, <2>2 DEF Faithful, SnapIsSession, InUse, PersistsHead
<1>9. CASE StartLoop(r)
  <2>0. PICK ms : ms = frame[r].msgs
    OBVIOUS
  <2> DEFINE c == frame[r].snap \o ms
             evs == <<Event("turn_start")>> \o MessageEvents(ms)
  <2>1. /\ frame[r].step = "new" /\ frame[r].snap = Transcript /\ ms \in Seq(Messages)
        /\ Transcript \in Seq(Messages)
    <3>1. ms \in Seq(Inputs)
      BY <1>0, <2>0 DEF FrameRecord
    <3>2. frame[r].step = "new" /\ frame[r].snap = Transcript
      BY <1>0, <1>2, <1>9 DEF StartLoop, RunShape, SnapIsSession
    <3> QED BY <1>0, <3>1, <3>2, InputsSpoken, TranscriptType
  <2>2. /\ loop' = [loop EXCEPT ![r] = [Unused EXCEPT !.pc = "steering", !.ctx = c]]
        /\ out' = [out EXCEPT ![r] = evs] /\ UNCHANGED log
        /\ frame' = [frame EXCEPT ![r].stage = "running", ![r].msgs = <<>>, ![r].snap = <<>>]
    BY <1>9, <2>0 DEF StartLoop, RunAgentLoop, storeVars
  <2>3. c = Transcript \o ms /\ c \in Seq(Messages)
    BY <2>1
  <2> HIDE DEF c, evs
  <2>4. /\ loop'[r].pc = "steering" /\ loop'[r].ctx = c /\ out'[r] = evs
        /\ frame'[r].stage = "running" /\ frame'[r].step = "new"
    BY <1>0, <2>1, <2>2 DEF Unused, FrameRecord
  <2>5. Said(r)' = c
    BY <2>3, <2>4, ConcatEmptySeq DEF Said, Results, BatchStates
  <2>6. Transcript' = Transcript
    BY <1>7, <2>2
  <2>7. Announced(r, ms)'
    <3>1. Event("turn_start") \in Openers
      BY DEF Openers
    <3> QED BY <2>4, <3>1 DEF Announced, evs
  <2>8. InStep(r)'
    BY <2>1, <2>3, <2>5, <2>6, <2>7 DEF InStep
  <2> QED BY <2>4, <2>8 DEF Faithful, SnapIsSession, PersistsHead
<1>10. CASE PromptFails(r) \/ FinishRun(r)
  <2>1. frame'[r].stage = "done" /\ frame'[r].step = "new"
    <3>1. frame'[r] = [NewFrame EXCEPT !.stage = "done"]
      BY <1>0, <1>10 DEF PromptFails, FinishRun, FinishRunAt
    <3> QED BY <3>1 DEF NewFrame
  <2> QED BY <1>3, <2>1
<1>11. ASSUME frame[r].stage = "running", UNCHANGED <<frame, log, io>>,
              LoopStep(r) \/ \E c \in Calls(r) : CallEnded(r, c)
       PROVE  Faithful(r)'
  <2>0. SnapIsSession(r)' /\ PersistsHead(r)'
    <3>1. out'[r] = out[r] \/ out[r] = <<>>
      BY <1>0, <1>11, LoopStepEffect DEF LoopEffect, CallEnded
    <3> QED BY <1>0, <1>2, <1>11, <3>1 DEF SnapIsSession, PersistsHead, RunShape
  <2>1. CASE loop[r].pc \notin CtxStates \/ loop[r].pc \in {"steering", "followUp"}
    <3>1. \/ loop'[r].pc = loop[r].pc /\ loop'[r].ctx = loop[r].ctx /\ out'[r] = out[r]
          \/ /\ out[r] = <<>> /\ loop'[r].pc \notin CtxStates
             /\ loop[r].pc \notin {"steering", "followUp"}
      <4>1. CASE LoopStep(r)
        <5>1. LoopEffect(r)
          BY <1>0, <4>1, LoopStepEffect
        <5>2. loop[r].pc \notin CtxStates =>
                loop[r].pc \in {"unused", "turnEnd", "ending", "returned", "failing", "dead"}
          BY <1>0 DEF LoopRecord, LoopStates, CtxStates, BatchStates
        <5> QED BY <2>1, <5>1, <5>2 DEF LoopEffect, CtxStates, BatchStates
      <4>2. CASE \E c \in Calls(r) : CallEnded(r, c)
        BY <1>0, <4>2 DEF CallEnded, LoopRecord
      <4> QED BY <1>11, <4>1, <4>2
    <3>2. CASE loop'[r].pc \notin CtxStates
      BY <2>0, <3>2 DEF Faithful, InUse
    <3>3. CASE loop[r].pc \in {"steering", "followUp"} /\ loop'[r].pc = loop[r].pc
               /\ loop'[r].ctx = loop[r].ctx /\ out'[r] = out[r]
      <4>1. Said(r)' = Said(r) /\ Transcript' = Transcript
        BY <1>7, <1>11, <3>3 DEF Said, Results, BatchStates
      <4>2. InUse(r) => InStep(r)'
        BY <1>2, <1>11, <3>3, <4>1, InStepStays
      <4>3. InUse(r)' => InUse(r)
        BY <1>11, <3>3 DEF InUse
      <4> QED BY <2>0, <4>2, <4>3 DEF Faithful
    <3> QED BY <2>1, <3>1, <3>2, <3>3
  <2>2. CASE loop[r].pc \in CtxStates \ {"steering", "followUp"}
    <3>1. LoopSays(r) /\ InStep(r)
      BY <1>0, <1>2, <1>11, <2>2, LoopStepSays DEF InUse
    <3>2. CASE loop'[r].pc \notin CtxStates
      BY <2>0, <3>2 DEF Faithful, InUse
    <3>3. CASE Said(r)' = Said(r) /\ out'[r] = out[r]
      <4>1. Transcript' = Transcript
        BY <1>7, <1>11
      <4>2. InStep(r)'
        BY <1>11, <3>1, <3>3, <4>1, InStepStays
      <4> QED BY <2>0, <4>2 DEF Faithful
    <3>4. ASSUME NEW msgs \in Seq(Messages), Says(r, msgs) PROVE Faithful(r)'
      <4>1. frame[r].step = "new"
        BY <1>0, <2>2, <3>4 DEF Says, RunShape, CtxStates, BatchStates
      <4>2. InStep(r)'
        BY <1>0, <1>7, <1>11, <3>1, <3>4, <4>1, InStepSays
      <4> QED BY <2>0, <4>2 DEF Faithful
    <3> QED BY <3>1, <3>2, <3>3, <3>4 DEF LoopSays
  <2> QED BY <2>1, <2>2
<1>13. CASE FlushWrite(r) \/ FlushWritten(r) \/ FlushEnds(r)
  <2>1. Flushing(r) /\ UNCHANGED loop
    BY <1>13 DEF FlushWrite, FlushWritten, FlushLeaves, FlushEnds, Flushed, loopVars
  <2>2. frame'[r].stage = frame[r].stage /\ frame'[r].step \in {frame[r].step, "flushed"}
    BY <1>0, <1>13 DEF FlushWrite, FlushWritten, FlushLeaves, FlushEnds, FrameRecord
  <2>3. /\ loop[r].pc \notin CtxStates \/ frame[r].stage # "running"
        /\ frame[r].stage \notin Prelude /\ frame[r].step # "append"
    BY <1>0, <1>5, <2>1 DEF Flushing, RunShape, CtxStates, BatchStates
  <2> QED BY <1>3, <2>1, <2>2, <2>3
<1>14. CASE PersistMessage(r)
  <2>1. /\ out[r] # <<>> /\ out[r][1].type = "message_end" /\ frame[r].step = "new"
        /\ UNCHANGED <<loopVars, log>> /\ frame' = [frame EXCEPT ![r].step = "append"]
        /\ io' = [io EXCEPT ![r] = [m |-> out[r][1].msg, parent |-> leaf]]
    BY <1>14 DEF PersistMessage, Handling, Head_, BeginAppend
  <2>2. /\ frame'[r].step = "append" /\ frame'[r].stage = frame[r].stage
        /\ io'[r].m = out[r][1].msg
    BY <1>0, <2>1 DEF FrameRecord
  <2>3. InUse(r)' => InStep(r)'
    BY <1>0, <1>2, <1>6, <1>7, <2>1, <2>2, InStepPersists DEF InUse
  <2> QED BY <1>2, <1>5, <1>6, <2>1, <2>2, <2>3 DEF Faithful, SnapIsSession, PersistsHead
<1>15. CASE MessagePersisted(r)
  <2>1. /\ frame[r].step = "append" /\ CommitAppend(r) /\ UNCHANGED loopVars
        /\ frame' = [frame EXCEPT ![r].step = "notify"] /\ out[r] # <<>>
    BY <1>15 DEF MessagePersisted, Handling
  <2>2. frame'[r].step = "notify" /\ frame'[r].stage = frame[r].stage
    BY <1>0, <2>1 DEF FrameRecord
  <2>3. Transcript' = Append(Transcript, out[r][1].msg)
    BY <1>0, <1>2, <2>1, TranscriptGrows DEF PersistsHead, CommitAppend
  <2>4. InUse(r)' => InStep(r)'
    BY <1>0, <1>2, <1>6, <2>1, <2>2, <2>3, InStepPersisted DEF InUse
  <2> QED BY <1>5, <2>1, <2>2, <2>4 DEF Faithful, SnapIsSession, PersistsHead
<1>16. CASE NotifyMessage(r) \/ NotifyPlain(r)
  <2>1. /\ out[r] # <<>> /\ UNCHANGED log /\ Notified(r)
        /\ \/ frame[r].step = "notify"
           \/ frame[r].step = "new" /\ out[r][1].type # "message_end"
    BY <1>16 DEF NotifyMessage, NotifyPlain, Handling, Head_, otherVars, storeVars
  <2>2. ASSUME Handled(r) PROVE Faithful(r)'
    <3>1. /\ out'[r] = Tail(out[r]) /\ UNCHANGED loop
          /\ frame'[r].step = "new" /\ frame'[r].stage = frame[r].stage
      BY <1>0, <2>2 DEF Handled, FrameRecord
    <3>2. Said(r)' = Said(r)
      BY <3>1 DEF Said, Results, With, Calls
    <3>3. InUse(r)' => InStep(r)'
      BY <1>0, <1>2, <1>7, <2>1, <3>1, <3>2, InStepHandled DEF InUse
    <3> QED BY <1>5, <2>1, <3>1, <3>3 DEF Faithful, SnapIsSession, PersistsHead
  <2> QED BY <1>4, <2>1, <2>2 DEF Notified
<1>17. CASE NotifyTurnEnd(r) \/ SavePoint(r) \/ FlushAtEnd(r) \/ ReleasePhase(r)
            \/ NotifyAgentEnd(r)
  <2>1. /\ out[r] # <<>> /\ out[r][1].type \in {"turn_end", "agent_end"}
    BY <1>17 DEF NotifyTurnEnd, SavePoint, FlushAtEnd, ReleasePhase, NotifyAgentEnd, Handling,
                 Head_
  <2>2. loop[r].pc \notin CtxStates /\ frame[r].stage \in {"running", "reporting"}
    BY <1>0, <1>5, <2>1, HeadFits DEF Fits, CtxStates, BatchStates
  <2>3. ASSUME Handled(r) PROVE Faithful(r)'
    <3>1. loop' = loop /\ frame'[r].stage = frame[r].stage /\ frame'[r].step = "new"
      BY <1>0, <2>3 DEF Handled, FrameRecord
    <3> QED BY <1>3, <2>2, <3>1
  <2>4. CASE SavePoint(r) \/ NotifyAgentEnd(r)
    BY <1>4, <2>3, <2>4 DEF SavePoint, NotifyAgentEnd, Notified
  <2>5. CASE NotifyTurnEnd(r) \/ FlushAtEnd(r) \/ ReleasePhase(r)
    <3>1. loop' = loop /\ frame'[r].stage = frame[r].stage /\ frame'[r].step \in {"flush", "notify"}
      <4>1. ASSUME NotifyTurnEnd(r)
            PROVE  loop' = loop /\ frame'[r].stage = frame[r].stage /\ frame'[r].step = "flush"
        <5>1. PICK error : frame' = [frame EXCEPT ![r].step = "flush", ![r].error = error]
          BY <4>1 DEF NotifyTurnEnd
        <5>2. loop' = loop
          BY <4>1 DEF NotifyTurnEnd, loopVars
        <5> QED BY <1>0, <5>1, <5>2 DEF FrameRecord
      <4>2. ASSUME FlushAtEnd(r)
            PROVE  loop' = loop /\ frame'[r].stage = frame[r].stage /\ frame'[r].step = "flush"
        BY <1>0, <4>2 DEF FlushAtEnd, FrameRecord, loopVars
      <4>3. ASSUME ReleasePhase(r)
            PROVE  loop' = loop /\ frame'[r].stage = frame[r].stage /\ frame'[r].step = "notify"
        BY <1>0, <4>3 DEF ReleasePhase, FrameRecord, loopVars
      <4> QED BY <2>5, <4>1, <4>2, <4>3
    <3> QED BY <1>3, <2>2, <3>1
  <2> QED BY <1>17, <2>4, <2>5
<1>18. ASSUME NEW c \in Calls(r), EndCall(r, c) PROVE Faithful(r)'
  <2>1. frame[r].stage = "running" /\ UNCHANGED <<log, io>>
    BY <1>18 DEF EndCall, otherVars, storeVars
  <2> QED BY <1>4, <1>11, <1>18, <2>1 DEF EndCall
<1>19. CASE DrainSteering(r) \/ DrainFollowUps(r) \/ Drained(r)
  <2>1. /\ out[r] = <<>> /\ loop[r].pc \in {"steering", "followUp"} /\ UNCHANGED log
        /\ frame[r].stage \in {"running", "reporting"}
    BY <1>0, <1>5, <1>19 DEF DrainSteering, DrainFollowUps, Drained, At, Awaited, RunShape,
                             storeVars, otherVars
  <2>2. InStep(r) /\ frame[r].stage = "running" /\ Transcript' = Transcript
    BY <1>0, <1>2, <1>7, <2>1 DEF InUse, CtxStates, RunShape
  <2>3. Said(r) = Transcript
    BY <1>0, <2>1, <2>2, CaughtUp
(* What the poll brings is said ...                                          *)
  <2>4. ASSUME NEW msgs \in Seq(Messages), EnterTurn(r, msgs), frame'[r].step = "new",
               frame'[r].stage = "running"
        PROVE  Faithful(r)'
    <3>1. Says(r, msgs)
      BY <1>0, <2>1, <2>4, EnterSays
    <3>2. InStep(r)'
      BY <1>0, <2>2, <2>4, <3>1, InStepSays
    <3> QED BY <2>4, <3>2 DEF Faithful, SnapIsSession, PersistsHead
(* ... and with nothing to bring it leaves the context as it is.             *)
  <2>5. ASSUME loop'[r].pc \in {"steering", "followUp"}, loop'[r].ctx = loop[r].ctx,
               out'[r] = out[r], frame'[r].step \in {"new", "drain"}, frame'[r].stage = "running"
        PROVE  Faithful(r)'
    <3>1. Said(r)' = Said(r)
      BY <2>1, <2>5 DEF Said, Results, BatchStates
    <3>2. Said(r)' = Transcript' \o <<>>
      BY <1>0, <2>2, <2>3, <3>1, TranscriptType, ConcatEmptySeq
    <3>3. Announced(r, <<>>)'
      BY <2>1, <2>5, EventsOfNone DEF Announced
    <3>4. InStep(r)'
      <4>1. <<>> \in Seq(Messages)
        OBVIOUS
      <4> QED BY <3>2, <3>3, <4>1 DEF InStep
    <3> QED BY <2>5, <3>4 DEF Faithful, SnapIsSession, PersistsHead
  <2>6. ASSUME NEW msgs \in Seq(Messages), SteeringPolled(r, msgs) \/ FollowUpPolled(r, msgs),
               frame'[r].step = "new", frame'[r].stage = "running"
        PROVE  Faithful(r)'
    <3>1. CASE EnterTurn(r, msgs)
      BY <2>4, <2>6, <3>1
    <3>2. CASE loop' = [loop EXCEPT ![r].pc = "followUp"] /\ out' = out
      <4>1. loop'[r].pc = "followUp" /\ loop'[r].ctx = loop[r].ctx
        BY <1>0, <3>2 DEF LoopRecord
      <4> QED BY <2>5, <2>6, <3>2, <4>1
    <3>3. CASE loop' = [loop EXCEPT ![r].pc = "ending"]
      <4>1. loop'[r].pc = "ending"
        BY <1>0, <3>3 DEF LoopRecord
      <4> QED BY <1>3, <2>6, <4>1 DEF CtxStates, BatchStates
    <3> QED BY <2>6, <3>1, <3>2, <3>3 DEF SteeringPolled, FollowUpPolled
  <2>7. CASE Drained(r)
    <3>1. frame'[r].step = "new" /\ frame'[r].stage = "running"
      BY <1>0, <2>2, <2>7 DEF Drained, FrameRecord
    <3>2. frame[r].held \in Seq(Messages)
      <4>1. frame[r].held \in Seq(Inputs)
        BY <1>0 DEF FrameRecord
      <4> QED BY <4>1, InputsSpoken
    <3> QED BY <2>6, <2>7, <3>1, <3>2 DEF Drained
  <2>8. CASE DrainSteering(r) \/ DrainFollowUps(r)
    <3>1. CASE frame' = frame /\ (SteeringPolled(r, <<>>) \/ FollowUpPolled(r, <<>>))
      <4>1. frame[r].step = "new"
        BY <2>8 DEF DrainSteering, DrainFollowUps
      <4>2. <<>> \in Seq(Messages)
        OBVIOUS
      <4> QED BY <2>2, <2>6, <3>1, <4>1, <4>2
    <3>2. ASSUME NEW taken, frame' = [frame EXCEPT ![r].step = "drain", ![r].held = taken],
                 UNCHANGED loopVars
          PROVE  Faithful(r)'
      <4>1. frame'[r].step = "drain" /\ frame'[r].stage = "running"
        BY <1>0, <2>2, <3>2 DEF FrameRecord
      <4> QED BY <1>6, <2>1, <2>5, <3>2, <4>1
    <3> QED BY <2>8, <3>1, <3>2 DEF DrainSteering, DrainFollowUps
  <2> QED BY <1>19, <2>7, <2>8
<1>20. CASE DrainFails(r)
  BY <1>4, <1>20 DEF DrainFails
<1>21. CASE PrepareNextTurn(r)
  <2>1. /\ loop[r].pc = "turnEnd" /\ loop' = loop /\ frame'[r].step = "flush"
        /\ frame'[r].stage = frame[r].stage
    BY <1>0, <1>21 DEF PrepareNextTurn, At, FrameRecord, loopVars
  <2> QED BY <1>3, <1>5, <2>1 DEF CtxStates, BatchStates
<1>22. CASE NextTurnState(r)
  <2>1. /\ out[r] = <<>> /\ loop[r].pc = "turnEnd" /\ UNCHANGED log
    BY <1>22 DEF NextTurnState, NextTurnContext, At, Awaited, otherVars, storeVars
  <2>2. ASSUME TurnPrepared(r, Branch), frame' = [frame EXCEPT ![r].step = "new"]
        PROVE  Faithful(r)'
    <3>1. /\ loop'[r].pc = "steering" /\ loop'[r].ctx = Transcript /\ out'[r] = <<>>
          /\ frame'[r].step = "new" /\ frame'[r].stage = frame[r].stage
      <4> DEFINE t == Transcript
      <4>1. loop' = [loop EXCEPT ![r].pc = "steering", ![r].ctx = t] /\ out' = out
        BY <1>1, <2>2 DEF TurnPrepared
      <4> HIDE DEF t
      <4>2. loop'[r].pc = "steering" /\ loop'[r].ctx = t
        BY <1>0, <4>1 DEF LoopRecord
      <4> QED BY <1>0, <2>1, <2>2, <4>1, <4>2 DEF FrameRecord, t
    <3>2. Said(r)' = Transcript' \o <<>>
      BY <1>7, <2>1, <3>1 DEF Said, Results, BatchStates
    <3>3. Announced(r, <<>>)'
      BY <3>1, EventsOfNone DEF Announced
    <3>4. InStep(r)'
      <4>1. <<>> \in Seq(Messages)
        OBVIOUS
      <4> QED BY <3>2, <3>3, <4>1 DEF InStep
    <3> QED BY <1>5, <2>1, <3>1, <3>4 DEF Faithful, SnapIsSession, PersistsHead
  <2> QED BY <1>4, <1>22, <2>2 DEF NextTurnState, NextTurnContext
<1>23. CASE EnterFinally(r)
  <2>1. frame'[r].stage = "finally" /\ frame'[r].step = frame[r].step /\ frame[r].step = "new"
    BY <1>0, <1>23 DEF EnterFinally, FrameRecord, RunShape
  <2> QED BY <1>3, <2>1
<1> QED
  BY <1>8, <1>9, <1>10, <1>11, <1>13, <1>14, <1>15, <1>16, <1>17, <1>18, <1>19, <1>20, <1>21,
     <1>22, <1>23 DEF RunStep, otherVars, storeVars

(* Nobody else disturbs it.                                                  *)
LEMMA FaithfulStep ==
  ASSUME ~Overlap
  PROVE  Steady /\ Locked /\ Linear /\ (\A r \in Runs : Faithful(r)) /\ [Next]_vars
           => (\A r \in Runs : Faithful(r))'
<1> SUFFICES ASSUME Steady, Locked, Linear, \A r \in Runs : Faithful(r), [Next]_vars,
                    NEW r \in Runs
             PROVE  Faithful(r)'
  OBVIOUS
<1>0. /\ frame \in [Runs -> FrameRecord] /\ loop \in [Runs -> LoopRecord]
      /\ frame[r] \in FrameRecord /\ loop[r] \in LoopRecord
      /\ io \in [Actors -> [m : Messages \cup {NoMessage}, parent : Nat]]
      /\ Faithful(r) /\ RunShape(r)' /\ HarnessTypes /\ RunShape(r)
  BY SteadyStep DEF Steady, TypesInv, HarnessTypes, LoopShape, LoopTypeOK, StoreTypes
<1>1. ASSUME frame'[r].stage \in {"unused", "snapshot", "done"} PROVE Faithful(r)'
  BY <1>0, <1>1 DEF RunShape, Faithful, SnapIsSession, InUse, PersistsHead
<1>2. ASSUME frame'[r] = frame[r], r \notin Live PROVE Faithful(r)'
  BY <1>1, <1>2 DEF Live
<1>3. ASSUME UNCHANGED <<log, io, out>>, frame'[r].stage = frame[r].stage,
             frame'[r].step = frame[r].step, frame'[r].snap = frame[r].snap,
             loop'[r].pc = loop[r].pc, loop'[r].ctx = loop[r].ctx, loop'[r].calls = loop[r].calls
      PROVE  Faithful(r)'
  <2>1. Said(r)' = Said(r) /\ Transcript' = Transcript
    BY <1>3 DEF Said, Results, With, Calls, Transcript
  <2>2. InStep(r) => InStep(r)'
    BY <1>3, <2>1, InStepStays
  <2>3. InUse(r)' => InUse(r)
    BY <1>3 DEF InUse
  <2> QED BY <1>0, <1>3, <2>1, <2>2, <2>3 DEF Faithful, SnapIsSession, PersistsHead
<1>4. ASSUME NEW q \in Runs, RunStep(q) PROVE Faithful(r)'
  <2>1. CASE q = r
    BY <1>4, <2>1, FaithfulRun
  <2>2. CASE q # r
    <3>1. frame'[r] = frame[r]
      BY <1>0, <1>4, <2>2, OthersStay
    <3>2. q \in Live
      BY <1>4, RunStepLock DEF LockEffect, Steady
    <3>3. r \notin Live
      BY <2>2, <3>2 DEF Locked, OneRun
    <3> QED BY <1>2, <3>1, <3>3
  <2> QED BY <2>1, <2>2
<1>5. ASSUME NEW q \in Runs, Prompt(q) PROVE Faithful(r)'
  <2>1. Live = {} /\ frame'[r].stage \in {frame[r].stage, "snapshot"}
    BY <1>0, <1>5 DEF Prompt, BeginPrompt, CallersWait, FrameRecord
  <2>2. frame[r].stage \in {"unused", "done"}
    BY <2>1 DEF Live
  <2> QED BY <1>1, <2>1, <2>2
<1>6. CASE WriteIdle \/ IdleWritten \/ Compact \/ AppendCompaction \/ CompactEnds
  <2>1. frame' = frame
    BY <1>6 DEF WriteIdle, WriteNow, IdleWritten, Compact, AppendCompaction, AppendSummary,
                CompactEnds
  <2>2. Live = {}
    BY <1>6 DEF WriteIdle, WriteNow, CallersWait, IdleWritten, CommitAppend, Compact,
       AppendCompaction, AppendSummary, CompactEnds, Locked, OthersAppend, Compacting
  <2> QED BY <1>2, <2>1, <2>2
<1>7. CASE Abort
  <2>1. /\ UNCHANGED <<log, io, out>>
        /\ loop' = IF runAbortController = NoRun THEN loop
                   ELSE [loop EXCEPT ![runAbortController].aborted = TRUE]
        /\ frame' = [q \in Runs |-> [frame[q] EXCEPT !.orphan = frame[q].step = "drain"]]
    BY <1>7 DEF Abort, AbortRun, storeVars
  <2>2. /\ frame'[r].stage = frame[r].stage /\ frame'[r].step = frame[r].step
        /\ frame'[r].snap = frame[r].snap
    BY <1>0, <2>1 DEF FrameRecord
  <2>3. /\ loop'[r].pc = loop[r].pc /\ loop'[r].ctx = loop[r].ctx
        /\ loop'[r].calls = loop[r].calls
    BY <1>0, <2>1 DEF LoopRecord
  <2> QED BY <1>3, <2>1, <2>2, <2>3
<1>8. CASE UNCHANGED vars \/ Steer \/ FollowUp \/ NextTurn \/ DeferWrite
           \/ AbortWaits \/ AbortReturns
  <2>1. UNCHANGED <<log, io, out, loop, frame>>
    BY <1>8 DEF vars, Steer, FollowUp, NextTurn, DeferWrite, PutOff, AbortWaits, AbortReturns,
                AbortOver, otherVars, loopVars, storeVars
  <2> QED BY <1>3, <2>1
<1> QED BY <1>4, <1>5, <1>6, <1>7, <1>8 DEF Next, ClientStep, Continuations

LEMMA FaithfulInit == Init => Linear /\ \A r \in Runs : Faithful(r)
<1> SUFFICES ASSUME Init PROVE Linear /\ \A r \in Runs : Faithful(r)
  OBVIOUS
<1>1. \A r \in Runs : frame[r].stage = "unused" /\ frame[r].step = "new"
  BY DEF Init, NewFrame
<1>2. \A a \in Actors : io[a] = NoIO
  BY DEF Init
<1>3. Linear
  <2>1. log = <<>> /\ leaf = 0 /\ Len(log) = 0
    BY DEF Init
  <2> QED BY <1>2, <2>1 DEF Linear
<1> QED BY <1>1, <1>3 DEF Faithful, SnapIsSession, InUse, PersistsHead

(* While an answer is awaited, nothing is announced.                         *)
Awaiting == \A r \in Runs : loop[r].pc = "waiting" => out[r] = <<>>

LEMMA AwaitingStep == Steady /\ Awaiting /\ [Next]_vars => Awaiting'
<1> SUFFICES ASSUME Steady, Awaiting, [Next]_vars, NEW r \in Runs, loop'[r].pc = "waiting"
             PROVE  out'[r] = <<>>
  BY DEF Awaiting
<1>0. /\ frame \in [Runs -> FrameRecord] /\ loop \in [Runs -> LoopRecord]
      /\ out \in [Runs -> Seq(Events)] /\ LoopTypeOK /\ HarnessTypes
      /\ loop[r].pc = "waiting" => out[r] = <<>>
  BY DEF Steady, TypesInv, HarnessTypes, LoopShape, LoopTypeOK, Awaiting
<1>1. ASSUME RunThrows(r) PROVE FALSE
  BY <1>0, <1>1 DEF RunThrows, ReportFailure, GiveUp, LoopRecord
<1>2. ASSUME loop'[r].pc = loop[r].pc, out'[r] = out[r] PROVE out'[r] = <<>>
  BY <1>0, <1>2
<1>3. CASE RunStep(r)
  <2>1. CASE LoopStep(r)
    BY <1>0, <1>2, <2>1, LoopStepEffect DEF LoopEffect
  <2>2. CASE \E c \in Calls(r) : EndCall(r, c)
    <3>1. ASSUME NEW c, CallEnded(r, c) PROVE out'[r] = <<>>
      BY <1>0, <1>2, <3>1 DEF CallEnded, LoopRecord
    <3> QED BY <1>1, <2>2, <3>1 DEF EndCall
  <2>3. CASE NotifyMessage(r) \/ NotifyPlain(r) \/ SavePoint(r) \/ NotifyAgentEnd(r)
    BY <1>0, <1>1, <2>3 DEF NotifyMessage, NotifyPlain, SavePoint, NotifyAgentEnd, Notified,
                            Handled, Handling
  <2>4. CASE StartLoop(r) \/ FinishRun(r)
    <3>1. loop'[r].pc \in {"steering", "dead"}
      <4>1. ASSUME NEW c, loop' = [loop EXCEPT ![r] = [Unused EXCEPT !.pc = "steering", !.ctx = c]]
            PROVE  loop'[r].pc = "steering"
        BY <1>0, <4>1 DEF Unused
      <4>2. CASE FinishRun(r)
        BY <1>0, <4>2 DEF FinishRun, FinishRunAt, Unused
      <4>3. CASE StartLoop(r)
        BY <4>1, <4>3 DEF StartLoop, RunAgentLoop
      <4> QED BY <2>4, <4>2, <4>3
    <3> QED BY <3>1
  <2>5. CASE DrainSteering(r) \/ DrainFollowUps(r) \/ Drained(r)
    <3>1. ASSUME NEW msgs, EnterTurn(r, msgs) PROVE FALSE
      <4>1. loop'[r].pc = "stream"
        <5> DEFINE c == loop[r].ctx \o msgs
        <5>1. loop' = [loop EXCEPT ![r].pc = "stream", ![r].first = FALSE, ![r].ctx = c]
          BY <1>0, <3>1 DEF EnterTurn
        <5> HIDE DEF c
        <5> QED BY <1>0, <5>1 DEF LoopRecord
      <4> QED BY <4>1
    <3>2. ASSUME NEW msgs, SteeringPolled(r, msgs) \/ FollowUpPolled(r, msgs) PROVE FALSE
      BY <1>0, <3>1, <3>2 DEF SteeringPolled, FollowUpPolled, LoopRecord
    <3> QED BY <1>2, <2>5, <3>2 DEF DrainSteering, DrainFollowUps, Drained, loopVars
  <2>6. CASE DrainFails(r)
    BY <1>1, <2>6 DEF DrainFails
  <2>7. CASE NextTurnState(r)
    <3>1. ASSUME TurnPrepared(r, Branch) PROVE FALSE
      <4> DEFINE c == Branch
      <4>1. loop' = [loop EXCEPT ![r].pc = "steering", ![r].ctx = c]
        BY <3>1 DEF TurnPrepared
      <4> HIDE DEF c
      <4> QED BY <1>0, <4>1 DEF LoopRecord
    <3> QED BY <1>1, <2>7, <3>1 DEF NextTurnState, NextTurnContext
  <2>8. CASE UNCHANGED loopVars
    BY <1>2, <2>8 DEF loopVars
  <2> QED BY <1>3, <2>1, <2>2, <2>3, <2>4, <2>5, <2>6, <2>7, <2>8 DEF RunStep, CreateTurnState,
       TakeNextTurn, NextTurnTaken, PromptFails, FlushWrite, FlushWritten, FlushLeaves, FlushEnds,
       PersistMessage, MessagePersisted, NotifyTurnEnd, FlushAtEnd, ReleasePhase,
       PrepareNextTurn, EnterFinally
<1>4. ASSUME NEW q \in Runs \ {r}, RunStep(q) PROVE out'[r] = <<>>
  BY <1>0, <1>2, <1>4, OthersStay
<1>5. CASE Abort
  <2>1. /\ out' = out
        /\ loop' = IF runAbortController = NoRun THEN loop
                   ELSE [loop EXCEPT ![runAbortController].aborted = TRUE]
    BY <1>5 DEF Abort, AbortRun
  <2> QED BY <1>0, <1>2, <2>1 DEF LoopRecord
<1>6. CASE UNCHANGED loopVars
  BY <1>2, <1>6 DEF loopVars
<1> QED BY <1>3, <1>4, <1>5, <1>6 DEF Next, ClientStep, Continuations, vars, Prompt, BeginPrompt,
     Steer, FollowUp, NextTurn, DeferWrite, PutOff, WriteIdle, WriteNow, Compact, IdleWritten,
     AppendCompaction, AppendSummary, CompactEnds, AbortWaits, AbortReturns, AbortOver

LEMMA AwaitingInit == Init => Awaiting
BY DEF Init, LoopInit, Awaiting

Lineal == Linear /\ Awaiting /\ \A r \in Runs : Faithful(r)

LEMMA LinealAlways == ASSUME ~Overlap PROVE Spec => [](Steady /\ Locked /\ Lineal)
<1>1. Init => Steady /\ Locked /\ Lineal
  BY SteadyInit, LockedInit, FaithfulInit, AwaitingInit DEF Lineal
<1>2. Steady /\ Locked /\ Lineal /\ [Next]_vars => (Steady /\ Locked /\ Lineal)'
  <2>1. Steady /\ Locked /\ Lineal /\ [Next]_vars => Linear' /\ Awaiting'
    BY LinearStep, AwaitingStep DEF Lineal
  <2>2. Steady /\ Locked /\ Lineal /\ [Next]_vars => (\A r \in Runs : Faithful(r))'
    BY FaithfulStep DEF Lineal
  <2> QED BY <2>1, <2>2, SteadyStep, LockedStep DEF Lineal
<1> QED BY <1>1, <1>2, PTL DEF Spec

(* A request in flight has nothing left to announce: it is the session.      *)
LEMMA LinealGives == Steady /\ Lineal => RequestIsSession
<1> SUFFICES ASSUME Steady, Lineal, NEW r \in Live, loop[r].pc = "waiting"
             PROVE  loop[r].ctx = Branch
  BY DEF RequestIsSession
<1>0. /\ r \in Runs /\ RunShape(r) /\ LoopTypeOK /\ StoreTypes
      /\ frame \in [Runs -> FrameRecord]
  BY DEF Live, Steady, TypesInv, HarnessTypes, LoopShape
<1>1. frame[r].stage = "running"
  BY <1>0 DEF RunShape, FrameRecord, Stages, Before
<1>2. InStep(r) /\ out[r] = <<>>
  BY <1>0, <1>1 DEF Lineal, Faithful, InUse, CtxStates, Awaiting
<1>3. Said(r) = Transcript
  BY <1>0, <1>2, CaughtUp
<1>4. Said(r) = loop[r].ctx
  BY <1>0, RecordFacts, ConcatEmptySeq DEF Said, Results, BatchStates
<1> QED BY <1>0, <1>3, <1>4, BranchIsTranscript DEF Lineal

(* RequestIsSession: what an agent sends to a provider is the session as it  *)
(* is persisted at that moment, branch and all.                              *)
THEOREM RequestsAreTheSession == ASSUME ~Overlap PROVE Spec => []RequestIsSession
BY LinealAlways, LinealGives, PTL

-----------------------------------------------------------------------------
(* Nothing comes between an assistant message and the results of its calls.  *)

Follows(s) ==
  \A i \in 1..Len(s) : s[i].role = "toolResult" =>
    /\ i > 1
    /\ \/ s[i - 1].role = "toolResult" /\ s[i - 1].n + 1 = s[i].n
       \/ s[i - 1].kind = "toolUse" /\ s[i].n = 1

Plain == {m \in Messages : m.role # "toolResult"}

LEMMA FollowsPrefix ==
  ASSUME NEW s \in Seq(Messages), NEW t \in Seq(Messages), Follows(s \o t)
  PROVE  Follows(s)
<1> DEFINE u == s \o t
<1>1. /\ Len(s) \in Nat /\ Len(t) \in Nat /\ Len(u) = Len(s) + Len(t)
      /\ \A i \in 1..Len(s) : u[i] = s[i]
  BY ConcatProperties
<1>2. Follows(u)
  OBVIOUS
<1> HIDE DEF u
<1> SUFFICES ASSUME NEW i \in 1..Len(s), s[i].role = "toolResult"
             PROVE  /\ i > 1
                    /\ \/ s[i - 1].role = "toolResult" /\ s[i - 1].n + 1 = s[i].n
                       \/ s[i - 1].kind = "toolUse" /\ s[i].n = 1
  BY DEF Follows
<1>3. i \in 1..Len(u) /\ u[i] = s[i] /\ (i > 1 => i - 1 \in 1..Len(s))
  BY <1>1
<1>4. i > 1 => u[i - 1] = s[i - 1]
  BY <1>1, <1>3
<1> QED BY <1>2, <1>3, <1>4 DEF Follows

LEMMA FollowsPlain ==
  ASSUME NEW s \in Seq(Messages), NEW t \in Seq(Plain), Follows(s)
  PROVE  s \o t \in Seq(Messages) /\ Follows(s \o t)
<1> DEFINE u == s \o t
<1>1. t \in Seq(Messages) /\ Len(s) \in Nat /\ Len(t) \in Nat
      /\ \A i \in 1..Len(t) : t[i].role # "toolResult"
  <2>1. Plain \subseteq Messages
    BY DEF Plain
  <2>2. t \in Seq(Messages)
    BY <2>1, SeqMonotonic
  <2>3. \A i \in 1..Len(t) : t[i] \in Plain
    OBVIOUS
  <2> QED BY <2>2, <2>3 DEF Plain
<1>2. /\ u \in Seq(Messages) /\ Len(u) = Len(s) + Len(t)
      /\ \A i \in 1..(Len(s) + Len(t)) : u[i] = IF i <= Len(s) THEN s[i] ELSE t[i - Len(s)]
  BY <1>1, ConcatProperties
<1> HIDE DEF u
<1>3. ASSUME NEW i \in 1..Len(u), u[i].role = "toolResult"
      PROVE  /\ i > 1
             /\ \/ u[i - 1].role = "toolResult" /\ u[i - 1].n + 1 = u[i].n
                \/ u[i - 1].kind = "toolUse" /\ u[i].n = 1
  <2>1. i <= Len(s)
    <3>1. SUFFICES ASSUME ~(i <= Len(s)) PROVE FALSE
      OBVIOUS
    <3>2. i - Len(s) \in 1..Len(t) /\ u[i] = t[i - Len(s)]
      BY <1>1, <1>2, <3>1
    <3> QED BY <1>1, <1>3, <3>2
  <2>2. i \in 1..Len(s) /\ u[i] = s[i] /\ (i > 1 => i - 1 \in 1..Len(s) /\ u[i - 1] = s[i - 1])
    BY <1>1, <1>2, <2>1
  <2> QED BY <1>3, <2>2 DEF Follows
<1> QED BY <1>2, <1>3 DEF Follows, u

LEMMA FollowsResults ==
  ASSUME NEW s \in Seq(Messages), Follows(s), s # <<>>, s[Len(s)].kind = "toolUse", NEW k \in Nat
  PROVE  Follows(s \o ResultsFrom(0, k))
<1> DEFINE t == ResultsFrom(0, k)
           u == s \o t
<1>1. /\ t \in Seq(Messages) /\ Len(t) = k /\ Len(s) \in Nat /\ Len(s) >= 1
      /\ \A i \in 1..k : t[i] = ToolResult(i)
  <2>1. 0 \in Nat /\ 0 <= k /\ k - 0 = k
    OBVIOUS
  <2>2. t \in Seq(Messages)
    BY <2>1, ResultsType
  <2>3. Len(t) = k /\ \A i \in 1..k : t[i] = ToolResult(i)
    BY <2>1 DEF ResultsFrom
  <2> QED BY <2>2, <2>3
<1> HIDE DEF t
<1>2. /\ u \in Seq(Messages) /\ Len(u) = Len(s) + k
      /\ \A i \in 1..(Len(s) + k) : u[i] = IF i <= Len(s) THEN s[i] ELSE t[i - Len(s)]
  BY <1>1, ConcatProperties
<1> HIDE DEF u
<1>3. ASSUME NEW i \in 1..Len(u), u[i].role = "toolResult"
      PROVE  /\ i > 1
             /\ \/ u[i - 1].role = "toolResult" /\ u[i - 1].n + 1 = u[i].n
                \/ u[i - 1].kind = "toolUse" /\ u[i].n = 1
  <2>1. CASE i <= Len(s)
    <3>1. i \in 1..Len(s) /\ u[i] = s[i] /\ (i > 1 => i - 1 \in 1..Len(s) /\ u[i - 1] = s[i - 1])
      <4>1. i \in 1..(Len(s) + k) /\ i \in 1..Len(s)
        BY <1>1, <1>2, <2>1
      <4>2. i > 1 => i - 1 \in 1..(Len(s) + k) /\ i - 1 \in 1..Len(s) /\ i - 1 <= Len(s)
        BY <1>1, <2>1, <4>1
      <4> QED BY <1>2, <2>1, <4>1, <4>2
    <3> QED BY <1>3, <3>1 DEF Follows
  <2>2. CASE i = Len(s) + 1
    <3>1. 1 \in 1..k /\ u[i] = t[1] /\ u[i - 1] = s[Len(s)] /\ i > 1
      BY <1>1, <1>2, <2>2
    <3>2. u[i].n = 1
      BY <1>1, <3>1 DEF ToolResult
    <3> QED BY <3>1, <3>2
  <2>3. CASE i > Len(s) + 1
    <3> DEFINE j == i - Len(s)
    <3>1. /\ j \in 1..k /\ j - 1 \in 1..k /\ i > 1 /\ u[i] = t[j] /\ u[i - 1] = t[j - 1]
      <4>1. j \in 1..k /\ j - 1 \in 1..k /\ i > 1 /\ i - 1 \in 1..(Len(s) + k)
        BY <1>1, <1>2, <2>3
      <4>2. (i - 1) - Len(s) = j - 1
        BY <1>1
      <4>3. ~(i <= Len(s)) /\ ~(i - 1 <= Len(s))
        BY <1>1, <2>3
      <4> QED BY <1>2, <4>1, <4>2, <4>3
    <3> HIDE DEF j
    <3>2. u[i] = ToolResult(j) /\ u[i - 1] = ToolResult(j - 1)
      BY <1>1, <3>1
    <3>4. /\ u[i].n = j /\ u[i - 1].n = j - 1 /\ u[i - 1].role = "toolResult"
      BY <3>2 DEF ToolResult
    <3>3. j \in Nat
      BY <3>1
    <3> QED BY <3>1, <3>3, <3>4
  <2> QED BY <1>1, <1>2, <2>1, <2>2, <2>3
<1> QED BY <1>2, <1>3 DEF Follows, u, t

(* What a run has said follows its calls when its context does.              *)
LEMMA FollowsSaid ==
  ASSUME LoopTypeOK, NEW r \in Runs, Batch(r), Follows(loop[r].ctx)
  PROVE  Follows(Said(r))
<1>1. CASE loop[r].pc \in BatchStates
  <2> DEFINE k == Cardinality(With(r, {"reported"}))
             c == loop[r].ctx
  <2>1. k \in Nat
    BY WithFacts
  <2>2. c \in Seq(Messages) /\ c # <<>> /\ c[Len(c)].kind = "toolUse"
    BY <1>1, RecordFacts DEF Batch, Asked, Reply
  <2>3. Said(r) = c \o ResultsFrom(0, k)
    BY <1>1 DEF Said, Results
  <2> HIDE DEF k
  <2> QED BY <2>1, <2>2, <2>3, FollowsResults
<1>2. CASE loop[r].pc \notin BatchStates
  <2>1. Said(r) = loop[r].ctx
    BY <1>2, RecordFacts, ConcatEmptySeq DEF Said, Results
  <2> QED BY <2>1
<1> QED BY <1>1, <1>2

(* What a step of the run does to its context.                               *)
CtxEffect(r) ==
  \/ ~InUse(r)'
  \/ InUse(r) /\ loop'[r].ctx = loop[r].ctx
  \/ InUse(r) /\ \E msgs \in Seq(Plain) : loop'[r].ctx = loop[r].ctx \o msgs
  \/ \E msgs \in Seq(Plain) : loop'[r].ctx = Transcript \o msgs

LEMMA SpokenPlain == \A msgs \in Seq(Spoken) : msgs \in Seq(Plain)
<1>1. Spoken \subseteq Plain
  BY DEF Spoken, Plain
<1> QED BY <1>1, SeqMonotonic

LEMMA LoopStepContext ==
  ASSUME LoopTypeOK, NEW r \in Runs, LoopStep(r), loop'[r].pc \in CtxStates
  PROVE  \/ loop'[r].ctx = loop[r].ctx
         \/ \E msgs \in Seq(Plain) : loop'[r].ctx = loop[r].ctx \o msgs
<1>0. /\ loop \in [Runs -> LoopRecord] /\ loop[r] \in LoopRecord /\ loop[r].ctx \in Seq(Messages)
  BY RecordFacts DEF LoopTypeOK
<1>1. CASE Respond(r)
  <2>1. PICK m \in Replies(r) :
          loop' = [loop EXCEPT ![r].pc = "replied", ![r].ctx = Append(@, m), ![r].turns = @ + 1]
    BY <1>1 DEF Respond
  <2>2. m \in Plain
    <3>1. \A n \in 1..MaxCalls : n \in Nat
      OBVIOUS
    <3>2. m \in Messages
      BY <2>1, <3>1, MessageTypes DEF Replies, Stops
    <3> QED BY <2>1, <3>2 DEF Replies, AssistantMessage, Plain
  <2> DEFINE c == Append(loop[r].ctx, m)  n == loop[r].turns + 1
  <2>3. loop' = [loop EXCEPT ![r] = [loop[r] EXCEPT !.pc = "replied", !.ctx = c, !.turns = n]]
    BY <1>0, <2>1
  <2>4. c = loop[r].ctx \o <<m>>
    BY <1>0, <2>2, AppendIsConcat DEF Plain
  <2> HIDE DEF c, n
  <2>5. loop'[r].ctx = loop[r].ctx \o <<m>>
    BY <1>0, <2>3, <2>4 DEF LoopRecord
  <2>6. <<m>> \in Seq(Plain)
    BY <2>2
  <2> QED BY <2>5, <2>6
<1>2. CASE EndBatch(r)
  <2> DEFINE c == loop[r].ctx \o [i \in 1..Cardinality(With(r, {"reported"})) |-> ToolResult(i)]
  <2>1. loop' = [loop EXCEPT ![r].pc = "turnEnd", ![r].more = ~loop[r].term, ![r].ctx = c,
                             ![r].calls = <<>>]
    BY <1>2 DEF EndBatch
  <2> HIDE DEF c
  <2>2. loop'[r].pc = "turnEnd"
    BY <1>0, <2>1 DEF LoopRecord
  <2> QED BY <2>2 DEF CtxStates, BatchStates
<1>3. CASE Request(r) \/ StopOnError(r) \/ EndTurnWithoutTools(r) \/ LoopReturns(r)
           \/ EndSequentialBatch(r)
  BY <1>0, <1>3 DEF Request, StopOnError, EndTurnWithoutTools, LoopReturns, EndSequentialBatch,
                    LoopRecord
<1>4. CASE \E mode \in {"sequential", "parallel"} : ExecuteToolCalls(r, mode)
  BY <1>0, <1>4 DEF ExecuteToolCalls, LoopRecord
<1>5. CASE LaunchCalls(r) \/ ReportResults(r)
  BY <1>0, <1>5 DEF LaunchCalls, ReportResults, LoopRecord
<1>6. ASSUME NEW c \in Calls(r),
             StartCall(r, c) \/ RefuseCall(r, c) \/ PrepareCall(r, c) \/ FinishCall(r, c)
      PROVE  loop'[r].ctx = loop[r].ctx
  BY <1>0, <1>6 DEF StartCall, RefuseCall, PrepareCall, FinishCall, LoopRecord
<1> QED BY <1>1, <1>2, <1>3, <1>4, <1>5, <1>6 DEF LoopStep

LEMMA RunContext ==
  ASSUME Steady, Locked, Linear, NEW r \in Runs, Faithful(r), RunStep(r)
  PROVE  CtxEffect(r)
<1>0. /\ frame \in [Runs -> FrameRecord] /\ loop \in [Runs -> LoopRecord]
      /\ frame[r] \in FrameRecord /\ loop[r] \in LoopRecord /\ loop[r].ctx \in Seq(Messages)
      /\ HarnessTypes /\ RunShape(r) /\ LoopTypeOK /\ StoreTypes /\ Transcript \in Seq(Messages)
      /\ \A q \in Runs : frame[q] \in FrameRecord
  BY RecordFacts, TranscriptType DEF Steady, TypesInv, HarnessTypes, LoopShape, LoopTypeOK
<1> USE DEF CtxEffect
<1>1. ASSUME frame'[r].stage # "running" \/ loop'[r].pc \notin CtxStates PROVE CtxEffect(r)
  BY <1>1 DEF InUse
<1>2. ASSUME RunThrows(r) PROVE CtxEffect(r)
  <2>1. loop'[r].pc \in {"failing", "dead"}
    BY <1>0, <1>2 DEF RunThrows, ReportFailure, GiveUp, LoopRecord
  <2> QED BY <1>1, <2>1 DEF CtxStates, BatchStates
<1>3. ASSUME loop'[r].pc = loop[r].pc, loop'[r].ctx = loop[r].ctx,
             frame'[r].stage = "running" => frame[r].stage = "running"
      PROVE  CtxEffect(r)
  BY <1>3 DEF InUse
<1>4. CASE StartLoop(r)
  <2>0. PICK ms : ms = frame[r].msgs
    OBVIOUS
  <2> DEFINE c == frame[r].snap \o ms
  <2>1. loop' = [loop EXCEPT ![r] = [Unused EXCEPT !.pc = "steering", !.ctx = c]]
    BY <1>4, <2>0 DEF StartLoop, RunAgentLoop
  <2>2. c = Transcript \o ms
    BY <1>4 DEF StartLoop, Faithful, SnapIsSession
  <2>3. ms \in Seq(Plain)
    <3>1. ms \in Seq(Inputs)
      BY <1>0, <2>0 DEF FrameRecord
    <3> QED BY <3>1, InputsSpoken, SpokenPlain
  <2> HIDE DEF c
  <2>4. loop'[r].ctx = c
    BY <1>0, <2>1 DEF Unused
  <2> QED BY <2>2, <2>3, <2>4
<1>5. CASE NextTurnState(r)
  <2>1. ASSUME TurnPrepared(r, Branch) PROVE CtxEffect(r)
    <3> DEFINE t == Transcript
    <3>1. loop' = [loop EXCEPT ![r].pc = "steering", ![r].ctx = t]
      BY <1>0, <2>1, BranchIsTranscript DEF TurnPrepared
    <3> HIDE DEF t
    <3>2. loop'[r].ctx = t
      BY <1>0, <3>1 DEF LoopRecord
    <3>3. t = t \o <<>> /\ <<>> \in Seq(Plain)
      <4>1. t \in Seq(Messages)
        BY <1>0 DEF t
      <4> QED BY <4>1, ConcatEmptySeq
    <3> QED BY <3>2, <3>3 DEF t
  <2> QED BY <1>2, <1>5, <2>1 DEF NextTurnState, NextTurnContext
<1>6. CASE frame[r].stage = "running" /\ LoopStep(r) /\ UNCHANGED <<frame, otherVars>>
  <2>1. CASE loop'[r].pc \in CtxStates
    <3>1. LoopEffect(r)
      BY <1>0, <1>6, LoopStepEffect
    <3>2. InUse(r)
      <4>1. loop[r].pc \notin CtxStates =>
              loop[r].pc \in {"unused", "turnEnd", "ending", "returned", "failing", "dead"}
        BY <1>0 DEF LoopRecord, LoopStates, CtxStates, BatchStates
      <4>2. loop[r].pc \in CtxStates
        BY <2>1, <3>1, <4>1 DEF LoopEffect, CtxStates, BatchStates
      <4> QED BY <1>6, <4>2 DEF InUse
    <3> QED BY <1>0, <1>6, <2>1, <3>2, LoopStepContext
  <2> QED BY <1>1, <2>1
<1>7. ASSUME NEW c \in Calls(r), EndCall(r, c) PROVE CtxEffect(r)
  <2>1. CASE CallEnded(r, c) /\ UNCHANGED frame
    BY <1>0, <1>3, <2>1 DEF CallEnded, LoopRecord
  <2> QED BY <1>2, <1>7, <2>1 DEF EndCall
<1>8. CASE DrainSteering(r) \/ DrainFollowUps(r) \/ Drained(r)
  <2>0. loop[r].pc \in CtxStates /\ loop[r].pc \in {"steering", "followUp"}
    BY <1>0, <1>8 DEF DrainSteering, DrainFollowUps, Drained, At, CtxStates, RunShape
  <2>1. frame'[r].stage = frame[r].stage
    <3>1. ASSUME NEW taken, frame' = [frame EXCEPT ![r].step = "drain", ![r].held = taken]
          PROVE  frame'[r].stage = frame[r].stage
      BY <1>0, <3>1 DEF FrameRecord
    <3>2. CASE Drained(r)
      BY <1>0, <3>2 DEF Drained, FrameRecord
    <3> QED BY <1>8, <3>1, <3>2 DEF DrainSteering, DrainFollowUps
  <2>2. ASSUME NEW msgs \in Seq(Spoken), EnterTurn(r, msgs) PROVE CtxEffect(r)
    <3> DEFINE c == loop[r].ctx \o msgs
    <3>1. loop' = [loop EXCEPT ![r].pc = "stream", ![r].first = FALSE, ![r].ctx = c]
      BY <2>2 DEF EnterTurn
    <3> HIDE DEF c
    <3>2. loop'[r].ctx = c
      BY <1>0, <3>1 DEF LoopRecord
    <3>3. msgs \in Seq(Plain)
      BY SpokenPlain
    <3>4. InUse(r)' => InUse(r)
      BY <2>0, <2>1 DEF InUse
    <3> QED BY <3>2, <3>3, <3>4 DEF c
  <2>3. ASSUME NEW msgs \in Seq(Spoken), SteeringPolled(r, msgs) \/ FollowUpPolled(r, msgs)
        PROVE  CtxEffect(r)
    <3>1. CASE EnterTurn(r, msgs)
      BY <2>2, <2>3, <3>1
    <3>2. CASE loop' = [loop EXCEPT ![r].pc = "followUp"] \/ loop' = [loop EXCEPT ![r].pc = "ending"]
      <4>1. loop'[r].ctx = loop[r].ctx
        BY <1>0, <3>2 DEF LoopRecord
      <4> QED BY <2>0, <2>1, <4>1 DEF InUse
    <3> QED BY <2>3, <3>1, <3>2 DEF SteeringPolled, FollowUpPolled
  <2>4. CASE Drained(r)
    <3>1. frame[r].held \in Seq(Inputs)
      BY <1>0 DEF FrameRecord
    <3> QED BY <2>3, <2>4, <3>1, InputsSpoken DEF Drained
  <2>5. CASE DrainSteering(r) \/ DrainFollowUps(r)
    <3>1. <<>> \in Seq(Spoken)
      OBVIOUS
    <3>2. CASE UNCHANGED loopVars
      BY <1>3, <2>1, <3>2 DEF loopVars
    <3> QED BY <2>3, <2>5, <3>1, <3>2 DEF DrainSteering, DrainFollowUps
  <2> QED BY <1>8, <2>4, <2>5
<1>9. CASE NotifyMessage(r) \/ NotifyPlain(r) \/ SavePoint(r) \/ NotifyAgentEnd(r)
  <2>1. ASSUME Handled(r) PROVE CtxEffect(r)
    <3>1. loop' = loop /\ frame'[r].stage = frame[r].stage
      BY <1>0, <2>1 DEF Handled, FrameRecord
    <3> QED BY <1>3, <3>1
  <2> QED BY <1>2, <1>9, <2>1 DEF NotifyMessage, NotifyPlain, SavePoint, NotifyAgentEnd, Notified
<1>10. CASE DrainFails(r)
  BY <1>2, <1>10 DEF DrainFails
<1>11. CASE PromptFails(r) \/ FinishRun(r)
  BY <1>0, <1>1, <1>11 DEF PromptFails, FinishRun, FinishRunAt, NewFrame
<1>12. CASE EnterFinally(r)
  BY <1>0, <1>1, <1>12 DEF EnterFinally, FrameRecord
<1>13. CASE CreateTurnState(r) \/ TakeNextTurn(r) \/ NextTurnTaken(r)
  <2>1. frame'[r].stage \in {"queue", "queueUpdate", "hook"}
    BY <1>0, <1>13 DEF CreateTurnState, TakeNextTurn, NextTurnTaken, FrameRecord
  <2> QED BY <1>1, <2>1
<1>14. CASE FlushWrite(r) \/ FlushWritten(r) \/ FlushEnds(r) \/ PersistMessage(r)
            \/ MessagePersisted(r) \/ FlushAtEnd(r) \/ ReleasePhase(r) \/ PrepareNextTurn(r)
  <2>1. loop' = loop
    BY <1>14 DEF FlushWrite, FlushWritten, FlushLeaves, FlushEnds, PersistMessage,
         MessagePersisted, FlushAtEnd, ReleasePhase, PrepareNextTurn, loopVars
  <2>2. frame'[r].stage = frame[r].stage
    <3>1. ASSUME NEW step, frame' = [frame EXCEPT ![r].step = step]
          PROVE  frame'[r].stage = frame[r].stage
      BY <1>0, <3>1 DEF FrameRecord
    <3> QED BY <1>14, <3>1 DEF FlushWrite, FlushWritten, FlushLeaves, FlushEnds, PersistMessage,
         MessagePersisted, FlushAtEnd, ReleasePhase, PrepareNextTurn
  <2> QED BY <1>3, <2>1, <2>2
<1>15. CASE NotifyTurnEnd(r)
  <2>1. PICK error : frame' = [frame EXCEPT ![r].step = "flush", ![r].error = error]
    BY <1>15 DEF NotifyTurnEnd
  <2>2. loop' = loop /\ frame'[r].stage = frame[r].stage
    BY <1>0, <1>15, <2>1 DEF NotifyTurnEnd, FrameRecord, loopVars
  <2> QED BY <1>3, <2>2
<1> QED BY <1>4, <1>5, <1>6, <1>7, <1>8, <1>9, <1>10, <1>11, <1>12, <1>13, <1>14, <1>15 DEF RunStep

(* Only a run that persists its events appends the result of a tool.         *)
PlainAppends ==
  \A a \in Actors : io[a] # NoIO /\ io[a].m.role = "toolResult" =>
    a \in Runs /\ frame[a].step = "append"

Ordered == /\ Follows(Transcript) /\ PlainAppends
           /\ \A r \in Runs : InUse(r) => Follows(loop[r].ctx)

(* A run that is persisting goes on until it has.                            *)
LEMMA PersistingGoesOn ==
  ASSUME Steady, NEW r \in Runs, RunStep(r), frame[r].step = "append"
  PROVE  io'[r] = NoIO \/ frame'[r].step = "append"
<1>0. /\ io \in [Actors -> [m : Messages \cup {NoMessage}, parent : Nat]] /\ r \in Actors
      /\ HarnessTypes /\ RunShape(r) /\ LoopTypeOK /\ Batch(r)
  BY DEF Steady, TypesInv, HarnessTypes, StoreTypes, Actors, LoopShape
<1>1. out[r] # <<>> /\ out[r][1].type = "message_end" /\ frame[r].stage \in {"running", "reporting"}
  BY <1>0 DEF RunShape
<1>2. CASE MessagePersisted(r)
  BY <1>0, <1>2 DEF MessagePersisted, CommitAppend
<1>3. CASE frame[r].stage = "running" /\ LoopStep(r) /\ UNCHANGED <<frame, otherVars>>
  BY <1>3
<1>4. ASSUME NEW c \in Calls(r), EndCall(r, c) PROVE frame'[r].step = "append"
  <2>1. With(r, {"running", "ending"}) = {}
    <3>1. loop[r].pc \notin {"failing", "dead"}
      BY <1>0, <1>4 DEF EndCall, RunShape
    <3> QED BY <1>0, <1>1, <3>1, QuietBatch
  <2>2. c \in With(r, {"running", "ending"})
    BY <1>4 DEF EndCall, CallEnded, With
  <2> QED BY <2>1, <2>2
<1>5. ~(CreateTurnState(r) \/ TakeNextTurn(r) \/ NextTurnTaken(r) \/ StartLoop(r) \/ PromptFails(r)
        \/ FlushWrite(r) \/ FlushWritten(r) \/ FlushEnds(r) \/ FinishRun(r))
  BY <1>1 DEF CreateTurnState, TakeNextTurn, NextTurnTaken, StartLoop, PromptFails, FlushWrite,
       FlushWritten, FlushLeaves, FlushEnds, Flushing, FinishRun, FinishRunAt
<1>6. ~(PersistMessage(r) \/ NotifyMessage(r) \/ NotifyPlain(r) \/ NotifyTurnEnd(r)
        \/ SavePoint(r) \/ FlushAtEnd(r) \/ ReleasePhase(r) \/ NotifyAgentEnd(r))
  BY DEF PersistMessage, NotifyMessage, NotifyPlain, NotifyTurnEnd, SavePoint, FlushAtEnd,
         ReleasePhase, NotifyAgentEnd, Handling
<1>7. ~(DrainSteering(r) \/ DrainFollowUps(r) \/ Drained(r) \/ DrainFails(r)
        \/ PrepareNextTurn(r) \/ NextTurnState(r))
  BY DEF DrainSteering, DrainFollowUps, Drained, DrainFails, PrepareNextTurn, NextTurnState,
         NextTurnContext
<1>8. ~EnterFinally(r)
  BY <1>0, <1>1 DEF EnterFinally, RunShape
<1> QED BY <1>2, <1>3, <1>4, <1>5, <1>6, <1>7, <1>8 DEF RunStep

LEMMA PlainAppendsStep == Steady /\ Locked /\ PlainAppends /\ [Next]_vars => PlainAppends'
<1> SUFFICES ASSUME Steady, Locked, PlainAppends, [Next]_vars,
                    NEW a \in Actors, io'[a] # NoIO, io'[a].m.role = "toolResult"
             PROVE  a \in Runs /\ frame'[a].step = "append"
  BY DEF PlainAppends
<1>0. /\ io \in [Actors -> [m : Messages \cup {NoMessage}, parent : Nat]]
      /\ frame \in [Runs -> FrameRecord] /\ \A r \in Runs : frame[r] \in FrameRecord
      /\ pendingSessionWrites \in Seq(Writes)
      /\ \A w \in Writes : w.role = "user"
      /\ HarnessTypes /\ Client \in Actors \ Runs /\ Compactor \in Actors \ Runs
      /\ Runs \subseteq Actors
  BY ActorsDiffer DEF Steady, TypesInv, HarnessTypes, StoreTypes, QueueTypes, Writes, Actors
<1>1. io'[a] = io[a] => a \in Runs /\ frame[a].step = "append"
  BY DEF PlainAppends
<1>2. ASSUME NEW b \in Actors, io' = [io EXCEPT ![b] = NoIO] PROVE a # b /\ io'[a] = io[a]
  BY <1>0, <1>2
<1>3. ASSUME NEW b \in Actors, NEW m, m.role # "toolResult", BeginAppend(b, m)
      PROVE  a # b /\ io'[a] = io[a]
  <2>1. a # b
    BY <1>0, <1>3 DEF BeginAppend
  <2> QED BY <1>0, <1>3, <2>1 DEF BeginAppend
<1>4. ASSUME NEW r \in Runs, RunStep(r) PROVE a \in Runs /\ frame'[a].step = "append"
  <2>1. CASE a = r
    <3>1. CASE io'[a] = io[a]
      BY <1>1, <1>4, <2>1, <3>1, PersistingGoesOn
    <3>2. CASE io'[a] # io[a]
      <4>1. FlushWrite(r) \/ PersistMessage(r)
        <5>1. ~(FlushWritten(r) \/ MessagePersisted(r))
          BY <1>0, <1>2, <2>1, <3>2 DEF FlushWritten, FlushLeaves, MessagePersisted, CommitAppend
        <5>2. io' # io
          BY <3>2
        <5> QED BY <1>4, <5>1, <5>2 DEF RunStep, CreateTurnState, NextTurnTaken, NotifyMessage,
             NotifyPlain, NotifyTurnEnd, SavePoint, FlushAtEnd, NotifyAgentEnd, EndCall, Drained,
             PrepareNextTurn, NextTurnState, NextTurnContext, EnterFinally, FlushEnds, otherVars,
             storeVars, TakeNextTurn, PromptFails, StartLoop, ReleasePhase, FinishRun, FinishRunAt,
             DrainSteering, DrainFollowUps, DrainFails
      <4>2. ~FlushWrite(r)
        <5>1. ASSUME FlushWrite(r) PROVE pendingSessionWrites[1].role = "user"
          BY <1>0, <5>1 DEF FlushWrite
        <5> QED BY <1>0, <1>3, <2>1, <5>1 DEF FlushWrite
      <4>3. CASE PersistMessage(r)
        BY <1>0, <2>1, <4>3 DEF PersistMessage, FrameRecord
      <4> QED BY <4>1, <4>2, <4>3
    <3> QED BY <3>1, <3>2
  <2>2. CASE a # r
    <3>1. io'[a] = io[a]
      BY <1>4, <2>2, RunAppendsKept DEF Steady
    <3>2. frame'[a] = frame[a]
      BY <1>0, <1>1, <1>4, <2>2, <3>1, OthersStay
    <3> QED BY <1>1, <3>1, <3>2
  <2> QED BY <2>1, <2>2
<1>5. ASSUME io'[a] = io[a], \A r \in Runs : frame'[r].step = frame[r].step
      PROVE  a \in Runs /\ frame'[a].step = "append"
  BY <1>1, <1>5
<1>6. ASSUME NEW r \in Runs, Prompt(r) PROVE a \in Runs /\ frame'[a].step = "append"
  <2>1. io' = io /\ \A q \in Runs : frame'[q].step = frame[q].step
    BY <1>0, <1>6 DEF Prompt, BeginPrompt, FrameRecord, storeVars
  <2> QED BY <1>5, <2>1
<1>7. CASE Abort
  <2>1. io' = io /\ \A q \in Runs : frame'[q].step = frame[q].step
    BY <1>0, <1>7 DEF Abort, AbortRun, FrameRecord, storeVars
  <2> QED BY <1>5, <2>1
<1>8. CASE WriteIdle
  <2>1. NewWrite.role # "toolResult"
    BY DEF NewWrite, UserMessage
  <2> QED BY <1>0, <1>3, <1>5, <1>8, <2>1 DEF WriteIdle, WriteNow
<1>9. CASE IdleWritten
  BY <1>0, <1>2, <1>5, <1>9 DEF IdleWritten, CommitAppend
<1>10. CASE AppendCompaction
  <2> DEFINE m == AssistantMessage("stop", 0)
  <2>1. m.role # "toolResult"
    BY DEF AssistantMessage
  <2>2. BeginAppend(Compactor, m) /\ frame' = frame
    BY <1>10 DEF AppendCompaction, AppendSummary, BeginAppend
  <2> HIDE DEF m
  <2> QED BY <1>0, <1>3, <1>5, <2>1, <2>2
<1>11. CASE CompactEnds
  BY <1>0, <1>2, <1>5, <1>11 DEF CompactEnds, CommitAppend
<1>12. CASE UNCHANGED vars \/ Steer \/ FollowUp \/ NextTurn \/ DeferWrite \/ Compact
            \/ AbortWaits \/ AbortReturns
  <2>1. io' = io /\ frame' = frame
    BY <1>12 DEF vars, Steer, FollowUp, NextTurn, DeferWrite, PutOff, Compact, AbortWaits,
                 AbortReturns, AbortOver, otherVars, storeVars
  <2> QED BY <1>5, <2>1
<1> QED BY <1>4, <1>6, <1>7, <1>8, <1>9, <1>10, <1>11, <1>12 DEF Next, ClientStep, Continuations

(* What is committed next still follows the calls of the run.                *)
LEMMA SessionFollowsStep ==
  ASSUME Steady, Locked, Lineal, Ordered, NEW a \in Actors, CommitAppend(a)
  PROVE  Follows(Transcript)'
<1>0. /\ HarnessTypes /\ StoreTypes /\ LoopTypeOK
      /\ Transcript \in Seq(Messages) /\ io[a] # NoIO
      /\ Transcript' = Append(Transcript, io[a].m) /\ io[a].m \in Messages
  BY TranscriptType, TranscriptGrows DEF Steady, TypesInv, HarnessTypes, LoopShape, CommitAppend
<1>1. PICK m \in Messages : m = io[a].m
  BY <1>0
<1> DEFINE t == Transcript
<1>2. t \in Seq(Messages) /\ Follows(t)
  BY <1>0 DEF Ordered
<1>3. Append(t, m) = t \o <<m>>
  BY <1>1, <1>2, AppendIsConcat
<1> HIDE DEF t
<1>4. CASE m.role # "toolResult"
  <2>1. <<m>> \in Seq(Plain)
    <3>1. m \in Plain
      BY <1>4 DEF Plain
    <3> QED BY <3>1
  <2>2. Follows(t \o <<m>>)
    BY <1>2, <2>1, FollowsPlain
  <2> QED BY <1>0, <1>1, <1>3, <2>2 DEF t
<1>5. CASE m.role = "toolResult"
  <2>1. a \in Runs /\ frame[a].step = "append"
    BY <1>0, <1>1, <1>5 DEF Ordered, PlainAppends
  <2>2. RunShape(a) /\ Batch(a) /\ Faithful(a) /\ frame[a] \in FrameRecord
    BY <2>1 DEF Steady, TypesInv, HarnessTypes, Lineal
  <2>3. out[a] # <<>> /\ out[a][1].type = "message_end" /\ m = out[a][1].msg
    BY <1>0, <1>1, <2>1, <2>2 DEF RunShape, Faithful, PersistsHead
  <2>4. InUse(a)
    <3>1. loop[a].pc \in {"tools", "batchEnd"}
      BY <1>0, <1>5, <2>1, <2>3, HeadFits DEF Fits, Speakable
    <3>2. frame[a].stage = "running"
      BY <2>1, <2>2, <3>1 DEF RunShape
    <3> QED BY <3>1, <3>2 DEF InUse, CtxStates, BatchStates
  <2>5. PICK rest \in Seq(Messages) : Said(a) = t \o rest /\ Announced(a, rest)
    BY <2>2, <2>4 DEF Faithful, InStep, t
  <2>6. rest # <<>> /\ out[a] = <<MessageEvent("message_end", rest[1])>> \o MessageEvents(Tail(rest))
    BY <2>1, <2>5 DEF Announced
  <2> DEFINE u == Tail(rest)
             e == MessageEvent("message_end", rest[1])
  <2>7. rest[1] \in Messages /\ u \in Seq(Messages) /\ rest = <<rest[1]>> \o u
    BY <2>6, EventsOfSome
  <2>8. e \in Events /\ e.msg = rest[1]
    BY <2>7, EventShapes DEF EventTypes, MessageEvent
  <2>9. out[a] = <<e>> \o MessageEvents(u)
    BY <2>6
  <2> HIDE DEF u, e
  <2>10. rest = <<m>> \o u
    <3>1. out[a][1] = e
      BY <2>7, <2>8, <2>9, EventsAfter, MessageEventsAre
    <3> QED BY <2>3, <2>7, <2>8, <3>1
  <2> DEFINE h == <<m>>
  <2>11. h \in Seq(Messages) /\ Said(a) = t \o (h \o u) /\ Transcript' = t \o h
    BY <1>0, <1>1, <1>3, <2>5, <2>10 DEF t
  <2> HIDE DEF h
  <2>12. h \in Seq(Messages) /\ t \in Seq(Messages) /\ u \in Seq(Messages)
    BY <1>2, <2>7, <2>11
  <2>13. t \o h \in Seq(Messages) /\ (t \o h) \o u = t \o (h \o u)
    BY <2>12, ConcatAssociative
  <2>14. Follows(Said(a))
    BY <1>0, <2>1, <2>2, <2>4, FollowsSaid DEF Ordered
  <2>15. Follows(t \o h)
    <3> DEFINE g == t \o h
    <3>1. g \in Seq(Messages) /\ Follows(g \o u)
      BY <2>11, <2>13, <2>14
    <3> HIDE DEF g
    <3>2. Follows(g)
      BY <2>12, <3>1, FollowsPrefix
    <3> QED BY <3>2 DEF g
  <2> QED BY <2>11, <2>15
<1> QED BY <1>4, <1>5

LEMMA OrderedStep ==
  ASSUME ~Overlap
  PROVE  Steady /\ Locked /\ Lineal /\ Ordered /\ [Next]_vars => Ordered'
<1> SUFFICES ASSUME Steady, Locked, Lineal, Ordered, [Next]_vars PROVE Ordered'
  OBVIOUS
<1>0. /\ frame \in [Runs -> FrameRecord] /\ loop \in [Runs -> LoopRecord]
      /\ \A r \in Runs : frame[r] \in FrameRecord /\ loop[r] \in LoopRecord
      /\ HarnessTypes /\ StoreTypes /\ LoopTypeOK
      /\ Transcript \in Seq(Messages)
  BY TranscriptType DEF Steady, TypesInv, HarnessTypes, LoopShape, LoopTypeOK
<1>1. Follows(Transcript)'
  <2>1. CASE log' = log
    BY <2>1 DEF Ordered, Transcript
  <2>2. CASE \E a \in Actors : CommitAppend(a)
    BY <2>2, SessionFollowsStep
  <2> QED BY <2>1, <2>2, StoreStep
<1>2. PlainAppends'
  BY PlainAppendsStep DEF Ordered
<1>3. ASSUME NEW r \in Runs, InUse(r)' PROVE Follows(loop'[r].ctx)
  <2>1. ASSUME loop'[r].pc = loop[r].pc, loop'[r].ctx = loop[r].ctx,
               frame'[r].stage = frame[r].stage
        PROVE  Follows(loop'[r].ctx)
    BY <1>3, <2>1 DEF Ordered, InUse
  <2>2. CASE RunStep(r)
    <3>1. CtxEffect(r)
      BY <2>2, RunContext DEF Lineal
    <3>2. ASSUME InUse(r), NEW msgs \in Seq(Plain), loop'[r].ctx = loop[r].ctx \o msgs
          PROVE  Follows(loop'[r].ctx)
      <4>1. Follows(loop[r].ctx) /\ loop[r].ctx \in Seq(Messages)
        BY <1>0, <3>2, RecordFacts DEF Ordered
      <4> QED BY <3>2, <4>1, FollowsPlain
    <3>3. ASSUME NEW msgs \in Seq(Plain), loop'[r].ctx = Transcript \o msgs
          PROVE  Follows(loop'[r].ctx)
      BY <1>0, <3>3, FollowsPlain DEF Ordered
    <3> QED BY <1>3, <3>1, <3>2, <3>3 DEF CtxEffect, Ordered
  <2>3. ASSUME NEW q \in Runs \ {r}, RunStep(q) PROVE Follows(loop'[r].ctx)
    BY <1>0, <2>1, <2>3, OthersStay
  <2>4. ASSUME NEW q \in Runs, Prompt(q) PROVE Follows(loop'[r].ctx)
    <3>1. loop' = loop /\ frame'[r].stage \in {frame[r].stage, "snapshot"}
      BY <1>0, <2>4 DEF Prompt, BeginPrompt, FrameRecord, loopVars
    <3> QED BY <1>3, <2>1, <3>1 DEF InUse
  <2>5. CASE Abort
    <3>1. /\ loop' = IF runAbortController = NoRun THEN loop
                     ELSE [loop EXCEPT ![runAbortController].aborted = TRUE]
          /\ frame' = [q \in Runs |-> [frame[q] EXCEPT !.orphan = frame[q].step = "drain"]]
      BY <2>5 DEF Abort, AbortRun
    <3>2. loop'[r].pc = loop[r].pc /\ loop'[r].ctx = loop[r].ctx
      BY <1>0, <3>1 DEF LoopRecord
    <3>3. frame'[r].stage = frame[r].stage
      BY <1>0, <3>1 DEF FrameRecord
    <3> QED BY <2>1, <3>2, <3>3
  <2>6. CASE UNCHANGED <<loop, frame>>
    BY <2>1, <2>6
  <2> QED BY <2>2, <2>3, <2>4, <2>5, <2>6 DEF Next, ClientStep, Continuations, vars, loopVars,
       Steer, FollowUp, NextTurn, DeferWrite, PutOff, WriteIdle, WriteNow, Compact, IdleWritten,
       AppendCompaction, AppendSummary, CompactEnds, AbortWaits, AbortReturns, AbortOver
<1> QED BY <1>1, <1>2, <1>3 DEF Ordered

LEMMA OrderedInit == Init => Ordered
<1> SUFFICES ASSUME Init PROVE Ordered
  OBVIOUS
<1>1. PlainAppends
  BY DEF Init, PlainAppends
<1>2. \A r \in Runs : ~InUse(r)
  BY DEF Init, NewFrame, InUse
<1>3. Follows(Transcript)
  <2>1. Len(log) = 0
    BY DEF Init
  <2>2. Transcript = <<>>
    BY <2>1 DEF Transcript
  <2> QED BY <2>2 DEF Follows
<1> QED BY <1>1, <1>2, <1>3 DEF Ordered

LEMMA OrderedGives == Steady /\ Lineal /\ Ordered => TranscriptIsLinear
<1> SUFFICES ASSUME Steady, Lineal, Ordered, NEW i \in 1..Len(log)
             PROVE  /\ log[i].parent = i - 1
                    /\ log[i].m.role = "toolResult" => FollowsItsCall(i)
  BY DEF TranscriptIsLinear
<1>0. Len(log) \in Nat /\ Len(Transcript) = Len(log)
  BY TranscriptType DEF Steady, TypesInv, HarnessTypes, StoreTypes
<1>1. log[i].parent = i - 1
  BY DEF Lineal, Linear
<1>2. ASSUME log[i].m.role = "toolResult" PROVE FollowsItsCall(i)
  <2>1. Transcript[i] = log[i].m /\ (i > 1 => Transcript[i - 1] = log[i - 1].m)
    BY <1>0 DEF Transcript
  <2>2. /\ i > 1
        /\ \/ Transcript[i - 1].role = "toolResult" /\ Transcript[i - 1].n + 1 = Transcript[i].n
           \/ Transcript[i - 1].kind = "toolUse" /\ Transcript[i].n = 1
    <3> HIDE DEF Transcript
    <3> QED BY <1>0, <1>2, <2>1 DEF Ordered, Follows
  <2> QED BY <2>1, <2>2 DEF FollowsItsCall
<1> QED BY <1>1, <1>2

LEMMA OrderedAlways == ASSUME ~Overlap PROVE Spec => [](Steady /\ Locked /\ Lineal /\ Ordered)
<1>1. Init => Ordered
  BY OrderedInit
<1>2. Steady /\ Locked /\ Lineal /\ Ordered /\ [Next]_vars => Ordered'
  BY OrderedStep
<1>3. Spec => [](Steady /\ Locked /\ Lineal)
  BY LinealAlways
<1> QED BY <1>1, <1>2, <1>3, PTL DEF Spec

(* TranscriptIsLinear: the session a harness writes is one line, in which    *)
(* the results of tool calls come right after the message that asks for      *)
(* them, in the order of the calls.                                          *)
THEOREM SessionIsOneLine == ASSUME ~Overlap PROVE Spec => []TranscriptIsLinear
BY OrderedAlways, OrderedGives, PTL

-----------------------------------------------------------------------------
(***************************************************************************)
(* Session writes that come while the harness is busy wait in a queue: each*)
(* is written once, in order, and none is lost.  The session and the queue,*)
(* one after the other, hold the writes in the order they were made; what a*)
(* flush is appending is the head of the queue, and nobody else appends.   *)
(***************************************************************************)

-----------------------------------------------------------------------------
(* The writes that were put off.                                             *)

InSession(i) == i \in 1..Len(log) /\ log[i].m.kind = "write"
PutOffWrite(i) == InSession(i) /\ log[i].m.n \in deferred
Queued == 1..Len(pendingSessionWrites)

Numbered == /\ deferred \subseteq 1..sent
            /\ \A i \in Nat : InSession(i) => log[i].m.n \in 1..sent
            /\ \A j \in Queued : pendingSessionWrites[j].n \in deferred

(* The queue and the session, one after the other, are in the order in which *)
(* the writes were made.                                                     *)
InQueueOrder ==
  \A i, j \in Queued : i < j => pendingSessionWrites[i].n < pendingSessionWrites[j].n
InLogOrder ==
  \A i, j \in Nat : PutOffWrite(i) /\ PutOffWrite(j) /\ i < j => log[i].m.n < log[j].m.n
LogThenQueue ==
  \A i \in Nat, j \in Queued : PutOffWrite(i) => log[i].m.n < pendingSessionWrites[j].n

Kept == \A n \in deferred : \/ \E i \in Nat : InSession(i) /\ log[i].m.n = n
                            \/ \E j \in Queued : pendingSessionWrites[j].n = n

(* What is being appended is the head of the queue, or no such write.        *)
AppendsHead ==
  /\ \A r \in Runs : io[r] # NoIO =>
       /\ Flushing(r) => pendingSessionWrites # <<>> /\ io[r].m = pendingSessionWrites[1]
       /\ frame[r].step = "append" => io[r].m.kind # "write"
  /\ io[Compactor] # NoIO => io[Compactor].m.kind # "write"
  /\ io[Client] # NoIO => io[Client].m.n \in 1..sent /\ io[Client].m.n \notin deferred

Deferred == Numbered /\ InQueueOrder /\ InLogOrder /\ LogThenQueue /\ Kept /\ AppendsHead

(* What a step does to the writes.                                           *)
LEMMA WriteSteps ==
  ASSUME Steady, [Next]_vars
  PROVE  \/ UNCHANGED <<log, pendingSessionWrites, deferred>> /\ sent' \in {sent, sent + 1}
         \/ DeferWrite
         \/ \E r \in Runs : FlushWritten(r)
         \/ /\ UNCHANGED <<pendingSessionWrites, deferred, sent>>
            /\ \E a \in Actors : /\ CommitAppend(a)
                                 /\ a \in Runs => frame[a].step = "append" /\ ~Flushing(a)
<1> DEFINE Same == UNCHANGED <<log, pendingSessionWrites, deferred>> /\ sent' \in {sent, sent + 1}
           Commits == /\ UNCHANGED <<pendingSessionWrites, deferred, sent>>
                      /\ \E a \in Actors : /\ CommitAppend(a)
                                           /\ a \in Runs => frame[a].step = "append" /\ ~Flushing(a)
           Fine == Same \/ Commits \/ \E r \in Runs : FlushWritten(r)
<1>0. Client \in Actors \ Runs /\ Compactor \in Actors \ Runs /\ Runs \subseteq Actors
  BY ActorsDiffer DEF Actors
<1>1. ASSUME NEW r \in Runs, RunStep(r) PROVE Fine
  <2>1. CASE FlushWritten(r)
    BY <2>1
  <2>2. CASE MessagePersisted(r)
    <3>1. CommitAppend(r) /\ frame[r].step = "append"
          /\ UNCHANGED <<pendingSessionWrites, deferred, sent>>
      BY <2>2 DEF MessagePersisted, Handling, history
    <3>2. ~Flushing(r)
      BY <3>1 DEF Flushing, Steady, TypesInv, RunShape
    <3> QED BY <1>0, <3>1, <3>2
  <2>3. CASE CreateTurnState(r) \/ NextTurnTaken(r) \/ NotifyMessage(r) \/ NotifyPlain(r)
             \/ NotifyTurnEnd(r) \/ SavePoint(r) \/ FlushAtEnd(r) \/ NotifyAgentEnd(r)
             \/ (\E c \in Calls(r) : EndCall(r, c)) \/ Drained(r) \/ PrepareNextTurn(r)
             \/ NextTurnState(r) \/ EnterFinally(r) \/ FlushEnds(r)
             \/ (UNCHANGED otherVars)
    BY <2>3 DEF CreateTurnState, NextTurnTaken, NotifyMessage, NotifyPlain, NotifyTurnEnd,
         SavePoint, FlushAtEnd, NotifyAgentEnd, EndCall, Drained, PrepareNextTurn, NextTurnState,
         NextTurnContext, EnterFinally, FlushEnds, otherVars, storeVars, history
  <2>4. CASE TakeNextTurn(r) \/ PromptFails(r) \/ StartLoop(r) \/ ReleasePhase(r)
             \/ FinishRun(r) \/ DrainSteering(r) \/ DrainFollowUps(r) \/ DrainFails(r)
             \/ FlushWrite(r) \/ PersistMessage(r)
    BY <2>4 DEF TakeNextTurn, PromptFails, StartLoop, ReleasePhase, FinishRun, FinishRunAt,
         DrainSteering, DrainFollowUps, DrainFails, FlushWrite, PersistMessage, storeVars, history
  <2> QED BY <1>1, <2>1, <2>2, <2>3, <2>4 DEF RunStep
<1>2. CASE IdleWritten \/ CompactEnds
  <2>1. CASE UNCHANGED <<log, leaf, io>> /\ CompactEnds
    BY <2>1 DEF CompactEnds, history
  <2>2. ASSUME NEW a \in {Client, Compactor}, CommitAppend(a),
               UNCHANGED <<pendingSessionWrites, deferred, sent>>
        PROVE  Fine
    BY <1>0, <2>2
  <2> QED BY <1>2, <2>1, <2>2 DEF IdleWritten, CompactEnds, history
<1>3. ASSUME NEW r \in Runs, Prompt(r) PROVE Fine
  BY <1>3 DEF Prompt, BeginPrompt, storeVars, history
<1>4. CASE UNCHANGED vars \/ Steer \/ FollowUp \/ NextTurn \/ WriteIdle \/ Compact \/ Abort
           \/ AbortWaits \/ AbortReturns \/ AppendCompaction
  BY <1>4 DEF vars, otherVars, Steer, FollowUp, NextTurn, WriteIdle, WriteNow, Compact, Abort,
              AbortRun, AbortWaits, AbortReturns, AbortOver, AppendCompaction, AppendSummary,
              storeVars, history
<1> QED BY <1>1, <1>2, <1>3, <1>4 DEF Next, ClientStep, Continuations

(* Nothing that was put off is written: the rest is as it was.               *)
LEMMA OrderUndisturbed ==
  ASSUME Steady, Deferred, NEW a \in Actors, CommitAppend(a),
         UNCHANGED <<pendingSessionWrites, deferred, sent>>,
         io[a].m.kind = "write" => io[a].m.n \in 1..sent /\ io[a].m.n \notin deferred
  PROVE  (Numbered /\ InQueueOrder /\ InLogOrder /\ LogThenQueue /\ Kept)'
<1>0. /\ log \in Seq([m : Messages, parent : Nat]) /\ Len(log) \in Nat
      /\ io[a] \in [m : Messages, parent : Nat] /\ log' = Append(log, io[a])
  BY DEF CommitAppend, Steady, TypesInv, HarnessTypes, StoreTypes
<1>1. /\ Len(log') = Len(log) + 1 /\ (\A i \in 1..Len(log) : log'[i] = log[i])
      /\ log'[Len(log) + 1] = io[a]
  BY <1>0, AppendProperties
<1>2. ASSUME NEW i \in Nat
      PROVE  /\ InSession(i) => InSession(i)' /\ log'[i] = log[i]
             /\ InSession(i)' => InSession(i) \/ (i = Len(log) + 1 /\ io[a].m.kind = "write")
             /\ PutOffWrite(i)' <=> PutOffWrite(i)
             /\ PutOffWrite(i) => log'[i] = log[i]
  <2>1. i \in 1..Len(log) \/ i = Len(log) + 1 \/ i \notin 1..(Len(log) + 1)
    BY <1>0
  <2>2. i \in 1..Len(log) => i \in 1..(Len(log) + 1) /\ i # Len(log) + 1
    BY <1>0
  <2>3. CASE i \in 1..Len(log)
    BY <1>1, <2>2, <2>3 DEF InSession, PutOffWrite
  <2>4. CASE i = Len(log) + 1
    <3>1. i \notin 1..Len(log)
      BY <2>2, <2>4
    <3> QED BY <1>1, <2>4, <3>1 DEF InSession, PutOffWrite
  <2>5. CASE i \notin 1..(Len(log) + 1)
    BY <1>1, <2>2, <2>5 DEF InSession, PutOffWrite
  <2> QED BY <2>1, <2>3, <2>4, <2>5
<1>3. Numbered'
  <2>1. ASSUME NEW i \in Nat, InSession(i)' PROVE log'[i].m.n \in 1..sent
    BY <1>1, <1>2, <2>1 DEF Deferred, Numbered
  <2> QED BY <2>1 DEF Deferred, Numbered, Queued
<1>4. InLogOrder' /\ LogThenQueue'
  BY <1>2 DEF Deferred, InLogOrder, LogThenQueue, Queued
<1>5. Kept'
  BY <1>2 DEF Deferred, Kept, Queued
<1> QED BY <1>3, <1>4, <1>5 DEF Deferred, InQueueOrder, Queued

(* A write is put off: it goes behind all the others.                        *)
LEMMA OrderOnDefer ==
  ASSUME Steady, Deferred, DeferWrite
  PROVE  (Numbered /\ InQueueOrder /\ InLogOrder /\ LogThenQueue /\ Kept)'
<1> DEFINE P == pendingSessionWrites  w == NewWrite
<1>0. /\ P \in Seq(Writes) /\ Len(P) \in Nat /\ sent \in Nat /\ log' = log
      /\ w \in Writes /\ w.n = sent + 1 /\ sent' = sent + 1
      /\ deferred' = deferred \cup {sent + 1} /\ pendingSessionWrites' = Append(P, w)
  BY WriteTypes
     DEF Steady, TypesInv, HarnessTypes, QueueTypes, Scalars, DeferWrite, PutOff, NewWrite, UserMessage
<1> HIDE DEF w
<1>1. /\ Len(pendingSessionWrites') = Len(P) + 1
      /\ \A j \in 1..Len(P) : pendingSessionWrites'[j] = P[j]
      /\ pendingSessionWrites'[Len(P) + 1] = w
  BY <1>0, AppendProperties
<1>2. ASSUME NEW j \in Queued'
      PROVE  \/ j \in Queued /\ pendingSessionWrites'[j].n = P[j].n /\ P[j].n \in 1..sent
                /\ j <= Len(P)
             \/ j = Len(P) + 1 /\ pendingSessionWrites'[j].n = sent + 1
  <2>1. j \in 1..Len(P) \/ j = Len(P) + 1
    BY <1>0, <1>1 DEF Queued
  <2>2. CASE j \in 1..Len(P)
    <3>1. j \in Queued /\ j <= Len(P) /\ pendingSessionWrites'[j] = P[j]
      BY <1>0, <1>1, <2>2 DEF Queued
    <3>2. P[j].n \in 1..sent
      BY <3>1 DEF Deferred, Numbered
    <3> QED BY <3>1, <3>2
  <2>3. CASE j = Len(P) + 1
    <3>1. pendingSessionWrites'[j] = w /\ w.n = sent + 1
      BY <1>0, <1>1, <2>3
    <3> QED BY <2>3, <3>1
  <2> QED BY <2>1, <2>2, <2>3
<1>3. ASSUME NEW i \in Nat
      PROVE  /\ InSession(i)' <=> InSession(i)
             /\ InSession(i) => log[i].m.n \in 1..sent
             /\ PutOffWrite(i)' <=> PutOffWrite(i)
  <2>1. (InSession(i)' <=> InSession(i)) /\ (InSession(i) => log[i].m.n \in 1..sent)
    BY <1>0 DEF InSession, Deferred, Numbered
  <2>2. InSession(i) => log[i].m.n # sent + 1
    BY <1>0, <2>1
  <2> QED BY <1>0, <2>1, <2>2 DEF PutOffWrite
<1>4. Numbered'
  <2>1. deferred' \subseteq 1..(sent + 1)
    BY <1>0 DEF Deferred, Numbered
  <2>2. ASSUME NEW i \in Nat, InSession(i)' PROVE log'[i].m.n \in 1..(sent + 1)
    BY <1>0, <1>3, <2>2
  <2>3. ASSUME NEW j \in Queued' PROVE pendingSessionWrites'[j].n \in deferred'
    BY <1>0, <1>2 DEF Deferred, Numbered
  <2> QED BY <1>0, <2>1, <2>2, <2>3 DEF Numbered
<1>5. InQueueOrder'
  <2>1. SUFFICES ASSUME NEW i \in Queued', NEW j \in Queued', i < j
                 PROVE  pendingSessionWrites'[i].n < pendingSessionWrites'[j].n
    BY DEF InQueueOrder
  <2>0. i \in Nat /\ j \in Nat /\ j <= Len(P) + 1
    BY <1>0, <1>1 DEF Queued
  <2>2. /\ i \in Queued /\ pendingSessionWrites'[i].n = P[i].n /\ P[i].n \in 1..sent
    <3>1. i # Len(P) + 1
      BY <1>0, <2>0, <2>1
    <3> QED BY <1>2, <3>1
  <2>3. CASE j \in Queued
    <3>1. j # Len(P) + 1
      BY <1>0, <2>3 DEF Queued
    <3>2. pendingSessionWrites'[j].n = P[j].n
      BY <1>2, <3>1
    <3> QED BY <2>1, <2>2, <2>3, <3>2 DEF Deferred, InQueueOrder
  <2>4. CASE j \notin Queued
    <3>1. pendingSessionWrites'[j].n = sent + 1
      BY <1>2, <2>4
    <3> QED BY <1>0, <2>2, <3>1
  <2> QED BY <2>3, <2>4
<1>6. InLogOrder'
  BY <1>0, <1>3 DEF Deferred, InLogOrder
<1>7. LogThenQueue'
  <2>1. SUFFICES ASSUME NEW i \in Nat, NEW j \in Queued', PutOffWrite(i)
                 PROVE  log[i].m.n < pendingSessionWrites'[j].n
    BY <1>0, <1>3 DEF LogThenQueue
  <2>2. log[i].m.n \in 1..sent
    BY <1>3, <2>1 DEF PutOffWrite
  <2>3. CASE j \in Queued /\ pendingSessionWrites'[j].n = P[j].n
    BY <2>1, <2>3 DEF Deferred, LogThenQueue
  <2>4. CASE pendingSessionWrites'[j].n = sent + 1
    BY <1>0, <2>2, <2>4
  <2> QED BY <1>2, <2>3, <2>4
<1>8. Kept'
  <2>1. SUFFICES ASSUME NEW n \in deferred'
                 PROVE  \/ \E i \in Nat : InSession(i)' /\ log'[i].m.n = n
                        \/ \E j \in Queued' : pendingSessionWrites'[j].n = n
    BY DEF Kept
  <2>2. CASE n = sent + 1
    <3>1. Len(P) + 1 \in Queued'
      BY <1>0, <1>1 DEF Queued
    <3> QED BY <1>0, <1>1, <2>2, <3>1
  <2>3. CASE n \in deferred
    <3>1. \A j \in Queued : j \in Queued' /\ pendingSessionWrites'[j].n = P[j].n
      BY <1>0, <1>1 DEF Queued
    <3> QED BY <1>0, <1>3, <2>3, <3>1 DEF Deferred, Kept
  <2> QED BY <1>0, <2>1, <2>2, <2>3
<1> QED BY <1>4, <1>5, <1>6, <1>7, <1>8

(* The head of the queue has been written: it moves behind the session.      *)
LEMMA OrderOnFlush ==
  ASSUME Steady, Deferred, NEW r \in Runs, FlushWritten(r)
  PROVE  (Numbered /\ InQueueOrder /\ InLogOrder /\ LogThenQueue /\ Kept)'
<1> DEFINE P == pendingSessionWrites
<1>0. /\ log \in Seq([m : Messages, parent : Nat]) /\ Len(log) \in Nat
      /\ io[r] \in [m : Messages, parent : Nat] /\ log' = Append(log, io[r])
      /\ P \in Seq(Writes) /\ Len(P) \in Nat
      /\ sent' = sent /\ deferred' = deferred
  BY DEF FlushWritten, FlushLeaves, CommitAppend, Steady, TypesInv, HarnessTypes, StoreTypes,
         QueueTypes, Actors, history
<1>1. P # <<>> /\ io[r].m = P[1]
  BY DEF FlushWritten, FlushLeaves, CommitAppend, Deferred, AppendsHead
<1>2. Len(P) >= 1 /\ 1 \in Queued /\ P[1].kind = "write" /\ P[1].n \in deferred
  <2>1. Len(P) # 0
    BY <1>0, <1>1, EmptySeq
  <2>2. 1 \in 1..Len(P)
    BY <1>0, <2>1
  <2>3. P[1] \in Writes
    BY <1>0, <2>2, ElementOfSeq
  <2> QED BY <1>0, <2>1, <2>2, <2>3 DEF Queued, Writes, Deferred, Numbered
<1>3. /\ Len(log') = Len(log) + 1 /\ (\A i \in 1..Len(log) : log'[i] = log[i])
      /\ log'[Len(log) + 1] = io[r]
  BY <1>0, AppendProperties
<1>4. /\ Len(pendingSessionWrites') = Len(P) - 1
      /\ \A j \in 1..(Len(P) - 1) : pendingSessionWrites'[j] = P[j + 1]
  <2>1. pendingSessionWrites' = SubSeq(P, 2, Len(P))
    BY DEF FlushWritten, FlushLeaves
  <2>2. 2 \in 1..(Len(P) + 1) /\ Len(P) \in (2 - 1)..Len(P)
    BY <1>0, <1>2
  <2>3. /\ Len(SubSeq(P, 2, Len(P))) = Len(P) - 1
        /\ \A j \in 1..(Len(P) - 1) : SubSeq(P, 2, Len(P))[j] = P[j + 1]
    <3> DEFINE k == Len(P)  t == SubSeq(P, 2, k)
    <3>1. /\ Len(t) = IF 2 <= k THEN k - 2 + 1 ELSE 0
          /\ \A i \in 1..(k - 2 + 1) : t[i] = P[2 + i - 1]
      BY <1>0, <2>2, SubSeqProperties
    <3>2. k \in Nat /\ k >= 1 /\ \A i \in 1..(k - 1) : 2 + i - 1 = i + 1
      BY <1>0, <1>2
    <3> HIDE DEF k, t
    <3>3. Len(t) = k - 1 /\ k - 2 + 1 = k - 1
      BY <3>1, <3>2
    <3> QED BY <3>1, <3>2, <3>3 DEF k, t
  <2> QED BY <2>1, <2>3
<1>5. ASSUME NEW j \in Queued'
      PROVE  /\ j \in Nat /\ j + 1 \in Queued /\ 1 < j + 1
             /\ pendingSessionWrites'[j].n = P[j + 1].n
  <2>1. j \in 1..(Len(P) - 1)
    BY <1>4 DEF Queued
  <2> QED BY <1>0, <1>4, <2>1 DEF Queued
<1>6. ASSUME NEW i \in Nat
      PROVE  /\ InSession(i) => InSession(i)' /\ log'[i] = log[i] /\ i < Len(log) + 1
             /\ InSession(i)' => InSession(i) \/ i = Len(log) + 1
             /\ PutOffWrite(i)' <=> PutOffWrite(i) \/ i = Len(log) + 1
  <2>1. i \in 1..Len(log) \/ i = Len(log) + 1 \/ i \notin 1..(Len(log) + 1)
    BY <1>0
  <2>2. i \in 1..Len(log) => i \in 1..(Len(log) + 1) /\ i # Len(log) + 1 /\ i < Len(log) + 1
    BY <1>0
  <2>3. CASE i \in 1..Len(log)
    BY <1>0, <1>3, <2>2, <2>3 DEF InSession, PutOffWrite
  <2>4. CASE i = Len(log) + 1
    <3>1. i \notin 1..Len(log) /\ i \in 1..(Len(log) + 1)
      BY <1>0, <2>2, <2>4
    <3> QED BY <1>0, <1>1, <1>2, <1>3, <2>4, <3>1 DEF InSession, PutOffWrite
  <2>5. CASE i \notin 1..(Len(log) + 1)
    <3>1. i # Len(log) + 1
      BY <1>0, <2>5
    <3> QED BY <1>3, <2>2, <2>5, <3>1 DEF InSession, PutOffWrite
  <2> QED BY <2>1, <2>3, <2>4, <2>5
<1>13. PICK k \in Nat : k = Len(log) + 1
  BY <1>0
<1>7. InSession(k)' /\ log'[k].m.n = P[1].n
  <2>2. k \in 1..Len(log') /\ log'[k].m.kind = "write"
    BY <1>0, <1>1, <1>2, <1>3, <1>13
  <2>3. InSession(k)'
    BY <2>2 DEF InSession
  <2>4. log'[k].m.n = P[1].n
    BY <1>1, <1>3, <1>13
  <2> QED BY <2>3, <2>4
<1>8. Numbered'
  <2>1. ASSUME NEW i \in Nat, InSession(i)' PROVE log'[i].m.n \in 1..sent
    BY <1>2, <1>6, <1>7, <1>13, <2>1 DEF Deferred, Numbered
  <2>2. ASSUME NEW j \in Queued' PROVE pendingSessionWrites'[j].n \in deferred
    BY <1>5, <2>2 DEF Deferred, Numbered
  <2> QED BY <1>0, <2>1, <2>2 DEF Deferred, Numbered
<1>9. InQueueOrder'
  <2>1. SUFFICES ASSUME NEW i \in Queued', NEW j \in Queued', i < j
                 PROVE  pendingSessionWrites'[i].n < pendingSessionWrites'[j].n
    BY DEF InQueueOrder
  <2>2. i + 1 < j + 1
    BY <1>5, <2>1
  <2> QED BY <1>5, <2>1, <2>2 DEF Deferred, InQueueOrder
<1>10. InLogOrder'
  <2>1. SUFFICES ASSUME NEW i \in Nat, NEW j \in Nat, PutOffWrite(i)', PutOffWrite(j)', i < j
                 PROVE  log'[i].m.n < log'[j].m.n
    BY DEF InLogOrder
  <2>2. j <= Len(log) + 1
    <3>1. PutOffWrite(j) => j < Len(log) + 1
      BY <1>6 DEF PutOffWrite
    <3>2. j = Len(log) + 1 \/ PutOffWrite(j)
      BY <1>6, <2>1
    <3> QED BY <1>0, <3>1, <3>2
  <2>3. PutOffWrite(i) /\ log'[i] = log[i]
    <3>1. i # Len(log) + 1
      BY <1>0, <2>1, <2>2
    <3>2. PutOffWrite(i)
      BY <1>6, <2>1, <3>1
    <3> QED BY <1>6, <3>2 DEF PutOffWrite
  <2>4. CASE j = Len(log) + 1
    BY <1>2, <1>7, <1>13, <2>1, <2>3, <2>4 DEF Deferred, LogThenQueue
  <2>5. CASE j # Len(log) + 1
    BY <1>6, <2>1, <2>3, <2>5 DEF Deferred, InLogOrder, PutOffWrite
  <2> QED BY <2>4, <2>5
<1>11. LogThenQueue'
  <2>1. SUFFICES ASSUME NEW i \in Nat, NEW j \in Queued', PutOffWrite(i)'
                 PROVE  log'[i].m.n < pendingSessionWrites'[j].n
    BY DEF LogThenQueue
  <2>2. CASE i = Len(log) + 1
    BY <1>2, <1>5, <1>7, <1>13, <2>1, <2>2 DEF Deferred, InQueueOrder
  <2>3. CASE i # Len(log) + 1
    BY <1>5, <1>6, <2>1, <2>3 DEF Deferred, LogThenQueue, PutOffWrite
  <2> QED BY <2>2, <2>3
<1>12. Kept'
  <2>1. SUFFICES ASSUME NEW n \in deferred
                 PROVE  \/ \E i \in Nat : InSession(i)' /\ log'[i].m.n = n
                        \/ \E j \in Queued' : pendingSessionWrites'[j].n = n
    BY <1>0 DEF Kept
  <2>2. CASE \E i \in Nat : InSession(i) /\ log[i].m.n = n
    BY <1>6, <2>2
  <2>3. ASSUME NEW j \in Queued, P[j].n = n
        PROVE  \/ \E i \in Nat : InSession(i)' /\ log'[i].m.n = n
               \/ \E l \in Queued' : pendingSessionWrites'[l].n = n
    <3>1. CASE j = 1
      BY <1>7, <2>3, <3>1
    <3>2. CASE j # 1
      <4> DEFINE l == j - 1
      <4>1. l \in 1..(Len(P) - 1) /\ l + 1 = j
        BY <1>0, <3>2 DEF Queued
      <4> HIDE DEF l
      <4>2. l \in Queued'
        BY <1>4, <4>1 DEF Queued
      <4>3. pendingSessionWrites'[l].n = n
        BY <1>4, <2>3, <4>1
      <4> QED BY <4>2, <4>3
    <3> QED BY <3>1, <3>2
  <2> QED BY <2>1, <2>2, <2>3 DEF Deferred, Kept
<1> QED BY <1>8, <1>9, <1>10, <1>11, <1>12

-----------------------------------------------------------------------------
(* What is being appended.                                                   *)

(* Who begins to append.                                                     *)
LEMMA AppendsBegin ==
  ASSUME Steady, [Next]_vars, NEW a \in Actors, io'[a] # NoIO, io'[a] # io[a]
  PROVE  \/ a \in Runs /\ (FlushWrite(a) \/ PersistMessage(a))
         \/ a = Client /\ WriteIdle
         \/ a = Compactor /\ AppendCompaction
<1>0. /\ io \in [Actors -> [m : Messages \cup {NoMessage}, parent : Nat]]
      /\ Client \in Actors /\ Compactor \in Actors /\ Runs \subseteq Actors
  BY DEF Steady, TypesInv, HarnessTypes, StoreTypes, Actors
<1>1. ASSUME NEW b \in Actors, CommitAppend(b) PROVE FALSE
  BY <1>0, <1>1 DEF CommitAppend
<1>2. ASSUME NEW b \in Actors, NEW m, BeginAppend(b, m) PROVE a = b
  BY <1>0, <1>2 DEF BeginAppend
<1>3. io' # io
  OBVIOUS
<1>4. ASSUME NEW r \in Runs, RunStep(r) PROVE a = r /\ (FlushWrite(r) \/ PersistMessage(r))
  <2>1. a = r
    BY <1>4, RunAppendsKept DEF Steady
  <2>2. ~(FlushWritten(r) \/ MessagePersisted(r))
    BY <1>0, <1>1 DEF FlushWritten, FlushLeaves, MessagePersisted
  <2> QED BY <1>3, <1>4, <2>1, <2>2 DEF RunStep, CreateTurnState, NextTurnTaken, NotifyMessage,
       NotifyPlain, NotifyTurnEnd, SavePoint, FlushAtEnd, NotifyAgentEnd, EndCall, Drained,
       PrepareNextTurn, NextTurnState, NextTurnContext, EnterFinally, FlushEnds, otherVars,
       storeVars, TakeNextTurn, PromptFails, StartLoop, ReleasePhase, FinishRun, FinishRunAt,
       DrainSteering, DrainFollowUps, DrainFails
<1>5. WriteIdle => a = Client
  BY <1>0, <1>2 DEF WriteIdle, WriteNow
<1>6. AppendCompaction => a = Compactor
  BY <1>0 DEF AppendCompaction, AppendSummary
<1>7. ~(IdleWritten \/ CompactEnds)
  BY <1>0, <1>1, <1>3 DEF IdleWritten, CompactEnds
<1>8. ASSUME NEW r \in Runs, Prompt(r) PROVE FALSE
  BY <1>3, <1>8 DEF Prompt, BeginPrompt, storeVars
<1>9. ~(UNCHANGED vars \/ Steer \/ FollowUp \/ NextTurn \/ DeferWrite \/ Compact \/ Abort
        \/ AbortWaits \/ AbortReturns)
  BY <1>3 DEF vars, Steer, FollowUp, NextTurn, DeferWrite, PutOff, Compact, Abort, AbortRun,
              AbortWaits, AbortReturns, AbortOver, otherVars, storeVars
<1> QED BY <1>4, <1>5, <1>6, <1>7, <1>8, <1>9 DEF Next, ClientStep, Continuations

(* A run persists a message from the moment PersistMessage begins to.        *)
LEMMA BeginsToPersist ==
  ASSUME Steady, NEW r \in Runs, RunStep(r), frame'[r].step = "append"
  PROVE  frame[r].step = "append" \/ PersistMessage(r)
<1>0. /\ frame \in [Runs -> FrameRecord] /\ frame[r] \in FrameRecord
      /\ \A q \in Runs : frame[q] \in FrameRecord
  BY DEF Steady, TypesInv, HarnessTypes
<1>1. ASSUME Handled(r) \/ RunThrows(r) PROVE FALSE
  BY <1>0, <1>1 DEF Handled, RunThrows, ReportFailure, GiveUp, FrameRecord
<1>2. CASE frame' = frame
  BY <1>2
<1>3. CASE CreateTurnState(r)
  <2> DEFINE b == Branch
  <2>1. frame' = [frame EXCEPT ![r].stage = "queue", ![r].snap = b]
    BY <1>3 DEF CreateTurnState
  <2> HIDE DEF b
  <2> QED BY <1>0, <2>1 DEF FrameRecord
<1>4. CASE TakeNextTurn(r) \/ NextTurnTaken(r)
  <2>1. CASE TakeNextTurn(r)
    BY <1>0, <2>1 DEF TakeNextTurn, FrameRecord
  <2>2. CASE NextTurnTaken(r)
    <3> DEFINE c == frame[r].held \o frame[r].msgs
    <3>1. frame' = [frame EXCEPT ![r].stage = "hook", ![r].held = <<>>, ![r].msgs = c]
      BY <2>2 DEF NextTurnTaken
    <3> HIDE DEF c
    <3> QED BY <1>0, <3>1 DEF FrameRecord
  <2> QED BY <1>4, <2>1, <2>2
<1>5. CASE StartLoop(r) \/ PromptFails(r)
  BY <1>0, <1>5 DEF StartLoop, PromptFails, NewFrame, FrameRecord
<1>6. CASE FlushWrite(r) \/ FlushWritten(r) \/ FlushEnds(r) \/ FinishRun(r) \/ MessagePersisted(r)
  <2>1. CASE FlushWrite(r) \/ FlushWritten(r)
    BY <1>2, <2>1 DEF FlushWrite, FlushWritten, FlushLeaves
  <2>2. CASE FlushEnds(r) \/ MessagePersisted(r)
    BY <1>0, <2>2 DEF FlushEnds, MessagePersisted, FrameRecord
  <2>3. CASE FinishRun(r)
    <3>1. frame' = [frame EXCEPT ![r] = [NewFrame EXCEPT !.stage = "done"]]
      BY <2>3 DEF FinishRun, FinishRunAt
    <3> QED BY <1>0, <3>1 DEF NewFrame
  <2> QED BY <1>6, <2>1, <2>2, <2>3
<1>7. CASE NotifyMessage(r) \/ NotifyPlain(r) \/ SavePoint(r) \/ NotifyAgentEnd(r)
  <2>1. Handled(r) \/ RunThrows(r)
    BY <1>7 DEF NotifyMessage, NotifyPlain, SavePoint, NotifyAgentEnd, Notified
  <2> QED BY <1>1, <2>1
<1>8. CASE NotifyTurnEnd(r) \/ FlushAtEnd(r) \/ ReleasePhase(r)
  <2>1. CASE NotifyTurnEnd(r)
    <3>1. PICK error : frame' = [frame EXCEPT ![r].step = "flush", ![r].error = error]
      BY <2>1 DEF NotifyTurnEnd
    <3> QED BY <1>0, <3>1 DEF FrameRecord
  <2>2. CASE FlushAtEnd(r) \/ ReleasePhase(r)
    BY <1>0, <2>2 DEF FlushAtEnd, ReleasePhase, FrameRecord
  <2> QED BY <1>8, <2>1, <2>2
<1>9. CASE \E c \in Calls(r) : EndCall(r, c)
  BY <1>1, <1>2, <1>9 DEF EndCall
<1>10. CASE DrainSteering(r)
  BY <1>0, <1>2, <1>10 DEF DrainSteering, FrameRecord
<1>11. CASE DrainFollowUps(r)
  BY <1>0, <1>2, <1>11 DEF DrainFollowUps, FrameRecord
<1>12. CASE Drained(r) \/ DrainFails(r)
  BY <1>0, <1>1, <1>12 DEF Drained, DrainFails, FrameRecord
<1>13. CASE PrepareNextTurn(r) \/ NextTurnState(r) \/ EnterFinally(r)
  BY <1>0, <1>1, <1>2, <1>13 DEF PrepareNextTurn, NextTurnState, NextTurnContext, EnterFinally,
     FrameRecord
<1> QED BY <1>2, <1>3, <1>4, <1>5, <1>6, <1>7, <1>8, <1>9, <1>10, <1>11, <1>12, <1>13 DEF RunStep

(* While a run appends, it goes on doing what it appends for.                *)
LEMMA AppendGoesOn ==
  ASSUME Steady, [Next]_vars, NEW r \in Runs, io[r] # NoIO, io'[r] = io[r]
  PROVE  /\ frame[r].step = "append" => frame'[r].step = "append"
         /\ Flushing(r) => frame'[r].step # "append"
<1>0. /\ frame \in [Runs -> FrameRecord] /\ \A q \in Runs : frame[q] \in FrameRecord
      /\ HarnessTypes /\ RunShape(r) /\ r \in Actors
  BY DEF Steady, TypesInv, HarnessTypes, Actors
<1>1. Flushing(r) => frame[r].step # "append"
  BY <1>0 DEF Flushing, RunShape
<1>2. ASSUME frame'[r].step = frame[r].step
      PROVE  /\ frame[r].step = "append" => frame'[r].step = "append"
             /\ Flushing(r) => frame'[r].step # "append"
  BY <1>1, <1>2
<1>3. ASSUME RunStep(r)
      PROVE  /\ frame[r].step = "append" => frame'[r].step = "append"
             /\ Flushing(r) => frame'[r].step # "append"
  <2>1. ~PersistMessage(r)
    BY DEF PersistMessage, BeginAppend
  <2> QED BY <1>1, <1>3, <2>1, PersistingGoesOn, BeginsToPersist
<1>4. ASSUME NEW q \in Runs \ {r}, RunStep(q) PROVE frame'[r].step = frame[r].step
  BY <1>0, <1>4, OthersStay
<1>5. ASSUME NEW q \in Runs, Prompt(q) PROVE frame'[r].step = frame[r].step
  BY <1>0, <1>5 DEF Prompt, BeginPrompt, FrameRecord
<1>6. CASE Abort
  <2>1. frame'[r].step = frame[r].step
    BY <1>0, <1>6 DEF Abort, AbortRun, FrameRecord
  <2> QED BY <1>2, <2>1
<1>7. CASE UNCHANGED vars \/ Steer \/ FollowUp \/ NextTurn \/ DeferWrite \/ WriteIdle \/ Compact
           \/ IdleWritten \/ AppendCompaction \/ CompactEnds \/ AbortWaits \/ AbortReturns
  <2>1. frame' = frame
    BY <1>7 DEF vars, Steer, FollowUp, NextTurn, DeferWrite, PutOff, WriteIdle, WriteNow, Compact,
         IdleWritten, AppendCompaction, AppendSummary, CompactEnds, AbortWaits, AbortReturns,
         AbortOver, otherVars
  <2> QED BY <1>2, <2>1
<1> QED BY <1>2, <1>3, <1>4, <1>5, <1>6, <1>7 DEF Next, ClientStep, Continuations

LEMMA AppendsHeadStep == Steady /\ Locked /\ Deferred /\ [Next]_vars => AppendsHead'
<1> SUFFICES ASSUME Steady, Locked, Deferred, [Next]_vars PROVE AppendsHead'
  OBVIOUS
<1> DEFINE P == pendingSessionWrites
<1>0. /\ io \in [Actors -> [m : Messages \cup {NoMessage}, parent : Nat]]
      /\ frame \in [Runs -> FrameRecord] /\ \A q \in Runs : frame[q] \in FrameRecord
      /\ P \in Seq(Writes) /\ \A w \in Writes : w.kind = "write"
      /\ HarnessTypes /\ Client \in Actors \ Runs /\ Compactor \in Actors \ Runs
      /\ Runs \subseteq Actors /\ Client # Compactor /\ sent \in Nat
  BY ActorsDiffer DEF Steady, TypesInv, HarnessTypes, StoreTypes, QueueTypes, Scalars, Writes, Actors,
                      Client, Compactor
<1>1. /\ \A r \in Runs : RunAppends(r)'
      /\ \A r \in Runs : frame'[r].step = "append" => ~Flushing(r)'
  <2>1. Steady'
    BY SteadyStep
  <2> QED BY <2>1 DEF Steady, TypesInv, RunShape, Flushing
<1>2. ASSUME NEW r \in Runs, io'[r] # NoIO
      PROVE  /\ Flushing(r)' => pendingSessionWrites' # <<>> /\ io'[r].m = pendingSessionWrites'[1]
             /\ frame'[r].step = "append" => io'[r].m.kind # "write"
  <2>1. CASE io'[r] = io[r]
    <3>1. CASE frame[r].step = "append"
      <4>1. frame'[r].step = "append" /\ io[r].m.kind # "write"
        BY <1>2, <2>1, <3>1, AppendGoesOn DEF Deferred, AppendsHead
      <4> QED BY <1>1, <2>1, <4>1
    <3>2. CASE Flushing(r)
      <4>1. /\ P # <<>> /\ io[r].m = P[1] /\ frame'[r].step # "append"
        BY <1>2, <2>1, <3>2, AppendGoesOn DEF Deferred, AppendsHead
      <4>2. ~FlushWritten(r) /\ \A q \in Runs \ {r} : ~FlushWritten(q)
        <5>1. ~FlushWritten(r)
          BY <1>0, <1>2 DEF FlushWritten, FlushLeaves, CommitAppend
        <5>2. ASSUME NEW q \in Runs \ {r}, FlushWritten(q) PROVE FALSE
          <6>1. io[q] # NoIO /\ io[r] # NoIO
            BY <1>2, <2>1, <5>2 DEF FlushWritten, FlushLeaves, CommitAppend
          <6> QED BY <1>0, <6>1, OneAppends
        <5> QED BY <5>1, <5>2
      <4>3. pendingSessionWrites' # <<>> /\ pendingSessionWrites'[1] = P[1]
        <5>1. CASE DeferWrite
          <6> DEFINE w == NewWrite
          <6>1. w \in Writes /\ pendingSessionWrites' = Append(P, w)
            BY <1>0, <5>1, WriteTypes DEF DeferWrite, PutOff, NewWrite
          <6> HIDE DEF w
          <6>2. /\ Len(Append(P, w)) = Len(P) + 1 /\ Len(P) \in Nat
                /\ \A j \in 1..Len(P) : Append(P, w)[j] = P[j]
            BY <1>0, <6>1, AppendProperties
          <6>3. Len(P) # 0
            BY <1>0, <4>1, EmptySeq
          <6>4. 1 \in 1..Len(P) /\ Len(Append(P, w)) # 0
            BY <6>2, <6>3
          <6> QED BY <6>1, <6>2, <6>4
        <5>2. CASE pendingSessionWrites' = P
          BY <4>1, <5>2
        <5> QED BY <4>2, <5>1, <5>2, WriteSteps
      <4> QED BY <2>1, <4>1, <4>3
    <3> QED BY <1>2, <2>1, <3>1, <3>2 DEF Steady, RunAppends
  <2>2. CASE io'[r] # io[r]
    <3>1. FlushWrite(r) \/ PersistMessage(r)
      BY <1>0, <1>2, <2>2, AppendsBegin
    <3>2. CASE FlushWrite(r)
      <4>1. /\ P # <<>> /\ io'[r].m = P[1] /\ pendingSessionWrites' = P /\ frame' = frame
            /\ Flushing(r)
        BY <1>0, <3>2 DEF FlushWrite, BeginAppend
      <4>2. frame[r].step # "append"
        BY <4>1 DEF Steady, TypesInv, RunShape, Flushing
      <4> QED BY <4>1, <4>2
    <3>3. CASE PersistMessage(r)
      <4>1. frame'[r].step = "append" /\ io'[r].m = Head_(r).msg
        BY <1>0, <3>3 DEF PersistMessage, BeginAppend, FrameRecord
      <4>2. Head_(r).msg.kind # "write"
        <5>1. out[r] # <<>> /\ Head_(r).type = "message_end"
          BY <3>3 DEF PersistMessage, Handling
        <5> QED BY <1>0, <5>1, HeadFits DEF Fits, Speakable
      <4> QED BY <1>1, <4>1, <4>2
    <3> QED BY <3>1, <3>2, <3>3
  <2> QED BY <2>1, <2>2
<1>3. io'[Compactor] # NoIO => io'[Compactor].m.kind # "write"
  <2>1. CASE io'[Compactor] = io[Compactor]
    BY <2>1 DEF Deferred, AppendsHead
  <2>2. CASE AppendCompaction
    BY <1>0, <2>2 DEF AppendCompaction, AppendSummary, AssistantMessage
  <2> QED BY <1>0, <2>1, <2>2, AppendsBegin
<1>4. io'[Client] # NoIO => io'[Client].m.n \in 1..sent' /\ io'[Client].m.n \notin deferred'
  <2>0. deferred \subseteq 1..sent
    BY DEF Deferred, Numbered
  <2>1. CASE io'[Client] = io[Client]
    <3>1. /\ sent' \in {sent, sent + 1}
          /\ deferred' = deferred \/ (sent' = sent + 1 /\ deferred' = deferred \cup {sent + 1})
      BY WriteSteps DEF DeferWrite, PutOff, NewWrite, UserMessage, FlushWritten, FlushLeaves, history
    <3>2. io[Client] # NoIO => io[Client].m.n \in 1..sent /\ io[Client].m.n \notin deferred
      BY DEF Deferred, AppendsHead
    <3> QED BY <1>0, <2>1, <3>1, <3>2
  <2>2. CASE WriteIdle
    <3>1. io'[Client].m.n = sent + 1 /\ sent' = sent + 1 /\ deferred' = deferred
      BY <1>0, <2>2 DEF WriteIdle, WriteNow, BeginAppend, NewWrite, UserMessage, history
    <3> QED BY <1>0, <2>0, <3>1
  <2> QED BY <1>0, <2>1, <2>2, AppendsBegin
<1> QED BY <1>2, <1>3, <1>4 DEF AppendsHead

LEMMA DeferredStep == Steady /\ Locked /\ Deferred /\ [Next]_vars => Deferred'
<1> SUFFICES ASSUME Steady, Locked, Deferred, [Next]_vars PROVE Deferred'
  OBVIOUS
<1>1. CASE UNCHANGED <<log, pendingSessionWrites, deferred>> /\ sent' \in {sent, sent + 1}
  <2>1. sent \in Nat
    BY DEF Steady, TypesInv, HarnessTypes, Scalars
  <2>2. 1..sent \subseteq 1..sent'
    BY <1>1, <2>1
  <2>3. Numbered'
    BY <1>1, <2>2 DEF Deferred, Numbered, InSession, Queued
  <2>4. (InQueueOrder /\ InLogOrder /\ LogThenQueue /\ Kept)'
    BY <1>1 DEF Deferred, InQueueOrder, InLogOrder, LogThenQueue, Kept, InSession, PutOffWrite, Queued
  <2> QED BY <2>3, <2>4, AppendsHeadStep DEF Deferred
<1>2. CASE DeferWrite
  BY <1>2, OrderOnDefer, AppendsHeadStep DEF Deferred
<1>3. ASSUME NEW r \in Runs, FlushWritten(r) PROVE Deferred'
  BY <1>3, OrderOnFlush, AppendsHeadStep DEF Deferred
<1>4. CASE /\ UNCHANGED <<pendingSessionWrites, deferred, sent>>
           /\ \E a \in Actors : /\ CommitAppend(a)
                                /\ a \in Runs => frame[a].step = "append" /\ ~Flushing(a)
  <2>0. PICK a \in Actors : /\ CommitAppend(a)
                            /\ a \in Runs => frame[a].step = "append" /\ ~Flushing(a)
    BY <1>4
  <2>1. io[a].m.kind = "write" => io[a].m.n \in 1..sent /\ io[a].m.n \notin deferred
    BY <2>0 DEF CommitAppend, Deferred, AppendsHead, Actors
  <2>2. (Numbered /\ InQueueOrder /\ InLogOrder /\ LogThenQueue /\ Kept)'
    BY <1>4, <2>0, <2>1, OrderUndisturbed
  <2> QED BY <2>2, AppendsHeadStep DEF Deferred
<1> QED BY <1>1, <1>2, <1>3, <1>4, WriteSteps

LEMMA DeferredInit == Init => Deferred
<1> SUFFICES ASSUME Init PROVE Deferred
  OBVIOUS
<1>1. /\ log = <<>> /\ pendingSessionWrites = <<>> /\ deferred = {} /\ sent = 0
      /\ \A a \in Actors : io[a] = NoIO
  BY DEF Init
<1>2. Len(log) = 0 /\ Len(pendingSessionWrites) = 0
  BY <1>1
<1>3. Queued = {} /\ \A i \in Nat : ~InSession(i)
  BY <1>2 DEF Queued, InSession
<1> QED BY <1>1, <1>3 DEF Deferred, Numbered, InQueueOrder, InLogOrder, LogThenQueue, Kept,
        AppendsHead, PutOffWrite, Actors

LEMMA DeferredAlways == ASSUME ~Overlap PROVE Spec => [](Steady /\ Locked /\ Deferred)
<1>1. Init => Steady /\ Locked /\ Deferred
  BY SteadyInit, LockedInit, DeferredInit
<1>2. Steady /\ Locked /\ Deferred /\ [Next]_vars => (Steady /\ Locked /\ Deferred)'
  BY SteadyStep, LockedStep, DeferredStep
<1> QED BY <1>1, <1>2, PTL DEF Spec

LEMMA DeferredGives == Steady /\ Deferred => DeferredWrittenOnce
<1> SUFFICES ASSUME Steady, Deferred PROVE DeferredWrittenOnce
  OBVIOUS
<1>0. Len(log) \in Nat /\ Len(pendingSessionWrites) \in Nat
  BY DEF Steady, TypesInv, HarnessTypes, StoreTypes, QueueTypes
<1>1. ASSUME NEW n \in deferred
      PROVE  /\ \A i \in Written(n) : i \in Nat /\ PutOffWrite(i) /\ log[i].m.n = n
             /\ \A j \in Waiting(n) : j \in Queued /\ j \in Nat /\ pendingSessionWrites[j].n = n
             /\ n \in Nat
  <2>1. sent \in Nat /\ n \in 1..sent
    BY DEF Deferred, Numbered, Steady, TypesInv, HarnessTypes, Scalars
  <2> QED BY <1>0, <1>1, <2>1 DEF Written, Waiting, PutOffWrite, InSession, Queued
<1>2. ASSUME NEW n \in deferred
      PROVE  Cardinality(Written(n)) + Cardinality(Waiting(n)) = 1
  <2>1. \A i, j \in Written(n) : i = j
    <3>1. SUFFICES ASSUME NEW i \in Written(n), NEW j \in Written(n), i < j PROVE FALSE
      BY <1>1
    <3> QED BY <1>1, <3>1 DEF Deferred, InLogOrder
  <2>2. \A i, j \in Waiting(n) : i = j
    <3>1. SUFFICES ASSUME NEW i \in Waiting(n), NEW j \in Waiting(n), i < j PROVE FALSE
      BY <1>1
    <3> QED BY <1>1, <3>1 DEF Deferred, InQueueOrder
  <2>3. Written(n) = {} \/ Waiting(n) = {}
    <3>1. SUFFICES ASSUME NEW i \in Written(n), NEW j \in Waiting(n) PROVE FALSE
      OBVIOUS
    <3> QED BY <1>1, <3>1 DEF Deferred, LogThenQueue
  <2>4. Written(n) # {} \/ Waiting(n) # {}
    <3>1. ASSUME NEW i \in Nat, InSession(i), log[i].m.n = n PROVE i \in Written(n)
      BY <3>1 DEF InSession, Written
    <3>2. ASSUME NEW j \in Queued, pendingSessionWrites[j].n = n PROVE j \in Waiting(n)
      BY <3>2 DEF Queued, Waiting
    <3> QED BY <3>1, <3>2 DEF Deferred, Kept
  <2>5. CASE Waiting(n) = {}
    <3>1. PICK i : Written(n) = {i}
      BY <2>1, <2>4, <2>5
    <3>2. Cardinality(Written(n)) = 1
      BY <3>1, FS_Singleton
    <3>3. Cardinality(Waiting(n)) = 0
      BY <2>5, FS_EmptySet
    <3> QED BY <3>2, <3>3
  <2>6. CASE Written(n) = {}
    <3>1. PICK j : Waiting(n) = {j}
      BY <2>2, <2>4, <2>6
    <3>2. Cardinality(Waiting(n)) = 1
      BY <3>1, FS_Singleton
    <3>3. Cardinality(Written(n)) = 0
      BY <2>6, FS_EmptySet
    <3> QED BY <3>2, <3>3
  <2> QED BY <2>3, <2>5, <2>6
<1>3. ASSUME NEW m \in deferred, NEW n \in deferred, m < n, NEW i \in Written(m),
             NEW j \in Written(n)
      PROVE  i < j
  <2>1. /\ i \in Nat /\ j \in Nat /\ PutOffWrite(i) /\ PutOffWrite(j)
        /\ log[i].m.n = m /\ log[j].m.n = n /\ m \in Nat /\ n \in Nat
    BY <1>1
  <2>2. i # j /\ ~(j < i)
    BY <1>3, <2>1 DEF Deferred, InLogOrder
  <2> QED BY <2>1, <2>2
<1> QED BY <1>2, <1>3 DEF DeferredWrittenOnce

(* DeferredWrittenOnce: what appendMessage, setModel or setThinkingLevel put *)
(* off while the harness is busy is written to the session exactly once, in  *)
(* the order of the calls, although the queue is read, awaited and cut in    *)
(* steps of their own and new writes come in between.                        *)
THEOREM DeferredWritesKept == ASSUME ~Overlap PROVE Spec => []DeferredWrittenOnce
BY DeferredAlways, DeferredGives, PTL


-----------------------------------------------------------------------------
(***************************************************************************)
(* Every message given to the harness is in one place: a queue, the hands  *)
(* of a run, the session, the append of an idle write, or back with the    *)
(* caller of abort().                                                      *)
(***************************************************************************)

(* The numbers of the user's messages in a sequence, and that none is there  *)
(* twice.                                                                    *)
Told(s)   == {s[i].n : i \in {j \in 1..Len(s) : s[j].role = "user"}}
Singly(s) == \A i, j \in 1..Len(s) :
               s[i].role = "user" /\ s[j].role = "user" /\ s[i].n = s[j].n => i = j

LEMMA ToldConcat ==
  ASSUME NEW s \in Seq(Slots), NEW t \in Seq(Slots)
  PROVE  /\ s \o t \in Seq(Slots)
         /\ Told(s \o t) = Told(s) \cup Told(t)
         /\ Singly(s \o t) <=> Singly(s) /\ Singly(t) /\ Told(s) \cap Told(t) = {}
<1> DEFINE u == s \o t
           n == Len(s)
           k == Len(t)
<1>1. /\ u \in Seq(Slots) /\ Len(u) = n + k /\ n \in Nat /\ k \in Nat
      /\ \A i \in 1..n : u[i] = s[i]
      /\ \A i \in 1..k : u[n + i] = t[i]
  OBVIOUS
<1> HIDE DEF u
<1>2. \A i \in 1..n : i \in 1..Len(u)
  BY <1>1
<1>3. \A i \in 1..k : n + i \in 1..Len(u)
  BY <1>1
<1>4. \A i \in 1..Len(u) : i \in 1..n \/ (i - n \in 1..k /\ n + (i - n) = i)
  BY <1>1
<1>5. Told(u) = Told(s) \cup Told(t)
  <2>1. \A x \in Told(s) \cup Told(t) : x \in Told(u)
    <3>1. \A x \in Told(s) : x \in Told(u)
      BY <1>1, <1>2 DEF Told
    <3>2. \A x \in Told(t) : x \in Told(u)
      BY <1>1, <1>3 DEF Told
    <3> QED BY <3>1, <3>2
  <2>2. ASSUME NEW x \in Told(u) PROVE x \in Told(s) \cup Told(t)
    <3>1. PICK i \in 1..Len(u) : u[i].role = "user" /\ x = u[i].n
      BY <2>2 DEF Told
    <3>2. CASE i \in 1..n
      BY <1>1, <3>1, <3>2 DEF Told
    <3>3. CASE i - n \in 1..k /\ n + (i - n) = i
      <4>1. u[i] = t[i - n]
        BY <1>1, <3>3
      <4> QED BY <3>1, <3>3, <4>1 DEF Told
    <3> QED BY <1>4, <3>2, <3>3
  <2> QED BY <2>1, <2>2
<1>6. ASSUME Singly(u) PROVE Singly(s) /\ Singly(t) /\ Told(s) \cap Told(t) = {}
  <2>1. Singly(s)
    BY <1>1, <1>2, <1>6 DEF Singly
  <2>2. Singly(t)
    <3> SUFFICES ASSUME NEW i \in 1..k, NEW j \in 1..k, t[i].role = "user", t[j].role = "user",
                        t[i].n = t[j].n
                 PROVE  i = j
      BY DEF Singly
    <3>1. n + i = n + j
      BY <1>1, <1>3, <1>6 DEF Singly
    <3> QED BY <1>1, <3>1
  <2>3. Told(s) \cap Told(t) = {}
    <3> SUFFICES ASSUME NEW x \in Told(s), x \in Told(t) PROVE FALSE
      OBVIOUS
    <3>1. PICK i \in 1..n : s[i].role = "user" /\ x = s[i].n
      BY DEF Told
    <3>2. PICK j \in 1..k : t[j].role = "user" /\ x = t[j].n
      BY DEF Told
    <3>3. i = n + j
      BY <1>1, <1>2, <1>3, <1>6, <3>1, <3>2 DEF Singly
    <3> QED BY <1>1, <3>3
  <2> QED BY <2>1, <2>2, <2>3
<1>7. ASSUME Singly(s), Singly(t), Told(s) \cap Told(t) = {} PROVE Singly(u)
  <2> SUFFICES ASSUME NEW i \in 1..Len(u), NEW j \in 1..Len(u), u[i].role = "user",
                      u[j].role = "user", u[i].n = u[j].n
               PROVE  i = j
    BY DEF Singly
  <2>1. \A h \in 1..Len(u) : u[h].role = "user" =>
          \/ h \in 1..n /\ u[h] = s[h] /\ u[h].n \in Told(s)
          \/ /\ h - n \in 1..k /\ u[h] = t[h - n] /\ u[h].n \in Told(t)
             /\ n + (h - n) = h
    <3> SUFFICES ASSUME NEW h \in 1..Len(u), u[h].role = "user"
                 PROVE  \/ h \in 1..n /\ u[h] = s[h] /\ u[h].n \in Told(s)
                        \/ /\ h - n \in 1..k /\ u[h] = t[h - n] /\ u[h].n \in Told(t)
                           /\ n + (h - n) = h
      OBVIOUS
    <3>1. CASE h \in 1..n
      BY <1>1, <3>1 DEF Told
    <3>2. CASE h - n \in 1..k /\ n + (h - n) = h
      <4>1. u[h] = t[h - n]
        BY <1>1, <3>2
      <4> QED BY <3>2, <4>1 DEF Told
    <3> QED BY <1>4, <3>1, <3>2
  <2>2. CASE i \in 1..n /\ u[i] = s[i] /\ j \in 1..n /\ u[j] = s[j]
    BY <1>7, <2>2 DEF Singly
  <2>3. CASE /\ i - n \in 1..k /\ u[i] = t[i - n] /\ n + (i - n) = i
             /\ j - n \in 1..k /\ u[j] = t[j - n] /\ n + (j - n) = j
    <3>1. i - n = j - n
      BY <1>7, <2>3 DEF Singly
    <3> QED BY <2>3, <3>1
  <2> QED BY <1>7, <2>1, <2>2, <2>3
<1>8. Singly(u) <=> Singly(s) /\ Singly(t) /\ Told(s) \cap Told(t) = {}
  BY <1>6, <1>7
<1> QED BY <1>1, <1>5, <1>8 DEF u

LEMMA ToldNothing ==
  /\ \A s \in Seq(Slots) :
       (\A i \in 1..Len(s) : s[i].role # "user") => Told(s) = {} /\ Singly(s)
  /\ \A s \in Seq(Answers \cup {NoMessage}) : s \in Seq(Slots) /\ Told(s) = {} /\ Singly(s)
  /\ <<>> \in Seq(Slots) /\ Told(<<>>) = {} /\ Singly(<<>>)
<1>1. \A s \in Seq(Slots) :
        (\A i \in 1..Len(s) : s[i].role # "user") => Told(s) = {} /\ Singly(s)
  BY DEF Told, Singly
<1>2. \A m \in Answers \cup {NoMessage} : m \in Slots /\ m.role # "user"
  BY DEF Answers, NoMessage, Slots
<1>3. \A s \in Seq(Answers \cup {NoMessage}) : s \in Seq(Slots) /\ Told(s) = {} /\ Singly(s)
  <2> TAKE s \in Seq(Answers \cup {NoMessage})
  <2>1. \A i \in 1..Len(s) : s[i] \in Answers \cup {NoMessage}
    OBVIOUS
  <2>2. s \in Seq(Slots)
    BY <1>2, SeqMonotonic
  <2> QED BY <1>1, <1>2, <2>1, <2>2
<1>4. <<>> \in Seq(Slots) /\ Told(<<>>) = {} /\ Singly(<<>>)
  BY DEF Told, Singly
<1> QED BY <1>1, <1>3, <1>4

LEMMA ToldOne ==
  ASSUME NEW m \in Slots
  PROVE  /\ <<m>> \in Seq(Slots) /\ Singly(<<m>>)
         /\ Told(<<m>>) = IF m.role = "user" THEN {m.n} ELSE {}
<1> DEFINE s == <<m>>
<1>1. s \in Seq(Slots) /\ Len(s) = 1 /\ s[1] = m
  OBVIOUS
<1> HIDE DEF s
<1>2. Told(s) = IF m.role = "user" THEN {m.n} ELSE {}
  <2>1. 1..Len(s) = {1}
    BY <1>1
  <2> QED BY <1>1, <2>1 DEF Told
<1>3. Singly(s)
  BY <1>1 DEF Singly
<1> QED BY <1>1, <1>2, <1>3 DEF s

(* The events of messages carry what the messages tell.                      *)
LEMMA ToldEvents ==
  ASSUME NEW msgs \in Seq(Messages)
  PROVE  LET c == Carried(MessageEvents(msgs))
         IN  /\ MessageEvents(msgs) \in Seq(Events) /\ c \in Seq(Slots)
             /\ Told(c) = Told(msgs)
             /\ Singly(msgs) => Singly(c)
<1> DEFINE c == Carried(MessageEvents(msgs))
           n == Len(msgs)
<1>1. /\ c \in Seq(Slots) /\ Len(c) = 2 * n /\ n \in Nat
      /\ \A k \in 1..n : c[2 * k] = msgs[k] /\ 2 * k \in 1..(2 * n)
      /\ \A i \in 1..(2 * n) :
           \/ c[i] = NoMessage
           \/ /\ (i + 1) \div 2 \in 1..n /\ c[i] = msgs[(i + 1) \div 2]
              /\ i = 2 * ((i + 1) \div 2)
  BY CarriedMessageEvents
<1>2. NoMessage.role # "user"
  BY DEF NoMessage
<1> HIDE DEF c, n
<1>3. \A i \in 1..(2 * n) : c[i].role = "user" =>
        \E k \in 1..n : c[i] = msgs[k] /\ i = 2 * k
  <2> SUFFICES ASSUME NEW i \in 1..(2 * n), c[i].role = "user"
               PROVE  \E k \in 1..n : c[i] = msgs[k] /\ i = 2 * k
    OBVIOUS
  <2>1. c[i] # NoMessage
    BY <1>2
  <2> QED BY <1>1, <2>1
<1>4. Told(c) = Told(msgs)
  <2>1. \A x \in Told(msgs) : x \in Told(c)
    BY <1>1 DEF Told, n
  <2>2. \A x \in Told(c) : x \in Told(msgs)
    BY <1>1, <1>3 DEF Told, n
  <2> QED BY <2>1, <2>2
<1>5. ASSUME Singly(msgs) PROVE Singly(c)
  <2> SUFFICES ASSUME NEW i \in 1..(2 * n), NEW j \in 1..(2 * n), c[i].role = "user",
                      c[j].role = "user", c[i].n = c[j].n
               PROVE  i = j
    BY <1>1 DEF Singly
  <2>1. PICK k \in 1..n : c[i] = msgs[k] /\ i = 2 * k
    BY <1>3
  <2>2. PICK l \in 1..n : c[j] = msgs[l] /\ j = 2 * l
    BY <1>3
  <2>3. k = l
    BY <1>5, <2>1, <2>2 DEF Singly, n
  <2> QED BY <2>1, <2>2, <2>3
<1> QED BY <1>1, <1>4, <1>5, MessageEventsAre DEF c

LEMMA ToldInputs ==
  ASSUME NEW s, s \in Seq(Inputs) \/ s \in Seq(Writes)
  PROVE  s \in Seq(Slots) /\ s \in Seq(Messages) /\ Told(s) = NumbersIn(s)
<1>1. /\ Inputs \subseteq Slots /\ Writes \subseteq Slots
      /\ Inputs \subseteq Messages /\ Writes \subseteq Messages
  BY DEF Inputs, Writes, Slots
<1>2. s \in Seq(Slots) /\ s \in Seq(Messages)
  BY <1>1, SeqMonotonic
<1>3. \A i \in 1..Len(s) : s[i].role = "user"
  <2>1. \A m \in Inputs \cup Writes : m.role = "user"
    BY DEF Inputs, Writes
  <2>2. \A i \in 1..Len(s) : s[i] \in Inputs \cup Writes
    OBVIOUS
  <2> QED BY <2>1, <2>2
<1> QED BY <1>2, <1>3 DEF Told, NumbersIn

(* Sets of numbers, of which no two have one in common.                      *)
Whole(S, n, all) ==
  /\ \A a, b \in 1..8 : \A x \in S[a] : x \in S[b] => a = b
  /\ \A a \in 1..8 : S[a] \subseteq 1..n
  /\ all => \A x \in 1..n : \E a \in 1..8 : x \in S[a]

(* The numbers of X move from place a to place b; others may get lost.       *)
Moves(S, T, a, b, X, all) ==
  /\ a \in 1..8 /\ b \in 1..8 /\ a # b /\ X \subseteq S[a]
  /\ T[a] \subseteq S[a] \ X /\ (all => T[a] = S[a] \ X)
  /\ T[b] = S[b] \cup X /\ \A c \in 1..8 : c # a /\ c # b => T[c] = S[c]

LEMMA SpotsMove ==
  ASSUME NEW S, NEW T, NEW n, NEW all \in BOOLEAN, NEW a, NEW b, NEW X,
         Whole(S, n, all), Moves(S, T, a, b, X, all)
  PROVE  Whole(T, n, all)
<1>0. /\ a \in 1..8 /\ b \in 1..8 /\ a # b /\ X \subseteq S[a]
      /\ T[a] \subseteq S[a] \ X /\ (all => T[a] = S[a] \ X)
      /\ T[b] = S[b] \cup X /\ \A c \in 1..8 : c # a /\ c # b => T[c] = S[c]
  BY DEF Moves
<1>1. \A c, d \in 1..8 : \A x \in T[c] : x \in T[d] => c = d
  <2> SUFFICES ASSUME NEW c \in 1..8, NEW d \in 1..8, NEW x \in T[c], x \in T[d] PROVE c = d
    OBVIOUS
  <2>1. CASE x \in X
    <3>1. c = b /\ d = b
      BY <1>0, <2>1 DEF Whole
    <3> QED BY <3>1
  <2>2. CASE x \notin X
    <3>1. x \in S[c] /\ x \in S[d]
      BY <1>0, <2>2
    <3> QED BY <3>1 DEF Whole
  <2> QED BY <2>1, <2>2
<1>2. \A c \in 1..8 : T[c] \subseteq 1..n
  BY <1>0 DEF Whole
<1>3. all => \A x \in 1..n : \E c \in 1..8 : x \in T[c]
  <2> SUFFICES ASSUME all, NEW x \in 1..n PROVE \E c \in 1..8 : x \in T[c]
    OBVIOUS
  <2>1. PICK c \in 1..8 : x \in S[c]
    BY DEF Whole
  <2>2. x \in T[c] \/ x \in T[b]
    BY <1>0, <2>1
  <2> QED BY <1>0, <2>2
<1> QED BY <1>1, <1>2, <1>3 DEF Whole

LEMMA SpotsShrink ==
  ASSUME NEW S, NEW T, NEW n, NEW all \in BOOLEAN, Whole(S, n, all),
         \A a \in 1..8 : T[a] \subseteq S[a], all => \A a \in 1..8 : T[a] = S[a]
  PROVE  Whole(T, n, all)
<1>1. \A c, d \in 1..8 : \A x \in T[c] : x \in T[d] => c = d
  BY DEF Whole
<1>2. \A c \in 1..8 : T[c] \subseteq 1..n
  BY DEF Whole
<1>3. all => \A x \in 1..n : \E c \in 1..8 : x \in T[c]
  BY DEF Whole
<1> QED BY <1>1, <1>2, <1>3 DEF Whole

LEMMA SpotsNew ==
  ASSUME NEW S, NEW T, NEW n \in Nat, NEW all \in BOOLEAN, Whole(S, n, all),
         NEW b \in 1..8, T[b] = S[b] \cup {n + 1}, \A c \in 1..8 : c # b => T[c] = S[c]
  PROVE  Whole(T, n + 1, all)
<1>1. \A c \in 1..8 : n + 1 \notin S[c]
  BY DEF Whole
<1>2. \A c, d \in 1..8 : \A x \in T[c] : x \in T[d] => c = d
  <2> SUFFICES ASSUME NEW c \in 1..8, NEW d \in 1..8, NEW x \in T[c], x \in T[d] PROVE c = d
    OBVIOUS
  <2>1. CASE x = n + 1
    <3>1. c = b /\ d = b
      BY <1>1, <2>1
    <3> QED BY <3>1
  <2>2. CASE x # n + 1
    <3>1. x \in S[c] /\ x \in S[d]
      BY <2>2
    <3> QED BY <3>1 DEF Whole
  <2> QED BY <2>1, <2>2
<1>3. \A c \in 1..8 : T[c] \subseteq 1..(n + 1)
  <2>1. 1..n \subseteq 1..(n + 1) /\ n + 1 \in 1..(n + 1)
    OBVIOUS
  <2> QED BY <2>1 DEF Whole
<1>4. all => \A x \in 1..(n + 1) : \E c \in 1..8 : x \in T[c]
  <2> SUFFICES ASSUME all, NEW x \in 1..(n + 1) PROVE \E c \in 1..8 : x \in T[c]
    OBVIOUS
  <2>1. CASE x = n + 1
    BY <2>1
  <2>2. CASE x \in 1..n
    <3>1. PICK c \in 1..8 : x \in S[c]
      BY <2>2 DEF Whole
    <3> QED BY <3>1
  <2> QED BY <2>1, <2>2
<1> QED BY <1>2, <1>3, <1>4 DEF Whole

(* What a run has in its hands: the messages it has drained, its prompts,    *)
(* and the messages of events that are announced and not yet persisted.      *)
Picked(r) == frame[r].held \o frame[r].msgs
Air(r)    == Carried(IF frame[r].step = "notify" THEN Tail(out[r]) ELSE out[r])
Hand(r)   == Picked(r) \o Air(r)
InHands   == UNION {Told(Hand(r)) : r \in Runs}

Spots == <<Told(steerQueue), Told(followUpQueue), Told(nextTurnQueue),
           Told(pendingSessionWrites), InHands, {io[Client].m.n} \ {0}, Told(Transcript),
           withdrawn>>

(* Listeners and hooks that throw may lose a message and never double one.   *)
Delivery ==
  /\ Whole(Spots, sent, ~HooksThrow)
  /\ Singly(steerQueue) /\ Singly(followUpQueue) /\ Singly(nextTurnQueue)
  /\ Singly(pendingSessionWrites) /\ Singly(Transcript)
  /\ \A r \in Runs : Singly(Hand(r))

InPlace(r) ==
  /\ frame[r].held # <<>> => frame[r].stage = "queueUpdate" \/ frame[r].step = "drain"
  /\ frame[r].msgs # <<>> => frame[r].stage \in Before \ {"unused"}
  /\ frame[r].error => HooksThrow

HandShape ==
  /\ \A r \in Runs : InPlace(r)
  /\ io[Client] # NoIO => io[Client].m \in Writes
  /\ io[Compactor] # NoIO => io[Compactor].m.role = "assistant"

LEMMA SpotsAre ==
  /\ /\ Spots[1] = Told(steerQueue) /\ Spots[2] = Told(followUpQueue)
     /\ Spots[3] = Told(nextTurnQueue) /\ Spots[4] = Told(pendingSessionWrites)
     /\ Spots[5] = InHands /\ Spots[6] = {io[Client].m.n} \ {0}
     /\ Spots[7] = Told(Transcript) /\ Spots[8] = withdrawn
  /\ /\ Spots'[1] = Told(steerQueue') /\ Spots'[2] = Told(followUpQueue')
     /\ Spots'[3] = Told(nextTurnQueue') /\ Spots'[4] = Told(pendingSessionWrites')
     /\ Spots'[5] = InHands' /\ Spots'[6] = {io'[Client].m.n} \ {0}
     /\ Spots'[7] = Told(Transcript') /\ Spots'[8] = withdrawn'
BY DEF Spots

LEMMA HandType ==
  ASSUME TypesInv, NEW r \in Runs
  PROVE  /\ Picked(r) \in Seq(Slots) /\ Air(r) \in Seq(Slots) /\ Hand(r) \in Seq(Slots)
         /\ frame[r].held \in Seq(Slots) /\ frame[r].msgs \in Seq(Slots)
<1>1. out[r] \in Seq(Events) /\ frame[r].held \in Seq(Inputs) /\ frame[r].msgs \in Seq(Inputs)
  BY DEF TypesInv, HarnessTypes, LoopShape, LoopTypeOK, FrameRecord
<1>2. frame[r].held \in Seq(Slots) /\ frame[r].msgs \in Seq(Slots)
  BY <1>1, ToldInputs
<1>3. Picked(r) \in Seq(Slots)
  BY <1>2, ToldConcat DEF Picked
<1>4. CASE frame[r].step = "notify"
  <2>1. out[r] # <<>>
    BY <1>4 DEF TypesInv, RunShape
  <2>2. Tail(out[r]) \in Seq(Events)
    BY <1>1, <2>1
  <2> QED BY <1>2, <1>3, <1>4, <2>2, CarriedType, ToldConcat DEF Air, Hand
<1>5. CASE frame[r].step # "notify"
  BY <1>1, <1>2, <1>3, <1>5, CarriedType, ToldConcat DEF Air, Hand
<1> QED BY <1>4, <1>5

LEMMA NothingInAir == Carried(<<>>) = <<>>
BY DEF Carried

(* A run that is not under way has nothing in its hands.                     *)
LEMMA IdleHand ==
  ASSUME TypesInv, HandShape, NEW r \in Runs, r \notin Live
  PROVE  Hand(r) = <<>>
<1>1. frame[r].stage \in {"unused", "done"}
  BY DEF Live
<1>2. out[r] = <<>> /\ frame[r].step = "new"
  BY <1>1 DEF TypesInv, RunShape
<1>3. frame[r].held = <<>> /\ frame[r].msgs = <<>>
  BY <1>1, <1>2 DEF HandShape, InPlace, Before
<1>4. Air(r) = <<>>
  BY <1>2, NothingInAir DEF Air
<1> QED BY <1>3, <1>4 DEF Hand, Picked

LEMMA OneHand ==
  ASSUME TypesInv, HandShape, NEW r \in Runs, Live \subseteq {r}
  PROVE  InHands = Told(Hand(r))
<1>1. \A q \in Runs : q # r => Told(Hand(q)) = {}
  BY IdleHand, ToldNothing
<1> QED BY <1>1 DEF InHands

LEMMA InPlaceStep ==
  ASSUME TypesInv, NEW r \in Runs, InPlace(r), RunStep(r)
  PROVE  InPlace(r)'
<1> USE DEF InPlace
<1>0. /\ frame \in [Runs -> FrameRecord] /\ frame[r] \in FrameRecord /\ RunShape(r)
      /\ out \in [Runs -> Seq(Events)] /\ loop \in [Runs -> LoopRecord]
  BY DEF TypesInv, HarnessTypes, LoopShape, LoopTypeOK
<1>1. frame[r].step # "new" \/ out[r] # <<>> \/ loop[r].pc \in {"steering", "followUp", "turnEnd"}
        => frame[r].stage \in {"running", "reporting"}
  BY <1>0 DEF FrameRecord, Stages, Before, RunShape
<1>2. ASSUME RunThrows(r), HooksThrow, frame[r].stage \in {"running", "reporting"} PROVE InPlace(r)'
  <2>1. frame[r].msgs = <<>> /\ (frame[r].stage = "reporting" => frame[r].held = <<>>)
    BY <1>0, <1>2 DEF Before, RunShape
  <2>2. CASE ReportFailure(r)
    <3>1. frame'[r].held = <<>> /\ frame'[r].msgs = frame[r].msgs
      BY <1>0, <2>2 DEF ReportFailure, FrameRecord
    <3> QED BY <1>2, <2>1, <3>1
  <2>3. CASE frame[r].stage = "reporting" /\ GiveUp(r, "finally")
    <3>1. frame'[r].held = frame[r].held /\ frame'[r].msgs = frame[r].msgs
      BY <1>0, <2>3 DEF GiveUp, FrameRecord
    <3> QED BY <1>2, <2>1, <2>3, <3>1
  <2> QED BY <1>2, <2>2, <2>3 DEF RunThrows
<1>3. ASSUME NEW step, frame[r].step # "drain",
             frame' = [frame EXCEPT ![r].step = step, ![r].error = FALSE]
             \/ frame' = [frame EXCEPT ![r].step = step]
      PROVE  InPlace(r)'
  <2>1. /\ frame'[r].held = frame[r].held /\ frame'[r].msgs = frame[r].msgs
        /\ frame'[r].stage = frame[r].stage
    BY <1>0, <1>3 DEF FrameRecord
  <2>2. frame'[r].error => frame[r].error
    <3>1. CASE frame' = [frame EXCEPT ![r].step = step, ![r].error = FALSE]
      BY <1>0, <3>1 DEF FrameRecord
    <3>2. CASE frame' = [frame EXCEPT ![r].step = step]
      BY <1>0, <3>2 DEF FrameRecord
    <3> QED BY <1>3, <3>1, <3>2
  <2> QED BY <1>3, <2>1, <2>2
<1>4. ASSUME Notified(r), frame[r].step # "drain", frame[r].stage \in {"running", "reporting"}
      PROVE  InPlace(r)'
  BY <1>2, <1>3, <1>4 DEF Notified, Handled
<1>5. CASE frame'[r] = frame[r]
  BY <1>5
<1>6. CASE CreateTurnState(r)
  <2> DEFINE b == Branch
  <2>1. frame' = [frame EXCEPT ![r].stage = "queue", ![r].snap = b] /\ frame[r].stage = "snapshot"
    BY <1>6 DEF CreateTurnState
  <2> HIDE DEF b
  <2>2. /\ frame'[r].held = frame[r].held /\ frame'[r].msgs = frame[r].msgs
        /\ frame'[r].stage = "queue" /\ frame'[r].step = frame[r].step
        /\ frame'[r].error = frame[r].error
    BY <1>0, <2>1 DEF FrameRecord
  <2> QED BY <2>1, <2>2 DEF Before
<1>7. CASE TakeNextTurn(r)
  <2>1. /\ frame'[r].held = nextTurnQueue /\ frame'[r].msgs = frame[r].msgs
        /\ frame'[r].stage = IF nextTurnQueue = <<>> THEN "hook" ELSE "queueUpdate"
        /\ frame'[r].error = frame[r].error
    BY <1>0, <1>7 DEF TakeNextTurn, FrameRecord
  <2> QED BY <2>1 DEF Before
<1>8. CASE NextTurnTaken(r)
  <2> DEFINE ms == frame[r].held \o frame[r].msgs
  <2>1. frame' = [frame EXCEPT ![r].stage = "hook", ![r].held = <<>>, ![r].msgs = ms]
    BY <1>8 DEF NextTurnTaken
  <2> HIDE DEF ms
  <2>2. frame'[r].held = <<>> /\ frame'[r].stage = "hook" /\ frame'[r].error = frame[r].error
    BY <1>0, <2>1 DEF FrameRecord
  <2> QED BY <2>2 DEF Before
<1>9. CASE StartLoop(r)
  <2>1. /\ frame'[r].held = frame[r].held /\ frame'[r].msgs = <<>> /\ frame[r].stage = "hook"
        /\ frame'[r].step = frame[r].step /\ frame'[r].error = frame[r].error
    BY <1>0, <1>9 DEF StartLoop, FrameRecord
  <2> QED BY <2>1
<1>10. CASE PromptFails(r) \/ FinishRun(r)
  <2>1. frame'[r].held = <<>> /\ frame'[r].msgs = <<>> /\ frame'[r].error = FALSE
    BY <1>0, <1>10 DEF PromptFails, FinishRun, FinishRunAt, NewFrame
  <2> QED BY <2>1
<1>11. CASE FlushEnds(r) \/ PersistMessage(r) \/ MessagePersisted(r) \/ FlushAtEnd(r)
            \/ ReleasePhase(r) \/ PrepareNextTurn(r)
  BY <1>3, <1>11 DEF FlushEnds, PersistMessage, MessagePersisted, FlushAtEnd, ReleasePhase,
       PrepareNextTurn, Handling
<1>12. CASE NotifyMessage(r) \/ NotifyPlain(r) \/ SavePoint(r) \/ NotifyAgentEnd(r)
  BY <1>1, <1>2, <1>4, <1>12 DEF NotifyMessage, NotifyPlain, SavePoint, NotifyAgentEnd, Handling
<1>13. CASE NotifyTurnEnd(r)
  <2>1. PICK error \in IF HooksThrow THEN BOOLEAN ELSE {FALSE} :
          frame' = [frame EXCEPT ![r].step = "flush", ![r].error = error]
    BY <1>13 DEF NotifyTurnEnd
  <2>2. frame[r].step = "new"
    BY <1>13 DEF NotifyTurnEnd, Handling
  <2>3. /\ frame'[r].held = frame[r].held /\ frame'[r].msgs = frame[r].msgs
        /\ frame'[r].stage = frame[r].stage /\ frame'[r].error = error
    BY <1>0, <2>1 DEF FrameRecord
  <2> QED BY <2>1, <2>2, <2>3
<1>14. ASSUME NEW c \in Calls(r), EndCall(r, c) PROVE InPlace(r)'
  BY <1>2, <1>5, <1>14 DEF EndCall
<1>15. CASE DrainSteering(r) \/ DrainFollowUps(r)
  <2>1. ASSUME NEW taken, frame' = [frame EXCEPT ![r].step = "drain", ![r].held = taken]
        PROVE  InPlace(r)'
    <3>1. /\ frame'[r].step = "drain" /\ frame'[r].msgs = frame[r].msgs
          /\ frame'[r].stage = frame[r].stage /\ frame'[r].error = frame[r].error
      BY <1>0, <2>1 DEF FrameRecord
    <3> QED BY <3>1
  <2> QED BY <1>5, <1>15, <2>1 DEF DrainSteering, DrainFollowUps
<1>16. CASE Drained(r)
  <2>1. /\ frame'[r].held = <<>> /\ frame'[r].msgs = frame[r].msgs
        /\ frame'[r].stage = frame[r].stage /\ frame'[r].error = frame[r].error
    BY <1>0, <1>16 DEF Drained, FrameRecord
  <2> QED BY <2>1
<1>17. CASE DrainFails(r)
  BY <1>1, <1>2, <1>17 DEF DrainFails
<1>18. CASE NextTurnState(r)
  BY <1>1, <1>2, <1>3, <1>18 DEF NextTurnState, NextTurnContext, At
<1>19. CASE EnterFinally(r)
  <2>1. /\ frame'[r].held = frame[r].held /\ frame'[r].msgs = frame[r].msgs
        /\ frame'[r].step = frame[r].step /\ frame[r].stage \in {"running", "reporting"}
        /\ frame'[r].error = frame[r].error
    BY <1>0, <1>19 DEF EnterFinally, FrameRecord
  <2> QED BY <2>1 DEF Before
<1>20. CASE FlushWrite(r) \/ FlushWritten(r) \/ UNCHANGED frame
  BY <1>5, <1>20 DEF FlushWrite, FlushWritten, FlushLeaves
<1> QED BY <1>6, <1>7, <1>8, <1>9, <1>10, <1>11, <1>12, <1>13, <1>14, <1>15, <1>16, <1>17,
           <1>18, <1>19, <1>20 DEF RunStep

LEMMA HandShapeStep == Steady /\ HandShape /\ [Next]_vars => HandShape'
<1> SUFFICES ASSUME Steady, HandShape, [Next]_vars PROVE HandShape'
  OBVIOUS
<1>0. /\ TypesInv /\ frame \in [Runs -> FrameRecord] /\ sent \in Nat
      /\ io \in [Actors -> [m : Messages \cup {NoMessage}, parent : Nat]]
      /\ Client \in Actors \ Runs /\ Compactor \in Actors \ Runs /\ Client # Compactor
  BY ActorsDiffer DEF Steady, TypesInv, HarnessTypes, StoreTypes, Scalars, Actors, Client, Compactor
<1>1. io'[Client] # NoIO => io'[Client].m \in Writes
  <2>1. CASE io'[Client] # NoIO /\ io'[Client] # io[Client]
    <3>1. WriteIdle
      BY <1>0, <2>1, AppendsBegin
    <3>2. io'[Client].m = NewWrite
      BY <1>0, <3>1 DEF WriteIdle, WriteNow, BeginAppend
    <3> QED BY <1>0, <3>2, WriteTypes DEF NewWrite
  <2> QED BY <2>1 DEF HandShape
<1>2. io'[Compactor] # NoIO => io'[Compactor].m.role = "assistant"
  <2>1. CASE io'[Compactor] # NoIO /\ io'[Compactor] # io[Compactor]
    <3>1. AppendCompaction
      BY <1>0, <2>1, AppendsBegin
    <3>2. io'[Compactor].m = AssistantMessage("stop", 0)
      BY <1>0, <3>1 DEF AppendCompaction, AppendSummary
    <3> QED BY <3>2 DEF AssistantMessage
  <2> QED BY <2>1 DEF HandShape
<1>3. \A r \in Runs : InPlace(r)
  BY DEF HandShape
<1>4. \A r \in Runs : InPlace(r)'
  <2>1. ASSUME NEW r \in Runs, RunStep(r) PROVE \A q \in Runs : InPlace(q)'
    <3>1. InPlace(r)'
      BY <1>0, <1>3, <2>1, InPlaceStep
    <3>2. ASSUME NEW q \in Runs, q # r PROVE InPlace(q)'
      <4>1. frame'[q] = frame[q]
        BY <1>0, <2>1, <3>2, OthersStay DEF TypesInv
      <4> QED BY <1>3, <4>1 DEF InPlace
    <3> QED BY <3>1, <3>2
  <2>2. ASSUME NEW r \in Runs, Prompt(r) PROVE \A q \in Runs : InPlace(q)'
    <3> DEFINE ms == <<UserMessage("prompt", sent + 1)>>
    <3>1. frame' = [frame EXCEPT ![r].stage = "snapshot", ![r].msgs = ms] /\ frame[r].stage = "unused"
      BY <2>2 DEF Prompt, BeginPrompt
    <3> HIDE DEF ms
    <3> TAKE q \in Runs
    <3>2. CASE q = r
      <4>1. /\ frame'[q].held = frame[q].held /\ frame'[q].stage = "snapshot"
            /\ frame'[q].step = frame[q].step /\ frame'[q].error = frame[q].error
        BY <1>0, <3>1, <3>2 DEF FrameRecord
      <4> QED BY <1>3, <3>1, <3>2, <4>1 DEF InPlace, Before
    <3>3. CASE q # r
      <4>1. frame'[q] = frame[q]
        BY <1>0, <3>1, <3>3
      <4> QED BY <1>3, <4>1 DEF InPlace
    <3> QED BY <3>2, <3>3
  <2>3. CASE Abort
    <3> TAKE q \in Runs
    <3>1. frame'[q] = [frame[q] EXCEPT !.orphan = frame[q].step = "drain"]
      BY <2>3 DEF Abort
    <3>2. /\ frame'[q].held = frame[q].held /\ frame'[q].msgs = frame[q].msgs
          /\ frame'[q].stage = frame[q].stage /\ frame'[q].step = frame[q].step
          /\ frame'[q].error = frame[q].error
      BY <1>0, <3>1 DEF FrameRecord
    <3> QED BY <1>3, <3>2 DEF InPlace
  <2>4. CASE UNCHANGED frame
    BY <1>3, <2>4 DEF InPlace
  <2>5. CASE UNCHANGED vars \/ Steer \/ FollowUp \/ NextTurn \/ DeferWrite \/ WriteIdle
             \/ Compact \/ IdleWritten \/ AppendCompaction \/ CompactEnds \/ AbortWaits
             \/ AbortReturns
    BY <2>4, <2>5 DEF vars, Steer, FollowUp, NextTurn, DeferWrite, PutOff, WriteIdle, WriteNow,
         Compact, IdleWritten, AppendCompaction, AppendSummary, CompactEnds, AbortWaits,
         AbortReturns, AbortOver
  <2> QED BY <2>1, <2>2, <2>3, <2>5 DEF Next, ClientStep, Continuations
<1> QED BY <1>1, <1>2, <1>4 DEF HandShape

(* Announcing messages puts what they tell in the air, ...                   *)
LEMMA ToldOpening ==
  ASSUME NEW msgs \in Seq(Messages), NEW e \in Events, e.type # "message_end",
         NEW s, s = MessageEvents(msgs) \/ s = <<e>> \o MessageEvents(msgs)
  PROVE  /\ s \in Seq(Events) /\ Carried(s) \in Seq(Slots)
         /\ Told(Carried(s)) = Told(msgs)
         /\ Singly(msgs) => Singly(Carried(s))
<1> DEFINE t == MessageEvents(msgs)
<1>1. /\ t \in Seq(Events) /\ Carried(t) \in Seq(Slots)
      /\ Told(Carried(t)) = Told(msgs) /\ (Singly(msgs) => Singly(Carried(t)))
  BY ToldEvents
<1> HIDE DEF t
<1>2. CASE s = <<e>> \o t
  <2>1. /\ <<e>> \in Seq(Events) /\ \A i \in 1..Len(<<e>>) : <<e>>[i].type # "message_end"
    OBVIOUS
  <2>2. Carried(<<e>>) \in Seq({NoMessage})
    BY <2>1, NothingCarried
  <2>3. Carried(<<e>>) \in Seq(Answers \cup {NoMessage})
    <3>1. {NoMessage} \subseteq Answers \cup {NoMessage}
      OBVIOUS
    <3> QED BY <2>2, <3>1, SeqMonotonic
  <2>4. Carried(s) = Carried(<<e>>) \o Carried(t)
    BY <1>1, <1>2, <2>1, CarriedConcat
  <2>5. s \in Seq(Events)
    BY <1>1, <1>2, <2>1
  <2>6. Carried(<<e>>) \in Seq(Slots) /\ Told(Carried(<<e>>)) = {} /\ Singly(Carried(<<e>>))
    BY <2>3, ToldNothing
  <2>7. /\ Carried(s) \in Seq(Slots)
        /\ Told(Carried(s)) = Told(Carried(<<e>>)) \cup Told(Carried(t))
        /\ Singly(Carried(t)) => Singly(Carried(s))
    <3> DEFINE c == Carried(<<e>>)
               d == Carried(t)
    <3>1. /\ c \in Seq(Slots) /\ d \in Seq(Slots) /\ Carried(s) = c \o d
          /\ Told(c) = {} /\ Singly(c)
      BY <1>1, <2>4, <2>6
    <3> HIDE DEF c, d
    <3>2. /\ c \o d \in Seq(Slots) /\ Told(c \o d) = Told(c) \cup Told(d)
          /\ Singly(c \o d) <=> Singly(c) /\ Singly(d) /\ Told(c) \cap Told(d) = {}
      BY ONLY <3>1, ToldConcat
    <3>3. Singly(d) => Singly(c \o d)
      BY <3>1, <3>2
    <3> QED BY <3>1, <3>2, <3>3 DEF c, d
  <2>8. Told(Carried(s)) = Told(msgs)
    BY <1>1, <2>6, <2>7
  <2> QED BY <1>1, <2>5, <2>7, <2>8
<1> QED BY <1>1, <1>2 DEF t

(* ... and so does the answer to a poll.                                     *)
LEMMA ToldPolled ==
  ASSUME LoopTypeOK, NEW r \in Runs, NEW msgs \in Seq(Messages),
         SteeringPolled(r, msgs) \/ FollowUpPolled(r, msgs)
  PROVE  /\ out'[r] \in Seq(Events) /\ Carried(out'[r]) \in Seq(Slots)
         /\ Told(Carried(out'[r])) = Told(msgs)
         /\ Singly(msgs) => Singly(Carried(out'[r]))
<1>1. out \in [Runs -> Seq(Events)] /\ out[r] = <<>>
  BY DEF LoopTypeOK, SteeringPolled, FollowUpPolled, At, Awaited
<1>2. CASE EnterTurn(r, msgs)
  <2> DEFINE t == MessageEvents(msgs)
             s == (IF loop[r].first THEN <<>> ELSE <<Event("turn_start")>>) \o t
  <2>1. out' = [out EXCEPT ![r] = s]
    BY <1>2 DEF EnterTurn
  <2>2. t \in Seq(Events)
    BY MessageEventsAre
  <2>3. s = t \/ s = <<Event("turn_start")>> \o t
    <3> HIDE DEF t
    <3>1. <<>> \o t = t
      BY <2>2, ConcatEmptySeq
    <3> QED BY <3>1
  <2>4. Event("turn_start") \in Events /\ Event("turn_start").type # "message_end"
    BY EventShapes DEF EventTypes, Event
  <2> HIDE DEF s
  <2>5. out'[r] = s
    BY <1>1, <2>1
  <2> QED BY <2>3, <2>4, <2>5, ToldOpening
<1>3. CASE msgs = <<>> /\ UNCHANGED out
  BY <1>1, <1>3, NothingInAir, ToldNothing
<1>4. CASE msgs = <<>> /\ out' = [out EXCEPT ![r] = <<Event("agent_end")>>]
  <2> DEFINE s == <<Event("agent_end")>>
  <2>1. s \in Seq(Events) /\ \A i \in 1..Len(s) : s[i].type # "message_end"
    BY EventShapes DEF EventTypes, Event
  <2>2. Carried(s) \in Seq({NoMessage}) /\ out'[r] = s
    BY <1>1, <1>4, <2>1, NothingCarried
  <2>3. Carried(s) \in Seq(Answers \cup {NoMessage})
    <3>1. {NoMessage} \subseteq Answers \cup {NoMessage}
      OBVIOUS
    <3> QED BY <2>2, <3>1, SeqMonotonic
  <2> QED BY <1>4, <2>1, <2>2, <2>3, ToldNothing
<1> QED BY <1>2, <1>3, <1>4 DEF SteeringPolled, FollowUpPolled

LEMMA FailureTold ==
  ASSUME NEW r \in Runs
  PROVE  Carried(FailureEvents(r)) \in Seq(Answers \cup {NoMessage})
<1> DEFINE m == AssistantMessage(IF loop[r].aborted THEN "aborted" ELSE "error", 0)
           s == MessageEvents(<<m>>)
           t == <<Event("turn_end"), Event("agent_end")>>
<1>1. m \in Answers
  <2>1. m \in Messages
    BY MessageTypes DEF Stops
  <2> QED BY <2>1 DEF Answers, AssistantMessage
<1>2. <<m>> \in Seq(Answers)
  BY <1>1
<1>3. s \in Seq(Events) /\ Carried(s) \in Seq(Answers \cup {NoMessage})
  BY <1>2, AnswersCarried
<1>4. t \in Seq(Events) /\ \A i \in 1..Len(t) : t[i].type # "message_end"
  BY EventShapes DEF EventTypes, Event
<1>5. Carried(t) \in Seq(Answers \cup {NoMessage})
  <2>1. {NoMessage} \subseteq Answers \cup {NoMessage}
    OBVIOUS
  <2> QED BY <1>4, <2>1, NothingCarried, SeqMonotonic
<1>6. FailureEvents(r) = s \o t
  BY DEF FailureEvents
<1> HIDE DEF s, t
<1>7. Carried(FailureEvents(r)) = Carried(s) \o Carried(t)
  BY <1>3, <1>4, <1>6, CarriedConcat
<1> QED BY <1>3, <1>5, <1>7

(* The head of what is awaited, and the rest.                                *)
LEMMA AirSplits ==
  ASSUME LoopTypeOK, NEW r \in Runs, out[r] # <<>>
  PROVE  LET x == IF out[r][1].type = "message_end" THEN out[r][1].msg ELSE NoMessage
             t == Carried(Tail(out[r]))
         IN  /\ x \in Slots /\ t \in Seq(Slots) /\ Carried(out[r]) = <<x>> \o t
             /\ out[r][1].type # "message_end" =>
                  /\ Told(Carried(out[r])) = Told(t)
                  /\ Singly(Carried(out[r])) => Singly(t)
<1> DEFINE s == out[r]
           x == IF s[1].type = "message_end" THEN s[1].msg ELSE NoMessage
           t == Carried(Tail(s))
           c == Carried(s)
<1>1. s \in Seq(Events) /\ s # <<>>
  BY DEF LoopTypeOK
<1> HIDE DEF s
<1>2. /\ Len(s) \in Nat /\ Len(s) >= 1 /\ Tail(s) \in Seq(Events) /\ Len(Tail(s)) = Len(s) - 1
      /\ \A i \in 1..(Len(s) - 1) : Tail(s)[i] = s[i + 1]
  BY <1>1
<1>3. /\ c \in Seq(Slots) /\ Len(c) = Len(s)
      /\ \A i \in 1..Len(s) : c[i] = IF s[i].type = "message_end" THEN s[i].msg ELSE NoMessage
  BY <1>1, CarriedType
<1>4. /\ t \in Seq(Slots) /\ Len(t) = Len(s) - 1
      /\ \A i \in 1..(Len(s) - 1) : t[i] =
           IF Tail(s)[i].type = "message_end" THEN Tail(s)[i].msg ELSE NoMessage
  BY <1>2, CarriedType
<1> HIDE DEF c, t
<1>5. x = c[1] /\ 1 \in 1..Len(s)
  BY <1>2, <1>3
<1>6. x \in Slots
  BY <1>3, <1>5
<1> HIDE DEF x
<1>7. \A i \in 1..(Len(s) - 1) : t[i] = c[i + 1]
  <2> TAKE i \in 1..(Len(s) - 1)
  <2>1. i + 1 \in 1..Len(s)
    BY <1>2
  <2> QED BY <1>2, <1>3, <1>4, <2>1
<1>8. c = <<x>> \o t
  <2> DEFINE h == <<x>>
  <2>1. h \in Seq(Slots) /\ Len(h) = 1 /\ h[1] = x
    BY <1>6
  <2> HIDE DEF h
  <2>2. /\ h \o t \in Seq(Slots) /\ Len(h \o t) = Len(h) + Len(t)
        /\ \A i \in 1..(Len(h) + Len(t)) : (h \o t)[i] = IF i <= Len(h) THEN h[i] ELSE t[i - Len(h)]
    BY <1>4, <2>1, ConcatProperties
  <2>3. \A i \in 1..Len(s) : (h \o t)[i] = c[i]
    <3> TAKE i \in 1..Len(s)
    <3>1. CASE i = 1
      BY <1>2, <1>4, <1>5, <2>1, <2>2, <3>1
    <3>2. CASE i # 1
      <4>1. i - 1 \in 1..(Len(s) - 1) /\ (i - 1) + 1 = i /\ ~(i <= 1)
        BY <1>2, <3>2
      <4> QED BY <1>2, <1>4, <1>7, <2>1, <2>2, <4>1
    <3> QED BY <3>1, <3>2
  <2>4. Len(h \o t) = Len(s)
    BY <1>2, <1>4, <2>1, <2>2
  <2> QED BY <1>3, <2>2, <2>3, <2>4, SeqEqual DEF h
<1>9. s[1].type # "message_end" => Told(c) = Told(t) /\ (Singly(c) => Singly(t))
  <2> SUFFICES ASSUME s[1].type # "message_end"
               PROVE  Told(c) = Told(t) /\ (Singly(c) => Singly(t))
    OBVIOUS
  <2>1. x = NoMessage
    BY DEF x
  <2>2. <<x>> \in Seq(Slots) /\ Told(<<x>>) = {}
    BY <1>6, <2>1, ToldOne DEF NoMessage
  <2>3. Told(c) = Told(<<x>>) \cup Told(t) /\ (Singly(c) => Singly(t))
    BY <1>4, <1>8, <2>2, ToldConcat
  <2> QED BY <2>2, <2>3
<1> QED BY <1>4, <1>6, <1>8, <1>9 DEF s, x, t, c

(* A step that leaves in the hands of a run what was there, or that loses it *)
(* when somebody throws, and touches no other place.                         *)
Passes(r) == /\ Singly(Hand(r)) => Singly(Hand(r)')
             /\ Told(Hand(r)') \subseteq Told(Hand(r))
             /\ ~HooksThrow => Told(Hand(r)') = Told(Hand(r))

Unmoved == /\ UNCHANGED <<queueVars, pendingSessionWrites, log, withdrawn, sent>>
           /\ io'[Client] = io[Client]

LEMMA ThrowsAway ==
  ASSUME TypesInv, NEW r \in Runs, InPlace(r), RunThrows(r),
         frame[r].stage \in {"running", "reporting"}
  PROVE  Told(Hand(r)') = {} /\ Singly(Hand(r)')
<1>0. /\ frame \in [Runs -> FrameRecord] /\ out \in [Runs -> Seq(Events)] /\ RunShape(r)
  BY DEF TypesInv, HarnessTypes, LoopShape, LoopTypeOK
<1>1. frame[r].msgs = <<>> /\ (frame[r].stage = "reporting" => frame[r].held = <<>>)
  BY <1>0 DEF Before, RunShape, InPlace
<1>2. CASE ReportFailure(r)
  <2> DEFINE e == FailureEvents(r)
  <2>1. Carried(e) \in Seq(Answers \cup {NoMessage})
    BY FailureTold
  <2>2. out' = [out EXCEPT ![r] = e]
    BY <1>2 DEF ReportFailure
  <2> HIDE DEF e
  <2>3. /\ frame'[r].held = <<>> /\ frame'[r].msgs = <<>> /\ frame'[r].step = "new" /\ out'[r] = e
    BY <1>0, <1>1, <1>2, <2>2 DEF ReportFailure, FrameRecord
  <2>4. Picked(r)' = <<>> /\ Air(r)' = Carried(e)
    BY <2>3 DEF Picked, Air
  <2> QED BY <2>1, <2>4, ToldNothing, ToldConcat DEF Hand
<1>3. CASE frame[r].stage = "reporting" /\ GiveUp(r, "finally")
  <2>1. /\ frame'[r].held = <<>> /\ frame'[r].msgs = <<>> /\ frame'[r].step = "new"
        /\ out'[r] = <<>>
    BY <1>0, <1>1, <1>3 DEF GiveUp, FrameRecord
  <2>2. Picked(r)' = <<>> /\ Air(r)' = <<>>
    BY <2>1, NothingInAir DEF Picked, Air
  <2>3. Hand(r)' = <<>>
    BY <2>2 DEF Hand
  <2> QED BY <2>3, ToldNothing
<1> QED BY <1>2, <1>3 DEF RunThrows

LEMMA StaysInHand ==
  ASSUME TypesInv, NEW r \in Runs, InPlace(r), RunStep(r),
         ~(FlushWritten(r) \/ MessagePersisted(r) \/ TakeNextTurn(r) \/ PromptFails(r)
           \/ DrainFails(r) \/ ((DrainSteering(r) \/ DrainFollowUps(r)) /\ frame' # frame))
  PROVE  Passes(r) /\ Unmoved
<1>0. /\ frame \in [Runs -> FrameRecord] /\ frame[r] \in FrameRecord /\ RunShape(r) /\ InPlace(r)
      /\ out \in [Runs -> Seq(Events)] /\ LoopTypeOK /\ HarnessTypes
      /\ io \in [Actors -> [m : Messages \cup {NoMessage}, parent : Nat]]
      /\ Client \in Actors \ Runs
  BY ActorsDiffer DEF TypesInv, HarnessTypes, StoreTypes, LoopShape, LoopTypeOK, Actors
<1>1. /\ Picked(r) \in Seq(Slots) /\ Air(r) \in Seq(Slots) /\ Hand(r) \in Seq(Slots)
      /\ frame[r].held \in Seq(Slots) /\ frame[r].msgs \in Seq(Slots)
  BY HandType
<1>2. ASSUME Picked(r)' = Picked(r), Air(r)' = Air(r) PROVE Passes(r)
  BY <1>2 DEF Passes, Hand
<1>3. ASSUME Picked(r)' = Picked(r), Air(r)' \in Seq(Slots), Told(Air(r)') = Told(Air(r)),
             Singly(Air(r)) => Singly(Air(r)')
      PROVE  Passes(r)
  <2> DEFINE p == Picked(r)
             a == Air(r)
             b == Air(r)'
  <2>1. /\ p \in Seq(Slots) /\ a \in Seq(Slots) /\ b \in Seq(Slots)
        /\ Told(b) = Told(a) /\ (Singly(a) => Singly(b))
    BY <1>1, <1>3
  <2>2. Hand(r) = p \o a /\ Hand(r)' = p \o b
    BY <1>3 DEF Hand
  <2> HIDE DEF p, a, b
  <2>3. /\ Told(p \o b) = Told(p) \cup Told(b)
        /\ Singly(p \o b) <=> Singly(p) /\ Singly(b) /\ Told(p) \cap Told(b) = {}
    BY ONLY <2>1, ToldConcat
  <2>4. /\ Told(p \o a) = Told(p) \cup Told(a)
        /\ Singly(p \o a) <=> Singly(p) /\ Singly(a) /\ Told(p) \cap Told(a) = {}
    BY ONLY <2>1, ToldConcat
  <2> QED BY <2>1, <2>2, <2>3, <2>4 DEF Passes
<1>4. ASSUME frame'[r].held = frame[r].held, frame'[r].msgs = frame[r].msgs
      PROVE  Picked(r)' = Picked(r)
  BY <1>4 DEF Picked
<1>5. ASSUME frame[r].step # "notify", frame'[r].step # "notify", out'[r] = out[r]
      PROVE  Air(r)' = Air(r)
  BY <1>5 DEF Air
<1>6. frame[r].step # "new" \/ out[r] # <<>> \/ loop[r].pc \in {"steering", "followUp", "turnEnd"}
        => frame[r].stage \in {"running", "reporting"}
  BY <1>0 DEF FrameRecord, Stages, Before, RunShape
<1>7. ASSUME RunThrows(r), HooksThrow, frame[r].stage \in {"running", "reporting"}
      PROVE  Passes(r)
  BY <1>0, <1>7, ThrowsAway DEF Passes
<1>8. ASSUME Handled(r), out[r] # <<>>,
             frame[r].step = "notify" \/ out[r][1].type # "message_end"
      PROVE  Passes(r)
  <2>1. /\ out'[r] = Tail(out[r]) /\ frame'[r].step = "new"
        /\ frame'[r].held = frame[r].held /\ frame'[r].msgs = frame[r].msgs
    BY <1>0, <1>8 DEF Handled, FrameRecord
  <2>2. Air(r)' = Carried(Tail(out[r])) /\ Picked(r)' = Picked(r)
    BY <1>4, <2>1 DEF Air
  <2>3. CASE frame[r].step = "notify"
    BY <1>2, <2>2, <2>3 DEF Air
  <2>4. CASE frame[r].step # "notify"
    <3>1. Air(r) = Carried(out[r])
      BY <2>4 DEF Air
    <3> QED BY <1>0, <1>3, <1>8, <2>2, <2>4, <3>1, AirSplits
  <2> QED BY <2>3, <2>4
<1>9. ASSUME NEW step, step # "notify", frame[r].step # "notify", UNCHANGED loopVars,
             \/ frame' = [frame EXCEPT ![r].step = step]
             \/ \E error \in BOOLEAN : frame' = [frame EXCEPT ![r].step = step, ![r].error = error]
      PROVE  Passes(r)
  <2>1. /\ frame'[r].held = frame[r].held /\ frame'[r].msgs = frame[r].msgs
        /\ frame'[r].step = step /\ out'[r] = out[r]
    BY <1>0, <1>9 DEF FrameRecord, loopVars
  <2> QED BY <1>2, <1>4, <1>5, <1>9, <2>1
<1>10. CASE CreateTurnState(r) \/ EnterFinally(r)
  <2> DEFINE b == Branch
  <2>1. /\ \/ frame' = [frame EXCEPT ![r].stage = "queue", ![r].snap = b]
           \/ frame' = [frame EXCEPT ![r].stage = "finally"]
        /\ UNCHANGED <<loopVars, otherVars>>
    BY <1>10 DEF CreateTurnState, EnterFinally
  <2> HIDE DEF b
  <2>2. /\ frame'[r].held = frame[r].held /\ frame'[r].msgs = frame[r].msgs
        /\ frame'[r].step = frame[r].step /\ out'[r] = out[r]
    BY <1>0, <2>1 DEF FrameRecord, loopVars
  <2> QED BY <1>2, <1>4, <2>1, <2>2 DEF Air, Unmoved, otherVars, storeVars, history
<1>11. CASE NextTurnTaken(r)
  <2> DEFINE ms == frame[r].held \o frame[r].msgs
  <2>1. frame' = [frame EXCEPT ![r].stage = "hook", ![r].held = <<>>, ![r].msgs = ms]
        /\ UNCHANGED <<loopVars, otherVars>>
    BY <1>11 DEF NextTurnTaken
  <2>2. ms = Picked(r)
    BY DEF Picked
  <2> HIDE DEF ms
  <2>3. /\ frame'[r].held = <<>> /\ frame'[r].msgs = ms
        /\ frame'[r].step = frame[r].step /\ out'[r] = out[r]
    BY <1>0, <2>1 DEF FrameRecord, loopVars
  <2>4. Picked(r)' = Picked(r)
    BY <1>1, <2>2, <2>3, ConcatEmptySeq DEF Picked
  <2> QED BY <1>2, <2>1, <2>3, <2>4 DEF Air, Unmoved, otherVars, storeVars, history
<1>12. CASE StartLoop(r)
  <2> DEFINE ms == frame[r].msgs
             evs == <<Event("turn_start")>> \o MessageEvents(ms)
  <2>1. frame[r].held = <<>> /\ out[r] = <<>> /\ frame[r].step = "new" /\ ms \in Seq(Messages)
    <3>1. frame[r].stage = "hook" /\ ms \in Seq(Inputs)
      BY <1>0, <1>12 DEF StartLoop, FrameRecord
    <3> QED BY <1>0, <3>1, ToldInputs DEF RunShape, InPlace
  <2>2. out' = [out EXCEPT ![r] = evs]
    BY <1>12 DEF StartLoop, RunAgentLoop
  <2>3. /\ evs \in Seq(Events) /\ Carried(evs) \in Seq(Slots)
        /\ Told(Carried(evs)) = Told(ms) /\ (Singly(ms) => Singly(Carried(evs)))
    <3>1. Event("turn_start") \in Events /\ Event("turn_start").type # "message_end"
      BY EventShapes DEF EventTypes, Event
    <3> HIDE DEF ms
    <3> QED BY <2>1, <3>1, ToldOpening
  <2> HIDE DEF evs
  <2>4. /\ frame'[r].held = <<>> /\ frame'[r].msgs = <<>> /\ frame'[r].step = "new"
        /\ out'[r] = evs
    BY <1>0, <1>12, <2>1, <2>2 DEF StartLoop, FrameRecord
  <2>5. Hand(r) = ms
    <3>1. Picked(r) = ms
      BY <1>1, <2>1, ConcatEmptySeq DEF Picked
    <3>2. Air(r) = <<>>
      BY <2>1, NothingInAir DEF Air
    <3> QED BY <1>1, <3>1, <3>2, ConcatEmptySeq DEF Hand
  <2>6. Hand(r)' = Carried(evs)
    <3>1. Picked(r)' = <<>> /\ Air(r)' = Carried(evs)
      BY <2>4 DEF Picked, Air
    <3> QED BY <2>3, <3>1, ConcatEmptySeq DEF Hand
  <2>7. Unmoved
    BY <1>12 DEF StartLoop, Unmoved, storeVars, history
  <2> QED BY <2>3, <2>5, <2>6, <2>7 DEF Passes
<1>13. CASE frame[r].stage = "running" /\ LoopStep(r) /\ UNCHANGED <<frame, otherVars>>
  <2>1. Picked(r)' = Picked(r)
    BY <1>13 DEF Picked
  <2>2. CASE out'[r] = out[r]
    <3>1. Air(r)' = Air(r)
      BY <1>13, <2>2 DEF Air
    <3> QED BY <1>2, <1>13, <2>1, <3>1 DEF Unmoved, otherVars, storeVars, history
  <2>3. CASE out[r] = <<>> /\ Carried(out'[r]) \in Seq(Answers \cup {NoMessage})
    <3>1. frame[r].step # "notify" /\ frame'[r].step # "notify"
      BY <1>0, <1>13, <2>3 DEF RunShape
    <3>2. Air(r) = <<>> /\ Air(r)' = Carried(out'[r])
      BY <2>3, <3>1, NothingInAir DEF Air
    <3> QED BY <1>3, <1>13, <2>1, <2>3, <3>2, ToldNothing
            DEF Unmoved, otherVars, storeVars, history
  <2> QED BY <1>0, <1>13, <2>2, <2>3, LoopStepAnswers
<1>14. CASE FlushWrite(r)
  <2>1. UNCHANGED <<loopVars, frame>> /\ io'[Client] = io[Client]
    BY <1>0, <1>14 DEF FlushWrite, BeginAppend
  <2>2. Picked(r)' = Picked(r) /\ Air(r)' = Air(r)
    BY <2>1 DEF Picked, Air, loopVars
  <2> QED BY <1>2, <1>14, <2>1, <2>2 DEF FlushWrite, Unmoved, history
<1>15. CASE PersistMessage(r)
  <2>1. io'[Client] = io[Client] /\ frame[r].step = "new" /\ UNCHANGED loopVars
        /\ frame' = [frame EXCEPT ![r].step = "append"]
    BY <1>0, <1>15 DEF PersistMessage, BeginAppend, Handling
  <2>2. Passes(r)
    BY <1>9, <2>1
  <2> QED BY <1>15, <2>1, <2>2 DEF PersistMessage, Unmoved, history
<1>16. CASE FlushEnds(r) \/ NotifyTurnEnd(r) \/ FlushAtEnd(r) \/ PrepareNextTurn(r)
  <2>1. UNCHANGED <<loopVars, otherVars>>
    BY <1>16 DEF FlushEnds, NotifyTurnEnd, FlushAtEnd, PrepareNextTurn
  <2>2. Passes(r)
    BY <1>9, <1>16, <2>1 DEF FlushEnds, NotifyTurnEnd, FlushAtEnd, PrepareNextTurn, Handling
  <2> QED BY <2>1, <2>2 DEF Unmoved, otherVars, storeVars, history
<1>17. CASE NotifyMessage(r) \/ NotifyPlain(r) \/ SavePoint(r) \/ NotifyAgentEnd(r)
  <2>1. UNCHANGED otherVars /\ out[r] # <<>>
        /\ (frame[r].step = "notify" \/ out[r][1].type # "message_end")
    BY <1>17 DEF NotifyMessage, NotifyPlain, SavePoint, NotifyAgentEnd, Handling, Head_
  <2>2. Unmoved
    BY <2>1 DEF Unmoved, otherVars, storeVars, history
  <2>3. Notified(r) \/ (RunThrows(r) /\ frame[r].error)
    BY <1>17 DEF NotifyMessage, NotifyPlain, SavePoint, NotifyAgentEnd
  <2>4. Handled(r) \/ (RunThrows(r) /\ HooksThrow)
    BY <1>0, <2>3 DEF Notified, InPlace
  <2> QED BY <1>6, <1>7, <1>8, <2>1, <2>2, <2>4
<1>18. CASE ReleasePhase(r)
  <2>1. /\ out[r] # <<>> /\ out[r][1].type = "agent_end" /\ frame[r].step = "flushed"
        /\ frame' = [frame EXCEPT ![r].step = "notify"] /\ UNCHANGED loopVars
    BY <1>18 DEF ReleasePhase, Handling, Head_
  <2>2. /\ frame'[r].held = frame[r].held /\ frame'[r].msgs = frame[r].msgs
        /\ frame'[r].step = "notify" /\ out'[r] = out[r]
    BY <1>0, <2>1 DEF FrameRecord, loopVars
  <2>3. Air(r)' = Carried(Tail(out[r])) /\ Picked(r)' = Picked(r) /\ Air(r) = Carried(out[r])
    BY <1>4, <2>1, <2>2 DEF Air
  <2>4. Passes(r)
    BY <1>0, <1>3, <2>1, <2>3, AirSplits
  <2> QED BY <1>18, <2>4 DEF ReleasePhase, Unmoved, storeVars, history
<1>19. ASSUME NEW c \in Calls(r), EndCall(r, c) PROVE Passes(r) /\ Unmoved
  <2>1. Unmoved
    BY <1>19 DEF EndCall, Unmoved, otherVars, storeVars, history
  <2>2. CASE RunThrows(r) /\ HooksThrow
    BY <1>7, <1>19, <2>1, <2>2 DEF EndCall
  <2>3. CASE UNCHANGED <<out, frame>>
    <3>1. Picked(r)' = Picked(r) /\ Air(r)' = Air(r)
      BY <2>3 DEF Picked, Air
    <3> QED BY <1>2, <2>1, <3>1
  <2> QED BY <1>19, <2>2, <2>3 DEF EndCall, CallEnded
<1>20. CASE (DrainSteering(r) \/ DrainFollowUps(r)) /\ frame' = frame
  <2>1. /\ out[r] = <<>> /\ frame[r].step = "new" /\ UNCHANGED <<nextTurnQueue, storeVars, sent, history>>
    BY <1>20 DEF DrainSteering, DrainFollowUps, At, Awaited
  <2>2. \A taken : frame # [frame EXCEPT ![r].step = "drain", ![r].held = taken]
    BY <1>0, <2>1 DEF FrameRecord
  <2>3. /\ SteeringPolled(r, <<>>) \/ FollowUpPolled(r, <<>>)
        /\ UNCHANGED queueVars
    BY <1>20, <2>2 DEF DrainSteering, DrainFollowUps, queueVars
  <2>4. /\ Carried(out'[r]) \in Seq(Slots) /\ Told(Carried(out'[r])) = {}
        /\ Singly(Carried(out'[r]))
    <3>1. <<>> \in Seq(Messages)
      OBVIOUS
    <3> QED BY <1>0, <2>3, <3>1, ToldPolled, ToldNothing
  <2>5. /\ Picked(r)' = Picked(r) /\ Air(r) = <<>> /\ Air(r)' = Carried(out'[r])
    BY <1>20, <2>1, NothingInAir DEF Picked, Air
  <2>6. Passes(r)
    BY <1>3, <2>4, <2>5, ToldNothing
  <2> QED BY <2>1, <2>3, <2>6 DEF Unmoved, storeVars, history
<1>21. CASE Drained(r)
  <2> DEFINE h == frame[r].held
  <2>1. /\ out[r] = <<>> /\ frame[r].msgs = <<>> /\ h \in Seq(Messages)
    <3>1. out[r] = <<>> /\ frame[r].stage = "running" /\ h \in Seq(Inputs)
      BY <1>0, <1>21 DEF Drained, RunShape, FrameRecord, Stages, Before
    <3> QED BY <1>0, <3>1, ToldInputs DEF InPlace, Before
  <2>2. /\ Carried(out'[r]) \in Seq(Slots) /\ Told(Carried(out'[r])) = Told(h)
        /\ (Singly(h) => Singly(Carried(out'[r])))
    BY <1>0, <1>21, <2>1, ToldPolled DEF Drained
  <2>3. /\ frame'[r].held = <<>> /\ frame'[r].msgs = <<>> /\ frame'[r].step = "new"
    BY <1>0, <1>21, <2>1 DEF Drained, FrameRecord
  <2>4. Hand(r) = h
    <3>1. Picked(r) = h /\ Air(r) = <<>>
      BY <1>1, <1>21, <2>1, NothingInAir, ConcatEmptySeq DEF Picked, Air, Drained
    <3> QED BY <1>1, <3>1, ConcatEmptySeq DEF Hand
  <2>5. Hand(r)' = Carried(out'[r])
    <3>1. Picked(r)' = <<>> /\ Air(r)' = Carried(out'[r])
      BY <2>3 DEF Picked, Air
    <3> QED BY <2>2, <3>1, ConcatEmptySeq DEF Hand
  <2>6. Passes(r)
    BY <2>2, <2>4, <2>5 DEF Passes
  <2> QED BY <1>21, <2>6 DEF Drained, Unmoved, otherVars, storeVars, history
<1>22. CASE NextTurnState(r)
  <2>1. UNCHANGED otherVars /\ frame[r].step = "flushed" /\ loop[r].pc = "turnEnd"
    BY <1>22 DEF NextTurnState, NextTurnContext, At
  <2>2. CASE RunThrows(r) /\ HooksThrow
    BY <1>6, <1>7, <2>1, <2>2 DEF Unmoved, otherVars, storeVars, history
  <2>3. CASE UNCHANGED out /\ frame' = [frame EXCEPT ![r].step = "new"]
    <3>1. /\ frame'[r].held = frame[r].held /\ frame'[r].msgs = frame[r].msgs
          /\ frame'[r].step = "new" /\ out'[r] = out[r]
      BY <1>0, <2>3 DEF FrameRecord
    <3> QED BY <1>2, <1>4, <1>5, <2>1, <3>1 DEF Unmoved, otherVars, storeVars, history
  <2> QED BY <1>22, <2>2, <2>3 DEF NextTurnState, NextTurnContext, TurnPrepared
<1>23. CASE FinishRun(r)
  <2>1. out[r] = <<>> /\ frame[r].held = <<>> /\ frame[r].msgs = <<>>
    BY <1>0, <1>23 DEF FinishRun, FinishRunAt, RunShape, InPlace, Before
  <2>2. frame'[r].held = <<>> /\ frame'[r].msgs = <<>> /\ frame'[r].step = "new" /\ out'[r] = out[r]
    BY <1>0, <1>23 DEF FinishRun, FinishRunAt, NewFrame
  <2>3. Picked(r)' = Picked(r) /\ Air(r)' = Air(r)
    <3>1. frame[r].step = "new"
      BY <1>0, <1>23 DEF FinishRun, FinishRunAt, RunShape
    <3> QED BY <2>1, <2>2, <3>1 DEF Picked, Air
  <2> QED BY <1>2, <1>23, <2>3 DEF FinishRun, FinishRunAt, Unmoved, storeVars, history
<1> QED BY <1>10, <1>11, <1>12, <1>13, <1>14, <1>15, <1>16, <1>17, <1>18, <1>19, <1>20, <1>21,
           <1>22, <1>23 DEF RunStep

(* A run takes messages from a queue, or puts back what it took.             *)
Takes(r, queue, rest) ==
  \E t \in Seq(Slots) : rest \in Seq(Slots) /\ queue = t \o rest /\ Hand(r)' = t \o Hand(r)

PutsBack(r, queue, more) ==
  /\ HooksThrow /\ Told(Hand(r)') = {} /\ Singly(Hand(r)')
  /\ \E t, u \in Seq(Slots) : queue \in Seq(Slots) /\ more = t \o queue /\ Hand(r) = t \o u

LEMMA DrainsSplit ==
  ASSUME NEW queue \in Seq(Inputs), NEW taken \in Drains(queue)
  PROVE  /\ taken \in Seq(Slots) /\ Rest(queue, taken) \in Seq(Slots)
         /\ queue = taken \o Rest(queue, taken)
<1>1. taken \in Seq(Slots) /\ Rest(queue, taken) \in Seq(Slots) /\ queue \in Seq(Slots)
  BY DrainsType, ToldInputs
<1>2. CASE taken = <<>> /\ queue = <<>>
  <2>1. Rest(queue, taken) = <<>>
    BY <1>2 DEF Rest
  <2> QED BY <1>1, <1>2, <2>1
<1>3. CASE taken = queue /\ queue # <<>>
  <2>1. Rest(queue, taken) = <<>>
    BY <1>1, <1>3 DEF Rest
  <2> QED BY <1>1, <1>3, <2>1, ConcatEmptySeq
<1>4. CASE taken = <<queue[1]>> /\ queue # <<>>
  <2>1. Len(taken) = 1
    BY <1>4
  <2>2. Rest(queue, taken) = SubSeq(queue, 2, Len(queue))
    BY <2>1 DEF Rest
  <2> QED BY <1>1, <1>4, <2>2, HeadAndRest
<1> QED BY <1>1, <1>2, <1>3, <1>4 DEF Drains

LEMMA TakesUp ==
  ASSUME TypesInv, NEW r \in Runs, InPlace(r)
  PROVE  /\ TakeNextTurn(r) =>
              /\ Takes(r, nextTurnQueue, nextTurnQueue')
              /\ UNCHANGED <<steerQueue, followUpQueue, pendingSessionWrites, log, io, withdrawn, sent>>
         /\ DrainSteering(r) /\ frame' # frame =>
              /\ Takes(r, steerQueue, steerQueue')
              /\ UNCHANGED <<nextTurnQueue, followUpQueue, pendingSessionWrites, log, io, withdrawn, sent>>
         /\ DrainFollowUps(r) /\ frame' # frame =>
              /\ Takes(r, followUpQueue, followUpQueue')
              /\ UNCHANGED <<nextTurnQueue, steerQueue, pendingSessionWrites, log, io, withdrawn, sent>>
<1>0. /\ frame \in [Runs -> FrameRecord] /\ frame[r] \in FrameRecord /\ RunShape(r) /\ InPlace(r)
      /\ out \in [Runs -> Seq(Events)] /\ frame[r].msgs \in Seq(Slots)
      /\ steerQueue \in Seq(Inputs) /\ followUpQueue \in Seq(Inputs)
      /\ nextTurnQueue \in Seq(Inputs)
  BY HandType DEF TypesInv, HarnessTypes, LoopShape, LoopTypeOK, QueueTypes
<1>1. ASSUME NEW t \in Seq(Slots), frame[r].held = <<>>, out[r] = <<>>, out'[r] = <<>>,
             frame'[r].held = t, frame'[r].msgs = frame[r].msgs
      PROVE  Hand(r)' = t \o Hand(r)
  <2> DEFINE m == frame[r].msgs
  <2>1. Air(r) = <<>> /\ Air(r)' = <<>>
    <3>1. frame[r].step = "notify" => FALSE
      BY <1>0, <1>1 DEF RunShape
    <3>2. Tail(<<>>) = <<>>
      OBVIOUS
    <3> QED BY <1>1, <3>1, <3>2, NothingInAir DEF Air
  <2>2. Picked(r) = m /\ Picked(r)' = t \o m
    BY <1>0, <1>1, ConcatEmptySeq DEF Picked
  <2>3. m \in Seq(Slots) /\ t \o m \in Seq(Slots)
    BY <1>0
  <2>4. Hand(r) = m /\ Hand(r)' = t \o m
    BY <2>1, <2>2, <2>3, ConcatEmptySeq DEF Hand
  <2> QED BY <2>4
<1>2. ASSUME TakeNextTurn(r)
      PROVE  /\ Takes(r, nextTurnQueue, nextTurnQueue')
             /\ UNCHANGED <<steerQueue, followUpQueue, pendingSessionWrites, log, io, withdrawn, sent>>
  <2>1. frame[r].held = <<>> /\ out[r] = <<>>
    BY <1>0, <1>2 DEF TakeNextTurn, RunShape, InPlace
  <2>2. frame'[r].held = nextTurnQueue /\ frame'[r].msgs = frame[r].msgs /\ out'[r] = <<>>
    BY <1>0, <1>2, <2>1 DEF TakeNextTurn, FrameRecord, loopVars
  <2>3. nextTurnQueue \in Seq(Slots) /\ nextTurnQueue' = <<>>
    BY <1>0, <1>2, ToldInputs DEF TakeNextTurn
  <2>4. Hand(r)' = nextTurnQueue \o Hand(r)
    BY <1>1, <2>1, <2>2, <2>3
  <2>5. nextTurnQueue = nextTurnQueue \o <<>>
    BY <2>3, ConcatEmptySeq
  <2> QED BY <1>2, <2>3, <2>4, <2>5, ToldNothing DEF Takes, TakeNextTurn, storeVars, history
<1>3. ASSUME NEW taken, frame' = [frame EXCEPT ![r].step = "drain", ![r].held = taken],
             taken \in Seq(Slots), UNCHANGED loopVars, out[r] = <<>>, frame[r].step = "new",
             loop[r].pc \in {"steering", "followUp"}
      PROVE  Hand(r)' = taken \o Hand(r)
  <2>1. frame[r].held = <<>>
    BY <1>0, <1>3 DEF RunShape, InPlace, Before
  <2>2. frame'[r].held = taken /\ frame'[r].msgs = frame[r].msgs /\ out'[r] = <<>>
    BY <1>0, <1>3 DEF FrameRecord, loopVars
  <2> QED BY <1>1, <1>3, <2>1, <2>2
<1>4. ASSUME DrainSteering(r), frame' # frame
      PROVE  /\ Takes(r, steerQueue, steerQueue')
             /\ UNCHANGED <<nextTurnQueue, followUpQueue, pendingSessionWrites, log, io, withdrawn, sent>>
  <2>1. PICK taken \in Drains(steerQueue) :
          /\ steerQueue' = Rest(steerQueue, taken) /\ UNCHANGED loopVars
          /\ frame' = [frame EXCEPT ![r].step = "drain", ![r].held = taken]
    BY <1>4 DEF DrainSteering
  <2>2. Hand(r)' = taken \o Hand(r)
    BY <1>0, <1>3, <1>4, <2>1, DrainsSplit DEF DrainSteering, At, Awaited
  <2> QED BY <1>0, <1>4, <2>1, <2>2, DrainsSplit DEF Takes, DrainSteering, storeVars, history
<1>5. ASSUME DrainFollowUps(r), frame' # frame
      PROVE  /\ Takes(r, followUpQueue, followUpQueue')
             /\ UNCHANGED <<nextTurnQueue, steerQueue, pendingSessionWrites, log, io, withdrawn, sent>>
  <2>1. PICK taken \in Drains(followUpQueue) :
          /\ followUpQueue' = Rest(followUpQueue, taken) /\ UNCHANGED loopVars
          /\ frame' = [frame EXCEPT ![r].step = "drain", ![r].held = taken]
    BY <1>5 DEF DrainFollowUps
  <2>2. Hand(r)' = taken \o Hand(r)
    BY <1>0, <1>3, <1>5, <2>1, DrainsSplit DEF DrainFollowUps, At, Awaited
  <2> QED BY <1>0, <1>5, <2>1, <2>2, DrainsSplit DEF Takes, DrainFollowUps, storeVars, history
<1> QED BY <1>2, <1>4, <1>5

LEMMA PutsThemBack ==
  ASSUME TypesInv, NEW r \in Runs, InPlace(r), PromptFails(r) \/ DrainFails(r)
  PROVE  /\ UNCHANGED <<pendingSessionWrites, log, io, withdrawn, sent>>
         /\ \/ Passes(r) /\ UNCHANGED queueVars
            \/ /\ PutsBack(r, nextTurnQueue, nextTurnQueue')
               /\ UNCHANGED <<steerQueue, followUpQueue>>
            \/ /\ PutsBack(r, steerQueue, steerQueue')
               /\ UNCHANGED <<nextTurnQueue, followUpQueue>>
            \/ /\ PutsBack(r, followUpQueue, followUpQueue')
               /\ UNCHANGED <<nextTurnQueue, steerQueue>>
<1>0. /\ frame \in [Runs -> FrameRecord] /\ frame[r] \in FrameRecord /\ RunShape(r) /\ InPlace(r)
      /\ frame[r].held \in Seq(Slots) /\ frame[r].msgs \in Seq(Slots) /\ Air(r) \in Seq(Slots)
      /\ steerQueue \in Seq(Slots) /\ followUpQueue \in Seq(Slots) /\ nextTurnQueue \in Seq(Slots)
  BY HandType, ToldInputs DEF TypesInv, HarnessTypes, QueueTypes
<1>1. \E u \in Seq(Slots) : Hand(r) = frame[r].held \o u
  <2> DEFINE h == frame[r].held
             m == frame[r].msgs
             a == Air(r)
  <2>1. h \in Seq(Slots) /\ m \in Seq(Slots) /\ a \in Seq(Slots) /\ Hand(r) = (h \o m) \o a
    BY <1>0 DEF Hand, Picked
  <2> HIDE DEF h, m, a
  <2>2. (h \o m) \o a = h \o (m \o a) /\ m \o a \in Seq(Slots)
    BY <2>1, ConcatAssociative
  <2> QED BY <2>1, <2>2 DEF h
<1>2. UNCHANGED <<pendingSessionWrites, log, io, withdrawn, sent>>
  BY DEF PromptFails, DrainFails, storeVars, history
<1>3. CASE PromptFails(r)
  <2>1. frame' = [frame EXCEPT ![r] = [NewFrame EXCEPT !.stage = "done"]] /\ UNCHANGED loopVars
    BY <1>3 DEF PromptFails
  <2>2. out[r] = <<>>
    BY <1>0, <1>3 DEF PromptFails, RunShape
  <2>3. /\ frame'[r].held = <<>> /\ frame'[r].msgs = <<>> /\ frame'[r].step = "new"
        /\ out'[r] = <<>>
    BY <1>0, <2>1, <2>2 DEF NewFrame, loopVars
  <2>4. Hand(r)' = <<>>
    <3>1. Picked(r)' = <<>> /\ Air(r)' = <<>>
      BY <2>3, NothingInAir DEF Picked, Air
    <3> QED BY <3>1 DEF Hand
  <2> QED BY <1>0, <1>1, <1>2, <1>3, <2>4, ToldNothing DEF PutsBack, PromptFails
<1>4. CASE DrainFails(r)
  <2>1. frame[r].stage = "running" /\ HooksThrow /\ RunThrows(r)
    BY <1>0, <1>4 DEF DrainFails, RunShape, FrameRecord, Stages, Before
  <2>2. Told(Hand(r)') = {} /\ Singly(Hand(r)')
    BY <2>1, ThrowsAway
  <2>3. Passes(r)
    BY <2>1, <2>2 DEF Passes
  <2> QED BY <1>0, <1>1, <1>2, <1>4, <2>1, <2>2, <2>3 DEF PutsBack, DrainFails, queueVars
<1> QED BY <1>3, <1>4

(* A message that is persisted leaves the air for the session.               *)
LEMMA PersistsOne ==
  ASSUME TypesInv, NEW r \in Runs, InPlace(r), PersistsHead(r), MessagePersisted(r)
  PROVE  /\ UNCHANGED <<queueVars, pendingSessionWrites, withdrawn, sent>>
         /\ io'[Client] = io[Client]
         /\ \E m \in Messages : /\ Hand(r)' \in Seq(Slots) /\ Hand(r) = <<m>> \o Hand(r)'
                                /\ Transcript' = Append(Transcript, m)
<1>0. /\ frame \in [Runs -> FrameRecord] /\ frame[r] \in FrameRecord /\ RunShape(r) /\ InPlace(r)
      /\ LoopTypeOK /\ StoreTypes /\ r \in Actors /\ Client \in Actors \ Runs
      /\ io \in [Actors -> [m : Messages \cup {NoMessage}, parent : Nat]]
  BY ActorsDiffer DEF TypesInv, HarnessTypes, LoopShape, StoreTypes, Actors
<1>1. /\ out[r] # <<>> /\ out[r][1].type = "message_end" /\ frame[r].step = "append"
      /\ CommitAppend(r) /\ UNCHANGED loopVars /\ frame' = [frame EXCEPT ![r].step = "notify"]
  BY DEF MessagePersisted, Handling, Head_
<1>2. frame[r].held = <<>> /\ frame[r].msgs = <<>>
  BY <1>0, <1>1 DEF RunShape, InPlace, Before
<1>3. /\ frame'[r].held = <<>> /\ frame'[r].msgs = <<>> /\ frame'[r].step = "notify"
      /\ out'[r] = out[r]
  BY <1>0, <1>1, <1>2 DEF FrameRecord, loopVars
<1> DEFINE m == out[r][1].msg
           t == Carried(Tail(out[r]))
<1>4. t \in Seq(Slots) /\ Carried(out[r]) = <<m>> \o t
  BY <1>0, <1>1, AirSplits
<1>5. io[r].m = m /\ m \in Messages /\ Transcript' = Append(Transcript, m)
  <2>1. io[r] # NoIO
    BY <1>1 DEF CommitAppend
  <2>2. io[r].m = m
    BY <1>1, <2>1 DEF PersistsHead
  <2> QED BY <1>0, <1>1, <2>2, TranscriptGrows
<1>6. Hand(r) = Carried(out[r]) /\ Hand(r)' = t
  <2>1. Air(r) = Carried(out[r]) /\ Air(r)' = t
    BY <1>1, <1>3 DEF Air
  <2>2. Picked(r) = <<>> /\ Picked(r)' = <<>>
    BY <1>2, <1>3 DEF Picked
  <2>3. Carried(out[r]) \in Seq(Slots)
    BY <1>0, CarriedType DEF LoopTypeOK
  <2> QED BY <1>4, <2>1, <2>2, <2>3, ConcatEmptySeq DEF Hand
<1>7. io'[Client] = io[Client]
  BY <1>0, <1>1 DEF CommitAppend
<1> QED BY <1>4, <1>5, <1>6, <1>7 DEF MessagePersisted, history

LEMMA Apart ==
  ASSUME NEW S, NEW n, NEW all, Whole(S, n, all), NEW a \in 1..8, NEW b \in 1..8, a # b
  PROVE  S[a] \cap S[b] = {}
BY DEF Whole

LEMMA Parts ==
  ASSUME NEW t \in Seq(Slots), NEW rest \in Seq(Slots), NEW s, s = t \o rest, Singly(s)
  PROVE  /\ Told(t) \subseteq Told(s) /\ Told(rest) = Told(s) \ Told(t)
         /\ Singly(t) /\ Singly(rest)
<1>1. /\ Told(s) = Told(t) \cup Told(rest)
      /\ Singly(t) /\ Singly(rest) /\ Told(t) \cap Told(rest) = {}
  BY ToldConcat
<1> QED BY <1>1

LEMMA Joins ==
  ASSUME NEW t \in Seq(Slots), NEW h \in Seq(Slots), Singly(t), Singly(h),
         Told(t) \cap Told(h) = {}
  PROVE  /\ Told(t \o h) = Told(h) \cup Told(t) /\ Singly(t \o h)
         /\ Told(h \o t) = Told(h) \cup Told(t) /\ Singly(h \o t)
<1>1. /\ Told(t \o h) = Told(t) \cup Told(h)
      /\ Singly(t \o h) <=> Singly(t) /\ Singly(h) /\ Told(t) \cap Told(h) = {}
  BY ONLY ToldConcat, t \in Seq(Slots), h \in Seq(Slots)
<1>2. /\ Told(h \o t) = Told(h) \cup Told(t)
      /\ Singly(h \o t) <=> Singly(h) /\ Singly(t) /\ Told(h) \cap Told(t) = {}
  BY ONLY ToldConcat, t \in Seq(Slots), h \in Seq(Slots)
<1>3. Told(h) \cap Told(t) = {}
  OBVIOUS
<1>4. Singly(t \o h)
  BY <1>1
<1>5. Singly(h \o t)
  BY <1>2, <1>3
<1>6. Told(t \o h) = Told(h) \cup Told(t)
  BY <1>1
<1> QED BY <1>2, <1>4, <1>5, <1>6

(* The run whose step it is has all that is in hands.                        *)
LEMMA RunHands ==
  ASSUME TypesInv, HandShape, OneRun, NEW r \in Runs, RunStep(r)
  PROVE  /\ InHands = Told(Hand(r)) /\ InHands' = Told(Hand(r)')
         /\ \A q \in Runs : q # r => Singly(Hand(q)')
<1>1. r \in Live
  BY RunStepLock DEF LockEffect
<1>2. Live \subseteq {r}
  BY <1>1 DEF OneRun
<1>3. InHands = Told(Hand(r))
  BY <1>2, OneHand
<1>4. ASSUME NEW q \in Runs, q # r PROVE Hand(q)' = <<>>
  <2>1. frame'[q] = frame[q] /\ out'[q] = out[q]
    BY <1>4, OthersStay DEF TypesInv
  <2>2. Hand(q)' = Hand(q)
    BY <2>1 DEF Hand, Picked, Air
  <2> QED BY <1>2, <1>4, <2>2, IdleHand
<1>5. \A q \in Runs : q # r => Told(Hand(q)') = {} /\ Singly(Hand(q)')
  BY <1>4, ToldNothing
<1>6. InHands' = Told(Hand(r)')
  <2>1. InHands' = UNION {Told(Hand(q)') : q \in Runs}
    BY DEF InHands
  <2> QED BY <1>5, <2>1
<1> QED BY <1>3, <1>5, <1>6

LEMMA DeliveredWithin ==
  ASSUME TypesInv, HandShape, OneRun, Delivery, NEW r \in Runs, RunStep(r), Passes(r), Unmoved
  PROVE  Delivery'
<1>1. /\ Spots'[1] = Spots[1] /\ Spots'[2] = Spots[2] /\ Spots'[3] = Spots[3]
      /\ Spots'[4] = Spots[4] /\ Spots'[6] = Spots[6] /\ Spots'[7] = Spots[7]
      /\ Spots'[8] = Spots[8] /\ Transcript' = Transcript /\ sent' = sent
  BY SpotsAre DEF Unmoved, queueVars, Transcript
<1>2. Spots'[5] \subseteq Spots[5] /\ (~HooksThrow => Spots'[5] = Spots[5])
  BY RunHands, SpotsAre DEF Passes
<1>3. \A a \in 1..8 : Spots'[a] \subseteq Spots[a]
  BY <1>1, <1>2
<1>4. ~HooksThrow => \A a \in 1..8 : Spots'[a] = Spots[a]
  BY <1>1, <1>2
<1> DEFINE S == Spots
           T == Spots'
           all == ~HooksThrow
<1>5. /\ Whole(S, sent, all) /\ all \in BOOLEAN /\ (\A a \in 1..8 : T[a] \subseteq S[a])
      /\ (all => \A a \in 1..8 : T[a] = S[a])
  BY <1>3, <1>4 DEF Delivery
<1> HIDE DEF S, T, all
<1>6. Whole(T, sent, all)
  BY <1>5, SpotsShrink
<1>7. \A q \in Runs : Singly(Hand(q)')
  BY RunHands DEF Passes, Delivery
<1> QED BY <1>1, <1>6, <1>7 DEF T, all, Delivery, Unmoved, queueVars

(* What is taken from the queue in place a comes into the hands, ...         *)
LEMMA WholeTaken ==
  ASSUME Delivery, NEW a \in 1..4, NEW r \in Runs, InHands = Told(Hand(r)),
         Hand(r) \in Seq(Slots), InHands' = Told(Hand(r)'), UNCHANGED sent,
         NEW queue, NEW rest, Takes(r, queue, rest), Singly(queue),
         Spots[a] = Told(queue), Spots'[a] = Told(rest),
         \A c \in 1..8 : c # a /\ c # 5 => Spots'[c] = Spots[c]
  PROVE  /\ Whole(Spots', sent', ~HooksThrow)
         /\ Singly(rest) /\ Singly(Hand(r)')
<1> DEFINE S == Spots
           T == Spots'
           all == ~HooksThrow
           h == Hand(r)
           g == Hand(r)'
<1>0. /\ Whole(S, sent, all) /\ all \in BOOLEAN /\ Singly(h) /\ h \in Seq(Slots)
      /\ S[5] = Told(h) /\ T[5] = Told(g) /\ S[a] = Told(queue) /\ T[a] = Told(rest)
      /\ (\A c \in 1..8 : c # a /\ c # 5 => T[c] = S[c]) /\ a \in 1..8 /\ a # 5 /\ 5 \in 1..8
  BY SpotsAre DEF Delivery
<1>1. PICK t \in Seq(Slots) : rest \in Seq(Slots) /\ queue = t \o rest /\ g = t \o h
  BY DEF Takes
<1> HIDE DEF S, T, all, h, g
<1>2. /\ Told(t) \subseteq Told(queue) /\ Told(rest) = Told(queue) \ Told(t)
      /\ Singly(t) /\ Singly(rest)
  BY <1>1, Parts
<1>3. S[a] \cap S[5] = {}
  BY <1>0, Apart
<1>4. Told(t) \cap Told(h) = {}
  BY <1>0, <1>2, <1>3
<1>5. Told(g) = Told(h) \cup Told(t) /\ Singly(g)
  BY <1>0, <1>1, <1>2, <1>4, Joins
<1>6. /\ Told(t) \subseteq S[a] /\ T[a] = S[a] \ Told(t) /\ T[5] = S[5] \cup Told(t)
  BY <1>0, <1>2, <1>5
<1>7. Moves(S, T, a, 5, Told(t), all)
  BY <1>0, <1>6 DEF Moves
<1>8. Whole(T, sent, all)
  BY <1>0, <1>7, SpotsMove
<1> QED BY <1>2, <1>5, <1>8 DEF T, all, g

(* ... and what is put back leaves them.                                     *)
LEMMA WholePutBack ==
  ASSUME Delivery, NEW a \in 1..4, NEW r \in Runs, InHands = Told(Hand(r)),
         InHands' = Told(Hand(r)'), UNCHANGED sent,
         NEW queue, NEW more, PutsBack(r, queue, more), Singly(queue),
         Spots[a] = Told(queue), Spots'[a] = Told(more),
         \A c \in 1..8 : c # a /\ c # 5 => Spots'[c] = Spots[c]
  PROVE  /\ Whole(Spots', sent', ~HooksThrow)
         /\ Singly(more) /\ Singly(Hand(r)')
<1> DEFINE S == Spots
           T == Spots'
           all == ~HooksThrow
           h == Hand(r)
<1>01. HooksThrow /\ T[5] = {}
  BY SpotsAre DEF PutsBack
<1>02. ~all /\ all \in BOOLEAN
  BY <1>01
<1>0. /\ Whole(S, sent, all) /\ Singly(h)
      /\ S[5] = Told(h) /\ S[a] = Told(queue) /\ T[a] = Told(more)
      /\ (\A c \in 1..8 : c # a /\ c # 5 => T[c] = S[c]) /\ a \in 1..8 /\ a # 5 /\ 5 \in 1..8
  BY SpotsAre DEF Delivery
<1>1. PICK t \in Seq(Slots), u \in Seq(Slots) :
        queue \in Seq(Slots) /\ more = t \o queue /\ h = t \o u
  BY DEF PutsBack
<1> HIDE DEF S, T, all, h
<1>2. Told(t) \subseteq Told(h) /\ Singly(t)
  BY <1>0, <1>1, Parts
<1>3. S[a] \cap S[5] = {}
  BY <1>0, Apart
<1>4. Told(t) \cap Told(queue) = {}
  BY <1>0, <1>2, <1>3
<1>5. Told(more) = Told(queue) \cup Told(t) /\ Singly(more)
  BY <1>1, <1>2, <1>4, Joins
<1>6. /\ Told(t) \subseteq S[5] /\ T[5] \subseteq S[5] \ Told(t) /\ T[a] = S[a] \cup Told(t)
  BY <1>0, <1>01, <1>2, <1>5
<1>7. Moves(S, T, 5, a, Told(t), all)
  BY <1>0, <1>02, <1>6 DEF Moves
<1>8. Whole(T, sent, all)
  BY <1>0, <1>02, <1>7, SpotsMove
<1> QED BY <1>5, <1>8 DEF T, all, PutsBack

(* What is written leaves place a, the hands or the queue of the writes, for *)
(* the session.                                                              *)
LEMMA WholeWritten ==
  ASSUME Delivery, NEW a \in 1..6, UNCHANGED sent, NEW before, NEW after \in Seq(Slots),
         NEW m \in Messages, before = <<m>> \o after, Singly(before),
         Transcript \in Seq(Messages), Transcript' = Append(Transcript, m),
         Spots[a] = Told(before), Spots'[a] = Told(after),
         \A c \in 1..8 : c # a /\ c # 7 => Spots'[c] = Spots[c]
  PROVE  /\ Whole(Spots', sent', ~HooksThrow)
         /\ Singly(after) /\ Singly(Transcript')
<1> DEFINE S == Spots
           T == Spots'
           all == ~HooksThrow
           d == Transcript
           e == Transcript'
           t == <<m>>
<1>0. /\ Whole(S, sent, all) /\ all \in BOOLEAN /\ Singly(d)
      /\ S[7] = Told(d) /\ T[7] = Told(e) /\ S[a] = Told(before) /\ T[a] = Told(after)
      /\ (\A c \in 1..8 : c # a /\ c # 7 => T[c] = S[c]) /\ a \in 1..8 /\ a # 7 /\ 7 \in 1..8
  BY SpotsAre DEF Delivery
<1>1. e = d \o t /\ d \in Seq(Slots) /\ t \in Seq(Slots)
  <2>1. Messages \subseteq Slots
    BY DEF Slots
  <2>2. Append(Transcript, m) = Transcript \o <<m>>
    BY AppendIsConcat
  <2> QED BY <2>1, <2>2, SeqMonotonic
<1>2. before = t \o after
  OBVIOUS
<1> HIDE DEF S, T, all, d, e, t
<1>3. /\ Told(t) \subseteq Told(before) /\ Told(after) = Told(before) \ Told(t)
      /\ Singly(t) /\ Singly(after)
  BY <1>1, <1>2, Parts
<1>4. S[a] \cap S[7] = {}
  BY <1>0, Apart
<1>5. Told(t) \cap Told(d) = {}
  BY <1>0, <1>3, <1>4
<1>6. Told(e) = Told(d) \cup Told(t) /\ Singly(e)
  BY <1>0, <1>1, <1>3, <1>5, Joins
<1>7. /\ Told(t) \subseteq S[a] /\ T[a] = S[a] \ Told(t) /\ T[7] = S[7] \cup Told(t)
  BY <1>0, <1>3, <1>6
<1>8. Moves(S, T, a, 7, Told(t), all)
  BY <1>0, <1>7 DEF Moves
<1>9. Whole(T, sent, all)
  BY <1>0, <1>8, SpotsMove
<1> QED BY <1>3, <1>6, <1>9 DEF T, all, e

(* A step of a run leaves every message in one place.                        *)
LEMMA DeliveredByRun ==
  ASSUME Steady, Locked, Lineal, Deferred, HandShape, Delivery, NEW r \in Runs, RunStep(r)
  PROVE  Delivery'
<1>0. /\ TypesInv /\ StoreTypes /\ RunShape(r) /\ InPlace(r) /\ PersistsHead(r) /\ OneRun
      /\ r \in Actors /\ Client \in Actors /\ Client # r
      /\ frame \in [Runs -> FrameRecord] /\ out \in [Runs -> Seq(Events)]
      /\ io \in [Actors -> [m : Messages \cup {NoMessage}, parent : Nat]]
      /\ Singly(steerQueue) /\ Singly(followUpQueue) /\ Singly(nextTurnQueue)
      /\ Singly(pendingSessionWrites) /\ Singly(Transcript) /\ Singly(Hand(r))
  BY ActorsDiffer DEF Steady, TypesInv, HarnessTypes, LoopShape, LoopTypeOK, StoreTypes, Locked,
       Lineal, Faithful, HandShape, Delivery, Actors
<1>1. /\ InHands = Told(Hand(r)) /\ InHands' = Told(Hand(r)')
      /\ \A q \in Runs : q # r => Singly(Hand(q)')
      /\ Hand(r) \in Seq(Slots) /\ Transcript \in Seq(Messages)
  BY <1>0, RunHands, HandType, TranscriptType
<1>2. ASSUME UNCHANGED log PROVE Transcript' = Transcript
  BY <1>2 DEF Transcript
<1>3. CASE TakeNextTurn(r) \/ ((DrainSteering(r) \/ DrainFollowUps(r)) /\ frame' # frame)
  <2>1. UNCHANGED <<pendingSessionWrites, log, io, withdrawn, sent>>
    BY <1>0, <1>3, TakesUp
  <2>2. /\ Spots'[4] = Spots[4] /\ Spots'[6] = Spots[6] /\ Spots'[7] = Spots[7]
        /\ Spots'[8] = Spots[8] /\ Transcript' = Transcript
    BY <1>2, <2>1, SpotsAre
  <2>3. ASSUME Takes(r, nextTurnQueue, nextTurnQueue'), UNCHANGED <<steerQueue, followUpQueue>>
        PROVE  Delivery'
    <3>1. /\ Spots'[1] = Spots[1] /\ Spots'[2] = Spots[2]
          /\ Spots[3] = Told(nextTurnQueue) /\ Spots'[3] = Told(nextTurnQueue')
      BY <2>3, SpotsAre
    <3>2. \A c \in 1..8 : c # 3 /\ c # 5 => Spots'[c] = Spots[c]
      BY <2>2, <3>1
    <3>3. /\ Whole(Spots', sent', ~HooksThrow) /\ Singly(nextTurnQueue') /\ Singly(Hand(r)')
      BY <1>0, <1>1, <2>1, <2>3, <3>1, <3>2, WholeTaken
    <3> QED BY <1>0, <1>1, <2>1, <2>2, <2>3, <3>3 DEF Delivery
  <2>4. ASSUME Takes(r, steerQueue, steerQueue'), UNCHANGED <<nextTurnQueue, followUpQueue>>
        PROVE  Delivery'
    <3>1. /\ Spots'[3] = Spots[3] /\ Spots'[2] = Spots[2]
          /\ Spots[1] = Told(steerQueue) /\ Spots'[1] = Told(steerQueue')
      BY <2>4, SpotsAre
    <3>2. \A c \in 1..8 : c # 1 /\ c # 5 => Spots'[c] = Spots[c]
      BY <2>2, <3>1
    <3>3. /\ Whole(Spots', sent', ~HooksThrow) /\ Singly(steerQueue') /\ Singly(Hand(r)')
      BY <1>0, <1>1, <2>1, <2>4, <3>1, <3>2, WholeTaken
    <3> QED BY <1>0, <1>1, <2>1, <2>2, <2>4, <3>3 DEF Delivery
  <2>5. ASSUME Takes(r, followUpQueue, followUpQueue'), UNCHANGED <<nextTurnQueue, steerQueue>>
        PROVE  Delivery'
    <3>1. /\ Spots'[3] = Spots[3] /\ Spots'[1] = Spots[1]
          /\ Spots[2] = Told(followUpQueue) /\ Spots'[2] = Told(followUpQueue')
      BY <2>5, SpotsAre
    <3>2. \A c \in 1..8 : c # 2 /\ c # 5 => Spots'[c] = Spots[c]
      BY <2>2, <3>1
    <3>3. /\ Whole(Spots', sent', ~HooksThrow) /\ Singly(followUpQueue') /\ Singly(Hand(r)')
      BY <1>0, <1>1, <2>1, <2>5, <3>1, <3>2, WholeTaken
    <3> QED BY <1>0, <1>1, <2>1, <2>2, <2>5, <3>3 DEF Delivery
  <2> QED BY <1>0, <1>3, <2>3, <2>4, <2>5, TakesUp
<1>4. CASE PromptFails(r) \/ DrainFails(r)
  <2>1. UNCHANGED <<pendingSessionWrites, log, io, withdrawn, sent>>
    BY <1>0, <1>4, PutsThemBack
  <2>2. /\ Spots'[4] = Spots[4] /\ Spots'[6] = Spots[6] /\ Spots'[7] = Spots[7]
        /\ Spots'[8] = Spots[8] /\ Transcript' = Transcript
    BY <1>2, <2>1, SpotsAre
  <2>3. ASSUME PutsBack(r, nextTurnQueue, nextTurnQueue'), UNCHANGED <<steerQueue, followUpQueue>>
        PROVE  Delivery'
    <3>1. /\ Spots'[1] = Spots[1] /\ Spots'[2] = Spots[2]
          /\ Spots[3] = Told(nextTurnQueue) /\ Spots'[3] = Told(nextTurnQueue')
      BY <2>3, SpotsAre
    <3>2. \A c \in 1..8 : c # 3 /\ c # 5 => Spots'[c] = Spots[c]
      BY <2>2, <3>1
    <3>3. /\ Whole(Spots', sent', ~HooksThrow) /\ Singly(nextTurnQueue') /\ Singly(Hand(r)')
      BY <1>0, <1>1, <2>1, <2>3, <3>1, <3>2, WholePutBack
    <3> QED BY <1>0, <1>1, <2>1, <2>2, <2>3, <3>3 DEF Delivery
  <2>4. ASSUME PutsBack(r, steerQueue, steerQueue'), UNCHANGED <<nextTurnQueue, followUpQueue>>
        PROVE  Delivery'
    <3>1. /\ Spots'[3] = Spots[3] /\ Spots'[2] = Spots[2]
          /\ Spots[1] = Told(steerQueue) /\ Spots'[1] = Told(steerQueue')
      BY <2>4, SpotsAre
    <3>2. \A c \in 1..8 : c # 1 /\ c # 5 => Spots'[c] = Spots[c]
      BY <2>2, <3>1
    <3>3. /\ Whole(Spots', sent', ~HooksThrow) /\ Singly(steerQueue') /\ Singly(Hand(r)')
      BY <1>0, <1>1, <2>1, <2>4, <3>1, <3>2, WholePutBack
    <3> QED BY <1>0, <1>1, <2>1, <2>2, <2>4, <3>3 DEF Delivery
  <2>5. ASSUME PutsBack(r, followUpQueue, followUpQueue'), UNCHANGED <<nextTurnQueue, steerQueue>>
        PROVE  Delivery'
    <3>1. /\ Spots'[3] = Spots[3] /\ Spots'[1] = Spots[1]
          /\ Spots[2] = Told(followUpQueue) /\ Spots'[2] = Told(followUpQueue')
      BY <2>5, SpotsAre
    <3>2. \A c \in 1..8 : c # 2 /\ c # 5 => Spots'[c] = Spots[c]
      BY <2>2, <3>1
    <3>3. /\ Whole(Spots', sent', ~HooksThrow) /\ Singly(followUpQueue') /\ Singly(Hand(r)')
      BY <1>0, <1>1, <2>1, <2>5, <3>1, <3>2, WholePutBack
    <3> QED BY <1>0, <1>1, <2>1, <2>2, <2>5, <3>3 DEF Delivery
  <2>6. ASSUME Passes(r), UNCHANGED queueVars PROVE Delivery'
    <3>1. Unmoved
      BY <2>1, <2>6 DEF Unmoved
    <3> QED BY <1>0, <2>6, <3>1, DeliveredWithin
  <2> QED BY <1>0, <1>4, <2>3, <2>4, <2>5, <2>6, PutsThemBack
<1>5. CASE MessagePersisted(r)
  <2>1. /\ UNCHANGED <<queueVars, pendingSessionWrites, withdrawn, sent>>
        /\ io'[Client] = io[Client]
    BY <1>0, <1>5, PersistsOne
  <2>2. PICK m \in Messages : /\ Hand(r)' \in Seq(Slots) /\ Hand(r) = <<m>> \o Hand(r)'
                              /\ Transcript' = Append(Transcript, m)
    BY <1>0, <1>5, PersistsOne
  <2>3. /\ Spots'[1] = Spots[1] /\ Spots'[2] = Spots[2] /\ Spots'[3] = Spots[3]
        /\ Spots'[4] = Spots[4] /\ Spots'[6] = Spots[6] /\ Spots'[8] = Spots[8]
        /\ Spots[5] = Told(Hand(r)) /\ Spots'[5] = Told(Hand(r)')
    BY <1>1, <2>1, SpotsAre DEF queueVars
  <2>4. \A c \in 1..8 : c # 5 /\ c # 7 => Spots'[c] = Spots[c]
    BY <2>3
  <2>5. Whole(Spots', sent', ~HooksThrow) /\ Singly(Hand(r)') /\ Singly(Transcript')
    <3> DEFINE before == Hand(r)
               after == Hand(r)'
    <3>1. /\ Singly(before) /\ before = <<m>> \o after /\ after \in Seq(Slots)
          /\ Spots[5] = Told(before) /\ Spots'[5] = Told(after) /\ 5 \in 1..6
      BY <1>0, <2>2, <2>3
    <3> HIDE DEF before, after
    <3>2. Whole(Spots', sent', ~HooksThrow) /\ Singly(after) /\ Singly(Transcript')
      BY <1>1, <2>1, <2>2, <2>4, <3>1, WholeWritten
    <3> QED BY <3>2 DEF after
  <2> QED BY <1>0, <1>1, <2>1, <2>5 DEF Delivery, queueVars
<1>6. CASE FlushWritten(r)
  <2>1. /\ UNCHANGED <<queueVars, frame, loopVars, withdrawn, sent>> /\ Flushing(r) /\ CommitAppend(r)
        /\ pendingSessionWrites' = SubSeq(pendingSessionWrites, 2, Len(pendingSessionWrites))
    BY <1>6 DEF FlushWritten, FlushLeaves, history
  <2>2. pendingSessionWrites # <<>> /\ io[r].m = pendingSessionWrites[1] /\ io'[Client] = io[Client]
    BY <1>0, <2>1 DEF CommitAppend, Deferred, AppendsHead
  <2> DEFINE m == pendingSessionWrites[1]
             before == pendingSessionWrites
             after == pendingSessionWrites'
  <2>3. /\ after \in Seq(Writes) /\ before = <<m>> \o after
    BY <2>1, <2>2, HeadAndRest DEF Steady, TypesInv, HarnessTypes, QueueTypes
  <2>4. after \in Seq(Slots)
    BY <2>3, ToldInputs
  <2>5. Transcript' = Append(Transcript, m) /\ m \in Messages
    BY <1>0, <2>1, <2>2, TranscriptGrows
  <2>6. \A q \in Runs : Hand(q)' = Hand(q)
    BY <2>1 DEF Hand, Picked, Air, loopVars
  <2>7. InHands' = InHands
    BY <2>6 DEF InHands
  <2>8. /\ Spots'[1] = Spots[1] /\ Spots'[2] = Spots[2] /\ Spots'[3] = Spots[3]
        /\ Spots'[5] = Spots[5] /\ Spots'[6] = Spots[6] /\ Spots'[8] = Spots[8]
        /\ Spots[4] = Told(before) /\ Spots'[4] = Told(after)
    BY <2>1, <2>2, <2>7, SpotsAre DEF queueVars
  <2>9. \A c \in 1..8 : c # 4 /\ c # 7 => Spots'[c] = Spots[c]
    BY <2>8
  <2>10. Singly(before) /\ UNCHANGED sent
    BY <1>0, <2>1
  <2>11. \A q \in Runs : Singly(Hand(q)')
    BY <2>6 DEF Delivery
  <2>12. Whole(Spots', sent', ~HooksThrow) /\ Singly(after) /\ Singly(Transcript')
    <3> HIDE DEF m, before, after
    <3>1. 4 \in 1..6 /\ Spots[4] = Told(before) /\ Spots'[4] = Told(after)
      BY <2>8
    <3> QED BY <1>1, <2>3, <2>4, <2>5, <2>9, <2>10, <3>1, WholeWritten
  <2> QED BY <1>0, <2>1, <2>11, <2>12 DEF Delivery, queueVars
<1>7. CASE ~(FlushWritten(r) \/ MessagePersisted(r) \/ TakeNextTurn(r) \/ PromptFails(r)
             \/ DrainFails(r) \/ ((DrainSteering(r) \/ DrainFollowUps(r)) /\ frame' # frame))
  BY <1>0, <1>7, StaysInHand, DeliveredWithin
<1> QED BY <1>3, <1>4, <1>5, <1>6, <1>7

(* A new message comes into one place.                                       *)
LEMMA WholeNew ==
  ASSUME TypesInv, Delivery, NEW a \in 1..8, sent' = sent + 1,
         Spots'[a] = Spots[a] \cup {sent + 1}, \A c \in 1..8 : c # a => Spots'[c] = Spots[c]
  PROVE  Whole(Spots', sent', ~HooksThrow)
<1> DEFINE S == Spots
           T == Spots'
           all == ~HooksThrow
<1>1. /\ Whole(S, sent, all) /\ all \in BOOLEAN /\ sent \in Nat
      /\ T[a] = S[a] \cup {sent + 1} /\ \A c \in 1..8 : c # a => T[c] = S[c]
  BY DEF Delivery, TypesInv, HarnessTypes, Scalars
<1> HIDE DEF S, T, all
<1>2. Whole(T, sent + 1, all)
  BY <1>1, SpotsNew
<1> QED BY <1>2 DEF T, all

LEMMA Arrives ==
  ASSUME TypesInv, Delivery, NEW a \in 1..8, NEW queue \in Seq(Slots), Spots[a] = Told(queue),
         Singly(queue), NEW m \in Slots, m.role = "user", m.n = sent + 1
  PROVE  /\ Singly(Append(queue, m)) /\ Append(queue, m) \in Seq(Slots)
         /\ Told(Append(queue, m)) = Told(queue) \cup {sent + 1}
<1> DEFINE t == <<m>>
<1>1. t \in Seq(Slots) /\ Singly(t) /\ Told(t) = {sent + 1}
  BY ToldOne
<1>2. Append(queue, m) = queue \o t
  BY AppendIsConcat
<1> HIDE DEF t
<1>3. sent + 1 \notin Told(queue)
  <2>1. Spots[a] \subseteq 1..sent /\ sent \in Nat
    BY DEF Delivery, Whole, TypesInv, HarnessTypes, Scalars
  <2> QED BY <2>1
<1>4. Told(t) \cap Told(queue) = {}
  BY <1>1, <1>3
<1>5. Told(queue \o t) = Told(queue) \cup Told(t) /\ Singly(queue \o t)
  BY <1>1, <1>4, Joins
<1> QED BY <1>1, <1>2, <1>5

(* Where the frames and what is awaited stay, so do the hands.               *)
LEMMA HandsStay ==
  ASSUME UNCHANGED <<frame, out>>
  PROVE  /\ Spots'[5] = Spots[5] /\ \A q \in Runs : Hand(q)' = Hand(q)
<1>1. \A q \in Runs : Hand(q)' = Hand(q)
  BY DEF Hand, Picked, Air
<1>2. InHands' = InHands
  BY <1>1 DEF InHands
<1> QED BY <1>1, <1>2, SpotsAre

LEMMA DeliveredPrompt ==
  ASSUME ~Overlap, TypesInv, HandShape, Delivery, NEW r \in Runs, Prompt(r)
  PROVE  Delivery'
<1> DEFINE m == UserMessage("prompt", sent + 1)
<1>0. /\ frame \in [Runs -> FrameRecord] /\ out \in [Runs -> Seq(Events)] /\ sent \in Nat
      /\ RunShape(r) /\ InPlace(r) /\ Live = {} /\ frame[r].stage = "unused" /\ sent' = sent + 1
      /\ UNCHANGED <<out, queueVars, pendingSessionWrites, log, io, withdrawn>>
      /\ frame' = [frame EXCEPT ![r].stage = "snapshot", ![r].msgs = <<m>>]
  BY DEF TypesInv, HarnessTypes, LoopShape, LoopTypeOK, Scalars, HandShape, Prompt, BeginPrompt,
       CallersWait, loopVars, storeVars, history
<1>1. m \in Inputs /\ m.role = "user" /\ m.n = sent + 1
  <2>1. m \in Inputs
    BY <1>0, InputTypes
  <2>2. m.role = "user" /\ m.n = sent + 1
    BY DEF UserMessage
  <2> QED BY <2>1, <2>2
<1>2. m \in Slots /\ <<m>> \in Seq(Slots) /\ Singly(<<m>>) /\ Told(<<m>>) = {sent + 1}
  <2>1. m \in Slots
    BY <1>1 DEF Inputs, Slots
  <2> QED BY <1>1, <2>1, ToldOne
<1> HIDE DEF m
<1>3. \A q \in Runs : Hand(q) = <<>>
  BY <1>0, IdleHand
<1>4. Hand(r)' = <<m>>
  <2>1. frame[r].held = <<>> /\ out[r] = <<>> /\ frame[r].step = "new"
    BY <1>0 DEF RunShape, InPlace
  <2>2. /\ frame'[r].held = <<>> /\ frame'[r].msgs = <<m>> /\ frame'[r].step = "new"
        /\ out'[r] = <<>>
    BY <1>0, <2>1 DEF FrameRecord
  <2>3. Picked(r)' = <<m>> /\ Air(r)' = <<>>
    BY <1>2, <2>2, NothingInAir, ConcatEmptySeq DEF Picked, Air
  <2> QED BY <1>2, <2>3, ConcatEmptySeq DEF Hand
<1>5. ASSUME NEW q \in Runs, q # r PROVE Hand(q)' = <<>>
  <2>1. frame'[q] = frame[q] /\ out'[q] = out[q]
    BY <1>0, <1>5
  <2>2. Hand(q)' = Hand(q)
    BY <2>1 DEF Hand, Picked, Air
  <2> QED BY <1>3, <2>2
<1>6. InHands = {} /\ InHands' = {sent + 1}
  <2>1. \A q \in Runs : Told(Hand(q)) = {}
    BY <1>3, ToldNothing
  <2>2. \A q \in Runs : q # r => Told(Hand(q)') = {}
    BY <1>5, ToldNothing
  <2>3. Told(Hand(r)') = {sent + 1}
    BY <1>2, <1>4
  <2>4. InHands' = UNION {Told(Hand(q)') : q \in Runs}
    BY DEF InHands
  <2> QED BY <2>1, <2>2, <2>3, <2>4 DEF InHands
<1>7. \A q \in Runs : Singly(Hand(q)')
  BY <1>2, <1>4, <1>5, ToldNothing
<1>8. Transcript' = Transcript
  BY <1>0 DEF Transcript
<1>9. /\ Spots'[5] = Spots[5] \cup {sent + 1}
      /\ Spots'[1] = Spots[1] /\ Spots'[2] = Spots[2] /\ Spots'[3] = Spots[3]
      /\ Spots'[4] = Spots[4] /\ Spots'[6] = Spots[6] /\ Spots'[7] = Spots[7]
      /\ Spots'[8] = Spots[8]
  BY <1>0, <1>6, <1>8, SpotsAre DEF queueVars
<1>10. \A c \in 1..8 : c # 5 => Spots'[c] = Spots[c]
  BY <1>9
<1>11. Whole(Spots', sent', ~HooksThrow)
  BY <1>0, <1>9, <1>10, WholeNew
<1> QED BY <1>0, <1>7, <1>8, <1>11 DEF Delivery, queueVars

(* What a caller hands over is queued.                                       *)
LEMMA DeliveredQueued ==
  ASSUME TypesInv, Delivery, Steer \/ FollowUp \/ NextTurn \/ DeferWrite
  PROVE  Delivery'
<1>0. /\ sent \in Nat /\ UNCHANGED <<frame, out, log, io, withdrawn>> /\ sent' = sent + 1
      /\ steerQueue \in Seq(Slots) /\ followUpQueue \in Seq(Slots)
      /\ nextTurnQueue \in Seq(Slots) /\ pendingSessionWrites \in Seq(Slots)
      /\ Singly(steerQueue) /\ Singly(followUpQueue) /\ Singly(nextTurnQueue)
      /\ Singly(pendingSessionWrites) /\ Singly(Transcript) /\ \A q \in Runs : Singly(Hand(q))
  BY ToldInputs DEF TypesInv, HarnessTypes, Scalars, QueueTypes, Delivery, Steer, FollowUp,
       NextTurn, DeferWrite, PutOff, NewWrite, UserMessage, loopVars, storeVars, history
<1>1. Transcript' = Transcript
  BY <1>0 DEF Transcript
<1>2. /\ Spots'[5] = Spots[5] /\ \A q \in Runs : Singly(Hand(q)')
  BY <1>0, HandsStay
<1>3. Spots'[6] = Spots[6] /\ Spots'[7] = Spots[7] /\ Spots'[8] = Spots[8]
  BY <1>0, <1>1, SpotsAre
<1>4. \A kind \in {"steer", "followUp", "nextTurn", "write"} :
        LET m == UserMessage(kind, sent + 1)
        IN  m \in Slots /\ m.role = "user" /\ m.n = sent + 1
  <2> TAKE kind \in {"steer", "followUp", "nextTurn", "write"}
  <2>1. UserMessage(kind, sent + 1) \in Inputs \cup Writes
    BY <1>0, InputTypes, WriteTypes
  <2> QED BY <2>1 DEF UserMessage, Inputs, Writes, Slots
<1>5. CASE Steer
  <2> DEFINE m == UserMessage("steer", sent + 1)
  <2>1. m \in Slots /\ m.role = "user" /\ m.n = sent + 1
    BY <1>4
  <2>2. /\ steerQueue' = Append(steerQueue, m)
        /\ UNCHANGED <<followUpQueue, nextTurnQueue, pendingSessionWrites>>
    BY <1>5 DEF Steer, storeVars
  <2> HIDE DEF m
  <2>3. Spots[1] = Told(steerQueue) /\ 1 \in 1..8
    BY SpotsAre
  <2>4. Singly(steerQueue') /\ Told(steerQueue') = Told(steerQueue) \cup {sent + 1}
    BY <1>0, <2>1, <2>2, <2>3, Arrives
  <2>5. /\ Spots'[1] = Spots[1] \cup {sent + 1}
        /\ Spots'[2] = Spots[2] /\ Spots'[3] = Spots[3] /\ Spots'[4] = Spots[4]
    BY <2>2, <2>4, SpotsAre
  <2>6. \A c \in 1..8 : c # 1 => Spots'[c] = Spots[c]
    BY <1>2, <1>3, <2>5
  <2>7. Whole(Spots', sent', ~HooksThrow)
    BY <1>0, <2>3, <2>5, <2>6, WholeNew
  <2> QED BY <1>0, <1>1, <1>2, <2>2, <2>4, <2>7 DEF Delivery
<1>6. CASE FollowUp
  <2> DEFINE m == UserMessage("followUp", sent + 1)
  <2>1. m \in Slots /\ m.role = "user" /\ m.n = sent + 1
    BY <1>4
  <2>2. /\ followUpQueue' = Append(followUpQueue, m)
        /\ UNCHANGED <<steerQueue, nextTurnQueue, pendingSessionWrites>>
    BY <1>6 DEF FollowUp, storeVars
  <2> HIDE DEF m
  <2>3. Spots[2] = Told(followUpQueue) /\ 2 \in 1..8
    BY SpotsAre
  <2>4. Singly(followUpQueue') /\ Told(followUpQueue') = Told(followUpQueue) \cup {sent + 1}
    BY <1>0, <2>1, <2>2, <2>3, Arrives
  <2>5. /\ Spots'[2] = Spots[2] \cup {sent + 1}
        /\ Spots'[1] = Spots[1] /\ Spots'[3] = Spots[3] /\ Spots'[4] = Spots[4]
    BY <2>2, <2>4, SpotsAre
  <2>6. \A c \in 1..8 : c # 2 => Spots'[c] = Spots[c]
    BY <1>2, <1>3, <2>5
  <2>7. Whole(Spots', sent', ~HooksThrow)
    BY <1>0, <2>3, <2>5, <2>6, WholeNew
  <2> QED BY <1>0, <1>1, <1>2, <2>2, <2>4, <2>7 DEF Delivery
<1>7. CASE NextTurn
  <2> DEFINE m == UserMessage("nextTurn", sent + 1)
  <2>1. m \in Slots /\ m.role = "user" /\ m.n = sent + 1
    BY <1>4
  <2>2. /\ nextTurnQueue' = Append(nextTurnQueue, m)
        /\ UNCHANGED <<steerQueue, followUpQueue, pendingSessionWrites>>
    BY <1>7 DEF NextTurn, storeVars
  <2> HIDE DEF m
  <2>3. Spots[3] = Told(nextTurnQueue) /\ 3 \in 1..8
    BY SpotsAre
  <2>4. Singly(nextTurnQueue') /\ Told(nextTurnQueue') = Told(nextTurnQueue) \cup {sent + 1}
    BY <1>0, <2>1, <2>2, <2>3, Arrives
  <2>5. /\ Spots'[3] = Spots[3] \cup {sent + 1}
        /\ Spots'[1] = Spots[1] /\ Spots'[2] = Spots[2] /\ Spots'[4] = Spots[4]
    BY <2>2, <2>4, SpotsAre
  <2>6. \A c \in 1..8 : c # 3 => Spots'[c] = Spots[c]
    BY <1>2, <1>3, <2>5
  <2>7. Whole(Spots', sent', ~HooksThrow)
    BY <1>0, <2>3, <2>5, <2>6, WholeNew
  <2> QED BY <1>0, <1>1, <1>2, <2>2, <2>4, <2>7 DEF Delivery
<1>8. CASE DeferWrite
  <2> DEFINE m == UserMessage("write", sent + 1)
  <2>1. m \in Slots /\ m.role = "user" /\ m.n = sent + 1
    BY <1>4
  <2>2. /\ pendingSessionWrites' = Append(pendingSessionWrites, m)
        /\ UNCHANGED <<steerQueue, followUpQueue, nextTurnQueue>>
    BY <1>8 DEF DeferWrite, PutOff, NewWrite, queueVars
  <2> HIDE DEF m
  <2>3. Spots[4] = Told(pendingSessionWrites) /\ 4 \in 1..8
    BY SpotsAre
  <2>4. /\ Singly(pendingSessionWrites')
        /\ Told(pendingSessionWrites') = Told(pendingSessionWrites) \cup {sent + 1}
    BY <1>0, <2>1, <2>2, <2>3, Arrives
  <2>5. /\ Spots'[4] = Spots[4] \cup {sent + 1}
        /\ Spots'[1] = Spots[1] /\ Spots'[2] = Spots[2] /\ Spots'[3] = Spots[3]
    BY <2>2, <2>4, SpotsAre
  <2>6. \A c \in 1..8 : c # 4 => Spots'[c] = Spots[c]
    BY <1>2, <1>3, <2>5
  <2>7. Whole(Spots', sent', ~HooksThrow)
    BY <1>0, <2>3, <2>5, <2>6, WholeNew
  <2> QED BY <1>0, <1>1, <1>2, <2>2, <2>4, <2>7 DEF Delivery
<1> QED BY <1>5, <1>6, <1>7, <1>8

(* A write made while idle goes by way of its append into the session.       *)
LEMMA DeliveredIdle ==
  ASSUME TypesInv, Deferred, HandShape, Delivery, WriteIdle \/ IdleWritten
  PROVE  Delivery'
<1>0. /\ sent \in Nat /\ UNCHANGED <<frame, out, queueVars, pendingSessionWrites, withdrawn>>
      /\ StoreTypes /\ Client \in Actors
      /\ io \in [Actors -> [m : Messages \cup {NoMessage}, parent : Nat]]
      /\ Singly(steerQueue) /\ Singly(followUpQueue) /\ Singly(nextTurnQueue)
      /\ Singly(pendingSessionWrites) /\ Singly(Transcript) /\ \A q \in Runs : Singly(Hand(q))
      /\ NoIO.m.n = 0
  BY DEF TypesInv, HarnessTypes, Scalars, StoreTypes, Delivery, WriteIdle, WriteNow, IdleWritten,
       Actors, NoIO, NoMessage, loopVars, queueVars, history
<1>1. /\ Spots'[5] = Spots[5] /\ \A q \in Runs : Singly(Hand(q)')
  BY <1>0, HandsStay
<1>2. /\ Spots'[1] = Spots[1] /\ Spots'[2] = Spots[2] /\ Spots'[3] = Spots[3]
      /\ Spots'[4] = Spots[4] /\ Spots'[8] = Spots[8]
  BY <1>0, SpotsAre DEF queueVars
<1>3. CASE WriteIdle
  <2>1. /\ io[Client] = NoIO /\ io'[Client].m = NewWrite /\ sent' = sent + 1 /\ log' = log
    BY <1>0, <1>3 DEF WriteIdle, WriteNow, BeginAppend
  <2>2. Transcript' = Transcript
    BY <2>1 DEF Transcript
  <2>3. NewWrite.n = sent + 1
    BY DEF NewWrite, UserMessage
  <2>4. Spots[6] = {} /\ Spots'[6] = {sent + 1}
    BY <1>0, <2>1, <2>3, SpotsAre
  <2>5. Spots'[6] = Spots[6] \cup {sent + 1} /\ Spots'[7] = Spots[7]
    BY <2>2, <2>4, SpotsAre
  <2>6. \A c \in 1..8 : c # 6 => Spots'[c] = Spots[c]
    BY <1>1, <1>2, <2>5
  <2>7. Whole(Spots', sent', ~HooksThrow)
    BY <2>1, <2>5, <2>6, WholeNew
  <2> QED BY <1>0, <1>1, <2>2, <2>7 DEF Delivery, queueVars
<1>4. CASE IdleWritten
  <2>1. /\ CommitAppend(Client) /\ io[Client] # NoIO /\ io'[Client] = NoIO /\ sent' = sent
    BY <1>0, <1>4 DEF IdleWritten, CommitAppend
  <2> DEFINE m == io[Client].m
             before == <<m>>
             after == <<>>
  <2>2. /\ Transcript' = Append(Transcript, m) /\ m \in Messages /\ Transcript \in Seq(Messages)
    BY <1>0, <2>1, TranscriptGrows, TranscriptType
  <2>3. m \in Writes /\ m.role = "user" /\ m.n \in 1..sent
    BY <2>1 DEF HandShape, Deferred, AppendsHead, Writes
  <2>4. /\ before \in Seq(Slots) /\ Singly(before) /\ Told(before) = {m.n}
    <3> HIDE DEF m
    <3>1. m \in Slots
      BY <2>2 DEF Slots
    <3> QED BY <2>3, <3>1, ToldOne
  <2>5. after \in Seq(Slots) /\ Told(after) = {} /\ before = <<m>> \o after
    BY <2>4, ToldNothing, ConcatEmptySeq
  <2>6. Spots[6] = Told(before) /\ Spots'[6] = Told(after)
    <3>1. m.n # 0
      BY <1>0, <2>3
    <3>2. Spots[6] = {m.n} \ {0} /\ Spots'[6] = {0} \ {0}
      BY <1>0, <2>1, SpotsAre
    <3> QED BY <2>4, <2>5, <3>1, <3>2
  <2>7. \A c \in 1..8 : c # 6 /\ c # 7 => Spots'[c] = Spots[c]
    BY <1>1, <1>2
  <2>8. Whole(Spots', sent', ~HooksThrow) /\ Singly(Transcript')
    <3>1. /\ 6 \in 1..6 /\ UNCHANGED sent /\ after \in Seq(Slots) /\ m \in Messages
          /\ before = <<m>> \o after /\ Singly(before) /\ Transcript \in Seq(Messages)
          /\ Transcript' = Append(Transcript, m)
          /\ Spots[6] = Told(before) /\ Spots'[6] = Told(after)
          /\ \A c \in 1..8 : c # 6 /\ c # 7 => Spots'[c] = Spots[c]
      BY <2>1, <2>2, <2>4, <2>5, <2>6, <2>7
    <3> HIDE DEF m, before, after
    <3> QED BY ONLY Delivery, <3>1, WholeWritten
  <2> QED BY <1>0, <1>1, <2>8 DEF Delivery, queueVars
<1> QED BY <1>3, <1>4

(* A step that touches no place: compact() writes an assistant's message.    *)
LEMMA DeliveredStill ==
  ASSUME TypesInv, HandShape, Delivery, CompactEnds \/ AppendCompaction \/ Compact
           \/ AbortWaits \/ AbortReturns \/ UNCHANGED vars
  PROVE  Delivery'
<1>0. /\ UNCHANGED <<frame, out, queueVars, pendingSessionWrites, withdrawn, sent>>
      /\ StoreTypes /\ Client \in Actors /\ Compactor \in Actors /\ Client # Compactor
      /\ io \in [Actors -> [m : Messages \cup {NoMessage}, parent : Nat]]
      /\ Singly(steerQueue) /\ Singly(followUpQueue) /\ Singly(nextTurnQueue)
      /\ Singly(pendingSessionWrites) /\ Singly(Transcript)
  BY ActorsDiffer DEF TypesInv, HarnessTypes, StoreTypes, Delivery, CompactEnds, AppendCompaction,
       AppendSummary, Compact, AbortWaits, AbortReturns, AbortOver, vars, otherVars, Actors,
       Client, Compactor, loopVars, queueVars, storeVars, callVars, history
<1>1. /\ Spots'[5] = Spots[5] /\ \A q \in Runs : Singly(Hand(q)')
  BY <1>0, HandsStay DEF Delivery
<1>2. /\ Spots'[1] = Spots[1] /\ Spots'[2] = Spots[2] /\ Spots'[3] = Spots[3]
      /\ Spots'[4] = Spots[4] /\ Spots'[8] = Spots[8]
  BY <1>0, SpotsAre DEF queueVars
<1>3. io'[Client] = io[Client]
  <2>1. CASE CompactEnds
    BY <1>0, <2>1 DEF CompactEnds, CommitAppend
  <2>2. CASE AppendCompaction
    BY <1>0, <2>2 DEF AppendCompaction, AppendSummary
  <2>3. CASE Compact \/ AbortWaits \/ AbortReturns \/ UNCHANGED vars
    BY <2>3 DEF Compact, AbortWaits, AbortReturns, AbortOver, vars, otherVars, storeVars
  <2> QED BY <2>1, <2>2, <2>3
<1>4. Told(Transcript') = Told(Transcript) /\ Singly(Transcript')
  <2>1. CASE UNCHANGED log
    BY <1>0, <2>1 DEF Transcript
  <2>2. CASE CommitAppend(Compactor)
    <3> DEFINE m == io[Compactor].m
               d == Transcript
               e == Transcript'
    <3>1. e = Append(d, m) /\ m \in Messages /\ d \in Seq(Messages)
      BY <1>0, <2>2, TranscriptGrows, TranscriptType
    <3>2. m.role = "assistant"
      BY <2>2 DEF CommitAppend, HandShape
    <3>3. Singly(d)
      BY <1>0
    <3> HIDE DEF m, d, e
    <3>4. m \in Slots /\ d \in Seq(Slots)
      <4>1. Messages \subseteq Slots
        BY DEF Slots
      <4> QED BY <3>1, <4>1, SeqMonotonic
    <3>5. <<m>> \in Seq(Slots) /\ Singly(<<m>>) /\ Told(<<m>>) = {}
      BY <3>2, <3>4, ToldOne
    <3>6. e = d \o <<m>>
      BY <3>1, AppendIsConcat
    <3>7. Told(d \o <<m>>) = Told(d) \cup Told(<<m>>) /\ Singly(d \o <<m>>)
      BY <3>3, <3>4, <3>5, Joins
    <3> QED BY <3>5, <3>6, <3>7 DEF d, e
  <2> QED BY <2>1, <2>2 DEF CompactEnds, AppendCompaction, AppendSummary, Compact, AbortWaits,
       AbortReturns, AbortOver, vars, otherVars, storeVars
<1>5. Spots'[6] = Spots[6] /\ Spots'[7] = Spots[7]
  BY <1>3, <1>4, SpotsAre
<1>6. \A c \in 1..8 : Spots'[c] = Spots[c]
  BY <1>1, <1>2, <1>5
<1>7. Whole(Spots', sent', ~HooksThrow)
  <2> DEFINE S == Spots
             T == Spots'
             all == ~HooksThrow
  <2>1. /\ Whole(S, sent, all) /\ all \in BOOLEAN /\ (\A a \in 1..8 : T[a] \subseteq S[a])
        /\ (all => \A a \in 1..8 : T[a] = S[a])
    BY <1>6 DEF Delivery
  <2> HIDE DEF S, T, all
  <2>2. Whole(T, sent, all)
    BY <2>1, SpotsShrink
  <2> QED BY <1>0, <2>2 DEF T, all
<1> QED BY <1>0, <1>1, <1>4, <1>7 DEF Delivery, queueVars

(* abort() hands back what the two queues have.                              *)
LEMMA DeliveredAbort ==
  ASSUME TypesInv, Delivery, Abort
  PROVE  Delivery'
<1>0. /\ UNCHANGED <<out, nextTurnQueue, pendingSessionWrites, log, io, sent>>
      /\ steerQueue' = <<>> /\ followUpQueue' = <<>>
      /\ withdrawn' = withdrawn \cup NumbersIn(steerQueue \o followUpQueue)
      /\ frame \in [Runs -> FrameRecord]
      /\ steerQueue \in Seq(Inputs) /\ followUpQueue \in Seq(Inputs)
      /\ Singly(nextTurnQueue) /\ Singly(pendingSessionWrites) /\ Singly(Transcript)
  BY DEF TypesInv, HarnessTypes, QueueTypes, Delivery, Abort, AbortRun, storeVars
<1>1. \A q \in Runs : Hand(q)' = Hand(q)
  <2> TAKE q \in Runs
  <2>1. frame'[q] = [frame[q] EXCEPT !.orphan = frame[q].step = "drain"]
    BY DEF Abort
  <2>2. /\ frame'[q].held = frame[q].held /\ frame'[q].msgs = frame[q].msgs
        /\ frame'[q].step = frame[q].step
    BY <1>0, <2>1 DEF FrameRecord
  <2> QED BY <1>0, <2>2 DEF Hand, Picked, Air
<1>2. InHands' = InHands /\ \A q \in Runs : Singly(Hand(q)')
  BY <1>1 DEF InHands, Delivery
<1>3. Transcript' = Transcript
  BY <1>0 DEF Transcript
<1>4. withdrawn' = withdrawn \cup Told(steerQueue) \cup Told(followUpQueue)
  <2> DEFINE a == steerQueue
             b == followUpQueue
  <2>1. a \in Seq(Inputs) /\ b \in Seq(Inputs) /\ a \in Seq(Slots) /\ b \in Seq(Slots)
    BY <1>0, ToldInputs
  <2> HIDE DEF a, b
  <2>2. a \o b \in Seq(Inputs)
    BY <2>1
  <2>3. NumbersIn(a \o b) = Told(a \o b)
    BY <2>2, ToldInputs
  <2>4. Told(a \o b) = Told(a) \cup Told(b)
    BY <2>1, ToldConcat
  <2> QED BY <1>0, <2>3, <2>4 DEF a, b
<1>5. /\ Spots'[1] = {} /\ Spots'[2] = {} /\ Spots'[3] = Spots[3] /\ Spots'[4] = Spots[4]
      /\ Spots'[5] = Spots[5] /\ Spots'[6] = Spots[6] /\ Spots'[7] = Spots[7]
      /\ Spots'[8] = Spots[8] \cup Spots[1] \cup Spots[2]
  <2>1. Told(<<>>) = {}
    BY ToldNothing
  <2> QED BY <1>0, <1>2, <1>3, <1>4, <2>1, SpotsAre
<1> DEFINE S == Spots
           T == Spots'
           all == ~HooksThrow
           U == [c \in 1..8 |-> IF c = 1 THEN {} ELSE IF c = 8 THEN S[8] \cup S[1] ELSE S[c]]
<1>6. /\ Whole(S, sent, all) /\ all \in BOOLEAN
      /\ T[1] = {} /\ T[2] = {} /\ T[3] = S[3] /\ T[4] = S[4] /\ T[5] = S[5] /\ T[6] = S[6]
      /\ T[7] = S[7] /\ T[8] = S[8] \cup S[1] \cup S[2]
  BY <1>5 DEF Delivery
<1> HIDE DEF S, T, all
<1>7. /\ U[1] = {} /\ U[8] = S[8] \cup S[1] /\ \A c \in 1..8 : c # 1 /\ c # 8 => U[c] = S[c]
  OBVIOUS
<1>8. U[2] = S[2] /\ U[3] = S[3] /\ U[4] = S[4] /\ U[5] = S[5] /\ U[6] = S[6] /\ U[7] = S[7]
  BY <1>7
<1> HIDE DEF U
<1>9. Moves(S, U, 1, 8, S[1], all)
  BY <1>7 DEF Moves
<1>10. Whole(U, sent, all)
  BY <1>6, <1>9, SpotsMove
<1>11. \A c \in 1..8 : c # 2 /\ c # 8 => T[c] = U[c]
  BY <1>6, <1>7, <1>8
<1>12. Moves(U, T, 2, 8, S[2], all)
  BY <1>6, <1>7, <1>8, <1>11 DEF Moves
<1>13. Whole(T, sent, all)
  BY <1>6, <1>10, <1>12, SpotsMove
<1>14. Singly(<<>>)
  BY ToldNothing
<1> QED BY <1>0, <1>2, <1>3, <1>13, <1>14 DEF T, all, Delivery

LEMMA DeliveryStep ==
  ASSUME ~Overlap
  PROVE  Steady /\ Locked /\ Lineal /\ Deferred /\ HandShape /\ Delivery /\ [Next]_vars => Delivery'
<1> SUFFICES ASSUME Steady, Locked, Lineal, Deferred, HandShape, Delivery, [Next]_vars
             PROVE  Delivery'
  OBVIOUS
<1>0. TypesInv
  BY DEF Steady
<1>1. ASSUME NEW r \in Runs, RunStep(r) PROVE Delivery'
  BY <1>1, DeliveredByRun
<1>2. ASSUME NEW r \in Runs, Prompt(r) PROVE Delivery'
  BY <1>0, <1>2, DeliveredPrompt
<1>3. CASE Steer \/ FollowUp \/ NextTurn \/ DeferWrite
  BY <1>0, <1>3, DeliveredQueued
<1>4. CASE WriteIdle \/ IdleWritten
  BY <1>0, <1>4, DeliveredIdle
<1>5. CASE CompactEnds \/ AppendCompaction \/ Compact \/ AbortWaits \/ AbortReturns \/ UNCHANGED vars
  BY <1>0, <1>5, DeliveredStill
<1>6. CASE Abort
  BY <1>0, <1>6, DeliveredAbort
<1> QED BY <1>1, <1>2, <1>3, <1>4, <1>5, <1>6 DEF Next, ClientStep, Continuations

LEMMA DeliveryInit == Init => HandShape /\ Delivery
<1> SUFFICES ASSUME Init PROVE HandShape /\ Delivery
  OBVIOUS
<1>0. /\ Client \in Actors /\ Compactor \in Actors
      /\ \A a \in Actors : io[a] = NoIO
      /\ \A r \in Runs : frame[r] = NewFrame /\ out[r] = <<>>
      /\ NoIO.m.n = 0
  BY DEF Init, LoopInit, Actors, NoIO, NoMessage
<1>1. HandShape
  BY <1>0 DEF HandShape, InPlace, NewFrame
<1>2. \A r \in Runs : Hand(r) = <<>>
  <2> TAKE r \in Runs
  <2>1. frame[r].held = <<>> /\ frame[r].msgs = <<>> /\ frame[r].step = "new"
    BY <1>0 DEF NewFrame
  <2>2. Air(r) = <<>> /\ Picked(r) = <<>>
    BY <1>0, <2>1, NothingInAir DEF Air, Picked
  <2> QED BY <2>2 DEF Hand
<1>3. Told(<<>>) = {} /\ Singly(<<>>)
  BY ToldNothing
<1>4. InHands = {}
  BY <1>2, <1>3 DEF InHands
<1>5. Transcript = <<>>
  BY DEF Init, Transcript
<1>6. /\ Spots[1] = {} /\ Spots[2] = {} /\ Spots[3] = {} /\ Spots[4] = {} /\ Spots[5] = {}
      /\ Spots[6] = {} /\ Spots[7] = {} /\ Spots[8] = {}
  BY <1>0, <1>3, <1>4, <1>5, SpotsAre DEF Init
<1>7. \A c \in 1..8 : Spots[c] = {}
  BY <1>6
<1>8. Whole(Spots, sent, ~HooksThrow)
  <2>1. 1..sent = {}
    BY DEF Init
  <2> QED BY <1>7, <2>1 DEF Whole
<1> QED BY <1>1, <1>2, <1>3, <1>5, <1>8 DEF Delivery, Init

LEMMA DeliveryAlways ==
  ASSUME ~Overlap
  PROVE  Spec => [](Steady /\ Locked /\ Lineal /\ Deferred /\ HandShape /\ Delivery)
<1>1. Init => HandShape /\ Delivery
  BY DeliveryInit
<1>2. Steady /\ Locked /\ Lineal /\ Deferred /\ HandShape /\ Delivery /\ [Next]_vars
        => HandShape' /\ Delivery'
  BY HandShapeStep, DeliveryStep
<1>3. Spec => [](Steady /\ Locked /\ Lineal)
  BY LinealAlways
<1>4. Spec => [](Steady /\ Locked /\ Deferred)
  BY DeferredAlways
<1> QED BY <1>1, <1>2, <1>3, <1>4, PTL DEF Spec

(* The hands as EveryMessageOnce states them.                                *)
LEMMA HandIs ==
  ASSUME TypesInv, NEW r \in Runs
  PROVE  InHand(r) = Told(Hand(r))
<1> DEFINE s == out[r]
           rest == IF frame[r].step = "notify" THEN 2 ELSE 1
           ends == {i \in rest..Len(s) : s[i].type = "message_end" /\ s[i].msg.role = "user"}
<1>0. /\ s \in Seq(Events) /\ frame[r].held \in Seq(Inputs) /\ frame[r].msgs \in Seq(Inputs)
      /\ frame[r].step = "notify" => s # <<>>
  BY DEF TypesInv, HarnessTypes, LoopShape, LoopTypeOK, FrameRecord, RunShape
<1>1. InHand(r) = NumbersIn(frame[r].held \o frame[r].msgs) \cup {s[i].msg.n : i \in ends}
  BY DEF InHand
<1>2. NumbersIn(frame[r].held \o frame[r].msgs) = Told(Picked(r))
  <2>1. frame[r].held \o frame[r].msgs \in Seq(Inputs)
    BY <1>0
  <2> QED BY <2>1, ToldInputs DEF Picked
<1>3. Told(Hand(r)) = Told(Picked(r)) \cup Told(Air(r))
  BY HandType, ToldConcat DEF Hand
<1>4. NoMessage.role # "user"
  BY DEF NoMessage
<1>5. Told(Air(r)) = {s[i].msg.n : i \in ends}
  <2>1. CASE frame[r].step # "notify"
    <3> DEFINE c == Carried(s)
    <3>1. /\ Air(r) = c /\ Len(c) = Len(s)
          /\ \A i \in 1..Len(s) : c[i] = IF s[i].type = "message_end" THEN s[i].msg ELSE NoMessage
      BY <1>0, <2>1, CarriedType DEF Air
    <3>2. rest = 1
      BY <2>1
    <3> HIDE DEF c, s, rest
    <3>3. \A i \in 1..Len(s) : c[i].role = "user" <=> i \in ends
      BY <1>4, <3>1, <3>2
    <3>4. \A i \in ends : i \in 1..Len(s) /\ c[i] = s[i].msg
      BY <3>1, <3>2
    <3>5. \A x \in Told(c) : x \in {s[i].msg.n : i \in ends}
      BY <3>1, <3>3, <3>4 DEF Told
    <3>6. \A x \in {s[i].msg.n : i \in ends} : x \in Told(c)
      BY <3>1, <3>3, <3>4 DEF Told
    <3> QED BY <3>1, <3>5, <3>6
  <2>2. CASE frame[r].step = "notify"
    <3> DEFINE t == Tail(s)
               c == Carried(t)
    <3>1. /\ t \in Seq(Events) /\ Len(s) \in Nat /\ Len(s) >= 1 /\ Len(t) = Len(s) - 1
          /\ \A i \in 1..(Len(s) - 1) : t[i] = s[i + 1]
      BY <1>0, <2>2
    <3>2. Air(r) = c /\ rest = 2
      BY <2>2 DEF Air
    <3> HIDE DEF t, s, rest
    <3>3. /\ Len(c) = Len(t)
          /\ \A i \in 1..Len(t) : c[i] = IF t[i].type = "message_end" THEN t[i].msg ELSE NoMessage
      BY <3>1, CarriedType
    <3> HIDE DEF c
    <3>4. \A i \in 1..Len(c) : c[i].role = "user" => i + 1 \in ends /\ c[i] = s[i + 1].msg
      BY <1>4, <3>1, <3>2, <3>3
    <3>5. \A j \in ends : j - 1 \in 1..Len(c) /\ c[j - 1] = s[j].msg /\ c[j - 1].role = "user"
      <4> TAKE j \in ends
      <4>1. j - 1 \in 1..(Len(s) - 1) /\ (j - 1) + 1 = j
        BY <3>1, <3>2
      <4> QED BY <3>1, <3>3, <4>1
    <3>6. \A x \in Told(c) : x \in {s[i].msg.n : i \in ends}
      <4> SUFFICES ASSUME NEW x \in Told(c) PROVE x \in {s[i].msg.n : i \in ends}
        OBVIOUS
      <4>1. PICK i \in 1..Len(c) : c[i].role = "user" /\ x = c[i].n
        BY DEF Told
      <4> HIDE DEF ends
      <4> QED BY <3>4, <4>1
    <3>7. \A x \in {s[i].msg.n : i \in ends} : x \in Told(c)
      <4> HIDE DEF ends
      <4> QED BY <3>5 DEF Told
    <3> QED BY <3>2, <3>6, <3>7
  <2> QED BY <2>1, <2>2
<1> QED BY <1>1, <1>2, <1>3, <1>5

(* The places, and what the session has of the callers.                      *)
LEMMA PlacesAre ==
  ASSUME TypesInv
  PROVE  /\ DOMAIN Places = 1..8 /\ \A a \in 1..8 : Places[a] = Spots[a]
         /\ \A i \in InLog : i \in 1..Len(Transcript) /\ Transcript[i] = log[i].m
<1>0. /\ steerQueue \in Seq(Inputs) /\ followUpQueue \in Seq(Inputs)
      /\ nextTurnQueue \in Seq(Inputs) /\ pendingSessionWrites \in Seq(Writes)
      /\ Len(Transcript) = Len(log) /\ \A i \in 1..Len(log) : Transcript[i] = log[i].m
  BY TranscriptType DEF TypesInv, HarnessTypes, QueueTypes, Transcript
<1>1. /\ NumbersIn(steerQueue) = Spots[1] /\ NumbersIn(followUpQueue) = Spots[2]
      /\ NumbersIn(nextTurnQueue) = Spots[3] /\ NumbersIn(pendingSessionWrites) = Spots[4]
  BY <1>0, ToldInputs, SpotsAre
<1>2. UNION {InHand(r) : r \in Runs} = Spots[5]
  BY HandIs, SpotsAre DEF InHands
<1>3. {log[i].m.n : i \in InLog} = Spots[7]
  <2>1. \A x \in {log[i].m.n : i \in InLog} : x \in Told(Transcript)
    BY <1>0 DEF InLog, Told
  <2>2. \A x \in Told(Transcript) : x \in {log[i].m.n : i \in InLog}
    BY <1>0 DEF InLog, Told
  <2> QED BY <2>1, <2>2, SpotsAre
<1>4. /\ Places[1] = Spots[1] /\ Places[2] = Spots[2] /\ Places[3] = Spots[3]
      /\ Places[4] = Spots[4] /\ Places[5] = Spots[5] /\ Places[6] = Spots[6]
      /\ Places[7] = Spots[7] /\ Places[8] = Spots[8] /\ DOMAIN Places = 1..8
  BY <1>1, <1>2, <1>3, SpotsAre DEF Places
<1> QED BY <1>0, <1>4 DEF InLog

LEMMA DeliveryGives ==
  ASSUME ~HooksThrow
  PROVE  Steady /\ Delivery => EveryMessageOnce
<1> SUFFICES ASSUME Steady, Delivery PROVE EveryMessageOnce
  OBVIOUS
<1>0. TypesInv
  BY DEF Steady
<1>1. \A n \in 1..sent : Cardinality({p \in DOMAIN Places : n \in Places[p]}) = 1
  <2> TAKE n \in 1..sent
  <2>1. PICK a \in 1..8 : n \in Spots[a]
    BY DEF Delivery, Whole
  <2>2. \A b \in 1..8 : n \in Spots[b] => b = a
    BY <2>1 DEF Delivery, Whole
  <2>3. {p \in DOMAIN Places : n \in Places[p]} = {a}
    BY <1>0, <2>1, <2>2, PlacesAre
  <2> QED BY <2>3, FS_Singleton
<1>2. \A i, j \in InLog : log[i].m.n = log[j].m.n => i = j
  <2> TAKE i, j \in InLog
  <2>1. /\ i \in 1..Len(Transcript) /\ Transcript[i] = log[i].m /\ log[i].m.role = "user"
        /\ j \in 1..Len(Transcript) /\ Transcript[j] = log[j].m /\ log[j].m.role = "user"
    BY <1>0, PlacesAre DEF InLog
  <2> QED BY <2>1 DEF Delivery, Singly
<1> QED BY <1>1, <1>2 DEF EveryMessageOnce

(* At every moment every message given to the harness, by prompt(), steer(), *)
(* followUp(), nextTurn() or as a session write, is in exactly one place: a  *)
(* queue, the hands of a run, the session, or back with the caller of        *)
(* abort(); none is in the session twice.  Nobody throws.                    *)
THEOREM MessagesOnce ==
  ASSUME ~Overlap, ~HooksThrow
  PROVE  Spec => []EveryMessageOnce
BY DeliveryAlways, DeliveryGives, PTL

(* Whatever throws, no message is in two places or in the session twice: a   *)
(* failure may lose what a run had in its hands, and never doubles it.       *)
AtMostOnce ==
  /\ \A a, b \in DOMAIN Places : Places[a] \cap Places[b] # {} => a = b
  /\ \A i, j \in InLog : log[i].m.n = log[j].m.n => i = j

LEMMA DeliveryKeeps == Steady /\ Delivery => AtMostOnce
<1> SUFFICES ASSUME Steady, Delivery PROVE AtMostOnce
  OBVIOUS
<1>0. TypesInv
  BY DEF Steady
<1>1. \A a, b \in DOMAIN Places : Places[a] \cap Places[b] # {} => a = b
  BY <1>0, PlacesAre DEF Delivery, Whole
<1>2. \A i, j \in InLog : log[i].m.n = log[j].m.n => i = j
  <2> TAKE i, j \in InLog
  <2>1. /\ i \in 1..Len(Transcript) /\ Transcript[i] = log[i].m /\ log[i].m.role = "user"
        /\ j \in 1..Len(Transcript) /\ Transcript[j] = log[j].m /\ log[j].m.role = "user"
    BY <1>0, PlacesAre DEF InLog
  <2> QED BY <2>1 DEF Delivery, Singly
<1> QED BY <1>1, <1>2 DEF AtMostOnce

THEOREM NoMessageTwice == ASSUME ~Overlap PROVE Spec => []AtMostOnce
BY DeliveryAlways, DeliveryKeeps, PTL
=============================================================================
