----------------------------- MODULE AgentProofs -----------------------------
(***************************************************************************)
(* The agent, for any number of runs, messages, turns and calls, whatever   *)
(* is prompted, steered, queued, cleared, aborted and reset meanwhile and   *)
(* whichever listener throws: what a provider is sent is the transcript, a  *)
(* request leaves no tool call open, the pending calls are those announced  *)
(* and not ended, and nothing of a run follows its agent_end.               *)
(***************************************************************************)
EXTENDS Agent, AgentLoopProofs

(* Where a run is: only the active one is under way, and one that is over    *)
(* awaits nothing.                                                           *)
Place(r) ==
  /\ r # activeRun => loop[r].pc \in {"unused", "dead"}
  /\ r = activeRun => loop[r].pc # "unused"
  /\ loop[r].pc \in {"unused", "returned", "dead"} => out[r] = <<>>

(* What clients say.                                                         *)
Given == {m \in Spoken : m.role = "user"}

AgentTypes ==
  /\ LoopShape
  /\ activeRun \in Runs \cup {NoRun}
  /\ messages \in Seq(Messages) /\ sent \in Nat
  /\ steeringQueue \in Seq(Given) /\ followUpQueue \in Seq(Given)

Steady == AgentTypes /\ \A r \in Runs : Place(r) /\ Batch(r)

-----------------------------------------------------------------------------
(* The steps, by what they do to the loop.                                   *)

LEMMA DrainsType ==
  ASSUME NEW queue \in Seq(Given), NEW taken \in Drains(queue)
  PROVE  taken \in Seq(Given) /\ Rest(queue, taken) \in Seq(Given)
<1>1. taken \in Seq(Given)
  <2>1. CASE queue = <<>>
    BY <2>1 DEF Drains
  <2>2. CASE queue # <<>>
    <3>1. queue[1] \in Given
      BY <2>2
    <3>2. <<queue[1]>> \in Seq(Given)
      BY <3>1
    <3> QED BY <2>2, <3>2 DEF Drains
  <2> QED BY <2>1, <2>2
<1>2. Len(taken) \in Nat /\ Len(queue) \in Nat
  BY <1>1
<1> QED BY <1>1, <1>2 DEF Rest

LEMMA GivenTypes ==
  \A n \in Nat : UserMessage("prompt", n) \in Given /\ UserMessage("steer", n) \in Given
                   /\ UserMessage("followUp", n) \in Given
BY MessageTypes DEF Given, Spoken, UserMessage, UserKinds

LEMMA GivenSpoken == \A msgs \in Seq(Given) : msgs \in Seq(Spoken)
<1>1. Given \subseteq Spoken
  BY DEF Given
<1> QED BY <1>1, SeqMonotonic

(* A run starts with what was prompted or queued.                            *)
LEMMA RunStarts ==
  ASSUME AgentTypes, NEW r \in Runs, Client(r)
  PROVE  \E prompts \in Seq(Given) :
           /\ StartRun(r, prompts)
           /\ steeringQueue' \in Seq(Given) /\ followUpQueue' \in Seq(Given)
           /\ sent' \in Nat
<1>0. /\ steeringQueue \in Seq(Given) /\ followUpQueue \in Seq(Given) /\ sent \in Nat
      /\ <<>> \in Seq(Given)
  BY DEF AgentTypes
<1>1. CASE Prompt(r)
  <2>1. <<UserMessage("prompt", sent + 1)>> \in Seq(Given)
    BY <1>0, GivenTypes
  <2>2. StartRun(r, <<UserMessage("prompt", sent + 1)>>) /\ sent' \in Nat /\ UNCHANGED queues
    BY <1>0, <1>1 DEF Prompt
  <2> QED BY <1>0, <2>1, <2>2 DEF queues
<1>2. CASE ContinueWithSteering(r)
  <2>1. PICK taken \in Drains(steeringQueue) :
          StartRun(r, taken) /\ steeringQueue' = Rest(steeringQueue, taken)
    BY <1>2 DEF ContinueWithSteering
  <2> QED BY <1>0, <1>2, <2>1, DrainsType DEF ContinueWithSteering
<1>3. CASE ContinueWithFollowUps(r)
  <2>1. PICK taken \in Drains(followUpQueue) :
          StartRun(r, taken) /\ followUpQueue' = Rest(followUpQueue, taken)
    BY <1>3 DEF ContinueWithFollowUps
  <2> QED BY <1>0, <1>3, <2>1, DrainsType DEF ContinueWithFollowUps
<1>4. CASE Continue(r)
  BY <1>0, <1>4 DEF Continue, queues
<1> QED BY <1>1, <1>2, <1>3, <1>4 DEF Client

(* The polls are answered with messages of the queues.                       *)
LEMMA PollsType ==
  ASSUME AgentTypes, NEW r \in Runs, PollSteering(r) \/ PollFollowUps(r)
  PROVE  /\ \E msgs \in Seq(Given) : SteeringPolled(r, msgs) \/ FollowUpPolled(r, msgs)
         /\ steeringQueue' \in Seq(Given) /\ followUpQueue' \in Seq(Given)
<1>0. steeringQueue \in Seq(Given) /\ followUpQueue \in Seq(Given)
  BY DEF AgentTypes
<1>1. CASE PollSteering(r)
  <2>1. PICK taken \in IF r \in skipPoll THEN {<<>>} ELSE Drains(steeringQueue) :
          SteeringPolled(r, taken) /\ steeringQueue' = Rest(steeringQueue, taken)
    BY <1>1 DEF PollSteering
  <2>2. taken \in Seq(Given) /\ Rest(steeringQueue, taken) \in Seq(Given)
    <3>1. CASE taken = <<>>
      <4>1. Rest(steeringQueue, <<>>) \in Seq(Given)
        BY <1>0 DEF Rest
      <4> QED BY <3>1, <4>1
    <3>2. CASE taken \in Drains(steeringQueue)
      BY <1>0, <3>2, DrainsType
    <3> QED BY <2>1, <3>1, <3>2
  <2> QED BY <1>0, <1>1, <2>1, <2>2 DEF PollSteering
<1>2. CASE PollFollowUps(r)
  <2>1. PICK taken \in Drains(followUpQueue) :
          FollowUpPolled(r, taken) /\ followUpQueue' = Rest(followUpQueue, taken)
    BY <1>2 DEF PollFollowUps
  <2> QED BY <1>0, <1>2, <2>1, DrainsType DEF PollFollowUps
<1> QED BY <1>1, <1>2

LEMMA RunStartsSpoken ==
  ASSUME AgentTypes, NEW r \in Runs, Client(r)
  PROVE  \E prompts \in Seq(Spoken) : StartRun(r, prompts)
<1>1. PICK prompts \in Seq(Given) : StartRun(r, prompts)
  BY RunStarts
<1> QED BY <1>1, GivenSpoken

LEMMA PollsSpoken ==
  ASSUME AgentTypes, NEW r \in Runs, PollSteering(r) \/ PollFollowUps(r)
  PROVE  \E msgs \in Seq(Spoken) : SteeringPolled(r, msgs) \/ FollowUpPolled(r, msgs)
<1>1. PICK msgs \in Seq(Given) : SteeringPolled(r, msgs) \/ FollowUpPolled(r, msgs)
  BY PollsType
<1> QED BY <1>1, GivenSpoken

(* A failed run is left where it is, and its failure is reported; or that    *)
(* has failed too.                                                           *)
FailsNow(r) ==
  \/ /\ loop'[r].pc = "failing" /\ out' = [out EXCEPT ![r] = FailureEvents(r)]
     /\ \E cs \in Seq(CallStatus) :
          loop' = [loop EXCEPT ![r] = [loop[r] EXCEPT !.pc = "failing", !.calls = cs]]
  \/ /\ loop'[r].pc = "dead" /\ out' = [out EXCEPT ![r] = <<>>]
     /\ loop' = [loop EXCEPT ![r] = [loop[r] EXCEPT !.pc = "dead"]]

LEMMA FailureIs ==
  ASSUME LoopTypeOK, NEW r \in Runs, Failure(r)
  PROVE  /\ FailsNow(r) /\ UNCHANGED <<activeRun, skipPoll, queues, sent, rewritten>>
         /\ out[r] # <<>> \/ loop[r].pc \in {"tools", "joining"}
<1>0. /\ loop \in [Runs -> LoopRecord] /\ loop[r] \in LoopRecord
      /\ loop[r].calls \in Seq(CallStatus)
  BY RecordFacts DEF LoopTypeOK
<1>1. CASE ListenerThrows(r)
  <2>1. ASSUME loop[r].pc = "failing" PROVE FailsNow(r)
    <3>1. /\ loop' = [loop EXCEPT ![r] = [loop[r] EXCEPT !.pc = "dead"]]
          /\ out' = [out EXCEPT ![r] = <<>>]
      BY <1>1, <2>1 DEF ListenerThrows
    <3>2. loop'[r].pc = "dead"
      BY <1>0, <3>1 DEF LoopRecord
    <3> QED BY <3>1, <3>2 DEF FailsNow
  <2>2. ASSUME loop[r].pc # "failing" PROVE FailsNow(r)
    <3>1. loop' = [loop EXCEPT ![r] = [loop[r] EXCEPT !.pc = "failing", !.calls = loop[r].calls]]
      BY <1>0, <1>1, <2>2 DEF ListenerThrows, LoopRecord
    <3>2. loop'[r].pc = "failing"
      BY <1>0, <3>1 DEF LoopRecord
    <3> QED BY <1>0, <1>1, <2>2, <3>1, <3>2 DEF ListenerThrows, FailsNow
  <2>3. out[r] # <<>> /\ UNCHANGED <<activeRun, skipPoll, queues, sent, rewritten>>
    BY <1>1 DEF ListenerThrows
  <2> QED BY <2>1, <2>2, <2>3
<1>2. ASSUME NEW c \in Calls(r), EndCallThrows(r, c)
      PROVE  /\ FailsNow(r) /\ UNCHANGED <<activeRun, skipPoll, queues, sent, rewritten>>
             /\ loop[r].pc \in {"tools", "joining"}
  <2> DEFINE cs == [loop[r].calls EXCEPT ![c] = "done"]
  <2>1. cs \in Seq(CallStatus)
    BY <1>0, StatusTypes DEF CallStatus
  <2>2. loop' = [loop EXCEPT ![r] = [loop[r] EXCEPT !.pc = "failing", !.calls = cs]]
    BY <1>0, <1>2 DEF EndCallThrows, LoopRecord
  <2> HIDE DEF cs
  <2>3. loop'[r].pc = "failing"
    BY <1>0, <2>2 DEF LoopRecord
  <2> QED BY <1>2, <2>1, <2>2, <2>3 DEF EndCallThrows, FailsNow, history
<1> QED BY <1>1, <1>2 DEF Failure

LEMMA FailureFits ==
  ASSUME NEW r \in Runs
  PROVE  /\ FailureMessage(r) \in Spoken /\ FailureEvents(r) \in Seq(Events)
         /\ \A i \in 1..Len(FailureEvents(r)) : Fits(FailureEvents(r)[i], "failing")
<1> DEFINE m == FailureMessage(r)
           s == MessageEvents(<<m>>)
           t == <<Event("turn_end"), Event("agent_end")>>
<1>1. m \in Spoken
  BY MessageTypes DEF FailureMessage, Stops, Spoken, AssistantMessage
<1> HIDE DEF m
<1>2. <<m>> \in Seq(Speakable("failing"))
  <2>1. <<m>> \in Seq(Spoken)
    BY <1>1
  <2> QED BY <2>1, SpokenSpeakable
<1>3. s \in Seq(Events) /\ \A i \in 1..Len(s) : Fits(s[i], "failing")
  BY <1>2, MessageEventsFit
<1>4. t \in Seq(Events) /\ \A i \in 1..Len(t) : Fits(t[i], "failing")
  <2>1. Fits(Event("turn_end"), "failing") /\ Fits(Event("agent_end"), "failing")
    BY PlainEventsFit
  <2> QED BY <2>1 DEF Fits
<1>5. FailureEvents(r) = s \o t
  BY DEF FailureEvents, m
<1> HIDE DEF s, t
<1>6. s \o t \in Seq(Events) /\ \A i \in 1..Len(s \o t) : Fits((s \o t)[i], "failing")
  BY <1>3, <1>4, ConcatFits
<1> QED BY <1>1, <1>5, <1>6 DEF m

(* What the steps do to the loop, and to the run they are of.                *)
LEMMA ShapeStep == Steady /\ [Next]_vars => LoopShape'
<1> SUFFICES ASSUME Steady, [Next]_vars PROVE LoopShape'
  OBVIOUS
<1>0. /\ LoopShape /\ LoopTypeOK /\ AgentTypes
      /\ loop \in [Runs -> LoopRecord] /\ out \in [Runs -> Seq(Events)]
  BY DEF Steady, AgentTypes, LoopShape, LoopTypeOK
<1>1. ASSUME UNCHANGED <<loop, out>> PROVE LoopShape'
  BY <1>0, <1>1 DEF LoopShape, LoopTypeOK, Shape
<1>2. ASSUME NEW r \in Runs, Client(r) PROVE LoopShape'
  <2>1. PICK prompts \in Seq(Spoken) : StartRun(r, prompts)
    BY <1>0, <1>2, RunStartsSpoken
  <2> QED BY <1>0, <2>1, StartShape DEF StartRun, AgentTypes
<1>3. ASSUME NEW r \in Runs, RunStep(r) PROVE LoopShape'
  <2>0. loop[r] \in LoopRecord /\ out[r] \in Seq(Events) /\ loop[r].ctx \in Seq(Messages)
        /\ loop[r].calls \in Seq(CallStatus)
    BY <1>0, RecordFacts
  <2>1. CASE LoopStep(r)
    BY <1>0, <2>1, LoopStepShape
  <2>2. CASE PollSteering(r) \/ PollFollowUps(r)
    <3>1. PICK msgs \in Seq(Spoken) : SteeringPolled(r, msgs) \/ FollowUpPolled(r, msgs)
      BY <1>0, <2>2, PollsSpoken
    <3> QED BY <1>0, <2>0, <3>1, AnswerShape
  <2>3. CASE PrepareNextTurn(r)
    <3>1. <<>> \in Seq(Spoken)
      OBVIOUS
    <3> QED BY <1>0, <2>0, <2>3, <3>1, AnswerShape DEF PrepareNextTurn
  <2>4. CASE HandleEvent(r)
    <3>1. /\ loop' = [loop EXCEPT ![r] = loop[r]] /\ out' = [out EXCEPT ![r] = Tail(out[r])]
          /\ out[r] # <<>>
      BY <1>0, <2>4 DEF HandleEvent
    <3>2. /\ Tail(out[r]) \in Seq(Events) /\ Len(Tail(out[r])) = Len(out[r]) - 1
          /\ \A i \in 1..Len(Tail(out[r])) : Tail(out[r])[i] = out[r][i + 1]
          /\ Len(out[r]) \in Nat
      BY <2>0, <3>1, HeadTailProperties, LenProperties
    <3>3. Shape(r)
      BY <1>0 DEF LoopShape
    <3>4. \A i \in 1..Len(Tail(out[r])) : Fits(Tail(out[r])[i], loop[r].pc)
      BY <3>2, <3>3 DEF Shape
    <3> QED BY <1>0, <2>0, <3>1, <3>2, <3>3, <3>4, ShapeKept DEF Shape
  <2>5. CASE \E c \in Calls(r) : EndCall(r, c)
    BY <1>0, <2>5, BatchShape DEF EndCall
  <2>6. CASE FinishRun(r)
    <3>1. PICK cs \in {<<>>, loop[r].calls} :
            loop' = [loop EXCEPT ![r] = [Unused EXCEPT !.pc = "dead", !.calls = cs]]
      BY <2>6 DEF FinishRun, LeaveRun
    <3> DEFINE rec == [Unused EXCEPT !.pc = "dead", !.calls = cs]
    <3>2. rec \in LoopRecord /\ rec.pc = "dead"
      <4>1. <<>> \in Seq(Messages) /\ <<>> \in Seq(CallStatus)
        OBVIOUS
      <4>2. cs \in Seq(CallStatus)
        BY <2>0, <4>1
      <4> QED BY <4>1, <4>2 DEF Unused, LoopRecord, LoopStates
    <3>3. out[r] = <<>> /\ UNCHANGED out
      BY <2>6 DEF FinishRun, LeaveRun, Settled, At, Awaited, Steady, Place
    <3>4. loop' = [loop EXCEPT ![r] = rec]
      BY <3>1
    <3> HIDE DEF rec
    <3> QED BY <1>0, <3>2, <3>3, <3>4, QuietShape
  <2> QED BY <1>3, <2>1, <2>2, <2>3, <2>4, <2>5, <2>6 DEF RunStep
<1>4. ASSUME NEW r \in Runs, Failure(r) PROVE LoopShape'
  <2>0. loop[r] \in LoopRecord
    BY <1>0
  <2>1. FailsNow(r)
    BY <1>0, <1>4, FailureIs
  <2>2. CASE \E cs \in Seq(CallStatus) :
                 /\ loop' = [loop EXCEPT ![r] = [loop[r] EXCEPT !.pc = "failing", !.calls = cs]]
                 /\ out' = [out EXCEPT ![r] = FailureEvents(r)]
    <3>1. PICK cs \in Seq(CallStatus) :
                 /\ loop' = [loop EXCEPT ![r] = [loop[r] EXCEPT !.pc = "failing", !.calls = cs]]
                 /\ out' = [out EXCEPT ![r] = FailureEvents(r)]
      BY <2>2
    <3> DEFINE rec == [loop[r] EXCEPT !.pc = "failing", !.calls = cs]
    <3>2. rec \in LoopRecord /\ rec.pc = "failing"
      BY <2>0 DEF LoopRecord, LoopStates
    <3>3. FailureEvents(r) \in Seq(Events)
          /\ \A i \in 1..Len(FailureEvents(r)) : Fits(FailureEvents(r)[i], "failing")
      BY FailureFits
    <3>4. loop' = [loop EXCEPT ![r] = rec] /\ out' = [out EXCEPT ![r] = FailureEvents(r)]
      BY <3>1
    <3> HIDE DEF rec
    <3> QED BY <1>0, <3>2, <3>3, <3>4, ShapeKept
  <2>3. CASE /\ loop' = [loop EXCEPT ![r] = [loop[r] EXCEPT !.pc = "dead"]]
             /\ out' = [out EXCEPT ![r] = <<>>]
    <3> DEFINE rec == [loop[r] EXCEPT !.pc = "dead"]
    <3>2. rec \in LoopRecord /\ rec.pc = "dead"
      BY <2>0 DEF LoopRecord, LoopStates
    <3>4. loop' = [loop EXCEPT ![r] = rec] /\ out' = [out EXCEPT ![r] = <<>>]
      BY <2>3
    <3> HIDE DEF rec
    <3> QED BY <1>0, <3>2, <3>4, MoveShape
  <2> QED BY <2>1, <2>2, <2>3 DEF FailsNow
<1>5. CASE Abort
  <2> DEFINE r == activeRun
             rec == [loop[r] EXCEPT !.aborted = TRUE]
  <2>1. r # NoRun /\ loop' = [loop EXCEPT ![r] = rec] /\ UNCHANGED out
    BY <1>5 DEF Abort
  <2>2. r \in Runs
    BY <1>0, <2>1 DEF AgentTypes
  <2> HIDE DEF r
  <2>3. rec \in LoopRecord /\ rec.pc = loop[r].pc /\ rec.ctx = loop[r].ctx
    BY <1>0, <2>2 DEF LoopRecord
  <2>4. out' = [out EXCEPT ![r] = out[r]] /\ out[r] \in Seq(Events)
    BY <1>0, <2>1, <2>2
  <2> QED BY <1>0, <2>1, <2>2, <2>3, <2>4, ShapeKept DEF LoopShape, Shape
<1>6. CASE UNCHANGED vars \/ Steer \/ FollowUp \/ ClearAllQueues \/ Reset
  BY <1>1, <1>6 DEF vars, Steer, SteerWith, FollowUp, ClearAllQueues, Reset
<1> QED BY <1>2, <1>3, <1>4, <1>5, <1>6 DEF Next

LEMMA OthersStay ==
  ASSUME Steady, NEW r \in Runs, Client(r) \/ RunStep(r) \/ Failure(r)
  PROVE  \A q \in Runs \ {r} : loop'[q] = loop[q] /\ out'[q] = out[q]
<1> DEFINE Stay == \A q \in Runs \ {r} : loop'[q] = loop[q] /\ out'[q] = out[q]
<1>0. /\ LoopTypeOK /\ AgentTypes
      /\ loop \in [Runs -> LoopRecord] /\ out \in [Runs -> Seq(Events)]
  BY DEF Steady, AgentTypes, LoopShape, LoopTypeOK
<1>1. CASE Client(r)
  <2>1. PICK prompts \in Seq(Spoken) : StartRun(r, prompts)
    BY <1>0, <1>1, RunStartsSpoken
  <2> QED BY <1>0, <2>1 DEF StartRun, RunAgentLoop
<1>2. CASE Failure(r)
  <2>1. FailsNow(r)
    BY <1>0, <1>2, FailureIs
  <2> QED BY <1>0, <2>1 DEF FailsNow
<1>3. CASE LoopStep(r)
  BY <1>0, <1>3, LoopStepEffect DEF LoopEffect
<1>4. CASE PollSteering(r) \/ PollFollowUps(r)
  <2>1. PICK msgs \in Seq(Spoken) : SteeringPolled(r, msgs) \/ FollowUpPolled(r, msgs)
    BY <1>0, <1>4, PollsSpoken
  <2> QED BY <1>0, <2>1 DEF SteeringPolled, FollowUpPolled, EnterTurn
<1>5. CASE PrepareNextTurn(r)
  BY <1>0, <1>5 DEF PrepareNextTurn, TurnPrepared
<1>6. CASE HandleEvent(r)
  BY <1>0, <1>6 DEF HandleEvent
<1>7. CASE \E c \in Calls(r) : EndCall(r, c)
  BY <1>0, <1>7 DEF EndCall, CallEnded
<1>8. CASE FinishRun(r)
  BY <1>0, <1>8 DEF FinishRun, LeaveRun
<1> QED BY <1>1, <1>2, <1>3, <1>4, <1>5, <1>6, <1>7, <1>8 DEF RunStep

(* Who is at work: the active run, until it is finished, and the tools of    *)
(* earlier ones.                                                             *)
LEMMA PlaceStep ==
  ASSUME Steady, [Next]_vars, NEW q \in Runs
  PROVE  Place(q)'
<1> USE DEF Place
<1>0. /\ LoopTypeOK /\ AgentTypes /\ Place(q) /\ NoRun \notin Runs
      /\ loop \in [Runs -> LoopRecord] /\ out \in [Runs -> Seq(Events)]
      /\ \A r \in Runs : loop[r] \in LoopRecord /\ out[r] \in Seq(Events)
      /\ \A r \in Runs : Place(r)
  BY NoRunIsNoRun DEF Steady, AgentTypes, LoopShape, LoopTypeOK
<1>1. ASSUME UNCHANGED <<loop, out, activeRun>> PROVE Place(q)'
  BY <1>0, <1>1
<1>2. ASSUME NEW r \in Runs, Client(r) PROVE Place(q)'
  <2>1. PICK prompts \in Seq(Spoken) : StartRun(r, prompts)
    BY <1>0, <1>2, RunStartsSpoken
  <2>2. activeRun = NoRun /\ activeRun' = r
    BY <2>1 DEF StartRun
  <2>3. loop'[r].pc = "steering"
    BY <1>0, <2>1 DEF StartRun, RunAgentLoop, Unused
  <2>4. q # r => loop'[q] = loop[q] /\ out'[q] = out[q]
    BY <1>2, OthersStay
  <2> QED BY <1>0, <2>2, <2>3, <2>4
<1>3. ASSUME NEW r \in Runs, RunStep(r), r # q PROVE Place(q)'
  <2>1. loop'[q] = loop[q] /\ out'[q] = out[q]
    BY <1>3, OthersStay
  <2>2. activeRun' = activeRun \/ (activeRun = r /\ activeRun' = NoRun)
    BY <1>3 DEF RunStep, PollSteering, PollFollowUps, PrepareNextTurn, HandleEvent, EndCall,
                FinishRun, LeaveRun
  <2> QED BY <1>0, <1>3, <2>1, <2>2
<1>4. ASSUME NEW r \in Runs, Failure(r) PROVE Place(q)'
  <2>1. FailsNow(r) /\ activeRun' = activeRun
        /\ (out[r] # <<>> \/ loop[r].pc \in {"tools", "joining"})
    BY <1>0, <1>4, FailureIs
  <2>2. q # r => loop'[q] = loop[q] /\ out'[q] = out[q]
    BY <1>4, OthersStay
  <2>3. r = activeRun
    BY <1>0, <2>1
  <2>4. loop'[r].pc = "failing" \/ (loop'[r].pc = "dead" /\ out'[r] = <<>>)
    BY <1>0, <2>1 DEF FailsNow
  <2> QED BY <1>0, <2>1, <2>2, <2>3, <2>4
<1>5. CASE RunStep(q)
  <2>1. CASE LoopStep(q) /\ UNCHANGED <<activeRun, skipPoll, stateVars, queues, history>>
    <3>1. LoopEffect(q)
      BY <1>0, <2>1, LoopStepEffect
    <3> QED BY <1>0, <2>1, <3>1 DEF LoopEffect
  <2>2. CASE PollSteering(q) \/ PollFollowUps(q)
    <3>1. PICK msgs \in Seq(Spoken) : SteeringPolled(q, msgs) \/ FollowUpPolled(q, msgs)
      BY <1>0, <2>2, PollsSpoken
    <3>2. loop[q].pc \in {"steering", "followUp"} /\ activeRun' = activeRun
      BY <2>2, <3>1 DEF SteeringPolled, FollowUpPolled, At, PollSteering, PollFollowUps
    <3>3. loop'[q].pc \in {"stream", "followUp", "ending"}
      BY <1>0, <3>1 DEF SteeringPolled, FollowUpPolled, EnterTurn, LoopRecord
    <3> QED BY <1>0, <3>2, <3>3
  <2>3. CASE PrepareNextTurn(q)
    <3>1. loop[q].pc = "turnEnd" /\ activeRun' = activeRun /\ loop'[q].pc = "steering"
      BY <1>0, <2>3 DEF PrepareNextTurn, TurnPrepared, At, LoopRecord
    <3> QED BY <1>0, <3>1
  <2>4. CASE HandleEvent(q)
    <3>1. loop' = loop /\ out[q] # <<>> /\ activeRun' = activeRun
      BY <2>4 DEF HandleEvent
    <3> QED BY <1>0, <3>1
  <2>5. CASE \E c \in Calls(q) : EndCall(q, c)
    <3>1. out' = out /\ loop'[q].pc = loop[q].pc /\ activeRun' = activeRun
      BY <1>0, <2>5 DEF EndCall, CallEnded, LoopRecord
    <3> QED BY <1>0, <3>1
  <2>6. CASE FinishRun(q)
    <3>1. loop'[q].pc = "dead" /\ out' = out /\ activeRun = q /\ activeRun' = NoRun
      BY <1>0, <2>6 DEF FinishRun, LeaveRun, Unused
    <3>2. out[q] = <<>>
      BY <1>0, <2>6 DEF FinishRun, Settled, At, Awaited
    <3> QED BY <1>0, <3>1, <3>2
  <2> QED BY <1>5, <2>1, <2>2, <2>3, <2>4, <2>5, <2>6 DEF RunStep
<1>6. CASE Abort
  <2>1. \A r \in Runs : loop'[r].pc = loop[r].pc
    BY <1>0, <1>6 DEF Abort, AgentTypes, LoopRecord
  <2> QED BY <1>0, <1>6, <2>1 DEF Abort
<1>7. CASE UNCHANGED vars \/ Steer \/ FollowUp \/ ClearAllQueues \/ Reset
  BY <1>1, <1>7 DEF vars, Steer, SteerWith, FollowUp, ClearAllQueues, Reset
<1> QED BY <1>2, <1>3, <1>4, <1>5, <1>6, <1>7 DEF Next

LEMMA BatchStep ==
  ASSUME Steady, [Next]_vars, NEW q \in Runs
  PROVE  Batch(q)'
<1>0. /\ LoopShape /\ LoopTypeOK /\ AgentTypes /\ Batch(q)
      /\ loop \in [Runs -> LoopRecord] /\ out \in [Runs -> Seq(Events)]
  BY DEF Steady, AgentTypes, LoopShape, LoopTypeOK
<1>1. ASSUME loop'[q] = loop[q], out'[q] = out[q] PROVE Batch(q)'
  BY <1>0, <1>1, BatchUnchanged
<1>2. ASSUME NEW r \in Runs, Client(r) \/ RunStep(r) \/ Failure(r), r # q PROVE Batch(q)'
  BY <1>1, <1>2, OthersStay
<1>3. CASE Client(q)
  <2>1. PICK prompts \in Seq(Spoken) : StartRun(q, prompts)
    BY <1>0, <1>3, RunStartsSpoken
  <2> QED BY <1>0, <2>1, BatchTurns DEF StartRun
<1>4. CASE Failure(q)
  <2>1. FailsNow(q)
    BY <1>0, <1>4, FailureIs
  <2>2. loop'[q].pc \in {"failing", "dead"}
    BY <2>1 DEF FailsNow
  <2> QED BY <2>2, BatchFailed
<1>5. CASE RunStep(q)
  <2>1. CASE LoopStep(q)
    BY <1>0, <2>1, LoopStepBatch
  <2>2. CASE PollSteering(q) \/ PollFollowUps(q)
    <3>1. PICK msgs \in Seq(Spoken) : SteeringPolled(q, msgs) \/ FollowUpPolled(q, msgs)
      BY <1>0, <2>2, PollsSpoken
    <3> QED BY <1>0, <3>1, BatchTurns
  <2>3. CASE PrepareNextTurn(q)
    BY <1>0, <2>3, BatchTurns DEF PrepareNextTurn
  <2>4. CASE HandleEvent(q)
    <3>1. loop'[q] = loop[q] /\ out[q] # <<>> /\ out'[q] = Tail(out[q])
      BY <1>0, <2>4 DEF HandleEvent
    <3> QED BY <1>0, <3>1, BatchHandled
  <2>5. CASE \E c \in Calls(q) : EndCall(q, c)
    BY <1>0, <2>5, BatchSteps DEF EndCall
  <2>6. CASE FinishRun(q)
    <3>1. loop'[q].pc = "dead"
      BY <1>0, <2>6 DEF FinishRun, LeaveRun, Unused
    <3> QED BY <3>1, BatchFailed
  <2> QED BY <1>5, <2>1, <2>2, <2>3, <2>4, <2>5, <2>6 DEF RunStep
<1>6. CASE Abort
  <2>1. /\ loop'[q].pc = loop[q].pc /\ loop'[q].calls = loop[q].calls
        /\ loop'[q].ctx = loop[q].ctx /\ loop'[q].mode = loop[q].mode /\ out'[q] = out[q]
    BY <1>0, <1>6 DEF Abort, AgentTypes, LoopRecord
  <2> QED BY <1>0, <2>1, BatchUnchanged
<1>7. CASE UNCHANGED vars \/ Steer \/ FollowUp \/ ClearAllQueues \/ Reset
  BY <1>1, <1>7 DEF vars, Steer, SteerWith, FollowUp, ClearAllQueues, Reset
<1> QED BY <1>2, <1>3, <1>4, <1>5, <1>6, <1>7 DEF Next

(* The reducer appends the message of a message_end.                         *)
LEMMA Reduces ==
  ASSUME Steady, NEW r \in Runs, out[r] # <<>>, Reduce(r, out[r][1])
  PROVE  /\ out[r][1] \in Events /\ Fits(out[r][1], loop[r].pc)
         /\ out[r][1].type = "message_end" =>
              /\ out[r][1].msg \in Messages /\ messages' = Append(messages, out[r][1].msg)
         /\ out[r][1].type # "message_end" => messages' = messages
<1>1. out[r] \in Seq(Events) /\ 1 \in 1..Len(out[r])
  <2>1. out[r] \in Seq(Events)
    BY DEF Steady, AgentTypes, LoopShape, LoopTypeOK
  <2> QED BY <2>1
<1>2. Fits(out[r][1], loop[r].pc)
  BY <1>1 DEF Steady, AgentTypes, LoopShape, Shape
<1>3. out[r][1] \in Events
  BY <1>2 DEF Fits
<1>4. out[r][1].type = "message_end" => out[r][1].msg \in Messages
  BY <1>2 DEF Fits, Speakable
<1> DEFINE e == out[r][1]
<1>5. e \in Events /\ Reduce(r, e)
  BY <1>3
<1> HIDE DEF e
<1>6. /\ e.type = "message_end" => messages' = Append(messages, e.msg)
      /\ e.type # "message_end" => messages' = messages
  BY <1>5 DEF Reduce, Events, stateVars
<1> QED BY <1>2, <1>3, <1>4, <1>6 DEF e

LEMMA SteadyStep == Steady /\ [Next]_vars => Steady'
<1> SUFFICES ASSUME Steady, [Next]_vars PROVE AgentTypes'
  BY PlaceStep, BatchStep DEF Steady
<1>0. LoopShape' /\ AgentTypes /\ LoopTypeOK
  BY ShapeStep DEF Steady, AgentTypes, LoopShape
<1> DEFINE Rest_ == /\ activeRun' \in Runs \cup {NoRun}
                    /\ messages' \in Seq(Messages) /\ sent' \in Nat
                    /\ steeringQueue' \in Seq(Given) /\ followUpQueue' \in Seq(Given)
<1>1. ASSUME NEW r \in Runs, Client(r) PROVE Rest_
  BY <1>0, <1>1, RunStarts DEF StartRun, AgentTypes
<1>2. ASSUME NEW r \in Runs, ListenerThrows(r) \/ HandleEvent(r) PROVE Rest_
  <2>1. out[r] # <<>> /\ Reduce(r, out[r][1]) /\ UNCHANGED <<activeRun, queues, sent>>
    BY <1>2 DEF ListenerThrows, HandleEvent
  <2>2. messages' \in Seq(Messages)
    <3>1. messages \in Seq(Messages)
      BY <1>0 DEF AgentTypes
    <3>2. CASE out[r][1].type = "message_end"
      <4>1. PICK m \in Messages : messages' = Append(messages, m)
        BY <2>1, <3>2, Reduces
      <4> QED BY <3>1, <4>1
    <3>3. CASE out[r][1].type # "message_end"
      BY <2>1, <3>1, <3>3, Reduces
    <3> QED BY <3>2, <3>3
  <2> QED BY <1>0, <2>1, <2>2 DEF AgentTypes, queues
<1>3. ASSUME NEW r \in Runs, PollSteering(r) \/ PollFollowUps(r) PROVE Rest_
  BY <1>0, <1>3, PollsType DEF PollSteering, PollFollowUps, stateVars, history, AgentTypes
<1>4. ASSUME NEW r \in Runs, RunStep(r) \/ Failure(r),
             ~(PollSteering(r) \/ PollFollowUps(r) \/ ListenerThrows(r) \/ HandleEvent(r))
      PROVE  Rest_
  <2>1. /\ UNCHANGED <<messages, queues, history>>
        /\ activeRun' = activeRun \/ activeRun' = NoRun
    <3>1. CASE LoopStep(r) /\ UNCHANGED <<activeRun, skipPoll, stateVars, queues, history>>
      BY <3>1 DEF stateVars
    <3>2. CASE PrepareNextTurn(r)
      BY <3>2 DEF PrepareNextTurn, stateVars
    <3>3. CASE \E c \in Calls(r) : EndCall(r, c) \/ EndCallThrows(r, c)
      BY <3>3 DEF EndCall, EndCallThrows
    <3>4. CASE FinishRun(r)
      BY <3>4 DEF FinishRun, LeaveRun
    <3> QED BY <1>4, <3>1, <3>2, <3>3, <3>4 DEF RunStep, Failure
  <2> QED BY <1>0, <2>1 DEF AgentTypes, queues, history
<1>5. ASSUME Steer \/ FollowUp PROVE Rest_
  <2>1. sent + 1 \in Nat /\ steeringQueue \in Seq(Given) /\ followUpQueue \in Seq(Given)
    BY <1>0 DEF AgentTypes
  <2>2. NewSteer \in Given /\ UserMessage("followUp", sent + 1) \in Given
        /\ NewSteer.n = sent + 1
    BY <2>1, GivenTypes DEF NewSteer, UserMessage
  <2>3. CASE Steer
    <3>1. /\ steeringQueue' = Append(steeringQueue, NewSteer) /\ sent' = NewSteer.n
          /\ UNCHANGED <<activeRun, messages, followUpQueue>>
      BY <2>3 DEF Steer, SteerWith, stateVars
    <3>2. steeringQueue' \in Seq(Given)
      BY <2>1, <2>2, <3>1
    <3> QED BY <1>0, <2>1, <2>2, <3>1, <3>2 DEF AgentTypes
  <2>4. CASE FollowUp
    <3>1. /\ followUpQueue' = Append(followUpQueue, UserMessage("followUp", sent + 1))
          /\ sent' = sent + 1 /\ UNCHANGED <<activeRun, messages, steeringQueue>>
      BY <2>4 DEF FollowUp, stateVars
    <3>2. followUpQueue' \in Seq(Given)
      BY <2>1, <2>2, <3>1
    <3> QED BY <1>0, <2>1, <3>1, <3>2 DEF AgentTypes
  <2> QED BY <1>5, <2>3, <2>4
<1>6. ASSUME ClearAllQueues \/ Reset \/ Abort \/ UNCHANGED vars PROVE Rest_
  <2>1. <<>> \in Seq(Given) /\ <<>> \in Seq(Messages)
    OBVIOUS
  <2>2. CASE ClearAllQueues
    BY <1>0, <2>1, <2>2 DEF ClearAllQueues, stateVars, AgentTypes
  <2>3. CASE Reset
    BY <1>0, <2>1, <2>3 DEF Reset, AgentTypes
  <2>4. CASE Abort
    BY <1>0, <2>4 DEF Abort, stateVars, queues, history, AgentTypes
  <2>5. CASE UNCHANGED vars
    BY <1>0, <2>5 DEF vars, AgentTypes
  <2> QED BY <1>6, <2>2, <2>3, <2>4, <2>5
<1>7. Rest_
  <2>1. ASSUME NEW r \in Runs, RunStep(r) \/ Failure(r) PROVE Rest_
    BY <1>2, <1>3, <1>4, <2>1
  <2> HIDE DEF Rest_
  <2> QED BY <1>1, <1>5, <1>6, <2>1 DEF Next
<1> QED BY <1>0, <1>7 DEF AgentTypes

LEMMA SteadyInit == Init => Steady
<1> SUFFICES ASSUME Init PROVE Steady
  OBVIOUS
<1>0. \A S : <<>> \in Seq(S)
  OBVIOUS
<1>1. LoopShape
  <2>1. Unused \in LoopRecord
    BY <1>0 DEF Unused, LoopRecord, LoopStates
  <2>2. Unused.pc = "unused"
    BY DEF Unused
  <2> QED BY <1>0, <2>1, <2>2 DEF Init, LoopInit, LoopShape, LoopTypeOK, Shape
<1>2. messages \in Seq(Messages)
  <2>1. AssistantMessage("stop", 0) \in Messages
    BY MessageTypes DEF Stops
  <2>2. <<AssistantMessage("stop", 0)>> \in Seq(Messages)
    BY <2>1
  <2> QED BY <1>0, <2>2 DEF Init
<1>3. \A r \in Runs : Place(r) /\ Batch(r)
  <2>1. \A r \in Runs : /\ loop[r].pc = "unused" /\ loop[r].calls = <<>> /\ out[r] = <<>>
                        /\ Len(out[r]) = 0 /\ Len(loop[r].calls) = 0
    BY DEF Init, LoopInit, Unused
  <2>2. \A r \in Runs : Place(r)
    BY <2>1, NoRunIsNoRun DEF Init, Place
  <2>3. \A r \in Runs : Batch(r)
    BY <2>1 DEF Batch, NoCalls, Asked, Joined, OneByOne, Together, BatchOver, Silent, BatchStates,
                NoneIs, Calls
  <2> QED BY <2>2, <2>3
<1> QED BY <1>0, <1>1, <1>2, <1>3 DEF Init, Steady, AgentTypes

-----------------------------------------------------------------------------
(* What the active run has said is the transcript, and the messages it still *)
(* announces.                                                                *)

(* The states in which the context goes on to be used: the agent hands out   *)
(* no fresh one between two turns.                                           *)
Live == CtxStates \cup {"turnEnd"}

(* The events that announce rest, from the next one on.                      *)
Telling(r, rest) ==
  \/ out[r] = MessageEvents(rest)
  \/ \E e \in Openers \cup {Event("turn_end")} : out[r] = <<e>> \o MessageEvents(rest)
  \/ /\ rest # <<>>
     /\ out[r] = <<MessageEvent("message_end", rest[1])>> \o MessageEvents(Tail(rest))

InStep(r) == \E rest \in Seq(Messages) : Said(r) = messages \o rest /\ Telling(r, rest)

Faithful(r) == (r = activeRun /\ ~rewritten /\ loop[r].pc \in Live) => InStep(r)

(* A request goes out when every event has been handled.                     *)
Waits(r) == loop[r].pc = "waiting" => out[r] = <<>>

LEMMA HeadsAre ==
  \A e \in Openers \cup {Event("turn_end")} : e \in Events /\ e.type # "message_end"
BY EventShapes DEF Openers, EventTypes, Event, CallEvent

(* With nothing announced, everything said is in the transcript.             *)
LEMMA CaughtUp ==
  ASSUME messages \in Seq(Messages), NEW r \in Runs, InStep(r), out[r] = <<>>
  PROVE  Said(r) = messages
<1>1. PICK rest \in Seq(Messages) : Said(r) = messages \o rest /\ Telling(r, rest)
  BY DEF InStep
<1>2. \A e \in Events, s \in Seq(Messages) : <<e>> \o MessageEvents(s) # <<>>
  BY EventsAfter, MessageEventsAre
<1>3. rest # <<>> => Tail(rest) \in Seq(Messages) /\ rest[1] \in Messages
  BY EventsOfSome
<1>4. MessageEvents(rest) = <<>>
  <2>1. rest # <<>> => MessageEvent("message_end", rest[1]) \in Events
    BY <1>3, EventShapes DEF EventTypes
  <2> QED BY <1>1, <1>2, <1>3, <2>1, HeadsAre DEF Telling
<1>5. rest = <<>>
  BY <1>4, EventsOfSome
<1> QED BY <1>1, <1>5, ConcatEmptySeq

LEMMA InStepStays ==
  ASSUME NEW r \in Runs, InStep(r), Said(r)' = Said(r), UNCHANGED messages, out'[r] = out[r]
  PROVE  InStep(r)'
<1>1. PICK rest \in Seq(Messages) : Said(r) = messages \o rest /\ Telling(r, rest)
  BY DEF InStep
<1>2. Telling(r, rest)'
  BY <1>1 DEF Telling
<1> QED BY <1>1, <1>2 DEF InStep

(* The loop says more when everything is announced.                          *)
LEMMA InStepSays ==
  ASSUME messages \in Seq(Messages), NEW r \in Runs, InStep(r), NEW msgs \in Seq(Messages),
         Says(r, msgs), UNCHANGED messages
  PROVE  InStep(r)'
<1>1. Said(r)' = messages' \o msgs
  BY CaughtUp DEF Says
<1>2. Telling(r, msgs)'
  BY DEF Says, Telling
<1> QED BY <1>1, <1>2 DEF InStep

(* The end of a turn is announced alone.                                     *)
LEMMA InStepTurns ==
  ASSUME messages \in Seq(Messages), NEW r \in Runs, InStep(r), out[r] = <<>>,
         Said(r)' = Said(r), out'[r] = <<Event("turn_end")>>, UNCHANGED messages
  PROVE  InStep(r)'
<1>1. Said(r)' = messages' \o <<>>
  BY CaughtUp, ConcatEmptySeq
<1>2. out'[r] = <<Event("turn_end")>> \o MessageEvents(<<>>)
  BY EventsOfNone
<1>3. Telling(r, <<>>)'
  BY <1>2 DEF Telling
<1>4. <<>> \in Seq(Messages)
  OBVIOUS
<1> QED BY <1>1, <1>3, <1>4 DEF InStep

LEMMA Regrouped == \A s, t, u \in Seq(Messages) : (s \o t) \o u = s \o (t \o u)
BY ConcatAssociative

(* The reducer takes the messages in the order in which they are announced.  *)
LEMMA InStepHandled ==
  ASSUME messages \in Seq(Messages), NEW r \in Runs, InStep(r), out[r] # <<>>,
         out'[r] = Tail(out[r]), Said(r)' = Said(r),
         out[r][1].type = "message_end" => messages' = Append(messages, out[r][1].msg),
         out[r][1].type # "message_end" => messages' = messages
  PROVE  InStep(r)'
<1>1. PICK rest \in Seq(Messages) : Said(r) = messages \o rest /\ Telling(r, rest)
  BY DEF InStep
<1>2. ASSUME NEW e \in Openers \cup {Event("turn_end")}, out[r] = <<e>> \o MessageEvents(rest)
      PROVE  InStep(r)'
  <2> DEFINE u == MessageEvents(rest)
  <2>0. u \in Seq(Events) /\ e \in Events /\ out[r] = <<e>> \o u
    BY <1>2, HeadsAre, MessageEventsAre
  <2> HIDE DEF u
  <2>3. out'[r] = u /\ out[r][1] = e
    BY <2>0, EventsAfter
  <2>1. out'[r] = MessageEvents(rest) /\ out[r][1] = e
    BY <2>3 DEF u
  <2>2. Telling(r, rest)' /\ messages' = messages
    BY <2>1, HeadsAre DEF Telling
  <2> QED BY <1>1, <2>2 DEF InStep
<1>3. ASSUME out[r] = MessageEvents(rest) PROVE InStep(r)'
  <2>1. rest # <<>>
    BY <1>3, EventsOfNone
  <2>2. /\ out'[r] = <<MessageEvent("message_end", rest[1])>> \o MessageEvents(Tail(rest))
        /\ out[r][1] = MessageEvent("message_start", rest[1])
    BY <1>3, <2>1, EventsOfSome
  <2>4. Telling(r, rest)'
    BY <2>1, <2>2 DEF Telling
  <2>5. out[r][1].type # "message_end"
    BY <2>2 DEF MessageEvent
  <2>3. Telling(r, rest)' /\ messages' = messages
    BY <2>4, <2>5
  <2> QED BY <1>1, <2>3 DEF InStep
<1>4. ASSUME rest # <<>>,
             out[r] = <<MessageEvent("message_end", rest[1])>> \o MessageEvents(Tail(rest))
      PROVE  InStep(r)'
  <2> DEFINE e == MessageEvent("message_end", rest[1])
             t == Tail(rest)
             m == rest[1]
  <2>1. m \in Messages /\ t \in Seq(Messages) /\ rest = <<m>> \o t
    BY <1>4, EventsOfSome
  <2>2. e \in Events /\ e.msg = m /\ e.type = "message_end"
    BY <2>1, EventShapes DEF EventTypes, MessageEvent
  <2>3. out[r] = <<e>> \o MessageEvents(t)
    BY <1>4
  <2> HIDE DEF e, t, m
  <2>4. out[r][1] = e /\ out'[r] = MessageEvents(t)
    <3> DEFINE u == MessageEvents(t)
    <3>1. u \in Seq(Events)
      BY <2>1, MessageEventsAre
    <3>2. out[r] = <<e>> \o u
      BY <2>3
    <3> HIDE DEF u
    <3>3. out[r][1] = e /\ out'[r] = u
      BY <2>2, <3>1, <3>2, EventsAfter
    <3> QED BY <3>3 DEF u
  <2>5. messages' = messages \o <<m>>
    BY <2>1, <2>2, <2>4, AppendIsConcat
  <2>6. Said(r)' = messages' \o t
    <3> DEFINE h == <<m>>
    <3>1. h \in Seq(Messages) /\ t \in Seq(Messages) /\ messages \in Seq(Messages)
      BY <2>1
    <3>2. Said(r) = messages \o (h \o t) /\ messages' = messages \o h
      BY <1>1, <2>1, <2>5
    <3> HIDE DEF h
    <3>3. (messages \o h) \o t = messages \o (h \o t)
      BY <3>1, Regrouped
    <3> QED BY <3>2, <3>3
  <2>7. Telling(r, t)'
    BY <2>4 DEF Telling
  <2> QED BY <2>1, <2>6, <2>7 DEF InStep
<1> QED BY <1>1, <1>2, <1>3, <1>4 DEF Telling

(* The end of a turn adds to the context what was said of the batch.         *)
LEMMA TurnSays ==
  ASSUME LoopShape, NEW r \in Runs, EndTurnWithoutTools(r) \/ EndBatch(r)
  PROVE  out[r] = <<>> /\ Said(r)' = Said(r) /\ out'[r] = <<Event("turn_end")>>
<1>1. /\ LoopTypeOK /\ loop[r] \in LoopRecord /\ loop \in [Runs -> LoopRecord]
      /\ out \in [Runs -> Seq(Events)] /\ loop[r].ctx \in Seq(Messages)
  BY RecordFacts DEF LoopShape, LoopTypeOK
<1>2. out[r] = <<>> /\ out'[r] = <<Event("turn_end")>>
  BY <1>1 DEF EndTurnWithoutTools, EndBatch, At, Awaited
<1>3. CASE EndTurnWithoutTools(r)
  <2>1. loop[r].pc = "replied" /\ loop'[r].pc = "turnEnd" /\ loop'[r].ctx = loop[r].ctx
    BY <1>1, <1>3 DEF EndTurnWithoutTools, At, LoopRecord
  <2> QED BY <1>2, <2>1 DEF Said, Results, BatchStates
<1>4. CASE EndBatch(r)
  <2> DEFINE c == loop[r].ctx \o ResultsFrom(0, Cardinality(With(r, {"reported"})))
             b == ~loop[r].term
  <2>1. Cardinality(With(r, {"reported"})) \in Nat
    BY <1>1, WithFacts
  <2>2. ResultsFrom(0, Cardinality(With(r, {"reported"})))
          = [i \in 1..Cardinality(With(r, {"reported"})) |-> ToolResult(i)]
    BY <2>1 DEF ResultsFrom
  <2>3. loop' = [loop EXCEPT ![r] = [loop[r] EXCEPT !.pc = "turnEnd", !.more = b, !.ctx = c,
                                                   !.calls = <<>>]]
    BY <1>1, <1>4, <2>2 DEF EndBatch
  <2>4. Said(r) = c
    BY <1>4 DEF EndBatch, At, Said, Results, BatchStates
  <2> HIDE DEF c, b
  <2>5. loop'[r].pc = "turnEnd" /\ loop'[r].ctx = c
    BY <1>1, <2>3 DEF LoopRecord
  <2>6. c \in Seq(Messages)
    BY <1>1, <2>4, SaidType
  <2>7. Said(r)' = c \o <<>>
    BY <2>5 DEF Said, Results, BatchStates
  <2> QED BY <1>2, <2>4, <2>6, <2>7, ConcatEmptySeq
<1> QED BY <1>3, <1>4

(* Only the end of a turn leads to where the next one is prepared.           *)
LEMMA TurnEnds ==
  ASSUME LoopTypeOK, NEW r \in Runs, loop[r].pc # "turnEnd", loop'[r].pc = "turnEnd",
         LoopStep(r) \/ \E c \in Calls(r) : CallEnded(r, c)
  PROVE  EndTurnWithoutTools(r) \/ EndBatch(r)
<1>1. loop[r] \in LoopRecord /\ loop \in [Runs -> LoopRecord]
  BY RecordFacts DEF LoopTypeOK
<1>2. ASSUME Request(r) PROVE FALSE
  BY <1>1, <1>2 DEF Request, LoopRecord
<1>3. ASSUME Respond(r) PROVE FALSE
  <2>1. PICK m \in Replies(r) :
          loop' = [loop EXCEPT ![r].pc = "replied", ![r].ctx = Append(@, m), ![r].turns = @ + 1]
    BY <1>3 DEF Respond
  <2> DEFINE c == Append(loop[r].ctx, m)  n == loop[r].turns + 1
  <2>2. loop' = [loop EXCEPT ![r] = [loop[r] EXCEPT !.pc = "replied", !.ctx = c, !.turns = n]]
    BY <1>1, <2>1
  <2> HIDE DEF c, n
  <2> QED BY <1>1, <2>2 DEF LoopRecord
<1>4. ASSUME StopOnError(r) PROVE FALSE
  BY <1>1, <1>4 DEF StopOnError, LoopRecord
<1>5. ASSUME NEW mode \in {"sequential", "parallel"}, ExecuteToolCalls(r, mode) PROVE FALSE
  BY <1>1, <1>5 DEF ExecuteToolCalls, LoopRecord
<1>6. ASSUME NEW c \in Calls(r), StartCall(r, c) PROVE FALSE
  BY <1>1, <1>6 DEF StartCall, LoopRecord
<1>7. ASSUME NEW c \in Calls(r), RefuseCall(r, c) \/ PrepareCall(r, c) PROVE FALSE
  BY <1>1, <1>7 DEF RefuseCall, PrepareCall, LoopRecord
<1>8. ASSUME NEW c \in Calls(r), FinishCall(r, c) \/ CallEnded(r, c) PROVE FALSE
  BY <1>1, <1>8 DEF FinishCall, CallEnded, LoopRecord
<1>9. ASSUME LaunchCalls(r) \/ EndSequentialBatch(r) PROVE FALSE
  BY <1>1, <1>9 DEF LaunchCalls, EndSequentialBatch, LoopRecord
<1>10. ASSUME ReportResults(r) PROVE FALSE
  BY <1>1, <1>10 DEF ReportResults, At, LoopRecord
<1>11. ASSUME LoopReturns(r) PROVE FALSE
  BY <1>1, <1>11 DEF LoopReturns, LoopRecord
<1> QED
  BY <1>2, <1>3, <1>4, <1>5, <1>6, <1>7, <1>8, <1>9, <1>10, <1>11 DEF LoopStep

(* A step of the loop keeps what it said in step with the transcript.        *)
LEMMA InStepLoop ==
  ASSUME LoopShape, messages \in Seq(Messages), NEW r \in Runs, Batch(r),
         LoopStep(r) \/ \E c \in Calls(r) : CallEnded(r, c),
         loop[r].pc \in Live => InStep(r), loop'[r].pc \in Live, UNCHANGED messages
  PROVE  InStep(r)'
<1>1. LoopTypeOK /\ loop[r] \in LoopRecord /\ loop \in [Runs -> LoopRecord]
      /\ Calls(r) = 1..Len(loop[r].calls)
  BY RecordFacts DEF LoopShape, LoopTypeOK, Calls
<1>2. loop[r].pc \in Live
  <2>1. CASE LoopStep(r)
    BY <1>1, <2>1, LoopStepEffect DEF LoopEffect, Live, CtxStates, BatchStates, LoopRecord, LoopStates
  <2>2. CASE \E c \in Calls(r) : CallEnded(r, c)
    BY <1>1, <2>2 DEF CallEnded, LoopRecord
  <2> QED BY <2>1, <2>2
<1>3. loop[r].pc # "turnEnd"
  <2>1. SUFFICES ASSUME loop[r].pc = "turnEnd" PROVE FALSE
    OBVIOUS
  <2>2. loop[r].calls = <<>>
    BY <2>1 DEF Batch, NoCalls, BatchStates
  <2>3. \A c \in Calls(r) : FALSE
    BY <1>1, <2>2
  <2> QED BY <2>1, <2>3 DEF LoopStep, Request, Respond, StopOnError, EndTurnWithoutTools,
                            ExecuteToolCalls, LaunchCalls, ReportResults, EndSequentialBatch,
                            EndBatch, LoopReturns, At
<1>4. loop[r].pc \in CtxStates /\ InStep(r)
  BY <1>2, <1>3 DEF Live
<1>5. LoopSays(r)
  BY <1>4, LoopStepSays
<1>6. CASE loop'[r].pc = "turnEnd"
  <2>1. EndTurnWithoutTools(r) \/ EndBatch(r)
    BY <1>1, <1>3, <1>6, TurnEnds
  <2> QED BY <1>4, <2>1, TurnSays, InStepTurns
<1>7. CASE Said(r)' = Said(r) /\ out'[r] = out[r]
  BY <1>4, <1>7, InStepStays
<1>8. CASE \E msgs \in Seq(Messages) : Says(r, msgs)
  BY <1>4, <1>8, InStepSays
<1> QED BY <1>5, <1>6, <1>7, <1>8 DEF LoopSays, Live

(* A run starts with the transcript and its prompts.                         *)
LEMMA InStepStarts ==
  ASSUME LoopShape, messages \in Seq(Messages), NEW r \in Runs, NEW prompts \in Seq(Spoken),
         StartRun(r, prompts)
  PROVE  InStep(r)'
<1>1. loop \in [Runs -> LoopRecord] /\ out \in [Runs -> Seq(Events)]
  BY DEF LoopShape, LoopTypeOK
<1>2. prompts \in Seq(Messages)
  BY SpokenSpeakable
<1> DEFINE c == messages \o prompts
           s == MessageEvents(prompts)
<1>3. /\ loop' = [loop EXCEPT ![r] = [Unused EXCEPT !.pc = "steering", !.ctx = c]]
      /\ out' = [out EXCEPT ![r] = <<Event("turn_start")>> \o s]
      /\ messages' = messages
  BY DEF StartRun, RunAgentLoop
<1>4. c \in Seq(Messages)
  BY <1>2
<1> HIDE DEF c, s
<1>5. loop'[r].pc = "steering" /\ loop'[r].ctx = c /\ out'[r] = <<Event("turn_start")>> \o s
  BY <1>1, <1>3 DEF Unused
<1>6. Said(r)' = c \o <<>>
  BY <1>5 DEF Said, Results, BatchStates
<1>7. Said(r)' = messages' \o prompts
  BY <1>3, <1>4, <1>6, ConcatEmptySeq DEF c
<1>8. Telling(r, prompts)'
  BY <1>5 DEF Telling, Openers, s
<1> QED BY <1>2, <1>7, <1>8 DEF InStep

(* The answers to the polls of the loop.                                     *)
LEMMA InStepPolled ==
  ASSUME LoopShape, messages \in Seq(Messages), NEW r \in Runs, NEW msgs \in Seq(Spoken),
         SteeringPolled(r, msgs) \/ FollowUpPolled(r, msgs), InStep(r), UNCHANGED messages,
         loop'[r].pc \in Live
  PROVE  InStep(r)'
<1>1. LoopTypeOK /\ loop[r] \in LoopRecord /\ loop \in [Runs -> LoopRecord]
  BY RecordFacts DEF LoopShape, LoopTypeOK
<1>2. msgs \in Seq(Messages) /\ out[r] = <<>> /\ loop[r].pc \in {"steering", "followUp"}
  BY SpokenSpeakable DEF SteeringPolled, FollowUpPolled, At, Awaited
<1>3. CASE EnterTurn(r, msgs)
  <2>1. Says(r, msgs)
    BY <1>1, <1>2, <1>3, EnterSays
  <2> QED BY <1>2, <2>1, InStepSays
<1>4. CASE ~EnterTurn(r, msgs) /\ SteeringPolled(r, msgs)
  <2>1. loop'[r].pc = "followUp" /\ loop'[r].ctx = loop[r].ctx /\ out' = out
    BY <1>1, <1>4 DEF SteeringPolled, LoopRecord
  <2>2. Said(r)' = Said(r)
    BY <1>2, <2>1 DEF Said, Results, BatchStates
  <2> QED BY <2>1, <2>2, InStepStays
<1>5. CASE ~EnterTurn(r, msgs) /\ FollowUpPolled(r, msgs)
  <2>1. loop'[r].pc = "ending"
    BY <1>1, <1>5 DEF FollowUpPolled, LoopRecord
  <2> QED BY <2>1 DEF Live, CtxStates, BatchStates
<1> QED BY <1>3, <1>4, <1>5

LEMMA InStepPrepared ==
  ASSUME LoopShape, NEW r \in Runs, TurnPrepared(r, loop[r].ctx), InStep(r), UNCHANGED messages
  PROVE  InStep(r)'
<1>1. loop[r] \in LoopRecord /\ loop \in [Runs -> LoopRecord]
  BY RecordFacts DEF LoopShape, LoopTypeOK
<1>2. /\ loop[r].pc = "turnEnd" /\ loop'[r].pc = "steering" /\ loop'[r].ctx = loop[r].ctx
      /\ out' = out
  BY <1>1 DEF TurnPrepared, At, LoopRecord
<1>3. Said(r)' = Said(r)
  BY <1>2 DEF Said, Results, BatchStates
<1> QED BY <1>2, <1>3, InStepStays

LEMMA FaithfulStep ==
  ASSUME Steady, [Next]_vars, NEW q \in Runs, Faithful(q)
  PROVE  Faithful(q)'
<1> SUFFICES ASSUME q = activeRun', ~rewritten', loop'[q].pc \in Live PROVE InStep(q)'
  BY DEF Faithful
<1>0. /\ LoopShape /\ LoopTypeOK /\ AgentTypes /\ Batch(q) /\ messages \in Seq(Messages)
      /\ loop \in [Runs -> LoopRecord] /\ out \in [Runs -> Seq(Events)] /\ NoRun \notin Runs
      /\ \A r \in Runs : Place(r) /\ (out[r] # <<>> => loop[r].pc \notin {"unused", "dead"})
  BY NoRunIsNoRun DEF Steady, AgentTypes, LoopShape, LoopTypeOK, Place
<1>1. ASSUME UNCHANGED <<activeRun, rewritten, messages>>,
             loop'[q].pc = loop[q].pc, loop'[q].ctx = loop[q].ctx,
             loop'[q].calls = loop[q].calls, out'[q] = out[q]
      PROVE  InStep(q)'
  <2>1. InStep(q)
    BY <1>1 DEF Faithful
  <2>2. Said(q)' = Said(q)
    BY <1>1 DEF Said, Results, With, Calls
  <2> QED BY <1>1, <2>1, <2>2, InStepStays
<1>2. ASSUME NEW r \in Runs, Client(r) PROVE InStep(q)'
  <2>1. PICK prompts \in Seq(Spoken) : StartRun(r, prompts)
    BY <1>0, <1>2, RunStartsSpoken
  <2>2. r = q
    BY <2>1 DEF StartRun
  <2> QED BY <1>0, <2>1, <2>2, InStepStarts
<1>3. ASSUME NEW r \in Runs \ {q}, RunStep(r) \/ Failure(r) PROVE InStep(q)'
  <2>1. loop'[q] = loop[q] /\ out'[q] = out[q]
    BY <1>3, OthersStay
  <2>2. activeRun = q /\ UNCHANGED <<activeRun, rewritten>>
    <3>1. CASE RunStep(r)
      BY <1>0, <3>1 DEF RunStep, PollSteering, PollFollowUps, PrepareNextTurn, HandleEvent, EndCall,
                        FinishRun, LeaveRun, history
    <3>2. CASE Failure(r)
      BY <1>0, <3>2, FailureIs
    <3> QED BY <1>3, <3>1, <3>2
  <2>3. out[r] = <<>>
    BY <1>0, <1>3, <2>2 DEF Place
  <2>4. UNCHANGED messages
    BY <1>3, <2>3 DEF RunStep, Failure, PollSteering, PollFollowUps, PrepareNextTurn, HandleEvent,
                      EndCall, FinishRun, LeaveRun, ListenerThrows, EndCallThrows, stateVars
  <2> QED BY <1>1, <2>1, <2>2, <2>4
<1>4. ASSUME Failure(q) PROVE FALSE
  <2>1. loop'[q].pc \in {"failing", "dead"}
    BY <1>0, <1>4, FailureIs DEF FailsNow
  <2> QED BY <2>1 DEF Live, CtxStates, BatchStates
<1>5. CASE RunStep(q)
  <2>1. ASSUME activeRun' = activeRun, rewritten' = rewritten, loop[q].pc \in Live
        PROVE  InStep(q)
    BY <2>1 DEF Faithful
  <2>2. CASE LoopStep(q) /\ UNCHANGED <<activeRun, skipPoll, stateVars, queues, history>>
    BY <1>0, <2>1, <2>2, InStepLoop DEF stateVars, history
  <2>3. CASE PollSteering(q) \/ PollFollowUps(q)
    <3>1. PICK msgs \in Seq(Spoken) : SteeringPolled(q, msgs) \/ FollowUpPolled(q, msgs)
      BY <1>0, <2>3, PollsSpoken
    <3>2. UNCHANGED <<activeRun, rewritten, messages>>
      BY <2>3 DEF PollSteering, PollFollowUps, stateVars, history
    <3>3. loop[q].pc \in Live
      BY <3>1 DEF SteeringPolled, FollowUpPolled, At, Live, CtxStates
    <3> QED BY <1>0, <2>1, <3>1, <3>2, <3>3, InStepPolled
  <2>4. CASE PrepareNextTurn(q)
    <3>1. UNCHANGED <<activeRun, rewritten, messages>> /\ TurnPrepared(q, loop[q].ctx)
      BY <2>4 DEF PrepareNextTurn, stateVars, history
    <3>2. loop[q].pc \in Live
      BY <3>1 DEF TurnPrepared, At, Live
    <3> QED BY <1>0, <2>1, <3>1, <3>2, InStepPrepared
  <2>5. CASE HandleEvent(q)
    <3>1. /\ out[q] # <<>> /\ Reduce(q, out[q][1]) /\ out'[q] = Tail(out[q])
          /\ UNCHANGED <<loop, activeRun, rewritten>>
      BY <1>0, <2>5 DEF HandleEvent
    <3>2. InStep(q)
      BY <2>1, <3>1
    <3>3. Said(q)' = Said(q)
      BY <3>1 DEF Said, Results, With, Calls
    <3>4. /\ out[q][1].type = "message_end" => messages' = Append(messages, out[q][1].msg)
          /\ out[q][1].type # "message_end" => messages' = messages
      BY <3>1, Reduces
    <3> QED BY <1>0, <3>1, <3>2, <3>3, <3>4, InStepHandled
  <2>6. CASE \E c \in Calls(q) : EndCall(q, c)
    <3>1. (\E c \in Calls(q) : CallEnded(q, c)) /\ UNCHANGED <<activeRun, rewritten, messages>>
      BY <2>6 DEF EndCall, history
    <3> QED BY <1>0, <2>1, <3>1, InStepLoop
  <2>7. ASSUME FinishRun(q) PROVE FALSE
    BY <1>0, <2>7 DEF FinishRun, LeaveRun
  <2> QED BY <1>5, <2>2, <2>3, <2>4, <2>5, <2>6, <2>7 DEF RunStep
<1>6. CASE Abort
  <2>1. /\ loop'[q].pc = loop[q].pc /\ loop'[q].ctx = loop[q].ctx
        /\ loop'[q].calls = loop[q].calls
    BY <1>0, <1>6 DEF Abort, AgentTypes, LoopRecord
  <2> QED BY <1>1, <1>6, <2>1 DEF Abort, stateVars, history
<1>7. ASSUME Reset PROVE FALSE
  BY <1>0, <1>7 DEF Reset
<1>8. CASE UNCHANGED vars \/ Steer \/ FollowUp \/ ClearAllQueues
  BY <1>1, <1>8 DEF vars, Steer, SteerWith, FollowUp, ClearAllQueues, stateVars
<1> QED
  <2>1. ASSUME NEW r \in Runs, RunStep(r) \/ Failure(r) PROVE InStep(q)'
    BY <1>3, <1>4, <1>5, <2>1
  <2> QED BY <1>2, <1>6, <1>7, <1>8, <2>1 DEF Next

LEMMA WaitsStep ==
  ASSUME Steady, [Next]_vars, NEW q \in Runs, Waits(q)
  PROVE  Waits(q)'
<1> USE DEF Waits
<1>0. /\ LoopShape /\ LoopTypeOK /\ AgentTypes
      /\ loop \in [Runs -> LoopRecord] /\ out \in [Runs -> Seq(Events)]
  BY DEF Steady, AgentTypes, LoopShape, LoopTypeOK
<1>1. ASSUME loop'[q].pc = loop[q].pc, out'[q] = out[q] PROVE Waits(q)'
  BY <1>1
<1>2. ASSUME NEW r \in Runs, Client(r) \/ RunStep(r) \/ Failure(r), r # q PROVE Waits(q)'
  BY <1>1, <1>2, OthersStay
<1>3. CASE Client(q)
  <2>1. PICK prompts \in Seq(Spoken) : StartRun(q, prompts)
    BY <1>0, <1>3, RunStartsSpoken
  <2>2. loop'[q].pc = "steering"
    BY <1>0, <2>1 DEF StartRun, RunAgentLoop, Unused
  <2> QED BY <2>2
<1>4. CASE Failure(q)
  <2>1. loop'[q].pc \in {"failing", "dead"}
    BY <1>0, <1>4, FailureIs DEF FailsNow
  <2> QED BY <2>1
<1>5. CASE RunStep(q)
  <2>1. CASE LoopStep(q)
    BY <1>0, <2>1, LoopStepEffect DEF LoopEffect
  <2>2. CASE PollSteering(q) \/ PollFollowUps(q)
    <3>1. PICK msgs \in Seq(Spoken) : SteeringPolled(q, msgs) \/ FollowUpPolled(q, msgs)
      BY <1>0, <2>2, PollsSpoken
    <3>2. loop'[q].pc \in {"stream", "followUp", "ending"}
      BY <1>0, <3>1 DEF SteeringPolled, FollowUpPolled, EnterTurn, LoopRecord
    <3> QED BY <3>2
  <2>3. CASE PrepareNextTurn(q)
    BY <1>0, <2>3 DEF PrepareNextTurn, TurnPrepared, LoopRecord
  <2>4. CASE HandleEvent(q)
    BY <1>0, <2>4 DEF HandleEvent
  <2>5. CASE \E c \in Calls(q) : EndCall(q, c)
    BY <1>0, <2>5 DEF EndCall, CallEnded, LoopRecord
  <2>6. CASE FinishRun(q)
    BY <1>0, <2>6 DEF FinishRun, LeaveRun, Unused
  <2> QED BY <1>5, <2>1, <2>2, <2>3, <2>4, <2>5, <2>6 DEF RunStep
<1>6. CASE Abort
  BY <1>0, <1>1, <1>6 DEF Abort, AgentTypes, LoopRecord
<1>7. CASE UNCHANGED vars \/ Steer \/ FollowUp \/ ClearAllQueues \/ Reset
  BY <1>1, <1>7 DEF vars, Steer, SteerWith, FollowUp, ClearAllQueues, Reset
<1> QED BY <1>2, <1>3, <1>4, <1>5, <1>6, <1>7 DEF Next

IsFaithful == \A r \in Runs : Faithful(r) /\ Waits(r)

LEMMA FaithfulGives == Steady /\ IsFaithful => RequestIsTranscript
<1> SUFFICES ASSUME Steady, IsFaithful, NEW r \in Runs,
                    r = activeRun, loop[r].pc = "waiting", ~rewritten
             PROVE  loop[r].ctx = messages
  BY DEF RequestIsTranscript
<1>1. InStep(r) /\ out[r] = <<>>
  BY DEF IsFaithful, Faithful, Waits, Live, CtxStates
<1>2. messages \in Seq(Messages) /\ loop[r].ctx \in Seq(Messages)
  BY RecordFacts DEF Steady, AgentTypes, LoopShape
<1>3. Said(r) = messages
  BY <1>1, <1>2, CaughtUp
<1>4. Said(r) = loop[r].ctx
  BY <1>2, ConcatEmptySeq DEF Said, Results, BatchStates
<1> QED BY <1>3, <1>4

LEMMA FaithfulAlways == Spec => [](Steady /\ IsFaithful)
<1>1. Init => IsFaithful
  BY NoRunIsNoRun DEF Init, LoopInit, Unused, IsFaithful, Faithful, Waits
<1>2. Steady /\ IsFaithful /\ [Next]_vars => Steady' /\ IsFaithful'
  BY SteadyStep, FaithfulStep, WaitsStep DEF IsFaithful
<1> QED BY <1>1, <1>2, SteadyInit, PTL DEF Spec

(* What a provider is sent is the transcript the agent shows, whatever its   *)
(* clients queue, clear or abort and whichever listener throws, unless       *)
(* reset() emptied the transcript under the run.                             *)
THEOREM RequestsAreTheTranscript == Spec => []RequestIsTranscript
BY FaithfulAlways, FaithfulGives, PTL

-----------------------------------------------------------------------------
(* The tool calls of the last answer have their results, in their order.     *)

AnsweredAt(s, i) ==
  LET n == IF s[i].kind = "toolUse" THEN s[i].n ELSE 0
  IN  /\ s[i].role = "assistant" /\ Len(s) >= i + n
      /\ \A c \in 1..n : s[i + c] = ToolResult(c)
      /\ \A j \in (i + n + 1)..Len(s) : s[j].role = "user"
Answered(s) == \E i \in DOMAIN s : AnsweredAt(s, i)

(* Between two answers of the model: the last one is answered for; while its *)
(* calls are executed each has its place, and unless the run is aborted none *)
(* of them is left out.                                                      *)
Between == {"turnEnd", "steering", "followUp", "stream", "waiting"}
Turned(r) ==
  /\ loop[r].pc \in Between /\ loop[r].turns > 0 /\ ~loop[r].aborted => Answered(loop[r].ctx)
  /\ loop[r].pc \in BatchStates \cup {"replied"} => Reply(r).role = "assistant"
  /\ loop[r].pc \in BatchStates => Len(loop[r].calls) = Reply(r).n
  /\ loop[r].pc \in {"joining", "batchEnd"} /\ ~loop[r].aborted => NoneIs(r, {"new"})

(* The answer that counts is the last one.                                   *)
LEMMA LastIsAnswered ==
  ASSUME NEW s \in Seq(Messages), NEW i \in DOMAIN s, AnsweredAt(s, i)
  PROVE  LastAssistant(s) = i
<1> DEFINE n == IF s[i].kind = "toolUse" THEN s[i].n ELSE 0
           P(k) == s[k].role = "assistant" /\ \A j \in (k+1)..Len(s) : s[j].role # "assistant"
<1>1. DOMAIN s = 1..Len(s) /\ Len(s) \in Nat /\ s[i] \in Messages /\ i \in Nat
  OBVIOUS
<1>2. n \in Nat
  BY <1>1 DEF Messages
<1>3. /\ s[i].role = "assistant" /\ Len(s) >= i + n
      /\ \A c \in 1..n : s[i + c] = ToolResult(c)
      /\ \A j \in (i + n + 1)..Len(s) : s[j].role = "user"
  BY DEF AnsweredAt
<1> HIDE DEF n
<1>4. ASSUME NEW j \in (i+1)..Len(s) PROVE s[j].role # "assistant"
  <2>1. CASE j <= i + n
    <3>1. j - i \in 1..n /\ i + (j - i) = j
      BY <1>1, <1>2, <2>1
    <3>2. s[j] = ToolResult(j - i)
      BY <1>3, <3>1
    <3> QED BY <3>2 DEF ToolResult
  <2>2. CASE ~(j <= i + n)
    <3>1. j \in (i + n + 1)..Len(s)
      BY <1>1, <1>2, <2>2
    <3> QED BY <1>3, <3>1
  <2> QED BY <2>1, <2>2
<1>5. P(i)
  BY <1>3, <1>4
<1>6. ASSUME NEW k \in DOMAIN s, P(k) PROVE k = i
  <2>1. k \in Nat
    BY <1>1
  <2>2. ~(k < i)
    <3>1. SUFFICES ASSUME k < i PROVE FALSE
      OBVIOUS
    <3>2. i \in (k+1)..Len(s)
      BY <1>1, <2>1, <3>1
    <3> QED BY <1>3, <1>6, <3>2
  <2>3. ~(i < k)
    <3>1. SUFFICES ASSUME i < k PROVE FALSE
      OBVIOUS
    <3>2. k \in (i+1)..Len(s)
      BY <1>1, <2>1, <3>1
    <3> QED BY <1>4, <1>6, <3>2
  <2> QED BY <1>1, <2>1, <2>2, <2>3
<1>7. LastAssistant(s) = CHOOSE k \in DOMAIN s : P(k)
  BY DEF LastAssistant
<1> HIDE DEF P
<1> QED BY <1>5, <1>6, <1>7

(* What clients add does not undo it.                                        *)
LEMMA AnsweredGoesOn ==
  ASSUME NEW s \in Seq(Messages), NEW msgs \in Seq(Given), Answered(s)
  PROVE  Answered(s \o msgs)
<1>1. PICK i \in DOMAIN s : AnsweredAt(s, i)
  BY DEF Answered
<1> DEFINE n == IF s[i].kind = "toolUse" THEN s[i].n ELSE 0
           u == s \o msgs
<1>2. /\ DOMAIN s = 1..Len(s) /\ Len(s) \in Nat /\ s[i] \in Messages /\ i \in Nat
      /\ Len(msgs) \in Nat /\ Len(u) = Len(s) + Len(msgs) /\ DOMAIN u = 1..Len(u)
      /\ \A j \in 1..Len(u) : u[j] = IF j <= Len(s) THEN s[j] ELSE msgs[j - Len(s)]
      /\ \A j \in 1..Len(msgs) : msgs[j].role = "user"
  <2>1. msgs \in Seq(Messages)
    BY GivenSpoken, SpokenSpeakable
  <2>2. \A j \in 1..Len(msgs) : msgs[j] \in Given
    OBVIOUS
  <2> QED BY <2>1, <2>2 DEF Given
<1>3. n \in Nat
  BY <1>2 DEF Messages
<1>4. /\ s[i].role = "assistant" /\ Len(s) >= i + n
      /\ \A c \in 1..n : s[i + c] = ToolResult(c)
      /\ \A j \in (i + n + 1)..Len(s) : s[j].role = "user"
  BY <1>1 DEF AnsweredAt
<1>5. i \in 1..Len(u) /\ u[i] = s[i]
  BY <1>2
<1>6. n = IF u[i].kind = "toolUse" THEN u[i].n ELSE 0
  BY <1>5
<1> HIDE DEF n, u
<1>7. \A c \in 1..n : u[i + c] = ToolResult(c)
  <2> TAKE c \in 1..n
  <2>1. i + c \in 1..Len(u) /\ i + c <= Len(s)
    BY <1>2, <1>3, <1>4
  <2> QED BY <1>2, <1>4, <2>1
<1>8. \A j \in (i + n + 1)..Len(u) : u[j].role = "user"
  <2> TAKE j \in (i + n + 1)..Len(u)
  <2>1. j \in 1..Len(u)
    BY <1>2, <1>3
  <2>2. CASE j <= Len(s)
    BY <1>2, <1>3, <1>4, <2>1, <2>2
  <2>3. CASE ~(j <= Len(s))
    <3>1. j - Len(s) \in 1..Len(msgs)
      BY <1>2, <2>1, <2>3
    <3> QED BY <1>2, <2>1, <2>3, <3>1
  <2> QED BY <2>2, <2>3
<1>9. AnsweredAt(u, i)
  BY <1>2, <1>3, <1>4, <1>5, <1>6, <1>7, <1>8 DEF AnsweredAt
<1> QED BY <1>2, <1>5, <1>9 DEF Answered, u

(* An answer without calls is answered for, and one followed by the results  *)
(* of its calls.                                                             *)
LEMMA AnsweredAtEnd ==
  ASSUME NEW s \in Seq(Messages), s # <<>>, s[Len(s)].role = "assistant"
  PROVE  /\ s[Len(s)].kind # "toolUse" => Answered(s)
         /\ s[Len(s)].kind = "toolUse" =>
              Answered(s \o [c \in 1..s[Len(s)].n |-> ToolResult(c)])
<1> DEFINE i == Len(s)
           n == s[i].n
           t == [c \in 1..n |-> ToolResult(c)]
           u == s \o t
<1>1. i \in Nat /\ i \in DOMAIN s /\ s[i] \in Messages /\ n \in Nat /\ DOMAIN s = 1..i
  <2>1. i \in Nat /\ i # 0 /\ DOMAIN s = 1..i
    OBVIOUS
  <2>2. i \in 1..i
    BY <2>1
  <2>3. s[i] \in Messages
    BY <2>1, <2>2
  <2> QED BY <2>1, <2>2, <2>3 DEF Messages
<1>2. ASSUME s[i].kind # "toolUse" PROVE Answered(s)
  <2>1. AnsweredAt(s, i)
    BY <1>1, <1>2 DEF AnsweredAt
  <2> QED BY <1>1, <2>1 DEF Answered
<1>3. ASSUME s[i].kind = "toolUse" PROVE Answered(u)
  <2>1. t \in Seq(Messages) /\ Len(t) = n /\ \A c \in 1..n : t[c] = ToolResult(c)
    BY <1>1, MessageTypes
  <2>0. \A c \in 1..n : c \in Nat
    OBVIOUS
  <2> HIDE DEF t
  <2>2. /\ Len(u) = i + n /\ DOMAIN u = 1..(i + n)
        /\ \A j \in 1..(i + n) : u[j] = IF j <= i THEN s[j] ELSE t[j - i]
    BY <1>1, <2>1
  <2> DEFINE m == n
  <2> HIDE DEF u, i, n
  <2>3. i \in 1..(i + n) /\ u[i] = s[i]
    BY <1>1, <2>2
  <2>4. \A c \in 1..n : u[i + c] = ToolResult(c)
    <3> TAKE c \in 1..n
    <3>1. i + c \in 1..(i + n) /\ ~(i + c <= i) /\ (i + c) - i = c
      BY <1>1
    <3> QED BY <2>1, <2>2, <3>1
  <2>5. \A j \in (i + n + 1)..Len(u) : FALSE
    BY <1>1, <2>2
  <2>6. u[i].kind = "toolUse" /\ u[i].n = n /\ u[i].role = "assistant"
    BY <1>3, <2>3 DEF i, n
  <2>7. AnsweredAt(u, i)
    BY <1>1, <2>2, <2>4, <2>5, <2>6 DEF AnsweredAt
  <2> QED BY <2>2, <2>3, <2>7 DEF Answered
<1> QED BY <1>2, <1>3

(* Nothing that counts changed.                                              *)
LEMMA TurnedStays ==
  ASSUME NEW r, Turned(r), loop'[r].pc = loop[r].pc, loop'[r].ctx = loop[r].ctx,
         loop'[r].turns = loop[r].turns, Len(loop'[r].calls) = Len(loop[r].calls),
         loop'[r].aborted = loop[r].aborted \/ loop'[r].aborted,
         \A c \in Calls(r) : loop'[r].calls[c] = "new" => loop[r].calls[c] = "new"
  PROVE  Turned(r)'
<1>1. Calls(r)' = Calls(r) /\ Reply(r)' = Reply(r)
  BY DEF Calls, Reply
<1>2. NoneIs(r, {"new"}) => NoneIs(r, {"new"})'
  BY <1>1 DEF NoneIs
<1> QED BY <1>1, <1>2 DEF Turned

LEMMA TurnedLoop ==
  ASSUME LoopShape, NEW r \in Runs, Batch(r), Turned(r),
         LoopStep(r) \/ \E c \in Calls(r) : CallEnded(r, c)
  PROVE  Turned(r)'
<1>1. /\ LoopTypeOK /\ loop[r] \in LoopRecord /\ loop \in [Runs -> LoopRecord]
      /\ loop[r].ctx \in Seq(Messages) /\ loop[r].turns \in Nat
      /\ loop[r].aborted \in BOOLEAN /\ loop[r].term \in BOOLEAN
      /\ Len(loop[r].calls) \in Nat /\ Calls(r) = 1..Len(loop[r].calls)
      /\ loop[r].calls \in [1..Len(loop[r].calls) -> CallStatus]
  BY RecordFacts DEF LoopShape, LoopTypeOK, LoopRecord, Calls
<1>2. CASE Request(r)
  <2>1. /\ loop[r].pc = "stream" /\ loop'[r].pc = "waiting" /\ loop'[r].ctx = loop[r].ctx
        /\ loop'[r].turns = loop[r].turns /\ loop'[r].aborted = loop[r].aborted
    BY <1>1, <1>2 DEF Request, At, LoopRecord
  <2> QED BY <2>1 DEF Turned, Between, BatchStates
<1>3. CASE Respond(r)
  <2>1. PICK m \in Replies(r) :
          loop' = [loop EXCEPT ![r].pc = "replied", ![r].ctx = Append(@, m), ![r].turns = @ + 1]
    BY <1>3 DEF Respond
  <2>2. m.role = "assistant" /\ m \in Messages
    <3>1. \A n \in 1..MaxCalls : n \in Nat
      OBVIOUS
    <3> QED BY <2>1, <3>1, MessageTypes DEF Replies, Stops, AssistantMessage
  <2> DEFINE c == Append(loop[r].ctx, m)  n == loop[r].turns + 1
  <2>3. loop' = [loop EXCEPT ![r] = [loop[r] EXCEPT !.pc = "replied", !.ctx = c, !.turns = n]]
    BY <1>1, <2>1
  <2>4. c[Len(c)] = m
    BY <1>1, <2>2
  <2> HIDE DEF c, n
  <2>5. loop'[r].pc = "replied" /\ loop'[r].ctx = c
    BY <1>1, <2>3 DEF LoopRecord
  <2>6. Reply(r)'.role = "assistant"
    BY <2>2, <2>4, <2>5 DEF Reply
  <2> QED BY <2>5, <2>6 DEF Turned, Between, BatchStates
<1>4. CASE StopOnError(r) \/ LoopReturns(r)
  <2>1. loop'[r].pc \in {"ending", "returned"}
    BY <1>1, <1>4 DEF StopOnError, LoopReturns, LoopRecord
  <2> QED BY <2>1 DEF Turned, Between, BatchStates
<1>5. CASE EndTurnWithoutTools(r)
  <2>1. /\ loop[r].pc = "replied" /\ loop'[r].pc = "turnEnd" /\ loop'[r].ctx = loop[r].ctx
        /\ Reply(r).kind = "stop" /\ loop[r].ctx # <<>>
    BY <1>1, <1>5 DEF EndTurnWithoutTools, At, LoopRecord, LoopShape, Shape
  <2>2. Answered(loop[r].ctx)
    BY <1>1, <2>1, AnsweredAtEnd DEF Turned, Reply
  <2> QED BY <2>1, <2>2 DEF Turned, Between, BatchStates
<1>6. ASSUME NEW mode \in {"sequential", "parallel"}, ExecuteToolCalls(r, mode)
      PROVE  Turned(r)'
  <2> DEFINE cs == [c \in 1..Reply(r).n |-> "new"]
  <2>1. /\ loop'[r].pc = "tools" /\ loop'[r].calls = cs /\ loop'[r].ctx = loop[r].ctx
        /\ loop[r].pc = "replied"
    BY <1>1, <1>6 DEF ExecuteToolCalls, At, LoopRecord
  <2>2. Reply(r).n \in Nat
    <3>1. loop[r].ctx # <<>>
      BY <2>1 DEF LoopShape, Shape
    <3>2. Reply(r) \in Messages
      BY <1>1, <3>1 DEF Reply
    <3> QED BY <3>2 DEF Messages
  <2>3. Len(cs) = Reply(r).n
    BY <2>2
  <2> HIDE DEF cs
  <2> QED BY <2>1, <2>3 DEF Turned, Between, BatchStates, Reply
(* One call moves on.                                                        *)
<1>7. ASSUME NEW c \in Calls(r), NEW st \in CallStatus \ {"new"},
             loop'[r].calls = [loop[r].calls EXCEPT ![c] = st],
             loop'[r].pc = loop[r].pc, loop'[r].ctx = loop[r].ctx,
             loop'[r].turns = loop[r].turns, loop'[r].aborted = loop[r].aborted
      PROVE  Turned(r)'
  <2>1. Len(loop'[r].calls) = Len(loop[r].calls) /\ \A b \in Calls(r) :
          loop'[r].calls[b] = IF b = c THEN st ELSE loop[r].calls[b]
    BY <1>1, <1>7
  <2> QED BY <1>7, <2>1, TurnedStays
<1>8. ASSUME NEW c \in Calls(r),
             \/ StartCall(r, c) \/ RefuseCall(r, c) \/ PrepareCall(r, c)
             \/ FinishCall(r, c) \/ CallEnded(r, c)
      PROVE  Turned(r)'
  <2>1. PICK st \in CallStatus \ {"new"} : loop'[r].calls = [loop[r].calls EXCEPT ![c] = st]
    <3>1. CASE StartCall(r, c)
      <4>1. loop'[r].calls = [loop[r].calls EXCEPT ![c] = "started"]
        BY <1>1, <3>1 DEF StartCall, LoopRecord
      <4> QED BY <4>1 DEF CallStatus
    <3>2. CASE RefuseCall(r, c) \/ FinishCall(r, c)
      <4>1. loop'[r].calls = [loop[r].calls EXCEPT ![c] = "ending"]
        <5>1. CASE RefuseCall(r, c)
          BY <1>1, <5>1 DEF RefuseCall, LoopRecord
        <5>2. CASE FinishCall(r, c)
          BY <1>1, <5>2 DEF FinishCall, LoopRecord
        <5> QED BY <3>2, <5>1, <5>2
      <4> QED BY <4>1 DEF CallStatus
    <3>3. CASE PrepareCall(r, c)
      <4>1. loop'[r].calls = [loop[r].calls EXCEPT ![c] =
                                IF loop[r].mode = "sequential" THEN "running" ELSE "prepared"]
        BY <1>1, <3>3 DEF PrepareCall, LoopRecord
      <4> QED BY <4>1 DEF CallStatus
    <3>4. CASE CallEnded(r, c)
      <4>1. loop'[r].calls = [loop[r].calls EXCEPT ![c] = "done"]
        BY <1>1, <3>4 DEF CallEnded, LoopRecord
      <4> QED BY <4>1 DEF CallStatus
    <3> QED BY <1>8, <3>1, <3>2, <3>3, <3>4
  <2>2. /\ loop'[r].pc = loop[r].pc /\ loop'[r].ctx = loop[r].ctx
        /\ loop'[r].turns = loop[r].turns /\ loop'[r].aborted = loop[r].aborted
    BY <1>1, <1>8 DEF StartCall, RefuseCall, PrepareCall, FinishCall, CallEnded, LoopRecord
  <2> QED BY <1>7, <2>1, <2>2
<1>9. CASE LaunchCalls(r)
  <2> DEFINE cs == [c \in Calls(r) |->
                      IF loop[r].calls[c] = "prepared" THEN "running" ELSE loop[r].calls[c]]
  <2>1. /\ loop'[r].calls = cs /\ loop'[r].pc = "joining" /\ loop'[r].ctx = loop[r].ctx
        /\ loop[r].pc = "tools" /\ loop'[r].aborted = loop[r].aborted
        /\ With(r, {"new"}) = {} \/ loop[r].aborted
    BY <1>1, <1>9 DEF LaunchCalls, At, BatchCut, LoopRecord
  <2>2. Len(cs) = Len(loop[r].calls) /\ \A b \in 1..Len(loop[r].calls) :
          cs[b] = "new" <=> loop[r].calls[b] = "new"
    BY <1>1
  <2> HIDE DEF cs
  <2>3. ~loop'[r].aborted => NoneIs(r, {"new"})'
    BY <1>1, <2>1, <2>2 DEF NoneIs, With, Calls
  <2> QED BY <2>1, <2>2, <2>3 DEF Turned, Between, BatchStates, Reply
<1>10. CASE EndSequentialBatch(r)
  <2>1. /\ loop'[r].calls = loop[r].calls /\ loop'[r].pc = "batchEnd"
        /\ loop'[r].ctx = loop[r].ctx /\ loop[r].pc = "tools"
        /\ loop'[r].aborted = loop[r].aborted
        /\ With(r, {"new"}) = {} \/ loop[r].aborted
    BY <1>1, <1>10 DEF EndSequentialBatch, At, BatchCut, LoopRecord
  <2>2. ~loop'[r].aborted => NoneIs(r, {"new"})'
    BY <1>1, <2>1 DEF NoneIs, With, Calls
  <2> QED BY <2>1, <2>2 DEF Turned, Between, BatchStates, Reply
<1>11. CASE ReportResults(r)
  <2> DEFINE cs == [c \in Calls(r) |->
                      IF loop[r].calls[c] = "done" THEN "reported" ELSE loop[r].calls[c]]
  <2>1. /\ loop'[r].calls = cs /\ loop'[r].ctx = loop[r].ctx
        /\ \/ loop[r].pc = "joining" /\ loop'[r].pc = "batchEnd"
           \/ loop[r].pc = "tools" /\ loop'[r].pc = "tools"
        /\ loop'[r].aborted = loop[r].aborted
    BY <1>1, <1>11 DEF ReportResults, At, LoopRecord
  <2>2. Len(cs) = Len(loop[r].calls) /\ \A b \in 1..Len(loop[r].calls) :
          cs[b] = "new" <=> loop[r].calls[b] = "new"
    BY <1>1
  <2> HIDE DEF cs
  <2>3. NoneIs(r, {"new"}) => NoneIs(r, {"new"})'
    BY <1>1, <2>1, <2>2 DEF NoneIs, Calls
  <2> QED BY <2>1, <2>2, <2>3 DEF Turned, Between, BatchStates, Reply
<1>12. CASE EndBatch(r)
  <2> DEFINE k == Cardinality(With(r, {"reported"}))
             t == [c \in 1..k |-> ToolResult(c)]
             u == loop[r].ctx \o t
             b == ~loop[r].term
  <2>1. loop' = [loop EXCEPT ![r] = [loop[r] EXCEPT !.pc = "turnEnd", !.more = b, !.ctx = u,
                                                   !.calls = <<>>]]
    BY <1>1, <1>12 DEF EndBatch
  <2>2. loop[r].pc = "batchEnd" /\ loop[r].ctx # <<>> /\ Reply(r).kind = "toolUse"
        /\ Reply(r).role = "assistant" /\ Len(loop[r].calls) = Reply(r).n
    BY <1>12 DEF EndBatch, At, Batch, Asked, BatchStates, Turned
  <2>3. ASSUME ~loop[r].aborted PROVE k = Reply(r).n
    <3>1. \A c \in Calls(r) : loop[r].calls[c] = "reported"
      BY <1>1, <2>2, <2>3 DEF Turned, Batch, BatchOver, NoneIs
    <3>2. With(r, {"reported"}) = 1..Len(loop[r].calls)
      BY <1>1, <3>1 DEF With
    <3>3. \A n \in Nat : Cardinality(1..n) = n
      <4> TAKE n \in Nat
      <4>1. 1 \in Int /\ n \in Int
        OBVIOUS
      <4>2. Cardinality(1..n) = IF 1 > n THEN 0 ELSE n - 1 + 1
        BY <4>1, FS_Interval
      <4> QED BY <4>2
    <3> QED BY <1>1, <2>2, <3>2, <3>3
  <2>4. ASSUME ~loop[r].aborted PROVE Answered(u)
    <3>1. t = [c \in 1..Reply(r).n |-> ToolResult(c)]
      BY <2>3, <2>4
    <3> HIDE DEF t
    <3> QED BY <1>1, <2>2, <3>1, AnsweredAtEnd DEF Reply
  <2> HIDE DEF k, t, u, b
  <2>5. loop'[r].pc = "turnEnd" /\ loop'[r].ctx = u /\ loop'[r].aborted = loop[r].aborted
    BY <1>1, <2>1 DEF LoopRecord
  <2> QED BY <2>4, <2>5 DEF Turned, Between, BatchStates
<1> QED
  BY <1>2, <1>3, <1>4, <1>5, <1>6, <1>8, <1>9, <1>10, <1>11, <1>12 DEF LoopStep

LEMMA TurnedAnswers ==
  ASSUME LoopShape, NEW r \in Runs, Turned(r),
         \/ \E msgs \in Seq(Given) : SteeringPolled(r, msgs) \/ FollowUpPolled(r, msgs)
         \/ TurnPrepared(r, loop[r].ctx)
  PROVE  Turned(r)'
<1>1. /\ loop[r] \in LoopRecord /\ loop \in [Runs -> LoopRecord]
      /\ loop[r].ctx \in Seq(Messages)
  BY RecordFacts DEF LoopShape, LoopTypeOK
<1>2. ASSUME NEW msgs \in Seq(Given), EnterTurn(r, msgs), loop[r].pc \in {"steering", "followUp"}
      PROVE  Turned(r)'
  <2> DEFINE u == loop[r].ctx \o msgs
  <2>1. loop' = [loop EXCEPT ![r] = [loop[r] EXCEPT !.pc = "stream", !.first = FALSE, !.ctx = u]]
    BY <1>1, <1>2 DEF EnterTurn
  <2>2. Answered(loop[r].ctx) => Answered(u)
    BY <1>1, AnsweredGoesOn
  <2> HIDE DEF u
  <2>3. /\ loop'[r].pc = "stream" /\ loop'[r].ctx = u /\ loop'[r].turns = loop[r].turns
        /\ loop'[r].aborted = loop[r].aborted
    BY <1>1, <2>1 DEF LoopRecord
  <2> QED BY <1>2, <2>2, <2>3 DEF Turned, Between, BatchStates
<1>3. ASSUME NEW msgs \in Seq(Given), SteeringPolled(r, msgs) PROVE Turned(r)'
  <2>1. CASE EnterTurn(r, msgs)
    BY <1>2, <1>3, <2>1 DEF SteeringPolled, At
  <2>2. CASE ~EnterTurn(r, msgs)
    <3>1. /\ loop[r].pc = "steering" /\ loop'[r].pc = "followUp" /\ loop'[r].ctx = loop[r].ctx
          /\ loop'[r].turns = loop[r].turns /\ loop'[r].aborted = loop[r].aborted
      BY <1>1, <1>3, <2>2 DEF SteeringPolled, At, LoopRecord
    <3> QED BY <3>1 DEF Turned, Between, BatchStates
  <2> QED BY <2>1, <2>2
<1>4. ASSUME NEW msgs \in Seq(Given), FollowUpPolled(r, msgs) PROVE Turned(r)'
  <2>1. CASE EnterTurn(r, msgs)
    BY <1>2, <1>4, <2>1 DEF FollowUpPolled, At
  <2>2. CASE ~EnterTurn(r, msgs)
    <3>1. loop'[r].pc = "ending"
      BY <1>1, <1>4, <2>2 DEF FollowUpPolled, LoopRecord
    <3> QED BY <3>1 DEF Turned, Between, BatchStates
  <2> QED BY <2>1, <2>2
<1>5. CASE TurnPrepared(r, loop[r].ctx)
  <2>1. /\ loop[r].pc = "turnEnd" /\ loop'[r].pc = "steering" /\ loop'[r].ctx = loop[r].ctx
        /\ loop'[r].turns = loop[r].turns /\ loop'[r].aborted = loop[r].aborted
    BY <1>1, <1>5 DEF TurnPrepared, At, LoopRecord
  <2> QED BY <2>1 DEF Turned, Between, BatchStates
<1> QED BY <1>3, <1>4, <1>5

LEMMA TurnedStep ==
  ASSUME Steady, [Next]_vars, NEW q \in Runs, Turned(q)
  PROVE  Turned(q)'
<1>0. /\ LoopShape /\ LoopTypeOK /\ AgentTypes /\ Batch(q)
      /\ loop \in [Runs -> LoopRecord] /\ out \in [Runs -> Seq(Events)]
  BY DEF Steady, AgentTypes, LoopShape, LoopTypeOK
<1>1. ASSUME loop'[q] = loop[q] PROVE Turned(q)'
  BY <1>1, TurnedStays
<1>2. ASSUME NEW r \in Runs, Client(r) \/ RunStep(r) \/ Failure(r), r # q PROVE Turned(q)'
  BY <1>1, <1>2, OthersStay
<1>3. CASE Client(q)
  <2>1. PICK prompts \in Seq(Spoken) : StartRun(q, prompts)
    BY <1>0, <1>3, RunStartsSpoken
  <2>2. loop'[q].pc = "steering" /\ loop'[q].turns = 0
    BY <1>0, <2>1 DEF StartRun, RunAgentLoop, Unused
  <2> QED BY <2>2 DEF Turned, BatchStates
<1>4. CASE Failure(q)
  <2>1. loop'[q].pc \in {"failing", "dead"}
    BY <1>0, <1>4, FailureIs DEF FailsNow
  <2> QED BY <2>1 DEF Turned, Between, BatchStates
<1>5. CASE RunStep(q)
  <2>1. CASE LoopStep(q)
    BY <1>0, <2>1, TurnedLoop
  <2>2. CASE PollSteering(q) \/ PollFollowUps(q)
    <3>1. PICK msgs \in Seq(Given) : SteeringPolled(q, msgs) \/ FollowUpPolled(q, msgs)
      BY <1>0, <2>2, PollsType
    <3> QED BY <1>0, <3>1, TurnedAnswers
  <2>3. CASE PrepareNextTurn(q)
    BY <1>0, <2>3, TurnedAnswers DEF PrepareNextTurn
  <2>4. CASE HandleEvent(q)
    BY <1>1, <2>4 DEF HandleEvent
  <2>5. CASE \E c \in Calls(q) : EndCall(q, c)
    BY <1>0, <2>5, TurnedLoop DEF EndCall
  <2>6. CASE FinishRun(q)
    <3>1. loop'[q].pc = "dead"
      BY <1>0, <2>6 DEF FinishRun, LeaveRun, Unused
    <3> QED BY <3>1 DEF Turned, Between, BatchStates
  <2> QED BY <1>5, <2>1, <2>2, <2>3, <2>4, <2>5, <2>6 DEF RunStep
<1>6. CASE Abort
  <2>1. /\ loop'[q].pc = loop[q].pc /\ loop'[q].ctx = loop[q].ctx
        /\ loop'[q].turns = loop[q].turns /\ loop'[q].calls = loop[q].calls
        /\ loop'[q].aborted = loop[q].aborted \/ loop'[q].aborted
    BY <1>0, <1>6 DEF Abort, AgentTypes, LoopRecord
  <2> QED BY <2>1, TurnedStays
<1>7. CASE UNCHANGED vars \/ Steer \/ FollowUp \/ ClearAllQueues \/ Reset
  BY <1>1, <1>7 DEF vars, Steer, SteerWith, FollowUp, ClearAllQueues, Reset
<1> QED
  <2>1. ASSUME NEW r \in Runs, Client(r) \/ RunStep(r) \/ Failure(r) PROVE Turned(q)'
    BY <1>2, <1>3, <1>4, <1>5, <2>1
  <2> QED BY <1>6, <1>7, <2>1 DEF Next

IsTurned == \A r \in Runs : Turned(r)

LEMMA TurnedAlways == Spec => [](Steady /\ IsTurned)
<1>1. Init => IsTurned
  BY DEF IsTurned, Init, LoopInit, Unused, Turned, Between, BatchStates
<1>2. Steady /\ IsTurned /\ [Next]_vars => Steady' /\ IsTurned'
  BY SteadyStep, TurnedStep DEF IsTurned
<1> QED BY <1>1, <1>2, SteadyInit, PTL DEF Spec

LEMMA TurnedGives == Steady /\ IsTurned => CallsAnswered
<1> SUFFICES ASSUME Steady, IsTurned, NEW r \in Runs,
                    loop[r].pc = "waiting", loop[r].turns > 0, ~loop[r].aborted
             PROVE  LET ctx == loop[r].ctx
                        i == LastAssistant(ctx)
                        n == IF ctx[i].kind = "toolUse" THEN ctx[i].n ELSE 0
                    IN  /\ Len(ctx) >= i + n
                        /\ \A c \in 1..n : ctx[i + c] = ToolResult(c)
                        /\ \A j \in (i + n + 1)..Len(ctx) : ctx[j].role = "user"
  BY DEF CallsAnswered
<1>1. loop[r].ctx \in Seq(Messages)
  BY RecordFacts DEF Steady, AgentTypes, LoopShape
<1>2. Answered(loop[r].ctx)
  BY DEF IsTurned, Turned, Between
<1>3. PICK i \in DOMAIN loop[r].ctx : AnsweredAt(loop[r].ctx, i)
  BY <1>2 DEF Answered
<1>4. LastAssistant(loop[r].ctx) = i
  BY <1>1, <1>3, LastIsAnswered
<1> QED BY <1>3, <1>4 DEF AnsweredAt

(* A request leaves no tool call open: unless the run was aborted, the       *)
(* results of its last calls follow them, one each and in the order of the   *)
(* calls, whatever order the tools finished in and whichever mode they ran   *)
(* in.                                                                       *)
THEOREM CallsAreAnswered == Spec => []CallsAnswered
BY TurnedAlways, TurnedGives, PTL

-----------------------------------------------------------------------------
(* The events of calls and of the end of a run, among the others.            *)

Plain(s) == \A i \in 1..Len(s) : s[i].type \notin {"tool_execution_start", "agent_end"}

(* The start of a call is announced alone, while the call has only started,  *)
(* and the end of a run last of all.                                         *)
Order(r) ==
  \A i \in 1..Len(out[r]) :
    /\ out[r][i].type = "tool_execution_start" =>
         Len(out[r]) = 1 /\ out[r][i].call \in With(r, {"started"})
    /\ out[r][i].type = "agent_end" => i = Len(out[r])

(* Calls are started one at a time.                                          *)
OneBusy(r) == loop[r].pc = "tools" => \A b, c \in Busy(r) : b = c

Starts(r) == Order(r) /\ OneBusy(r)

Open == {"started", "prepared", "running", "ending"}

LEMMA PlainMessages ==
  ASSUME NEW msgs \in Seq(Messages)
  PROVE  /\ Plain(MessageEvents(msgs))
         /\ Plain(<<Event("turn_start")>> \o MessageEvents(msgs))
<1> DEFINE s == MessageEvents(msgs)
           h == <<Event("turn_start")>>
<1>1. \A i \in 1..(2 * Len(msgs)) : s[i] =
        MessageEvent(IF i % 2 = 1 THEN "message_start" ELSE "message_end", msgs[(i + 1) \div 2])
  BY MessageEventsAre
<1>2. s \in Seq(Events) /\ Len(s) = 2 * Len(msgs)
  BY MessageEventsAre
<1> HIDE DEF s
<1>3. Plain(s)
  BY <1>1, <1>2 DEF Plain, MessageEvent
<1>4. h \in Seq(Events) /\ Len(h) = 1 /\ Plain(h)
  <2>1. Event("turn_start") \in Events
    BY EventShapes DEF EventTypes
  <2> QED BY <2>1 DEF Plain, Event
<1> HIDE DEF h
<1>5. Plain(h \o s)
  <2>1. /\ Len(s) \in Nat /\ Len(h \o s) = 1 + Len(s)
        /\ \A i \in 1..(1 + Len(s)) : (h \o s)[i] = IF i <= 1 THEN h[i] ELSE s[i - 1]
    <3>1. Len(s) \in Nat
      BY <1>2
    <3>2. Len(h \o s) = Len(h) + Len(s)
          /\ \A i \in 1..(Len(h) + Len(s)) : (h \o s)[i] = IF i <= Len(h) THEN h[i] ELSE s[i - Len(h)]
      BY <1>2, <1>4, ConcatProperties
    <3> QED BY <1>4, <3>1, <3>2
  <2>2. \A i \in 1..(1 + Len(s)) : IF i <= 1 THEN i \in 1..Len(h) ELSE i - 1 \in 1..Len(s)
    BY <1>4, <2>1
  <2> QED BY <1>3, <1>4, <2>1, <2>2 DEF Plain
<1> QED BY <1>3, <1>5 DEF s, h

LEMMA PlainOrder ==
  ASSUME NEW r, out'[r] \in Seq(Events), Plain(out'[r])
  PROVE  Order(r)' /\ Announced(r)' = {}
<1>1. Order(r)'
  BY DEF Plain, Order
<1>2. ASSUME out'[r] # <<>>, out'[r][1].type = "tool_execution_start"
      PROVE  FALSE
  <2>1. 1 \in 1..Len(out'[r])
    BY <1>2
  <2> QED BY <1>2, <2>1 DEF Plain
<1>3. Announced(r)' = {}
  BY <1>2 DEF Announced
<1> QED BY <1>1, <1>3

(* Nothing is announced, or what was, and the calls of the run have not      *)
(* moved.                                                                    *)
LEMMA OrderKept ==
  ASSUME NEW r, Order(r), out'[r] = out[r],
         out[r] = <<>> \/ \A c \in With(r, {"started"}) : c \in With(r, {"started"})'
  PROVE  Order(r)' /\ Announced(r)' = Announced(r)
<1>1. Announced(r)' = Announced(r)
  BY DEF Announced
<1>2. CASE out[r] = <<>>
  <2>1. \A i \in 1..Len(out'[r]) : FALSE
    BY <1>2
  <2> QED BY <1>1, <2>1 DEF Order
<1>3. CASE \A c \in With(r, {"started"}) : c \in With(r, {"started"})'
  BY <1>1, <1>3 DEF Order
<1> QED BY <1>2, <1>3

(* One call of a batch moves on.                                             *)
LEMMA CallMoves ==
  ASSUME LoopTypeOK, NEW r \in Runs, NEW c \in Calls(r), NEW st \in CallStatus,
         loop'[r].calls = [loop[r].calls EXCEPT ![c] = st]
  PROVE  /\ With(r, Open)' = IF st \in Open THEN With(r, Open) \cup {c} ELSE With(r, Open) \ {c}
         /\ With(r, {"started"})' = IF st = "started" THEN With(r, {"started"}) \cup {c}
                                    ELSE With(r, {"started"}) \ {c}
         /\ Busy(r)' = IF st \in {"started", "running", "ending"} THEN Busy(r) \cup {c}
                       ELSE Busy(r) \ {c}
<1>1. /\ Len(loop[r].calls) \in Nat /\ Calls(r) = 1..Len(loop[r].calls)
      /\ loop[r].calls \in [1..Len(loop[r].calls) -> CallStatus]
  BY RecordFacts DEF LoopTypeOK, LoopRecord, Calls
<1>2. Calls(r)' = Calls(r) /\ \A b \in Calls(r) :
        loop'[r].calls[b] = IF b = c THEN st ELSE loop[r].calls[b]
  BY <1>1 DEF Calls
<1>3. With(r, Open)' = IF st \in Open THEN With(r, Open) \cup {c} ELSE With(r, Open) \ {c}
  BY <1>2 DEF With
<1>4. With(r, {"started"})' = IF st = "started" THEN With(r, {"started"}) \cup {c}
                             ELSE With(r, {"started"}) \ {c}
  BY <1>2 DEF With
<1>5. Busy(r)' = IF st \in {"started", "running", "ending"} THEN Busy(r) \cup {c}
                ELSE Busy(r) \ {c}
  BY <1>2 DEF With, Busy
<1> QED BY <1>3, <1>4, <1>5

(* The statuses the open calls are in, after a step of the loop.             *)
OpenCalls(r) ==
  \/ /\ out[r] = <<>> /\ \E c \in Calls(r) : /\ c \notin With(r, Open)
                                            /\ With(r, Open)' = With(r, Open) \cup {c}
                                            /\ out'[r] = <<CallEvent("tool_execution_start", c)>>
  \/ With(r, Open)' = With(r, Open) /\ Announced(r)' = Announced(r)
  \/ With(r, Open)' = {} /\ With(r, Open) = {}

LEMMA NoneOpen ==
  ASSUME NEW r
  PROVE  /\ loop[r].calls = <<>> => With(r, Open) = {} /\ Busy(r) = {}
         /\ loop'[r].calls = <<>> => With(r, Open)' = {} /\ Busy(r)' = {}
<1>1. ASSUME loop[r].calls = <<>> PROVE With(r, Open) = {} /\ Busy(r) = {}
  <2>1. \A c \in Calls(r) : FALSE
    BY <1>1 DEF Calls
  <2> QED BY <2>1 DEF With, Busy
<1>2. ASSUME loop'[r].calls = <<>> PROVE With(r, Open)' = {} /\ Busy(r)' = {}
  <2>1. \A c \in Calls(r)' : FALSE
    BY <1>2 DEF Calls
  <2> QED BY <2>1 DEF With, Busy
<1> QED BY <1>1, <1>2

LEMMA LoopStepOpens ==
  ASSUME LoopShape, NEW r \in Runs, Batch(r), Starts(r), LoopStep(r)
  PROVE  Starts(r)' /\ OpenCalls(r)
<1>1. /\ LoopTypeOK /\ loop[r] \in LoopRecord /\ loop \in [Runs -> LoopRecord]
      /\ out \in [Runs -> Seq(Events)] /\ out[r] \in Seq(Events)
      /\ Len(loop[r].calls) \in Nat /\ Calls(r) = 1..Len(loop[r].calls)
      /\ loop[r].calls \in [1..Len(loop[r].calls) -> CallStatus]
      /\ Order(r)
  BY RecordFacts DEF LoopShape, LoopTypeOK, LoopRecord, Calls, Starts
<1>2. loop[r].pc \notin BatchStates \cup {"failing", "dead"} => loop[r].calls = <<>>
  BY DEF Batch, NoCalls
(* Outside of a batch there are no calls.                                    *)
<1>3. ASSUME loop[r].calls = <<>>, loop'[r].calls = <<>>, Order(r)' PROVE Starts(r)' /\ OpenCalls(r)
  <2>1. With(r, Open) = {} /\ With(r, Open)' = {} /\ Busy(r)' = {}
    BY <1>3, NoneOpen
  <2>2. OneBusy(r)'
    BY <2>1 DEF OneBusy
  <2> QED BY <1>3, <2>1, <2>2 DEF Starts, OpenCalls
<1>4. CASE Request(r) \/ LoopReturns(r)
  <2>1. /\ loop[r].pc \in {"stream", "ending"} /\ loop'[r].calls = loop[r].calls
        /\ out[r] = <<>> /\ out'[r] = out[r]
    BY <1>1, <1>4 DEF Request, LoopReturns, At, Awaited, LoopRecord
  <2> QED BY <1>1, <1>2, <1>3, <2>1, OrderKept DEF BatchStates
<1>5. CASE Respond(r)
  <2>1. PICK m \in Replies(r) :
          /\ loop' = [loop EXCEPT ![r].pc = "replied", ![r].ctx = Append(@, m),
                                  ![r].turns = @ + 1]
          /\ out' = [out EXCEPT ![r] = MessageEvents(<<m>>)]
    BY <1>5 DEF Respond
  <2>2. m \in Messages
    <3>1. \A n \in 1..MaxCalls : n \in Nat
      OBVIOUS
    <3> QED BY <2>1, <3>1, MessageTypes DEF Replies, Stops
  <2>3. <<m>> \in Seq(Messages)
    BY <2>2
  <2> DEFINE c == Append(loop[r].ctx, m)  n == loop[r].turns + 1
  <2>4. loop' = [loop EXCEPT ![r] = [loop[r] EXCEPT !.pc = "replied", !.ctx = c, !.turns = n]]
    BY <1>1, <2>1
  <2> HIDE DEF c, n
  <2>5. loop[r].pc = "waiting" /\ loop'[r].calls = loop[r].calls
        /\ out'[r] = MessageEvents(<<m>>)
    BY <1>1, <1>5, <2>1, <2>4 DEF Respond, At, LoopRecord
  <2>6. Order(r)'
    BY <2>3, <2>5, PlainMessages, MessageEventsAre, PlainOrder
  <2> QED BY <1>2, <1>3, <2>5, <2>6 DEF BatchStates
<1>6. CASE StopOnError(r)
  <2>1. loop[r].pc = "replied" /\ loop'[r].calls = loop[r].calls
        /\ out'[r] = <<Event("turn_end"), Event("agent_end")>>
    BY <1>1, <1>6 DEF StopOnError, At, LoopRecord
  <2>2. Order(r)'
    BY <2>1 DEF Order, Event
  <2> QED BY <1>2, <1>3, <2>1, <2>2 DEF BatchStates
<1>7. CASE EndTurnWithoutTools(r)
  <2>1. loop[r].pc = "replied" /\ loop'[r].calls = loop[r].calls
        /\ out'[r] = <<Event("turn_end")>>
    BY <1>1, <1>7 DEF EndTurnWithoutTools, At, LoopRecord
  <2>2. Order(r)'
    BY <2>1 DEF Order, Event
  <2> QED BY <1>2, <1>3, <2>1, <2>2 DEF BatchStates
<1>8. CASE EndBatch(r)
  <2>1. loop[r].pc = "batchEnd" /\ loop'[r].calls = <<>> /\ loop'[r].pc = "turnEnd"
        /\ out'[r] = <<Event("turn_end")>>
    BY <1>1, <1>8 DEF EndBatch, At, LoopRecord
  <2>2. Order(r)'
    BY <2>1 DEF Order, Event
  <2>3. \A c \in Calls(r) : loop[r].calls[c] \in {"new", "reported"}
    BY <1>1, <2>1 DEF Batch, BatchOver, NoneIs
  <2>5. With(r, Open) = {}
    BY <2>3 DEF With, Open
  <2>4. With(r, Open) = {} /\ With(r, Open)' = {}
    BY <2>1, <2>5, NoneOpen
  <2> QED BY <2>1, <2>2, <2>4 DEF Starts, OneBusy, OpenCalls
<1>9. ASSUME NEW mode \in {"sequential", "parallel"}, ExecuteToolCalls(r, mode)
      PROVE  Starts(r)' /\ OpenCalls(r)
  <2> DEFINE cs == [c \in 1..Reply(r).n |-> "new"]
  <2>1. /\ loop'[r].calls = cs /\ loop[r].pc = "replied" /\ out[r] = <<>> /\ out'[r] = out[r]
    BY <1>1, <1>9 DEF ExecuteToolCalls, At, Awaited, LoopRecord
  <2>2. Reply(r).n \in Nat
    <3>1. loop[r].ctx # <<>>
      BY <2>1 DEF LoopShape, Shape
    <3>2. Reply(r) \in Messages
      BY <1>1, <3>1 DEF Reply, LoopRecord
    <3> QED BY <3>2 DEF Messages
  <2>3. Len(cs) = Reply(r).n /\ \A c \in 1..Len(cs) : cs[c] = "new"
    BY <2>2
  <2> HIDE DEF cs
  <2>4. With(r, Open)' = {} /\ Busy(r)' = {}
    BY <2>1, <2>3 DEF With, Open, Calls, Busy
  <2>5. With(r, Open) = {}
    BY <1>2, <2>1, NoneOpen DEF BatchStates
  <2>6. Order(r)'
    BY <1>1, <2>1, OrderKept
  <2> QED BY <2>4, <2>5, <2>6 DEF Starts, OneBusy, OpenCalls
<1>10. ASSUME NEW c \in Calls(r), StartCall(r, c) PROVE Starts(r)' /\ OpenCalls(r)
  <2>1. /\ loop'[r].calls = [loop[r].calls EXCEPT ![c] = "started"]
        /\ loop[r].calls[c] = "new" /\ out[r] = <<>> /\ Busy(r) = {}
        /\ out'[r] = <<CallEvent("tool_execution_start", c)>>
    BY <1>1, <1>10 DEF StartCall, At, Awaited, With, LoopRecord
  <2>2. /\ With(r, Open)' = With(r, Open) \cup {c} /\ With(r, {"started"})' = With(r, {"started"}) \cup {c}
        /\ Busy(r)' = {c} /\ c \notin With(r, Open)
    <3>1. "started" \in CallStatus /\ "started" \in Open
      BY DEF CallStatus, Open
    <3>2. c \notin With(r, Open)
      BY <2>1 DEF With, Open
    <3>3. /\ With(r, Open)' = With(r, Open) \cup {c}
          /\ With(r, {"started"})' = With(r, {"started"}) \cup {c}
          /\ Busy(r)' = Busy(r) \cup {c}
      BY <1>1, <2>1, <3>1, CallMoves
    <3>4. Busy(r)' = {c}
      BY <2>1, <3>3
    <3> QED BY <3>2, <3>3, <3>4
  <2>3. Order(r)'
    BY <2>1, <2>2 DEF Order, CallEvent
  <2>4. OneBusy(r)'
    BY <2>2 DEF OneBusy
  <2> QED BY <2>1, <2>2, <2>3, <2>4 DEF Starts, OpenCalls
<1>11. ASSUME NEW c \in Calls(r), NEW st \in Open, loop[r].calls[c] \in {"started", "running"},
              loop'[r].calls = [loop[r].calls EXCEPT ![c] = st], loop'[r].pc = loop[r].pc,
              out'[r] = out[r], out[r] = <<>> \/ loop[r].calls[c] # "started"
       PROVE  Starts(r)' /\ OpenCalls(r)
  <2>0. st \in CallStatus
    BY DEF Open, CallStatus
  <2>1. /\ With(r, Open)' = With(r, Open) \cup {c}
        /\ With(r, {"started"})' = With(r, {"started"}) \cup {c}
             \/ With(r, {"started"})' = With(r, {"started"}) \ {c}
        /\ Busy(r)' = Busy(r) \cup {c} \/ Busy(r)' = Busy(r) \ {c}
    BY <1>1, <1>11, <2>0, CallMoves
  <2>2. c \in With(r, Open) /\ c \in Busy(r)
    BY <1>11 DEF With, Open, Busy
  <2>3. out[r] = <<>> \/ \A b \in With(r, {"started"}) : b \in With(r, {"started"})'
    BY <1>11, <2>1 DEF With
  <2>4. Order(r)' /\ Announced(r)' = Announced(r)
    BY <1>1, <1>11, <2>3, OrderKept
  <2>5. OneBusy(r)'
    BY <1>11, <2>1, <2>2 DEF Starts, OneBusy
  <2> QED BY <2>1, <2>2, <2>4, <2>5 DEF Starts, OpenCalls
<1>12. ASSUME NEW c \in Calls(r), RefuseCall(r, c) \/ PrepareCall(r, c) \/ FinishCall(r, c)
       PROVE  Starts(r)' /\ OpenCalls(r)
  <2>1. PICK st \in Open : loop'[r].calls = [loop[r].calls EXCEPT ![c] = st]
    <3>1. CASE RefuseCall(r, c)
      <4>1. loop'[r].calls = [loop[r].calls EXCEPT ![c] = "ending"]
        BY <1>1, <3>1 DEF RefuseCall, LoopRecord
      <4> QED BY <4>1 DEF Open
    <3>2. CASE FinishCall(r, c)
      <4>1. loop'[r].calls = [loop[r].calls EXCEPT ![c] = "ending"]
        BY <1>1, <3>2 DEF FinishCall, LoopRecord
      <4> QED BY <4>1 DEF Open
    <3>3. CASE PrepareCall(r, c)
      <4>1. loop'[r].calls = [loop[r].calls EXCEPT ![c] =
                                IF loop[r].mode = "sequential" THEN "running" ELSE "prepared"]
        BY <1>1, <3>3 DEF PrepareCall, LoopRecord
      <4> QED BY <4>1 DEF Open
    <3> QED BY <1>12, <3>1, <3>2, <3>3
  <2>2. /\ loop'[r].pc = loop[r].pc /\ out'[r] = out[r]
        /\ loop[r].calls[c] \in {"started", "running"}
        /\ out[r] = <<>> \/ loop[r].calls[c] # "started"
    BY <1>1, <1>12 DEF RefuseCall, PrepareCall, FinishCall, At, Awaited, With, LoopRecord
  <2> QED BY <1>11, <2>1, <2>2
<1>13. CASE LaunchCalls(r)
  <2> DEFINE cs == [c \in Calls(r) |->
                      IF loop[r].calls[c] = "prepared" THEN "running" ELSE loop[r].calls[c]]
  <2>1. /\ loop'[r].calls = cs /\ loop'[r].pc = "joining" /\ out[r] = <<>> /\ out'[r] = out[r]
    BY <1>1, <1>13 DEF LaunchCalls, At, Awaited, LoopRecord
  <2>2. Len(cs) = Len(loop[r].calls) /\ \A b \in 1..Len(loop[r].calls) :
          cs[b] \in Open <=> loop[r].calls[b] \in Open
    BY <1>1 DEF Open
  <2> HIDE DEF cs
  <2>3. With(r, Open)' = With(r, Open)
    BY <1>1, <2>1, <2>2 DEF With, Calls
  <2>4. Order(r)' /\ Announced(r)' = Announced(r)
    BY <1>1, <2>1, OrderKept
  <2> QED BY <2>1, <2>3, <2>4 DEF Starts, OneBusy, OpenCalls
<1>14. CASE EndSequentialBatch(r)
  <2>1. loop'[r].calls = loop[r].calls /\ loop'[r].pc = "batchEnd" /\ out[r] = <<>>
        /\ out'[r] = out[r]
    BY <1>1, <1>14 DEF EndSequentialBatch, At, Awaited, LoopRecord
  <2>2. With(r, Open)' = With(r, Open)
    BY <2>1 DEF With, Calls
  <2>3. Order(r)' /\ Announced(r)' = Announced(r)
    BY <1>1, <2>1, OrderKept
  <2> QED BY <2>1, <2>2, <2>3 DEF Starts, OneBusy, OpenCalls
<1>15. CASE ReportResults(r)
  <2> DEFINE cs == [c \in Calls(r) |->
                      IF loop[r].calls[c] = "done" THEN "reported" ELSE loop[r].calls[c]]
             done == With(r, {"done"})
  <2>1. /\ loop'[r].calls = cs /\ out[r] = <<>> /\ out'[r] = MessageEvents(Reports(done))
        /\ loop'[r].pc = "tools" => loop[r].pc = "tools"
    BY <1>1, <1>15 DEF ReportResults, At, Awaited, LoopRecord, Reports
  <2>2. Len(cs) = Len(loop[r].calls) /\ \A b \in 1..Len(loop[r].calls) :
          /\ cs[b] \in Open <=> loop[r].calls[b] \in Open
          /\ \A statuses \in {{"started", "running", "ending"}} :
               cs[b] \in statuses <=> loop[r].calls[b] \in statuses
    BY <1>1 DEF Open
  <2> HIDE DEF cs
  <2>3. With(r, Open)' = With(r, Open) /\ Busy(r)' = Busy(r)
    BY <1>1, <2>1, <2>2 DEF With, Calls, Busy
  <2>4. Reports(done) \in Seq(Messages)
    <3>1. done \in SUBSET (1..Len(loop[r].calls))
      BY <1>1 DEF With
    <3> HIDE DEF done
    <3> QED BY <1>1, <3>1, ReportsType
  <2>5. Order(r)' /\ Announced(r)' = {}
    BY <2>1, <2>4, PlainMessages, MessageEventsAre, PlainOrder
  <2>6. Announced(r) = {}
    BY <2>1 DEF Announced
  <2> QED BY <2>1, <2>3, <2>5, <2>6 DEF Starts, OneBusy, OpenCalls
<1> QED BY <1>4, <1>5, <1>6, <1>7, <1>8, <1>9, <1>10, <1>12, <1>13, <1>14, <1>15 DEF LoopStep

LEMMA CallEndedOpens ==
  ASSUME LoopShape, NEW r \in Runs, Starts(r), NEW c \in Calls(r), CallEnded(r, c)
  PROVE  /\ Starts(r)' /\ Announced(r)' = Announced(r)
         /\ With(r, Open)' = With(r, Open) \ {c}
<1>1. /\ LoopTypeOK /\ loop[r] \in LoopRecord /\ loop \in [Runs -> LoopRecord]
  BY RecordFacts DEF LoopShape, LoopTypeOK
<1>2. /\ loop'[r].calls = [loop[r].calls EXCEPT ![c] = "done"] /\ loop'[r].pc = loop[r].pc
      /\ out' = out /\ loop[r].calls[c] = "ending"
  BY <1>1 DEF CallEnded, With, LoopRecord
<1>3. /\ "done" \in CallStatus /\ "done" \notin Open /\ "done" # "started"
      /\ "done" \notin {"started", "running", "ending"}
  BY DEF CallStatus, Open
<1>4. /\ With(r, Open)' = With(r, Open) \ {c}
      /\ With(r, {"started"})' = With(r, {"started"}) \ {c}
      /\ Busy(r)' = Busy(r) \ {c}
  BY <1>1, <1>2, <1>3, CallMoves
<1>5. \A b \in With(r, {"started"}) : b \in With(r, {"started"})'
  BY <1>2, <1>4 DEF With
<1>6. Order(r)' /\ Announced(r)' = Announced(r)
  BY <1>2, <1>5, OrderKept DEF Starts
<1>7. OneBusy(r)'
  BY <1>2, <1>4 DEF Starts, OneBusy
<1> QED BY <1>4, <1>6, <1>7 DEF Starts

LEMMA FailureOrder ==
  ASSUME NEW r \in Runs, out'[r] = FailureEvents(r) \/ out'[r] = <<>>
  PROVE  Order(r)' /\ Announced(r)' = {}
<1> DEFINE m == FailureMessage(r)
           s == FailureEvents(r)
<1>1. s = <<MessageEvent("message_start", m), MessageEvent("message_end", m),
            Event("turn_end"), Event("agent_end")>>
  <2>1. MessageEvents(<<m>>) = <<MessageEvent("message_start", m), MessageEvent("message_end", m)>>
    BY EventsOfOne
  <2>2. s = MessageEvents(<<m>>) \o <<Event("turn_end"), Event("agent_end")>>
    BY DEF FailureEvents
  <2>3. \A a, b, c, d : <<a, b>> \o <<c, d>> = <<a, b, c, d>>
    <3> TAKE a, b, c, d
    <3> DEFINE S == {a, b, c, d}  u == <<a, b>>  v == <<c, d>>  w == <<a, b, c, d>>
    <3>1. /\ u \in Seq(S) /\ Len(u) = 2 /\ u[1] = a /\ u[2] = b
          /\ v \in Seq(S) /\ Len(v) = 2 /\ v[1] = c /\ v[2] = d
          /\ w \in Seq(S) /\ Len(w) = 4 /\ w[1] = a /\ w[2] = b /\ w[3] = c /\ w[4] = d
      OBVIOUS
    <3> HIDE DEF S, u, v, w
    <3>2. /\ u \o v \in Seq(S) /\ Len(u \o v) = 4
          /\ \A i \in 1..4 : (u \o v)[i] = IF i <= 2 THEN u[i] ELSE v[i - 2]
      <4>1. u \o v \in Seq(S) /\ Len(u \o v) = Len(u) + Len(v)
        BY <3>1, ConcatProperties
      <4>2. \A i \in 1..(Len(u) + Len(v)) :
              (u \o v)[i] = IF i <= Len(u) THEN u[i] ELSE v[i - Len(u)]
        BY <3>1, ConcatProperties
      <4>3. Len(u) + Len(v) = 4
        BY <3>1
      <4> QED BY <3>1, <4>1, <4>2, <4>3
    <3>3. \A i \in 1..4 : i = 1 \/ i = 2 \/ i = 3 \/ i = 4
      OBVIOUS
    <3>4. \A i \in 1..4 : (u \o v)[i] = w[i]
      BY <3>1, <3>2, <3>3
    <3>5. u \o v = w
      BY <3>1, <3>2, <3>4, SeqEqual
    <3> QED BY <3>5 DEF u, v, w
  <2> DEFINE a == MessageEvent("message_start", m)  b == MessageEvent("message_end", m)
             c == Event("turn_end")  d == Event("agent_end")
  <2>4. s = <<a, b>> \o <<c, d>>
    BY <2>1, <2>2
  <2> HIDE DEF s, a, b, c, d
  <2>5. s = <<a, b, c, d>>
    BY <2>3, <2>4
  <2> QED BY <2>5 DEF a, b, c, d
<1> HIDE DEF s
<1>2. Len(s) = 4 /\ s[1].type = "message_start" /\ s[2].type = "message_end"
      /\ s[3].type = "turn_end" /\ s[4].type = "agent_end"
  BY <1>1 DEF MessageEvent, Event
<1>3. \A i \in 1..4 : i = 1 \/ i = 2 \/ i = 3 \/ i = 4
  OBVIOUS
<1>4. CASE out'[r] = s
  BY <1>2, <1>3, <1>4 DEF Order, Announced
<1>5. CASE out'[r] = <<>>
  BY <1>5 DEF Order, Announced
<1> QED BY <1>4, <1>5 DEF s

LEMMA HandledOrder ==
  ASSUME NEW r, Order(r), out[r] \in Seq(Events), out[r] # <<>>, out'[r] = Tail(out[r]),
         loop'[r] = loop[r]
  PROVE  Order(r)' /\ Announced(r)' = {}
<1>1. /\ Tail(out[r]) \in Seq(Events) /\ Len(Tail(out[r])) = Len(out[r]) - 1
      /\ \A i \in 1..Len(Tail(out[r])) : Tail(out[r])[i] = out[r][i + 1]
      /\ Len(out[r]) \in Nat
  BY HeadTailProperties, LenProperties
<1>2. ASSUME NEW i \in 1..Len(out'[r])
      PROVE  /\ out'[r][i].type # "tool_execution_start"
             /\ out'[r][i].type = "agent_end" => i = Len(out'[r])
  <2>1. i + 1 \in 1..Len(out[r]) /\ out'[r][i] = out[r][i + 1]
    BY <1>1
  <2>2. out[r][i + 1].type = "tool_execution_start" => Len(out[r]) = 1
    BY <2>1 DEF Order
  <2>3. out[r][i + 1].type = "agent_end" => i + 1 = Len(out[r])
    BY <2>1 DEF Order
  <2> QED BY <1>1, <2>1, <2>2, <2>3
<1>3. out'[r] # <<>> => 1 \in 1..Len(out'[r])
  BY <1>1
<1> QED BY <1>2, <1>3 DEF Order, Announced

(* The answers to the loop.                                                  *)
LEMMA AnswersOpen ==
  ASSUME LoopShape, NEW r \in Runs, Batch(r), Starts(r),
         \/ \E msgs \in Seq(Spoken) : SteeringPolled(r, msgs) \/ FollowUpPolled(r, msgs)
         \/ TurnPrepared(r, loop[r].ctx)
  PROVE  Starts(r)' /\ With(r, Open) = {} /\ With(r, Open)' = {}
<1>1. /\ LoopTypeOK /\ loop[r] \in LoopRecord /\ loop \in [Runs -> LoopRecord]
      /\ out \in [Runs -> Seq(Events)] /\ Order(r)
  BY RecordFacts DEF LoopShape, LoopTypeOK, Starts
<1>2. loop[r].pc \in {"steering", "followUp", "turnEnd"} /\ out[r] = <<>> /\ loop[r].calls = <<>>
  BY DEF SteeringPolled, FollowUpPolled, TurnPrepared, At, Awaited, Batch, NoCalls, BatchStates
<1>3. ASSUME loop'[r].calls = loop[r].calls, Order(r)'
      PROVE  Starts(r)' /\ With(r, Open) = {} /\ With(r, Open)' = {}
  BY <1>2, <1>3, NoneOpen DEF Starts, OneBusy
<1>4. ASSUME NEW msgs \in Seq(Spoken), EnterTurn(r, msgs)
      PROVE  loop'[r].calls = loop[r].calls /\ Order(r)'
  <2> DEFINE u == loop[r].ctx \o msgs  s == MessageEvents(msgs)
  <2>1. loop' = [loop EXCEPT ![r] = [loop[r] EXCEPT !.pc = "stream", !.first = FALSE, !.ctx = u]]
    BY <1>1, <1>4 DEF EnterTurn
  <2> HIDE DEF u
  <2>2. loop'[r].calls = loop[r].calls
    BY <1>1, <2>1 DEF LoopRecord
  <2>3. out'[r] = (IF loop[r].first THEN <<>> ELSE <<Event("turn_start")>>) \o s
    BY <1>1, <1>4 DEF EnterTurn
  <2>4. /\ s \in Seq(Events) /\ Plain(s) /\ Plain(<<Event("turn_start")>> \o s)
        /\ <<Event("turn_start")>> \in Seq(Events)
    <3>1. msgs \in Seq(Messages)
      BY SpokenSpeakable
    <3>2. Event("turn_start") \in Events
      BY EventShapes DEF EventTypes
    <3>3. <<Event("turn_start")>> \in Seq(Events)
      BY <3>2
    <3> QED BY <3>1, <3>3, PlainMessages, MessageEventsAre
  <2> HIDE DEF s
  <2>5. <<>> \o s = s
    BY <2>4, ConcatEmptySeq
  <2>6. out'[r] = s \/ out'[r] = <<Event("turn_start")>> \o s
    BY <2>3, <2>5
  <2>7. out'[r] \in Seq(Events) /\ Plain(out'[r])
    <3> DEFINE h == <<Event("turn_start")>>
    <3>1. h \o s \in Seq(Events)
      <4>1. h \in Seq(Events)
        BY <2>4
      <4> HIDE DEF h
      <4> QED BY <2>4, <4>1
    <3> QED BY <2>4, <2>6, <3>1
  <2> QED BY <2>2, <2>7, PlainOrder
<1>5. ASSUME NEW msgs \in Seq(Spoken), SteeringPolled(r, msgs)
      PROVE  loop'[r].calls = loop[r].calls /\ Order(r)'
  <2>1. CASE EnterTurn(r, msgs)
    BY <1>4, <2>1
  <2>2. CASE ~EnterTurn(r, msgs)
    <3>1. loop'[r].calls = loop[r].calls /\ out'[r] = out[r]
      BY <1>1, <1>5, <2>2 DEF SteeringPolled, LoopRecord
    <3> QED BY <1>1, <1>2, <3>1, OrderKept
  <2> QED BY <2>1, <2>2
<1>6. ASSUME NEW msgs \in Seq(Spoken), FollowUpPolled(r, msgs)
      PROVE  loop'[r].calls = loop[r].calls /\ Order(r)'
  <2>1. CASE EnterTurn(r, msgs)
    BY <1>4, <2>1
  <2>2. CASE ~EnterTurn(r, msgs)
    <3>1. loop'[r].calls = loop[r].calls /\ out'[r] = <<Event("agent_end")>>
      BY <1>1, <1>6, <2>2 DEF FollowUpPolled, LoopRecord
    <3>2. Order(r)'
      BY <3>1 DEF Order, Event
    <3> QED BY <3>1, <3>2
  <2> QED BY <2>1, <2>2
<1>7. ASSUME TurnPrepared(r, loop[r].ctx) PROVE loop'[r].calls = loop[r].calls /\ Order(r)'
  <2>1. loop'[r].calls = loop[r].calls /\ out'[r] = out[r]
    BY <1>1, <1>7 DEF TurnPrepared, LoopRecord
  <2> QED BY <1>1, <1>2, <2>1, OrderKept
<1> QED BY <1>3, <1>5, <1>6, <1>7

LEMMA StartedOpens ==
  ASSUME LoopTypeOK, NEW r \in Runs, NEW prompts \in Seq(Spoken), StartRun(r, prompts)
  PROVE  Starts(r)' /\ With(r, Open)' = {}
<1>1. /\ loop \in [Runs -> LoopRecord] /\ out \in [Runs -> Seq(Events)]
  BY DEF LoopTypeOK
<1>2. loop'[r].pc = "steering" /\ loop'[r].calls = <<>>
      /\ out'[r] = <<Event("turn_start")>> \o MessageEvents(prompts)
  BY <1>1 DEF StartRun, RunAgentLoop, Unused
<1>3. prompts \in Seq(Messages)
  BY SpokenSpeakable
<1>4. MessageEvents(prompts) \in Seq(Events) /\ <<Event("turn_start")>> \in Seq(Events)
  BY <1>3, MessageEventsAre, EventShapes DEF EventTypes
<1>5. out'[r] \in Seq(Events) /\ Plain(out'[r])
  BY <1>2, <1>3, <1>4, PlainMessages
<1> QED BY <1>2, <1>5, PlainOrder, NoneOpen DEF Starts, OneBusy

LEMMA StartsStep ==
  ASSUME Steady, [Next]_vars, NEW q \in Runs, Starts(q)
  PROVE  Starts(q)'
<1>0. /\ LoopShape /\ LoopTypeOK /\ AgentTypes /\ Batch(q) /\ Place(q)
      /\ loop \in [Runs -> LoopRecord] /\ out \in [Runs -> Seq(Events)]
  BY DEF Steady, AgentTypes, LoopShape, LoopTypeOK
<1>1. ASSUME loop'[q].pc = loop[q].pc, loop'[q].calls = loop[q].calls, out'[q] = out[q]
      PROVE  Starts(q)'
  BY <1>1 DEF Starts, Order, OneBusy, Busy, With, Calls
<1>2. ASSUME NEW r \in Runs, Client(r) \/ RunStep(r) \/ Failure(r), r # q PROVE Starts(q)'
  BY <1>1, <1>2, OthersStay
<1>3. CASE Client(q)
  <2>1. PICK prompts \in Seq(Spoken) : StartRun(q, prompts)
    BY <1>0, <1>3, RunStartsSpoken
  <2> QED BY <1>0, <2>1, StartedOpens
<1>4. CASE Failure(q)
  <2>1. FailsNow(q)
    BY <1>0, <1>4, FailureIs
  <2>2. loop'[q].pc \in {"failing", "dead"} /\ (out'[q] = FailureEvents(q) \/ out'[q] = <<>>)
    BY <1>0, <2>1 DEF FailsNow
  <2> QED BY <2>2, FailureOrder DEF Starts, OneBusy
<1>5. CASE RunStep(q)
  <2>1. CASE LoopStep(q)
    BY <1>0, <2>1, LoopStepOpens
  <2>2. CASE PollSteering(q) \/ PollFollowUps(q)
    <3>1. PICK msgs \in Seq(Spoken) : SteeringPolled(q, msgs) \/ FollowUpPolled(q, msgs)
      BY <1>0, <2>2, PollsSpoken
    <3> QED BY <1>0, <3>1, AnswersOpen
  <2>3. CASE PrepareNextTurn(q)
    BY <1>0, <2>3, AnswersOpen DEF PrepareNextTurn
  <2>4. CASE HandleEvent(q)
    <3>1. out[q] \in Seq(Events) /\ out[q] # <<>> /\ out'[q] = Tail(out[q]) /\ loop' = loop
      BY <1>0, <2>4 DEF HandleEvent
    <3>2. Order(q)'
      BY <3>1, HandledOrder DEF Starts
    <3> QED BY <3>1, <3>2 DEF Starts, OneBusy, Busy, With, Calls
  <2>5. CASE \E c \in Calls(q) : EndCall(q, c)
    BY <1>0, <2>5, CallEndedOpens DEF EndCall
  <2>6. CASE FinishRun(q)
    <3>1. loop'[q].pc = "dead" /\ out'[q] = <<>>
      BY <1>0, <2>6 DEF FinishRun, LeaveRun, Unused, Settled, At, Awaited, Place
    <3> QED BY <3>1, FailureOrder DEF Starts, OneBusy
  <2> QED BY <1>5, <2>1, <2>2, <2>3, <2>4, <2>5, <2>6 DEF RunStep
<1>6. CASE Abort
  <2>1. /\ loop'[q].pc = loop[q].pc /\ loop'[q].calls = loop[q].calls /\ out' = out
    BY <1>0, <1>6 DEF Abort, AgentTypes, LoopRecord
  <2> QED BY <1>1, <2>1
<1>7. CASE UNCHANGED vars \/ Steer \/ FollowUp \/ ClearAllQueues \/ Reset
  BY <1>1, <1>7 DEF vars, Steer, SteerWith, FollowUp, ClearAllQueues, Reset
<1> QED
  <2>1. ASSUME NEW r \in Runs, Client(r) \/ RunStep(r) \/ Failure(r) PROVE Starts(q)'
    BY <1>2, <1>3, <1>4, <1>5, <2>1
  <2> QED BY <1>6, <1>7, <2>1 DEF Next

-----------------------------------------------------------------------------
(* state.pendingToolCalls.                                                   *)

PendingOf(r) == {<<r, c>> : c \in With(r, Open) \ Announced(r)}

Pending ==
  /\ activeRun = NoRun => pendingToolCalls = {}
  /\ \A r \in Runs : r = activeRun /\ ~rewritten => pendingToolCalls = PendingOf(r)

(* The reducer takes in the start of a call.                                 *)
LEMMA ReducesCalls ==
  ASSUME Steady, NEW r \in Runs, Starts(r), out[r] # <<>>, Reduce(r, out[r][1])
  PROVE  /\ pendingToolCalls' = pendingToolCalls \cup {<<r, c>> : c \in Announced(r)}
         /\ Announced(r) \subseteq With(r, Open)
<1> DEFINE e == out[r][1]
<1>1. out[r] \in Seq(Events) /\ 1 \in 1..Len(out[r])
  <2>1. out[r] \in Seq(Events)
    BY DEF Steady, AgentTypes, LoopShape, LoopTypeOK
  <2> QED BY <2>1
<1>2. e.type = "tool_execution_start" => e.call \in With(r, {"started"})
  BY <1>1 DEF Starts, Order
<1>3. Reduce(r, e) /\ e \in Events
  BY Reduces
<1>4. Announced(r) = IF e.type = "tool_execution_start" THEN {e.call} ELSE {}
  BY DEF Announced
<1> HIDE DEF e
<1>5. /\ e.type = "tool_execution_start" => pendingToolCalls' = pendingToolCalls \cup {<<r, e.call>>}
      /\ e.type # "tool_execution_start" => pendingToolCalls' = pendingToolCalls
  BY <1>3 DEF Reduce, Events, stateVars
<1>6. With(r, {"started"}) \subseteq With(r, Open)
  BY DEF With, Open
<1> QED BY <1>2, <1>4, <1>5, <1>6

LEMMA PendingStep ==
  ASSUME Steady, Pending, \A r \in Runs : Starts(r), [Next]_vars
  PROVE  Pending'
<1>0. /\ LoopShape /\ LoopTypeOK /\ AgentTypes /\ NoRun \notin Runs
      /\ loop \in [Runs -> LoopRecord] /\ out \in [Runs -> Seq(Events)]
      /\ \A r \in Runs : Place(r) /\ Batch(r) /\ Starts(r)
      /\ \A r \in Runs \ {activeRun} : out[r] = <<>> /\ loop[r].pc \in {"unused", "dead"}
  BY NoRunIsNoRun DEF Steady, AgentTypes, LoopShape, LoopTypeOK, Place
<1>1. ASSUME UNCHANGED <<activeRun, rewritten, pendingToolCalls>>,
             \A r \in Runs : loop'[r].calls = loop[r].calls /\ out'[r] = out[r]
      PROVE  Pending'
  BY <1>1 DEF Pending, PendingOf, With, Calls, Announced
<1>2. ASSUME NEW r \in Runs, Client(r) PROVE Pending'
  <2>1. PICK prompts \in Seq(Spoken) : StartRun(r, prompts)
    BY <1>0, <1>2, RunStartsSpoken
  <2>2. activeRun = NoRun /\ activeRun' = r /\ pendingToolCalls' = pendingToolCalls
    BY <2>1 DEF StartRun
  <2>3. With(r, Open)' = {}
    BY <1>0, <2>1, StartedOpens
  <2>4. PendingOf(r)' = {}
    BY <2>3 DEF PendingOf
  <2> QED BY <1>0, <2>2, <2>4 DEF Pending
(* A step of a run that is over: only its calls go on.                       *)
<1>3. ASSUME NEW r \in Runs \ {activeRun}, RunStep(r) \/ Failure(r) PROVE Pending'
  <2>1. ~Failure(r) /\ ~HandleEvent(r) /\ ~FinishRun(r)
    BY <1>0, <1>3, FailureIs DEF HandleEvent, FinishRun, LeaveRun
  <2>2. /\ UNCHANGED <<activeRun, rewritten>>
        /\ \/ pendingToolCalls' = pendingToolCalls
           \/ \E c \in Calls(r) : pendingToolCalls' = pendingToolCalls \ {<<r, c>>}
    BY <1>3, <2>1 DEF RunStep, PollSteering, PollFollowUps, PrepareNextTurn, EndCall,
                      stateVars, history
  <2>3. ASSUME NEW a \in Runs, a = activeRun, ~rewritten PROVE pendingToolCalls' = PendingOf(a)'
    <3>1. loop'[a] = loop[a] /\ out'[a] = out[a]
      BY <1>3, <2>3, OthersStay
    <3>2. PendingOf(a)' = PendingOf(a)
      BY <3>1 DEF PendingOf, With, Calls, Announced
    <3>3. pendingToolCalls = PendingOf(a)
      BY <2>3 DEF Pending
    <3>4. \A c : <<r, c>> \notin PendingOf(a)
      BY <1>3, <2>3 DEF PendingOf
    <3> QED BY <2>2, <3>2, <3>3, <3>4
  <2>4. activeRun = NoRun => pendingToolCalls' = {}
    BY <2>2 DEF Pending
  <2> QED BY <2>2, <2>3, <2>4 DEF Pending
<1>4. ASSUME NEW r \in Runs, r = activeRun, RunStep(r) \/ Failure(r) PROVE Pending'
  <2>0. ~rewritten => pendingToolCalls = PendingOf(r)
    BY <1>4 DEF Pending
  <2>1. ASSUME UNCHANGED <<activeRun, rewritten>>, ~rewritten => pendingToolCalls' = PendingOf(r)'
        PROVE  Pending'
    BY <1>0, <1>4, <2>1 DEF Pending
  <2>2. CASE LoopStep(r) /\ UNCHANGED <<activeRun, skipPoll, stateVars, queues, history>>
    <3>1. OpenCalls(r) /\ UNCHANGED <<activeRun, rewritten, pendingToolCalls>>
      BY <1>0, <2>2, LoopStepOpens DEF stateVars, history
    <3>2. CASE With(r, Open)' = With(r, Open) /\ Announced(r)' = Announced(r)
      <4>1. PendingOf(r)' = PendingOf(r)
        BY <3>2 DEF PendingOf
      <4> QED BY <2>0, <2>1, <3>1, <4>1
    <3>3. CASE With(r, Open)' = {} /\ With(r, Open) = {}
      <4>1. PendingOf(r)' = {} /\ PendingOf(r) = {}
        BY <3>3 DEF PendingOf
      <4> QED BY <2>0, <2>1, <3>1, <4>1
    <3>4. ASSUME NEW c \in Calls(r), out[r] = <<>>, c \notin With(r, Open),
                 With(r, Open)' = With(r, Open) \cup {c},
                 out'[r] = <<CallEvent("tool_execution_start", c)>>
          PROVE  Pending'
      <4>1. Announced(r) = {} /\ Announced(r)' = {c}
        BY <3>4 DEF Announced, CallEvent
      <4>2. PendingOf(r)' = PendingOf(r)
        BY <3>4, <4>1 DEF PendingOf
      <4> QED BY <2>0, <2>1, <3>1, <4>2
    <3> QED BY <3>1, <3>2, <3>3, <3>4 DEF OpenCalls
  <2>3. CASE PollSteering(r) \/ PollFollowUps(r) \/ PrepareNextTurn(r)
    <3>1. UNCHANGED <<activeRun, rewritten, pendingToolCalls>>
      BY <2>3 DEF PollSteering, PollFollowUps, PrepareNextTurn, stateVars, history
    <3>2. With(r, Open) = {} /\ With(r, Open)' = {}
      BY <1>0, <2>3, PollsSpoken, AnswersOpen DEF PrepareNextTurn
    <3>3. PendingOf(r)' = {} /\ PendingOf(r) = {}
      BY <3>2 DEF PendingOf
    <3> QED BY <2>0, <2>1, <3>1, <3>3
(* The head of the events is reduced.                                        *)
  <2>4. ASSUME UNCHANGED <<activeRun, rewritten>>, out[r] # <<>>, Reduce(r, out[r][1]),
               loop'[r].calls = loop[r].calls, Announced(r)' = {}
        PROVE  Pending'
    <3>1. With(r, Open)' = With(r, Open)
      BY <2>4 DEF With, Calls
    <3>2. /\ pendingToolCalls' = pendingToolCalls \cup {<<r, c>> : c \in Announced(r)}
          /\ Announced(r) \subseteq With(r, Open)
      BY <1>0, <2>4, ReducesCalls
    <3>3. PendingOf(r)' = {<<r, c>> : c \in With(r, Open)}
      BY <2>4, <3>1 DEF PendingOf
    <3>4. {<<r, c>> : c \in With(r, Open)} = PendingOf(r) \cup {<<r, c>> : c \in Announced(r)}
      BY <3>2 DEF PendingOf
    <3> QED BY <2>0, <2>1, <2>4, <3>2, <3>3, <3>4
  <2>5. CASE HandleEvent(r)
    <3>1. /\ out[r] \in Seq(Events) /\ out[r] # <<>> /\ Reduce(r, out[r][1])
          /\ out'[r] = Tail(out[r]) /\ loop' = loop /\ UNCHANGED <<activeRun, rewritten>>
      BY <1>0, <2>5 DEF HandleEvent
    <3>2. Announced(r)' = {}
      BY <1>0, <3>1, HandledOrder DEF Starts
    <3> QED BY <2>4, <3>1, <3>2
  <2>6. CASE ListenerThrows(r)
    <3>1. /\ out[r] # <<>> /\ Reduce(r, out[r][1]) /\ loop'[r].calls = loop[r].calls
          /\ UNCHANGED <<activeRun, rewritten>>
          /\ out'[r] = FailureEvents(r) \/ out'[r] = <<>>
      BY <1>0, <2>6 DEF ListenerThrows, LoopRecord
    <3> QED BY <2>4, <3>1, FailureOrder
  <2>7. ASSUME NEW c \in Calls(r), EndCall(r, c) PROVE Pending'
    <3>1. /\ With(r, Open)' = With(r, Open) \ {c} /\ Announced(r)' = Announced(r)
          /\ pendingToolCalls' = pendingToolCalls \ {<<r, c>>}
          /\ UNCHANGED <<activeRun, rewritten>>
      BY <1>0, <2>7, CallEndedOpens DEF EndCall, history
    <3>2. PendingOf(r)' = PendingOf(r) \ {<<r, c>>}
      BY <3>1 DEF PendingOf
    <3> QED BY <2>0, <2>1, <3>1, <3>2
  <2>8. ASSUME NEW c \in Calls(r), EndCallThrows(r, c) PROVE Pending'
    <3>1. /\ loop[r].pc \in {"tools", "joining"} /\ loop[r].calls[c] = "ending"
          /\ loop'[r].calls = [loop[r].calls EXCEPT ![c] = "done"]
          /\ pendingToolCalls' = pendingToolCalls \ {<<r, c>>}
          /\ UNCHANGED <<activeRun, rewritten>> /\ out'[r] = FailureEvents(r)
      <4> DEFINE cs == [loop[r].calls EXCEPT ![c] = "done"]
      <4>1. loop' = [loop EXCEPT ![r] = [loop[r] EXCEPT !.pc = "failing", !.calls = cs]]
        BY <1>0, <2>8 DEF EndCallThrows, LoopRecord
      <4> HIDE DEF cs
      <4>2. loop'[r].calls = cs
        BY <1>0, <4>1 DEF LoopRecord
      <4>3. loop[r].pc \in {"tools", "joining"} /\ loop[r].calls[c] = "ending"
        BY <2>8 DEF EndCallThrows, With
      <4>4. /\ pendingToolCalls' = pendingToolCalls \ {<<r, c>>}
            /\ UNCHANGED <<activeRun, rewritten>> /\ out'[r] = FailureEvents(r)
        BY <1>0, <2>8 DEF EndCallThrows, history
      <4> QED BY <4>2, <4>3, <4>4 DEF cs
    <3>2. "done" \in CallStatus /\ "done" \notin Open
      BY DEF CallStatus, Open
    <3>3. With(r, Open)' = With(r, Open) \ {c} /\ Announced(r)' = {}
      BY <1>0, <3>1, <3>2, CallMoves, FailureOrder
    <3>4. Announced(r) = {}
      <4>1. SUFFICES ASSUME out[r] # <<>>, out[r][1].type = "tool_execution_start" PROVE FALSE
        BY DEF Announced
      <4>2. 1 \in 1..Len(out[r])
        BY <1>0, <4>1
      <4>3. out[r][1].call \in With(r, {"started"})
        BY <1>0, <4>1, <4>2 DEF Starts, Order
      <4> DEFINE d == out[r][1].call
      <4> HIDE DEF d
      <4>4. d \in Calls(r) /\ loop[r].calls[d] = "started"
        BY <4>3 DEF With, d
      <4>5. CASE loop[r].pc = "tools"
        <5>1. d \in Busy(r) /\ c \in Busy(r)
          BY <3>1, <4>4 DEF Busy, With
        <5>2. d = c
          BY <1>0, <4>5, <5>1 DEF Starts, OneBusy
        <5> QED BY <3>1, <4>4, <5>2
      <4>6. CASE loop[r].pc = "joining"
        BY <1>0, <4>4, <4>6 DEF Batch, Joined, NoneIs
      <4> QED BY <3>1, <4>5, <4>6
    <3>5. PendingOf(r)' = PendingOf(r) \ {<<r, c>>}
      BY <3>3, <3>4 DEF PendingOf
    <3> QED BY <2>0, <2>1, <3>1, <3>5
  <2>9. CASE FinishRun(r)
    BY <1>0, <2>9 DEF FinishRun, LeaveRun, Pending
  <2> QED BY <1>4, <2>2, <2>3, <2>5, <2>6, <2>7, <2>8, <2>9 DEF RunStep, Failure
<1>5. CASE Abort
  <2>1. \A r \in Runs : loop'[r].calls = loop[r].calls /\ out'[r] = out[r]
    BY <1>0, <1>5 DEF Abort, AgentTypes, LoopRecord
  <2> QED BY <1>1, <1>5, <2>1 DEF Abort, stateVars, history
<1>6. CASE Reset
  BY <1>0, <1>6 DEF Reset, Pending
<1>7. CASE UNCHANGED vars \/ Steer \/ FollowUp \/ ClearAllQueues
  BY <1>1, <1>7 DEF vars, Steer, SteerWith, FollowUp, ClearAllQueues, stateVars
<1> QED
  <2>1. ASSUME NEW r \in Runs, RunStep(r) \/ Failure(r) PROVE Pending'
    BY <1>3, <1>4, <2>1
  <2> QED BY <1>2, <1>5, <1>6, <1>7, <2>1 DEF Next

-----------------------------------------------------------------------------
(* Runs whose listeners do not throw.                                        *)

(* Such a run does not fail, and leaves no tool at work behind.              *)
Unharmed(r) ==
  ~ListenersThrow =>
    /\ loop[r].pc # "failing"
    /\ loop[r].pc = "dead" => r # activeRun
    /\ r # activeRun => loop[r].calls = <<>>

(* A step of a run is one of the active run.                                 *)
LEMMA ActiveActs ==
  ASSUME Steady, NEW r \in Runs, Unharmed(r), ~ListenersThrow, RunStep(r)
  PROVE  r = activeRun
<1> SUFFICES ASSUME r # activeRun PROVE FALSE
  OBVIOUS
<1>1. loop[r].pc \in {"unused", "dead"} /\ loop[r].calls = <<>> /\ out[r] = <<>>
  BY DEF Unharmed, Steady, Place
<1>2. \A c \in Calls(r) : FALSE
  BY <1>1 DEF Calls
<1>3. ~LoopStep(r)
  BY <1>1, <1>2 DEF LoopStep, Request, Respond, StopOnError, EndTurnWithoutTools, ExecuteToolCalls,
                    LaunchCalls, ReportResults, EndSequentialBatch, EndBatch, LoopReturns, At
<1>4. ~PollSteering(r) /\ ~PollFollowUps(r) /\ ~PrepareNextTurn(r)
  BY <1>1 DEF PollSteering, PollFollowUps, PrepareNextTurn, SteeringPolled, FollowUpPolled,
              TurnPrepared, At
<1>5. ~HandleEvent(r) /\ ~FinishRun(r)
  BY <1>1 DEF HandleEvent, FinishRun, LeaveRun
<1> QED BY <1>2, <1>3, <1>4, <1>5 DEF RunStep

LEMMA UnharmedStep ==
  ASSUME Steady, [Next]_vars, \A r \in Runs : Unharmed(r), NEW q \in Runs
  PROVE  Unharmed(q)'
<1> SUFFICES ASSUME ~ListenersThrow PROVE Unharmed(q)'
  BY DEF Unharmed
<1>0. /\ LoopTypeOK /\ AgentTypes /\ Batch(q) /\ NoRun \notin Runs
      /\ loop \in [Runs -> LoopRecord] /\ out \in [Runs -> Seq(Events)]
      /\ \A r \in Runs : Place(r)
      /\ loop[q].pc # "failing" /\ (loop[q].pc = "dead" => q # activeRun)
      /\ (q # activeRun => loop[q].calls = <<>>)
  BY NoRunIsNoRun DEF Steady, AgentTypes, LoopShape, LoopTypeOK, Unharmed
<1>1. ASSUME loop'[q].pc = loop[q].pc, loop'[q].calls = loop[q].calls, activeRun' = activeRun
      PROVE  Unharmed(q)'
  BY <1>0, <1>1 DEF Unharmed
<1>2. ASSUME NEW r \in Runs, Client(r) PROVE Unharmed(q)'
  <2>1. PICK prompts \in Seq(Spoken) : StartRun(r, prompts)
    BY <1>0, <1>2, RunStartsSpoken
  <2>2. activeRun = NoRun /\ activeRun' = r /\ loop'[r].pc = "steering"
    BY <1>0, <2>1 DEF StartRun, RunAgentLoop, Unused
  <2>3. q # r => loop'[q] = loop[q]
    BY <1>2, OthersStay
  <2> QED BY <1>0, <2>2, <2>3 DEF Unharmed
<1>3. ASSUME NEW r \in Runs, RunStep(r), r # q PROVE Unharmed(q)'
  <2>1. loop'[q] = loop[q] /\ r = activeRun
    BY <1>3, OthersStay, ActiveActs
  <2>2. activeRun' \in {activeRun, NoRun}
    BY <1>3 DEF RunStep, PollSteering, PollFollowUps, PrepareNextTurn, HandleEvent, EndCall,
                FinishRun, LeaveRun
  <2> QED BY <1>0, <1>3, <2>1, <2>2 DEF Unharmed
<1>4. CASE RunStep(q)
  <2>0. q = activeRun /\ loop[q].pc \notin {"failing", "dead"}
    BY <1>0, <1>4, ActiveActs
  <2>1. ASSUME activeRun' = activeRun, loop'[q].pc \notin {"failing", "dead"} PROVE Unharmed(q)'
    BY <2>0, <2>1 DEF Unharmed
  <2>2. CASE LoopStep(q) /\ UNCHANGED <<activeRun, skipPoll, stateVars, queues, history>>
    <3>1. LoopEffect(q)
      BY <1>0, <2>2, LoopStepEffect
    <3> QED BY <2>0, <2>1, <2>2, <3>1 DEF LoopEffect
  <2>3. CASE PollSteering(q) \/ PollFollowUps(q)
    <3>1. PICK msgs \in Seq(Spoken) : SteeringPolled(q, msgs) \/ FollowUpPolled(q, msgs)
      BY <1>0, <2>3, PollsSpoken
    <3>2. loop'[q].pc \in {"stream", "followUp", "ending"}
      BY <1>0, <3>1 DEF SteeringPolled, FollowUpPolled, EnterTurn, LoopRecord
    <3> QED BY <2>1, <2>3, <3>2 DEF PollSteering, PollFollowUps
  <2>4. CASE PrepareNextTurn(q)
    <3>1. activeRun' = activeRun /\ loop'[q].pc = "steering"
      BY <1>0, <2>4 DEF PrepareNextTurn, TurnPrepared, LoopRecord
    <3> QED BY <2>1, <3>1
  <2>5. CASE HandleEvent(q)
    BY <2>0, <2>1, <2>5 DEF HandleEvent
  <2>6. CASE \E c \in Calls(q) : EndCall(q, c)
    <3>1. loop'[q].pc = loop[q].pc /\ activeRun' = activeRun
      BY <1>0, <2>6 DEF EndCall, CallEnded, LoopRecord
    <3> QED BY <2>0, <2>1, <3>1
  <2>7. CASE FinishRun(q)
    <3>1. loop[q].pc = "returned"
      BY <2>0, <2>7 DEF FinishRun, Settled, At
    <3>2. loop[q].calls = <<>>
      BY <1>0, <3>1 DEF Batch, NoCalls, BatchStates
    <3>3. activeRun' = NoRun /\ loop'[q].pc = "dead" /\ loop'[q].calls = <<>>
      BY <1>0, <2>7, <3>2 DEF FinishRun, LeaveRun, Unused
    <3> QED BY <1>0, <3>3 DEF Unharmed
  <2> QED BY <1>4, <2>2, <2>3, <2>4, <2>5, <2>6, <2>7 DEF RunStep
<1>5. \A r \in Runs : ~Failure(r)
  BY DEF Failure, ListenerThrows, EndCallThrows
<1>6. CASE Abort
  <2>1. loop'[q].pc = loop[q].pc /\ loop'[q].calls = loop[q].calls
    BY <1>0, <1>6 DEF Abort, AgentTypes, LoopRecord
  <2> QED BY <1>1, <1>6, <2>1 DEF Abort
<1>7. CASE UNCHANGED vars \/ Steer \/ FollowUp \/ ClearAllQueues \/ Reset
  BY <1>1, <1>7 DEF vars, Steer, SteerWith, FollowUp, ClearAllQueues, Reset
<1> QED BY <1>2, <1>3, <1>4, <1>5, <1>6, <1>7 DEF Next

-----------------------------------------------------------------------------
(* The invariant of the two theorems that follow.                            *)

Orderly == Pending /\ \A r \in Runs : Starts(r) /\ Unharmed(r)

LEMMA OrderlyAlways == Spec => [](Steady /\ Orderly)
<1>1. Init => Orderly
  <2> SUFFICES ASSUME Init PROVE Orderly
    OBVIOUS
  <2>1. \A r \in Runs : loop[r].pc = "unused" /\ loop[r].calls = <<>> /\ out[r] = <<>>
    BY DEF Init, LoopInit, Unused
  <2>2. \A r \in Runs : Starts(r) /\ Unharmed(r)
    BY <2>1 DEF Starts, Order, OneBusy, Unharmed
  <2>3. Pending
    BY NoRunIsNoRun DEF Init, Pending
  <2> QED BY <2>2, <2>3 DEF Orderly
<1>2. Steady /\ Orderly /\ [Next]_vars => Steady' /\ Orderly'
  BY SteadyStep, PendingStep, StartsStep, UnharmedStep DEF Orderly
<1> QED BY <1>1, <1>2, SteadyInit, PTL DEF Spec

LEMMA OrderlyGives == Steady /\ Orderly => PendingCallsExact
<1> SUFFICES ASSUME Steady, Orderly PROVE PendingCallsExact
  OBVIOUS
<1>1. activeRun \in Runs \cup {NoRun} /\ NoRun \notin Runs
  BY NoRunIsNoRun DEF Steady, AgentTypes
<1>2. ASSUME ~rewritten, activeRun # NoRun PROVE pendingToolCalls = PendingOf(activeRun)
  BY <1>1, <1>2 DEF Orderly, Pending
<1>3. ASSUME activeRun = NoRun PROVE pendingToolCalls = {}
  BY <1>3 DEF Orderly, Pending
<1>4. ASSUME activeRun = NoRun, ~ListenersThrow, NEW r \in Runs
      PROVE  With(r, {"running", "ending"}) = {}
  <2>1. loop[r].calls = <<>>
    BY <1>1, <1>4 DEF Orderly, Unharmed
  <2>2. \A c \in Calls(r) : FALSE
    BY <2>1 DEF Calls
  <2> QED BY <2>2 DEF With
<1> QED BY <1>2, <1>3, <1>4 DEF PendingCallsExact, PendingOf, Open

(* What the agent shows as pending is what is pending: the calls of the      *)
(* active run that were announced and have not ended, one by one, through    *)
(* refused and parallel calls, aborts and listeners that throw.  When it is  *)
(* idle nothing is, and, unless listeners throw, no tool is at work.         *)
THEOREM PendingIsExact == Spec => []PendingCallsExact
BY OrderlyAlways, OrderlyGives, PTL

-----------------------------------------------------------------------------
(* The end of a run.                                                         *)

(* A run that announced its end has nothing more to say.                     *)
Over ==
  ~ListenersThrow =>
    \A r \in ended : /\ r \in Runs /\ out[r] = <<>>
                     /\ loop[r].pc \in {"ending", "returned", "dead"}

LEMMA OverStep ==
  ASSUME Steady, Orderly, Over, [Next]_vars
  PROVE  Over'
<1> SUFFICES ASSUME ~ListenersThrow, NEW q \in ended'
             PROVE  q \in Runs /\ out'[q] = <<>> /\ loop'[q].pc \in {"ending", "returned", "dead"}
  BY DEF Over
<1> DEFINE Done == q \in Runs /\ out'[q] = <<>> /\ loop'[q].pc \in {"ending", "returned", "dead"}
<1>0. /\ LoopTypeOK /\ AgentTypes /\ LoopShape
      /\ loop \in [Runs -> LoopRecord] /\ out \in [Runs -> Seq(Events)]
      /\ \A r \in Runs : Batch(r) /\ Unharmed(r) /\ Starts(r)
  BY DEF Steady, AgentTypes, LoopShape, LoopTypeOK, Orderly
<1>1. q \in ended => q \in Runs /\ out[q] = <<>> /\ loop[q].pc \in {"ending", "returned", "dead"}
  BY DEF Over
<1>2. ASSUME UNCHANGED <<loop, out, ended>> PROVE Done
  BY <1>1, <1>2
<1>3. ASSUME NEW r \in Runs, Client(r) PROVE Done
  <2>1. PICK prompts \in Seq(Spoken) : StartRun(r, prompts)
    BY <1>0, <1>3, RunStartsSpoken
  <2>2. ended' = ended /\ loop[r].pc = "unused"
    BY <2>1 DEF StartRun, RunAgentLoop
  <2>3. q \in Runs /\ q # r
    BY <1>1, <2>2
  <2> QED BY <1>1, <1>3, <2>2, <2>3, OthersStay
<1>4. ASSUME NEW r \in Runs, RunStep(r), ended' = ended, r # q PROVE Done
  BY <1>1, <1>4, OthersStay
<1>5. ASSUME NEW r \in Runs, HandleEvent(r) PROVE Done
  <2>1. /\ out[r] \in Seq(Events) /\ out[r] # <<>> /\ loop' = loop
        /\ out'[r] = Tail(out[r]) /\ \A p \in Runs \ {r} : out'[p] = out[p]
        /\ ended' = IF out[r][1].type = "agent_end" THEN ended \cup {r} ELSE ended
    BY <1>0, <1>5 DEF HandleEvent
  <2>2. CASE q \in ended
    <3>1. q # r
      BY <1>1, <2>1, <2>2
    <3> QED BY <1>1, <2>1, <2>2, <3>1
  <2>3. CASE q \notin ended
    <3>1. q = r /\ out[r][1].type = "agent_end"
      BY <2>1, <2>3
    <3>2. 1 \in 1..Len(out[r]) /\ Len(Tail(out[r])) = Len(out[r]) - 1
          /\ Tail(out[r]) \in Seq(Events)
      BY <2>1, HeadTailProperties, LenProperties
    <3>3. Len(out[r]) = 1
      BY <1>0, <3>1, <3>2 DEF Starts, Order
    <3>4. out'[r] = <<>>
      <4> DEFINE t == Tail(out[r])
      <4>1. t \in Seq(Events) /\ Len(t) = 0 /\ out'[r] = t
        BY <2>1, <3>2, <3>3
      <4> HIDE DEF t
      <4> QED BY <4>1, EmptySeq
    <3>5. loop[r].pc \in {"ending", "failing"}
      BY <1>0, <3>1, <3>2 DEF LoopShape, Shape, Fits
    <3> QED BY <1>0, <2>1, <3>1, <3>4, <3>5 DEF Unharmed
  <2> QED BY <2>2, <2>3
<1>6. ASSUME q \in Runs, RunStep(q), ~HandleEvent(q) PROVE Done
  <2>0. ended' = ended
    BY <1>6 DEF RunStep, PollSteering, PollFollowUps, PrepareNextTurn, EndCall,
                FinishRun, LeaveRun, history
  <2>1. /\ out[q] = <<>> /\ loop[q].pc \in {"ending", "returned"} /\ q = activeRun
        /\ loop[q].calls = <<>>
    BY <1>0, <1>1, <1>6, <2>0, ActiveActs DEF Steady, Unharmed, Batch, NoCalls, BatchStates
  <2>2. CASE LoopStep(q)
    <3>1. LoopEffect(q)
      BY <1>0, <1>6, <2>2, LoopStepEffect
    <3> QED BY <1>6, <2>1, <3>1 DEF LoopEffect
  <2>3. ~PollSteering(q) /\ ~PollFollowUps(q) /\ ~PrepareNextTurn(q)
    BY <2>1 DEF PollSteering, PollFollowUps, PrepareNextTurn, SteeringPolled, FollowUpPolled,
                TurnPrepared, At
  <2>4. ~\E c \in Calls(q) : EndCall(q, c)
    BY <2>1 DEF Calls
  <2>5. CASE FinishRun(q)
    <3>1. out' = out /\ loop'[q].pc = "dead"
      BY <1>0, <1>6, <2>5 DEF FinishRun, LeaveRun, Unused
    <3> QED BY <1>6, <2>1, <3>1
  <2> QED BY <1>6, <2>2, <2>3, <2>4, <2>5 DEF RunStep
<1>7. ASSUME NEW r \in Runs, RunStep(r), ~HandleEvent(r) PROVE Done
  <2>1. ended' = ended
    BY <1>7 DEF RunStep, PollSteering, PollFollowUps, PrepareNextTurn, EndCall,
                FinishRun, LeaveRun, history
  <2> QED BY <1>4, <1>6, <1>7, <2>1
<1>8. \A r \in Runs : ~Failure(r)
  BY DEF Failure, ListenerThrows, EndCallThrows
<1>9. CASE Abort
  <2>1. out' = out /\ ended' = ended /\ \A r \in Runs : loop'[r].pc = loop[r].pc
    BY <1>0, <1>9 DEF Abort, AgentTypes, LoopRecord, history
  <2> QED BY <1>1, <2>1
<1>10. CASE UNCHANGED vars \/ Steer \/ FollowUp \/ ClearAllQueues \/ Reset
  BY <1>2, <1>10 DEF vars, Steer, SteerWith, FollowUp, ClearAllQueues, Reset
<1> QED BY <1>3, <1>5, <1>7, <1>8, <1>9, <1>10 DEF Next

LEMMA OverIsQuiet ==
  ASSUME Steady, Orderly, Over, LoopShape', ~ListenersThrow
  PROVE  QuietAfterEnd
<1> SUFFICES ASSUME NEW r \in ended
             PROVE  /\ Len(out'[r]) >= Len(out[r])
                    /\ \A c \in With(r, {"ending"}) : loop'[r].calls[c] = "ending"
  BY DEF QuietAfterEnd
<1>1. r \in Runs /\ out[r] = <<>> /\ loop[r].pc \in {"ending", "returned", "dead"}
  BY DEF Over
<1>2. Len(out[r]) = 0 /\ Len(out'[r]) \in Nat
  BY <1>1, LenProperties DEF LoopShape, LoopTypeOK
<1>3. loop[r].calls = <<>>
  BY <1>1 DEF Steady, Batch, NoCalls, BatchStates, Orderly, Unharmed
<1>4. \A c \in Calls(r) : FALSE
  BY <1>3 DEF Calls
<1> QED BY <1>2, <1>4 DEF With

(* agent_end is the last a client hears of a run whose listeners do not      *)
(* throw: no event of it follows and no tool of it ends after that, whatever *)
(* was refused, aborted or left unreported.                                  *)
THEOREM TheEndIsLast == Spec => AgentEndIsLast
<1>1. Init => Over
  BY DEF Init, Over
<1>2. Steady /\ Orderly /\ Over /\ [Next]_vars => Over'
  BY OverStep
<1>3. Steady' => LoopShape'
  BY DEF Steady, AgentTypes
<1>4. Steady /\ Steady' /\ Orderly /\ Over => (~ListenersThrow => QuietAfterEnd)
  BY <1>3, OverIsQuiet
<1> QED BY <1>1, <1>2, <1>4, OrderlyAlways, PTL DEF Spec, AgentEndIsLast

-----------------------------------------------------------------------------
(***************************************************************************)
(* Nothing that is said to the agent is lost or doubled: a message of the  *)
(* user is in the transcript, under way to it, in a queue, or was cleared  *)
(* or dropped by a run that failed, and is there once and in its order.    *)
(***************************************************************************)

(* Where the messages of the user are.  Sequences of messages are compared   *)
(* by the messages of the user in them, and concatenations taken apart.      *)

Tracked(m) == m.role = "user" \/ m.kind \in {"steer", "followUp"}

(* What may not be said of two messages, the first of which comes first.     *)
Fine(a, b) ==
  /\ a.role = "user" /\ b.role = "user" => a.n # b.n
  /\ a.kind = b.kind /\ a.kind \in {"steer", "followUp"} => a.n < b.n

Items(s)      == {s[i] : i \in {j \in 1..Len(s) : Tracked(s[j])}}
Sorted(s)     == \A i, j \in 1..Len(s) : i < j => Fine(s[i], s[j])
Before(A, B)  == \A a \in A, b \in B : Fine(a, b)
NumbersOf(A)  == {m.n : m \in {x \in A : x.role = "user"}}

(* The inductive invariant: msgs, what is in the air and either queue, one   *)
(* after the other, have each message once and in the order it was given,    *)
(* and with those cleared and dropped they have all of them.                 *)
Kept(msgs, air, steer, follow, given, gone, lost) ==
  /\ Sorted(msgs) /\ Sorted(air) /\ Sorted(steer) /\ Sorted(follow)
  /\ Before(Items(msgs), Items(air) \cup Items(steer) \cup Items(follow))
  /\ Before(Items(air), Items(steer) \cup Items(follow))
  /\ Before(Items(steer), Items(follow))
  /\ \A m \in Items(msgs) \cup Items(air) : m.role = "user"
  /\ \A m \in Items(steer) : m.role = "user" /\ m.kind = "steer"
  /\ \A m \in Items(follow) : m.role = "user" /\ m.kind = "followUp"
  /\ NumbersOf(Items(msgs) \cup Items(air) \cup Items(steer) \cup Items(follow)) \cup gone \cup lost
       = 1..given
  /\ NumbersOf(Items(msgs) \cup Items(air) \cup Items(steer) \cup Items(follow))
       \cap (gone \cup lost) = {}
  /\ gone \cap lost = {}

Air == IF activeRun = NoRun THEN <<>> ELSE Carried(out[activeRun])
Delivered == Kept(messages, Air, steeringQueue, followUpQueue, sent, cleared, dropped)

LEMMA NoMessageUntracked == ~Tracked(NoMessage)
BY DEF Tracked, NoMessage

LEMMA ItemsOfNone == Items(<<>>) = {} /\ Sorted(<<>>)
<1>1. Len(<<>>) = 0
  OBVIOUS
<1> QED BY <1>1 DEF Items, Sorted

LEMMA ItemsOfOne ==
  ASSUME NEW m
  PROVE  /\ Items(<<m>>) = IF Tracked(m) THEN {m} ELSE {}
         /\ Sorted(<<m>>)
<1>1. Len(<<m>>) = 1 /\ <<m>>[1] = m
  OBVIOUS
<1>2. \A j \in 1..Len(<<m>>) : j = 1
  BY <1>1
<1> QED BY <1>1, <1>2 DEF Items, Sorted

LEMMA FineUnlessTracked == \A a, b : ~Tracked(a) \/ ~Tracked(b) => Fine(a, b)
BY DEF Fine, Tracked

LEMMA ItemsOfConcat ==
  ASSUME NEW s \in Seq(Slots), NEW t \in Seq(Slots)
  PROVE  /\ Items(s \o t) = Items(s) \cup Items(t)
         /\ Sorted(s \o t) <=> Sorted(s) /\ Sorted(t) /\ Before(Items(s), Items(t))
<1> DEFINE u == s \o t
           n == Len(s)
           k == Len(t)
<1>1. /\ Len(u) = n + k /\ n \in Nat /\ k \in Nat
      /\ \A i \in 1..n : u[i] = s[i]
      /\ \A i \in 1..k : u[n + i] = t[i]
  OBVIOUS
<1>2. \A i \in 1..(n + k) : i \in 1..n \/ (i - n \in 1..k /\ u[i] = t[i - n])
  BY <1>1
<1> HIDE DEF u
<1>3. Items(u) = Items(s) \cup Items(t)
  <2>1. Items(s) \subseteq Items(u)
    <3> SUFFICES ASSUME NEW i \in 1..n, Tracked(s[i]) PROVE s[i] \in Items(u)
      BY DEF Items
    <3>1. i \in 1..Len(u) /\ u[i] = s[i]
      BY <1>1
    <3> QED BY <3>1 DEF Items
  <2>2. Items(t) \subseteq Items(u)
    <3> SUFFICES ASSUME NEW i \in 1..k, Tracked(t[i]) PROVE t[i] \in Items(u)
      BY DEF Items
    <3>1. n + i \in 1..Len(u) /\ u[n + i] = t[i]
      BY <1>1
    <3> QED BY <3>1 DEF Items
  <2>3. Items(u) \subseteq Items(s) \cup Items(t)
    <3> SUFFICES ASSUME NEW i \in 1..(n + k), Tracked(u[i])
                 PROVE  u[i] \in Items(s) \cup Items(t)
      BY <1>1 DEF Items
    <3>1. CASE i \in 1..n
      BY <1>1, <3>1 DEF Items
    <3>2. CASE i - n \in 1..k /\ u[i] = t[i - n]
      BY <3>2 DEF Items
    <3> QED BY <1>2, <3>1, <3>2
  <2> QED BY <2>1, <2>2, <2>3
<1>4. ASSUME Sorted(u) PROVE Sorted(s) /\ Sorted(t) /\ Before(Items(s), Items(t))
  <2>1. Sorted(s)
    <3> SUFFICES ASSUME NEW i \in 1..n, NEW j \in 1..n, i < j PROVE Fine(s[i], s[j])
      BY DEF Sorted
    <3>1. i \in 1..Len(u) /\ j \in 1..Len(u) /\ u[i] = s[i] /\ u[j] = s[j]
      BY <1>1
    <3> QED BY <1>4, <3>1 DEF Sorted
  <2>2. Sorted(t)
    <3> SUFFICES ASSUME NEW i \in 1..k, NEW j \in 1..k, i < j PROVE Fine(t[i], t[j])
      BY DEF Sorted
    <3>1. /\ n + i \in 1..Len(u) /\ n + j \in 1..Len(u) /\ n + i < n + j
          /\ u[n + i] = t[i] /\ u[n + j] = t[j]
      BY <1>1
    <3>2. Fine(u[n + i], u[n + j])
      BY <1>4, <3>1 DEF Sorted
    <3> QED BY <3>1, <3>2
  <2>3. Before(Items(s), Items(t))
    <3> SUFFICES ASSUME NEW i \in 1..n, NEW j \in 1..k PROVE Fine(s[i], t[j])
      BY DEF Before, Items
    <3>1. /\ i \in 1..Len(u) /\ n + j \in 1..Len(u) /\ i < n + j
          /\ u[i] = s[i] /\ u[n + j] = t[j]
      BY <1>1
    <3>2. Fine(u[i], u[n + j])
      BY <1>4, <3>1 DEF Sorted
    <3> QED BY <3>1, <3>2
  <2> QED BY <2>1, <2>2, <2>3
<1>5. ASSUME Sorted(s), Sorted(t), Before(Items(s), Items(t)) PROVE Sorted(u)
  <2> SUFFICES ASSUME NEW i \in 1..(n + k), NEW j \in 1..(n + k), i < j
               PROVE  Fine(u[i], u[j])
    BY <1>1 DEF Sorted
  <2>1. CASE i \in 1..n /\ j \in 1..n
    <3>1. Fine(s[i], s[j])
      BY <1>5, <2>1 DEF Sorted
    <3> QED BY <1>1, <2>1, <3>1
  <2>2. CASE i \in 1..n /\ j - n \in 1..k /\ u[j] = t[j - n]
    <3>1. u[i] = s[i]
      BY <1>1, <2>2
    <3>2. CASE Tracked(s[i]) /\ Tracked(t[j - n])
      <4>1. s[i] \in Items(s) /\ t[j - n] \in Items(t)
        BY <2>2, <3>2 DEF Items
      <4> QED BY <1>5, <2>2, <3>1, <4>1 DEF Before
    <3>3. CASE ~Tracked(s[i]) \/ ~Tracked(t[j - n])
      BY <2>2, <3>1, <3>3, FineUnlessTracked
    <3> QED BY <3>2, <3>3
  <2>3. CASE i - n \in 1..k /\ u[i] = t[i - n] /\ j - n \in 1..k /\ u[j] = t[j - n]
    <3>1. i - n < j - n
      BY <1>1
    <3>2. Fine(t[i - n], t[j - n])
      BY <1>5, <2>3, <3>1 DEF Sorted
    <3> QED BY <2>3, <3>2
  <2>4. ~(i \notin 1..n /\ j \in 1..n)
    BY <1>1
  <2> QED BY <1>2, <2>1, <2>2, <2>3, <2>4
<1> QED BY <1>3, <1>4, <1>5 DEF u

(* A sequence with nothing tracked is sorted.                                *)
LEMMA SortedIfUntracked ==
  ASSUME NEW s, Items(s) = {}
  PROVE  Sorted(s)
BY FineUnlessTracked DEF Items, Sorted

LEMMA NumbersSplit ==
  \A A, B : NumbersOf(A \cup B) = NumbersOf(A) \cup NumbersOf(B)
BY DEF NumbersOf

LEMMA NumbersAre == \A s : Numbers(s) = NumbersOf(Items(s))
BY DEF Numbers, NumbersOf, Items, Tracked

-----------------------------------------------------------------------------
(* What events carry.                                                        *)

LEMMA InFlightAre ==
  ASSUME NEW s \in Seq(Events)
  PROVE  InFlight(s) = NumbersOf(Items(Carried(s)))
<1> DEFINE c == Carried(s)
<1>1. /\ Len(c) = Len(s)
      /\ \A i \in 1..Len(s) : c[i] = IF s[i].type = "message_end" THEN s[i].msg ELSE NoMessage
  BY CarriedType
<1>2. NoMessage.role # "user"
  BY DEF NoMessage
<1> HIDE DEF c
<1>3. \A i \in 1..Len(s) : c[i].role = "user" <=> /\ s[i].type = "message_end"
                                                  /\ s[i].msg.role = "user"
  BY <1>1, <1>2
<1>4. NumbersOf(Items(c)) = {c[i].n : i \in {j \in 1..Len(s) : c[j].role = "user"}}
  BY <1>1 DEF NumbersOf, Items, Tracked
<1>5. NumbersOf(Items(c)) = InFlight(s)
  BY <1>1, <1>3, <1>4 DEF InFlight
<1> QED BY <1>5 DEF c

(* The events of messages carry those messages.                              *)
LEMMA CarriedMessages ==
  ASSUME NEW msgs \in Seq(Messages)
  PROVE  /\ MessageEvents(msgs) \in Seq(Events)
         /\ Items(Carried(MessageEvents(msgs))) = Items(msgs)
         /\ Sorted(msgs) => Sorted(Carried(MessageEvents(msgs)))
<1> DEFINE s == MessageEvents(msgs)
           c == Carried(s)
           n == Len(msgs)
<1>1. s \in Seq(Events) /\ n \in Nat
  BY MessageEventsAre
<1>2. /\ Len(c) = 2 * n
      /\ \A k \in 1..n : c[2 * k] = msgs[k] /\ 2 * k \in 1..(2 * n)
      /\ \A i \in 1..(2 * n) :
           \/ c[i] = NoMessage
           \/ /\ (i + 1) \div 2 \in 1..n /\ c[i] = msgs[(i + 1) \div 2]
              /\ i = 2 * ((i + 1) \div 2)
  BY CarriedMessageEvents
<1> HIDE DEF s, c
<1> HIDE DEF n
<1>7. \A i \in 1..(2 * n) : Tracked(c[i]) =>
        (i + 1) \div 2 \in 1..n /\ c[i] = msgs[(i + 1) \div 2] /\ i = 2 * ((i + 1) \div 2)
  BY <1>2, NoMessageUntracked
<1>8. \A k \in 1..n : c[2 * k] = msgs[k] /\ 2 * k \in 1..(2 * n)
  BY <1>2
<1>9. Items(c) = Items(msgs)
  <2>1. Items(c) \subseteq Items(msgs)
    <3> SUFFICES ASSUME NEW i \in 1..(2 * n), Tracked(c[i]) PROVE c[i] \in Items(msgs)
      BY <1>1, <1>2 DEF Items
    <3> DEFINE k == (i + 1) \div 2
    <3>1. k \in 1..n /\ c[i] = msgs[k]
      BY <1>7
    <3> HIDE DEF k
    <3> QED BY <3>1 DEF Items, n
  <2>2. Items(msgs) \subseteq Items(c)
    <3> SUFFICES ASSUME NEW k \in 1..n, Tracked(msgs[k]) PROVE msgs[k] \in Items(c)
      BY DEF Items, n
    <3>1. c[2 * k] = msgs[k] /\ 2 * k \in 1..Len(c)
      BY <1>1, <1>2, <1>8
    <3> QED BY <3>1 DEF Items
  <2> QED BY <2>1, <2>2
<1>10. ASSUME Sorted(msgs) PROVE Sorted(c)
  <2> SUFFICES ASSUME NEW i \in 1..(2 * n), NEW j \in 1..(2 * n), i < j PROVE Fine(c[i], c[j])
    BY <1>1, <1>2 DEF Sorted
  <2> DEFINE k == (i + 1) \div 2
             l == (j + 1) \div 2
  <2>1. CASE Tracked(c[i]) /\ Tracked(c[j])
    <3>1. /\ k \in 1..n /\ c[i] = msgs[k] /\ i = 2 * k
          /\ l \in 1..n /\ c[j] = msgs[l] /\ j = 2 * l
      BY <1>7, <2>1
    <3> HIDE DEF k, l
    <3>2. k < l
      BY <3>1
    <3> QED BY <1>10, <3>1, <3>2 DEF Sorted, n
  <2>2. CASE ~Tracked(c[i]) \/ ~Tracked(c[j])
    BY <2>2, FineUnlessTracked
  <2> QED BY <2>1, <2>2
<1> QED BY <1>1, <1>9, <1>10 DEF s, c

(* Events of other types carry nothing.                                      *)
LEMMA CarriedPlain ==
  ASSUME NEW s \in Seq(Events), \A i \in 1..Len(s) : s[i].type # "message_end"
  PROVE  Items(Carried(s)) = {} /\ Sorted(Carried(s))
<1>1. Items(Carried(s)) = {}
  BY CarriedType, NoMessageUntracked DEF Items
<1> QED BY <1>1, SortedIfUntracked

(* An event in front of those of messages.                                   *)
LEMMA CarriedAfter ==
  ASSUME NEW msgs \in Seq(Messages), NEW e \in Events, e.type # "message_end"
  PROVE  /\ Items(Carried(<<e>> \o MessageEvents(msgs))) = Items(msgs)
         /\ Sorted(msgs) => Sorted(Carried(<<e>> \o MessageEvents(msgs)))
<1> DEFINE s == MessageEvents(msgs)
           h == <<e>>
<1>1. /\ s \in Seq(Events) /\ Items(Carried(s)) = Items(msgs)
      /\ Sorted(msgs) => Sorted(Carried(s))
  BY CarriedMessages
<1>2. h \in Seq(Events) /\ \A i \in 1..Len(h) : h[i].type # "message_end"
  OBVIOUS
<1> HIDE DEF h, s
<1>3. Items(Carried(h)) = {} /\ Sorted(Carried(h))
  BY <1>2, CarriedPlain
<1>4. Carried(h \o s) = Carried(h) \o Carried(s)
  BY <1>1, <1>2, CarriedConcat
<1>5. Carried(h) \in Seq(Slots) /\ Carried(s) \in Seq(Slots)
  BY <1>1, <1>2, CarriedType
<1>6. /\ Items(Carried(h \o s)) = Items(Carried(h)) \cup Items(Carried(s))
      /\ Sorted(Carried(h \o s)) <=> /\ Sorted(Carried(h)) /\ Sorted(Carried(s))
                                     /\ Before(Items(Carried(h)), Items(Carried(s)))
  BY <1>4, <1>5, ItemsOfConcat
<1>7. Before({}, Items(Carried(s)))
  BY DEF Before
<1> QED BY <1>1, <1>3, <1>6, <1>7 DEF h, s

(* Messages nobody tracks.                                                   *)
LEMMA UntrackedMessages ==
  ASSUME NEW msgs \in Seq(Messages), \A i \in 1..Len(msgs) : ~Tracked(msgs[i])
  PROVE  Items(msgs) = {} /\ Items(Carried(MessageEvents(msgs))) = {}
<1>1. Items(msgs) = {}
  BY DEF Items
<1> QED BY <1>1, CarriedMessages

LEMMA AnswersUntracked ==
  /\ \A k \in Stops : \A n : ~Tracked(AssistantMessage(k, n))
  /\ \A n : ~Tracked(ToolResult(n))
BY DEF Tracked, AssistantMessage, ToolResult, Stops

-----------------------------------------------------------------------------
(* What the steps do to Kept.                                                *)

(* The next event is handled: its message enters the transcript.             *)
LEMMA KeptSaid ==
  ASSUME NEW msgs \in Seq(Slots), NEW x \in Slots, NEW air \in Seq(Slots),
         NEW steer, NEW follow, NEW given, NEW gone, NEW lost,
         Kept(msgs, <<x>> \o air, steer, follow, given, gone, lost)
  PROVE  Kept(msgs \o <<x>>, air, steer, follow, given, gone, lost)
<1> DEFINE X == Items(<<x>>)
           M == Items(msgs)
           A == Items(air)
<1>1. <<x>> \in Seq(Slots)
  OBVIOUS
<1>2. /\ Items(<<x>> \o air) = X \cup A
      /\ Sorted(<<x>> \o air) <=> Sorted(<<x>>) /\ Sorted(air) /\ Before(X, A)
  BY <1>1, ItemsOfConcat
<1>3. /\ Items(msgs \o <<x>>) = M \cup X
      /\ Sorted(msgs \o <<x>>) <=> Sorted(msgs) /\ Sorted(<<x>>) /\ Before(M, X)
  BY <1>1, ItemsOfConcat
<1> HIDE DEF X, M, A
<1>4. \A S : (M \cup X) \cup A \cup S = M \cup (X \cup A) \cup S
  OBVIOUS
<1>5. M = Items(msgs) /\ A = Items(air)
  BY DEF M, A
<1> QED BY <1>2, <1>3, <1>4, <1>5 DEF Kept, Before

(* Nothing tracked is announced, and then something else that is not.        *)
LEMMA KeptQuiet ==
  ASSUME NEW msgs, NEW air, NEW steer, NEW follow, NEW given, NEW gone, NEW lost,
         Kept(msgs, air, steer, follow, given, gone, lost), Items(air) = {},
         NEW next, Items(next) = {}
  PROVE  Kept(msgs, next, steer, follow, given, gone, lost)
<1>1. Sorted(next)
  BY SortedIfUntracked
<1> QED BY <1>1 DEF Kept

(* An untracked message enters the transcript.                               *)
LEMMA KeptUntracked ==
  ASSUME NEW msgs \in Seq(Slots), NEW x \in Slots, NEW air \in Seq(Slots), ~Tracked(x),
         NEW steer, NEW follow, NEW given, NEW gone, NEW lost,
         Kept(msgs, <<x>> \o air, steer, follow, given, gone, lost)
  PROVE  Kept(msgs, air, steer, follow, given, gone, lost)
<1>1. <<x>> \in Seq(Slots)
  OBVIOUS
<1>2. Items(<<x>>) = {}
  BY ItemsOfOne
<1>3. /\ Items(<<x>> \o air) = {} \cup Items(air)
      /\ Sorted(<<x>> \o air) => Sorted(air)
  BY <1>1, <1>2, ItemsOfConcat
<1>4. Items(<<x>> \o air) = Items(air)
  BY <1>3
<1> QED BY <1>3, <1>4 DEF Kept

(* What is announced is dropped.                                             *)
LEMMA KeptLost ==
  ASSUME NEW msgs, NEW air, NEW steer, NEW follow, NEW given, NEW gone, NEW lost,
         Kept(msgs, air, steer, follow, given, gone, lost), NEW next, Items(next) = {}
  PROVE  Kept(msgs, next, steer, follow, given, gone, lost \cup NumbersOf(Items(air)))
<1> DEFINE M == Items(msgs)
           A == Items(air)
           S == Items(steer)
           F == Items(follow)
<1>1. Sorted(next)
  BY SortedIfUntracked
<1>2. /\ Sorted(msgs) /\ Sorted(steer) /\ Sorted(follow)
      /\ Before(M, S \cup F) /\ Before(A, S \cup F) /\ Before(M, A) /\ Before(S, F)
      /\ \A m \in M \cup A : m.role = "user"
      /\ \A m \in S : m.role = "user" /\ m.kind = "steer"
      /\ \A m \in F : m.role = "user" /\ m.kind = "followUp"
      /\ NumbersOf(M \cup A \cup S \cup F) \cup gone \cup lost = 1..given
      /\ NumbersOf(M \cup A \cup S \cup F) \cap (gone \cup lost) = {}
      /\ gone \cap lost = {}
  BY DEF Kept, Before
<1>3. NumbersOf(A) \cap NumbersOf(M \cup {} \cup S \cup F) = {}
  BY <1>2 DEF Before, Fine, NumbersOf
<1>4. /\ NumbersOf(M \cup A \cup S \cup F) = NumbersOf(M \cup {} \cup S \cup F) \cup NumbersOf(A)
  BY DEF NumbersOf
<1> HIDE DEF M, A, S, F
<1>5. /\ NumbersOf(M \cup {} \cup S \cup F) \cup gone \cup (lost \cup NumbersOf(A)) = 1..given
      /\ NumbersOf(M \cup {} \cup S \cup F) \cap (gone \cup (lost \cup NumbersOf(A))) = {}
      /\ gone \cap (lost \cup NumbersOf(A)) = {}
  BY <1>2, <1>3, <1>4
<1>6. Before(M, {} \cup S \cup F) /\ Before({}, S \cup F)
  BY <1>2 DEF Before
<1> QED BY <1>1, <1>2, <1>5, <1>6 DEF Kept, M, A, S, F

(* The first messages of a queue are announced.                              *)
LEMMA KeptSteered ==
  ASSUME NEW msgs, NEW air, NEW taken \in Seq(Slots), NEW rest \in Seq(Slots), NEW follow,
         NEW given, NEW gone, NEW lost,
         Kept(msgs, air, taken \o rest, follow, given, gone, lost), Items(air) = {},
         NEW next, Items(next) = Items(taken), Sorted(taken) => Sorted(next)
  PROVE  Kept(msgs, next, rest, follow, given, gone, lost)
<1>1. /\ Items(taken \o rest) = Items(taken) \cup Items(rest)
      /\ Sorted(taken \o rest) <=> /\ Sorted(taken) /\ Sorted(rest)
                                   /\ Before(Items(taken), Items(rest))
  BY ItemsOfConcat
<1> DEFINE M == Items(msgs)
           T == Items(taken)
           S == Items(rest)
           F == Items(follow)
<1>2. /\ Sorted(msgs) /\ Sorted(taken) /\ Sorted(rest) /\ Sorted(follow)
      /\ Before(T, S) /\ Before(M, {} \cup (T \cup S) \cup F) /\ Before(T \cup S, F)
      /\ \A m \in M : m.role = "user"
      /\ \A m \in T \cup S : m.role = "user" /\ m.kind = "steer"
      /\ \A m \in F : m.role = "user" /\ m.kind = "followUp"
      /\ NumbersOf(M \cup {} \cup (T \cup S) \cup F) \cup gone \cup lost = 1..given
      /\ NumbersOf(M \cup {} \cup (T \cup S) \cup F) \cap (gone \cup lost) = {}
      /\ gone \cap lost = {}
  BY <1>1 DEF Kept
<1>3. M \cup {} \cup (T \cup S) \cup F = M \cup T \cup S \cup F
  OBVIOUS
<1> HIDE DEF M, T, S, F
<1>4. Before(M, T \cup S \cup F) /\ Before(T, S \cup F) /\ Before(S, F)
  BY <1>2 DEF Before
<1> QED BY <1>2, <1>3, <1>4 DEF Kept, M, T, S, F

LEMMA KeptFollowed ==
  ASSUME NEW msgs, NEW air, NEW taken \in Seq(Slots), NEW rest \in Seq(Slots), NEW steer,
         NEW given, NEW gone, NEW lost,
         Kept(msgs, air, steer, taken \o rest, given, gone, lost), Items(air) = {},
         NEW next, Items(next) = Items(taken), Sorted(taken) => Sorted(next)
  PROVE  Kept(msgs, next, steer, rest, given, gone, lost)
<1>1. /\ Items(taken \o rest) = Items(taken) \cup Items(rest)
      /\ Sorted(taken \o rest) <=> /\ Sorted(taken) /\ Sorted(rest)
                                   /\ Before(Items(taken), Items(rest))
  BY ItemsOfConcat
<1> DEFINE M == Items(msgs)
           T == Items(taken)
           S == Items(steer)
           F == Items(rest)
<1>2. /\ Sorted(msgs) /\ Sorted(taken) /\ Sorted(rest) /\ Sorted(steer)
      /\ Before(T, F) /\ Before(M, {} \cup S \cup (T \cup F)) /\ Before(S, T \cup F)
      /\ \A m \in M : m.role = "user"
      /\ \A m \in S : m.role = "user" /\ m.kind = "steer"
      /\ \A m \in T \cup F : m.role = "user" /\ m.kind = "followUp"
      /\ NumbersOf(M \cup {} \cup S \cup (T \cup F)) \cup gone \cup lost = 1..given
      /\ NumbersOf(M \cup {} \cup S \cup (T \cup F)) \cap (gone \cup lost) = {}
      /\ gone \cap lost = {}
  BY <1>1 DEF Kept
<1>3. M \cup {} \cup S \cup (T \cup F) = M \cup T \cup S \cup F
  OBVIOUS
<1> HIDE DEF M, T, S, F
<1>4. Before(M, T \cup S \cup F) /\ Before(T, S \cup F) /\ Before(S, F)
  BY <1>2 DEF Before, Fine
<1> QED BY <1>2, <1>3, <1>4 DEF Kept, M, T, S, F

(* A new message, announced at once or put at the end of a queue: its number *)
(* is greater than any.                                                      *)
LEMMA KeptPrompted ==
  ASSUME NEW msgs, NEW air, NEW steer, NEW follow, NEW given \in Nat, NEW gone, NEW lost,
         Kept(msgs, air, steer, follow, given, gone, lost), Items(air) = {},
         NEW next, Items(next) = {UserMessage("prompt", given + 1)}, Sorted(next)
  PROVE  Kept(msgs, next, steer, follow, given + 1, gone, lost)
<1> DEFINE M == Items(msgs)
           S == Items(steer)
           F == Items(follow)
           new == UserMessage("prompt", given + 1)
<1>1. /\ Sorted(msgs) /\ Sorted(steer) /\ Sorted(follow)
      /\ Before(M, {} \cup S \cup F) /\ Before(S, F)
      /\ \A m \in M : m.role = "user"
      /\ \A m \in S : m.role = "user" /\ m.kind = "steer"
      /\ \A m \in F : m.role = "user" /\ m.kind = "followUp"
      /\ NumbersOf(M \cup {} \cup S \cup F) \cup gone \cup lost = 1..given
      /\ NumbersOf(M \cup {} \cup S \cup F) \cap (gone \cup lost) = {}
      /\ gone \cap lost = {}
  BY DEF Kept
<1>2. new.role = "user" /\ new.kind = "prompt" /\ new.n = given + 1
  BY DEF UserMessage
<1> HIDE DEF M, S, F, new
<1>3. NumbersOf(M \cup {new} \cup S \cup F) = NumbersOf(M \cup {} \cup S \cup F) \cup {given + 1}
  BY <1>2 DEF NumbersOf
<1>4. \A m \in M \cup {} \cup S \cup F : m.n \in NumbersOf(M \cup {} \cup S \cup F)
  BY <1>1 DEF NumbersOf
<1>5. \A m \in M \cup {} \cup S \cup F : m.n \in 1..given
  BY <1>1, <1>4
<1>6. Before(M, {new} \cup S \cup F) /\ Before({new}, S \cup F)
  BY <1>1, <1>2, <1>5 DEF Before, Fine
<1>7. given + 1 \notin 1..given /\ 1..(given + 1) = (1..given) \cup {given + 1}
  OBVIOUS
<1>8. /\ NumbersOf(M \cup {new} \cup S \cup F) \cup gone \cup lost = 1..(given + 1)
      /\ NumbersOf(M \cup {new} \cup S \cup F) \cap (gone \cup lost) = {}
  <2> DEFINE old == NumbersOf(M \cup {} \cup S \cup F)
             now == NumbersOf(M \cup {new} \cup S \cup F)
  <2>1. now = old \cup {given + 1} /\ old \cup gone \cup lost = 1..given
        /\ old \cap (gone \cup lost) = {}
    BY <1>1, <1>3
  <2> HIDE DEF old, now
  <2>2. now \cup gone \cup lost = 1..(given + 1)
    BY <2>1, <1>7
  <2>3. given + 1 \notin gone \cup lost
    BY <2>1, <1>7
  <2>4. now \cap (gone \cup lost) = {}
    BY <2>1, <2>3
  <2> QED BY <2>2, <2>4 DEF now
<1> QED BY <1>1, <1>2, <1>6, <1>8 DEF Kept, M, S, F, new

LEMMA KeptSteer ==
  ASSUME NEW msgs, NEW air, NEW steer \in Seq(Slots), NEW follow, NEW given \in Nat,
         NEW gone, NEW lost, Kept(msgs, air, steer, follow, given, gone, lost)
  PROVE  Kept(msgs, air, steer \o <<UserMessage("steer", given + 1)>>, follow, given + 1,
              gone, lost)
<1> DEFINE M == Items(msgs)
           A == Items(air)
           S == Items(steer)
           F == Items(follow)
           new == UserMessage("steer", given + 1)
           next == steer \o <<new>>
<1>1. /\ Sorted(msgs) /\ Sorted(air) /\ Sorted(steer) /\ Sorted(follow)
      /\ Before(M, A \cup S \cup F) /\ Before(A, S \cup F) /\ Before(S, F)
      /\ \A m \in M \cup A : m.role = "user"
      /\ \A m \in S : m.role = "user" /\ m.kind = "steer"
      /\ \A m \in F : m.role = "user" /\ m.kind = "followUp"
      /\ NumbersOf(M \cup A \cup S \cup F) \cup gone \cup lost = 1..given
      /\ NumbersOf(M \cup A \cup S \cup F) \cap (gone \cup lost) = {}
      /\ gone \cap lost = {}
  BY DEF Kept
<1>2. /\ new.role = "user" /\ new.kind = "steer" /\ new.n = given + 1 /\ Tracked(new)
  BY DEF UserMessage, Tracked
<1>3. new \in Slots
  BY MessageTypes DEF Slots, UserKinds
<1>4. /\ Items(next) = S \cup {new}
      /\ Sorted(next) <=> Sorted(steer) /\ Before(S, {new})
  <2>1. <<new>> \in Seq(Slots)
    BY <1>3
  <2> HIDE DEF new
  <2>2. Items(<<new>>) = {new} /\ Sorted(<<new>>)
    BY <1>2, ItemsOfOne
  <2> QED BY <2>1, <2>2, ItemsOfConcat
<1> HIDE DEF M, A, S, F, new, next
<1>5. NumbersOf(M \cup A \cup (S \cup {new}) \cup F) = NumbersOf(M \cup A \cup S \cup F) \cup {given + 1}
  BY <1>2 DEF NumbersOf
<1>6. \A m \in M \cup A \cup S \cup F : m.n \in NumbersOf(M \cup A \cup S \cup F)
  BY <1>1 DEF NumbersOf
<1>7. \A m \in M \cup A \cup S \cup F : m.n \in 1..given
  BY <1>1, <1>6
<1>8. /\ Before(M, A \cup (S \cup {new}) \cup F) /\ Before(A, (S \cup {new}) \cup F)
      /\ Before(S \cup {new}, F) /\ Before(S, {new})
  BY <1>1, <1>2, <1>7 DEF Before, Fine
<1>9. given + 1 \notin 1..given /\ 1..(given + 1) = (1..given) \cup {given + 1}
  OBVIOUS
<1>10. /\ NumbersOf(M \cup A \cup (S \cup {new}) \cup F) \cup gone \cup lost = 1..(given + 1)
       /\ NumbersOf(M \cup A \cup (S \cup {new}) \cup F) \cap (gone \cup lost) = {}
  BY <1>1, <1>5, <1>9
<1>11. \A m \in S \cup {new} : m.role = "user" /\ m.kind = "steer"
  BY <1>1, <1>2
<1>12. Kept(msgs, air, next, follow, given + 1, gone, lost)
  BY <1>1, <1>4, <1>8, <1>10, <1>11 DEF Kept, M, A, F
<1> QED BY <1>12 DEF next, new

LEMMA KeptFollowUp ==
  ASSUME NEW msgs, NEW air, NEW steer, NEW follow \in Seq(Slots), NEW given \in Nat,
         NEW gone, NEW lost, Kept(msgs, air, steer, follow, given, gone, lost)
  PROVE  Kept(msgs, air, steer, follow \o <<UserMessage("followUp", given + 1)>>, given + 1,
              gone, lost)
<1> DEFINE M == Items(msgs)
           A == Items(air)
           S == Items(steer)
           F == Items(follow)
           new == UserMessage("followUp", given + 1)
           next == follow \o <<new>>
<1>1. /\ Sorted(msgs) /\ Sorted(air) /\ Sorted(steer) /\ Sorted(follow)
      /\ Before(M, A \cup S \cup F) /\ Before(A, S \cup F) /\ Before(S, F)
      /\ \A m \in M \cup A : m.role = "user"
      /\ \A m \in S : m.role = "user" /\ m.kind = "steer"
      /\ \A m \in F : m.role = "user" /\ m.kind = "followUp"
      /\ NumbersOf(M \cup A \cup S \cup F) \cup gone \cup lost = 1..given
      /\ NumbersOf(M \cup A \cup S \cup F) \cap (gone \cup lost) = {}
      /\ gone \cap lost = {}
  BY DEF Kept
<1>2. /\ new.role = "user" /\ new.kind = "followUp" /\ new.n = given + 1 /\ Tracked(new)
  BY DEF UserMessage, Tracked
<1>3. new \in Slots
  BY MessageTypes DEF Slots, UserKinds
<1>4. /\ Items(next) = F \cup {new}
      /\ Sorted(next) <=> Sorted(follow) /\ Before(F, {new})
  <2>1. <<new>> \in Seq(Slots)
    BY <1>3
  <2> HIDE DEF new
  <2>2. Items(<<new>>) = {new} /\ Sorted(<<new>>)
    BY <1>2, ItemsOfOne
  <2> QED BY <2>1, <2>2, ItemsOfConcat
<1> HIDE DEF M, A, S, F, new, next
<1>5. NumbersOf(M \cup A \cup S \cup (F \cup {new})) = NumbersOf(M \cup A \cup S \cup F) \cup {given + 1}
  BY <1>2 DEF NumbersOf
<1>6. \A m \in M \cup A \cup S \cup F : m.n \in NumbersOf(M \cup A \cup S \cup F)
  BY <1>1 DEF NumbersOf
<1>7. \A m \in M \cup A \cup S \cup F : m.n \in 1..given
  BY <1>1, <1>6
<1>8. /\ Before(M, A \cup S \cup (F \cup {new})) /\ Before(A, S \cup (F \cup {new}))
      /\ Before(S, F \cup {new}) /\ Before(F, {new})
  BY <1>1, <1>2, <1>7 DEF Before, Fine
<1>9. given + 1 \notin 1..given /\ 1..(given + 1) = (1..given) \cup {given + 1}
  OBVIOUS
<1>10. /\ NumbersOf(M \cup A \cup S \cup (F \cup {new})) \cup gone \cup lost = 1..(given + 1)
       /\ NumbersOf(M \cup A \cup S \cup (F \cup {new})) \cap (gone \cup lost) = {}
  BY <1>1, <1>5, <1>9
<1>11. \A m \in F \cup {new} : m.role = "user" /\ m.kind = "followUp"
  BY <1>1, <1>2
<1>12. Kept(msgs, air, steer, next, given + 1, gone, lost)
  BY <1>1, <1>4, <1>8, <1>10, <1>11 DEF Kept, M, A, S
<1> QED BY <1>12 DEF next, new

(* The queues are cleared, or the transcript too.                            *)
LEMMA KeptCleared ==
  ASSUME NEW msgs, NEW air, NEW steer, NEW follow, NEW given, NEW gone, NEW lost,
         Kept(msgs, air, steer, follow, given, gone, lost)
  PROVE  /\ Kept(msgs, air, <<>>, <<>>, given,
                 gone \cup NumbersOf(Items(steer) \cup Items(follow)), lost)
         /\ Kept(<<>>, air, <<>>, <<>>, given,
                 gone \cup NumbersOf(Items(steer) \cup Items(follow) \cup Items(msgs)), lost)
<1> DEFINE M == Items(msgs)
           A == Items(air)
           S == Items(steer)
           F == Items(follow)
           Out(Q) == NumbersOf(Q)
<1>1. /\ Sorted(msgs) /\ Sorted(air) /\ Sorted(steer) /\ Sorted(follow)
      /\ Before(M, A \cup S \cup F) /\ Before(A, S \cup F) /\ Before(S, F)
      /\ \A m \in M \cup A : m.role = "user"
      /\ NumbersOf(M \cup A \cup S \cup F) \cup gone \cup lost = 1..given
      /\ NumbersOf(M \cup A \cup S \cup F) \cap (gone \cup lost) = {}
      /\ gone \cap lost = {}
  BY DEF Kept
<1>2. Items(<<>>) = {} /\ Sorted(<<>>)
  BY ItemsOfNone
<1> HIDE DEF M, A, S, F
<1>3. /\ NumbersOf(S \cup F) \cap NumbersOf(M \cup A \cup {} \cup {}) = {}
      /\ NumbersOf(S \cup F \cup M) \cap NumbersOf({} \cup A \cup {} \cup {}) = {}
  BY <1>1 DEF Before, Fine, NumbersOf
<1>4. /\ NumbersOf(M \cup A \cup S \cup F) = NumbersOf(M \cup A \cup {} \cup {}) \cup NumbersOf(S \cup F)
      /\ NumbersOf(M \cup A \cup S \cup F) = NumbersOf({} \cup A \cup {} \cup {}) \cup NumbersOf(S \cup F \cup M)
  BY DEF NumbersOf
<1>5. Before(M, A \cup {} \cup {}) /\ Before(A, {} \cup {}) /\ Before({}, {}) /\ Before({}, A \cup {} \cup {})
  BY <1>1 DEF Before
<1>6. Kept(msgs, air, <<>>, <<>>, given, gone \cup NumbersOf(S \cup F), lost)
  <2>1. /\ NumbersOf(M \cup A \cup {} \cup {}) \cup (gone \cup NumbersOf(S \cup F)) \cup lost = 1..given
        /\ NumbersOf(M \cup A \cup {} \cup {}) \cap ((gone \cup NumbersOf(S \cup F)) \cup lost) = {}
        /\ (gone \cup NumbersOf(S \cup F)) \cap lost = {}
    BY <1>1, <1>3, <1>4
  <2> QED BY <1>1, <1>2, <1>5, <2>1 DEF Kept, M, A
<1>7. Kept(<<>>, air, <<>>, <<>>, given, gone \cup NumbersOf(S \cup F \cup M), lost)
  <2>1. /\ NumbersOf({} \cup A \cup {} \cup {}) \cup (gone \cup NumbersOf(S \cup F \cup M)) \cup lost = 1..given
        /\ NumbersOf({} \cup A \cup {} \cup {}) \cap ((gone \cup NumbersOf(S \cup F \cup M)) \cup lost) = {}
        /\ (gone \cup NumbersOf(S \cup F \cup M)) \cap lost = {}
    BY <1>1, <1>3, <1>4
  <2> QED BY <1>1, <1>2, <1>5, <2>1 DEF Kept, A
<1> QED BY <1>6, <1>7 DEF M, S, F

-----------------------------------------------------------------------------
(* The steps.                                                                *)

LEMMA DrainSplits ==
  ASSUME NEW queue \in Seq(Given), NEW taken \in Drains(queue) \cup {<<>>}
  PROVE  queue = taken \o Rest(queue, taken)
<1>0. Len(queue) \in Nat
  OBVIOUS
<1>1. CASE taken = <<>>
  BY <1>0, <1>1 DEF Rest
<1>2. CASE taken = queue
  BY <1>0, <1>2 DEF Rest
<1>3. CASE queue # <<>> /\ taken = <<queue[1]>>
  <2>1. Len(taken) + 1 = 2
    BY <1>3
  <2> QED BY <1>3, <2>1, HeadAndRest DEF Rest
<1> QED BY <1>1, <1>2, <1>3 DEF Drains

LEMMA GivenSlots == \A msgs \in Seq(Given) : msgs \in Seq(Messages) /\ msgs \in Seq(Slots)
<1>1. Given \subseteq Messages /\ Given \subseteq Slots
  BY DEF Given, Spoken, Slots
<1> QED BY <1>1, SeqMonotonic

(* Every state of the agent: its sequences have their types, and only the    *)
(* active run awaits events.                                                 *)
LEMMA SteadyFacts ==
  ASSUME Steady
  PROVE  /\ messages \in Seq(Slots) /\ Air \in Seq(Slots) /\ sent \in Nat
         /\ steeringQueue \in Seq(Given) /\ followUpQueue \in Seq(Given)
         /\ steeringQueue \in Seq(Slots) /\ followUpQueue \in Seq(Slots)
         /\ \A r \in Runs : out[r] \in Seq(Events)
         /\ \A r \in Runs : r # activeRun => out[r] = <<>>
         /\ loop \in [Runs -> LoopRecord] /\ out \in [Runs -> Seq(Events)]
         /\ NoRun \notin Runs /\ activeRun \in Runs \cup {NoRun}
         /\ Items(Carried(<<>>)) = {}
<1>1. /\ messages \in Seq(Messages) /\ sent \in Nat /\ activeRun \in Runs \cup {NoRun}
      /\ steeringQueue \in Seq(Given) /\ followUpQueue \in Seq(Given)
      /\ loop \in [Runs -> LoopRecord] /\ out \in [Runs -> Seq(Events)]
  BY DEF Steady, AgentTypes, LoopShape, LoopTypeOK
<1>2. messages \in Seq(Slots)
  <2>1. Messages \subseteq Slots
    BY DEF Slots
  <2> QED BY <1>1, <2>1, SeqMonotonic
<1>3. \A r \in Runs : r # activeRun => out[r] = <<>>
  BY DEF Steady, Place
<1>4. \A r \in Runs : out[r] \in Seq(Events)
  BY <1>1
<1>5. Air \in Seq(Slots)
  <2>1. <<>> \in Seq(Slots)
    OBVIOUS
  <2> QED BY <1>1, <1>4, <2>1, CarriedType DEF Air
<1>6. Items(Carried(<<>>)) = {}
  <2>1. <<>> \in Seq(Events) /\ \A i \in 1..Len(<<>>) : <<>>[i].type # "message_end"
    OBVIOUS
  <2> QED BY <2>1, CarriedPlain
<1> QED BY <1>1, <1>2, <1>3, <1>4, <1>5, <1>6, GivenSlots, NoRunIsNoRun

(* A step of the loop announces nothing of the user.                         *)
LEMMA LoopStepUntracked ==
  ASSUME Steady, NEW r \in Runs, LoopStep(r)
  PROVE  \/ out'[r] = out[r]
         \/ out[r] = <<>> /\ Items(Carried(out'[r])) = {}
<1>1. LoopTypeOK
  BY DEF Steady, AgentTypes, LoopShape
<1>2. ASSUME Carried(out'[r]) \in Seq(Answers \cup {NoMessage})
      PROVE  Items(Carried(out'[r])) = {}
  <2> DEFINE c == Carried(out'[r])
  <2>1. \A i \in 1..Len(c) : c[i] \in Answers \cup {NoMessage}
    BY <1>2
  <2> HIDE DEF c
  <2>2. \A i \in 1..Len(c) : ~Tracked(c[i])
    BY <2>1, NoMessageUntracked DEF Answers, Tracked
  <2> QED BY <2>2 DEF c, Items
<1> QED BY <1>1, <1>2, LoopStepAnswers

LEMMA Announces ==
  ASSUME NEW msgs \in Seq(Messages), NEW s,
         s = MessageEvents(msgs) \/ s = <<Event("turn_start")>> \o MessageEvents(msgs)
  PROVE  Items(Carried(s)) = Items(msgs) /\ (Sorted(msgs) => Sorted(Carried(s)))
<1>1. Event("turn_start") \in Events /\ Event("turn_start").type # "message_end"
  BY EventShapes DEF EventTypes, Event
<1> QED BY <1>1, CarriedMessages, CarriedAfter

LEMMA DeliveredStart ==
  ASSUME Steady, Delivered, NEW r \in Runs, Client(r)
  PROVE  Delivered'
<1>0. /\ sent \in Nat /\ steeringQueue \in Seq(Given) /\ followUpQueue \in Seq(Given)
      /\ out \in [Runs -> Seq(Events)] /\ NoRun \notin Runs
  BY SteadyFacts
<1>1. ASSUME NEW msgs \in Seq(Given), StartRun(r, msgs)
      PROVE  /\ Air = <<>> /\ Items(Air) = {}
             /\ Items(Air') = Items(msgs) /\ (Sorted(msgs) => Sorted(Air'))
             /\ messages' = messages /\ cleared' = cleared /\ dropped' = dropped
  <2>1. /\ activeRun = NoRun /\ activeRun' = r
        /\ out'[r] = <<Event("turn_start")>> \o MessageEvents(msgs)
    BY <1>0, <1>1 DEF StartRun, RunAgentLoop
  <2>2. Air = <<>> /\ Air' = Carried(out'[r])
    BY <1>0, <2>1 DEF Air
  <2>3. msgs \in Seq(Messages)
    BY GivenSlots
  <2>4. Items(Carried(out'[r])) = Items(msgs) /\ (Sorted(msgs) => Sorted(Carried(out'[r])))
    BY <2>1, <2>3, Announces
  <2> QED BY <1>1, <2>2, <2>4, ItemsOfNone DEF StartRun
<1>2. Kept(messages, Air, steeringQueue, followUpQueue, sent, cleared, dropped)
  BY DEF Delivered
<1>3. CASE Prompt(r)
  <2> DEFINE m == UserMessage("prompt", sent + 1)
  <2>1. /\ StartRun(r, <<m>>) /\ sent' = sent + 1
        /\ steeringQueue' = steeringQueue /\ followUpQueue' = followUpQueue
    BY <1>3 DEF Prompt, queues
  <2>0. m \in Given /\ m.role = "user"
    <3>1. sent + 1 \in Nat
      BY <1>0
    <3>2. m \in Given
      BY <3>1, GivenTypes
    <3> QED BY <3>2 DEF Given
  <2> HIDE DEF m
  <2>2. <<m>> \in Seq(Given) /\ Tracked(m)
    BY <2>0 DEF Tracked
  <2>3. Items(<<m>>) = {m} /\ Sorted(<<m>>)
    BY <2>2, ItemsOfOne
  <2>4. /\ Items(Air) = {} /\ Items(Air') = {m} /\ Sorted(Air')
        /\ messages' = messages /\ cleared' = cleared /\ dropped' = dropped
    BY <1>1, <2>1, <2>2, <2>3
  <2>5. Kept(messages, Air', steeringQueue, followUpQueue, sent + 1, cleared, dropped)
    BY <1>0, <1>2, <2>4, KeptPrompted DEF m
  <2> QED BY <2>1, <2>4, <2>5 DEF Delivered
<1>4. CASE ContinueWithSteering(r)
  <2>1. PICK taken \in Drains(steeringQueue) :
          StartRun(r, taken) /\ steeringQueue' = Rest(steeringQueue, taken)
    BY <1>4 DEF ContinueWithSteering
  <2>2. followUpQueue' = followUpQueue /\ sent' = sent
    BY <1>4 DEF ContinueWithSteering
  <2>3. /\ taken \in Seq(Given) /\ steeringQueue' \in Seq(Given)
        /\ steeringQueue = taken \o steeringQueue'
    BY <1>0, <2>1, DrainsType, DrainSplits
  <2>4. taken \in Seq(Slots) /\ steeringQueue' \in Seq(Slots)
    BY <2>3, GivenSlots
  <2>5. /\ Items(Air) = {} /\ Items(Air') = Items(taken) /\ (Sorted(taken) => Sorted(Air'))
        /\ messages' = messages /\ cleared' = cleared /\ dropped' = dropped
    BY <1>1, <2>1, <2>3
  <2>6. Kept(messages, Air', steeringQueue', followUpQueue, sent, cleared, dropped)
    BY <1>2, <2>3, <2>4, <2>5, KeptSteered
  <2> QED BY <2>2, <2>5, <2>6 DEF Delivered
<1>5. CASE ContinueWithFollowUps(r)
  <2>1. PICK taken \in Drains(followUpQueue) :
          StartRun(r, taken) /\ followUpQueue' = Rest(followUpQueue, taken)
    BY <1>5 DEF ContinueWithFollowUps
  <2>2. steeringQueue' = steeringQueue /\ sent' = sent
    BY <1>5 DEF ContinueWithFollowUps
  <2>3. /\ taken \in Seq(Given) /\ followUpQueue' \in Seq(Given)
        /\ followUpQueue = taken \o followUpQueue'
    BY <1>0, <2>1, DrainsType, DrainSplits
  <2>4. taken \in Seq(Slots) /\ followUpQueue' \in Seq(Slots)
    BY <2>3, GivenSlots
  <2>5. /\ Items(Air) = {} /\ Items(Air') = Items(taken) /\ (Sorted(taken) => Sorted(Air'))
        /\ messages' = messages /\ cleared' = cleared /\ dropped' = dropped
    BY <1>1, <2>1, <2>3
  <2>6. Kept(messages, Air', steeringQueue, followUpQueue', sent, cleared, dropped)
    BY <1>2, <2>3, <2>4, <2>5, KeptFollowed
  <2> QED BY <2>2, <2>5, <2>6 DEF Delivered
<1>6. CASE Continue(r)
  <2>1. StartRun(r, <<>>) /\ <<>> \in Seq(Given)
    BY <1>6 DEF Continue
  <2>2. steeringQueue' = steeringQueue /\ followUpQueue' = followUpQueue /\ sent' = sent
    BY <1>6 DEF Continue, queues
  <2>3. /\ Items(Air) = {} /\ Items(Air') = {}
        /\ messages' = messages /\ cleared' = cleared /\ dropped' = dropped
    BY <1>1, <2>1, ItemsOfNone
  <2>4. Kept(messages, Air', steeringQueue, followUpQueue, sent, cleared, dropped)
    BY <1>2, <2>3, KeptQuiet
  <2> QED BY <2>2, <2>3, <2>4 DEF Delivered
<1> QED BY <1>3, <1>4, <1>5, <1>6 DEF Client

(* The polls take from the front of a queue and announce what they took.     *)
LEMMA DeliveredPolls ==
  ASSUME Steady, Delivered, NEW r \in Runs, PollSteering(r) \/ PollFollowUps(r)
  PROVE  Delivered'
<1>0. /\ steeringQueue \in Seq(Given) /\ followUpQueue \in Seq(Given)
      /\ out \in [Runs -> Seq(Events)] /\ NoRun \notin Runs /\ Items(Carried(<<>>)) = {}
  BY SteadyFacts
<1>1. /\ r = activeRun /\ activeRun' = activeRun /\ out[r] = <<>>
      /\ messages' = messages /\ sent' = sent /\ cleared' = cleared /\ dropped' = dropped
  <2>1. loop[r].pc \in {"steering", "followUp"} /\ out[r] = <<>>
    BY DEF PollSteering, PollFollowUps, SteeringPolled, FollowUpPolled, At, Awaited
  <2>2. r = activeRun
    BY <2>1 DEF Steady, Place
  <2> QED BY <2>1, <2>2 DEF PollSteering, PollFollowUps, stateVars, history
<1>2. /\ Air = Carried(<<>>) /\ Items(Air) = {} /\ Air' = Carried(out'[r])
  BY <1>0, <1>1 DEF Air
<1>3. Kept(messages, Air, steeringQueue, followUpQueue, sent, cleared, dropped)
  BY DEF Delivered
<1>4. ASSUME NEW taken \in Seq(Given), SteeringPolled(r, taken) \/ FollowUpPolled(r, taken)
      PROVE  Items(Air') = Items(taken) /\ (Sorted(taken) => Sorted(Air'))
  <2>0. taken \in Seq(Messages) /\ MessageEvents(taken) \in Seq(Events)
    BY GivenSlots, CarriedMessages
  <2>1. CASE EnterTurn(r, taken)
    <3> DEFINE s == MessageEvents(taken)
    <3>1. out'[r] = (IF loop[r].first THEN <<>> ELSE <<Event("turn_start")>>) \o s
      BY <1>0, <2>1 DEF EnterTurn
    <3> HIDE DEF s
    <3>2. <<>> \o s = s
      BY <2>0, ConcatEmptySeq DEF s
    <3>3. out'[r] = s \/ out'[r] = <<Event("turn_start")>> \o s
      BY <3>1, <3>2
    <3> QED BY <1>2, <2>0, <3>3, Announces DEF s
  <2>2. CASE taken = <<>> /\ out'[r] = <<>>
    BY <1>2, <2>2, <1>0, ItemsOfNone, SortedIfUntracked
  <2>3. CASE taken = <<>> /\ out'[r] = <<Event("agent_end")>>
    <3> DEFINE s == <<Event("agent_end")>>
    <3>1. s \in Seq(Events) /\ \A i \in 1..Len(s) : s[i].type # "message_end"
      BY EventShapes DEF EventTypes, Event
    <3> HIDE DEF s
    <3>2. Items(Carried(s)) = {} /\ Sorted(Carried(s))
      BY <3>1, CarriedPlain
    <3> QED BY <1>2, <2>3, <3>2, ItemsOfNone DEF s
  <2>4. EnterTurn(r, taken) \/ (taken = <<>> /\ out'[r] \in {<<>>, <<Event("agent_end")>>})
    BY <1>0, <1>1, <1>4 DEF SteeringPolled, FollowUpPolled
  <2> QED BY <2>1, <2>2, <2>3, <2>4
<1>5. CASE PollSteering(r)
  <2>1. PICK taken \in IF r \in skipPoll THEN {<<>>} ELSE Drains(steeringQueue) :
          SteeringPolled(r, taken) /\ steeringQueue' = Rest(steeringQueue, taken)
    BY <1>5 DEF PollSteering
  <2>2. followUpQueue' = followUpQueue
    BY <1>5 DEF PollSteering
  <2>3. taken \in Drains(steeringQueue) \cup {<<>>}
    BY <2>1
  <2>4. /\ taken \in Seq(Given) /\ steeringQueue' \in Seq(Given)
        /\ steeringQueue = taken \o steeringQueue'
    <3>1. taken \in Seq(Given)
      <4>1. <<>> \in Seq(Given)
        OBVIOUS
      <4> QED BY <1>0, <2>3, <4>1, DrainsType
    <3>2. steeringQueue' \in Seq(Given)
      BY <1>5, PollsType DEF Steady
    <3>3. steeringQueue = taken \o steeringQueue'
      BY <1>0, <2>1, <2>3, DrainSplits
    <3> QED BY <3>1, <3>2, <3>3
  <2>5. taken \in Seq(Slots) /\ steeringQueue' \in Seq(Slots)
    BY <2>4, GivenSlots
  <2>6. Items(Air') = Items(taken) /\ (Sorted(taken) => Sorted(Air'))
    BY <1>4, <2>1, <2>4
  <2>7. Kept(messages, Air', steeringQueue', followUpQueue, sent, cleared, dropped)
    BY <1>2, <1>3, <2>4, <2>5, <2>6, KeptSteered
  <2> QED BY <1>1, <2>2, <2>7 DEF Delivered
<1>6. CASE PollFollowUps(r)
  <2>1. PICK taken \in Drains(followUpQueue) :
          FollowUpPolled(r, taken) /\ followUpQueue' = Rest(followUpQueue, taken)
    BY <1>6 DEF PollFollowUps
  <2>2. steeringQueue' = steeringQueue
    BY <1>6 DEF PollFollowUps
  <2>4. /\ taken \in Seq(Given) /\ followUpQueue' \in Seq(Given)
        /\ followUpQueue = taken \o followUpQueue'
    BY <1>0, <2>1, DrainsType, DrainSplits
  <2>5. taken \in Seq(Slots) /\ followUpQueue' \in Seq(Slots)
    BY <2>4, GivenSlots
  <2>6. Items(Air') = Items(taken) /\ (Sorted(taken) => Sorted(Air'))
    BY <1>4, <2>1, <2>4
  <2>7. Kept(messages, Air', steeringQueue, followUpQueue', sent, cleared, dropped)
    BY <1>2, <1>3, <2>4, <2>5, <2>6, KeptFollowed
  <2> QED BY <1>1, <2>2, <2>7 DEF Delivered
<1> QED BY <1>5, <1>6

(* The head of the events: it is reduced, and the rest is still announced.   *)
LEMMA HeadHandled ==
  ASSUME Steady, Delivered, NEW r \in Runs, out[r] # <<>>, Reduce(r, out[r][1])
  PROVE  /\ r = activeRun /\ Tail(out[r]) \in Seq(Events)
         /\ Kept(messages', Carried(Tail(out[r])), steeringQueue, followUpQueue, sent,
                 cleared, dropped)
<1>0. /\ out[r] \in Seq(Events) /\ messages \in Seq(Slots) /\ NoRun \notin Runs
      /\ r = activeRun
  BY SteadyFacts
<1> DEFINE e == out[r][1]
           t == Tail(out[r])
           x == IF e.type = "message_end" THEN e.msg ELSE NoMessage
<1>1. e \in Events /\ t \in Seq(Events) /\ out[r] = <<e>> \o t
  BY <1>0
<1>2. /\ e.type = "message_end" => e.msg \in Messages /\ messages' = Append(messages, e.msg)
      /\ e.type # "message_end" => messages' = messages
  BY Reduces
<1> HIDE DEF e, t
<1>3. Carried(<<e>>) = <<x>>
  <2>1. Len(<<e>>) = 1 /\ <<e>>[1] = e /\ \A i \in 1..1 : i = 1
    OBVIOUS
  <2>2. Carried(<<e>>) = [i \in 1..1 |-> x]
    BY <2>1 DEF Carried
  <2> QED BY <2>2
<1>4. x \in Slots /\ Carried(t) \in Seq(Slots)
  BY <1>1, <1>2, CarriedType DEF Slots
<1>5. Air = <<x>> \o Carried(t)
  <2>1. <<e>> \in Seq(Events)
    BY <1>1
  <2>2. Carried(out[r]) = Carried(<<e>>) \o Carried(t)
    BY <1>1, <2>1, CarriedConcat
  <2> QED BY <1>0, <1>3, <2>2 DEF Air
<1>6. Kept(messages, <<x>> \o Carried(t), steeringQueue, followUpQueue, sent, cleared, dropped)
  BY <1>5 DEF Delivered
<1>7. CASE e.type = "message_end"
  <2>0. x = e.msg /\ messages' = Append(messages, x)
    BY <1>2, <1>7
  <2>1. messages' = messages \o <<x>>
    <3> HIDE DEF x
    <3> QED BY <1>0, <1>4, <2>0, AppendIsConcat
  <2>2. Kept(messages \o <<x>>, Carried(t), steeringQueue, followUpQueue, sent, cleared, dropped)
    <3> HIDE DEF x
    <3> QED BY <1>0, <1>4, <1>6, KeptSaid
  <2>3. Kept(messages', Carried(t), steeringQueue, followUpQueue, sent, cleared, dropped)
    BY <2>1, <2>2
  <2> QED BY <1>0, <1>1, <2>3 DEF t
<1>8. CASE e.type # "message_end"
  <2>1. ~Tracked(x) /\ messages' = messages
    BY <1>2, <1>8, NoMessageUntracked
  <2>2. Kept(messages, Carried(t), steeringQueue, followUpQueue, sent, cleared, dropped)
    <3> HIDE DEF x
    <3> QED BY <1>0, <1>4, <1>6, <2>1, KeptUntracked
  <2> QED BY <1>0, <1>1, <2>1, <2>2 DEF t
<1> QED BY <1>7, <1>8

LEMMA FailureUntracked ==
  ASSUME NEW r \in Runs
  PROVE  FailureEvents(r) \in Seq(Events) /\ Items(Carried(FailureEvents(r))) = {}
<1> DEFINE m == FailureMessage(r)
           s == MessageEvents(<<m>>)
           t == <<Event("turn_end"), Event("agent_end")>>
<1>1. m \in Messages /\ ~Tracked(m)
  BY MessageTypes, AnswersUntracked DEF FailureMessage, Stops
<1> HIDE DEF m
<1>2. <<m>> \in Seq(Messages) /\ \A i \in 1..Len(<<m>>) : ~Tracked(<<m>>[i])
  BY <1>1
<1>3. s \in Seq(Events) /\ Items(Carried(s)) = {}
  BY <1>2, UntrackedMessages, CarriedMessages
<1>4. t \in Seq(Events) /\ \A i \in 1..Len(t) : t[i].type # "message_end"
  BY EventShapes DEF EventTypes, Event
<1> HIDE DEF s, t
<1>5. Items(Carried(t)) = {}
  BY <1>4, CarriedPlain
<1>6. Carried(s \o t) = Carried(s) \o Carried(t)
  BY <1>3, <1>4, CarriedConcat
<1>7. Carried(s) \in Seq(Slots) /\ Carried(t) \in Seq(Slots)
  BY <1>3, <1>4, CarriedType
<1>8. Items(Carried(s \o t)) = {}
  BY <1>3, <1>5, <1>6, <1>7, ItemsOfConcat
<1>9. s \o t \in Seq(Events)
  BY <1>3, <1>4
<1> QED BY <1>8, <1>9 DEF FailureEvents, s, t, m

LEMMA DeliveredHandled ==
  ASSUME Steady, Delivered, NEW r \in Runs, HandleEvent(r) \/ ListenerThrows(r)
  PROVE  Delivered'
<1>0. out \in [Runs -> Seq(Events)] /\ NoRun \notin Runs /\ Items(Carried(<<>>)) = {}
  BY SteadyFacts
<1>1. out[r] # <<>> /\ Reduce(r, out[r][1])
  BY DEF HandleEvent, ListenerThrows
<1> DEFINE t == Tail(out[r])
<1>2. /\ r = activeRun /\ t \in Seq(Events)
      /\ Kept(messages', Carried(t), steeringQueue, followUpQueue, sent, cleared, dropped)
  BY <1>1, HeadHandled
<1>3. /\ activeRun' = activeRun /\ sent' = sent /\ cleared' = cleared
      /\ steeringQueue' = steeringQueue /\ followUpQueue' = followUpQueue
  BY DEF HandleEvent, ListenerThrows, queues
<1>4. Air' = Carried(out'[r])
  BY <1>0, <1>2, <1>3 DEF Air
<1>5. CASE HandleEvent(r)
  <2>1. out'[r] = t /\ dropped' = dropped
    BY <1>0, <1>5 DEF HandleEvent
  <2> HIDE DEF t
  <2> QED BY <1>2, <1>3, <1>4, <2>1 DEF Delivered
<1>6. CASE ListenerThrows(r)
  <2>1. dropped' = dropped \cup InFlight(t)
    BY <1>6 DEF ListenerThrows
  <2>2. InFlight(t) = NumbersOf(Items(Carried(t)))
    BY <1>2, InFlightAre
  <2>3. out'[r] = <<>> \/ out'[r] = FailureEvents(r)
    BY <1>0, <1>6 DEF ListenerThrows
  <2>4. Items(Air') = {}
    BY <1>0, <1>4, <2>3, FailureUntracked
  <2> HIDE DEF t
  <2>5. Kept(messages', Air', steeringQueue, followUpQueue, sent, cleared,
             dropped \cup NumbersOf(Items(Carried(t))))
    BY <1>2, <2>4, KeptLost
  <2> QED BY <1>3, <2>1, <2>2, <2>5 DEF Delivered
<1> QED BY <1>5, <1>6

(* The other steps of a run announce nothing of the user and take nothing.   *)
LEMMA DeliveredQuiet ==
  ASSUME Steady, Delivered, NEW r \in Runs, RunStep(r) \/ Failure(r),
         ~(PollSteering(r) \/ PollFollowUps(r) \/ HandleEvent(r) \/ ListenerThrows(r))
  PROVE  Delivered'
<1>0. /\ out \in [Runs -> Seq(Events)] /\ NoRun \notin Runs /\ Items(Carried(<<>>)) = {}
      /\ \A q \in Runs : q # activeRun => out[q] = <<>>
      /\ loop \in [Runs -> LoopRecord] /\ activeRun \in Runs \cup {NoRun}
  BY SteadyFacts
<1>1. Kept(messages, Air, steeringQueue, followUpQueue, sent, cleared, dropped)
  BY DEF Delivered
<1>2. ASSUME UNCHANGED <<messages, queues, history>>,
             (Items(Air) = {} /\ Items(Air') = {}) \/ Air' = Air
      PROVE  Delivered'
  <2>1. /\ messages' = messages /\ steeringQueue' = steeringQueue
        /\ followUpQueue' = followUpQueue /\ sent' = sent /\ cleared' = cleared
        /\ dropped' = dropped
    BY <1>2 DEF queues, history
  <2>2. Kept(messages, Air', steeringQueue, followUpQueue, sent, cleared, dropped)
    BY <1>1, <1>2, KeptQuiet
  <2> QED BY <2>1, <2>2 DEF Delivered
<1>3. ASSUME activeRun' = activeRun, \A q \in Runs \ {r} : out'[q] = out[q],
             out'[r] = out[r] \/ (Items(Carried(out[r])) = {} /\ Items(Carried(out'[r])) = {})
      PROVE  (Items(Air) = {} /\ Items(Air') = {}) \/ Air' = Air
  BY <1>0, <1>3 DEF Air
<1>4. \A q \in Runs \ {r} : out'[q] = out[q]
  BY OthersStay
<1>5. CASE LoopStep(r) /\ UNCHANGED <<activeRun, skipPoll, stateVars, queues, history>>
  <2>1. out'[r] = out[r] \/ (Items(Carried(out[r])) = {} /\ Items(Carried(out'[r])) = {})
    BY <1>0, <1>5, LoopStepUntracked
  <2> QED BY <1>2, <1>3, <1>4, <1>5, <2>1 DEF stateVars
<1>6. CASE PrepareNextTurn(r)
  BY <1>2, <1>3, <1>4, <1>6 DEF PrepareNextTurn, TurnPrepared, stateVars
<1>7. CASE \E c \in Calls(r) : EndCall(r, c)
  BY <1>2, <1>3, <1>4, <1>7 DEF EndCall, CallEnded
<1>8. CASE \E c \in Calls(r) : EndCallThrows(r, c)
  <2>1. PICK c \in Calls(r) : EndCallThrows(r, c)
    BY <1>8
  <2>2. /\ loop[r].pc \in {"tools", "joining"} /\ loop[r].calls[c] = "ending"
        /\ out'[r] = FailureEvents(r) /\ activeRun' = activeRun
        /\ UNCHANGED <<messages, queues, history>>
    BY <1>0, <2>1 DEF EndCallThrows, With
  <2>3. \A i \in 1..Len(out[r]) : out[r][i].type # "message_end"
    BY <2>2 DEF Steady, Batch, Silent, NoneIs
  <2>4. out[r] \in Seq(Events)
    BY <1>0
  <2>5. Items(Carried(out[r])) = {} /\ Items(Carried(out'[r])) = {}
    BY <2>2, <2>3, <2>4, CarriedPlain, FailureUntracked
  <2> QED BY <1>2, <1>3, <1>4, <2>2, <2>5
<1>9. CASE FinishRun(r)
  <2>1. /\ activeRun = r /\ activeRun' = NoRun /\ UNCHANGED <<messages, queues, history>>
    BY <1>9 DEF FinishRun, LeaveRun
  <2>2. out[r] = <<>>
    BY <1>9 DEF FinishRun, Settled, At, Awaited, Steady, Place
  <2>3. Items(Air) = {} /\ Items(Air') = {}
    BY <1>0, <2>1, <2>2, ItemsOfNone DEF Air
  <2> QED BY <1>2, <2>1, <2>3
<1> QED BY <1>5, <1>6, <1>7, <1>8, <1>9 DEF RunStep, Failure

LEMMA DeliveredClients ==
  ASSUME Steady, Delivered,
         Steer \/ FollowUp \/ ClearAllQueues \/ Abort \/ Reset \/ UNCHANGED vars
  PROVE  Delivered'
<1>0. /\ steeringQueue \in Seq(Given) /\ followUpQueue \in Seq(Given) /\ sent \in Nat
      /\ steeringQueue \in Seq(Slots) /\ followUpQueue \in Seq(Slots)
      /\ messages \in Seq(Slots)
  BY SteadyFacts
<1>1. Kept(messages, Air, steeringQueue, followUpQueue, sent, cleared, dropped)
  BY DEF Delivered
<1>2. UNCHANGED <<out, activeRun>> /\ dropped' = dropped /\ Air' = Air
  BY DEF Steer, SteerWith, FollowUp, ClearAllQueues, Abort, Reset, vars, history, Air
<1>3. CASE Steer
  <2> DEFINE m == UserMessage("steer", sent + 1)
  <2>1. /\ messages' = messages /\ followUpQueue' = followUpQueue /\ cleared' = cleared
        /\ steeringQueue' = Append(steeringQueue, m) /\ sent' = sent + 1
    BY <1>3 DEF Steer, SteerWith, NewSteer, stateVars, UserMessage
  <2>2. m \in Given
    BY <1>0, GivenTypes
  <2>3. steeringQueue' = steeringQueue \o <<m>>
    <3> HIDE DEF m
    <3> QED BY <1>0, <2>1, <2>2, AppendIsConcat
  <2>4. Kept(messages, Air, steeringQueue \o <<m>>, followUpQueue, sent + 1, cleared, dropped)
    BY <1>0, <1>1, KeptSteer
  <2> HIDE DEF m
  <2> QED BY <1>2, <2>1, <2>3, <2>4 DEF Delivered
<1>4. CASE FollowUp
  <2> DEFINE m == UserMessage("followUp", sent + 1)
  <2>1. /\ messages' = messages /\ steeringQueue' = steeringQueue /\ cleared' = cleared
        /\ followUpQueue' = Append(followUpQueue, m) /\ sent' = sent + 1
    BY <1>4 DEF FollowUp, stateVars
  <2>2. m \in Given
    BY <1>0, GivenTypes
  <2>3. followUpQueue' = followUpQueue \o <<m>>
    <3> HIDE DEF m
    <3> QED BY <1>0, <2>1, <2>2, AppendIsConcat
  <2>4. Kept(messages, Air, steeringQueue, followUpQueue \o <<m>>, sent + 1, cleared, dropped)
    BY <1>0, <1>1, KeptFollowUp
  <2> HIDE DEF m
  <2> QED BY <1>2, <2>1, <2>3, <2>4 DEF Delivered
<1>5. Items(steeringQueue \o followUpQueue) = Items(steeringQueue) \cup Items(followUpQueue)
  BY <1>0, ItemsOfConcat
<1>6. CASE ClearAllQueues
  <2>1. /\ messages' = messages /\ sent' = sent
        /\ steeringQueue' = <<>> /\ followUpQueue' = <<>>
        /\ cleared' = cleared \cup NumbersOf(Items(steeringQueue) \cup Items(followUpQueue))
    BY <1>5, <1>6, NumbersAre DEF ClearAllQueues, stateVars
  <2>2. Kept(messages, Air, <<>>, <<>>, sent,
             cleared \cup NumbersOf(Items(steeringQueue) \cup Items(followUpQueue)), dropped)
    BY <1>1, KeptCleared
  <2> QED BY <1>2, <2>1, <2>2 DEF Delivered
<1>7. CASE Reset
  <2> DEFINE S == Items(steeringQueue) \cup Items(followUpQueue) \cup Items(messages)
  <2>1. steeringQueue \o followUpQueue \in Seq(Slots)
    BY <1>0
  <2>2. Items((steeringQueue \o followUpQueue) \o messages) = S
    BY <1>0, <1>5, <2>1, ItemsOfConcat
  <2>3. /\ messages' = <<>> /\ sent' = sent
        /\ steeringQueue' = <<>> /\ followUpQueue' = <<>>
        /\ cleared' = cleared \cup NumbersOf(S)
    BY <1>7, <2>2, NumbersAre DEF Reset
  <2>4. Kept(<<>>, Air, <<>>, <<>>, sent, cleared \cup NumbersOf(S), dropped)
    BY <1>1, KeptCleared
  <2> HIDE DEF S
  <2> QED BY <1>2, <2>3, <2>4 DEF Delivered
<1>8. CASE Abort \/ UNCHANGED vars
  <2>1. /\ messages' = messages /\ steeringQueue' = steeringQueue
        /\ followUpQueue' = followUpQueue /\ sent' = sent /\ cleared' = cleared
    BY <1>8 DEF Abort, vars, stateVars, queues, history
  <2> QED BY <1>1, <1>2, <2>1 DEF Delivered
<1> QED BY <1>3, <1>4, <1>6, <1>7, <1>8

LEMMA DeliveredStep ==
  ASSUME Steady, Delivered, [Next]_vars
  PROVE  Delivered'
<1>1. CASE \E r \in Runs : Client(r)
  BY <1>1, DeliveredStart
<1>2. ASSUME NEW r \in Runs, RunStep(r) \/ Failure(r) PROVE Delivered'
  BY <1>2, DeliveredPolls, DeliveredHandled, DeliveredQuiet
<1>3. CASE Steer \/ FollowUp \/ ClearAllQueues \/ Abort \/ Reset \/ UNCHANGED vars
  BY <1>3, DeliveredClients
<1> QED BY <1>1, <1>2, <1>3 DEF Next

LEMMA DeliveredInit == Init => Delivered
<1> SUFFICES ASSUME Init PROVE Delivered
  OBVIOUS
<1>1. /\ Air = <<>> /\ steeringQueue = <<>> /\ followUpQueue = <<>> /\ sent = 0
      /\ cleared = {} /\ dropped = {}
      /\ messages = <<>> \/ messages = <<AssistantMessage("stop", 0)>>
  BY DEF Init, Air
<1>2. Items(messages) = {}
  BY <1>1, ItemsOfNone, ItemsOfOne, AnswersUntracked DEF Stops
<1>3. Items(<<>>) = {} /\ Sorted(<<>>) /\ Sorted(messages)
  BY <1>2, ItemsOfNone, SortedIfUntracked
<1>4. NumbersOf({} \cup {} \cup {} \cup {}) = {} /\ 1..0 = {}
  BY DEF NumbersOf
<1> QED BY <1>1, <1>2, <1>3, <1>4 DEF Delivered, Kept, Before

(* What the invariant says of the places a message can be in.                *)
LEMMA DeliveredGives == Steady /\ Delivered => NothingLostOrDoubled
<1> SUFFICES ASSUME Steady, Delivered PROVE NothingLostOrDoubled
  OBVIOUS
<1> DEFINE M == Items(messages)
           A == Items(Air)
           S == Items(steeringQueue)
           F == Items(followUpQueue)
           All == M \cup A \cup S \cup F
<1>1. /\ Sorted(messages)
      /\ Before(M, A \cup S \cup F) /\ Before(A, S \cup F) /\ Before(S, F)
      /\ NumbersOf(All) \cup cleared \cup dropped = 1..sent
      /\ NumbersOf(All) \cap (cleared \cup dropped) = {}
      /\ cleared \cap dropped = {}
  BY DEF Delivered, Kept
<1>2. Places = <<NumbersOf(S), NumbersOf(F), NumbersOf(A), NumbersOf(M), cleared, dropped>>
  <2>1. (IF activeRun = NoRun THEN {} ELSE InFlight(out[activeRun])) = NumbersOf(A)
    <3>1. CASE activeRun = NoRun
      <4>1. A = {}
        BY <3>1, ItemsOfNone DEF Air
      <4> QED BY <3>1, <4>1 DEF NumbersOf
    <3>2. CASE activeRun # NoRun
      <4>1. out[activeRun] \in Seq(Events) /\ Air = Carried(out[activeRun])
        BY <3>2, SteadyFacts DEF Air
      <4> QED BY <3>2, <4>1, InFlightAre
    <3> QED BY <3>1, <3>2
  <2> HIDE DEF A
  <2> QED BY <2>1, NumbersAre DEF Places
<1> HIDE DEF M, A, S, F
<1>3. NumbersOf(All) = NumbersOf(S) \cup NumbersOf(F) \cup NumbersOf(A) \cup NumbersOf(M)
  BY DEF NumbersOf
<1>4. /\ NumbersOf(M) \cap NumbersOf(A) = {} /\ NumbersOf(M) \cap NumbersOf(S) = {}
      /\ NumbersOf(M) \cap NumbersOf(F) = {} /\ NumbersOf(A) \cap NumbersOf(S) = {}
      /\ NumbersOf(A) \cap NumbersOf(F) = {} /\ NumbersOf(S) \cap NumbersOf(F) = {}
  BY <1>1 DEF Before, Fine, NumbersOf
<1> HIDE DEF All
<1>5. ASSUME NEW n \in 1..sent
      PROVE  Cardinality({i \in DOMAIN Places : n \in Places[i]}) = 1
  <2> DEFINE p == <<NumbersOf(S), NumbersOf(F), NumbersOf(A), NumbersOf(M), cleared, dropped>>
  <2>1. \E k \in 1..6 : \A i \in 1..6 : n \in p[i] <=> i = k
    <3>1. /\ p[1] = NumbersOf(S) /\ p[2] = NumbersOf(F) /\ p[3] = NumbersOf(A)
          /\ p[4] = NumbersOf(M) /\ p[5] = cleared /\ p[6] = dropped
      OBVIOUS
    <3> HIDE DEF p
    <3>2. \A i \in 1..6 : i = 1 \/ i = 2 \/ i = 3 \/ i = 4 \/ i = 5 \/ i = 6
      OBVIOUS
    <3>3. n \in p[1] \/ n \in p[2] \/ n \in p[3] \/ n \in p[4] \/ n \in p[5] \/ n \in p[6]
      BY <1>1, <1>3, <3>1
    <3>4. \A i \in 1..6, j \in 1..6 : i < j => ~(n \in p[i] /\ n \in p[j])
      BY <1>1, <1>3, <1>4, <3>1, <3>2
    <3>5. PICK k \in 1..6 : n \in p[k]
      BY <3>3
    <3>6. \A i \in 1..6 : n \in p[i] <=> i = k
      BY <3>4, <3>5
    <3> QED BY <3>6
  <2>2. PICK k \in 1..6 : \A i \in 1..6 : n \in p[i] <=> i = k
    BY <2>1
  <2>3. DOMAIN p = 1..6
    OBVIOUS
  <2> HIDE DEF p
  <2>4. {i \in DOMAIN p : n \in p[i]} = {k}
    BY <2>2, <2>3
  <2>5. Cardinality({k}) = 1
    BY FS_Singleton
  <2> QED BY <1>2, <2>4, <2>5 DEF p
<1>6. messages \in Seq(Slots) /\ DOMAIN messages = 1..Len(messages) /\ Len(messages) \in Nat
  BY SteadyFacts
<1>7. ASSUME NEW i \in DOMAIN messages, NEW j \in DOMAIN messages, i # j,
             messages[i].role = "user", messages[j].role = "user"
      PROVE  messages[i].n # messages[j].n
  <2>1. i < j \/ j < i
    BY <1>6, <1>7
  <2>2. Fine(messages[i], messages[j]) \/ Fine(messages[j], messages[i])
    BY <1>1, <1>6, <2>1 DEF Sorted
  <2> QED BY <1>7, <2>2 DEF Fine
<1>8. ASSUME NEW i \in DOMAIN messages, NEW j \in DOMAIN messages, i < j,
             messages[i].kind = messages[j].kind, messages[i].kind \in {"steer", "followUp"}
      PROVE  messages[i].n < messages[j].n
  <2>1. Fine(messages[i], messages[j])
    BY <1>1, <1>6, <1>8 DEF Sorted
  <2> QED BY <1>8, <2>1 DEF Fine
<1> QED BY <1>5, <1>7, <1>8 DEF NothingLostOrDoubled

(* However clients steer, queue, clear, abort and reset, and whichever       *)
(* listener throws: every message handed to the agent is in exactly one      *)
(* place, once in the transcript, and in the order it was given.             *)
THEOREM NothingIsLostOrDoubled == Spec => []NothingLostOrDoubled
<1>1. Spec => []Steady
  BY SteadyInit, SteadyStep, PTL DEF Spec
<1>2. Delivered /\ Steady /\ [Next]_vars => Delivered'
  BY DeliveredStep
<1>3. Spec => []Delivered
  BY DeliveredInit, <1>1, <1>2, PTL DEF Spec
<1> QED BY <1>1, <1>3, DeliveredGives, PTL
=============================================================================
