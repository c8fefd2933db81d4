--------------------------- MODULE AgentLoopProofs ---------------------------
(***************************************************************************)
(* What a run of the agent loop does, for any number of runs, turns and    *)
(* calls: the types of its state and of what it announces (LoopShape), the *)
(* states a batch of tool calls goes through in either mode (Batch), and   *)
(* what each step adds to the context and to the events (LoopEffect).  The *)
(* proofs about the components that drive a loop cite these lemmas.        *)
(***************************************************************************)
EXTENDS AgentLoop, FiniteSetTheorems, SequenceTheorems, WellFoundedInduction, TLAPS

LEMMA MessageTypes ==
  /\ \A k \in UserKinds, n \in Nat : UserMessage(k, n) \in Messages
  /\ \A k \in Stops, n \in Nat : AssistantMessage(k, n) \in Messages
  /\ \A n \in Nat : ToolResult(n) \in Messages
BY DEF UserMessage, AssistantMessage, ToolResult, Messages, Stops, UserKinds

EventTypes == {"turn_start", "message_start", "message_end",
                   "tool_execution_start", "turn_end", "agent_end"}

LEMMA EventShapes ==
  /\ \A t \in EventTypes : Event(t) \in Events
  /\ \A t \in EventTypes, m \in Messages : MessageEvent(t, m) \in Events
  /\ \A t \in EventTypes, c \in Nat : CallEvent(t, c) \in Events
BY DEF EventTypes, Event, MessageEvent, CallEvent, Events

(* What a loop may say where it is: everything but the writes of the session *)
(* it does not know of, and tool results only while it has a batch of calls. *)
Spoken == {m \in Messages : m.kind # "write" /\ m.role # "toolResult"}
Speakable(pc) == {m \in Messages : /\ m.kind # "write"
                                   /\ m.role = "toolResult" => pc \in {"tools", "batchEnd"}}

(* The events a loop may await: those of messages carry such a message, and  *)
(* the end of a turn or of the run is announced only past it.                *)
Fits(e, pc) ==
  /\ e \in Events
  /\ e.type = "message_end" => e.msg \in Speakable(pc)
  /\ e.type = "turn_end" => pc \in {"turnEnd", "ending", "failing"}
  /\ e.type = "agent_end" => pc \in {"ending", "failing"}

LEMMA MessageEventsFit ==
  ASSUME NEW pc, NEW msgs \in Seq(Speakable(pc))
  PROVE  /\ MessageEvents(msgs) \in Seq(Events)
         /\ \A i \in 1..Len(MessageEvents(msgs)) : Fits(MessageEvents(msgs)[i], pc)
<1>1. Len(msgs) \in Nat /\ 2 * Len(msgs) \in Nat
  OBVIOUS
<1>2. ASSUME NEW i \in 1..(2 * Len(msgs))
      PROVE  Fits(MessageEvent(IF i % 2 = 1 THEN "message_start" ELSE "message_end",
                          msgs[(i + 1) \div 2]), pc)
  <2>1. (i + 1) \div 2 \in 1..Len(msgs)
    BY <1>1
  <2>2. msgs[(i + 1) \div 2] \in Speakable(pc)
    BY <2>1
  <2> DEFINE m == msgs[(i + 1) \div 2]
  <2> HIDE DEF m
  <2>3. m \in Speakable(pc) /\ m \in Messages
    BY <2>2 DEF m, Speakable
  <2>4. Fits(MessageEvent("message_start", m), pc) /\ Fits(MessageEvent("message_end", m), pc)
    BY <2>3, EventShapes DEF EventTypes, Fits, MessageEvent
  <2> QED BY <2>4 DEF m
<1>3. MessageEvents(msgs) \in Seq(Events)
  BY <1>1, <1>2, IsASeq DEF MessageEvents, Fits
<1>4. Len(MessageEvents(msgs)) = 2 * Len(msgs)
  BY <1>1, <1>3 DEF MessageEvents
<1> QED BY <1>2, <1>3, <1>4 DEF MessageEvents

LEMMA PlainEventsFit ==
  /\ \A pc : Fits(Event("turn_start"), pc)
  /\ \A pc \in {"turnEnd", "ending", "failing"} : Fits(Event("turn_end"), pc)
  /\ \A pc \in {"ending", "failing"} : Fits(Event("agent_end"), pc)
  /\ \A pc : \A c \in Nat : Fits(CallEvent("tool_execution_start", c), pc)
BY EventShapes DEF EventTypes, Fits, Event, CallEvent

LEMMA SpokenSpeakable ==
  ASSUME NEW pc, NEW msgs \in Seq(Spoken)
  PROVE  msgs \in Seq(Speakable(pc)) /\ msgs \in Seq(Messages)
<1>1. Spoken \subseteq Speakable(pc) /\ Spoken \subseteq Messages
  BY DEF Spoken, Speakable
<1> QED BY <1>1, SeqMonotonic

(* The part of the state of the loop that the types rest on.                 *)
Shape(r) ==
  /\ loop[r].pc = "replied" => loop[r].ctx # <<>>
  /\ \A i \in 1..Len(out[r]) : Fits(out[r][i], loop[r].pc)

LoopShape == LoopTypeOK /\ \A r \in Runs : Shape(r)

(* What a step of run r has to show for itself.                              *)
LEMMA ShapeKept ==
  ASSUME LoopShape, NEW r \in Runs, NEW rec \in LoopRecord, NEW s \in Seq(Events),
         loop' = [loop EXCEPT ![r] = rec], out' = [out EXCEPT ![r] = s],
         rec.pc = "replied" => rec.ctx # <<>>,
         \A i \in 1..Len(s) : Fits(s[i], rec.pc)
  PROVE  LoopShape'
<1>1. LoopTypeOK'
  BY DEF LoopShape, LoopTypeOK
<1>2. ASSUME NEW q \in Runs PROVE Shape(q)'
  <2>1. CASE q = r
    <3>1. loop'[q] = rec /\ out'[q] = s
      BY <2>1 DEF LoopShape, LoopTypeOK
    <3> QED BY <3>1 DEF Shape
  <2>2. CASE q # r
    <3>1. loop'[q] = loop[q] /\ out'[q] = out[q]
      BY <2>2 DEF LoopShape, LoopTypeOK
    <3> QED BY <3>1 DEF Shape, LoopShape
  <2> QED BY <2>1, <2>2
<1> QED BY <1>1, <1>2 DEF LoopShape

(* The order of the natural numbers has no infinite descent ...              *)
LEMMA NatOrder == IsWellFoundedOn({p \in Nat \X Nat : p[1] < p[2]}, Nat)
BY NatLessThanWellFounded DEF OpToRel

(* ... and so a set of naturals has a least member: what stands here for the *)
(* induction over data that the provers do not do.                           *)
LEMMA HasMinimum ==
  ASSUME NEW T \in SUBSET Nat, T # {}
  PROVE  \E x \in T : \A y \in T : x <= y
<1> DEFINE R == {p \in Nat \X Nat : p[1] < p[2]}
<1>1. IsWellFoundedOn(R, Nat)
  BY NatOrder
<1> HIDE DEF R
<1>2. T \subseteq Nat /\ T # {}
  OBVIOUS
<1>3. PICK x \in T : \A y \in T : ~(<<y, x>> \in R)
  BY ONLY <1>1, <1>2, WFMin
<1>4. \A y \in T : ~(y < x)
  BY <1>2, <1>3 DEF R
<1> QED BY <1>4

LEMMA PositionsFinite ==
  ASSUME NEW n \in Nat, NEW S \in SUBSET (1..n)
  PROVE  IsFiniteSet(S) /\ Cardinality(S) \in Nat
<1>1. IsFiniteSet(1..n)
  BY FS_Interval, 1 \in Int, n \in Int
<1>2. IsFiniteSet(S)
  BY <1>1, FS_Subset
<1> QED BY <1>2, FS_CardinalityType

(* The members of a set of positions have the ranks 1, 2, ...                *)
UpTo(S, c) == {b \in S : b <= c}

LEMMA RankExists ==
  ASSUME NEW n \in Nat, NEW S \in SUBSET (1..n), NEW i \in 1..Cardinality(S)
  PROVE  \E c \in S : Cardinality(UpTo(S, c)) = i
<1> DEFINE Rank(c) == Cardinality(UpTo(S, c))
           T == {c \in 0..n : Rank(c) >= i}
<1>1. IsFiniteSet(S) /\ Cardinality(S) \in Nat
  BY PositionsFinite
<1>2. \A c : IsFiniteSet(UpTo(S, c)) /\ Rank(c) \in Nat
  BY <1>1, FS_Subset, FS_CardinalityType DEF UpTo
<1>3. n \in T
  <2>1. \A b \in S : b <= n
    OBVIOUS
  <2>2. UpTo(S, n) = S
    BY <2>1 DEF UpTo
  <2> QED BY <1>1, <2>2
<1> HIDE DEF Rank
<1>4. PICK c \in T : \A d \in T : c <= d
  <2>1. T \in SUBSET Nat /\ T # {}
    BY <1>3
  <2> HIDE DEF T
  <2> QED BY <2>1, HasMinimum
<1>5. c # 0
  <2>1. \A b \in UpTo(S, 0) : FALSE
    BY DEF UpTo
  <2>2. UpTo(S, 0) = {}
    BY <2>1
  <2> QED BY <2>2, FS_EmptySet DEF Rank
<1>6. c - 1 \in 0..n /\ c - 1 \notin T
  BY <1>4, <1>5
<1>7. Rank(c - 1) < i
  BY <1>2, <1>6
<1>8. CASE c \in S
  <2>1. \A b \in S : b <= c <=> (b <= c - 1 \/ b = c)
    BY <1>6
  <2>2. UpTo(S, c) = UpTo(S, c - 1) \cup {c}
    BY <1>8, <2>1 DEF UpTo
  <2>3. Rank(c) <= Rank(c - 1) + 1
    <3> DEFINE U == UpTo(S, c - 1)
    <3>1. IsFiniteSet(U) /\ Cardinality(U) \in Nat
      BY <1>2 DEF Rank
    <3> HIDE DEF U
    <3>2. Cardinality(U \cup {c}) <= Cardinality(U) + 1
      BY <3>1, FS_AddElement
    <3> QED BY <2>2, <3>2 DEF U, Rank
  <2>4. Rank(c) = i
    BY <1>2, <1>7, <2>3
  <2> QED BY <1>8, <2>4 DEF Rank
<1>9. CASE c \notin S
  <2>1. \A b \in S : b <= c <=> b <= c - 1
    BY <1>6, <1>9
  <2>2. UpTo(S, c) = UpTo(S, c - 1)
    BY <2>1 DEF UpTo
  <2> QED BY <1>2, <1>7, <2>2 DEF Rank
<1> QED BY <1>8, <1>9

-----------------------------------------------------------------------------
(* The steps of the loop, one by one.                                        *)

LEMMA WithFacts ==
  ASSUME LoopTypeOK, NEW r \in Runs, NEW statuses
  PROVE  /\ Len(loop[r].calls) \in Nat
         /\ With(r, statuses) \in SUBSET (1..Len(loop[r].calls))
         /\ IsFiniteSet(With(r, statuses))
         /\ Cardinality(With(r, statuses)) \in Nat
<1>1. Len(loop[r].calls) \in Nat
  BY DEF LoopTypeOK, LoopRecord
<1>2. With(r, statuses) \in SUBSET (1..Len(loop[r].calls))
  BY DEF With, Calls
<1> HIDE DEF LoopTypeOK
<1>3. IsFiniteSet(With(r, statuses))
  BY <1>1, <1>2, PositionsFinite
<1> QED BY <1>1, <1>2, <1>3, FS_CardinalityType

(* The messages ReportResults emits.                                         *)
Reports(done) ==
  LET nth[c \in done] == Cardinality({b \in done : b <= c})
  IN  [i \in 1..Cardinality(done) |-> ToolResult(CHOOSE c \in done : nth[c] = i)]

LEMMA ReportsType ==
  ASSUME NEW n \in Nat, NEW done \in SUBSET (1..n)
  PROVE  /\ Reports(done) \in Seq(Messages)
         /\ \A pc \in {"tools", "batchEnd"} : Reports(done) \in Seq(Speakable(pc))
<1> DEFINE nth == [c \in done |-> Cardinality({b \in done : b <= c})]
           at(i) == CHOOSE c \in done : nth[c] = i
<1>1. Cardinality(done) \in Nat
  BY PositionsFinite
<1>2. ASSUME NEW i \in 1..Cardinality(done)
      PROVE  /\ ToolResult(at(i)) \in Messages
             /\ \A pc \in {"tools", "batchEnd"} : ToolResult(at(i)) \in Speakable(pc)
  <2>1. \E c \in done : nth[c] = i
    BY RankExists DEF UpTo
  <2>2. at(i) \in done
    BY <2>1
  <2> HIDE DEF at
  <2>3. \A c \in done : c \in Nat
    OBVIOUS
  <2>4. at(i) \in Nat
    BY <2>2, <2>3
  <2>5. ToolResult(at(i)) \in Messages
    BY <2>4, MessageTypes
  <2> QED BY <2>5 DEF ToolResult, Speakable
<1>3. Reports(done) = [i \in 1..Cardinality(done) |-> ToolResult(at(i))]
  BY DEF Reports
<1> HIDE DEF nth, at
<1> QED BY <1>1, <1>2, <1>3

LEMMA RecordFacts ==
  ASSUME LoopTypeOK, NEW r \in Runs
  PROVE  /\ loop[r] \in LoopRecord
         /\ out[r] \in Seq(Events)
         /\ loop[r].ctx \in Seq(Messages) /\ loop[r].calls \in Seq(CallStatus)
         /\ \A f \in [Runs -> LoopRecord], rec \in LoopRecord : 
               [f EXCEPT ![r] = rec] \in [Runs -> LoopRecord]
BY DEF LoopTypeOK, LoopRecord

LEMMA EmptyFits == \A pc : <<>> \in Seq(Events) /\ \A i \in 1..Len(<<>>) : Fits(<<>>[i], pc)
OBVIOUS

LEMMA ConcatFits ==
  ASSUME NEW pc, NEW s \in Seq(Events), NEW t \in Seq(Events),
         \A i \in 1..Len(s) : Fits(s[i], pc), \A i \in 1..Len(t) : Fits(t[i], pc)
  PROVE  s \o t \in Seq(Events) /\ \A i \in 1..Len(s \o t) : Fits((s \o t)[i], pc)
<1>1. \A i \in 1..Len(s \o t) : (s \o t)[i] = IF i <= Len(s) THEN s[i] ELSE t[i - Len(s)]
  OBVIOUS
<1>2. Len(s) \in Nat /\ Len(t) \in Nat /\ Len(s \o t) = Len(s) + Len(t)
  OBVIOUS
<1>3. ASSUME NEW i \in 1..Len(s \o t) PROVE Fits((s \o t)[i], pc)
  <2>1. CASE i <= Len(s)
    BY <1>1, <1>2, <2>1
  <2>2. CASE ~(i <= Len(s))
    <3>1. i - Len(s) \in 1..Len(t)
      BY <1>2, <2>2
    <3> QED BY <1>1, <2>2, <3>1
  <2> QED BY <2>1, <2>2
<1> QED BY <1>3

LEMMA SingletonFits ==
  ASSUME NEW pc, NEW e, Fits(e, pc)
  PROVE  <<e>> \in Seq(Events) /\ \A i \in 1..Len(<<e>>) : Fits(<<e>>[i], pc)
BY DEF Fits

(* RunAgentLoop.                                                             *)
LEMMA StartShape ==
  ASSUME LoopShape, NEW r \in Runs, NEW prompts \in Seq(Spoken), NEW ctx \in Seq(Messages),
         RunAgentLoop(r, prompts, ctx)
  PROVE  LoopShape'
<1> DEFINE rec == [Unused EXCEPT !.pc = "steering", !.ctx = ctx \o prompts]
           s == <<Event("turn_start")>> \o MessageEvents(prompts)
<1>1. rec \in LoopRecord
  <2>1. ctx \o prompts \in Seq(Messages)
    BY SpokenSpeakable
  <2>2. <<>> \in Seq(CallStatus) /\ "steering" \in LoopStates
    BY DEF LoopStates
  <2> QED BY <2>1, <2>2 DEF Unused, LoopRecord
<1>2. rec.pc = "steering"
  BY DEF Unused
<1>3. s \in Seq(Events) /\ \A i \in 1..Len(s) : Fits(s[i], rec.pc)
  BY ConcatFits, SingletonFits, PlainEventsFit, MessageEventsFit, SpokenSpeakable
<1>4. loop' = [loop EXCEPT ![r] = rec] /\ out' = [out EXCEPT ![r] = s]
  BY DEF RunAgentLoop
<1> HIDE DEF rec, s
<1> QED BY <1>1, <1>2, <1>3, <1>4, ShapeKept

LEMMA EnterShape ==
  ASSUME LoopShape, NEW r \in Runs, NEW msgs \in Seq(Spoken), EnterTurn(r, msgs)
  PROVE  LoopShape'
<1> DEFINE rec == [loop[r] EXCEPT !.pc = "stream", !.first = FALSE, !.ctx = @ \o msgs]
           t == IF loop[r].first THEN <<>> ELSE <<Event("turn_start")>>
           s == t \o MessageEvents(msgs)
<1>1. loop[r] \in LoopRecord
  BY RecordFacts DEF LoopShape
<1>2. rec \in LoopRecord /\ rec.pc = "stream"
  <2>1. loop[r].ctx \o msgs \in Seq(Messages)
    <3>1. loop[r].ctx \in Seq(Messages) /\ msgs \in Seq(Messages)
      BY RecordFacts, SpokenSpeakable DEF LoopShape
    <3> QED BY <3>1
  <2>2. "stream" \in LoopStates
    BY DEF LoopStates
  <2> QED BY <1>1, <2>1, <2>2 DEF LoopRecord
<1>3. t \in Seq(Events) /\ \A i \in 1..Len(t) : Fits(t[i], rec.pc)
  <2>1. CASE loop[r].first
    BY <2>1, EmptyFits
  <2>2. CASE ~loop[r].first
    BY <2>2, SingletonFits, PlainEventsFit
  <2> QED BY <2>1, <2>2
<1> HIDE DEF t
<1>4. s \in Seq(Events) /\ \A i \in 1..Len(s) : Fits(s[i], rec.pc)
  BY <1>3, ConcatFits, MessageEventsFit, SpokenSpeakable
<1>5. loop' = [loop EXCEPT ![r] = rec] /\ out' = [out EXCEPT ![r] = s]
  BY DEF EnterTurn, t
<1> HIDE DEF rec, s
<1> QED BY <1>2, <1>4, <1>5, ShapeKept

(* A step that only moves run r on.                                          *)
LEMMA MoveShape ==
  ASSUME LoopShape, NEW r \in Runs, NEW rec \in LoopRecord, NEW s,
         loop' = [loop EXCEPT ![r] = rec], out' = [out EXCEPT ![r] = s],
         rec.pc # "replied" \/ rec.ctx # <<>>,
         s = <<>> \/ (\E e : s = <<e>> /\ Fits(e, rec.pc))
           \/ (\E d, e : s = <<d, e>> /\ Fits(d, rec.pc) /\ Fits(e, rec.pc))
           \/ \E msgs \in Seq(Speakable(rec.pc)) : s = MessageEvents(msgs)
  PROVE  LoopShape'
<1>1. s \in Seq(Events) /\ \A i \in 1..Len(s) : Fits(s[i], rec.pc)
  <2>1. CASE s = <<>>
    BY <2>1
  <2>2. CASE \E e : s = <<e>> /\ Fits(e, rec.pc)
    BY <2>2, SingletonFits
  <2>3. CASE \E d, e : s = <<d, e>> /\ Fits(d, rec.pc) /\ Fits(e, rec.pc)
    BY <2>3 DEF Fits
  <2>4. CASE \E msgs \in Seq(Speakable(rec.pc)) : s = MessageEvents(msgs)
    BY <2>4, MessageEventsFit
  <2> QED BY <2>1, <2>2, <2>3, <2>4
<1> QED BY <1>1, ShapeKept

(* A step between two events: nothing is awaited, before or after.           *)
LEMMA QuietShape ==
  ASSUME LoopShape, NEW r \in Runs, NEW rec \in LoopRecord,
         loop' = [loop EXCEPT ![r] = rec], UNCHANGED out,
         rec.pc # "replied",
         out[r] = <<>> \/ rec.pc = loop[r].pc
  PROVE  LoopShape'
<1>1. out' = [out EXCEPT ![r] = out[r]] /\ out[r] \in Seq(Events)
  BY DEF LoopShape, LoopTypeOK
<1>2. \A i \in 1..Len(out[r]) : Fits(out[r][i], rec.pc)
  <2>1. CASE out[r] = <<>>
    BY <2>1
  <2>2. CASE rec.pc = loop[r].pc
    BY <2>2 DEF LoopShape, Shape
  <2> QED BY <2>1, <2>2
<1> QED BY <1>1, <1>2, ShapeKept

LEMMA TurnShape ==
  ASSUME LoopShape, NEW r \in Runs,
         \/ Request(r) \/ Respond(r) \/ StopOnError(r) \/ EndTurnWithoutTools(r)
         \/ EndBatch(r) \/ LoopReturns(r)
  PROVE  LoopShape'
<1>1. /\ LoopTypeOK /\ loop[r] \in LoopRecord
      /\ loop[r].ctx \in Seq(Messages) /\ loop[r].turns \in Nat
  BY RecordFacts DEF LoopShape, LoopRecord
<1>2. CASE Request(r)
  <2>1. [loop[r] EXCEPT !.pc = "waiting"] \in LoopRecord
    BY <1>1 DEF LoopRecord, LoopStates
  <2>2. [loop[r] EXCEPT !.pc = "waiting"].pc = "waiting"
    BY <1>1 DEF LoopRecord
  <2> QED BY <1>2, <2>1, <2>2, QuietShape DEF Request, At, Awaited
<1>3. CASE Respond(r)
  <2>1. PICK m \in Replies(r) :
          /\ loop' = [loop EXCEPT ![r].pc = "replied", ![r].ctx = Append(@, m),
                                  ![r].turns = @ + 1]
          /\ out' = [out EXCEPT ![r] = MessageEvents(<<m>>)]
    BY <1>3 DEF Respond
  <2>2. m \in Spoken
    <3>1. \A n \in 1..MaxCalls : n \in Nat
      OBVIOUS
    <3>2. m \in Messages
      BY <2>1, <3>1, MessageTypes DEF Replies, Stops
    <3> QED BY <2>1, <3>2 DEF Replies, AssistantMessage, Spoken
  <2>9. m \in Messages
    BY <2>2 DEF Spoken
  <2> DEFINE ctx == Append(loop[r].ctx, m)
             turns == loop[r].turns + 1
             rec == [loop[r] EXCEPT !.pc = "replied", !.ctx = ctx, !.turns = turns]
  <2>3. ctx \in Seq(Messages) /\ ctx # <<>>
    BY <1>1, <2>9, AppendProperties
  <2>4. loop' = [loop EXCEPT ![r] = rec]
    BY <2>1
  <2>7. turns \in Nat
    BY <1>1
  <2> HIDE DEF ctx, turns
  <2>8. "replied" \in LoopStates
    BY DEF LoopStates
  <2>5. rec \in LoopRecord /\ rec.ctx = ctx
    BY <1>1, <2>3, <2>7, <2>8 DEF LoopRecord
  <2>6. <<m>> \in Seq(Speakable(rec.pc))
    <3>1. <<m>> \in Seq(Spoken)
      BY <2>2
    <3> HIDE DEF rec
    <3> QED BY <3>1, SpokenSpeakable
  <2> HIDE DEF rec
  <2> QED BY <2>1, <2>3, <2>4, <2>5, <2>6, MoveShape
<1>4. CASE StopOnError(r)
  <2>1. [loop[r] EXCEPT !.pc = "ending"] \in LoopRecord
    BY <1>1 DEF LoopRecord, LoopStates
  <2>2. [loop[r] EXCEPT !.pc = "ending"].pc = "ending"
    BY <1>1 DEF LoopRecord
  <2> DEFINE rec == [loop[r] EXCEPT !.pc = "ending"]
  <2>3. Fits(Event("turn_end"), "ending") /\ Fits(Event("agent_end"), "ending")
    BY PlainEventsFit
  <2>4. loop' = [loop EXCEPT ![r] = rec]
        /\ out' = [out EXCEPT ![r] = <<Event("turn_end"), Event("agent_end")>>]
    BY <1>4 DEF StopOnError
  <2> HIDE DEF rec
  <2>5. rec \in LoopRecord /\ rec.pc = "ending"
    BY <2>1, <2>2 DEF rec
  <2>6. \E d, e : /\ <<Event("turn_end"), Event("agent_end")>> = <<d, e>>
                  /\ Fits(d, rec.pc) /\ Fits(e, rec.pc)
    BY <2>3, <2>5
  <2> QED BY <2>4, <2>5, <2>6, MoveShape
<1>5. CASE EndTurnWithoutTools(r)
  <2>1. [loop[r] EXCEPT !.pc = "turnEnd", !.more = FALSE] \in LoopRecord
    BY <1>1 DEF LoopRecord, LoopStates
  <2>2. [loop[r] EXCEPT !.pc = "turnEnd", !.more = FALSE].pc = "turnEnd"
    BY <1>1 DEF LoopRecord
  <2> DEFINE rec == [loop[r] EXCEPT !.pc = "turnEnd", !.more = FALSE]
  <2>3. Fits(Event("turn_end"), "turnEnd")
    BY PlainEventsFit
  <2>4. loop' = [loop EXCEPT ![r] = rec] /\ out' = [out EXCEPT ![r] = <<Event("turn_end")>>]
    BY <1>5 DEF EndTurnWithoutTools
  <2> HIDE DEF rec
  <2>5. rec \in LoopRecord /\ rec.pc = "turnEnd"
    BY <2>1, <2>2 DEF rec
  <2> QED BY <2>3, <2>4, <2>5, MoveShape
<1>6. CASE EndBatch(r)
  <2> DEFINE rs == [c \in 1..Cardinality(With(r, {"reported"})) |-> ToolResult(c)]
             ctx == loop[r].ctx \o rs
             more == ~loop[r].term
             rec == [loop[r] EXCEPT !.pc = "turnEnd", !.more = more, !.ctx = ctx,
                                    !.calls = <<>>]
  <2>1. rs \in Seq(Messages)
    <3>1. Cardinality(With(r, {"reported"})) \in Nat
      BY <1>1, WithFacts
    <3>2. \A c \in 1..Cardinality(With(r, {"reported"})) : ToolResult(c) \in Messages
      BY MessageTypes, <3>1
    <3> QED BY <3>1, <3>2, IsASeq
  <2>2. loop' = [loop EXCEPT ![r] = rec] /\ out' = [out EXCEPT ![r] = <<Event("turn_end")>>]
    BY <1>6 DEF EndBatch
  <2> HIDE DEF rs
  <2>3. ctx \in Seq(Messages) /\ <<>> \in Seq(CallStatus)
    BY <1>1, <2>1
  <2>4. "turnEnd" \in LoopStates /\ more \in BOOLEAN
    BY DEF LoopStates
  <2> HIDE DEF ctx, more
  <2>5. rec \in LoopRecord /\ rec.pc = "turnEnd"
    BY <1>1, <2>3, <2>4 DEF LoopRecord
  <2>6. Fits(Event("turn_end"), "turnEnd")
    BY PlainEventsFit
  <2> HIDE DEF rec
  <2> QED BY <2>2, <2>5, <2>6, MoveShape
<1>7. CASE LoopReturns(r)
  <2>1. [loop[r] EXCEPT !.pc = "returned"] \in LoopRecord
    BY <1>1 DEF LoopRecord, LoopStates
  <2>2. [loop[r] EXCEPT !.pc = "returned"].pc = "returned"
    BY <1>1 DEF LoopRecord
  <2> QED BY <1>7, <2>1, <2>2, QuietShape DEF LoopReturns, At, Awaited
<1> QED BY <1>2, <1>3, <1>4, <1>5, <1>6, <1>7

LEMMA StatusTypes ==
  ASSUME LoopTypeOK, NEW r \in Runs, NEW st \in CallStatus
  PROVE  \A c \in Calls(r) : [loop[r].calls EXCEPT ![c] = st] \in Seq(CallStatus)
BY RecordFacts DEF Calls

LEMMA BatchShape ==
  ASSUME LoopShape, NEW r \in Runs,
         \/ \E mode \in {"sequential", "parallel"} : ExecuteToolCalls(r, mode)
         \/ \E c \in Calls(r) : StartCall(r, c) \/ RefuseCall(r, c) \/ PrepareCall(r, c)
                                  \/ FinishCall(r, c) \/ CallEnded(r, c)
         \/ LaunchCalls(r) \/ ReportResults(r) \/ EndSequentialBatch(r)
  PROVE  LoopShape'
<1>1. /\ LoopTypeOK /\ Shape(r) /\ loop[r] \in LoopRecord
      /\ loop[r].ctx \in Seq(Messages) /\ loop[r].calls \in Seq(CallStatus)
      /\ Len(loop[r].calls) \in Nat /\ out[r] \in Seq(Events)
  BY RecordFacts DEF LoopShape, LoopRecord
<1>2. ASSUME NEW mode \in {"sequential", "parallel"}, ExecuteToolCalls(r, mode)
      PROVE  LoopShape'
  <2> DEFINE cs == [c \in 1..Reply(r).n |-> "new"]
             rec == [loop[r] EXCEPT !.pc = "tools", !.mode = mode, !.term = TRUE,
                                    !.calls = cs]
  <2>1. Reply(r) \in Messages
    <3>1. loop[r].ctx # <<>>
      BY <1>1, <1>2 DEF ExecuteToolCalls, At, Shape
    <3> QED BY <1>1, <3>1 DEF Reply
  <2>2. Reply(r).n \in Nat
    BY <2>1 DEF Messages
  <2>3. cs \in Seq(CallStatus)
    BY <2>2 DEF CallStatus
  <2>4. loop' = [loop EXCEPT ![r] = rec]
    BY <1>2 DEF ExecuteToolCalls
  <2> HIDE DEF cs
  <2>5. rec \in LoopRecord /\ rec.pc = "tools"
    BY <1>1, <2>3 DEF LoopRecord, LoopStates
  <2> QED BY <1>2, <2>4, <2>5, QuietShape DEF ExecuteToolCalls, At, Awaited
<1>3. ASSUME NEW c \in Calls(r), StartCall(r, c) PROVE LoopShape'
  <2> DEFINE rec == [loop[r] EXCEPT !.calls[c] = "started"]
  <2>1. rec \in LoopRecord /\ rec.pc = loop[r].pc
    BY <1>1, StatusTypes DEF LoopRecord, CallStatus
  <2>2. loop[r].pc = "tools" /\ c \in Nat
    BY <1>1, <1>3 DEF StartCall, At, Calls
  <2>3. Fits(CallEvent("tool_execution_start", c), rec.pc)
    BY <2>2, PlainEventsFit
  <2>4. /\ loop' = [loop EXCEPT ![r] = rec]
        /\ out' = [out EXCEPT ![r] = <<CallEvent("tool_execution_start", c)>>]
    BY <1>3 DEF StartCall
  <2> HIDE DEF rec
  <2>5. rec.pc # "replied"
    BY <2>1, <2>2
  <2> QED BY <2>1, <2>3, <2>4, <2>5, MoveShape
<1>4. ASSUME NEW c \in Calls(r), RefuseCall(r, c) PROVE LoopShape'
  <2> DEFINE rec == [loop[r] EXCEPT !.calls[c] = "ending", !.term = FALSE]
  <2>1. rec \in LoopRecord /\ rec.pc = loop[r].pc
    BY <1>1, StatusTypes DEF LoopRecord, CallStatus
  <2> QED BY <1>1, <1>4, <2>1, QuietShape DEF RefuseCall, At, Awaited
<1>5. ASSUME NEW c \in Calls(r), PrepareCall(r, c) PROVE LoopShape'
  <2> DEFINE st == IF loop[r].mode = "sequential" THEN "running" ELSE "prepared"
             rec == [loop[r] EXCEPT !.calls[c] = st]
  <2>1. st \in CallStatus
    BY DEF CallStatus
  <2>2. loop' = [loop EXCEPT ![r] = rec]
    BY <1>5 DEF PrepareCall
  <2> HIDE DEF st
  <2>3. rec \in LoopRecord /\ rec.pc = loop[r].pc
    BY <1>1, <2>1, StatusTypes DEF LoopRecord
  <2> QED BY <1>5, <2>2, <2>3, QuietShape DEF PrepareCall, At, Awaited
<1>6. ASSUME NEW c \in Calls(r), FinishCall(r, c) PROVE LoopShape'
  <2>1. PICK t \in BOOLEAN :
          loop' = [loop EXCEPT ![r].calls[c] = "ending", ![r].term = @ /\ t]
    BY <1>6 DEF FinishCall
  <2> DEFINE tt == loop[r].term /\ t
             rec == [loop[r] EXCEPT !.calls[c] = "ending", !.term = tt]
  <2>2. tt \in BOOLEAN
    BY <1>1 DEF LoopRecord
  <2>3. loop' = [loop EXCEPT ![r] = rec]
    BY <2>1
  <2> HIDE DEF tt
  <2>4. rec \in LoopRecord /\ rec.pc = loop[r].pc
    BY <1>1, <2>2, StatusTypes DEF LoopRecord, CallStatus
  <2>5. CASE loop[r].pc # "replied"
    BY <1>6, <2>3, <2>4, <2>5, QuietShape DEF FinishCall
  <2>6. CASE loop[r].pc = "replied"
    <3>1. rec.ctx = loop[r].ctx
      BY <1>1 DEF LoopRecord
    <3>2. out' = [out EXCEPT ![r] = out[r]]
      BY <1>1, <1>6 DEF FinishCall, LoopTypeOK
    <3> QED BY <1>1, <2>3, <2>4, <2>6, <3>1, <3>2, ShapeKept DEF Shape
  <2> QED BY <2>5, <2>6
<1>7. ASSUME NEW c \in Calls(r), CallEnded(r, c) PROVE LoopShape'
  <2> DEFINE rec == [loop[r] EXCEPT !.calls[c] = "done"]
  <2>1. rec \in LoopRecord /\ rec.pc = loop[r].pc /\ rec.ctx = loop[r].ctx
    BY <1>1, StatusTypes DEF LoopRecord, CallStatus
  <2>2. out' = [out EXCEPT ![r] = out[r]]
    BY <1>1, <1>7 DEF CallEnded, LoopTypeOK
  <2> QED BY <1>1, <1>7, <2>1, <2>2, ShapeKept DEF CallEnded, Shape
<1>8. CASE LaunchCalls(r)
  <2> DEFINE cs == [c \in Calls(r) |->
                      IF loop[r].calls[c] = "prepared" THEN "running" ELSE loop[r].calls[c]]
             rec == [loop[r] EXCEPT !.pc = "joining", !.calls = cs]
  <2>1. cs \in Seq(CallStatus)
    <3>1. "running" \in CallStatus
      BY DEF CallStatus
    <3> QED BY <1>1, <3>1 DEF Calls
  <2>2. loop' = [loop EXCEPT ![r] = rec]
    BY <1>8 DEF LaunchCalls
  <2> HIDE DEF cs
  <2>3. rec \in LoopRecord /\ rec.pc = "joining"
    BY <1>1, <2>1 DEF LoopRecord, LoopStates
  <2> QED BY <1>8, <2>2, <2>3, QuietShape DEF LaunchCalls, At, Awaited
<1>9. CASE ReportResults(r)
  <2> DEFINE cs == [c \in Calls(r) |->
                      IF loop[r].calls[c] = "done" THEN "reported" ELSE loop[r].calls[c]]
             p == IF loop[r].pc = "joining" THEN "batchEnd" ELSE loop[r].pc
             rec == [loop[r] EXCEPT !.pc = p, !.calls = cs]
             msgs == Reports(With(r, {"done"}))
  <2>1. cs \in Seq(CallStatus)
    <3>1. "reported" \in CallStatus
      BY DEF CallStatus
    <3> QED BY <1>1, <3>1 DEF Calls
  <2>2. p \in LoopStates /\ p # "replied" /\ p \in {"tools", "batchEnd"}
    BY <1>9 DEF ReportResults, At, LoopStates
  <2>3. msgs \in Seq(Speakable(p))
    BY <1>1, <2>2, WithFacts, ReportsType
  <2>4. loop' = [loop EXCEPT ![r] = rec]
    BY <1>9 DEF ReportResults
  <2>5. out' = [out EXCEPT ![r] = MessageEvents(msgs)]
    BY <1>9 DEF ReportResults, Reports
  <2> HIDE DEF cs, p, msgs
  <2>6. rec \in LoopRecord /\ rec.pc = p
    BY <1>1, <2>1, <2>2 DEF LoopRecord
  <2> QED BY <2>2, <2>3, <2>4, <2>5, <2>6, MoveShape
<1>10. CASE EndSequentialBatch(r)
  <2>1. [loop[r] EXCEPT !.pc = "batchEnd"] \in LoopRecord
    BY <1>1 DEF LoopRecord, LoopStates
  <2>2. [loop[r] EXCEPT !.pc = "batchEnd"].pc = "batchEnd"
    BY <1>1 DEF LoopRecord
  <2> QED BY <1>10, <2>1, <2>2, QuietShape DEF EndSequentialBatch, At, Awaited
<1> QED BY <1>2, <1>3, <1>4, <1>5, <1>6, <1>7, <1>8, <1>9, <1>10

LEMMA LoopStepShape ==
  ASSUME LoopShape, NEW r \in Runs, LoopStep(r)
  PROVE  LoopShape'
BY TurnShape, BatchShape DEF LoopStep

(* The polls and prepareNextTurn.                                            *)
LEMMA AnswerShape ==
  ASSUME LoopShape, NEW r \in Runs, NEW msgs \in Seq(Spoken), NEW ctx \in Seq(Messages),
         SteeringPolled(r, msgs) \/ FollowUpPolled(r, msgs) \/ TurnPrepared(r, ctx)
  PROVE  LoopShape'
<1>1. loop[r] \in LoopRecord
  BY RecordFacts DEF LoopShape
<1>2. CASE EnterTurn(r, msgs)
  BY <1>2, EnterShape
<1>3. CASE SteeringPolled(r, msgs) /\ ~EnterTurn(r, msgs)
  <2>1. [loop[r] EXCEPT !.pc = "followUp"] \in LoopRecord
    BY <1>1 DEF LoopRecord, LoopStates
  <2>2. [loop[r] EXCEPT !.pc = "followUp"].pc = "followUp"
    BY <1>1 DEF LoopRecord
  <2> QED BY <1>3, <2>1, <2>2, QuietShape DEF SteeringPolled, At, Awaited
<1>4. CASE FollowUpPolled(r, msgs) /\ ~EnterTurn(r, msgs)
  <2> DEFINE rec == [loop[r] EXCEPT !.pc = "ending"]
  <2>1. rec \in LoopRecord /\ rec.pc = "ending"
    BY <1>1 DEF LoopRecord, LoopStates
  <2>2. /\ loop' = [loop EXCEPT ![r] = rec]
        /\ out' = [out EXCEPT ![r] = <<Event("agent_end")>>]
    BY <1>4 DEF FollowUpPolled
  <2>3. Fits(Event("agent_end"), "ending")
    BY PlainEventsFit
  <2> HIDE DEF rec
  <2> QED BY <2>1, <2>2, <2>3, MoveShape
<1>5. CASE TurnPrepared(r, ctx)
  <2> DEFINE rec == [loop[r] EXCEPT !.pc = "steering", !.ctx = ctx]
  <2>1. rec \in LoopRecord /\ rec.pc = "steering"
    BY <1>1 DEF LoopRecord, LoopStates
  <2>2. loop' = [loop EXCEPT ![r] = rec] /\ UNCHANGED out /\ out[r] = <<>>
    BY <1>5 DEF TurnPrepared, At, Awaited
  <2> HIDE DEF rec
  <2> QED BY <2>1, <2>2, QuietShape
<1> QED BY <1>2, <1>3, <1>4, <1>5

(* Where a step of the loop may take a run.                                  *)
LoopEffect(r) ==
  /\ \A q \in Runs \ {r} : loop'[q] = loop[q] /\ out'[q] = out[q]
  /\ \/ loop'[r].pc = loop[r].pc /\ loop'[r].ctx = loop[r].ctx /\ out'[r] = out[r]
     \/ /\ out[r] = <<>>
        /\ loop[r].pc \notin {"unused", "steering", "followUp", "turnEnd", "returned",
                              "failing", "dead"}
        /\ loop[r].pc = "ending" => loop'[r].pc = "returned"
        /\ loop'[r].pc = "returned" => loop[r].pc = "ending" /\ out'[r] = <<>>
        /\ loop'[r].pc \notin {"unused", "failing", "dead"}
        /\ loop'[r].pc = "waiting" => out'[r] = <<>>

LEMMA LoopStepEffect ==
  ASSUME LoopTypeOK, NEW r \in Runs, LoopStep(r)
  PROVE  LoopEffect(r)
<1> USE DEF LoopEffect
<1>1. loop[r] \in LoopRecord /\ loop \in [Runs -> LoopRecord] /\ out \in [Runs -> Seq(Events)]
  BY RecordFacts DEF LoopTypeOK
<1>2. CASE Request(r)
  BY <1>1, <1>2 DEF Request, At, Awaited, LoopRecord
<1>3. CASE Respond(r)
  BY <1>1, <1>3 DEF Respond, At, Awaited, LoopRecord
<1>4. CASE StopOnError(r) \/ EndTurnWithoutTools(r)
  BY <1>1, <1>4 DEF StopOnError, EndTurnWithoutTools, At, Awaited, LoopRecord
<1>5. CASE EndBatch(r)
  BY <1>1, <1>5 DEF EndBatch, At, Awaited, LoopRecord
<1>6. CASE LoopReturns(r)
  BY <1>1, <1>6 DEF LoopReturns, At, Awaited, LoopRecord
<1>7. CASE \E mode \in {"sequential", "parallel"} : ExecuteToolCalls(r, mode)
  BY <1>1, <1>7 DEF ExecuteToolCalls, At, Awaited, LoopRecord
<1>8. ASSUME NEW c \in Calls(r), StartCall(r, c) PROVE LoopEffect(r)
  BY <1>1, <1>8 DEF StartCall, At, Awaited, LoopRecord
<1>9. ASSUME NEW c \in Calls(r), RefuseCall(r, c) \/ PrepareCall(r, c) PROVE LoopEffect(r)
  BY <1>1, <1>9 DEF RefuseCall, PrepareCall, At, Awaited, LoopRecord
<1>10. ASSUME NEW c \in Calls(r), FinishCall(r, c) PROVE LoopEffect(r)
  BY <1>1, <1>10 DEF FinishCall, LoopRecord
<1>11. CASE LaunchCalls(r) \/ EndSequentialBatch(r)
  BY <1>1, <1>11 DEF LaunchCalls, EndSequentialBatch, At, Awaited, LoopRecord
<1>12. CASE ReportResults(r)
  BY <1>1, <1>12 DEF ReportResults, At, Awaited, LoopRecord
<1> QED
  BY <1>2, <1>3, <1>4, <1>5, <1>6, <1>7, <1>8, <1>9, <1>10, <1>11, <1>12 DEF LoopStep

-----------------------------------------------------------------------------
(* The batch of tool calls.                                                  *)

BatchStates == {"tools", "joining", "batchEnd"}

(* How far the calls of a batch may be: one after the other in sequential    *)
(* mode, reported together in parallel mode.  A run that failed leaves its   *)
(* calls where they are.                                                     *)
NoCalls(r) == loop[r].pc \notin BatchStates \cup {"failing", "dead"} => loop[r].calls = <<>>
Asked(r)   == loop[r].pc \in BatchStates => loop[r].ctx # <<>> /\ Reply(r).kind = "toolUse"

NoneIs(r, statuses) == \A c \in Calls(r) : loop[r].calls[c] \notin statuses
InOrder(r, statuses) ==
  \A b, c \in Calls(r) : b < c /\ loop[r].calls[c] # "new" => loop[r].calls[b] \notin statuses

Joined(r) ==
  loop[r].pc = "joining" => loop[r].mode = "parallel" /\ NoneIs(r, {"started", "prepared"})
OneByOne(r) ==
  loop[r].pc = "tools" /\ loop[r].mode = "sequential" =>
    NoneIs(r, {"prepared"}) /\ InOrder(r, CallStatus \ {"reported"})
Together(r) ==
  loop[r].pc \in {"tools", "joining"} /\ loop[r].mode = "parallel" =>
    NoneIs(r, {"reported"}) /\ InOrder(r, {"new"})
BatchOver(r) ==
  loop[r].pc = "batchEnd" =>
    NoneIs(r, CallStatus \ {"new", "reported"}) /\ InOrder(r, {"new"})
Silent(r) ==
  (\E i \in 1..Len(out[r]) : out[r][i].type = "message_end") =>
    loop[r].pc \in {"failing", "dead"} \/ NoneIs(r, {"running", "ending"})

Batch(r) == /\ NoCalls(r) /\ Asked(r) /\ Joined(r) /\ OneByOne(r)
            /\ Together(r) /\ BatchOver(r) /\ Silent(r)

LEMMA BatchUnchanged ==
  ASSUME NEW r, Batch(r), out'[r] = out[r], loop'[r].pc = loop[r].pc,
         loop'[r].calls = loop[r].calls, loop'[r].ctx = loop[r].ctx,
         loop'[r].mode = loop[r].mode
  PROVE  Batch(r)'
BY DEF Batch, NoCalls, Asked, Joined, OneByOne, Together, BatchOver, Silent, NoneIs,
       InOrder, Calls, Reply

(* The first of the awaited events has been handled.                         *)
LEMMA BatchHandled ==
  ASSUME LoopTypeOK, NEW r \in Runs, Batch(r), out[r] # <<>>, out'[r] = Tail(out[r]),
         loop'[r] = loop[r]
  PROVE  Batch(r)'
<1>1. /\ out[r] \in Seq(Events) /\ Len(out[r]) \in Nat
      /\ Len(Tail(out[r])) = Len(out[r]) - 1
      /\ \A i \in 1..Len(Tail(out[r])) : Tail(out[r])[i] = out[r][i + 1]
  <2>1. out[r] \in Seq(Events)
    BY DEF LoopTypeOK
  <2> QED BY <2>1, HeadTailProperties, LenProperties
<1>2. \A i \in 1..Len(out'[r]) : i + 1 \in 1..Len(out[r]) /\ out'[r][i] = out[r][i + 1]
  BY <1>1
<1>3. Silent(r)'
  BY <1>2 DEF Batch, Silent, NoneIs, Calls
<1> QED BY <1>3 DEF Batch, NoCalls, Asked, Joined, OneByOne, Together, BatchOver, NoneIs,
                    InOrder, Calls, Reply

LEMMA BatchFailed ==
  ASSUME NEW r, loop'[r].pc \in {"failing", "dead"}
  PROVE  Batch(r)'
BY DEF Batch, NoCalls, Asked, Joined, OneByOne, Together, BatchOver, Silent, BatchStates

LEMMA NoBatch ==
  ASSUME NEW r, loop'[r].pc \notin BatchStates, loop'[r].calls = <<>>
  PROVE  Batch(r)'
BY DEF Batch, NoCalls, Asked, Joined, OneByOne, Together, BatchOver, Silent, NoneIs,
       InOrder, Calls, BatchStates

LEMMA BatchTurns ==
  ASSUME LoopShape, NEW r \in Runs, Batch(r),
         \/ Request(r) \/ Respond(r) \/ StopOnError(r) \/ EndTurnWithoutTools(r)
         \/ EndBatch(r) \/ LoopReturns(r)
         \/ \E msgs, ctx : SteeringPolled(r, msgs) \/ FollowUpPolled(r, msgs)
                             \/ TurnPrepared(r, ctx)
         \/ \E prompts, ctx : RunAgentLoop(r, prompts, ctx)
  PROVE  Batch(r)'
<1>1. loop[r] \in LoopRecord /\ loop \in [Runs -> LoopRecord]
  BY RecordFacts DEF LoopShape, LoopTypeOK
<1>2. loop[r].pc \notin BatchStates \cup {"failing", "dead"} => loop[r].calls = <<>>
  BY DEF Batch, NoCalls
<1>13. ASSUME NEW msgs, EnterTurn(r, msgs)
       PROVE  loop'[r].pc = "stream" /\ loop'[r].calls = loop[r].calls
  <2> DEFINE c == loop[r].ctx \o msgs
  <2>1. loop' = [loop EXCEPT ![r] = [loop[r] EXCEPT !.pc = "stream", !.first = FALSE, !.ctx = c]]
    BY <1>1, <1>13 DEF EnterTurn
  <2> HIDE DEF c
  <2> QED BY <1>1, <2>1 DEF LoopRecord
<1>3. CASE Request(r)
  BY <1>1, <1>2, <1>3, NoBatch DEF Request, At, LoopRecord, BatchStates
<1>4. CASE Respond(r)
  <2>1. loop[r].pc = "waiting" /\ loop'[r].pc = "replied" /\ loop'[r].calls = loop[r].calls
    <3>1. PICK m \in Replies(r) :
            loop' = [loop EXCEPT ![r].pc = "replied", ![r].ctx = Append(@, m),
                                 ![r].turns = @ + 1]
      BY <1>4 DEF Respond
    <3> DEFINE c == Append(loop[r].ctx, m)  n == loop[r].turns + 1
    <3>2. loop' = [loop EXCEPT ![r] = [loop[r] EXCEPT !.pc = "replied", !.ctx = c, !.turns = n]]
      BY <1>1, <3>1
    <3> HIDE DEF c, n
    <3> QED BY <1>1, <1>4, <3>2 DEF Respond, At, LoopRecord
  <2> QED BY <1>2, <2>1, NoBatch DEF BatchStates
<1>5. CASE StopOnError(r)
  BY <1>1, <1>2, <1>5, NoBatch DEF StopOnError, At, LoopRecord, BatchStates
<1>6. CASE EndTurnWithoutTools(r)
  BY <1>1, <1>2, <1>6, NoBatch DEF EndTurnWithoutTools, At, LoopRecord, BatchStates
<1>7. CASE EndBatch(r)
  BY <1>1, <1>7, NoBatch DEF EndBatch, LoopRecord, BatchStates
<1>8. CASE LoopReturns(r)
  BY <1>1, <1>2, <1>8, NoBatch DEF LoopReturns, At, LoopRecord, BatchStates
<1>9. ASSUME NEW msgs, SteeringPolled(r, msgs) PROVE Batch(r)'
  <2>1. CASE EnterTurn(r, msgs)
    BY <1>2, <1>13, <1>9, <2>1, NoBatch DEF SteeringPolled, At, BatchStates
  <2>2. CASE ~EnterTurn(r, msgs)
    <3>1. loop' = [loop EXCEPT ![r].pc = "followUp"] /\ loop[r].pc = "steering"
      BY <1>9, <2>2 DEF SteeringPolled, At
    <3>2. loop'[r].pc = "followUp" /\ loop'[r].calls = loop[r].calls
      BY <1>1, <3>1 DEF LoopRecord
    <3> QED BY <1>2, <3>1, <3>2, NoBatch DEF BatchStates
  <2> QED BY <2>1, <2>2
<1>10. ASSUME NEW msgs, FollowUpPolled(r, msgs) PROVE Batch(r)'
  <2>1. CASE EnterTurn(r, msgs)
    BY <1>2, <1>13, <1>10, <2>1, NoBatch DEF FollowUpPolled, At, BatchStates
  <2>2. CASE ~EnterTurn(r, msgs)
    BY <1>1, <1>2, <1>10, <2>2, NoBatch DEF FollowUpPolled, At, LoopRecord, BatchStates
  <2> QED BY <2>1, <2>2
<1>11. ASSUME NEW ctx, TurnPrepared(r, ctx) PROVE Batch(r)'
  BY <1>1, <1>2, <1>11, NoBatch DEF TurnPrepared, At, LoopRecord, BatchStates
<1>12. ASSUME NEW prompts, NEW ctx, RunAgentLoop(r, prompts, ctx) PROVE Batch(r)'
  BY <1>1, <1>12, NoBatch DEF RunAgentLoop, Unused, BatchStates
<1> QED BY <1>3, <1>4, <1>5, <1>6, <1>7, <1>8, <1>9, <1>10, <1>11, <1>12

LEMMA BatchSteps ==
  ASSUME LoopShape, NEW r \in Runs, Batch(r),
         \/ \E mode \in {"sequential", "parallel"} : ExecuteToolCalls(r, mode)
         \/ \E c \in Calls(r) : StartCall(r, c) \/ RefuseCall(r, c) \/ PrepareCall(r, c)
                                  \/ FinishCall(r, c) \/ CallEnded(r, c)
         \/ LaunchCalls(r) \/ ReportResults(r) \/ EndSequentialBatch(r)
  PROVE  Batch(r)'
<1> USE DEF NoCalls, Asked, Joined, OneByOne, Together, BatchOver, Silent, NoneIs, InOrder,
            BatchStates
<1>1. /\ loop[r] \in LoopRecord /\ loop \in [Runs -> LoopRecord]
      /\ out[r] \in Seq(Events) /\ out \in [Runs -> Seq(Events)]
      /\ loop[r].ctx \in Seq(Messages)
      /\ Len(loop[r].calls) \in Nat /\ Calls(r) = 1..Len(loop[r].calls)
      /\ loop[r].calls \in [1..Len(loop[r].calls) -> CallStatus]
  BY RecordFacts DEF LoopShape, LoopTypeOK, LoopRecord, Calls
<1>2. ASSUME NEW mode \in {"sequential", "parallel"}, ExecuteToolCalls(r, mode)
      PROVE  Batch(r)'
  <2> DEFINE cs == [c \in 1..Reply(r).n |-> "new"]
  <2>1. Reply(r) \in Messages /\ loop[r].ctx # <<>>
    <3>1. loop[r].ctx # <<>>
      BY <1>2 DEF ExecuteToolCalls, At, LoopShape, Shape
    <3> QED BY <1>1, <3>1 DEF Reply
  <2>2. Reply(r).n \in Nat
    BY <2>1 DEF Messages
  <2>3. Len(cs) = Reply(r).n /\ \A c \in 1..Len(cs) : cs[c] = "new"
    BY <2>2
  <2>4. /\ loop'[r].pc = "tools" /\ loop'[r].calls = cs /\ loop'[r].ctx = loop[r].ctx
        /\ out'[r] = <<>> /\ Reply(r).kind = "toolUse"
    BY <1>1, <1>2 DEF ExecuteToolCalls, At, Awaited, LoopRecord
  <2> HIDE DEF cs
  <2>5. Reply(r)' = Reply(r)
    BY <2>4 DEF Reply
  <2> QED BY <2>1, <2>3, <2>4, <2>5 DEF Batch, Calls
(* One call moves on, from a status that is not "new" ...                    *)
<1>3. ASSUME NEW c \in Calls(r), NEW st \in CallStatus \ {"new", "reported"},
             loop[r].calls[c] \notin {"new", "reported"},
             loop'[r].calls = [loop[r].calls EXCEPT ![c] = st],
             loop'[r].pc = loop[r].pc, loop'[r].ctx = loop[r].ctx,
             loop'[r].mode = loop[r].mode, out'[r] = out[r],
             st = "prepared" => loop[r].mode = "parallel" /\ loop[r].pc = "tools",
             st = "started" => loop[r].pc = "tools",
             st \in {"running", "ending"} =>
               out[r] = <<>> \/ loop[r].calls[c] \in {"running", "ending"}
      PROVE  Batch(r)'
  <2>1. Reply(r)' = Reply(r)
    BY <1>3 DEF Reply
  <2>2. Len(loop'[r].calls) = Len(loop[r].calls)
    BY <1>1, <1>3
  <2>3. \A b \in 1..Len(loop[r].calls) :
          loop'[r].calls[b] = IF b = c THEN st ELSE loop[r].calls[b]
    BY <1>1, <1>3
  <2>4. c \in 1..Len(loop[r].calls)
    BY <1>1
  <2>5. Calls(r) = 1..Len(loop[r].calls) /\ Calls(r)' = Calls(r)
    BY <2>2 DEF Calls
  <2>6. loop[r].calls[c] \in {"started", "prepared", "running", "ending", "done"}
    BY <1>1, <1>3 DEF CallStatus
  <2>7. loop[r].calls # <<>>
    BY <1>1, <2>4
  <2>8. NoCalls(r)' /\ Asked(r)'
    BY <1>3, <2>1, <2>7 DEF Batch
  <2>9. Joined(r)'
    BY <1>3, <2>3, <2>5 DEF Batch
  <2>10. OneByOne(r)'
    <3>1. SUFFICES ASSUME loop[r].pc = "tools", loop[r].mode = "sequential" PROVE OneByOne(r)'
      BY <1>3
    <3>2. st # "prepared"
      BY <1>3, <3>1
    <3>3. \A b, d \in Calls(r) : b < d /\ loop[r].calls[d] # "new" =>
            loop[r].calls[b] \notin CallStatus \ {"reported"}
      BY <3>1 DEF Batch
    <3>4. \A d \in Calls(r) : c < d => loop[r].calls[d] = "new"
      BY <1>1, <2>4, <2>5, <2>6, <3>3 DEF CallStatus
    <3>5. NoneIs(r, {"prepared"})'
      BY <2>3, <2>5, <3>1, <3>2 DEF Batch
    <3>6. InOrder(r, CallStatus \ {"reported"})'
      BY <1>3, <2>3, <2>5, <2>6, <3>3, <3>4 DEF CallStatus
    <3> QED BY <3>5, <3>6
  <2>11. Together(r)'
    BY <1>3, <2>3, <2>5 DEF Batch
  <2>12. BatchOver(r)'
    BY <1>3, <2>3, <2>5, <2>6 DEF Batch, CallStatus
  <2>13. Silent(r)'
    BY <1>3, <2>3, <2>5 DEF Batch
  <2> QED BY <2>8, <2>9, <2>10, <2>11, <2>12, <2>13 DEF Batch
(* ... or from "new", in its turn.                                           *)
<1>4. ASSUME NEW c \in Calls(r), StartCall(r, c) PROVE Batch(r)'
  <2>1. /\ loop'[r].calls = [loop[r].calls EXCEPT ![c] = "started"]
        /\ loop'[r].pc = "tools" /\ loop[r].pc = "tools" /\ loop'[r].ctx = loop[r].ctx
        /\ loop'[r].mode = loop[r].mode
        /\ out'[r] = <<CallEvent("tool_execution_start", c)>>
    BY <1>1, <1>4 DEF StartCall, At, LoopRecord
  <2>2. Len(loop'[r].calls) = Len(loop[r].calls) /\ Reply(r)' = Reply(r)
    BY <1>1, <2>1 DEF Reply
  <2>3. \A b \in 1..Len(loop[r].calls) :
          loop'[r].calls[b] = IF b = c THEN "started" ELSE loop[r].calls[b]
    BY <1>1, <2>1
  <2>4. c \in 1..Len(loop[r].calls) /\ \A b \in 1..Len(loop[r].calls) :
          b < c => loop[r].calls[b] # "new"
    <3>1. \A b \in With(r, {"new"}) : c <= b
      BY <1>4 DEF StartCall
    <3> QED BY <1>1, <3>1 DEF With
  <2>5. loop[r].mode = "sequential" =>
          \A b \in 1..Len(loop[r].calls) : loop[r].calls[b] \in {"new", "reported"}
    <3>1. ASSUME loop[r].mode = "sequential", NEW b \in 1..Len(loop[r].calls)
          PROVE  loop[r].calls[b] \in {"new", "reported"}
      <4>1. b \notin Busy(r) /\ b \notin With(r, {"done"})
        BY <1>4, <3>1 DEF StartCall
      <4>2. loop[r].calls[b] \notin {"started", "running", "ending", "done"}
        BY <1>1, <4>1 DEF Busy, With
      <4>3. loop[r].calls[b] # "prepared"
        BY <1>1, <2>1, <3>1 DEF Batch
      <4> QED BY <1>1, <4>2, <4>3 DEF CallStatus
    <3> QED BY <3>1
  <2>6. loop[r].calls[c] = "new"
    BY <1>4 DEF StartCall, With
  <2>7. \A i \in 1..Len(out'[r]) : out'[r][i].type # "message_end"
    BY <2>1 DEF CallEvent
  <2>8. loop[r].mode \in {"sequential", "parallel"}
    BY <1>1 DEF LoopRecord
  <2>9. Calls(r) = 1..Len(loop[r].calls) /\ Calls(r)' = Calls(r)
    BY <2>2 DEF Calls
  <2>10. NoCalls(r)' /\ Asked(r)' /\ Joined(r)' /\ BatchOver(r)' /\ Silent(r)'
    BY <2>1, <2>2, <2>7 DEF Batch
  <2>11. OneByOne(r)'
    <3>1. SUFFICES ASSUME loop[r].mode = "sequential" PROVE OneByOne(r)'
      BY <2>1
    <3>2. NoneIs(r, {"prepared"})'
      BY <2>3, <2>5, <2>9, <3>1
    <3>3. \A b \in Calls(r) : b < c => loop[r].calls[b] = "reported"
      BY <1>1, <2>4, <2>5, <2>9, <3>1
    <3>4. \A b \in Calls(r) : c < b => loop[r].calls[b] = "new"
      BY <1>1, <2>1, <2>4, <2>6, <2>9, <3>1 DEF Batch, CallStatus
    <3>5. InOrder(r, CallStatus \ {"reported"})'
      <4>1. SUFFICES ASSUME NEW b \in Calls(r), NEW d \in Calls(r), b < d,
                            loop'[r].calls[d] # "new"
                     PROVE  loop'[r].calls[b] = "reported"
        BY <2>9
      <4>2. b < c
        <5>1. b \in Nat /\ c \in Nat /\ d \in Nat
          BY <1>1, <2>4, <2>9
        <5>2. d = c \/ loop[r].calls[d] # "new"
          BY <2>3, <2>9, <4>1
        <5>3. ~ (c < d)
          BY <3>4, <5>1, <5>2
        <5> QED BY <4>1, <5>1, <5>3
      <4>3. loop'[r].calls[b] = loop[r].calls[b]
        BY <1>1, <2>3, <2>9, <4>2
      <4> QED BY <3>3, <4>2, <4>3
    <3> QED BY <3>2, <3>5
  <2>12. Together(r)'
    <3>1. SUFFICES ASSUME loop[r].mode = "parallel" PROVE Together(r)'
      BY <2>1
    <3>2. NoneIs(r, {"reported"})'
      BY <2>1, <2>3, <2>9, <3>1 DEF Batch
    <3>3. InOrder(r, {"new"})'
      BY <1>1, <2>1, <2>3, <2>4, <2>9, <3>1 DEF Batch
    <3> QED BY <3>2, <3>3
  <2> QED BY <2>10, <2>11, <2>12 DEF Batch
<1>5. ASSUME NEW c \in Calls(r), RefuseCall(r, c) PROVE Batch(r)'
  <2>1. /\ loop'[r].calls = [loop[r].calls EXCEPT ![c] = "ending"]
        /\ loop'[r].pc = loop[r].pc /\ loop'[r].ctx = loop[r].ctx
        /\ loop'[r].mode = loop[r].mode /\ out'[r] = out[r] /\ out[r] = <<>>
        /\ loop[r].calls[c] = "started"
    BY <1>1, <1>5 DEF RefuseCall, At, Awaited, With, LoopRecord
  <2> QED BY <1>3, <2>1 DEF CallStatus
<1>6. ASSUME NEW c \in Calls(r), PrepareCall(r, c) PROVE Batch(r)'
  <2> DEFINE st == IF loop[r].mode = "sequential" THEN "running" ELSE "prepared"
  <2>1. /\ loop'[r].calls = [loop[r].calls EXCEPT ![c] = st]
        /\ loop'[r].pc = loop[r].pc /\ loop'[r].ctx = loop[r].ctx
        /\ loop'[r].mode = loop[r].mode /\ out'[r] = out[r] /\ out[r] = <<>>
        /\ loop[r].calls[c] = "started" /\ loop[r].pc = "tools"
    BY <1>1, <1>6 DEF PrepareCall, At, Awaited, With, LoopRecord
  <2>2. loop[r].mode \in {"sequential", "parallel"}
    BY <1>1 DEF LoopRecord
  <2>3. /\ st \in CallStatus \ {"new", "reported"} /\ st # "started"
        /\ st = "prepared" => loop[r].mode = "parallel"
    BY <2>2 DEF CallStatus
  <2> HIDE DEF st
  <2> QED BY <1>3, <2>1, <2>3
<1>7. ASSUME NEW c \in Calls(r), FinishCall(r, c) PROVE Batch(r)'
  <2>0. PICK t \in BOOLEAN : loop' = [loop EXCEPT ![r].calls[c] = "ending", ![r].term = @ /\ t]
    BY <1>7 DEF FinishCall
  <2> DEFINE cs == [loop[r].calls EXCEPT ![c] = "ending"]
             over == loop[r].term /\ t
  <2>3. loop' = [loop EXCEPT ![r] = [loop[r] EXCEPT !.calls = cs, !.term = over]]
    BY <1>1, <2>0 DEF LoopRecord
  <2>1. /\ loop'[r].calls = cs
        /\ loop'[r].pc = loop[r].pc /\ loop'[r].ctx = loop[r].ctx
        /\ loop'[r].mode = loop[r].mode
    <3> HIDE DEF cs, over
    <3> QED BY <1>1, <2>3 DEF LoopRecord
  <2>2. out'[r] = out[r] /\ loop[r].calls[c] = "running"
    BY <1>7 DEF FinishCall, With
  <2> QED BY <1>3, <2>1, <2>2 DEF CallStatus
<1>8. ASSUME NEW c \in Calls(r), CallEnded(r, c) PROVE Batch(r)'
  <2>1. /\ loop'[r].calls = [loop[r].calls EXCEPT ![c] = "done"]
        /\ loop'[r].pc = loop[r].pc /\ loop'[r].ctx = loop[r].ctx
        /\ loop'[r].mode = loop[r].mode /\ out'[r] = out[r]
        /\ loop[r].calls[c] = "ending"
    BY <1>1, <1>8 DEF CallEnded, With, LoopRecord
  <2> QED BY <1>3, <2>1 DEF CallStatus
<1>9. CASE LaunchCalls(r)
  <2> DEFINE cs == [c \in Calls(r) |->
                      IF loop[r].calls[c] = "prepared" THEN "running" ELSE loop[r].calls[c]]
  <2>1. /\ loop'[r].calls = cs /\ loop'[r].pc = "joining" /\ loop'[r].ctx = loop[r].ctx
        /\ loop'[r].mode = "parallel" /\ loop[r].mode = "parallel" /\ loop[r].pc = "tools"
        /\ out'[r] = <<>> /\ Busy(r) = {}
    BY <1>1, <1>9 DEF LaunchCalls, At, Awaited, LoopRecord
  <2>2. /\ Len(cs) = Len(loop[r].calls)
        /\ \A b \in 1..Len(loop[r].calls) : cs[b] =
             IF loop[r].calls[b] = "prepared" THEN "running" ELSE loop[r].calls[b]
    BY <1>1
  <2>3. \A b \in 1..Len(loop[r].calls) : loop[r].calls[b] # "started"
    BY <1>1, <2>1 DEF Busy, With
  <2> HIDE DEF cs
  <2>4. Reply(r)' = Reply(r)
    BY <2>1 DEF Reply
  <2>5. Calls(r)' = Calls(r)
    BY <2>1, <2>2 DEF Calls
  <2>6. Together(r)' /\ Joined(r)'
    BY <2>1, <2>2, <2>3, <2>5 DEF Batch, Calls
  <2>7. NoCalls(r)' /\ Asked(r)' /\ OneByOne(r)' /\ BatchOver(r)' /\ Silent(r)'
    BY <2>1, <2>4 DEF Batch
  <2> QED BY <2>6, <2>7 DEF Batch
<1>10. CASE ReportResults(r)
  <2> DEFINE cs == [c \in Calls(r) |->
                      IF loop[r].calls[c] = "done" THEN "reported" ELSE loop[r].calls[c]]
  <2>1. /\ loop'[r].calls = cs /\ loop'[r].ctx = loop[r].ctx /\ loop'[r].mode = loop[r].mode
        /\ loop'[r].pc = IF loop[r].pc = "joining" THEN "batchEnd" ELSE loop[r].pc
    BY <1>1, <1>10 DEF ReportResults, LoopRecord
  <2>2. /\ Len(cs) = Len(loop[r].calls)
        /\ \A b \in 1..Len(loop[r].calls) : cs[b] =
             IF loop[r].calls[b] = "done" THEN "reported" ELSE loop[r].calls[b]
    BY <1>1
  <2> HIDE DEF cs
  <2>3. Reply(r)' = Reply(r)
    BY <2>1 DEF Reply
  <2>4. CASE loop[r].pc = "joining" /\ With(r, {"running", "ending"}) = {}
    <3>1. \A b \in 1..Len(loop[r].calls) : loop[r].calls[b] \notin {"running", "ending"}
      BY <1>1, <2>4 DEF With
    <3>2. \A b \in 1..Len(loop[r].calls) : loop[r].calls[b] \in {"new", "done"}
      BY <1>1, <2>4, <3>1 DEF Batch, CallStatus
    <3> QED BY <1>1, <2>1, <2>2, <2>3, <2>4, <3>2 DEF Batch, Calls
  <2>5. CASE /\ loop[r].pc = "tools" /\ loop[r].mode = "sequential"
             /\ With(r, {"done"}) # {}
    <3>1. PICK d \in 1..Len(loop[r].calls) : loop[r].calls[d] = "done"
      BY <1>1, <2>5 DEF With
    <3>2. \A b \in 1..Len(loop[r].calls) :
            loop[r].calls[b] = IF b < d THEN "reported" ELSE IF b = d THEN "done" ELSE "new"
      <4>1. InOrder(r, CallStatus \ {"reported"})
        BY <2>5 DEF Batch
      <4>2. ASSUME NEW b \in 1..Len(loop[r].calls), b < d PROVE loop[r].calls[b] = "reported"
        BY <1>1, <3>1, <4>1, <4>2 DEF Calls
      <4>3. ASSUME NEW b \in 1..Len(loop[r].calls), d < b PROVE loop[r].calls[b] = "new"
        BY <3>1, <4>1, <4>3 DEF Calls, CallStatus
      <4>4. \A b \in 1..Len(loop[r].calls) : b < d \/ b = d \/ d < b
        <5>1. Len(loop[r].calls) \in Nat
          BY <1>1
        <5> QED BY <5>1
      <4> QED BY <3>1, <4>2, <4>3, <4>4
    <3>3. d \in Nat /\ Calls(r)' = 1..Len(loop[r].calls)
      BY <1>1, <2>1, <2>2 DEF Calls
    <3>4. \A b \in 1..Len(loop[r].calls) :
            cs[b] = IF b < d THEN "reported" ELSE IF b = d THEN "reported" ELSE "new"
      BY <2>2, <3>1, <3>2, <3>3
    <3>5. OneByOne(r)'
      <4>1. ASSUME NEW b \in 1..Len(loop[r].calls), NEW c \in 1..Len(loop[r].calls), b < c,
                   cs[c] # "new"
            PROVE  cs[b] = "reported"
        <5>1. b \in Nat /\ c \in Nat
          BY <1>1
        <5>2. b < d
          BY <3>3, <3>4, <4>1, <5>1
        <5> QED BY <3>4, <5>2
      <4>2. \A b \in 1..Len(loop[r].calls) : cs[b] # "prepared"
        BY <3>4
      <4> QED BY <2>1, <3>3, <4>1, <4>2
    <3>6. Silent(r)'
      BY <2>1, <3>3, <3>4
    <3>7. NoCalls(r)' /\ Asked(r)' /\ Joined(r)' /\ Together(r)' /\ BatchOver(r)'
      BY <2>1, <2>3, <2>5 DEF Batch
    <3> QED BY <3>5, <3>6, <3>7 DEF Batch
  <2> QED BY <1>10, <2>4, <2>5 DEF ReportResults, At
<1>11. CASE EndSequentialBatch(r)
  <2>1. /\ loop'[r].calls = loop[r].calls /\ loop'[r].ctx = loop[r].ctx
        /\ loop'[r].mode = loop[r].mode /\ loop'[r].pc = "batchEnd"
        /\ loop[r].pc = "tools" /\ loop[r].mode = "sequential" /\ out'[r] = <<>>
        /\ Busy(r) = {} /\ With(r, {"done"}) = {}
    BY <1>1, <1>11 DEF EndSequentialBatch, At, Awaited, LoopRecord
  <2>2. Reply(r)' = Reply(r)
    BY <2>1 DEF Reply
  <2>3. \A b \in 1..Len(loop[r].calls) : loop[r].calls[b] \in {"new", "reported"}
    BY <1>1, <2>1 DEF Busy, With, Batch, CallStatus
  <2> QED BY <1>1, <2>1, <2>2, <2>3 DEF Batch, Calls
<1> QED BY <1>2, <1>4, <1>5, <1>6, <1>7, <1>8, <1>9, <1>10, <1>11

LEMMA LoopStepBatch ==
  ASSUME LoopShape, NEW r \in Runs, Batch(r), LoopStep(r)
  PROVE  Batch(r)'
BY BatchTurns, BatchSteps DEF LoopStep

(* While a message is awaited, no call runs and none ends.                   *)
LEMMA QuietBatch ==
  ASSUME LoopTypeOK, NEW r \in Runs, Batch(r), out[r] # <<>>, out[r][1].type = "message_end",
         loop[r].pc \notin {"failing", "dead"}
  PROVE  With(r, {"running", "ending"}) = {}
<1>1. 1 \in 1..Len(out[r])
  <2>1. out[r] \in Seq(Events)
    BY DEF LoopTypeOK
  <2> QED BY <2>1
<1> QED BY <1>1 DEF Batch, Silent, NoneIs, With


-----------------------------------------------------------------------------
(* Sets of calls and the results they report.                                *)

(* A set of positions with all that comes before them.                       *)
LEMMA PrefixSet ==
  ASSUME NEW n \in Nat, NEW S \in SUBSET (1..n),
         \A b, c \in 1..n : b < c /\ c \in S => b \in S
  PROVE  Cardinality(S) \in Nat /\ S = 1..Cardinality(S)
<1> DEFINE T == {k \in 0..n : \A c \in S : c <= k}
<1>1. PICK k \in T : \A j \in T : k <= j
  <2>1. n \in T /\ T \in SUBSET Nat
    OBVIOUS
  <2> HIDE DEF T
  <2> QED BY <2>1, HasMinimum
<1>2. k \in 0..n /\ \A c \in S : c <= k
  BY <1>1
<1>3. k # 0 => k \in S
  <2>1. ASSUME k # 0, k \notin S PROVE FALSE
    <3>1. k - 1 \in T
      BY <1>2, <2>1
    <3> QED BY <1>1, <1>2, <3>1
  <2> QED BY <2>1
<1>4. S = 1..k
  <2>1. \A c \in S : c \in 1..k
    BY <1>2
  <2>2. \A b \in 1..k : b \in S
    BY <1>2, <1>3
  <2> QED BY <2>1, <2>2
<1>5. Cardinality(1..k) = k
  <2>1. k \in Int /\ 1 \in Int /\ (1 > k => k = 0)
    BY <1>2
  <2>2. Cardinality(1..k) = IF 1 > k THEN 0 ELSE k - 1 + 1
    BY <2>1, FS_Interval
  <2> QED BY <2>1, <2>2
<1>6. Cardinality(S) = k
  BY <1>4, <1>5
<1> QED BY <1>2, <1>4, <1>6

ResultsFrom(a, b) == [i \in 1..(b - a) |-> ToolResult(a + i)]

(* Calls that follow one another are reported in their order.                *)
LEMMA ReportsInOrder ==
  ASSUME NEW a \in Nat, NEW b \in Nat, a <= b
  PROVE  Reports((a + 1)..b) = ResultsFrom(a, b)
<1> DEFINE done == (a + 1)..b
           nth == [c \in done |-> Cardinality({d \in done : d <= c})]
<1>1. Cardinality(done) = b - a
  <2>1. a + 1 \in Int /\ b \in Int
    OBVIOUS
  <2>2. Cardinality((a + 1)..b) = IF a + 1 > b THEN 0 ELSE b - (a + 1) + 1
    BY <2>1, FS_Interval
  <2> QED BY <2>2
<1>2. ASSUME NEW c \in done PROVE nth[c] = c - a
  <2>1. {d \in done : d <= c} = (a + 1)..c /\ nth[c] = Cardinality({d \in done : d <= c})
    OBVIOUS
  <2>2. a + 1 \in Int /\ c \in Int
    OBVIOUS
  <2>3. Cardinality((a + 1)..c) = IF a + 1 > c THEN 0 ELSE c - (a + 1) + 1
    BY <2>2, FS_Interval
  <2>4. Cardinality((a + 1)..c) = c - a
    BY <2>3
  <2> HIDE DEF nth
  <2>5. nth[c] = Cardinality((a + 1)..c)
    BY <2>1
  <2> QED BY <2>4, <2>5
<1>3. ASSUME NEW i \in 1..(b - a) PROVE (CHOOSE c \in done : nth[c] = i) = a + i
  <2>1. a + i \in done /\ \A c \in done : c \in Nat
    OBVIOUS
  <2> HIDE DEF nth
  <2>2. nth[a + i] = i
    BY <1>2, <2>1
  <2>3. \A c \in done : nth[c] = i => c = a + i
    BY <1>2, <2>1
  <2> HIDE DEF done
  <2> QED BY <2>1, <2>2, <2>3
<1>4. Reports(done) = [i \in 1..(b - a) |-> ToolResult(CHOOSE c \in done : nth[c] = i)]
  BY <1>1 DEF Reports
<1> HIDE DEF done, nth
<1>5. Reports(done) = ResultsFrom(a, b)
  BY <1>3, <1>4 DEF ResultsFrom
<1> QED BY <1>5 DEF done

LEMMA ResultsType ==
  ASSUME NEW a \in Nat, NEW b \in Nat, a <= b
  PROVE  /\ ResultsFrom(a, b) \in Seq(Messages) /\ Len(ResultsFrom(a, b)) = b - a
         /\ \A i \in 1..(b - a) : ResultsFrom(a, b)[i] = ToolResult(a + i)
<1>1. \A i \in 1..(b - a) : ToolResult(a + i) \in Messages
  BY MessageTypes
<1>2. b - a \in Nat
  OBVIOUS
<1> QED BY <1>1, <1>2 DEF ResultsFrom

LEMMA ResultsConcat ==
  ASSUME NEW a \in Nat, NEW b \in Nat, a <= b
  PROVE  ResultsFrom(0, a) \o ResultsFrom(a, b) = ResultsFrom(0, b)
<1>1. /\ ResultsFrom(0, a) \in Seq(Messages) /\ ResultsFrom(a, b) \in Seq(Messages)
      /\ ResultsFrom(0, b) \in Seq(Messages)
      /\ Len(ResultsFrom(0, a)) = a /\ Len(ResultsFrom(a, b)) = b - a
      /\ Len(ResultsFrom(0, b)) = b
      /\ \A i \in 1..a : ResultsFrom(0, a)[i] = ToolResult(0 + i)
      /\ \A i \in 1..b : ResultsFrom(0, b)[i] = ToolResult(0 + i)
      /\ \A i \in 1..(b - a) : ResultsFrom(a, b)[i] = ToolResult(a + i)
  <2>1. 0 \in Nat /\ 0 <= a /\ 0 <= b /\ a - 0 = a /\ b - 0 = b
    OBVIOUS
  <2> QED BY <2>1, ResultsType
<1> DEFINE s == ResultsFrom(0, a)
           t == ResultsFrom(a, b)
<1>2. s \o t \in Seq(Messages) /\ Len(s \o t) = b
  <2>1. s \in Seq(Messages) /\ t \in Seq(Messages) /\ Len(s) = a /\ Len(t) = b - a
    BY <1>1
  <2> HIDE DEF s, t
  <2>2. Len(s) + Len(t) = b
    BY <2>1
  <2> QED BY <2>1, <2>2, ConcatProperties
<1>3. ASSUME NEW i \in 1..b PROVE (s \o t)[i] = ResultsFrom(0, b)[i]
  <2>1. (s \o t)[i] = IF i <= a THEN s[i] ELSE t[i - a]
    <3>1. i \in 1..(Len(s) + Len(t))
      BY <1>1
    <3> HIDE DEF s, t
    <3> QED BY <1>1, <3>1, ConcatProperties DEF s, t
  <2>2. CASE i <= a
    BY <1>1, <2>1, <2>2
  <2>3. CASE ~(i <= a)
    <3>1. i - a \in 1..(b - a) /\ a + (i - a) = 0 + i
      BY <2>3
    <3> QED BY <1>1, <2>1, <2>3, <3>1
  <2> QED BY <2>2, <2>3
<1> HIDE DEF s, t
<1>4. s \o t = ResultsFrom(0, b)
  BY <1>1, <1>2, <1>3, SeqEqual
<1> QED BY <1>4 DEF s, t

-----------------------------------------------------------------------------
(* What a run has said, and how the loop says more.                          *)

(* The states in which the context of the loop is in use.                    *)
CtxStates == {"steering", "followUp", "stream", "waiting", "replied"} \cup BatchStates

Results(r) == IF loop[r].pc \in BatchStates
              THEN ResultsFrom(0, Cardinality(With(r, {"reported"}))) ELSE <<>>
(* The context, with the results that will join it.                          *)
Said(r) == loop[r].ctx \o Results(r)

Openers == {Event("turn_start")} \cup {CallEvent("tool_execution_start", c) : c \in Nat}

(* Run r says msgs and announces them.                                       *)
Says(r, msgs) ==
  /\ out[r] = <<>> /\ Said(r)' = Said(r) \o msgs
  /\ \/ out'[r] = MessageEvents(msgs)
     \/ \E e \in Openers : out'[r] = <<e>> \o MessageEvents(msgs)

LEMMA EventsOfNone == MessageEvents(<<>>) = <<>>
<1>1. 2 * Len(<<>>) = 0
  OBVIOUS
<1>2. \A i \in 1..0 : FALSE
  OBVIOUS
<1> QED BY <1>1, <1>2 DEF MessageEvents

LEMMA MessageEventsAre ==
  ASSUME NEW msgs \in Seq(Messages)
  PROVE  /\ MessageEvents(msgs) \in Seq(Events)
         /\ Len(MessageEvents(msgs)) = 2 * Len(msgs)
         /\ \A i \in 1..(2 * Len(msgs)) : MessageEvents(msgs)[i] =
              MessageEvent(IF i % 2 = 1 THEN "message_start" ELSE "message_end",
                           msgs[(i + 1) \div 2])
<1>1. Len(msgs) \in Nat /\ 2 * Len(msgs) \in Nat
  OBVIOUS
<1>2. ASSUME NEW i \in 1..(2 * Len(msgs))
      PROVE  MessageEvent(IF i % 2 = 1 THEN "message_start" ELSE "message_end",
                          msgs[(i + 1) \div 2]) \in Events
  <2>1. (i + 1) \div 2 \in 1..Len(msgs)
    BY <1>1
  <2>2. msgs[(i + 1) \div 2] \in Messages
    BY <2>1
  <2> DEFINE m == msgs[(i + 1) \div 2]
  <2> HIDE DEF m
  <2>3. MessageEvent("message_start", m) \in Events /\ MessageEvent("message_end", m) \in Events
    BY <2>2, EventShapes DEF m, EventTypes
  <2> QED BY <2>3 DEF m
<1>3. MessageEvents(msgs) \in Seq(Events)
  BY <1>1, <1>2, IsASeq DEF MessageEvents
<1>4. Len(MessageEvents(msgs)) = 2 * Len(msgs)
  BY <1>1, <1>3 DEF MessageEvents
<1> QED BY <1>3, <1>4 DEF MessageEvents

LEMMA SaidType ==
  ASSUME LoopTypeOK, NEW r \in Runs
  PROVE  /\ Said(r) \in Seq(Messages) /\ Results(r) \in Seq(Messages)
         /\ loop[r].ctx \in Seq(Messages)
         /\ Said(r) \o <<>> = Said(r)
<1>1. Cardinality(With(r, {"reported"})) \in Nat
  BY WithFacts
<1>2. Results(r) \in Seq(Messages)
  <2>1. 0 \in Nat /\ \A n \in Nat : 0 <= n
    OBVIOUS
  <2> HIDE DEF LoopTypeOK
  <2> QED BY <1>1, <2>1, ResultsType DEF Results
<1>3. loop[r].ctx \in Seq(Messages)
  BY RecordFacts
<1>4. Said(r) \in Seq(Messages)
  BY <1>2, <1>3 DEF Said
<1> QED BY <1>2, <1>3, <1>4, ConcatEmptySeq

(* Outside of a batch only the context counts ...                            *)
LEMMA SaysContext ==
  ASSUME LoopTypeOK, NEW r \in Runs, NEW msgs \in Seq(Messages),
         loop[r].pc \notin BatchStates, loop'[r].pc \notin BatchStates,
         loop'[r].ctx = loop[r].ctx \o msgs
  PROVE  Said(r)' = Said(r) \o msgs
<1>1. loop[r].ctx \in Seq(Messages)
  BY RecordFacts
<1>2. Said(r) = loop[r].ctx
  BY <1>1, ConcatEmptySeq DEF Said, Results
<1>3. Said(r)' = loop'[r].ctx \o <<>>
  BY DEF Said, Results
<1> QED BY <1>1, <1>2, <1>3

(* ... a step that reports no call says nothing ...                          *)
LEMMA SaysNothing ==
  ASSUME LoopTypeOK, NEW r \in Runs, Batch(r), loop'[r].ctx = loop[r].ctx,
         loop[r].pc \in BatchStates \cup {"replied"}, loop'[r].pc \in BatchStates,
         With(r, {"reported"})' = With(r, {"reported"})
  PROVE  Said(r)' = Said(r)
<1>1. CASE loop[r].pc \in BatchStates
  BY <1>1 DEF Said, Results
<1>2. CASE loop[r].pc = "replied"
  <2>1. loop[r].calls = <<>>
    BY <1>2 DEF Batch, NoCalls, BatchStates
  <2>2. \A c \in With(r, {"reported"}) : FALSE
    BY <2>1 DEF With, Calls
  <2>3. With(r, {"reported"}) = {}
    BY <2>2
  <2>4. Cardinality(With(r, {"reported"})) = 0
    BY <2>3, FS_EmptySet
  <2>5. ResultsFrom(0, 0) = <<>>
    BY DEF ResultsFrom
  <2>6. Results(r)' = <<>>
    BY <2>4, <2>5 DEF Results
  <2>7. Results(r) = <<>>
    BY <1>2 DEF Results, BatchStates
  <2> QED BY <2>6, <2>7 DEF Said
<1> QED BY <1>1, <1>2

(* ... and ReportResults says the results of the calls that are done.        *)
LEMMA SaysResults ==
  ASSUME LoopTypeOK, NEW r \in Runs, Batch(r), ReportResults(r)
  PROVE  \E msgs \in Seq(Messages) :
           /\ Said(r)' = Said(r) \o msgs /\ out'[r] = MessageEvents(msgs)
<1> DEFINE done == With(r, {"done"})
           reported == With(r, {"reported"})
           n == Len(loop[r].calls)
           a == Cardinality(reported)
           b == Cardinality(reported \cup done)
<1>1. /\ loop[r] \in LoopRecord /\ loop \in [Runs -> LoopRecord]
      /\ loop[r].ctx \in Seq(Messages) /\ out \in [Runs -> Seq(Events)]
      /\ n \in Nat /\ Calls(r) = 1..n /\ loop[r].calls \in [1..n -> CallStatus]
      /\ loop[r].mode \in {"sequential", "parallel"}
  BY RecordFacts DEF LoopTypeOK, LoopRecord, Calls
<1>2. /\ loop'[r].calls = [c \in Calls(r) |->
                            IF loop[r].calls[c] = "done" THEN "reported" ELSE loop[r].calls[c]]
      /\ loop'[r].ctx = loop[r].ctx
      /\ loop'[r].pc \in BatchStates /\ loop[r].pc \in {"tools", "joining"}
      /\ out'[r] = MessageEvents(Reports(done))
  BY <1>1 DEF ReportResults, At, LoopRecord, BatchStates, Reports
<1>3. \A c, d \in 1..n : c < d /\ loop[r].calls[d] = "reported" => loop[r].calls[c] = "reported"
  <2>1. CASE loop[r].pc = "tools" /\ loop[r].mode = "sequential"
    BY <1>1, <2>1 DEF Batch, OneByOne, InOrder
  <2>2. CASE loop[r].mode = "parallel"
    BY <1>1, <1>2, <2>2 DEF Batch, Together, NoneIs
  <2>3. CASE loop[r].pc = "joining"
    BY <2>2, <2>3 DEF Batch, Joined
  <2> QED BY <1>1, <1>2, <2>1, <2>2, <2>3
<1>4. \A c, d \in 1..n : c < d /\ loop[r].calls[d] = "done" => loop[r].calls[c] \in {"done", "reported"}
  <2>1. CASE loop[r].pc = "tools"
    BY <1>1, <2>1 DEF ReportResults, At, Batch, OneByOne, InOrder, CallStatus
  <2>2. CASE loop[r].pc = "joining"
    <3>1. \A c \in 1..n : loop[r].calls[c] \notin {"running", "ending", "started", "prepared"}
      BY <1>1, <2>2 DEF ReportResults, At, With, Batch, Joined, NoneIs
    <3> QED BY <1>1, <2>2, <3>1 DEF Batch, Joined, Together, InOrder, CallStatus
  <2> QED BY <1>2, <2>1, <2>2
<1>5. reported \in SUBSET (1..n) /\ reported \cup done \in SUBSET (1..n)
  BY <1>1 DEF With
<1>6. /\ \A c \in 1..n : c \in reported <=> loop[r].calls[c] = "reported"
      /\ \A c \in 1..n : c \in reported \cup done <=> loop[r].calls[c] \in {"done", "reported"}
  BY <1>1 DEF With
<1>7. With(r, {"reported"})' = reported \cup done
  <2>1. Calls(r)' = 1..n
    BY <1>1, <1>2 DEF Calls
  <2>2. \A c \in 1..n : loop'[r].calls[c] = "reported" <=> loop[r].calls[c] \in {"done", "reported"}
    BY <1>1, <1>2
  <2> QED BY <1>5, <1>6, <2>1, <2>2 DEF With
<1>8. \A c \in done : c \notin reported
  BY DEF With
<1> HIDE DEF n
<1>9. a \in Nat /\ reported = 1..a
  <2>1. \A c, d \in 1..n : c < d /\ d \in reported => c \in reported
    BY <1>3, <1>6
  <2> HIDE DEF reported
  <2> QED BY <1>1, <1>5, <2>1, PrefixSet
<1>10. b \in Nat /\ reported \cup done = 1..b
  <2>1. \A c, d \in 1..n : c < d /\ d \in reported \cup done => c \in reported \cup done
    BY <1>3, <1>4, <1>6
  <2> HIDE DEF reported, done
  <2> QED BY <1>1, <1>5, <2>1, PrefixSet
<1> HIDE DEF done, reported, a, b
<1>11. a <= b
  <2>1. \A c \in 1..a : c \in 1..b
    BY <1>9, <1>10
  <2>2. a = 0 \/ a \in 1..a
    BY <1>9
  <2> QED BY <1>9, <1>10, <2>1, <2>2
<1>12. done = (a + 1)..b
  <2>1. \A c \in done : c \in (a + 1)..b
    BY <1>8, <1>9, <1>10
  <2>2. \A c \in (a + 1)..b : c \in done
    BY <1>9, <1>10
  <2> QED BY <2>1, <2>2
<1>13. Reports(done) = ResultsFrom(a, b)
  BY <1>9, <1>10, <1>11, <1>12, ReportsInOrder
<1>14. /\ ResultsFrom(0, a) \in Seq(Messages) /\ ResultsFrom(a, b) \in Seq(Messages)
       /\ ResultsFrom(0, a) \o ResultsFrom(a, b) = ResultsFrom(0, b)
  <2>1. 0 \in Nat /\ 0 <= a
    BY <1>9
  <2> QED BY <1>9, <1>10, <1>11, <2>1, ResultsType, ResultsConcat
<1>15. Said(r) = loop[r].ctx \o ResultsFrom(0, a)
  BY <1>2 DEF Said, Results, BatchStates, a, reported
<1>16. Said(r)' = loop[r].ctx \o ResultsFrom(0, b)
  BY <1>2, <1>7 DEF Said, Results, BatchStates, b
<1>17. Said(r)' = Said(r) \o ResultsFrom(a, b)
  <2> DEFINE c == loop[r].ctx  s == ResultsFrom(0, a)  t == ResultsFrom(a, b)
  <2>1. c \in Seq(Messages) /\ s \in Seq(Messages) /\ t \in Seq(Messages)
    BY <1>1, <1>14
  <2>2. Said(r)' = c \o (s \o t) /\ Said(r) = c \o s
    BY <1>14, <1>15, <1>16
  <2> HIDE DEF c, s, t
  <2>3. (c \o s) \o t = c \o (s \o t)
    BY <2>1, ConcatAssociative
  <2>4. Said(r)' = Said(r) \o t
    BY <2>2, <2>3
  <2> QED BY <2>4 DEF t
<1> QED BY <1>2, <1>13, <1>14, <1>17

(* Every step of the loop, while the context is in use.                      *)
LoopSays(r) ==
  \/ loop'[r].pc \notin CtxStates
  \/ loop'[r].pc \in CtxStates /\ Said(r)' = Said(r) /\ out'[r] = out[r]
  \/ loop'[r].pc \in CtxStates /\ \E msgs \in Seq(Messages) : Says(r, msgs)

LEMMA EnterSays ==
  ASSUME LoopTypeOK, NEW r \in Runs, NEW msgs \in Seq(Messages), EnterTurn(r, msgs),
         out[r] = <<>>, loop[r].pc \in {"steering", "followUp"}
  PROVE  loop'[r].pc \in CtxStates /\ Says(r, msgs)
<1>1. /\ loop[r] \in LoopRecord /\ loop \in [Runs -> LoopRecord]
      /\ out \in [Runs -> Seq(Events)] /\ loop[r].ctx \in Seq(Messages)
  BY RecordFacts DEF LoopTypeOK
<1>2. loop'[r].pc = "stream" /\ loop'[r].ctx = loop[r].ctx \o msgs
  <2> DEFINE c == loop[r].ctx \o msgs
  <2>1. loop' = [loop EXCEPT ![r] = [loop[r] EXCEPT !.pc = "stream", !.first = FALSE, !.ctx = c]]
    BY <1>1 DEF EnterTurn
  <2> HIDE DEF c
  <2>2. loop'[r].pc = "stream" /\ loop'[r].ctx = c
    BY <1>1, <2>1 DEF LoopRecord
  <2> QED BY <2>2 DEF c
<1>3. Said(r)' = Said(r) \o msgs
  BY <1>2, SaysContext DEF BatchStates
<1>4. \/ out'[r] = MessageEvents(msgs)
      \/ out'[r] = <<Event("turn_start")>> \o MessageEvents(msgs)
  <2> DEFINE s == MessageEvents(msgs)
  <2>1. out'[r] = (IF loop[r].first THEN <<>> ELSE <<Event("turn_start")>>) \o s
    BY <1>1 DEF EnterTurn
  <2>2. s \in Seq(Events)
    <3>1. \A i \in 1..Len(msgs) : msgs[i] \in Messages
      OBVIOUS
    <3> QED BY MessageEventsAre
  <2> HIDE DEF s
  <2>3. <<>> \o s = s
    BY <2>2, ConcatEmptySeq
  <2>4. out'[r] = s \/ out'[r] = <<Event("turn_start")>> \o s
    BY <2>1, <2>3
  <2> QED BY <2>4 DEF s
<1> QED BY <1>2, <1>3, <1>4 DEF Says, Openers, CtxStates

LEMMA LoopStepSays ==
  ASSUME LoopShape, NEW r \in Runs, Batch(r), loop[r].pc \in CtxStates,
         LoopStep(r) \/ \E c \in Calls(r) : CallEnded(r, c)
  PROVE  LoopSays(r)
<1> USE DEF LoopSays
<1>1. /\ LoopTypeOK /\ loop[r] \in LoopRecord /\ loop \in [Runs -> LoopRecord]
      /\ out[r] \in Seq(Events) /\ out \in [Runs -> Seq(Events)]
      /\ loop[r].ctx \in Seq(Messages)
      /\ Len(loop[r].calls) \in Nat /\ Calls(r) = 1..Len(loop[r].calls)
      /\ loop[r].calls \in [1..Len(loop[r].calls) -> CallStatus]
      /\ <<>> \in Seq(Messages)
  BY RecordFacts DEF LoopShape, LoopTypeOK, LoopRecord, Calls
<1>2. CASE Request(r)
  <2>1. /\ loop[r].pc = "stream" /\ loop'[r].pc = "waiting" /\ loop'[r].ctx = loop[r].ctx
        /\ out'[r] = out[r]
    BY <1>1, <1>2 DEF Request, At, LoopRecord
  <2>2. Said(r)' = Said(r)
    BY <2>1 DEF Said, Results, BatchStates
  <2> QED BY <2>1, <2>2 DEF CtxStates
<1>3. CASE Respond(r)
  <2>1. PICK m \in Replies(r) :
          /\ loop' = [loop EXCEPT ![r].pc = "replied", ![r].ctx = Append(@, m),
                                  ![r].turns = @ + 1]
          /\ out' = [out EXCEPT ![r] = MessageEvents(<<m>>)]
    BY <1>3 DEF Respond
  <2>2. m \in Messages
    <3>1. \A n \in 1..MaxCalls : n \in Nat
      OBVIOUS
    <3> QED BY <2>1, <3>1, MessageTypes DEF Replies, Stops
  <2> DEFINE c == Append(loop[r].ctx, m)  n == loop[r].turns + 1
  <2>3. loop' = [loop EXCEPT ![r] = [loop[r] EXCEPT !.pc = "replied", !.ctx = c, !.turns = n]]
    BY <1>1, <2>1
  <2>4. c = loop[r].ctx \o <<m>>
    BY <1>1, <2>2, AppendIsConcat
  <2> HIDE DEF c, n
  <2>5. /\ loop[r].pc = "waiting" /\ out[r] = <<>>
        /\ loop'[r].pc = "replied" /\ loop'[r].ctx = loop[r].ctx \o <<m>>
        /\ out'[r] = MessageEvents(<<m>>)
    BY <1>1, <1>3, <2>1, <2>3, <2>4 DEF Respond, At, Awaited, LoopRecord
  <2>6. <<m>> \in Seq(Messages)
    BY <2>2
  <2>7. Said(r)' = Said(r) \o <<m>>
    BY <1>1, <2>5, <2>6, SaysContext DEF BatchStates
  <2> QED BY <2>5, <2>6, <2>7 DEF Says, CtxStates
<1>4. CASE StopOnError(r) \/ EndTurnWithoutTools(r)
  BY <1>1, <1>4 DEF StopOnError, EndTurnWithoutTools, LoopRecord, CtxStates, BatchStates
<1>5. CASE EndBatch(r)
  BY <1>1, <1>5 DEF EndBatch, LoopRecord, CtxStates, BatchStates
<1>6. CASE LoopReturns(r)
  BY <1>1, <1>6 DEF LoopReturns, LoopRecord, CtxStates, BatchStates
<1>7. ASSUME NEW mode \in {"sequential", "parallel"}, ExecuteToolCalls(r, mode)
      PROVE  LoopSays(r)
  <2> DEFINE cs == [c \in 1..Reply(r).n |-> "new"]
  <2>1. /\ loop'[r].pc = "tools" /\ loop'[r].calls = cs /\ loop'[r].ctx = loop[r].ctx
        /\ out'[r] = out[r] /\ loop[r].pc = "replied"
    BY <1>1, <1>7 DEF ExecuteToolCalls, At, LoopRecord
  <2>2. \A c \in DOMAIN cs : cs[c] = "new"
    OBVIOUS
  <2>3. Reply(r).n \in Nat
    <3>1. loop[r].ctx # <<>>
      BY <2>1 DEF LoopShape, Shape
    <3>2. Reply(r) \in Messages
      BY <1>1, <3>1 DEF Reply
    <3> QED BY <3>2 DEF Messages
  <2>4. DOMAIN cs = 1..Len(cs)
    BY <2>3
  <2> HIDE DEF cs
  <2>5. \A c \in With(r, {"reported"})' : FALSE
    BY <2>1, <2>2, <2>4 DEF With, Calls
  <2>6. \A c \in With(r, {"reported"}) : FALSE
    BY <2>1 DEF With, Calls, Batch, NoCalls, BatchStates
  <2>7. With(r, {"reported"})' = With(r, {"reported"})
    BY <2>5, <2>6
  <2>8. Said(r)' = Said(r)
    BY <1>1, <2>1, <2>7, SaysNothing DEF BatchStates
  <2> QED BY <2>1, <2>8 DEF CtxStates, BatchStates
(* One call moves on.                                                        *)
<1>8. ASSUME NEW c \in Calls(r), NEW st \in CallStatus \ {"reported"},
             loop[r].calls[c] # "reported",
             loop'[r].calls = [loop[r].calls EXCEPT ![c] = st],
             loop'[r].pc = loop[r].pc, loop'[r].ctx = loop[r].ctx
      PROVE  Said(r)' = Said(r) /\ loop[r].pc \in BatchStates
  <2>1. loop[r].pc \in BatchStates
    <3>1. loop[r].calls # <<>>
      BY <1>1, <1>8
    <3> QED BY <3>1 DEF Batch, NoCalls, CtxStates
  <2>2. Calls(r)' = Calls(r) /\ \A b \in Calls(r) :
          loop'[r].calls[b] = IF b = c THEN st ELSE loop[r].calls[b]
    BY <1>1, <1>8 DEF Calls
  <2>3. With(r, {"reported"})' = With(r, {"reported"})
    BY <1>8, <2>2 DEF With
  <2> QED BY <1>1, <1>8, <2>1, <2>3, SaysNothing
<1>9. ASSUME NEW c \in Calls(r), StartCall(r, c) PROVE LoopSays(r)
  <2>1. /\ loop'[r].calls = [loop[r].calls EXCEPT ![c] = "started"]
        /\ loop'[r].pc = loop[r].pc /\ loop'[r].ctx = loop[r].ctx
        /\ loop[r].calls[c] = "new" /\ out[r] = <<>>
        /\ out'[r] = <<CallEvent("tool_execution_start", c)>>
    BY <1>1, <1>9 DEF StartCall, At, Awaited, With, LoopRecord
  <2>2. Said(r)' = Said(r) \o <<>>
    BY <1>1, <1>8, <2>1, SaidType DEF CallStatus
  <2>3. out'[r] = <<CallEvent("tool_execution_start", c)>> \o MessageEvents(<<>>)
    BY <2>1, EventsOfNone
  <2>4. CallEvent("tool_execution_start", c) \in Openers
    BY <1>1 DEF Openers
  <2> QED BY <1>1, <2>1, <2>2, <2>3, <2>4 DEF Says
<1>10. ASSUME NEW c \in Calls(r),
              RefuseCall(r, c) \/ PrepareCall(r, c) \/ FinishCall(r, c) \/ CallEnded(r, c)
       PROVE  LoopSays(r)
  <2>1. PICK st \in {"running", "prepared", "ending", "done"} :
          loop'[r].calls = [loop[r].calls EXCEPT ![c] = st]
    <3>1. CASE RefuseCall(r, c) \/ FinishCall(r, c)
      <4>1. loop'[r].calls = [loop[r].calls EXCEPT ![c] = "ending"]
        <5>1. CASE RefuseCall(r, c)
          BY <1>1, <5>1 DEF RefuseCall, LoopRecord
        <5>2. CASE FinishCall(r, c)
          BY <1>1, <5>2 DEF FinishCall, LoopRecord
        <5> QED BY <3>1, <5>1, <5>2
      <4> QED BY <4>1
    <3>2. CASE PrepareCall(r, c)
      BY <1>1, <3>2 DEF PrepareCall, LoopRecord
    <3>3. CASE CallEnded(r, c)
      BY <1>1, <3>3 DEF CallEnded, LoopRecord
    <3> QED BY <1>10, <3>1, <3>2, <3>3
  <2>2. /\ loop'[r].pc = loop[r].pc /\ loop'[r].ctx = loop[r].ctx
        /\ loop[r].calls[c] # "reported" /\ out'[r] = out[r]
    BY <1>1, <1>10 DEF RefuseCall, PrepareCall, FinishCall, CallEnded, With, LoopRecord
  <2>3. Said(r)' = Said(r)
    BY <1>8, <2>1, <2>2 DEF CallStatus
  <2> QED BY <2>2, <2>3
<1>11. CASE LaunchCalls(r)
  <2> DEFINE cs == [c \in Calls(r) |->
                      IF loop[r].calls[c] = "prepared" THEN "running" ELSE loop[r].calls[c]]
  <2>1. /\ loop'[r].calls = cs /\ loop'[r].pc = "joining" /\ loop'[r].ctx = loop[r].ctx
        /\ loop[r].pc = "tools" /\ out'[r] = out[r]
    BY <1>1, <1>11 DEF LaunchCalls, At, LoopRecord
  <2>2. Len(cs) = Len(loop[r].calls) /\ \A b \in 1..Len(loop[r].calls) :
          cs[b] = "reported" <=> loop[r].calls[b] = "reported"
    BY <1>1
  <2> HIDE DEF cs
  <2>3. With(r, {"reported"})' = With(r, {"reported"})
    BY <2>1, <2>2 DEF With, Calls
  <2>4. Said(r)' = Said(r)
    BY <1>1, <2>1, <2>3, SaysNothing DEF BatchStates
  <2> QED BY <2>1, <2>4 DEF CtxStates, BatchStates
<1>12. CASE EndSequentialBatch(r)
  <2>1. /\ loop'[r].calls = loop[r].calls /\ loop'[r].pc = "batchEnd"
        /\ loop'[r].ctx = loop[r].ctx /\ loop[r].pc = "tools" /\ out'[r] = out[r]
    BY <1>1, <1>12 DEF EndSequentialBatch, At, LoopRecord
  <2>2. With(r, {"reported"})' = With(r, {"reported"})
    BY <2>1 DEF With, Calls
  <2>3. Said(r)' = Said(r)
    BY <1>1, <2>1, <2>2, SaysNothing DEF BatchStates
  <2> QED BY <2>1, <2>3 DEF CtxStates, BatchStates
<1>13. CASE ReportResults(r)
  <2>1. out[r] = <<>> /\ loop'[r].pc \in CtxStates
    BY <1>1, <1>13 DEF ReportResults, At, Awaited, LoopRecord, CtxStates, BatchStates
  <2>2. PICK msgs \in Seq(Messages) :
          Said(r)' = Said(r) \o msgs /\ out'[r] = MessageEvents(msgs)
    BY <1>1, <1>13, SaysResults
  <2> QED BY <2>1, <2>2 DEF Says
<1> QED BY <1>2, <1>3, <1>4, <1>5, <1>6, <1>7, <1>9, <1>10, <1>11, <1>12, <1>13 DEF LoopStep

(* MessageEvents of a message, spelled out.                                  *)
LEMMA EventsOfOne ==
  \A m : MessageEvents(<<m>>) = <<MessageEvent("message_start", m), MessageEvent("message_end", m)>>
<1> TAKE m
<1>1. \A i \in 1..2 : i = 1 \/ i = 2
  OBVIOUS
<1>2. \A i \in 1..2 : MessageEvent(IF i % 2 = 1 THEN "message_start" ELSE "message_end",
                                   <<m>>[(i + 1) \div 2])
          = <<MessageEvent("message_start", m), MessageEvent("message_end", m)>>[i]
  BY <1>1
<1> QED BY <1>2 DEF MessageEvents

(* The events of messages, taken one by one.                                 *)
LEMMA EventsOfSome ==
  ASSUME NEW msgs \in Seq(Messages), msgs # <<>>
  PROVE  /\ msgs[1] \in Messages /\ Tail(msgs) \in Seq(Messages)
         /\ msgs = <<msgs[1]>> \o Tail(msgs)
         /\ MessageEvents(msgs) # <<>>
         /\ MessageEvents(msgs)[1] = MessageEvent("message_start", msgs[1])
         /\ Tail(MessageEvents(msgs)) =
              <<MessageEvent("message_end", msgs[1])>> \o MessageEvents(Tail(msgs))
<1> DEFINE n == Len(msgs)
           s == MessageEvents(msgs)
           rest == Tail(msgs)
           t == MessageEvents(rest)
           e == MessageEvent("message_end", msgs[1])
           u == <<e>> \o t
           At_(q, i) == MessageEvent(IF i % 2 = 1 THEN "message_start" ELSE "message_end",
                                     q[(i + 1) \div 2])
<1>1. /\ n \in Nat /\ n >= 1 /\ rest \in Seq(Messages) /\ Len(rest) = n - 1
      /\ \A i \in 1..(n - 1) : rest[i] = msgs[i + 1]
      /\ msgs[1] \in Messages
  OBVIOUS
<1>2. msgs = <<msgs[1]>> \o rest
  <2>1. <<msgs[1]>> \in Seq(Messages) /\ Len(<<msgs[1]>>) = 1 /\ <<msgs[1]>>[1] = msgs[1]
    BY <1>1
  <2> DEFINE h == <<msgs[1]>>
  <2> HIDE DEF rest, h
  <2>2. h \o rest \in Seq(Messages) /\ Len(h \o rest) = n
        /\ \A i \in 1..n : (h \o rest)[i] = IF i <= 1 THEN h[i] ELSE rest[i - 1]
    BY <1>1, <2>1, ConcatProperties DEF h
  <2>3. \A i \in 1..n : (h \o rest)[i] = msgs[i]
    <3> TAKE i \in 1..n
    <3>1. CASE i <= 1
      <4>1. i = 1
        BY <3>1
      <4> QED BY <2>1, <2>2, <4>1 DEF h
    <3>2. CASE ~(i <= 1)
      <4>1. i - 1 \in 1..(n - 1) /\ (i - 1) + 1 = i
        BY <3>2
      <4> QED BY <1>1, <2>2, <3>2, <4>1
    <3> QED BY <3>1, <3>2
  <2>4. h \o rest = msgs
    BY <2>2, <2>3, SeqEqual
  <2> QED BY <2>4 DEF h
<1> HIDE DEF rest
<1>3. /\ s \in Seq(Events) /\ Len(s) = 2 * n /\ \A i \in 1..(2 * n) : s[i] = At_(msgs, i)
      /\ t \in Seq(Events) /\ Len(t) = 2 * (n - 1)
      /\ \A i \in 1..(2 * (n - 1)) : t[i] = At_(rest, i)
  BY <1>1, MessageEventsAre
<1>4. e \in Events
  BY <1>1, EventShapes DEF EventTypes
<1> HIDE DEF s, t, e, n
<1>5. s # <<>> /\ 1 \in 1..(2 * n) /\ 2 \in 1..(2 * n)
  BY <1>1, <1>3
<1>6. s[1] = MessageEvent("message_start", msgs[1])
  <2>1. 1 % 2 = 1 /\ (1 + 1) \div 2 = 1
    OBVIOUS
  <2> QED BY <1>3, <1>5, <2>1
<1>7. /\ Tail(s) \in Seq(Events) /\ Len(Tail(s)) = 2 * n - 1
      /\ \A i \in 1..(2 * n - 1) : Tail(s)[i] = s[i + 1]
  BY <1>1, <1>3, <1>5, HeadTailProperties
<1>8. /\ u \in Seq(Events) /\ Len(u) = 2 * n - 1
      /\ \A i \in 1..(2 * n - 1) : u[i] = IF i <= 1 THEN e ELSE t[i - 1]
  <2>1. <<e>> \in Seq(Events) /\ Len(<<e>>) = 1 /\ <<e>>[1] = e
    BY <1>4
  <2> DEFINE h == <<e>>
  <2> HIDE DEF h
  <2>2. 1 + 2 * (n - 1) = 2 * n - 1
    BY <1>1
  <2>3. /\ h \o t \in Seq(Events) /\ Len(h \o t) = 2 * n - 1
        /\ \A i \in 1..(2 * n - 1) : (h \o t)[i] = IF i <= 1 THEN h[i] ELSE t[i - 1]
    BY <1>3, <2>1, <2>2, ConcatProperties DEF h
  <2>4. \A i \in 1..(2 * n - 1) : i <= 1 => i = 1
    OBVIOUS
  <2> QED BY <2>1, <2>3, <2>4 DEF h
<1>9. \A i \in 1..(2 * n - 1) : Tail(s)[i] = u[i]
  <2> TAKE i \in 1..(2 * n - 1)
  <2>0. i + 1 \in 1..(2 * n)
    BY <1>1
  <2>1. CASE i = 1
    <3>1. 2 % 2 # 1 /\ (2 + 1) \div 2 = 1
      OBVIOUS
    <3>2. s[2] = e
      BY <1>3, <1>5, <3>1 DEF e
    <3> QED BY <1>7, <1>8, <2>1, <3>2
  <2>2. CASE i # 1
    <3>1. i - 1 \in 1..(2 * (n - 1))
      BY <1>1, <2>2
    <3> DEFINE k == ((i - 1) + 1) \div 2
    <3>2. k \in 1..(n - 1) /\ ((i + 1) + 1) \div 2 = k + 1
      BY <1>1, <2>2
    <3>3. (i - 1) % 2 = (i + 1) % 2
      BY <2>2
    <3>4. rest[k] = msgs[k + 1]
      BY <1>1, <3>2
    <3>5. s[i + 1] = At_(msgs, i + 1) /\ t[i - 1] = At_(rest, i - 1)
      BY <1>3, <2>0, <3>1
    <3>6. At_(msgs, i + 1) = At_(rest, i - 1)
      BY <3>2, <3>3, <3>4
    <3> QED BY <1>7, <1>8, <2>2, <3>5, <3>6
  <2> QED BY <2>1, <2>2
<1>10. Tail(s) = u
  <2> HIDE DEF u
  <2> QED BY <1>7, <1>8, <1>9, SeqEqual
<1> QED BY <1>1, <1>2, <1>5, <1>6, <1>10 DEF s, t, e, rest

LEMMA EventsAfter ==
  ASSUME NEW e \in Events, NEW s \in Seq(Events)
  PROVE  /\ <<e>> \o s # <<>> /\ (<<e>> \o s)[1] = e /\ Tail(<<e>> \o s) = s
<1> DEFINE h == <<e>>
           u == h \o s
<1>1. h \in Seq(Events) /\ Len(h) = 1 /\ h[1] = e
  OBVIOUS
<1> HIDE DEF h
<1>0. Len(s) \in Nat
  OBVIOUS
<1>2. u \in Seq(Events) /\ Len(u) = 1 + Len(s) /\ Len(s) \in Nat
      /\ \A i \in 1..(1 + Len(s)) : u[i] = IF i <= 1 THEN h[i] ELSE s[i - 1]
  <2>1. u \in Seq(Events)
    BY <1>1, ConcatProperties
  <2>2. Len(u) = Len(h) + Len(s)
    BY <1>1, ConcatProperties
  <2>3. \A i \in 1..(Len(h) + Len(s)) : u[i] = IF i <= Len(h) THEN h[i] ELSE s[i - Len(h)]
    BY <1>1, ConcatProperties
  <2> QED BY <1>0, <1>1, <2>1, <2>2, <2>3
<1> HIDE DEF u
<1>3. u # <<>> /\ u[1] = e
  <2>1. 1 \in 1..(1 + Len(s)) /\ Len(u) # 0
    BY <1>2
  <2> QED BY <1>1, <1>2, <2>1
<1>4. Tail(u) \in Seq(Events) /\ Len(Tail(u)) = Len(s) /\ \A i \in 1..Len(s) : Tail(u)[i] = u[i + 1]
  BY <1>2, <1>3, HeadTailProperties
<1>5. \A i \in 1..Len(s) : Tail(u)[i] = s[i]
  BY <1>2, <1>4
<1>6. Tail(u) = s
  BY <1>4, <1>5, SeqEqual
<1> QED BY <1>3, <1>6 DEF u, h

-----------------------------------------------------------------------------
(* The messages that events carry, one for each end of a message; the other  *)
(* events carry NoMessage.                                                   *)

Slots == Messages \cup {NoMessage}
Carried(events) ==
  [i \in 1..Len(events) |-> IF events[i].type = "message_end" THEN events[i].msg ELSE NoMessage]

(* Messages that are nobody's but the loop's.                                *)
Answers == {m \in Messages : m.role # "user" /\ m.kind \notin {"steer", "followUp"}}

LEMMA CarriedType ==
  ASSUME NEW s \in Seq(Events)
  PROVE  /\ Carried(s) \in Seq(Slots) /\ Len(Carried(s)) = Len(s)
         /\ \A i \in 1..Len(s) : Carried(s)[i] =
              IF s[i].type = "message_end" THEN s[i].msg ELSE NoMessage
<1>1. Len(s) \in Nat
  OBVIOUS
<1>2. \A i \in 1..Len(s) : s[i].msg \in Slots
  <2>1. \A e \in Events : e.msg \in Slots
    BY DEF Events, Slots
  <2> QED BY <2>1
<1>3. Carried(s) \in [1..Len(s) -> Slots]
  BY <1>2 DEF Carried, Slots
<1> QED BY <1>1, <1>3 DEF Carried

LEMMA CarriedConcat ==
  ASSUME NEW s \in Seq(Events), NEW t \in Seq(Events)
  PROVE  Carried(s \o t) = Carried(s) \o Carried(t)
<1> DEFINE u == s \o t
           c == Carried(s)
           d == Carried(t)
           n == Len(s)
           k == Len(t)
           Carry(e) == IF e.type = "message_end" THEN e.msg ELSE NoMessage
<1>1. /\ u \in Seq(Events) /\ Len(u) = n + k /\ n \in Nat /\ k \in Nat
      /\ \A i \in 1..n : u[i] = s[i]
      /\ \A i \in 1..k : u[n + i] = t[i]
  OBVIOUS
<1>2. /\ c \in Seq(Slots) /\ Len(c) = n /\ \A i \in 1..n : c[i] = Carry(s[i])
      /\ d \in Seq(Slots) /\ Len(d) = k /\ \A i \in 1..k : d[i] = Carry(t[i])
  BY CarriedType
<1>3. /\ Carried(u) \in Seq(Slots) /\ Len(Carried(u)) = n + k
      /\ \A i \in 1..(n + k) : Carried(u)[i] = Carry(u[i])
  BY <1>1, CarriedType
<1> HIDE DEF u, c, d, Carry
<1>4. /\ c \o d \in Seq(Slots) /\ Len(c \o d) = n + k
      /\ \A i \in 1..n : (c \o d)[i] = c[i]
      /\ \A i \in 1..k : (c \o d)[n + i] = d[i]
  <2>1. /\ c \in Seq(Slots) /\ d \in Seq(Slots) /\ Len(c) = n /\ Len(d) = k
        /\ n \in Nat /\ k \in Nat
    BY <1>1, <1>2
  <2> HIDE DEF n, k
  <2>2. /\ c \o d \in Seq(Slots) /\ Len(c \o d) = n + k
        /\ \A i \in 1..(n + k) : (c \o d)[i] = IF i <= n THEN c[i] ELSE d[i - n]
    BY <2>1, ConcatProperties
  <2>3. \A i \in 1..n : i \in 1..(n + k) /\ i <= n
    BY <2>1
  <2>4. \A i \in 1..k : n + i \in 1..(n + k) /\ ~(n + i <= n) /\ (n + i) - n = i
    BY <2>1
  <2>5. \A i \in 1..k : (c \o d)[n + i] = d[i]
    BY <2>2, <2>4
  <2> QED BY <2>2, <2>3, <2>5
<1>5. \A i \in 1..(n + k) : Carried(u)[i] = (c \o d)[i]
  <2> TAKE i \in 1..(n + k)
  <2>1. CASE i \in 1..n
    BY <1>1, <1>2, <1>3, <1>4, <2>1
  <2>2. CASE i \notin 1..n
    <3>1. i - n \in 1..k /\ n + (i - n) = i
      BY <1>1, <2>2
    <3>2. u[i] = t[i - n] /\ (c \o d)[i] = d[i - n]
      BY <1>1, <1>4, <3>1
    <3> QED BY <1>2, <1>3, <3>1, <3>2
  <2> QED BY <2>1, <2>2
<1>6. Carried(u) = c \o d
  BY <1>3, <1>4, <1>5, SeqEqual
<1> QED BY <1>6 DEF u, c, d

(* The events of messages carry them, every other one.                       *)
LEMMA CarriedMessageEvents ==
  ASSUME NEW msgs \in Seq(Messages)
  PROVE  LET c == Carried(MessageEvents(msgs))
             n == Len(msgs)
         IN  /\ c \in Seq(Slots) /\ Len(c) = 2 * n
             /\ \A k \in 1..n : c[2 * k] = msgs[k] /\ 2 * k \in 1..(2 * n)
             /\ \A i \in 1..(2 * n) :
                  \/ c[i] = NoMessage
                  \/ /\ (i + 1) \div 2 \in 1..n /\ c[i] = msgs[(i + 1) \div 2]
                     /\ i = 2 * ((i + 1) \div 2)
<1> DEFINE s == MessageEvents(msgs)
           c == Carried(s)
           n == Len(msgs)
<1>1. /\ s \in Seq(Events) /\ Len(s) = 2 * n /\ n \in Nat
      /\ \A i \in 1..(2 * n) : s[i] =
           MessageEvent(IF i % 2 = 1 THEN "message_start" ELSE "message_end", msgs[(i + 1) \div 2])
  BY MessageEventsAre
<1>2. /\ c \in Seq(Slots) /\ Len(c) = Len(s)
      /\ \A i \in 1..Len(s) : c[i] = IF s[i].type = "message_end" THEN s[i].msg ELSE NoMessage
  BY <1>1, CarriedType
<1>3. \A t, m : MessageEvent(t, m).type = t /\ MessageEvent(t, m).msg = m
  BY DEF MessageEvent
<1>4. ASSUME NEW i \in 1..(2 * n)
      PROVE  c[i] = IF i % 2 = 1 THEN NoMessage ELSE msgs[(i + 1) \div 2]
  <2> HIDE DEF s, c, n
  <2>1. s[i] = MessageEvent(IF i % 2 = 1 THEN "message_start" ELSE "message_end",
                            msgs[(i + 1) \div 2])
    BY <1>1
  <2>2. c[i] = IF s[i].type = "message_end" THEN s[i].msg ELSE NoMessage
    BY <1>1, <1>2
  <2>3. CASE i % 2 = 1
    BY <1>3, <2>1, <2>2, <2>3
  <2>4. CASE i % 2 # 1
    BY <1>3, <2>1, <2>2, <2>4
  <2> QED BY <2>3, <2>4
<1> HIDE DEF s, c
<1> HIDE DEF n
<1>5. \A i \in 1..(2 * n) : i % 2 # 1 => (i + 1) \div 2 \in 1..n /\ i = 2 * ((i + 1) \div 2)
  <2> SUFFICES ASSUME NEW i \in 1..(2 * n), i % 2 # 1
               PROVE  (i + 1) \div 2 \in 1..n /\ i = 2 * ((i + 1) \div 2)
    OBVIOUS
  <2>1. i \in Int /\ i % 2 = 0 /\ i = 2 * (i \div 2) + (i % 2)
    BY <1>1
  <2>2. (i + 1) \div 2 = i \div 2
    BY <2>1
  <2> QED BY <1>1, <2>1, <2>2
<1>6. \A k \in 1..n : 2 * k \in 1..(2 * n) /\ (2 * k) % 2 # 1 /\ (2 * k + 1) \div 2 = k
  BY <1>1
<1>7. \A i \in 1..(2 * n) :
        \/ c[i] = NoMessage
        \/ /\ (i + 1) \div 2 \in 1..n /\ c[i] = msgs[(i + 1) \div 2]
           /\ i = 2 * ((i + 1) \div 2)
  BY <1>4, <1>5
<1>8. \A k \in 1..n : c[2 * k] = msgs[k] /\ 2 * k \in 1..(2 * n)
  BY <1>4, <1>6
<1>9. c \in Seq(Slots) /\ Len(c) = 2 * n
  BY <1>1, <1>2
<1> QED BY <1>7, <1>8, <1>9 DEF s, c, n

LEMMA AnswersCarried ==
  ASSUME NEW msgs \in Seq(Answers)
  PROVE  /\ MessageEvents(msgs) \in Seq(Events)
         /\ Carried(MessageEvents(msgs)) \in Seq(Answers \cup {NoMessage})
<1>1. Answers \subseteq Messages
  BY DEF Answers
<1>2. msgs \in Seq(Messages)
  BY <1>1, SeqMonotonic
<1> DEFINE c == Carried(MessageEvents(msgs))
           n == Len(msgs)
<1>3. /\ c \in Seq(Slots) /\ Len(c) = 2 * n /\ n \in Nat
      /\ \A i \in 1..(2 * n) :
           c[i] = NoMessage \/ ((i + 1) \div 2 \in 1..n /\ c[i] = msgs[(i + 1) \div 2])
  BY <1>2, CarriedMessageEvents
<1>4. \A k \in 1..n : msgs[k] \in Answers
  OBVIOUS
<1> HIDE DEF c, n
<1>5. \A i \in 1..(2 * n) : c[i] \in Answers \cup {NoMessage}
  BY <1>3, <1>4
<1>6. c \in Seq(Answers \cup {NoMessage})
  BY <1>3, <1>5
<1> QED BY <1>2, <1>6, MessageEventsAre DEF c

LEMMA NothingCarried ==
  ASSUME NEW s \in Seq(Events), \A i \in 1..Len(s) : s[i].type # "message_end"
  PROVE  Carried(s) \in Seq({NoMessage})
<1>1. /\ Carried(s) \in Seq(Slots) /\ Len(Carried(s)) = Len(s) /\ Len(s) \in Nat
      /\ \A i \in 1..Len(s) : Carried(s)[i] = NoMessage
  BY CarriedType
<1> QED BY <1>1

(* A step of the loop announces only what is the loop's.                     *)
LEMMA LoopStepAnswers ==
  ASSUME LoopTypeOK, NEW r \in Runs, LoopStep(r)
  PROVE  \/ out'[r] = out[r]
         \/ /\ out[r] = <<>> /\ out'[r] \in Seq(Events)
            /\ Carried(out'[r]) \in Seq(Answers \cup {NoMessage})
<1>1. loop \in [Runs -> LoopRecord] /\ out \in [Runs -> Seq(Events)] /\ loop[r] \in LoopRecord
  BY DEF LoopTypeOK
<1>2. CASE Respond(r)
  <2>1. PICK m \in Replies(r) : out' = [out EXCEPT ![r] = MessageEvents(<<m>>)]
    BY <1>2 DEF Respond
  <2>2. m \in Answers
    <3>1. \E k \in Stops, n \in Nat : m = AssistantMessage(k, n)
      BY <2>1 DEF Replies, Stops
    <3> QED BY <3>1, MessageTypes DEF Answers, AssistantMessage, Stops
  <2>3. <<m>> \in Seq(Answers)
    BY <2>2
  <2> QED BY <1>1, <1>2, <2>1, <2>3, AnswersCarried DEF Respond, At, Awaited
<1>3. CASE ReportResults(r)
  <2> DEFINE done == With(r, {"done"})
             msgs == Reports(done)
  <2>1. out[r] = <<>> /\ out' = [out EXCEPT ![r] = MessageEvents(msgs)]
    BY <1>3 DEF ReportResults, Reports, At, Awaited
  <2>2. PICK n \in Nat : done \in SUBSET (1..n)
    BY WithFacts
  <2> HIDE DEF done
  <2>3. msgs \in Seq(Messages) /\ Cardinality(done) \in Nat
    BY <2>2, ReportsType, PositionsFinite
  <2>4. /\ Len(msgs) = Cardinality(done)
        /\ \A i \in 1..Cardinality(done) : \E c : msgs[i] = ToolResult(c)
    <3> DEFINE size == Cardinality(done)
               nth == [c \in done |-> Cardinality({b \in done : b <= c})]
               at(i) == CHOOSE c \in done : nth[c] = i
    <3>1. msgs = [i \in 1..size |-> ToolResult(at(i))]
      BY DEF Reports
    <3> HIDE DEF msgs, size, nth, at
    <3>2. \A i \in 1..size : \E c : msgs[i] = ToolResult(c)
      BY <3>1
    <3>3. Len(msgs) = size
      BY <2>3, <3>1 DEF size
    <3> QED BY <3>2, <3>3 DEF size
  <2> HIDE DEF msgs
  <2>5. \A i \in 1..Len(msgs) : msgs[i] \in Answers
    <3>1. \A i \in 1..Len(msgs) : msgs[i] \in Messages
      BY <2>3
    <3>2. \A i \in 1..Len(msgs) : msgs[i].role = "toolResult" /\ msgs[i].kind = "result"
      BY <2>4 DEF ToolResult
    <3> QED BY <3>1, <3>2 DEF Answers
  <2>6. msgs \in Seq(Answers)
    BY <2>3, <2>5
  <2> QED BY <1>1, <2>1, <2>6, AnswersCarried
<1>4. ASSUME NEW s \in Seq(Events), out[r] = <<>>, out' = [out EXCEPT ![r] = s],
             \A i \in 1..Len(s) : s[i].type # "message_end"
      PROVE  out[r] = <<>> /\ out'[r] \in Seq(Events)
             /\ Carried(out'[r]) \in Seq(Answers \cup {NoMessage})
  <2>1. Carried(s) \in Seq({NoMessage}) /\ out'[r] = s
    BY <1>1, <1>4, NothingCarried
  <2>2. {NoMessage} \subseteq Answers \cup {NoMessage}
    OBVIOUS
  <2>3. Carried(s) \in Seq(Answers \cup {NoMessage})
    BY <2>1, <2>2, SeqMonotonic
  <2> QED BY <1>4, <2>1, <2>3
<1>5. CASE StopOnError(r)
  <2> DEFINE s == <<Event("turn_end"), Event("agent_end")>>
  <2>1. s \in Seq(Events) /\ \A i \in 1..Len(s) : s[i].type # "message_end"
    BY EventShapes DEF EventTypes, Event
  <2> QED BY <1>4, <1>5, <2>1 DEF StopOnError, At, Awaited
<1>6. CASE EndTurnWithoutTools(r) \/ EndBatch(r)
  <2> DEFINE s == <<Event("turn_end")>>
  <2>1. s \in Seq(Events) /\ \A i \in 1..Len(s) : s[i].type # "message_end"
    BY EventShapes DEF EventTypes, Event
  <2> QED BY <1>4, <1>6, <2>1 DEF EndTurnWithoutTools, EndBatch, At, Awaited
<1>7. CASE \E c \in Calls(r) : StartCall(r, c)
  <2>1. PICK c \in Calls(r) : StartCall(r, c)
    BY <1>7
  <2> DEFINE s == <<CallEvent("tool_execution_start", c)>>
  <2>2. c \in Nat
    BY DEF Calls
  <2>3. s \in Seq(Events) /\ \A i \in 1..Len(s) : s[i].type # "message_end"
    BY <2>2, EventShapes DEF EventTypes, CallEvent
  <2> QED BY <1>4, <2>1, <2>3 DEF StartCall, At, Awaited
<1>8. CASE UNCHANGED out
  BY <1>8
<1> QED BY <1>2, <1>3, <1>5, <1>6, <1>7, <1>8
        DEF LoopStep, Request, ExecuteToolCalls, RefuseCall, PrepareCall, FinishCall, LaunchCalls,
            EndSequentialBatch, LoopReturns

(* A queue is its head and what remains.                                     *)
LEMMA HeadAndRest ==
  ASSUME NEW S, NEW queue \in Seq(S), queue # <<>>
  PROVE  LET rest == SubSeq(queue, 2, Len(queue))
         IN  /\ queue[1] \in S /\ rest \in Seq(S) /\ queue = <<queue[1]>> \o rest
<1> DEFINE h == <<queue[1]>>
           rest == SubSeq(queue, 2, Len(queue))
<1>0. Len(queue) \in Nat /\ Len(queue) >= 1 /\ \A i \in 1..Len(queue) : queue[i] \in S
  OBVIOUS
<1>01. queue[1] \in S /\ h \in Seq(S) /\ Len(h) = 1 /\ h[1] = queue[1]
  BY <1>0
<1>02. /\ rest \in Seq(S) /\ Len(rest) = Len(queue) - 1
       /\ \A i \in 1..(Len(queue) - 1) : rest[i] = queue[i + 1]
  <2> DEFINE k == Len(queue)
  <2>1. k \in Int /\ 2 \in Int /\ k >= 1 /\ \A i \in 2..k : queue[i] \in S
    BY <1>0
  <2> HIDE DEF k
  <2> DEFINE t == SubSeq(queue, 2, k)
  <2>2. /\ t \in Seq(S) /\ Len(t) = (IF 2 <= k THEN k - 2 + 1 ELSE 0)
        /\ \A i \in 1..(k - 2 + 1) : t[i] = queue[2 + i - 1]
    BY ONLY <2>1, SubSeqProperties
  <2> HIDE DEF t
  <2>3. Len(t) = k - 1
    BY <2>1, <2>2
  <2>4. \A i \in 1..(k - 1) : t[i] = queue[i + 1]
    <3> TAKE i \in 1..(k - 1)
    <3>1. i \in 1..(k - 2 + 1) /\ 2 + i - 1 = i + 1
      BY <2>1
    <3> QED BY <2>2, <3>1
  <2> QED BY <2>2, <2>3, <2>4 DEF t, k
<1>1. /\ Len(queue) \in Nat /\ Len(queue) >= 1 /\ queue[1] \in S
      /\ h \in Seq(S) /\ Len(h) = 1 /\ h[1] = queue[1]
      /\ rest \in Seq(S) /\ Len(rest) = Len(queue) - 1
      /\ \A i \in 1..(Len(queue) - 1) : rest[i] = queue[i + 1]
  BY <1>0, <1>01, <1>02
<1> HIDE DEF h, rest
<1>2. /\ h \o rest \in Seq(S) /\ Len(h \o rest) = Len(h) + Len(rest)
      /\ \A i \in 1..(Len(h) + Len(rest)) :
           (h \o rest)[i] = IF i <= Len(h) THEN h[i] ELSE rest[i - Len(h)]
  <2>1. h \in Seq(S) /\ rest \in Seq(S)
    BY <1>1
  <2> QED BY ONLY <2>1, ConcatProperties
<1>3. \A i \in 1..Len(queue) : (h \o rest)[i] = queue[i]
  <2> TAKE i \in 1..Len(queue)
  <2>1. CASE i = 1
    BY <1>1, <1>2, <2>1
  <2>2. CASE i # 1
    <3>1. i - 1 \in 1..(Len(queue) - 1) /\ (i - 1) + 1 = i
      BY <1>1, <2>2
    <3> QED BY <1>1, <1>2, <2>2, <3>1
  <2> QED BY <2>1, <2>2
<1>4. Len(h \o rest) = Len(queue)
  BY <1>1, <1>2
<1>5. h \o rest = queue
  BY <1>2, <1>3, <1>4, SeqEqual
<1> QED BY <1>1, <1>5 DEF h, rest
=============================================================================
