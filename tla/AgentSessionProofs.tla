------------------------- MODULE AgentSessionProofs --------------------------
(***************************************************************************)
(* Proofs about AgentSession.                                              *)
(***************************************************************************)
EXTENDS AgentSession, FilterProofs, FiniteSetTheorems

Roles == {"user", "custom", "assistant", "toolResult", "bashExecution", "compactionSummary",
          "compaction"}
Kinds == Stops \cup Resumes \cup {"prompt", "steer", "followUp", "none", "aborted"}
Records == {m \in [role : Roles, n : Nat, kind : Kinds, age : Nat] :
              m.role = "compaction" => m.n > 0}

(* What is given to the session, and what a run delivers.                    *)
GivenRoles == {"user", "custom"}
BashRoles  == {"bashExecution"}
Inputs == {m \in Records : m.role \in GivenRoles /\ m.n > 0}
Outs   == {m \in Records : \/ m.role \in GivenRoles /\ m.n > 0
                           \/ m.role \in {"assistant", "toolResult"}}
Bashes == {m \in Records : m.role = "bashExecution"}

LEMMA RecordTypes ==
  /\ \A n \in Nat, way \in Kinds : User(n, way) \in Records /\ User(n, way).role = "user"
                                   /\ User(n, way).n = n /\ User(n, way).kind = way
  /\ \A n \in Nat : Custom(n) \in Records /\ Custom(n).role = "custom" /\ Custom(n).n = n
  /\ \A n \in Nat : BashResult(n) \in Bashes /\ BashResult(n).n = n
  /\ \A stop \in Kinds, age \in Nat :
       Answer(stop, age) \in Outs /\ Answer(stop, age).role = "assistant"
       /\ Answer(stop, age).kind = stop
  /\ ToolResult \in Outs /\ ToolResult.role = "toolResult" /\ ToolResult.kind = "none"
  /\ Summary \in Records /\ Summary.role = "compactionSummary" /\ Summary.kind = "none"
  /\ \A k \in Nat \ {0} : Compaction(k) \in Records /\ Compaction(k).role = "compaction"
                          /\ Compaction(k).n = k /\ Compaction(k).kind = "none"
BY DEF Records, Outs, Bashes, Roles, Kinds, User, Custom, BashResult, Answer, ToolResult, Summary,
       Compaction, Message

LEMMA InputTypes ==
  /\ Inputs \subseteq Records /\ Inputs \subseteq Outs /\ Outs \subseteq Records
  /\ Bashes \subseteq Records
  /\ \A n \in Nat, way \in {"prompt", "steer", "followUp"} : User(n + 1, way) \in Inputs
  /\ \A n \in Nat \ {0} : User(n, "prompt") \in Inputs
  /\ \A n \in Nat : Custom(n + 1) \in Inputs
BY DEF Inputs, Outs, Bashes, Records, Roles, Kinds, GivenRoles, User, Custom, Message

LEMMA SeqTypes ==
  /\ Seq(Inputs) \subseteq Seq(Records) /\ Seq(Inputs) \subseteq Seq(Outs)
  /\ Seq(Outs) \subseteq Seq(Records) /\ Seq(Bashes) \subseteq Seq(Records)
<1>1. /\ Inputs \subseteq Records /\ Inputs \subseteq Outs /\ Outs \subseteq Records
      /\ Bashes \subseteq Records
  BY InputTypes
<1>2. \A s \in Seq(Inputs) : s \in Seq(Records) /\ s \in Seq(Outs)
  BY <1>1, SeqMonotonic
<1>3. \A s \in Seq(Outs) : s \in Seq(Records)
  BY <1>1, SeqMonotonic
<1>4. \A s \in Seq(Bashes) : s \in Seq(Records)
  BY <1>1, SeqMonotonic
<1> QED BY <1>2, <1>3, <1>4

-----------------------------------------------------------------------------
(* The numbers of the messages of some roles in a sequence, and that none is *)
(* there twice.                                                              *)

Told(s, R)   == {s[i].n : i \in {j \in 1..Len(s) : s[j].role \in R}}
Singly(s, R) == \A i, j \in 1..Len(s) :
                  s[i].role \in R /\ s[j].role \in R /\ s[i].n = s[j].n => i = j

LEMMA ToldConcat ==
  ASSUME NEW R, NEW s \in Seq(Records), NEW t \in Seq(Records)
  PROVE  /\ s \o t \in Seq(Records)
         /\ Told(s \o t, R) = Told(s, R) \cup Told(t, R)
         /\ Singly(s \o t, R) <=> Singly(s, R) /\ Singly(t, R) /\ Told(s, R) \cap Told(t, R) = {}
<1> DEFINE u == s \o t
           n == Len(s)
           k == Len(t)
<1>1. /\ u \in Seq(Records) /\ Len(u) = n + k /\ n \in Nat /\ k \in Nat
      /\ \A i \in 1..n : u[i] = s[i]
      /\ \A i \in 1..k : u[n + i] = t[i]
  OBVIOUS
<1> HIDE DEF u
<1>2. \A i \in 1..n : i \in 1..Len(u)
  BY <1>1
<1>3. \A i \in 1..k : n + i \in 1..Len(u)
  BY <1>1
<1>4. \A i \in 1..Len(u) : i \in 1..n \/ (i - n \in 1..k /\ n + (i - n) = i)
  BY <1>1
<1>5. Told(u, R) = Told(s, R) \cup Told(t, R)
  <2>1. \A x \in Told(s, R) \cup Told(t, R) : x \in Told(u, R)
    <3>1. \A x \in Told(s, R) : x \in Told(u, R)
      BY <1>1, <1>2 DEF Told
    <3>2. \A x \in Told(t, R) : x \in Told(u, R)
      BY <1>1, <1>3 DEF Told
    <3> QED BY <3>1, <3>2
  <2>2. ASSUME NEW x \in Told(u, R) PROVE x \in Told(s, R) \cup Told(t, R)
    <3>1. PICK i \in 1..Len(u) : u[i].role \in R /\ x = u[i].n
      BY <2>2 DEF Told
    <3>2. CASE i \in 1..n
      BY <1>1, <3>1, <3>2 DEF Told
    <3>3. CASE i - n \in 1..k /\ n + (i - n) = i
      <4>1. u[i] = t[i - n]
        BY <1>1, <3>3
      <4> QED BY <3>1, <3>3, <4>1 DEF Told
    <3> QED BY <1>4, <3>2, <3>3
  <2> QED BY <2>1, <2>2
<1>6. ASSUME Singly(u, R) PROVE Singly(s, R) /\ Singly(t, R) /\ Told(s, R) \cap Told(t, R) = {}
  <2>1. Singly(s, R)
    BY <1>1, <1>2, <1>6 DEF Singly
  <2>2. Singly(t, R)
    <3> SUFFICES ASSUME NEW i \in 1..k, NEW j \in 1..k, t[i].role \in R, t[j].role \in R,
                        t[i].n = t[j].n
                 PROVE  i = j
      BY DEF Singly
    <3>1. n + i = n + j
      BY <1>1, <1>3, <1>6 DEF Singly
    <3> QED BY <1>1, <3>1
  <2>3. Told(s, R) \cap Told(t, R) = {}
    <3> SUFFICES ASSUME NEW x \in Told(s, R), x \in Told(t, R) PROVE FALSE
      OBVIOUS
    <3>1. PICK i \in 1..n : s[i].role \in R /\ x = s[i].n
      BY DEF Told
    <3>2. PICK j \in 1..k : t[j].role \in R /\ x = t[j].n
      BY DEF Told
    <3>3. i \in 1..Len(u) /\ n + j \in 1..Len(u) /\ u[i] = s[i] /\ u[n + j] = t[j]
      BY <1>1, <1>2, <1>3
    <3>4. u[i].role \in R /\ u[n + j].role \in R /\ u[i].n = u[n + j].n
      BY <3>1, <3>2, <3>3
    <3>5. i = n + j
      BY <1>6, <3>3, <3>4 DEF Singly
    <3> QED BY <1>1, <3>5
  <2> QED BY <2>1, <2>2, <2>3
<1>7. ASSUME Singly(s, R), Singly(t, R), Told(s, R) \cap Told(t, R) = {} PROVE Singly(u, R)
  <2> SUFFICES ASSUME NEW i \in 1..Len(u), NEW j \in 1..Len(u), u[i].role \in R,
                      u[j].role \in R, u[i].n = u[j].n
               PROVE  i = j
    BY DEF Singly
  <2>1. \A h \in 1..Len(u) : u[h].role \in R =>
          \/ h \in 1..n /\ u[h] = s[h] /\ u[h].n \in Told(s, R)
          \/ /\ h - n \in 1..k /\ u[h] = t[h - n] /\ u[h].n \in Told(t, R)
             /\ n + (h - n) = h
    <3> SUFFICES ASSUME NEW h \in 1..Len(u), u[h].role \in R
                 PROVE  \/ h \in 1..n /\ u[h] = s[h] /\ u[h].n \in Told(s, R)
                        \/ /\ h - n \in 1..k /\ u[h] = t[h - n] /\ u[h].n \in Told(t, R)
                           /\ n + (h - n) = h
      OBVIOUS
    <3>1. CASE h \in 1..n
      BY <1>1, <3>1 DEF Told
    <3>2. CASE h - n \in 1..k /\ n + (h - n) = h
      <4>1. u[h] = t[h - n]
        BY <1>1, <3>2
      <4> QED BY <3>2, <4>1 DEF Told
    <3> QED BY <1>4, <3>1, <3>2
  <2>2. CASE i \in 1..n /\ u[i] = s[i] /\ j \in 1..n /\ u[j] = s[j]
    BY <1>7, <2>2 DEF Singly
  <2>3. CASE /\ i - n \in 1..k /\ u[i] = t[i - n] /\ n + (i - n) = i
             /\ j - n \in 1..k /\ u[j] = t[j - n] /\ n + (j - n) = j
    <3>1. i - n = j - n
      BY <1>7, <2>3 DEF Singly
    <3> QED BY <2>3, <3>1
  <2> QED BY <1>7, <2>1, <2>2, <2>3
<1>8. Singly(u, R) <=> Singly(s, R) /\ Singly(t, R) /\ Told(s, R) \cap Told(t, R) = {}
  BY <1>6, <1>7
<1> QED BY <1>1, <1>5, <1>8 DEF u

LEMMA ToldNothing ==
  /\ \A R : \A s \in Seq(Records) :
       (\A i \in 1..Len(s) : s[i].role \notin R) => Told(s, R) = {} /\ Singly(s, R)
  /\ <<>> \in Seq(Records) /\ \A R : Told(<<>>, R) = {} /\ Singly(<<>>, R)
<1>1. \A R : \A s \in Seq(Records) :
        (\A i \in 1..Len(s) : s[i].role \notin R) => Told(s, R) = {} /\ Singly(s, R)
  BY DEF Told, Singly
<1>2. <<>> \in Seq(Records) /\ \A R : Told(<<>>, R) = {} /\ Singly(<<>>, R)
  BY DEF Told, Singly
<1> QED BY <1>1, <1>2

LEMMA ToldOne ==
  ASSUME NEW R, NEW m \in Records
  PROVE  /\ <<m>> \in Seq(Records) /\ Singly(<<m>>, R)
         /\ Told(<<m>>, R) = IF m.role \in R THEN {m.n} ELSE {}
<1> DEFINE s == <<m>>
<1>1. s \in Seq(Records) /\ Len(s) = 1 /\ s[1] = m
  OBVIOUS
<1> HIDE DEF s
<1>2. Told(s, R) = IF m.role \in R THEN {m.n} ELSE {}
  <2>1. 1..Len(s) = {1}
    BY <1>1
  <2> QED BY <1>1, <2>1 DEF Told
<1>3. Singly(s, R)
  BY <1>1 DEF Singly
<1> QED BY <1>1, <1>2, <1>3 DEF s

LEMMA ToldAppend ==
  ASSUME NEW R, NEW s \in Seq(Records), NEW m \in Records
  PROVE  /\ Append(s, m) \in Seq(Records)
         /\ Told(Append(s, m), R) = Told(s, R) \cup (IF m.role \in R THEN {m.n} ELSE {})
         /\ Singly(Append(s, m), R)
              <=> Singly(s, R) /\ (m.role \in R => m.n \notin Told(s, R))
<1>1. Append(s, m) = s \o <<m>>
  BY AppendIsConcat
<1>2. /\ <<m>> \in Seq(Records) /\ Singly(<<m>>, R)
      /\ Told(<<m>>, R) = IF m.role \in R THEN {m.n} ELSE {}
  BY ToldOne
<1> DEFINE t == <<m>>
<1> HIDE DEF t
<1>3. /\ s \o t \in Seq(Records)
      /\ Told(s \o t, R) = Told(s, R) \cup Told(t, R)
      /\ Singly(s \o t, R) <=> Singly(s, R) /\ Singly(t, R) /\ Told(s, R) \cap Told(t, R) = {}
  BY <1>2, ToldConcat DEF t
<1> QED BY <1>1, <1>2, <1>3 DEF t

(* What is taken from a queue and what is left of it.                        *)
LEMMA ToldSplit ==
  ASSUME NEW S \in {Inputs, Outs, Records}, NEW s \in Seq(S), NEW k \in 0..Len(s), NEW R
  PROVE  LET a == SubSeq(s, 1, k)
             b == SubSeq(s, k + 1, Len(s))
         IN  /\ a \in Seq(S) /\ b \in Seq(S) /\ s = a \o b
             /\ Told(s, R) = Told(a, R) \cup Told(b, R)
             /\ Singly(s, R) <=> Singly(a, R) /\ Singly(b, R) /\ Told(a, R) \cap Told(b, R) = {}
<1> DEFINE a == SubSeq(s, 1, k)
           b == SubSeq(s, k + 1, Len(s))
           n == Len(s)
<1>1. n \in Nat /\ k \in 0..n
  BY LenProperties
<1>2. a \in Seq(S) /\ Len(a) = k /\ \A i \in 1..k : a[i] = s[i]
  BY <1>1, SubSeqProperties
<1>3. b \in Seq(S) /\ Len(b) = n - k /\ \A i \in 1..(n - k) : b[i] = s[k + i]
  BY <1>1
<1> HIDE DEF a, b
<1>4. s = a \o b
  <2>1. a \o b \in Seq(S) /\ Len(a \o b) = n
    BY <1>1, <1>2, <1>3
  <2>2. \A i \in 1..n : (a \o b)[i] = s[i]
    <3> TAKE i \in 1..n
    <3>1. CASE i <= k
      BY <1>1, <1>2, <1>3, <3>1
    <3>2. CASE i > k
      <4>1. i - k \in 1..(n - k) /\ k + (i - k) = i
        BY <1>1, <3>2
      <4>2. (a \o b)[i] = b[i - k]
        BY <1>1, <1>2, <1>3, <3>2
      <4>3. b[i - k] = s[k + (i - k)]
        BY <1>3, <4>1
      <4> QED BY <4>1, <4>2, <4>3
    <3>3. i <= k \/ i > k
      BY <1>1
    <3> QED BY <3>1, <3>2, <3>3
  <2> QED BY <2>1, <2>2, SeqEqual
<1>5. a \in Seq(Records) /\ b \in Seq(Records)
  <2>1. S \subseteq Records
    BY InputTypes
  <2> QED BY <1>2, <1>3, <2>1, SeqMonotonic
<1>6. /\ Told(a \o b, R) = Told(a, R) \cup Told(b, R)
      /\ Singly(a \o b, R) <=> Singly(a, R) /\ Singly(b, R) /\ Told(a, R) \cap Told(b, R) = {}
  BY <1>5, ToldConcat
<1> QED BY <1>2, <1>3, <1>4, <1>6 DEF a, b

LEMMA FirstOfSeq ==
  ASSUME NEW S, NEW s \in Seq(S), s # <<>>
  PROVE  /\ Len(s) \in Nat \ {0} /\ s[1] \in S
         /\ SubSeq(s, 1, 1) = <<s[1]>> /\ SubSeq(s, 2, Len(s)) = Tail(s)
<1>1. Len(s) \in Nat \ {0} /\ s[1] \in S
  OBVIOUS
<1> DEFINE a == SubSeq(s, 1, 1)
           b == <<s[1]>>
           c == SubSeq(s, 2, Len(s))
           d == Tail(s)
<1>2. a = b
  <2>1. a \in Seq(S) /\ Len(a) = 1 /\ a[1] = s[1]
    BY <1>1
  <2>2. b \in Seq(S) /\ Len(b) = 1 /\ b[1] = s[1]
    BY <1>1
  <2> HIDE DEF a, b
  <2> QED BY <2>1, <2>2, SeqEqual
<1>3. c = d
  <2>1. c \in Seq(S) /\ Len(c) = Len(s) - 1 /\ \A i \in 1..(Len(s) - 1) : c[i] = s[i + 1]
    <3>1. c \in Seq(S) /\ Len(c) = Len(s) - 1
      <4>1. 2 \in 1..(Len(s) + 1) /\ Len(s) \in (2 - 1)..Len(s) /\ Len(s) - 2 + 1 = Len(s) - 1
        BY <1>1
      <4> QED BY <4>1, SubSeqProperties
    <3>2. ASSUME NEW i \in 1..(Len(s) - 1) PROVE c[i] = s[i + 1]
      <4>1. c[i] = s[2 + i - 1] /\ 2 + i - 1 = i + 1
        BY <1>1
      <4> QED BY <4>1
    <3> QED BY <3>1, <3>2
  <2>2. d \in Seq(S) /\ Len(d) = Len(s) - 1 /\ \A i \in 1..(Len(s) - 1) : d[i] = s[i + 1]
    BY <1>1
  <2> HIDE DEF c, d
  <2> QED BY <2>1, <2>2, SeqEqual
<1> QED BY <1>1, <1>2, <1>3

LEMMA HeadTold ==
  ASSUME NEW S \in {Inputs, Outs, Records}, NEW s \in Seq(S), s # <<>>, NEW R
  PROVE  /\ s[1] \in S /\ Tail(s) \in Seq(S)
         /\ Told(s, R) = Told(<<s[1]>>, R) \cup Told(Tail(s), R)
         /\ Singly(s, R) => /\ Singly(Tail(s), R)
                            /\ Told(<<s[1]>>, R) \cap Told(Tail(s), R) = {}
<1>1. Len(s) \in Nat /\ 1 \in 0..Len(s) /\ s[1] \in S
  BY FirstOfSeq
<1>2. SubSeq(s, 1, 1) = <<s[1]>> /\ SubSeq(s, 1 + 1, Len(s)) = Tail(s)
  BY FirstOfSeq
<1> DEFINE k == 1
           a == SubSeq(s, 1, k)
           b == SubSeq(s, k + 1, Len(s))
<1>0. k \in 0..Len(s) /\ a = <<s[1]>> /\ b = Tail(s)
  BY <1>1, <1>2
<1> HIDE DEF k
<1>3. \A Q : LET c == SubSeq(s, 1, k)
                 d == SubSeq(s, k + 1, Len(s))
             IN  /\ c \in Seq(S) /\ d \in Seq(S) /\ s = c \o d
                 /\ Told(s, Q) = Told(c, Q) \cup Told(d, Q)
                 /\ Singly(s, Q)
                      <=> Singly(c, Q) /\ Singly(d, Q) /\ Told(c, Q) \cap Told(d, Q) = {}
  BY <1>0, ToldSplit
<1> HIDE DEF a, b
<1>4. /\ a \in Seq(S) /\ b \in Seq(S)
      /\ Told(s, R) = Told(a, R) \cup Told(b, R)
      /\ Singly(s, R) <=> Singly(a, R) /\ Singly(b, R) /\ Told(a, R) \cap Told(b, R) = {}
  BY <1>3 DEF a, b
<1> QED BY <1>0, <1>1, <1>4

LEMMA DrainsTold ==
  ASSUME NEW queue \in Seq(Inputs), NEW taken \in Drains(queue)
  PROVE  /\ taken \in Seq(Inputs) /\ Rest(queue, taken) \in Seq(Inputs)
         /\ queue = taken \o Rest(queue, taken)
         /\ \A R : /\ Told(queue, R) = Told(taken, R) \cup Told(Rest(queue, taken), R)
                   /\ Singly(queue, R) => /\ Singly(taken, R) /\ Singly(Rest(queue, taken), R)
                                          /\ Told(taken, R) \cap Told(Rest(queue, taken), R) = {}
<1>1. Len(taken) \in 0..Len(queue) /\ taken = SubSeq(queue, 1, Len(taken))
  <2>1. CASE taken = <<>>
    BY <2>1, LenProperties
  <2>2. CASE queue # <<>> /\ taken = queue
    <3>1. Len(queue) \in Nat
      BY LenProperties
    <3>2. SubSeq(queue, 1, Len(queue)) = queue
      BY <3>1
    <3> QED BY <2>2, <3>1, <3>2
  <2>3. CASE queue # <<>> /\ taken = <<queue[1]>>
    <3>1. Len(queue) \in Nat /\ Len(queue) >= 1
      BY <2>3
    <3>2. SubSeq(queue, 1, 1) = <<queue[1]>>
      BY <2>3, FirstOfSeq
    <3>3. Len(taken) = 1
      BY <2>3
    <3> QED BY <2>3, <3>1, <3>2, <3>3
  <2> QED BY <2>1, <2>2, <2>3 DEF Drains
<1> DEFINE k == Len(taken)
<1>2. Inputs \in {Inputs, Outs, Records}
  OBVIOUS
<1>3. k \in 0..Len(queue)
  BY <1>1
<1> HIDE DEF k
<1>4. \A R : LET a == SubSeq(queue, 1, k)
                 b == SubSeq(queue, k + 1, Len(queue))
             IN  /\ a \in Seq(Inputs) /\ b \in Seq(Inputs) /\ queue = a \o b
                 /\ Told(queue, R) = Told(a, R) \cup Told(b, R)
                 /\ Singly(queue, R)
                      <=> Singly(a, R) /\ Singly(b, R) /\ Told(a, R) \cap Told(b, R) = {}
  BY <1>2, <1>3, ToldSplit
<1> QED BY <1>1, <1>4 DEF Rest, k

(* A part of a sequence in its order.                                        *)
LEMMA ToldPart ==
  ASSUME NEW s \in Seq(Records), NEW t \in Seq(Records), NEW g, NEW R,
         \A i \in 1..Len(t) : g[i] \in 1..Len(s) /\ t[i] = s[g[i]],
         \A i, j \in 1..Len(t) : i < j => g[i] < g[j]
  PROVE  Told(t, R) \subseteq Told(s, R) /\ (Singly(s, R) => Singly(t, R))
<1>1. Told(t, R) \subseteq Told(s, R)
  BY DEF Told
<1>2. ASSUME Singly(s, R), NEW i \in 1..Len(t), NEW j \in 1..Len(t), t[i].role \in R,
             t[j].role \in R, t[i].n = t[j].n
      PROVE  i = j
  <2>1. g[i] = g[j]
    BY <1>2 DEF Singly
  <2>2. ~(i < j) /\ ~(j < i)
    <3>1. Len(s) \in Nat /\ Len(t) \in Nat
      BY LenProperties
    <3> QED BY <2>1, <3>1
  <2>3. i \in Nat /\ j \in Nat
    OBVIOUS
  <2> QED BY <2>2, <2>3
<1> QED BY <1>1, <1>2 DEF Singly

LEMMA ToldSub ==
  ASSUME NEW s \in Seq(Records), NEW a \in Nat \ {0}, NEW b \in 0..Len(s), NEW R
  PROVE  /\ SubSeq(s, a, b) \in Seq(Records)
         /\ Told(SubSeq(s, a, b), R) \subseteq Told(s, R)
         /\ Singly(s, R) => Singly(SubSeq(s, a, b), R)
<1> DEFINE t == SubSeq(s, a, b)
           g == [i \in 1..Len(t) |-> a + i - 1]
<1>1. Len(s) \in Nat
  BY LenProperties
<1>2. /\ t \in Seq(Records) /\ Len(t) = (IF a <= b THEN b - a + 1 ELSE 0)
      /\ \A i \in 1..Len(t) : t[i] = s[a + i - 1]
  BY <1>1
<1> HIDE DEF t
<1>3. \A i \in 1..Len(t) : a + i - 1 \in 1..Len(s)
  BY <1>1, <1>2
<1>4. \A i \in 1..Len(t) : g[i] \in 1..Len(s) /\ t[i] = s[g[i]]
  BY <1>2, <1>3
<1>5. \A i, j \in 1..Len(t) : i < j => g[i] < g[j]
  BY <1>2
<1> HIDE DEF g
<1>6. Told(t, R) \subseteq Told(s, R) /\ (Singly(s, R) => Singly(t, R))
  BY <1>2, <1>4, <1>5, ToldPart
<1> QED BY <1>2, <1>6 DEF t

LEMMA ToldOnly ==
  ASSUME NEW s \in Seq(Records), NEW kept, NEW R
  PROVE  /\ Only(s, kept) \in Seq(Records)
         /\ Told(Only(s, kept), R) \subseteq Told(s, R)
         /\ Singly(s, R) => Singly(Only(s, kept), R)
<1> DEFINE t == Only(s, kept)
<1>1. t \in Seq(Records) /\ \E g : Picks(g, t, s, kept, Len(s))
  BY OnlyPicks
<1> HIDE DEF t
<1>2. PICK g : Picks(g, t, s, kept, Len(s))
  BY <1>1
<1>3. /\ \A i \in 1..Len(t) : g[i] \in 1..Len(s) /\ t[i] = s[g[i]]
      /\ \A i, j \in 1..Len(t) : i < j => g[i] < g[j]
  BY <1>2 DEF Picks
<1>4. Told(t, R) \subseteq Told(s, R) /\ (Singly(s, R) => Singly(t, R))
  BY <1>1, <1>3, ToldPart
<1> QED BY <1>1, <1>4 DEF t

-----------------------------------------------------------------------------
(* Sets of numbers, of which no two have one in common; those of the first   *)
(* five are on their way into the transcript, which has the numbers of M.    *)
Whole(S, n, all, M) ==
  /\ \A a, b \in 1..8 : \A x \in S[a] : x \in S[b] => a = b
  /\ \A a \in 1..8 : S[a] \subseteq 1..n
  /\ all => \A x \in 1..n : \E a \in 1..8 : x \in S[a]
  /\ M \subseteq 0..n /\ \A a \in 1..5 : M \cap S[a] = {}

(* The numbers of X move from place a to place b.                            *)
Moves(S, T, a, b, X) ==
  /\ a \in 1..8 /\ b \in 1..8 /\ a # b /\ X \subseteq S[a] /\ (b \in 1..5 => a \in 1..5)
  /\ T[a] = S[a] \ X /\ T[b] = S[b] \cup X /\ \A c \in 1..8 : c # a /\ c # b => T[c] = S[c]

Alike(S, T) ==
  /\ T[1] = S[1] /\ T[2] = S[2] /\ T[3] = S[3] /\ T[4] = S[4]
  /\ T[5] = S[5] /\ T[6] = S[6] /\ T[7] = S[7] /\ T[8] = S[8]

LEMMA AllEight ==
  ASSUME NEW S, NEW T, Alike(S, T) PROVE \A a \in 1..8 : T[a] = S[a]
<1>1. \A a \in 1..8 : a = 1 \/ a = 2 \/ a = 3 \/ a = 4 \/ a = 5 \/ a = 6 \/ a = 7 \/ a = 8
  OBVIOUS
<1> QED BY <1>1 DEF Alike

LEMMA CellsMove ==
  ASSUME NEW S, NEW T, NEW n, NEW all, NEW M, NEW a, NEW b, NEW X,
         Whole(S, n, all, M), Moves(S, T, a, b, X)
  PROVE  Whole(T, n, all, M)
<1>0. /\ a \in 1..8 /\ b \in 1..8 /\ a # b /\ X \subseteq S[a] /\ (b \in 1..5 => a \in 1..5)
      /\ T[a] = S[a] \ X /\ T[b] = S[b] \cup X
      /\ \A c \in 1..8 : c # a /\ c # b => T[c] = S[c]
  BY DEF Moves
<1>1. \A c, d \in 1..8 : \A x \in T[c] : x \in T[d] => c = d
  <2> SUFFICES ASSUME NEW c \in 1..8, NEW d \in 1..8, NEW x \in T[c], x \in T[d] PROVE c = d
    OBVIOUS
  <2>1. CASE x \in X
    <3>1. c = b /\ d = b
      BY <1>0, <2>1 DEF Whole
    <3> QED BY <3>1
  <2>2. CASE x \notin X
    <3>1. x \in S[c] /\ x \in S[d]
      BY <1>0, <2>2
    <3> QED BY <3>1 DEF Whole
  <2> QED BY <2>1, <2>2
<1>2. \A c \in 1..8 : T[c] \subseteq 1..n
  BY <1>0 DEF Whole
<1>3. all => \A x \in 1..n : \E c \in 1..8 : x \in T[c]
  <2> SUFFICES ASSUME all, NEW x \in 1..n PROVE \E c \in 1..8 : x \in T[c]
    OBVIOUS
  <2>1. PICK c \in 1..8 : x \in S[c]
    BY DEF Whole
  <2>2. x \in T[c] \/ x \in T[b]
    BY <1>0, <2>1
  <2> QED BY <1>0, <2>2
<1>4. \A c \in 1..5 : M \cap T[c] = {}
  <2> SUFFICES ASSUME NEW c \in 1..5, NEW x \in M, x \in T[c] PROVE FALSE
    OBVIOUS
  <2>1. c \in 1..8
    OBVIOUS
  <2>2. x \in S[c] \/ (c = b /\ x \in S[a])
    BY <1>0, <2>1
  <2> QED BY <1>0, <2>2 DEF Whole
<1> QED BY <1>1, <1>2, <1>3, <1>4 DEF Whole

LEMMA CellsSame ==
  ASSUME NEW S, NEW T, NEW n, NEW all, NEW every, NEW M, NEW N, Whole(S, n, all, M),
         every => all, \A a \in 1..8 : T[a] \subseteq S[a], every => \A a \in 1..8 : T[a] = S[a],
         N \subseteq M \cup S[6] \cup S[7] \cup S[8] \cup {0}, n \in Nat
  PROVE  Whole(T, n, every, N)
<1>1. \A c, d \in 1..8 : \A x \in T[c] : x \in T[d] => c = d
  BY DEF Whole
<1>2. \A c \in 1..8 : T[c] \subseteq 1..n
  BY DEF Whole
<1>3. every => \A x \in 1..n : \E c \in 1..8 : x \in T[c]
  BY DEF Whole
<1>4. N \subseteq 0..n
  <2>1. 1..n \subseteq 0..n /\ 0 \in 0..n
    OBVIOUS
  <2> QED BY <2>1 DEF Whole
<1>5. \A c \in 1..5 : N \cap T[c] = {}
  <2> SUFFICES ASSUME NEW c \in 1..5, NEW x \in N, x \in T[c] PROVE FALSE
    OBVIOUS
  <2>1. c \in 1..8 /\ c # 6 /\ c # 7 /\ c # 8 /\ x \in S[c] /\ x \in 1..n
    BY DEF Whole
  <2>2. x # 0
    BY <2>1
  <2> QED BY <2>1, <2>2 DEF Whole
<1> QED BY <1>1, <1>2, <1>3, <1>4, <1>5 DEF Whole

LEMMA CellsNew ==
  ASSUME NEW S, NEW T, NEW n \in Nat, NEW all, NEW M, Whole(S, n, all, M),
         NEW b \in 1..8, T[b] = S[b] \cup {n + 1}, \A c \in 1..8 : c # b => T[c] = S[c]
  PROVE  Whole(T, n + 1, all, M)
<1>1. (\A c \in 1..8 : n + 1 \notin S[c]) /\ n + 1 \notin M
  <2>1. n + 1 \notin 1..n /\ n + 1 \notin 0..n
    OBVIOUS
  <2> QED BY <2>1 DEF Whole
<1>2. \A c, d \in 1..8 : \A x \in T[c] : x \in T[d] => c = d
  <2> SUFFICES ASSUME NEW c \in 1..8, NEW d \in 1..8, NEW x \in T[c], x \in T[d] PROVE c = d
    OBVIOUS
  <2>1. CASE x = n + 1
    <3>1. c = b /\ d = b
      BY <1>1, <2>1
    <3> QED BY <3>1
  <2>2. CASE x # n + 1
    <3>1. x \in S[c] /\ x \in S[d]
      BY <2>2
    <3> QED BY <3>1 DEF Whole
  <2> QED BY <2>1, <2>2
<1>3. \A c \in 1..8 : T[c] \subseteq 1..(n + 1)
  <2>1. 1..n \subseteq 1..(n + 1) /\ n + 1 \in 1..(n + 1)
    OBVIOUS
  <2> QED BY <2>1 DEF Whole
<1>4. all => \A x \in 1..(n + 1) : \E c \in 1..8 : x \in T[c]
  <2> SUFFICES ASSUME all, NEW x \in 1..(n + 1) PROVE \E c \in 1..8 : x \in T[c]
    OBVIOUS
  <2>1. CASE x = n + 1
    BY <2>1
  <2>2. CASE x \in 1..n
    <3>1. PICK c \in 1..8 : x \in S[c]
      BY <2>2 DEF Whole
    <3> QED BY <3>1
  <2> QED BY <2>1, <2>2
<1>5. M \subseteq 0..(n + 1) /\ \A c \in 1..5 : M \cap T[c] = {}
  <2>1. 0..n \subseteq 0..(n + 1)
    OBVIOUS
  <2>2. \A c \in 1..5 : c \in 1..8
    OBVIOUS
  <2> QED BY <1>1, <2>1, <2>2 DEF Whole
<1> QED BY <1>2, <1>3, <1>4, <1>5 DEF Whole

-----------------------------------------------------------------------------
(* Worlds: the transcript, the session and the bash results held back.       *)

Worlds == [messages : Seq(Records), log : Seq(Records), held : Seq(Bashes)]

LEMMA LatestIs ==
  ASSUME NEW s \in Seq(Records)
  PROVE  LET c == LatestCompaction(s)
         IN  /\ c \in 0..Len(s) /\ (c > 0 => s[c].role = "compaction")
             /\ \A j \in c + 1..Len(s) : s[j].role # "compaction"
<1> DEFINE n == Len(s)
           T == {i \in 0..n : i > 0 => s[i].role = "compaction"}
           Is(i) == /\ i > 0 => s[i].role = "compaction"
                    /\ \A j \in i + 1..n : s[j].role # "compaction"
<1>1. n \in Nat
  BY LenProperties
<1>2. T \in SUBSET (0..n) /\ T # {}
  <2>1. 0 \in T
    BY <1>1
  <2> QED BY <2>1
<1> HIDE DEF n
<1>3. PICK c \in T : \A y \in T : y <= c
  <2> HIDE DEF T
  <2> QED BY <1>1, <1>2, HasMaximum
<1>4. c \in 0..n /\ Is(c)
  <2>1. ASSUME NEW j \in c + 1..n PROVE s[j].role # "compaction"
    <3>1. j \in 0..n /\ j > c /\ ~(j <= c)
      BY <1>1, <1>3
    <3> QED BY <1>3, <3>1
  <2> QED BY <1>3, <2>1
<1>5. \E i \in 0..n : Is(i)
  BY <1>4
<1> QED BY <1>5 DEF LatestCompaction, n

LEMMA CutPointsAre ==
  ASSUME NEW s \in Seq(Records), NEW k \in CutPoints(s)
  PROVE  k \in Nat \ {0}
<1> DEFINE c     == LatestCompaction(s)
           start == IF c = 0 THEN 1 ELSE s[c].n
           cuts  == {i \in start..Len(s) : s[i].role \notin {"toolResult", "compaction"}}
<1>1. c \in 0..Len(s) /\ (c > 0 => s[c].role = "compaction") /\ Len(s) \in Nat
  BY LatestIs, LenProperties
<1> HIDE DEF c
<1>2. start \in Nat \ {0}
  <2>1. CASE c = 0
    BY <2>1
  <2>2. CASE c > 0
    <3>1. s[c] \in Records
      BY <1>1, <2>2
    <3> QED BY <1>1, <2>2, <3>1 DEF Records
  <2> QED BY <1>1, <2>1, <2>2
<1> HIDE DEF start
<1>3. cuts \in SUBSET Nat /\ cuts \in SUBSET (0..Len(s)) /\ \A i \in cuts : i \in Nat \ {0}
  BY <1>1, <1>2
<1> HIDE DEF cuts
<1>4. cuts # {} => Min(cuts) \in cuts
  <2> SUFFICES ASSUME cuts # {} PROVE Min(cuts) \in cuts
    OBVIOUS
  <2>1. \E x \in cuts : \A y \in cuts : x <= y
    BY <1>3, HasMinimum
  <2> QED BY <2>1 DEF Min
<1>5. cuts # {} => Max(cuts) \in cuts
  <2> SUFFICES ASSUME cuts # {} PROVE Max(cuts) \in cuts
    OBVIOUS
  <2>1. \E x \in cuts : \A y \in cuts : y <= x
    BY <1>1, <1>3, HasMaximum
  <2>2. \E x \in cuts : \A y \in cuts : x >= y
    <3>1. PICK x \in cuts : \A y \in cuts : y <= x
      BY <2>1
    <3>2. \A y \in cuts : x >= y
      BY <1>3, <3>1
    <3> QED BY <3>2
  <2> QED BY <2>2 DEF Max
<1>6. PICK keep \in Keeps :
        k = IF cuts = {} THEN start ELSE IF keep = "all" THEN Min(cuts) ELSE Max(cuts)
  BY DEF CutPoints, start, cuts, c
<1> QED BY <1>2, <1>3, <1>4, <1>5, <1>6

(* Two parts of a sequence that have no position in common.                  *)
LEMMA ToldApart ==
  ASSUME NEW s \in Seq(Records), NEW a \in Nat \ {0}, NEW b \in 0..Len(s),
         NEW c \in Nat, b < c, NEW R, Singly(s, R)
  PROVE  Told(SubSeq(s, a, b), R) \cap Told(SubSeq(s, c, Len(s)), R) = {}
<1> DEFINE t == SubSeq(s, a, b)
           u == SubSeq(s, c, Len(s))
           n == Len(s)
<1>1. n \in Nat
  BY LenProperties
<1>2. /\ Len(t) = (IF a <= b THEN b - a + 1 ELSE 0)
      /\ \A i \in 1..Len(t) : t[i] = s[a + i - 1]
  BY <1>1
<1>3. /\ Len(u) = (IF c <= n THEN n - c + 1 ELSE 0)
      /\ \A i \in 1..Len(u) : u[i] = s[c + i - 1]
  BY <1>1
<1> HIDE DEF t, u
<1> SUFFICES ASSUME NEW x \in Told(t, R), x \in Told(u, R) PROVE FALSE
  BY DEF t, u
<1>4. PICK i \in 1..Len(t) : t[i].role \in R /\ x = t[i].n
  BY DEF Told
<1>5. PICK j \in 1..Len(u) : u[j].role \in R /\ x = u[j].n
  BY DEF Told
<1>6. a + i - 1 \in 1..n /\ a + i - 1 <= b /\ c + j - 1 \in 1..n /\ c + j - 1 >= c
  <2>1. i \in 1..(b - a + 1) /\ a <= b
    BY <1>1, <1>2
  <2>2. j \in 1..(n - c + 1) /\ c <= n
    BY <1>1, <1>3
  <2> QED BY <1>1, <2>1, <2>2
<1>7. /\ s[a + i - 1].role \in R /\ s[c + j - 1].role \in R
      /\ s[a + i - 1].n = s[c + j - 1].n
  BY <1>2, <1>3, <1>4, <1>5
<1>8. a + i - 1 = c + j - 1
  <2> DEFINE f == a + i - 1
             g == c + j - 1
  <2>1. f \in 1..n /\ g \in 1..n /\ s[f].role \in R /\ s[g].role \in R /\ s[f].n = s[g].n
    BY <1>6, <1>7
  <2> HIDE DEF f, g
  <2>2. f = g
    BY <2>1 DEF Singly
  <2> QED BY <2>2 DEF f, g
<1> QED BY <1>6, <1>8

(* The context of a session shows its messages once each.                    *)
LEMMA ContextTold ==
  ASSUME NEW s \in Seq(Records), NEW R \in SUBSET {"user", "custom", "bashExecution"}
  PROVE  /\ Context(s) \in Seq(Records)
         /\ Told(Context(s), R) \subseteq Told(s, R)
         /\ Singly(s, R) => Singly(Context(s), R)
<1> DEFINE c == LatestCompaction(s)
           n == Len(s)
<1>1. c \in 0..n /\ (c > 0 => s[c].role = "compaction") /\ n \in Nat
  BY LatestIs, LenProperties
<1> HIDE DEF c
<1>2. CASE c = 0
  BY <1>2 DEF Context, c
<1>3. CASE c # 0
  <2> DEFINE k == s[c].n
             mid == SubSeq(s, k, c - 1)
             top == <<Summary>>
             kept == Only(mid, Messages(s))
             end == SubSeq(s, c + 1, n)
  <2>1. k \in Nat \ {0}
    <3>1. s[c] \in Records
      BY <1>1, <1>3
    <3> QED BY <1>1, <1>3, <3>1 DEF Records
  <2> HIDE DEF k
  <2>2. /\ mid \in Seq(Records) /\ Told(mid, R) \subseteq Told(s, R)
        /\ Singly(s, R) => Singly(mid, R)
    BY <1>1, <1>3, <2>1, ToldSub
  <2>3. /\ end \in Seq(Records) /\ Told(end, R) \subseteq Told(s, R)
        /\ Singly(s, R) => Singly(end, R)
    <3>1. c + 1 \in Nat \ {0} /\ n \in 0..Len(s)
      BY <1>1
    <3> QED BY <3>1, ToldSub
  <2>4. Singly(s, R) => Told(mid, R) \cap Told(end, R) = {}
    <3>1. c - 1 \in 0..Len(s) /\ c + 1 \in Nat /\ c - 1 < c + 1
      BY <1>1, <1>3
    <3> QED BY <2>1, <3>1, ToldApart
  <2> HIDE DEF mid
  <2>5. /\ kept \in Seq(Records) /\ Told(kept, R) \subseteq Told(mid, R)
        /\ Singly(mid, R) => Singly(kept, R)
    BY <2>2, ToldOnly
  <2>6. top \in Seq(Records) /\ Told(top, R) = {} /\ Singly(top, R)
    <3>1. Summary \in Records /\ Summary.role \notin R
      BY RecordTypes
    <3> QED BY <3>1, ToldOne
  <2>7. Context(s) = top \o kept \o end
    BY <1>3 DEF Context, c, mid, k
  <2> HIDE DEF top, kept, end
  <2>8. /\ top \o kept \in Seq(Records) /\ Told(top \o kept, R) = Told(top, R) \cup Told(kept, R)
        /\ Singly(top \o kept, R)
             <=> Singly(top, R) /\ Singly(kept, R) /\ Told(top, R) \cap Told(kept, R) = {}
    <3>1. top \in Seq(Records) /\ kept \in Seq(Records)
      BY <2>5, <2>6
    <3> QED BY <3>1, ToldConcat
  <2> DEFINE first == top \o kept
  <2>13. first \in Seq(Records) /\ end \in Seq(Records)
    BY <2>3, <2>8
  <2> HIDE DEF first
  <2>9. /\ first \o end \in Seq(Records) /\ Told(first \o end, R) = Told(first, R) \cup Told(end, R)
        /\ Singly(first \o end, R)
             <=> Singly(first, R) /\ Singly(end, R) /\ Told(first, R) \cap Told(end, R) = {}
    BY <2>13, ToldConcat
  <2>10. Context(s) \in Seq(Records)
    BY <2>7, <2>9 DEF first
  <2>11. Told(Context(s), R) \subseteq Told(s, R)
    BY <2>2, <2>3, <2>5, <2>6, <2>7, <2>8, <2>9 DEF first
  <2>12. Singly(s, R) => Singly(Context(s), R)
    BY <2>2, <2>3, <2>4, <2>5, <2>6, <2>7, <2>8, <2>9 DEF first
  <2> QED BY <2>10, <2>11, <2>12
<1> QED BY <1>2, <1>3

LEMMA DropTold ==
  ASSUME NEW m \in Seq(Records)
  PROVE  /\ DropAnswer(m) \in Seq(Records)
         /\ \A R : Told(DropAnswer(m), R) \subseteq Told(m, R)
                   /\ (Singly(m, R) => Singly(DropAnswer(m), R))
<1>1. CASE LastOf(m).role # "assistant"
  BY <1>1 DEF DropAnswer
<1>2. CASE LastOf(m).role = "assistant"
  <2>1. m # <<>>
    BY <1>2 DEF LastOf, NoMessage, Message
  <2>2. Len(m) \in Nat \ {0}
    BY <2>1
  <2> DEFINE n == Len(m) - 1
  <2>3. n \in 0..Len(m) /\ 1 \in Nat \ {0}
    BY <2>2
  <2>4. DropAnswer(m) = SubSeq(m, 1, n)
    BY <1>2 DEF DropAnswer, Front
  <2> HIDE DEF n
  <2>5. \A R : /\ SubSeq(m, 1, n) \in Seq(Records)
               /\ Told(SubSeq(m, 1, n), R) \subseteq Told(m, R)
               /\ Singly(m, R) => Singly(SubSeq(m, 1, n), R)
    BY <2>3, ToldSub
  <2> QED BY <2>4, <2>5
<1> QED BY <1>1, <1>2

(* No message, and no bash result, is twice in the transcript or the session; *)
(* those held back are in neither.                                           *)
Fits(w, e) ==
  /\ w \in Worlds
  /\ Singly(w.messages, GivenRoles) /\ Singly(w.log, GivenRoles)
  /\ Singly(w.messages, BashRoles) /\ Singly(w.log, BashRoles) /\ Singly(w.held, BashRoles)
  /\ Told(w.messages, BashRoles) \cap Told(w.held, BashRoles) = {}
  /\ Told(w.log, BashRoles) \cap Told(w.held, BashRoles) = {}
  /\ \A s \in {w.messages, w.log, w.held} : Told(s, BashRoles) \subseteq 0..e

(* What a step does to the messages in the world w: none is new, and the     *)
(* session keeps all it has.                                                 *)
Stays(w, v) ==
  /\ Told(v.messages, GivenRoles) \subseteq Told(w.messages, GivenRoles) \cup Told(w.log, GivenRoles)
  /\ Told(v.log, GivenRoles) = Told(w.log, GivenRoles)

LEMMA StaysStays ==
  ASSUME NEW u, NEW v, NEW w, Stays(u, v), Stays(v, w)
  PROVE  Stays(u, w)
BY DEF Stays

LEMMA HeldTold ==
  ASSUME NEW h \in Seq(Bashes)
  PROVE  h \in Seq(Records) /\ Told(h, GivenRoles) = {} /\ Singly(h, GivenRoles)
<1>1. h \in Seq(Records)
  BY SeqTypes
<1>2. \A i \in 1..Len(h) : h[i].role \notin GivenRoles
  <2>1. \A i \in 1..Len(h) : h[i] \in Bashes
    OBVIOUS
  <2> QED BY <2>1 DEF Bashes, GivenRoles
<1> QED BY <1>1, <1>2, ToldNothing

LEMMA FlushFits ==
  ASSUME NEW w, NEW e \in Nat, Fits(w, e)
  PROVE  Fits(Flush(w), e) /\ Stays(w, Flush(w))
<1> DEFINE v == Flush(w)
           m == w.messages
           l == w.log
           h == w.held
<1>1. m \in Seq(Records) /\ l \in Seq(Records) /\ h \in Seq(Bashes) /\ h \in Seq(Records)
  BY HeldTold DEF Fits, Worlds
<1>2. v = [messages |-> m \o h, log |-> l \o h, held |-> <<>>]
  BY DEF Flush
<1>3. Told(h, GivenRoles) = {} /\ Singly(h, GivenRoles)
  BY <1>1, HeldTold
<1> HIDE DEF m, l, h, v
<1>4. /\ m \o h \in Seq(Records)
      /\ Told(m \o h, GivenRoles) = Told(m, GivenRoles) \cup Told(h, GivenRoles)
      /\ Singly(m \o h, GivenRoles) <=> Singly(m, GivenRoles) /\ Singly(h, GivenRoles)
                                        /\ Told(m, GivenRoles) \cap Told(h, GivenRoles) = {}
  BY <1>1, ToldConcat
<1>5. /\ l \o h \in Seq(Records)
      /\ Told(l \o h, GivenRoles) = Told(l, GivenRoles) \cup Told(h, GivenRoles)
      /\ Singly(l \o h, GivenRoles) <=> Singly(l, GivenRoles) /\ Singly(h, GivenRoles)
                                        /\ Told(l, GivenRoles) \cap Told(h, GivenRoles) = {}
  BY <1>1, ToldConcat
<1>6. /\ Told(m \o h, BashRoles) = Told(m, BashRoles) \cup Told(h, BashRoles)
      /\ Singly(m \o h, BashRoles) <=> Singly(m, BashRoles) /\ Singly(h, BashRoles)
                                       /\ Told(m, BashRoles) \cap Told(h, BashRoles) = {}
  BY <1>1, ToldConcat
<1>7. /\ Told(l \o h, BashRoles) = Told(l, BashRoles) \cup Told(h, BashRoles)
      /\ Singly(l \o h, BashRoles) <=> Singly(l, BashRoles) /\ Singly(h, BashRoles)
                                       /\ Told(l, BashRoles) \cap Told(h, BashRoles) = {}
  BY <1>1, ToldConcat
<1>8. <<>> \in Seq(Bashes) /\ Told(<<>>, BashRoles) = {} /\ Singly(<<>>, BashRoles)
  BY ToldNothing
<1>9. /\ Singly(m, GivenRoles) /\ Singly(l, GivenRoles) /\ Singly(m, BashRoles)
      /\ Singly(l, BashRoles) /\ Singly(h, BashRoles)
      /\ Told(m, BashRoles) \cap Told(h, BashRoles) = {}
      /\ Told(l, BashRoles) \cap Told(h, BashRoles) = {}
      /\ Told(m, BashRoles) \subseteq 0..e /\ Told(l, BashRoles) \subseteq 0..e
      /\ Told(h, BashRoles) \subseteq 0..e
  BY DEF Fits, m, l, h
<1> DEFINE mh == m \o h
           lh == l \o h
<1> HIDE DEF mh, lh
<1>10. v.messages = mh /\ v.log = lh /\ v.held = <<>> /\ v \in Worlds
  BY <1>2, <1>4, <1>5, <1>8 DEF Worlds, mh, lh
<1>11. /\ Singly(mh, GivenRoles) /\ Singly(lh, GivenRoles)
       /\ Singly(mh, BashRoles) /\ Singly(lh, BashRoles)
       /\ Told(mh, BashRoles) \subseteq 0..e /\ Told(lh, BashRoles) \subseteq 0..e
       /\ Told(mh, GivenRoles) = Told(m, GivenRoles)
       /\ Told(lh, GivenRoles) = Told(l, GivenRoles)
  BY <1>3, <1>4, <1>5, <1>6, <1>7, <1>9 DEF mh, lh
<1>12. Fits(v, e)
  BY <1>8, <1>10, <1>11 DEF Fits
<1>13. Stays(w, v)
  BY <1>10, <1>11 DEF Stays, m, l
<1> QED BY <1>12, <1>13 DEF v

LEMMA DropFits ==
  ASSUME NEW w, NEW e \in Nat, Fits(w, e)
  PROVE  LET v == [w EXCEPT !.messages = DropAnswer(@)]
         IN  Fits(v, e) /\ Stays(w, v)
<1> DEFINE d == DropAnswer(w.messages)
           v == [w EXCEPT !.messages = DropAnswer(@)]
<1>1. w \in Worlds /\ w.messages \in Seq(Records)
  BY DEF Fits, Worlds
<1>2. /\ d \in Seq(Records)
      /\ \A R : Told(d, R) \subseteq Told(w.messages, R) /\ (Singly(w.messages, R) => Singly(d, R))
  BY <1>1, DropTold
<1> HIDE DEF d
<1>3. v \in Worlds /\ v.messages = d /\ v.log = w.log /\ v.held = w.held
  BY <1>1, <1>2 DEF Worlds, d
<1> HIDE DEF v
<1>4. Fits(v, e)
  BY <1>2, <1>3 DEF Fits
<1>5. Stays(w, v)
  BY <1>2, <1>3 DEF Stays
<1> QED BY <1>4, <1>5 DEF v

LEMMA CompactedFits ==
  ASSUME NEW w, NEW e \in Nat, Fits(w, e), NEW k \in Nat \ {0}
  PROVE  Fits(Compacted(k, w), e) /\ Stays(w, Compacted(k, w))
<1> DEFINE l == Append(w.log, Compaction(k))
           c == Context(l)
           v == Compacted(k, w)
           Both == {GivenRoles, BashRoles}
<1>1. w \in Worlds /\ w.log \in Seq(Records)
  BY DEF Fits, Worlds
<1>2. Compaction(k) \in Records /\ Compaction(k).role = "compaction"
  BY RecordTypes
<1>3. \A R \in Both : R \in SUBSET {"user", "custom", "bashExecution"} /\ "compaction" \notin R
  BY DEF GivenRoles, BashRoles
<1> HIDE DEF Both
<1>4. /\ l \in Seq(Records)
      /\ \A R \in Both : Told(l, R) = Told(w.log, R) /\ (Singly(w.log, R) => Singly(l, R))
  <2> DEFINE x == Compaction(k)
  <2>1. x \in Records /\ x.role = "compaction"
    BY <1>2
  <2> HIDE DEF x
  <2>2. \A R : /\ Append(w.log, x) \in Seq(Records)
               /\ Told(Append(w.log, x), R) = Told(w.log, R) \cup (IF x.role \in R THEN {x.n} ELSE {})
               /\ Singly(Append(w.log, x), R)
                    <=> Singly(w.log, R) /\ (x.role \in R => x.n \notin Told(w.log, R))
    BY <1>1, <2>1, ToldAppend
  <2>3. l = Append(w.log, x)
    BY DEF x
  <2> HIDE DEF l
  <2> QED BY <1>3, <2>1, <2>2, <2>3
<1>40. GivenRoles \in Both /\ BashRoles \in Both
  BY DEF Both
<1> HIDE DEF l
<1>5. /\ c \in Seq(Records)
      /\ \A R \in Both : Told(c, R) \subseteq Told(l, R) /\ (Singly(l, R) => Singly(c, R))
  BY <1>3, <1>4, <1>40, ContextTold
<1> HIDE DEF c
<1>6. v \in Worlds /\ v.messages = c /\ v.log = l /\ v.held = w.held
  <2>1. v = [[w EXCEPT !.log = l] EXCEPT !.messages = c] \/
        v = [w EXCEPT !.log = l, !.messages = c]
    BY DEF Compacted, l, c
  <2> QED BY <1>1, <1>4, <1>5, <2>1 DEF Worlds
<1> HIDE DEF v
<1>7. Fits(v, e)
  BY <1>4, <1>40, <1>5, <1>6 DEF Fits
<1>8. Stays(w, v)
  BY <1>4, <1>40, <1>5, <1>6 DEF Stays
<1> QED BY <1>7, <1>8 DEF v

-----------------------------------------------------------------------------
(* The state.                                                                *)

Thens   == {"poll", "request", "tools", "pollBoth", "finish"}
RunPcs  == Thens \cup {"none", "start", "end", "save"}
Runs    == [pc : RunPcs, owner : Callers \cup {"nobody"}, out : Seq(Outs),
            then : Thens \cup {"none"}, aborted : BOOLEAN, heard : BOOLEAN]
OpPcs   == {"idle", "preflight", "running", "postRun", "sleeping", "preparing", "compacting",
            "continue"}
Lasts   == Outs \cup {NoMessage}
Whys    == {"none", "overflow", "threshold"}
Ops     == [pc : OpPcs, stage : {"main", "check", "pre"}, n : Nat, prompts : Seq(Inputs),
            msg : Lasts, why : Whys, kept : Nat, quiet : BOOLEAN]
Manuals == [pc : {"idle", "waiting", "ready", "compacting"}, kept : Nat]

Typed ==
  /\ run \in Runs /\ op \in [Callers -> Ops] /\ manual \in Manuals
  /\ steering \in Seq(Inputs) /\ followUps \in Seq(Inputs) /\ nextTurn \in Seq(Inputs)
  /\ last \in Lasts /\ sent \in Nat /\ extras \in Nat
  /\ connected \in BOOLEAN /\ unheard \in BOOLEAN

(* A run delivers while it has messages to deliver, and then goes on.        *)
RunFormed(r) ==
  /\ r.pc \in {"start", "end", "save"} <=> r.out # <<>>
  /\ r.pc = "start" => r.out[1].role = "user"
  /\ r.pc # "none" => r.then \in Thens

(* What a call knows where it is.                                            *)
OpFormed(o) ==
  /\ o.pc # "preflight" => o.prompts = <<>>
  /\ o.pc \in {"idle", "preflight"} => o.stage = "main"
  /\ o.stage = "check" => o.pc \in {"preparing", "compacting"}
  /\ o.pc = "compacting" => o.kept > 0

Formed ==
  /\ RunFormed(run)
  /\ Active => run.owner \in Callers /\ op[run.owner].pc = "running"
  /\ run.pc = "save" => run.heard \/ unheard
  /\ \A p \in Callers : OpFormed(op[p])
  /\ manual.pc = "compacting" => manual.kept > 0

Given(s) == Told(s, GivenRoles)

(* The numbers of the messages a call prepares.                              *)
Prep(o) == IF o.pc = "preflight" THEN Given(o.prompts)
           ELSE IF o.stage \in {"check", "pre"} THEN {o.n} ELSE {}
Preps   == UNION {Prep(op[p]) : p \in Callers}

Coming(r) == IF r.pc = "save" THEN Tail(r.out) ELSE r.out
Saving(r) == IF r.pc = "save" THEN <<r.out[1]>> ELSE <<>>

Cells == <<Preps, Given(nextTurn), Given(steering), Given(followUps), Given(Coming(run)),
           Given(Saving(run)), Given(log) \ {0}, cleared>>

Delivery ==
  /\ Whole(Cells, sent, ~unheard, Given(messages))
  /\ \A p, q \in Callers : p # q => Prep(op[p]) \cap Prep(op[q]) = {}
  /\ Singly(nextTurn, GivenRoles) /\ Singly(steering, GivenRoles)
  /\ Singly(followUps, GivenRoles) /\ Singly(Coming(run), GivenRoles)
  /\ \A p \in Callers : Singly(op[p].prompts, GivenRoles)
  /\ 0 \notin Given(Saving(run))

Inv == Typed /\ Formed /\ Fits(Now, extras) /\ Delivery

LEMMA InputsTold ==
  ASSUME NEW s \in Seq(Inputs)
  PROVE  /\ s \in Seq(Records) /\ s \in Seq(Outs)
         /\ 0 \notin Given(s) /\ Given(s) = {s[i].n : i \in 1..Len(s)}
         /\ Spoken(s) = Given(s)
<1>1. s \in Seq(Records) /\ s \in Seq(Outs)
  BY SeqTypes
<1>2. \A i \in 1..Len(s) : s[i].role \in GivenRoles /\ s[i].n > 0
  <2>1. \A i \in 1..Len(s) : s[i] \in Inputs
    OBVIOUS
  <2> QED BY <2>1 DEF Inputs
<1>3. 0 \notin Given(s) /\ Given(s) = {s[i].n : i \in 1..Len(s)}
  BY <1>2 DEF Given, Told
<1>4. DOMAIN s = 1..Len(s)
  OBVIOUS
<1>5. Spoken(s) = Given(s)
  BY <1>2, <1>3, <1>4 DEF Spoken, GivenRoles
<1> QED BY <1>1, <1>3, <1>5

LEMMA SpokenTold ==
  ASSUME NEW s \in Seq(Records)
  PROVE  Spoken(s) = Given(s) \ {0} /\ (s \in Seq(Outs) => 0 \notin Given(s))
<1>1. DOMAIN s = 1..Len(s)
  OBVIOUS
<1>2. Spoken(s) = Given(s) \ {0}
  BY <1>1 DEF Spoken, Given, Told, GivenRoles
<1>3. ASSUME s \in Seq(Outs) PROVE 0 \notin Given(s)
  <2>1. \A i \in 1..Len(s) : s[i] \in Outs
    BY <1>3
  <2>2. \A i \in 1..Len(s) : s[i].role \in GivenRoles => s[i].n > 0
    BY <2>1 DEF Outs, GivenRoles
  <2> QED BY <2>2 DEF Given, Told
<1> QED BY <1>2, <1>3

LEMMA DeliverIs ==
  ASSUME NEW r \in Runs, NEW out \in Seq(Outs), NEW then \in Thens
  PROVE  LET d == Deliver(r, out, then)
         IN  /\ d \in Runs /\ RunFormed(d) /\ d.pc \notin {"none", "save"}
             /\ d.out = out /\ d.owner = r.owner
             /\ Coming(d) = out /\ Saving(d) = <<>>
<1> DEFINE d == Deliver(r, out, then)
           pc == IF out = <<>> THEN then ELSE IF out[1].role = "user" THEN "start" ELSE "end"
<1>1. d = [r EXCEPT !.out = out, !.then = then, !.pc = pc]
  BY DEF Deliver
<1>2. pc \in RunPcs /\ pc \notin {"none", "save"}
  BY DEF RunPcs, Thens
<1>3. pc \in {"start", "end", "save"} <=> out # <<>>
  BY DEF Thens
<1>4. pc = "start" => out[1].role = "user"
  BY DEF Thens
<1> HIDE DEF pc
<1>5. d \in Runs /\ d.pc = pc /\ d.out = out /\ d.owner = r.owner /\ d.then = then
  <2>1. then \in Thens \cup {"none"}
    OBVIOUS
  <2>2. d.pc = pc /\ d.out = out /\ d.owner = r.owner /\ d.then = then
    BY <1>1 DEF Runs
  <2> QED BY <1>1, <1>2, <2>1, <2>2 DEF Runs
<1> HIDE DEF d
<1> QED BY <1>2, <1>3, <1>4, <1>5 DEF d, RunFormed, Coming, Saving

(* The run goes on with messages out that were somewhere before.             *)
LEMMA CellsAre ==
  ASSUME NEW C, C = Cells
  PROVE  /\ C[1] = Preps /\ C[2] = Given(nextTurn) /\ C[3] = Given(steering)
         /\ C[4] = Given(followUps) /\ C[5] = Given(Coming(run)) /\ C[6] = Given(Saving(run))
         /\ C[7] = Given(log) \ {0} /\ C[8] = cleared
BY DEF Cells

LEMMA CellsAreThen ==
  ASSUME NEW C, C = Cells'
  PROVE  /\ C[1] = Preps' /\ C[2] = Given(nextTurn') /\ C[3] = Given(steering')
         /\ C[4] = Given(followUps') /\ C[5] = Given(Coming(run')) /\ C[6] = Given(Saving(run'))
         /\ C[7] = Given(log') \ {0} /\ C[8] = cleared'
BY DEF Cells, Preps, Given, Told, Coming, Saving

LEMMA NothingGiven == Given(<<>>) = {} /\ Singly(<<>>, GivenRoles) /\ <<>> \in Seq(Inputs)
BY DEF Given, Told, Singly

-----------------------------------------------------------------------------
(* How a call goes on after a run or a compaction: it is over, it has built  *)
(* its prompts, or it waits for something else.                              *)

Others(p) == UNION {Prep(op[q]) : q \in Callers \ {p}}

Ends(p, o) == op' = [op EXCEPT ![p] = IdleOp] /\ nextTurn' = nextTurn /\ o.stage = "main"

Builds(p, o) ==
  /\ op' = [op EXCEPT ![p] = [o EXCEPT !.stage = "main", !.pc = "preflight",
                              !.prompts = <<User(o.n, "prompt")>> \o nextTurn]]
  /\ nextTurn' = <<>> /\ o.stage \in {"check", "pre"}

Waits(p, o) ==
  /\ \E q \in Ops : /\ op' = [op EXCEPT ![p] = q]
                    /\ q.n = o.n /\ q.pc \notin {"idle", "preflight", "running"} /\ OpFormed(q)
                    /\ q.stage \in {"check", "pre"} <=> o.stage \in {"check", "pre"}
  /\ nextTurn' = nextTurn

GoesOn(p, o) == Ends(p, o) \/ Builds(p, o) \/ Waits(p, o)

(* It has become a world that has the same messages.                         *)
Becomes(e) == \E v : Become(v) /\ Fits(v, e) /\ Stays(Now, v)

LEMMA PrepsThen ==
  ASSUME NEW p \in Callers, op \in [Callers -> Ops], NEW q, op' = [op EXCEPT ![p] = q]
  PROVE  /\ Preps' = Others(p) \cup Prep(q) /\ Preps = Others(p) \cup Prep(op[p])
         /\ op'[p] = q /\ \A r \in Callers \ {p} : op'[r] = op[r]
<1>1. op'[p] = q /\ \A r \in Callers \ {p} : op'[r] = op[r]
  OBVIOUS
<1>2. Preps' = UNION {Prep(op'[r]) : r \in Callers}
  BY DEF Preps, Prep, Given, Told
<1>3. Preps' = Others(p) \cup Prep(q)
  BY <1>1, <1>2 DEF Others
<1>4. Preps = Others(p) \cup Prep(op[p])
  BY DEF Preps, Others
<1> QED BY <1>1, <1>3, <1>4

(* Nobody else prepares what a caller prepares.                              *)
Apart(p, o) ==
  /\ Others(p) \cap Prep(o) = {}
  /\ \A q, r \in Callers \ {p} : q # r => Prep(op[q]) \cap Prep(op[r]) = {}

LEMMA ApartThen ==
  ASSUME NEW p \in Callers, op \in [Callers -> Ops], NEW q, op' = [op EXCEPT ![p] = q],
         NEW o, Apart(p, o), Others(p) \cap Prep(q) = {}
  PROVE  \A r, s \in Callers : r # s => Prep(op'[r]) \cap Prep(op'[s]) = {}
<1>1. op'[p] = q /\ \A r \in Callers \ {p} : op'[r] = op[r]
  OBVIOUS
<1>2. \A r \in Callers \ {p} : Prep(op[r]) \subseteq Others(p)
  BY DEF Others
<1> QED BY <1>1, <1>2 DEF Apart

LEMMA ApartNow ==
  ASSUME NEW p \in Callers, \A q, r \in Callers : q # r => Prep(op[q]) \cap Prep(op[r]) = {}
  PROVE  Apart(p, op[p])
BY DEF Apart, Others

LEMMA BuiltIs ==
  ASSUME NEW o \in Ops, o.n > 0, nextTurn \in Seq(Inputs), Singly(nextTurn, GivenRoles),
         o.n \notin Given(nextTurn)
  PROVE  LET prompts == <<User(o.n, "prompt")>> \o nextTurn
             q == [o EXCEPT !.stage = "main", !.pc = "preflight", !.prompts = prompts]
         IN  /\ q \in Ops /\ OpFormed(q) /\ q.prompts = prompts
             /\ Prep(q) = {o.n} \cup Given(nextTurn)
             /\ Singly(prompts, GivenRoles)
<1> DEFINE u == User(o.n, "prompt")
           t == <<u>>
           prompts == t \o nextTurn
           q == [o EXCEPT !.stage = "main", !.pc = "preflight", !.prompts = prompts]
<1>1. u \in Inputs /\ u \in Records /\ u.role \in GivenRoles /\ u.n = o.n
  <2>1. o.n \in Nat \ {0} /\ "prompt" \in Kinds
    BY DEF Ops, Kinds
  <2>2. u \in Inputs
    BY <2>1, InputTypes
  <2> QED BY <2>1, <2>2, InputTypes DEF User, Message, GivenRoles
<1> HIDE DEF u
<1>2. t \in Seq(Inputs) /\ t \in Seq(Records) /\ nextTurn \in Seq(Records)
  BY <1>1, InputsTold
<1>3. Singly(t, GivenRoles) /\ Given(t) = {o.n}
  BY <1>1, ToldOne DEF Given
<1> HIDE DEF t
<1>4. /\ Told(prompts, GivenRoles) = Told(t, GivenRoles) \cup Told(nextTurn, GivenRoles)
      /\ Singly(prompts, GivenRoles)
           <=> Singly(t, GivenRoles) /\ Singly(nextTurn, GivenRoles)
               /\ Told(t, GivenRoles) \cap Told(nextTurn, GivenRoles) = {}
  BY <1>2, ToldConcat
<1>5. prompts \in Seq(Inputs)
  BY <1>2
<1> HIDE DEF prompts
<1>6. Singly(prompts, GivenRoles) /\ Given(prompts) = {o.n} \cup Given(nextTurn)
  BY <1>3, <1>4 DEF Given
<1>7. q \in Ops /\ q.pc = "preflight" /\ q.stage = "main" /\ q.prompts = prompts
  BY <1>5 DEF Ops, OpPcs
<1> HIDE DEF q
<1>8. OpFormed(q) /\ Prep(q) = {o.n} \cup Given(nextTurn)
  BY <1>6, <1>7 DEF OpFormed, Prep
<1> QED BY <1>6, <1>7, <1>8 DEF q, prompts, t, u

LEMMA CallGoesOn ==
  ASSUME Typed, NEW p \in Callers, NEW o \in Ops, NEW n \in Nat, NEW C,
         Whole(C, n, ~unheard, Given(messages)),
         C[1] = Others(p) \cup Prep(o), C[2] = Given(nextTurn),
         C[3] = Given(steering), C[4] = Given(followUps), C[5] = Given(Coming(run)),
         C[6] = Given(Saving(run)), C[7] = Given(log) \ {0}, C[8] = cleared,
         Apart(p, o), Singly(nextTurn, GivenRoles), Singly(steering, GivenRoles),
         Singly(followUps, GivenRoles), Singly(Coming(run), GivenRoles),
         \A q \in Callers : Singly(op[q].prompts, GivenRoles), 0 \notin Given(Saving(run)),
         o.pc # "preflight", GoesOn(p, o), NEW e \in Nat, Becomes(e),
         run' = run, steering' = steering, followUps' = followUps, cleared' = cleared,
         unheard' = unheard, sent' = n
  PROVE  /\ Delivery' /\ \A q \in Callers : op'[q] \in Ops /\ (q # p => op'[q] = op[q])
         /\ op' \in [Callers -> Ops] /\ OpFormed(op'[p]) /\ nextTurn' \in Seq(Inputs)
         /\ op'[p].pc # "running"
<1>0. op \in [Callers -> Ops] /\ nextTurn \in Seq(Inputs)
  BY DEF Typed
<1> DEFINE T == Cells'
<1>1. /\ T[1] = Preps' /\ T[2] = Given(nextTurn') /\ T[3] = Given(steering')
      /\ T[4] = Given(followUps') /\ T[5] = Given(Coming(run')) /\ T[6] = Given(Saving(run'))
      /\ T[7] = Given(log') \ {0} /\ T[8] = cleared'
  BY CellsAreThen
<1> HIDE DEF T
<1>2. /\ Given(log') = Given(log)
      /\ Given(messages') \subseteq Given(messages) \cup C[7] \cup {0}
  <2>1. PICK v : Become(v) /\ Stays(Now, v)
    BY DEF Becomes
  <2> QED BY <2>1 DEF Become, Stays, Now, Given
<1>3. T[3] = C[3] /\ T[4] = C[4] /\ T[5] = C[5] /\ T[6] = C[6] /\ T[7] = C[7] /\ T[8] = C[8]
  BY <1>1, <1>2
<1>4. ASSUME NEW q, op' = [op EXCEPT ![p] = q], q \in Ops, OpFormed(q), Singly(q.prompts, GivenRoles),
             Others(p) \cap Prep(q) = {}, nextTurn' \in Seq(Inputs), Singly(nextTurn', GivenRoles),
             q.pc # "running", Whole(T, n, ~unheard, Given(messages'))
      PROVE  /\ Delivery' /\ \A r \in Callers : op'[r] \in Ops /\ (r # p => op'[r] = op[r])
             /\ op' \in [Callers -> Ops] /\ OpFormed(op'[p]) /\ nextTurn' \in Seq(Inputs)
             /\ op'[p].pc # "running"
  <2>1. /\ op' \in [Callers -> Ops] /\ op'[p] = q /\ \A r \in Callers \ {p} : op'[r] = op[r]
        /\ \A r \in Callers : op'[r] \in Ops
    BY <1>0, <1>4
  <2>2. \A r, s \in Callers : r # s => Prep(op'[r]) \cap Prep(op'[s]) = {}
    BY <1>0, <1>4, ApartThen
  <2>3. \A r \in Callers : Singly(op'[r].prompts, GivenRoles)
    BY <1>4, <2>1
  <2>4. Whole(Cells', sent', ~unheard', Given(messages'))
    BY <1>4 DEF T
  <2>5. /\ Singly(steering', GivenRoles) /\ Singly(followUps', GivenRoles)
        /\ Singly(Coming(run'), GivenRoles) /\ 0 \notin Given(Saving(run'))
    OBVIOUS
  <2>6. Delivery'
    BY <1>4, <2>2, <2>3, <2>4, <2>5 DEF Delivery, Given, Told, Prep, Singly, Coming, Saving
  <2> QED BY <1>4, <2>1, <2>6
<1>5. CASE Ends(p, o)
  <2>1. /\ op' = [op EXCEPT ![p] = IdleOp] /\ nextTurn' = nextTurn /\ o.stage = "main"
    BY <1>5 DEF Ends
  <2>2. /\ IdleOp \in Ops /\ IdleOp.prompts = <<>> /\ IdleOp.pc = "idle" /\ OpFormed(IdleOp)
        /\ Prep(IdleOp) = {}
    BY NothingGiven DEF IdleOp, Ops, OpPcs, Lasts, Whys, OpFormed, Prep
  <2>3. Preps' = Others(p)
    <3>1. Preps' = Others(p) \cup Prep(IdleOp)
      BY <1>0, <2>1, PrepsThen
    <3> QED BY <2>2, <3>1
  <2>4. Prep(o) = {}
    BY <2>1 DEF Prep
  <2>5. \A a \in 1..8 : T[a] = C[a]
    <3>1. T[1] = C[1]
      BY <1>1, <2>3, <2>4
    <3>2. T[2] = C[2]
      BY <1>1, <2>1
    <3>3. Alike(C, T)
      BY <1>3, <3>1, <3>2 DEF Alike
    <3> QED BY <3>3, AllEight
  <2>6. Whole(T, n, ~unheard, Given(messages'))
    BY <1>2, <2>5, CellsSame
  <2> QED BY <1>0, <1>4, <2>1, <2>2, <2>6, NothingGiven
<1>6. CASE Builds(p, o)
  <2> DEFINE q == [o EXCEPT !.stage = "main", !.pc = "preflight",
                            !.prompts = <<User(o.n, "prompt")>> \o nextTurn]
             D == [i \in 1..8 |-> IF i = 1 THEN C[1] \cup C[2] ELSE IF i = 2 THEN {} ELSE C[i]]
  <2>1. op' = [op EXCEPT ![p] = q] /\ nextTurn' = <<>> /\ o.stage \in {"check", "pre"}
    BY <1>6 DEF Builds
  <2>2. Prep(o) = {o.n}
    BY <2>1 DEF Prep
  <2>3. o.n \in C[1] /\ o.n \in 1..n /\ C[1] \cap C[2] = {}
    <3>1. o.n \in C[1]
      BY <2>2
    <3>2. 1 \in 1..8 /\ 2 \in 1..8
      OBVIOUS
    <3> QED BY <3>1, <3>2 DEF Whole
  <2>4. o.n > 0 /\ o.n \notin Given(nextTurn)
    BY <2>3
  <2>5. /\ q \in Ops /\ OpFormed(q) /\ Prep(q) = {o.n} \cup Given(nextTurn)
        /\ q.prompts = <<User(o.n, "prompt")>> \o nextTurn
        /\ Singly(q.prompts, GivenRoles)
    BY <1>0, <2>4, BuiltIs
  <2>50. q.pc # "running"
    BY DEF Ops
  <2> HIDE DEF q
  <2>6. Preps' = Others(p) \cup Prep(q)
    BY <1>0, <2>1, PrepsThen
  <2>7. Others(p) \cap Prep(q) = {}
    BY <2>2, <2>3, <2>5 DEF Apart
  <2>8. Moves(C, D, 2, 1, C[2])
    BY DEF Moves
  <2>9. Whole(D, n, ~unheard, Given(messages))
    BY <2>8, CellsMove
  <2>10. D[6] = C[6] /\ D[7] = C[7] /\ D[8] = C[8]
    OBVIOUS
  <2>11. \A a \in 1..8 : T[a] = D[a]
    <3>1. T[1] = C[1] \cup C[2]
      BY <1>1, <2>2, <2>5, <2>6
    <3>2. T[2] = {}
      BY <1>1, <2>1, NothingGiven
    <3>3. D[1] = C[1] \cup C[2] /\ D[2] = {} /\ \A a \in 3..8 : D[a] = C[a]
      OBVIOUS
    <3> HIDE DEF D
    <3>4. D[3] = C[3] /\ D[4] = C[4] /\ D[5] = C[5] /\ D[6] = C[6] /\ D[7] = C[7] /\ D[8] = C[8]
      BY <3>3
    <3>5. Alike(D, T)
      BY <1>3, <3>1, <3>2, <3>3, <3>4 DEF Alike
    <3> QED BY <3>5, AllEight
  <2> HIDE DEF D
  <2>12. Whole(T, n, ~unheard, Given(messages'))
    BY <1>2, <2>9, <2>10, <2>11, CellsSame
  <2> QED BY <1>4, <2>1, <2>5, <2>50, <2>7, <2>12, NothingGiven
<1>7. CASE Waits(p, o)
  <2>1. PICK q \in Ops :
          /\ op' = [op EXCEPT ![p] = q]
          /\ q.n = o.n /\ q.pc \notin {"idle", "preflight", "running"} /\ OpFormed(q)
          /\ q.stage \in {"check", "pre"} <=> o.stage \in {"check", "pre"}
    BY <1>7 DEF Waits
  <2>2. nextTurn' = nextTurn
    BY <1>7 DEF Waits
  <2>3. Prep(q) = Prep(o) /\ q.prompts = <<>>
    BY <2>1 DEF Prep, OpFormed
  <2>4. Preps' = Others(p) \cup Prep(o)
    <3>1. Preps' = Others(p) \cup Prep(q)
      BY <1>0, <2>1, PrepsThen
    <3> QED BY <2>3, <3>1
  <2>5. \A a \in 1..8 : T[a] = C[a]
    <3>1. T[1] = C[1]
      BY <1>1, <2>4
    <3>2. T[2] = C[2]
      BY <1>1, <2>2
    <3>3. Alike(C, T)
      BY <1>3, <3>1, <3>2 DEF Alike
    <3> QED BY <3>3, AllEight
  <2>6. Whole(T, n, ~unheard, Given(messages'))
    BY <1>2, <2>5, CellsSame
  <2> QED BY <1>0, <1>4, <2>1, <2>2, <2>3, <2>6, NothingGiven DEF Apart
<1> QED BY <1>5, <1>6, <1>7 DEF GoesOn

LEMMA FitsLonger ==
  ASSUME NEW w, NEW e \in Nat, NEW f \in Nat, e <= f, Fits(w, e)
  PROVE  Fits(w, f)
<1>1. 0..e \subseteq 0..f
  OBVIOUS
<1> QED BY <1>1 DEF Fits

LEMMA BuildGoes ==
  ASSUME NEW p \in Callers, NEW o \in Ops, o.stage \in {"check", "pre"}, NEW w, NEW e \in Nat,
         Fits(w, e), Stays(Now, w), BuildPrompt(p, o, w)
  PROVE  GoesOn(p, o) /\ Becomes(e)
<1> DEFINE prompts == <<User(o.n, "prompt")>> \o nextTurn
<1>1. Become(w) /\ nextTurn' = <<>>
  BY DEF BuildPrompt
<1>2. op' = [op EXCEPT ![p] = [[o EXCEPT !.stage = "main", !.prompts = prompts] EXCEPT !.pc = "preflight"]]
  BY DEF BuildPrompt, Set
<1> HIDE DEF prompts
<1>3. [[o EXCEPT !.stage = "main", !.prompts = prompts] EXCEPT !.pc = "preflight"]
        = [o EXCEPT !.stage = "main", !.pc = "preflight", !.prompts = prompts]
  BY DEF Ops
<1>4. Builds(p, o)
  BY <1>1, <1>2, <1>3 DEF Builds, prompts
<1>5. Becomes(e)
  BY <1>1 DEF Becomes
<1> QED BY <1>4, <1>5 DEF GoesOn

LEMMA IdleGoes ==
  ASSUME NEW p \in Callers, NEW o \in Ops, o.stage = "main", NEW w, NEW e \in Nat,
         Fits(w, e), Stays(Now, w), Idle(p, w)
  PROVE  GoesOn(p, o) /\ Becomes(e)
BY DEF Idle, GoesOn, Ends, Becomes

LEMMA WaitGoes ==
  ASSUME NEW p \in Callers, NEW o \in Ops, o.prompts = <<>>, NEW q \in Ops, q.n = o.n,
         q.prompts = <<>>, q.stage \in {"check", "pre"} <=> o.stage \in {"check", "pre"},
         NEW pc \in {"continue", "sleeping", "preparing", "compacting"},
         q.stage = "check" => pc \in {"preparing", "compacting"},
         pc = "compacting" => q.kept > 0,
         NEW w, NEW e \in Nat, Fits(w, e), Stays(Now, w), Become(w), Set(p, q, pc),
         nextTurn' = nextTurn
  PROVE  GoesOn(p, o) /\ Becomes(e)
<1> DEFINE r == [q EXCEPT !.pc = pc]
<1>1. op' = [op EXCEPT ![p] = r]
  BY DEF Set
<1>2. /\ r \in Ops /\ r.pc = pc /\ r.n = o.n /\ r.prompts = <<>> /\ r.stage = q.stage
      /\ r.kept = q.kept
  BY DEF Ops, OpPcs
<1> HIDE DEF r
<1>3. r.pc \notin {"idle", "preflight", "running"} /\ OpFormed(r)
  BY <1>2 DEF OpFormed
<1>4. Waits(p, o)
  BY <1>1, <1>2, <1>3 DEF Waits
<1>5. Becomes(e)
  BY DEF Becomes
<1> QED BY <1>4, <1>5 DEF GoesOn

LEMMA NoMoreGoes ==
  ASSUME NEW p \in Callers, NEW o \in Ops, o.prompts = <<>>, NEW w, NEW e \in Nat,
         Fits(w, e), Stays(Now, w), NoMore(p, o, w)
  PROVE  GoesOn(p, o) /\ Becomes(e)
<1>0. o.stage \in {"check", "pre", "main"}
  BY DEF Ops
<1>1. Fits(Flush(w), e) /\ Stays(Now, Flush(w))
  BY FlushFits, StaysStays
<1>2. CASE o.stage = "check"
  <2>1. BuildPrompt(p, o, w)
    BY <1>2 DEF NoMore
  <2> QED BY <1>2, <2>1, BuildGoes
<1>3. CASE o.stage # "check" /\ Queued
  <2>1. Become(w) /\ Set(p, o, "continue") /\ nextTurn' = nextTurn
    BY <1>3 DEF NoMore
  <2> QED BY <1>3, <2>1, WaitGoes
<1>4. CASE o.stage = "pre" /\ ~Queued
  <2>1. BuildPrompt(p, o, Flush(w))
    BY <1>4 DEF NoMore
  <2> QED BY <1>1, <1>4, <2>1, BuildGoes
<1>5. CASE o.stage = "main" /\ ~Queued
  <2>1. Idle(p, Flush(w))
    BY <1>5 DEF NoMore
  <2> QED BY <1>1, <1>5, <2>1, IdleGoes
<1> QED BY <1>0, <1>2, <1>3, <1>4, <1>5

LEMMA GoOnGoes ==
  ASSUME NEW p \in Callers, NEW o \in Ops, o.prompts = <<>>, NEW w, NEW e \in Nat,
         Fits(w, e), Stays(Now, w), GoOn(p, o, w)
  PROVE  GoesOn(p, o) /\ Becomes(e)
<1> DEFINE q == [o EXCEPT !.stage = IF @ = "check" THEN "pre" ELSE @]
<1>1. Become(w) /\ Set(p, q, "continue") /\ nextTurn' = nextTurn
  BY DEF GoOn
<1>2. /\ q \in Ops /\ q.n = o.n /\ q.prompts = <<>> /\ q.stage # "check"
      /\ q.stage \in {"check", "pre"} <=> o.stage \in {"check", "pre"}
  BY DEF Ops
<1> HIDE DEF q
<1> QED BY <1>1, <1>2, WaitGoes

LEMMA CheckGoes ==
  ASSUME NEW p \in Callers, NEW o \in Ops, o.prompts = <<>>, NEW w, extras \in Nat,
         Fits(w, extras), Stays(Now, w), NEW msg, NEW skipAborted,
         CheckCompaction(p, o, msg, skipAborted, w)
  PROVE  GoesOn(p, o) /\ extras' \in Nat /\ Becomes(extras')
<1>1. PICK ask \in Asks(msg, skipAborted, w) :
        LET kept == IF ask = "overflow" THEN [w EXCEPT !.messages = DropAnswer(@)] ELSE w IN
          /\ IF ask = "nothing" THEN NoMore(p, o, kept)
             ELSE /\ Become(kept)
                  /\ Set(p, [o EXCEPT !.why = ask], "preparing")
                  /\ UNCHANGED nextTurn
          /\ extras' = IF ask = "threshold" THEN extras + 1 ELSE extras
  BY DEF CheckCompaction
<1> DEFINE kept == IF ask = "overflow" THEN [w EXCEPT !.messages = DropAnswer(@)] ELSE w
<1>2. extras' \in Nat /\ extras <= extras'
  <2>1. extras' = IF ask = "threshold" THEN extras + 1 ELSE extras
    BY <1>1
  <2> QED BY <2>1
<1>3. Fits(kept, extras) /\ Stays(Now, kept)
  BY DropFits, StaysStays
<1>4. Fits(kept, extras')
  <2> HIDE DEF kept
  <2> QED BY <1>2, <1>3, FitsLonger
<1>5. CASE ask # "nothing"
  <2> DEFINE q == [o EXCEPT !.why = ask]
  <2>1. Become(kept) /\ Set(p, q, "preparing") /\ nextTurn' = nextTurn
    BY <1>1, <1>5
  <2>2. ask \in Whys
    BY <1>5 DEF Asks, Whys
  <2>3. q \in Ops /\ q.n = o.n /\ q.prompts = <<>> /\ q.stage = o.stage
    BY <2>2 DEF Ops
  <2> HIDE DEF q, kept
  <2> QED BY <1>2, <1>3, <1>4, <2>1, <2>3, WaitGoes
<1>6. CASE ask = "nothing"
  <2>1. NoMore(p, o, kept)
    BY <1>1, <1>6
  <2> HIDE DEF kept
  <2> QED BY <1>2, <1>3, <1>4, <2>1, NoMoreGoes
<1> QED BY <1>5, <1>6

(* What a call does once a run or a compaction is over keeps the invariant.  *)
LEMMA BecomesFits ==
  ASSUME NEW e \in Nat, Becomes(e)
  PROVE  Fits(Now', e)
<1>1. PICK v : Become(v) /\ Fits(v, e)
  BY DEF Becomes
<1>2. v \in Worlds
  BY <1>1 DEF Fits
<1>3. Now' = [messages |-> v.messages, log |-> v.log, held |-> v.held]
  BY <1>1 DEF Now, Become
<1>4. Now' = v
  BY <1>2, <1>3 DEF Worlds
<1> QED BY <1>1, <1>4

LEMMA CallInv ==
  ASSUME Typed, Formed, NEW p \in Callers, op[p].pc # "running", NEW o \in Ops, NEW n \in Nat,
         NEW C, Whole(C, n, ~unheard, Given(messages)),
         C[1] = Others(p) \cup Prep(o), C[2] = Given(nextTurn),
         C[3] = Given(steering), C[4] = Given(followUps), C[5] = Given(Coming(run)),
         C[6] = Given(Saving(run)), C[7] = Given(log) \ {0}, C[8] = cleared,
         Apart(p, o), Singly(nextTurn, GivenRoles), Singly(steering, GivenRoles),
         Singly(followUps, GivenRoles), Singly(Coming(run), GivenRoles),
         \A q \in Callers : Singly(op[q].prompts, GivenRoles), 0 \notin Given(Saving(run)),
         o.pc # "preflight", GoesOn(p, o), extras' \in Nat, Becomes(extras'),
         run' = run, steering' = steering, followUps' = followUps, cleared' = cleared,
         unheard' = unheard, sent' = n, last' \in Lasts, manual' = manual, connected' = connected
  PROVE  Inv'
<1>1. /\ Delivery' /\ \A q \in Callers : op'[q] \in Ops /\ (q # p => op'[q] = op[q])
      /\ op' \in [Callers -> Ops] /\ OpFormed(op'[p]) /\ nextTurn' \in Seq(Inputs)
      /\ op'[p].pc # "running"
  BY CallGoesOn
<1>2. Fits(Now, extras)'
  BY BecomesFits DEF Fits, Worlds, Told, Singly
<1>3. Typed'
  BY <1>1 DEF Typed
<1>4. Formed'
  <2>1. RunFormed(run)'
    BY DEF Formed, RunFormed
  <2>2. Active' => run'.owner \in Callers /\ op'[run'.owner].pc = "running"
    BY <1>1 DEF Formed, Active
  <2>3. \A q \in Callers : OpFormed(op'[q])
    BY <1>1 DEF Formed
  <2>4. run'.pc = "save" => run'.heard \/ unheard'
    BY DEF Formed
  <2>5. manual'.pc = "compacting" => manual'.kept > 0
    BY DEF Formed
  <2> QED BY <2>1, <2>2, <2>3, <2>4, <2>5 DEF Formed, OpFormed
<1> QED BY <1>1, <1>2, <1>3, <1>4 DEF Inv

(* A call takes such a step on its own.                                      *)
Continues(p) ==
  /\ op[p].pc \notin {"running", "preflight"}
  /\ \E o \in Ops : /\ o.n = op[p].n /\ o.stage = op[p].stage /\ o.pc # "preflight"
                    /\ GoesOn(p, o)
  /\ extras' \in Nat /\ Becomes(extras')
  /\ run' = run /\ steering' = steering /\ followUps' = followUps /\ cleared' = cleared
  /\ unheard' = unheard /\ sent' = sent /\ last' \in Lasts /\ manual' = manual
  /\ connected' = connected

LEMMA OpInv == ASSUME Inv, NEW p \in Callers, Continues(p) PROVE Inv'
<1>1. PICK o \in Ops : /\ o.n = op[p].n /\ o.stage = op[p].stage /\ o.pc # "preflight"
                      /\ GoesOn(p, o)
  BY DEF Continues
<1>2. /\ op[p].pc \notin {"running", "preflight"} /\ extras' \in Nat /\ Becomes(extras')
       /\ run' = run /\ steering' = steering /\ followUps' = followUps /\ cleared' = cleared
       /\ unheard' = unheard /\ sent' = sent /\ last' \in Lasts /\ manual' = manual
       /\ connected' = connected
  BY DEF Continues
<1>3. Typed /\ Formed /\ Delivery
  BY DEF Inv
<1> DEFINE C == Cells
<1>4. /\ C[1] = Preps /\ C[2] = Given(nextTurn) /\ C[3] = Given(steering)
      /\ C[4] = Given(followUps) /\ C[5] = Given(Coming(run)) /\ C[6] = Given(Saving(run))
      /\ C[7] = Given(log) \ {0} /\ C[8] = cleared
  BY CellsAre
<1>5. Whole(C, sent, ~unheard, Given(messages))
  BY <1>3 DEF Delivery
<1> HIDE DEF C
<1>6. Prep(o) = Prep(op[p])
  BY <1>1, <1>2 DEF Prep
<1>7. Preps = Others(p) \cup Prep(op[p])
  BY DEF Preps, Others
<1>8. C[1] = Others(p) \cup Prep(o)
  BY <1>4, <1>6, <1>7
<1>9. Apart(p, o)
  <2>1. \A q, r \in Callers : q # r => Prep(op[q]) \cap Prep(op[r]) = {}
    BY <1>3 DEF Delivery
  <2>2. Apart(p, op[p])
    BY <2>1, ApartNow
  <2> QED BY <1>6, <2>2 DEF Apart
<1>10. /\ Singly(nextTurn, GivenRoles) /\ Singly(steering, GivenRoles)
      /\ Singly(followUps, GivenRoles) /\ Singly(Coming(run), GivenRoles)
      /\ \A q \in Callers : Singly(op[q].prompts, GivenRoles)
      /\ 0 \notin Given(Saving(run))
  BY <1>3 DEF Delivery
<1>11. sent \in Nat
  BY <1>3 DEF Typed
<1> QED BY <1>1, <1>3, <1>2, <1>4, <1>5, <1>8, <1>9, <1>10, <1>11, CallInv

LEMMA NowFits ==
  ASSUME Inv
  PROVE  /\ Fits(Now, extras) /\ Stays(Now, Now) /\ extras \in Nat
         /\ \A p \in Callers : op[p] \in Ops /\ OpFormed(op[p])
BY DEF Inv, Stays, Typed, Formed

LEMMA AfterRunContinues ==
  ASSUME Inv, NEW p \in Callers, AfterRun(p)
  PROVE  Continues(p)
<1>1. op[p].pc = "postRun" /\ last' = NoMessage /\ UNCHANGED elsewhere
  BY DEF AfterRun
<1>2. /\ Fits(Now, extras) /\ Stays(Now, Now) /\ extras \in Nat /\ op[p] \in Ops
      /\ op[p].prompts = <<>> /\ op[p].stage # "check" /\ last \in Lasts
  BY <1>1, NowFits DEF Inv, Typed, OpFormed
<1>3. /\ run' = run /\ steering' = steering /\ followUps' = followUps /\ cleared' = cleared
      /\ unheard' = unheard /\ sent' = sent /\ last' \in Lasts /\ manual' = manual
      /\ connected' = connected
  BY <1>1 DEF elsewhere, Lasts
<1>4. CASE last = NoMessage
  <2>1. /\ IF op[p].stage = "pre" THEN BuildPrompt(p, op[p], Flush(Now))
           ELSE Idle(p, Flush(Now))
        /\ extras' = extras
    BY <1>4 DEF AfterRun
  <2>2. Fits(Flush(Now), extras) /\ Stays(Now, Flush(Now))
    BY <1>2, FlushFits
  <2>3. GoesOn(p, op[p]) /\ Becomes(extras)
    <3>1. CASE op[p].stage = "pre"
      BY <1>2, <2>1, <2>2, <3>1, BuildGoes
    <3>2. CASE op[p].stage # "pre"
      <4>1. op[p].stage = "main"
        BY <1>2, <3>2 DEF Ops
      <4> QED BY <1>2, <2>1, <2>2, <3>2, <4>1, IdleGoes
    <3> QED BY <3>1, <3>2
  <2>4. extras' \in Nat /\ Becomes(extras')
    BY <1>2, <2>1, <2>3
  <2> QED BY <1>1, <1>2, <1>3, <2>3, <2>4 DEF Continues
<1>5. CASE last # NoMessage /\ MayRetry(last)
  <2> DEFINE w == [Now EXCEPT !.messages = DropAnswer(@)]
             q == [op[p] EXCEPT !.msg = last]
  <2>1. Become(w) /\ Set(p, q, "sleeping") /\ nextTurn' = nextTurn /\ extras' = extras
    BY <1>5 DEF AfterRun
  <2>2. Fits(w, extras) /\ Stays(Now, w)
    BY <1>2, DropFits
  <2>3. q \in Ops /\ q.n = op[p].n /\ q.prompts = <<>> /\ q.stage = op[p].stage
    BY <1>2 DEF Ops
  <2> HIDE DEF w, q
  <2>4. GoesOn(p, op[p]) /\ Becomes(extras)
    BY <1>2, <2>1, <2>2, <2>3, WaitGoes
  <2>5. extras' \in Nat /\ Becomes(extras')
    BY <1>2, <2>1, <2>4
  <2> QED BY <1>1, <1>2, <1>3, <2>4, <2>5 DEF Continues
<1>6. CASE last # NoMessage /\ ~MayRetry(last)
  <2>1. CheckCompaction(p, op[p], last, TRUE, Now)
    BY <1>6 DEF AfterRun
  <2>2. GoesOn(p, op[p]) /\ extras' \in Nat /\ Becomes(extras')
    BY <1>2, <2>1, CheckGoes
  <2> QED BY <1>1, <1>2, <1>3, <2>2 DEF Continues
<1> QED BY <1>4, <1>5, <1>6

LEMMA WakeUpContinues ==
  ASSUME Inv, NEW p \in Callers, WakeUp(p)
  PROVE  Continues(p)
<1>1. /\ op[p].pc = "sleeping" /\ Set(p, op[p], "continue")
      /\ UNCHANGED <<elsewhere, messages, log, nextTurn, pendingBash, last, extras>>
  BY DEF WakeUp
<1>2. /\ Fits(Now, extras) /\ Stays(Now, Now) /\ extras \in Nat /\ op[p] \in Ops
      /\ op[p].prompts = <<>> /\ op[p].stage # "check" /\ last \in Lasts
  BY <1>1, NowFits DEF Inv, Typed, OpFormed
<1>3. /\ run' = run /\ steering' = steering /\ followUps' = followUps /\ cleared' = cleared
      /\ unheard' = unheard /\ sent' = sent /\ last' \in Lasts /\ manual' = manual
      /\ connected' = connected
  BY <1>1, <1>2 DEF elsewhere
<1>4. Become(Now) /\ nextTurn' = nextTurn /\ extras' = extras
  BY <1>1 DEF Become, Now
<1>5. GoesOn(p, op[p]) /\ Becomes(extras)
  BY <1>1, <1>2, <1>4, WaitGoes
<1>6. extras' \in Nat /\ Becomes(extras')
  BY <1>2, <1>4, <1>5
<1> QED BY <1>1, <1>2, <1>3, <1>5, <1>6 DEF Continues

LEMMA RetryCancelledContinues ==
  ASSUME Inv, NEW p \in Callers, RetryCancelled(p)
  PROVE  Continues(p)
<1> DEFINE o == [op[p] EXCEPT !.quiet = FALSE]
<1>1. /\ op[p].pc = "sleeping" /\ CheckCompaction(p, o, op[p].msg, TRUE, Now)
      /\ UNCHANGED <<elsewhere, last>>
  BY DEF RetryCancelled
<1>2. /\ Fits(Now, extras) /\ Stays(Now, Now) /\ extras \in Nat /\ op[p] \in Ops
      /\ op[p].prompts = <<>> /\ op[p].stage # "check" /\ last \in Lasts
  BY <1>1, NowFits DEF Inv, Typed, OpFormed
<1>3. /\ o \in Ops /\ o.n = op[p].n /\ o.stage = op[p].stage /\ o.prompts = <<>>
      /\ o.pc # "preflight"
  BY <1>1, <1>2 DEF Ops
<1> HIDE DEF o
<1>4. /\ run' = run /\ steering' = steering /\ followUps' = followUps /\ cleared' = cleared
      /\ unheard' = unheard /\ sent' = sent /\ last' \in Lasts /\ manual' = manual
      /\ connected' = connected
  BY <1>1, <1>2 DEF elsewhere
<1>5. GoesOn(p, o) /\ extras' \in Nat /\ Becomes(extras')
  BY <1>1, <1>2, <1>3, CheckGoes
<1> QED BY <1>1, <1>3, <1>4, <1>5 DEF Continues

LEMMA AutoCompactionPreparedContinues ==
  ASSUME Inv, NEW p \in Callers, AutoCompactionPrepared(p)
  PROVE  Continues(p)
<1>1. /\ op[p].pc = "preparing"
      /\ UNCHANGED <<elsewhere, messages, log, nextTurn, pendingBash, last, extras>>
  BY DEF AutoCompactionPrepared
<1>2. PICK k \in CutPoints(log) : Set(p, [op[p] EXCEPT !.kept = k], "compacting")
  BY DEF AutoCompactionPrepared
<1>3. /\ Fits(Now, extras) /\ Stays(Now, Now) /\ extras \in Nat /\ op[p] \in Ops
      /\ op[p].prompts = <<>> /\ last \in Lasts
  BY <1>1, NowFits DEF Inv, Typed, OpFormed
<1>4. k \in Nat \ {0}
  <2>1. log \in Seq(Records)
    BY <1>3 DEF Fits, Worlds, Now
  <2> QED BY <1>2, <2>1, CutPointsAre
<1>5. /\ run' = run /\ steering' = steering /\ followUps' = followUps /\ cleared' = cleared
      /\ unheard' = unheard /\ sent' = sent /\ last' \in Lasts /\ manual' = manual
      /\ connected' = connected
  BY <1>1, <1>3 DEF elsewhere
<1>6. Become(Now) /\ nextTurn' = nextTurn /\ extras' = extras
  BY <1>1 DEF Become, Now
<1>7. GoesOn(p, op[p]) /\ Becomes(extras)
  <2> DEFINE q == [op[p] EXCEPT !.kept = k]
  <2>1. Set(p, q, "compacting")
    BY <1>2
  <2>2. /\ q \in Ops /\ q.n = op[p].n /\ q.prompts = <<>> /\ q.stage = op[p].stage
        /\ q.kept > 0
    BY <1>3, <1>4 DEF Ops
  <2> HIDE DEF q
  <2> QED BY <1>3, <1>6, <2>1, <2>2, WaitGoes
<1>8. extras' \in Nat /\ Becomes(extras')
  BY <1>3, <1>6, <1>7
<1> QED BY <1>1, <1>3, <1>5, <1>7, <1>8 DEF Continues

LEMMA AutoCompactedContinues ==
  ASSUME Inv, NEW p \in Callers, AutoCompacted(p) \/ AutoCompactionFails(p)
  PROVE  Continues(p)
<1>1. op[p].pc \in {"preparing", "compacting"} /\ UNCHANGED <<elsewhere, last, extras>>
  BY DEF AutoCompacted, AutoCompactionFails
<1>2. /\ Fits(Now, extras) /\ Stays(Now, Now) /\ extras \in Nat /\ op[p] \in Ops
      /\ op[p].prompts = <<>> /\ last \in Lasts
  BY <1>1, NowFits DEF Inv, Typed, OpFormed
<1>3. /\ run' = run /\ steering' = steering /\ followUps' = followUps /\ cleared' = cleared
      /\ unheard' = unheard /\ sent' = sent /\ last' \in Lasts /\ manual' = manual
      /\ connected' = connected /\ extras' = extras
  BY <1>1, <1>2 DEF elsewhere
<1>4. GoesOn(p, op[p]) /\ Becomes(extras)
  <2>1. CASE AutoCompacted(p)
    <3> DEFINE w == Compacted(op[p].kept, Now)
               v == [w EXCEPT !.messages = DropAnswer(@)]
    <3>1. op[p].kept \in Nat \ {0}
      BY <1>2, <2>1, NowFits DEF AutoCompacted, OpFormed, Ops
    <3>2. Fits(w, extras) /\ Stays(Now, w)
      BY <1>2, <3>1, CompactedFits
    <3>3. Fits(v, extras) /\ Stays(Now, v)
      <4>1. Fits(v, extras) /\ Stays(w, v)
        <5> HIDE DEF w
        <5> QED BY <1>2, <3>2, DropFits
      <4> HIDE DEF v, w
      <4> QED BY <3>2, <4>1, StaysStays
    <3>4. GoOn(p, op[p], v) \/ GoOn(p, op[p], w) \/ NoMore(p, op[p], w)
      BY <2>1 DEF AutoCompacted
    <3> HIDE DEF v, w
    <3> QED BY <1>2, <3>2, <3>3, <3>4, GoOnGoes, NoMoreGoes
  <2>2. CASE AutoCompactionFails(p)
    <3>1. NoMore(p, op[p], Now)
      BY <2>2 DEF AutoCompactionFails
    <3> QED BY <1>2, <3>1, NoMoreGoes
  <2> QED BY <2>1, <2>2
<1>5. extras' \in Nat /\ Becomes(extras')
  BY <1>2, <1>3, <1>4
<1> QED BY <1>1, <1>2, <1>3, <1>4, <1>5 DEF Continues

-----------------------------------------------------------------------------
(* The steps of a run.                                                       *)

LEMMA FitsThen ==
  ASSUME NEW e, e = extras', Fits(Now', e)
  PROVE  Fits(Now, extras)'
BY DEF Fits, Worlds, Told, Singly

LEMMA FitsStill ==
  ASSUME Inv, messages' = messages, log' = log, pendingBash' = pendingBash, extras' \in Nat,
         extras <= extras'
  PROVE  Fits(Now, extras)'
<1>1. Now' = Now
  BY DEF Now
<1>2. Fits(Now, extras) /\ extras \in Nat
  BY DEF Inv, Typed
<1>3. Fits(Now, extras')
  BY <1>2, FitsLonger
<1> QED BY <1>1, <1>3, FitsThen

LEMMA DeliveryThen ==
  ASSUME NEW T, T = Cells', Whole(T, sent', ~unheard', Given(messages')),
         \A p, q \in Callers : p # q => Prep(op'[p]) \cap Prep(op'[q]) = {},
         Singly(nextTurn', GivenRoles), Singly(steering', GivenRoles),
         Singly(followUps', GivenRoles), Singly(Coming(run'), GivenRoles),
         \A p \in Callers : Singly(op'[p].prompts, GivenRoles), 0 \notin Given(Saving(run'))
  PROVE  Delivery'
BY DEF Delivery, Given, Told, Prep, Singly, Coming, Saving

LEMMA OpsStill ==
  ASSUME Delivery, op' = op
  PROVE  /\ Preps' = Preps
         /\ \A p, q \in Callers : p # q => Prep(op'[p]) \cap Prep(op'[q]) = {}
         /\ \A p \in Callers : Singly(op'[p].prompts, GivenRoles)
<1>1. Preps' = Preps
  BY DEF Preps, Prep, Given, Told
<1> QED BY <1>1 DEF Delivery

LEMMA FormedThen ==
  ASSUME RunFormed(run'), run'.pc # "none" => run'.owner \in Callers /\ op'[run'.owner].pc = "running",
         run'.pc = "save" => run'.heard \/ unheard', \A p \in Callers : OpFormed(op'[p]),
         manual'.pc = "compacting" => manual'.kept > 0
  PROVE  Formed'
BY DEF Formed, RunFormed, OpFormed, Active

(* What is out when, and what a run that delivers is.                        *)
LEMMA OutIs ==
  ASSUME Inv
  PROVE  /\ run \in Runs /\ RunFormed(run) /\ run.out \in Seq(Outs)
         /\ ~Active => run.out = <<>> /\ Coming(run) = <<>> /\ Saving(run) = <<>>
         /\ run.pc # "save" => Coming(run) = run.out /\ Saving(run) = <<>>
         /\ run.pc \in Thens => run.out = <<>>
<1>1. run \in Runs /\ RunFormed(run)
  BY DEF Inv, Typed, Formed
<1> QED BY <1>1 DEF Runs, RunFormed, Coming, Saving, Active, Thens

LEMMA MessageStartKeeps == ASSUME Inv, MessageStart PROVE Inv'
<1>1. /\ run.pc = "start" /\ run' = [run EXCEPT !.pc = "end"] /\ op' = op /\ manual' = manual
      /\ messages' = messages /\ log' = log /\ pendingBash' = pendingBash
      /\ steering' = steering /\ followUps' = followUps /\ nextTurn' = nextTurn
      /\ last' = last /\ connected' = connected /\ sent' = sent /\ extras' = extras
      /\ cleared' = cleared /\ (unheard' = unheard \/ unheard' = TRUE)
  BY DEF MessageStart
<1>2. Typed /\ Formed /\ Delivery
  BY DEF Inv
<1>3. run \in Runs /\ RunFormed(run) /\ Coming(run) = run.out /\ Saving(run) = <<>>
  BY <1>1, OutIs
<1>4. /\ run' \in Runs /\ run'.pc = "end" /\ run'.out = run.out /\ run'.owner = run.owner
      /\ run'.then = run.then
  BY <1>1, <1>3 DEF Runs, RunPcs
<1>5. Typed'
  BY <1>1, <1>2, <1>4 DEF Typed
<1>6. RunFormed(run') /\ Coming(run') = run.out /\ Saving(run') = <<>>
  BY <1>1, <1>3, <1>4 DEF RunFormed, Coming, Saving
<1>7. Formed'
  BY <1>1, <1>2, <1>4, <1>6, FormedThen DEF Formed, Active
<1>8. Fits(Now, extras)'
  BY <1>1, <1>2, FitsStill DEF Typed
<1> DEFINE T == Cells'
           C == Cells
<1>9. /\ C[1] = Preps /\ C[2] = Given(nextTurn) /\ C[3] = Given(steering)
      /\ C[4] = Given(followUps) /\ C[5] = Given(Coming(run)) /\ C[6] = Given(Saving(run))
      /\ C[7] = Given(log) \ {0} /\ C[8] = cleared
  BY CellsAre
<1>10. /\ T[1] = Preps' /\ T[2] = Given(nextTurn') /\ T[3] = Given(steering')
       /\ T[4] = Given(followUps') /\ T[5] = Given(Coming(run')) /\ T[6] = Given(Saving(run'))
       /\ T[7] = Given(log') \ {0} /\ T[8] = cleared'
  BY CellsAreThen
<1>11. Whole(C, sent, ~unheard, Given(messages))
  BY <1>2 DEF Delivery
<1> HIDE DEF T, C
<1>12. Alike(C, T)
  BY <1>1, <1>2, <1>3, <1>6, <1>9, <1>10, OpsStill DEF Alike
<1>13. Whole(T, sent', ~unheard', Given(messages'))
  BY <1>1, <1>2, <1>11, <1>12, AllEight, CellsSame DEF Typed
<1>14. Delivery'
  <2>1. T = Cells'
    BY DEF T
  <2> QED BY <1>1, <1>2, <1>3, <1>6, <1>13, <2>1, OpsStill, DeliveryThen DEF Delivery
<1> QED BY <1>5, <1>7, <1>8, <1>14 DEF Inv

(* One message of what a run has to deliver.                                 *)
LEMMA HeadOut ==
  ASSUME Inv, run.out # <<>>
  PROVE  /\ run.out[1] \in Outs /\ run.out[1] \in Records /\ Tail(run.out) \in Seq(Outs)
         /\ <<run.out[1]>> \in Seq(Records) /\ 0 \notin Given(<<run.out[1]>>)
         /\ Given(run.out) = Given(<<run.out[1]>>) \cup Given(Tail(run.out))
         /\ Singly(run.out, GivenRoles) =>
              /\ Singly(Tail(run.out), GivenRoles)
              /\ Given(<<run.out[1]>>) \cap Given(Tail(run.out)) = {}
<1>1. run.out \in Seq(Outs) /\ Outs \in {Inputs, Outs, Records}
  BY OutIs
<1> DEFINE s == run.out
<1> HIDE DEF s
<1>2. /\ s[1] \in Outs /\ Tail(s) \in Seq(Outs)
      /\ Told(s, GivenRoles) = Told(<<s[1]>>, GivenRoles) \cup Told(Tail(s), GivenRoles)
      /\ Singly(s, GivenRoles) =>
           /\ Singly(Tail(s), GivenRoles)
           /\ Told(<<s[1]>>, GivenRoles) \cap Told(Tail(s), GivenRoles) = {}
  BY <1>1, HeadTold DEF s
<1>3. s[1] \in Records /\ <<s[1]>> \in Seq(Records)
  BY <1>2, InputTypes, ToldOne
<1>4. <<s[1]>> \in Seq(Outs)
  BY <1>2
<1>5. 0 \notin Given(<<s[1]>>)
  BY <1>3, <1>4, SpokenTold
<1> QED BY <1>2, <1>3, <1>5 DEF s, Given

LEMMA MessageEndKeeps == ASSUME Inv, MessageEnd PROVE Inv'
<1> DEFINE m == run.out[1]
<1>1. /\ run.pc = "end" /\ run' = [run EXCEPT !.pc = "save", !.heard = connected]
      /\ op' = op /\ manual' = manual
      /\ messages' = Append(messages, m) /\ log' = log /\ pendingBash' = pendingBash
      /\ steering' = steering /\ followUps' = followUps /\ nextTurn' = nextTurn
      /\ last' = last /\ connected' = connected /\ sent' = sent /\ extras' = extras
      /\ cleared' = cleared /\ unheard' = (unheard \/ ~connected)
  BY DEF MessageEnd
<1>2. Typed /\ Formed /\ Delivery /\ Fits(Now, extras)
  BY DEF Inv
<1>3. run \in Runs /\ RunFormed(run) /\ Coming(run) = run.out /\ Saving(run) = <<>>
  BY <1>1, OutIs
<1>30. run.out # <<>>
  BY <1>1, <1>3 DEF RunFormed
<1>4. /\ run' \in Runs /\ run'.pc = "save" /\ run'.out = run.out /\ run'.owner = run.owner
      /\ run'.heard = connected /\ run'.then = run.then
  BY <1>1, <1>2, <1>3 DEF Runs, RunPcs, Typed
<1>5. Typed'
  BY <1>1, <1>2, <1>4 DEF Typed
<1>6. RunFormed(run') /\ Coming(run') = Tail(run.out) /\ Saving(run') = <<m>>
  BY <1>1, <1>3, <1>30, <1>4 DEF RunFormed, Coming, Saving
<1>7. Formed'
  BY <1>1, <1>2, <1>4, <1>6, FormedThen DEF Formed, Active, Typed
<1>70. /\ m \in Outs /\ m \in Records /\ Tail(run.out) \in Seq(Outs) /\ 0 \notin Given(<<m>>)
       /\ Given(run.out) = Given(<<m>>) \cup Given(Tail(run.out))
       /\ Singly(Tail(run.out), GivenRoles)
       /\ Given(<<m>>) \cap Given(Tail(run.out)) = {}
  BY <1>2, <1>3, <1>30, HeadOut DEF Delivery
<1>71. messages \in Seq(Records)
  BY <1>2 DEF Fits, Worlds, Now
<1> HIDE DEF m
<1>72. /\ Append(messages, m) \in Seq(Records)
       /\ Given(Append(messages, m)) = Given(messages) \cup Given(<<m>>)
       /\ Singly(Append(messages, m), GivenRoles)
            <=> Singly(messages, GivenRoles)
                /\ (m.role \in GivenRoles => m.n \notin Told(messages, GivenRoles))
       /\ m.role \in GivenRoles => m.n \in Given(<<m>>)
  <2>1. Told(<<m>>, GivenRoles) = IF m.role \in GivenRoles THEN {m.n} ELSE {}
    BY <1>70, ToldOne
  <2>2. /\ Append(messages, m) \in Seq(Records)
        /\ Told(Append(messages, m), GivenRoles)
             = Told(messages, GivenRoles) \cup (IF m.role \in GivenRoles THEN {m.n} ELSE {})
        /\ Singly(Append(messages, m), GivenRoles)
             <=> Singly(messages, GivenRoles)
                 /\ (m.role \in GivenRoles => m.n \notin Told(messages, GivenRoles))
    BY <1>70, <1>71, ToldAppend
  <2> QED BY <2>1, <2>2 DEF Given
<1>73. /\ Told(Append(messages, m), BashRoles) = Told(messages, BashRoles)
       /\ Singly(messages, BashRoles) => Singly(Append(messages, m), BashRoles)
  <2>1. m.role \notin BashRoles
    BY <1>70 DEF Outs, BashRoles, GivenRoles
  <2>2. /\ Told(Append(messages, m), BashRoles)
             = Told(messages, BashRoles) \cup (IF m.role \in BashRoles THEN {m.n} ELSE {})
        /\ Singly(Append(messages, m), BashRoles)
             <=> Singly(messages, BashRoles)
                 /\ (m.role \in BashRoles => m.n \notin Told(messages, BashRoles))
    BY <1>70, <1>71, ToldAppend
  <2> QED BY <2>1, <2>2
<1> DEFINE T == Cells'
           C == Cells
           X == Given(<<m>>)
<1>9. /\ C[1] = Preps /\ C[2] = Given(nextTurn) /\ C[3] = Given(steering)
      /\ C[4] = Given(followUps) /\ C[5] = Given(Coming(run)) /\ C[6] = Given(Saving(run))
      /\ C[7] = Given(log) \ {0} /\ C[8] = cleared
  BY CellsAre
<1>10. /\ T[1] = Preps' /\ T[2] = Given(nextTurn') /\ T[3] = Given(steering')
       /\ T[4] = Given(followUps') /\ T[5] = Given(Coming(run')) /\ T[6] = Given(Saving(run'))
       /\ T[7] = Given(log') \ {0} /\ T[8] = cleared'
  BY CellsAreThen
<1>11. Whole(C, sent, ~unheard, Given(messages))
  BY <1>2 DEF Delivery
<1> HIDE DEF T, C
<1> DEFINE D == [i \in 1..8 |-> IF i = 5 THEN C[5] \ X ELSE IF i = 6 THEN C[6] \cup X ELSE C[i]]
<1>12. X \subseteq C[5]
  BY <1>3, <1>70, <1>9
<1>13. /\ Moves(C, D, 5, 6, X)
       /\ D[5] = C[5] \ X /\ D[6] = C[6] \cup X /\ \A c \in 1..8 : c # 5 /\ c # 6 => D[c] = C[c]
  BY <1>12 DEF Moves
<1>14. D[1] = C[1] /\ D[2] = C[2] /\ D[3] = C[3] /\ D[4] = C[4] /\ D[7] = C[7] /\ D[8] = C[8]
  BY <1>13
<1> HIDE DEF D, X
<1>15. Whole(D, sent, ~unheard, Given(messages))
  BY <1>11, <1>13, CellsMove
<1>16. T[5] = D[5]
  BY <1>3, <1>6, <1>70, <1>9, <1>10, <1>13 DEF X
<1>17. T[6] = D[6]
  BY <1>3, <1>6, <1>9, <1>10, <1>13, NothingGiven DEF X
<1>18. Alike(D, T)
  BY <1>1, <1>2, <1>9, <1>10, <1>14, <1>16, <1>17, OpsStill DEF Alike
<1>19. Given(messages') \subseteq Given(messages) \cup D[6]
  BY <1>1, <1>72, <1>13 DEF X
<1>20. \A a \in 1..8 : T[a] = D[a]
  BY <1>18, AllEight
<1>21. Whole(T, sent', ~unheard', Given(messages'))
  BY <1>1, <1>2, <1>15, <1>19, <1>20, CellsSame DEF Typed
<1>22. Delivery'
  <2>1. T = Cells'
    BY DEF T
  <2> QED BY <1>1, <1>2, <1>6, <1>70, <1>21, <2>1, OpsStill, DeliveryThen DEF Delivery
<1>23. Fits(Now', extras)
  <2>1. m.role \in GivenRoles => m.n \notin Given(messages)
    <3>1. C[5] \cap Given(messages) = {} /\ X \subseteq C[5]
      BY <1>11, <1>12 DEF Whole
    <3> QED BY <1>72, <3>1 DEF X
  <2>2. /\ Now' = [messages |-> Append(messages, m), log |-> log, held |-> pendingBash]
        /\ Now = [messages |-> messages, log |-> log, held |-> pendingBash]
    BY <1>1 DEF Now
  <2>3. Singly(Append(messages, m), GivenRoles) /\ Singly(Append(messages, m), BashRoles)
    BY <1>2, <1>72, <1>73, <2>1, <2>2 DEF Fits, Given
  <2> DEFINE a == Append(messages, m)
  <2> HIDE DEF a
  <2>4. /\ Now'.messages = a /\ Now'.log = Now.log /\ Now'.held = Now.held
        /\ Now' \in Worlds /\ Now.messages = messages
    BY <1>2, <1>72, <2>2 DEF a, Fits, Worlds
  <2>5. /\ Singly(a, GivenRoles) /\ Singly(a, BashRoles)
        /\ Told(a, BashRoles) = Told(messages, BashRoles)
    BY <1>73, <2>3 DEF a
  <2> QED BY <1>2, <2>4, <2>5 DEF Fits
<1> QED BY <1>1, <1>5, <1>7, <1>22, <1>23, FitsThen DEF Inv

Shift(C, a, b, X) ==
  [i \in 1..8 |-> IF i = a THEN C[a] \ X ELSE IF i = b THEN C[b] \cup X ELSE C[i]]
Entered(C, b, x) == [i \in 1..8 |-> IF i = b THEN C[b] \cup {x} ELSE C[i]]

LEMMA ShiftKeeps ==
  ASSUME NEW C, NEW n, NEW all, NEW M, Whole(C, n, all, M), NEW a \in 1..8, NEW b \in 1..8,
         a # b, b \in 1..5 => a \in 1..5, NEW X, X \subseteq C[a]
  PROVE  /\ Whole(Shift(C, a, b, X), n, all, M)
         /\ Shift(C, a, b, X)[a] = C[a] \ X /\ Shift(C, a, b, X)[b] = C[b] \cup X
         /\ \A c \in 1..8 : c # a /\ c # b => Shift(C, a, b, X)[c] = C[c]
<1> DEFINE D == Shift(C, a, b, X)
<1>1. /\ D[a] = C[a] \ X /\ D[b] = C[b] \cup X /\ \A c \in 1..8 : c # a /\ c # b => D[c] = C[c]
  BY DEF Shift
<1> HIDE DEF D
<1>2. Moves(C, D, a, b, X)
  BY <1>1 DEF Moves
<1>3. Whole(D, n, all, M)
  BY <1>2, CellsMove
<1> QED BY <1>1, <1>3 DEF D

LEMMA EnteredKeeps ==
  ASSUME NEW C, NEW n, NEW all, NEW M, Whole(C, n, all, M), n \in Nat
  PROVE  \A b \in 1..8 : Whole(Entered(C, b, n + 1), n + 1, all, M)
<1> SUFFICES ASSUME NEW b \in 1..8 PROVE Whole(Entered(C, b, n + 1), n + 1, all, M)
  OBVIOUS
<1> DEFINE D == Entered(C, b, n + 1)
<1>1. D[b] = C[b] \cup {n + 1} /\ \A c \in 1..8 : c # b => D[c] = C[c]
  BY DEF Entered
<1> HIDE DEF D
<1>2. Whole(D, n + 1, all, M)
  BY <1>1, CellsNew
<1> QED BY <1>2 DEF D

LEMMA EnteredIs ==
  ASSUME NEW C, NEW b \in 1..8, NEW x
  PROVE  /\ Entered(C, b, x)[b] = C[b] \cup {x}
         /\ \A c \in 1..8 : c # b => Entered(C, b, x)[c] = C[c]
BY DEF Entered

(* The cells and what they are, before a step and after it.                  *)
LEMMA CellsOf ==
  ASSUME Inv
  PROVE  \E C : /\ C = Cells /\ Whole(C, sent, ~unheard, Given(messages))
                /\ C[1] = Preps /\ C[2] = Given(nextTurn) /\ C[3] = Given(steering)
                /\ C[4] = Given(followUps) /\ C[5] = Given(Coming(run))
                /\ C[6] = Given(Saving(run)) /\ C[7] = Given(log) \ {0} /\ C[8] = cleared
BY CellsAre DEF Inv, Delivery

(* The transcript, the session and the results held back stay as they are.   *)
LEMMA AssembleAny ==
  ASSUME Inv, Typed', Formed', messages' = messages, log' = log, pendingBash' = pendingBash,
         extras <= extras', unheard' = unheard, 0 \notin Given(Saving(run')), NEW D,
         Whole(D, sent', ~unheard, Given(messages)),
         D[1] = Preps', D[2] = Given(nextTurn'), D[3] = Given(steering'),
         D[4] = Given(followUps'), D[5] = Given(Coming(run')), D[6] = Given(Saving(run')),
         D[7] = Given(log) \ {0}, D[8] = cleared',
         \A p, q \in Callers : p # q => Prep(op'[p]) \cap Prep(op'[q]) = {},
         Singly(nextTurn', GivenRoles), Singly(steering', GivenRoles),
         Singly(followUps', GivenRoles), Singly(Coming(run'), GivenRoles),
         \A p \in Callers : Singly(op'[p].prompts, GivenRoles)
  PROVE  Inv'
<1>1. Fits(Now, extras)'
  BY FitsStill DEF Typed
<1> DEFINE T == Cells'
<1>2. /\ T[1] = Preps' /\ T[2] = Given(nextTurn') /\ T[3] = Given(steering')
      /\ T[4] = Given(followUps') /\ T[5] = Given(Coming(run')) /\ T[6] = Given(Saving(run'))
      /\ T[7] = Given(log') \ {0} /\ T[8] = cleared'
  BY CellsAreThen
<1>3. T = Cells'
  OBVIOUS
<1> HIDE DEF T
<1>4. Alike(D, T)
  BY <1>2 DEF Alike
<1>5. \A a \in 1..8 : T[a] = D[a]
  BY <1>4, AllEight
<1>6. sent' \in Nat
  BY DEF Typed
<1>7. Whole(T, sent', ~unheard', Given(messages'))
  BY <1>5, <1>6, CellsSame
<1>8. Delivery'
  BY <1>3, <1>7, DeliveryThen
<1> QED BY <1>1, <1>8 DEF Inv

LEMMA Assemble ==
  ASSUME Inv, Typed', Formed', messages' = messages, log' = log, pendingBash' = pendingBash,
         extras <= extras', unheard' = unheard, Saving(run') = <<>>, NEW D,
         Whole(D, sent', ~unheard, Given(messages)),
         D[1] = Preps', D[2] = Given(nextTurn'), D[3] = Given(steering'),
         D[4] = Given(followUps'), D[5] = Given(Coming(run')), D[6] = {},
         D[7] = Given(log) \ {0}, D[8] = cleared',
         \A p, q \in Callers : p # q => Prep(op'[p]) \cap Prep(op'[q]) = {},
         Singly(nextTurn', GivenRoles), Singly(steering', GivenRoles),
         Singly(followUps', GivenRoles), Singly(Coming(run'), GivenRoles),
         \A p \in Callers : Singly(op'[p].prompts, GivenRoles)
  PROVE  Inv'
<1>1. 0 \notin Given(Saving(run')) /\ D[6] = Given(Saving(run'))
  BY NothingGiven
<1> QED BY <1>1, AssembleAny

(* The run delivers something and the callers stay where they are.           *)
LEMMA DeliverKeeps ==
  ASSUME Inv, run.pc \in Thens, NEW out \in Seq(Outs), NEW then \in Thens,
         run' = Deliver(run, out, then), op' = op, manual' = manual,
         messages' = messages, log' = log, pendingBash' = pendingBash, last' = last,
         connected' = connected, sent' = sent, unheard' = unheard, nextTurn' = nextTurn,
         cleared' = cleared, extras' \in Nat, extras <= extras',
         steering' \in Seq(Inputs), followUps' \in Seq(Inputs),
         Singly(steering', GivenRoles), Singly(followUps', GivenRoles), Singly(out, GivenRoles),
         NEW D, Whole(D, sent, ~unheard, Given(messages)),
         D[1] = Preps, D[2] = Given(nextTurn), D[3] = Given(steering'),
         D[4] = Given(followUps'), D[5] = Given(out), D[6] = {},
         D[7] = Given(log) \ {0}, D[8] = cleared
  PROVE  Inv'
<1>1. Typed /\ Formed /\ Delivery
  BY DEF Inv
<1>2. run \in Runs /\ run.pc # "none"
  BY <1>1 DEF Typed, Thens
<1>3. /\ run' \in Runs /\ RunFormed(run') /\ run'.pc \notin {"none", "save"}
      /\ run'.out = out /\ run'.owner = run.owner /\ Coming(run') = out /\ Saving(run') = <<>>
  BY <1>2, DeliverIs
<1>4. Typed'
  BY <1>1, <1>3 DEF Typed
<1>5. Formed'
  BY <1>1, <1>2, <1>3, FormedThen DEF Formed, Active
<1>6. Singly(nextTurn', GivenRoles) /\ Singly(Coming(run'), GivenRoles)
  BY <1>1, <1>3 DEF Delivery
<1>7. D[1] = Preps' /\ D[5] = Given(Coming(run'))
  BY <1>1, <1>3, OpsStill
<1>8. /\ \A p, q \in Callers : p # q => Prep(op'[p]) \cap Prep(op'[q]) = {}
      /\ \A p \in Callers : Singly(op'[p].prompts, GivenRoles)
  BY <1>1, OpsStill
<1> QED BY <1>3, <1>4, <1>5, <1>6, <1>7, <1>8, Assemble

(* Messages are taken from a queue.                                          *)
LEMMA TakenIs ==
  ASSUME Inv, NEW queue \in {steering, followUps}, NEW taken \in Drains(queue)
  PROVE  /\ taken \in Seq(Inputs) /\ taken \in Seq(Outs) /\ Rest(queue, taken) \in Seq(Inputs)
         /\ Singly(taken, GivenRoles) /\ Singly(Rest(queue, taken), GivenRoles)
         /\ Given(taken) \subseteq Given(queue)
         /\ Given(Rest(queue, taken)) = Given(queue) \ Given(taken)
<1>1. queue \in Seq(Inputs) /\ Singly(queue, GivenRoles)
  BY DEF Inv, Typed, Delivery
<1>2. /\ taken \in Seq(Inputs) /\ Rest(queue, taken) \in Seq(Inputs)
      /\ Told(queue, GivenRoles) = Told(taken, GivenRoles) \cup Told(Rest(queue, taken), GivenRoles)
      /\ Singly(taken, GivenRoles) /\ Singly(Rest(queue, taken), GivenRoles)
      /\ Told(taken, GivenRoles) \cap Told(Rest(queue, taken), GivenRoles) = {}
  BY <1>1, DrainsTold
<1> QED BY <1>2, InputsTold DEF Given

LEMMA PollSteeringKeeps == ASSUME Inv, PollSteering PROVE Inv'
<1>1. PICK taken \in Drains(steering) :
        run' = Deliver(run, taken, "request") /\ steering' = Rest(steering, taken)
  BY DEF PollSteering
<1>2. run.pc = "poll" /\ UNCHANGED <<runOnly, followUps, extras>>
  BY DEF PollSteering
<1>3. /\ taken \in Seq(Outs) /\ Rest(steering, taken) \in Seq(Inputs)
      /\ Singly(taken, GivenRoles) /\ Singly(Rest(steering, taken), GivenRoles)
      /\ Given(taken) \subseteq Given(steering)
      /\ Given(Rest(steering, taken)) = Given(steering) \ Given(taken)
  BY TakenIs
<1>4. run.pc \in Thens /\ Coming(run) = <<>> /\ Saving(run) = <<>>
  BY <1>2, OutIs DEF Thens
<1>5. PICK C : /\ Whole(C, sent, ~unheard, Given(messages))
               /\ C[1] = Preps /\ C[2] = Given(nextTurn) /\ C[3] = Given(steering)
               /\ C[4] = Given(followUps) /\ C[5] = Given(Coming(run))
               /\ C[6] = Given(Saving(run)) /\ C[7] = Given(log) \ {0} /\ C[8] = cleared
  BY CellsOf
<1> DEFINE D == Shift(C, 3, 5, Given(taken))
<1>6. /\ Whole(D, sent, ~unheard, Given(messages))
      /\ D[3] = C[3] \ Given(taken) /\ D[5] = C[5] \cup Given(taken)
      /\ \A c \in 1..8 : c # 3 /\ c # 5 => D[c] = C[c]
  BY <1>3, <1>5, ShiftKeeps
<1> HIDE DEF D
<1>7. /\ D[1] = Preps /\ D[2] = Given(nextTurn) /\ D[3] = Given(steering')
      /\ D[4] = Given(followUps) /\ D[5] = Given(taken) /\ D[6] = {}
      /\ D[7] = Given(log) \ {0} /\ D[8] = cleared
  BY <1>1, <1>3, <1>4, <1>5, <1>6, NothingGiven
<1>8. /\ op' = op /\ manual' = manual /\ messages' = messages /\ log' = log
      /\ pendingBash' = pendingBash /\ last' = last /\ connected' = connected /\ sent' = sent
      /\ unheard' = unheard /\ nextTurn' = nextTurn /\ cleared' = cleared /\ extras' = extras
      /\ followUps' = followUps
  BY <1>2 DEF runOnly, history
<1>9. "request" \in Thens /\ extras \in Nat /\ followUps \in Seq(Inputs)
      /\ Singly(followUps, GivenRoles)
  BY DEF Thens, Inv, Typed, Delivery
<1> QED BY <1>1, <1>3, <1>4, <1>6, <1>7, <1>8, <1>9, DeliverKeeps

LEMMA PollBothKeeps == ASSUME Inv, PollBoth PROVE Inv'
<1>1. PICK taken \in Drains(steering) :
        IF taken # <<>>
        THEN /\ run' = Deliver(run, taken, "request")
             /\ steering' = Rest(steering, taken) /\ followUps' = followUps
        ELSE \E more \in Drains(followUps) :
               /\ run' = Deliver(run, more, IF more = <<>> THEN "finish" ELSE "request")
               /\ followUps' = Rest(followUps, more) /\ steering' = steering
  BY DEF PollBoth
<1>2. run.pc = "pollBoth" /\ UNCHANGED <<runOnly, extras>>
  BY DEF PollBoth
<1>3. run.pc \in Thens /\ Coming(run) = <<>> /\ Saving(run) = <<>>
  BY <1>2, OutIs DEF Thens
<1>4. PICK C : /\ Whole(C, sent, ~unheard, Given(messages))
               /\ C[1] = Preps /\ C[2] = Given(nextTurn) /\ C[3] = Given(steering)
               /\ C[4] = Given(followUps) /\ C[5] = Given(Coming(run))
               /\ C[6] = Given(Saving(run)) /\ C[7] = Given(log) \ {0} /\ C[8] = cleared
  BY CellsOf
<1>5. /\ op' = op /\ manual' = manual /\ messages' = messages /\ log' = log
      /\ pendingBash' = pendingBash /\ last' = last /\ connected' = connected /\ sent' = sent
      /\ unheard' = unheard /\ nextTurn' = nextTurn /\ cleared' = cleared /\ extras' = extras
  BY <1>2 DEF runOnly, history
<1>6. /\ "request" \in Thens /\ "finish" \in Thens /\ extras \in Nat
      /\ steering \in Seq(Inputs) /\ followUps \in Seq(Inputs)
      /\ Singly(steering, GivenRoles) /\ Singly(followUps, GivenRoles)
  BY DEF Thens, Inv, Typed, Delivery
<1>7. CASE taken # <<>>
  <2>1. /\ run' = Deliver(run, taken, "request") /\ steering' = Rest(steering, taken)
        /\ followUps' = followUps
    BY <1>1, <1>7
  <2>2. /\ taken \in Seq(Outs) /\ Rest(steering, taken) \in Seq(Inputs)
        /\ Singly(taken, GivenRoles) /\ Singly(Rest(steering, taken), GivenRoles)
        /\ Given(taken) \subseteq Given(steering)
        /\ Given(Rest(steering, taken)) = Given(steering) \ Given(taken)
    BY TakenIs
  <2> DEFINE D == Shift(C, 3, 5, Given(taken))
  <2>3. /\ Whole(D, sent, ~unheard, Given(messages))
        /\ D[3] = C[3] \ Given(taken) /\ D[5] = C[5] \cup Given(taken)
        /\ \A c \in 1..8 : c # 3 /\ c # 5 => D[c] = C[c]
    BY <1>4, <2>2, ShiftKeeps
  <2> HIDE DEF D
  <2>4. /\ D[1] = Preps /\ D[2] = Given(nextTurn) /\ D[3] = Given(steering')
        /\ D[4] = Given(followUps') /\ D[5] = Given(taken) /\ D[6] = {}
        /\ D[7] = Given(log) \ {0} /\ D[8] = cleared
    BY <1>3, <1>4, <2>1, <2>2, <2>3, NothingGiven
  <2>5. /\ steering' \in Seq(Inputs) /\ followUps' \in Seq(Inputs)
        /\ Singly(steering', GivenRoles) /\ Singly(followUps', GivenRoles)
    BY <1>6, <2>1, <2>2
  <2>6. Whole(D, sent, ~unheard, Given(messages)) /\ extras' \in Nat /\ extras <= extras'
    BY <1>5, <1>6, <2>3
  <2>7. taken \in Seq(Outs) /\ Singly(taken, GivenRoles) /\ run' = Deliver(run, taken, "request")
    BY <2>1, <2>2
  <2> QED BY <1>3, <1>5, <1>6, <2>4, <2>5, <2>6, <2>7, DeliverKeeps
<1>8. CASE taken = <<>>
  <2>0. PICK more \in Drains(followUps) :
          /\ run' = Deliver(run, more, IF more = <<>> THEN "finish" ELSE "request")
          /\ followUps' = Rest(followUps, more) /\ steering' = steering
    BY <1>1, <1>8
  <2> DEFINE then == IF more = <<>> THEN "finish" ELSE "request"
  <2>1. then \in Thens /\ run' = Deliver(run, more, then)
    BY <1>6, <2>0
  <2> HIDE DEF then
  <2>2. /\ more \in Seq(Outs) /\ Rest(followUps, more) \in Seq(Inputs)
        /\ Singly(more, GivenRoles) /\ Singly(Rest(followUps, more), GivenRoles)
        /\ Given(more) \subseteq Given(followUps)
        /\ Given(Rest(followUps, more)) = Given(followUps) \ Given(more)
    BY TakenIs
  <2> DEFINE D == Shift(C, 4, 5, Given(more))
  <2>3. /\ Whole(D, sent, ~unheard, Given(messages))
        /\ D[4] = C[4] \ Given(more) /\ D[5] = C[5] \cup Given(more)
        /\ \A c \in 1..8 : c # 4 /\ c # 5 => D[c] = C[c]
    BY <1>4, <2>2, ShiftKeeps
  <2> HIDE DEF D
  <2>4. /\ D[1] = Preps /\ D[2] = Given(nextTurn) /\ D[3] = Given(steering')
        /\ D[4] = Given(followUps') /\ D[5] = Given(more) /\ D[6] = {}
        /\ D[7] = Given(log) \ {0} /\ D[8] = cleared
    BY <1>3, <1>4, <2>0, <2>2, <2>3, NothingGiven
  <2>5. /\ steering' \in Seq(Inputs) /\ followUps' \in Seq(Inputs)
        /\ Singly(steering', GivenRoles) /\ Singly(followUps', GivenRoles)
    BY <1>6, <2>0, <2>2
  <2>6. Whole(D, sent, ~unheard, Given(messages)) /\ extras' \in Nat /\ extras <= extras'
    BY <1>5, <1>6, <2>3
  <2>7. more \in Seq(Outs) /\ Singly(more, GivenRoles)
    BY <2>2
  <2> QED BY <1>3, <1>5, <2>1, <2>4, <2>5, <2>6, <2>7, DeliverKeeps
<1> QED BY <1>7, <1>8

(* One message that is nobody's comes next.                                  *)
LEMMA RequestIs ==
  ASSUME Inv, Request \/ RunTools
  PROVE  \E m \in Outs, then \in Thens :
           /\ run' = Deliver(run, <<m>>, then) /\ m.role \notin GivenRoles /\ run.pc \in Thens
           /\ extras' \in Nat /\ extras <= extras'
           /\ UNCHANGED <<runOnly, steering, followUps>>
<1>0. extras \in Nat
  BY DEF Inv, Typed
<1>1. CASE Request
  <2>1. PICK stop \in IF run.aborted THEN {"aborted"} ELSE Stops :
          /\ extras' = IF stop = "toolUse" THEN extras + 1 ELSE extras
          /\ run' = Deliver(run, <<Answer(stop, Compactions(log))>>,
                            CASE stop = "toolUse" -> "tools"
                              [] stop \in {"stop", "silent"} -> "pollBoth"
                              [] OTHER -> "finish")
    BY <1>1 DEF Request
  <2> DEFINE then == CASE stop = "toolUse" -> "tools"
                       [] stop \in {"stop", "silent"} -> "pollBoth"
                       [] OTHER -> "finish"
             m == Answer(stop, Compactions(log))
  <2>2. stop \in Kinds
    BY <2>1 DEF Kinds
  <2>3. Compactions(log) \in Nat
    <3>1. log \in Seq(Records)
      BY DEF Inv, Fits, Worlds, Now
    <3>2. IsFiniteSet({i \in 1..Len(log) : log[i].role = "compaction"})
      <4>1. IsFiniteSet(1..Len(log))
        BY <3>1, FS_Interval
      <4> QED BY <4>1, FS_Subset
    <3> QED BY <3>2, FS_CardinalityType DEF Compactions
  <2>4. m \in Outs /\ m.role \notin GivenRoles
    BY <2>2, <2>3, RecordTypes DEF GivenRoles
  <2>5. then \in Thens
    BY DEF Thens
  <2>6. run' = Deliver(run, <<m>>, then)
    BY <2>1
  <2>7. run.pc \in Thens /\ UNCHANGED <<runOnly, steering, followUps>>
    BY <1>1 DEF Request, Thens
  <2>8. extras' \in Nat /\ extras <= extras'
    BY <1>0, <2>1
  <2> HIDE DEF m, then
  <2> QED BY <2>4, <2>5, <2>6, <2>7, <2>8
<1>2. CASE RunTools
  <2>1. /\ run' = Deliver(run, <<ToolResult>>, "poll") /\ run.pc \in Thens /\ extras' = extras
        /\ UNCHANGED <<runOnly, steering, followUps>>
    BY <1>2 DEF RunTools, Thens
  <2>2. ToolResult \in Outs /\ ToolResult.role \notin GivenRoles /\ "poll" \in Thens
    BY RecordTypes DEF GivenRoles, Thens
  <2> QED BY <1>0, <2>1, <2>2
<1> QED BY <1>1, <1>2

LEMMA RequestKeeps == ASSUME Inv, Request \/ RunTools PROVE Inv'
<1>1. PICK m \in Outs, then \in Thens :
        /\ run' = Deliver(run, <<m>>, then) /\ m.role \notin GivenRoles /\ run.pc \in Thens
        /\ extras' \in Nat /\ extras <= extras'
        /\ UNCHANGED <<runOnly, steering, followUps>>
  BY RequestIs
<1> DEFINE out == <<m>>
<1>2. out \in Seq(Outs) /\ Singly(out, GivenRoles) /\ Given(out) = {}
  <2>1. m \in Records /\ m.role \notin GivenRoles
    BY <1>1, InputTypes
  <2>2. Singly(<<m>>, GivenRoles) /\ Told(<<m>>, GivenRoles) = {}
    BY <2>1, ToldOne
  <2>3. <<m>> \in Seq(Outs)
    OBVIOUS
  <2> QED BY <2>2, <2>3 DEF Given
<1> HIDE DEF out
<1>3. Coming(run) = <<>> /\ Saving(run) = <<>>
  BY <1>1, OutIs DEF Thens
<1>4. PICK C : /\ Whole(C, sent, ~unheard, Given(messages))
               /\ C[1] = Preps /\ C[2] = Given(nextTurn) /\ C[3] = Given(steering)
               /\ C[4] = Given(followUps) /\ C[5] = Given(Coming(run))
               /\ C[6] = Given(Saving(run)) /\ C[7] = Given(log) \ {0} /\ C[8] = cleared
  BY CellsOf
<1>5. /\ op' = op /\ manual' = manual /\ messages' = messages /\ log' = log
      /\ pendingBash' = pendingBash /\ last' = last /\ connected' = connected /\ sent' = sent
      /\ unheard' = unheard /\ nextTurn' = nextTurn /\ cleared' = cleared
      /\ steering' = steering /\ followUps' = followUps
  BY <1>1 DEF runOnly, history
<1>6. /\ steering' \in Seq(Inputs) /\ followUps' \in Seq(Inputs)
      /\ Singly(steering', GivenRoles) /\ Singly(followUps', GivenRoles)
  BY <1>5 DEF Inv, Typed, Delivery
<1>7. C[5] = Given(out) /\ C[6] = {} /\ C[3] = Given(steering') /\ C[4] = Given(followUps')
  BY <1>2, <1>3, <1>4, <1>5, NothingGiven
<1>8. run' = Deliver(run, out, then)
  BY <1>1 DEF out
<1> QED BY <1>1, <1>2, <1>4, <1>5, <1>6, <1>7, <1>8, DeliverKeeps

LEMMA FinishRunKeeps == ASSUME Inv, FinishRun PROVE Inv'
<1>1. /\ run.pc = "finish" /\ run' = NoRun
      /\ op' = [op EXCEPT ![run.owner].pc = "postRun"]
      /\ manual' = IF manual.pc = "waiting" THEN [manual EXCEPT !.pc = "ready"] ELSE manual
      /\ messages' = messages /\ log' = log /\ pendingBash' = pendingBash
      /\ steering' = steering /\ followUps' = followUps /\ nextTurn' = nextTurn
      /\ last' = last /\ connected' = connected /\ sent' = sent /\ extras' = extras
      /\ cleared' = cleared /\ unheard' = unheard
  BY DEF FinishRun, history
<1> DEFINE p == run.owner
           q == [op[p] EXCEPT !.pc = "postRun"]
<1>2. Typed /\ Formed /\ Delivery /\ extras \in Nat /\ sent \in Nat
  BY DEF Inv, Typed
<1>3. p \in Callers /\ op[p].pc = "running" /\ op[p] \in Ops /\ OpFormed(op[p])
  BY <1>1, <1>2 DEF Formed, Active, Typed
<1>4. op' = [op EXCEPT ![p] = q]
  BY <1>1
<1> HIDE DEF p
<1>5. /\ q \in Ops /\ q.pc = "postRun" /\ q.stage = op[p].stage /\ q.n = op[p].n
      /\ q.prompts = op[p].prompts
  BY <1>3 DEF Ops, OpPcs
<1> HIDE DEF q
<1>6. OpFormed(q) /\ Prep(q) = Prep(op[p])
  BY <1>3, <1>5 DEF OpFormed, Prep
<1>7. /\ op \in [Callers -> Ops] /\ op' \in [Callers -> Ops]
      /\ op'[p] = q /\ \A r \in Callers \ {p} : op'[r] = op[r]
  BY <1>2, <1>3, <1>4, <1>5 DEF Typed
<1>8. \A r \in Callers : Prep(op'[r]) = Prep(op[r])
  BY <1>6, <1>7
<1>9. Preps' = Preps
  <2>1. Preps' = UNION {Prep(op'[r]) : r \in Callers}
    BY DEF Preps, Prep, Given, Told
  <2> QED BY <1>8, <2>1 DEF Preps
<1>10. /\ NoRun \in Runs /\ RunFormed(NoRun) /\ NoRun.pc = "none"
       /\ Coming(NoRun) = <<>> /\ Saving(NoRun) = <<>>
  BY DEF NoRun, Runs, RunPcs, RunFormed, Coming, Saving
<1>11. manual' \in Manuals /\ (manual'.pc = "compacting" => manual'.kept > 0)
  BY <1>1, <1>2 DEF Typed, Formed, Manuals
<1>12. Typed'
  BY <1>1, <1>2, <1>7, <1>10, <1>11 DEF Typed
<1>13. \A r \in Callers : OpFormed(op'[r])
  BY <1>2, <1>6, <1>7 DEF Formed
<1>14. Formed'
  BY <1>1, <1>10, <1>11, <1>13, FormedThen
<1>15. PICK C : /\ Whole(C, sent, ~unheard, Given(messages))
                /\ C[1] = Preps /\ C[2] = Given(nextTurn) /\ C[3] = Given(steering)
                /\ C[4] = Given(followUps) /\ C[5] = Given(Coming(run))
                /\ C[6] = Given(Saving(run)) /\ C[7] = Given(log) \ {0} /\ C[8] = cleared
  BY CellsOf
<1>16. Coming(run) = <<>> /\ Saving(run) = <<>>
  BY <1>1, OutIs DEF Thens
<1>17. C[5] = Given(Coming(run')) /\ C[6] = {} /\ Saving(run') = <<>>
  BY <1>1, <1>10, <1>15, <1>16, NothingGiven
<1>18. /\ \A r, s \in Callers : r # s => Prep(op'[r]) \cap Prep(op'[s]) = {}
       /\ \A r \in Callers : Singly(op'[r].prompts, GivenRoles)
  <2>1. \A r \in Callers : op'[r].prompts = op[r].prompts
    BY <1>5, <1>7
  <2> QED BY <1>2, <1>8, <2>1 DEF Delivery
<1>19. /\ Singly(nextTurn', GivenRoles) /\ Singly(steering', GivenRoles)
       /\ Singly(followUps', GivenRoles) /\ Singly(Coming(run'), GivenRoles)
  BY <1>1, <1>2, <1>10, NothingGiven DEF Delivery
<1>20. /\ C[1] = Preps' /\ C[2] = Given(nextTurn') /\ C[3] = Given(steering')
       /\ C[4] = Given(followUps') /\ C[8] = cleared' /\ extras <= extras'
       /\ Whole(C, sent', ~unheard, Given(messages))
  BY <1>1, <1>2, <1>9, <1>15
<1> QED BY <1>1, <1>12, <1>14, <1>15, <1>17, <1>18, <1>19, <1>20, Assemble

LEMMA SaveMessageKeeps == ASSUME Inv, SaveMessage PROVE Inv'
<1> DEFINE m == run.out[1]
<1>1. /\ run.pc = "save" /\ run' = Deliver(run, Tail(run.out), run.then)
      /\ op' = op /\ manual' = manual
      /\ messages' = messages /\ pendingBash' = pendingBash
      /\ steering' = steering /\ followUps' = followUps /\ nextTurn' = nextTurn
      /\ connected' = connected /\ sent' = sent /\ extras' = extras
      /\ cleared' = cleared /\ unheard' = unheard
  BY DEF SaveMessage
<1>2. \/ run.heard /\ log' = Append(log, m) /\ last' = IF m.role = "assistant" THEN m ELSE last
      \/ ~run.heard /\ log' = log /\ last' = last
  BY DEF SaveMessage
<1>3. Typed /\ Formed /\ Delivery /\ Fits(Now, extras) /\ extras \in Nat /\ sent \in Nat
  BY DEF Inv, Typed
<1>4. run \in Runs /\ RunFormed(run) /\ Coming(run) = Tail(run.out) /\ Saving(run) = <<m>>
  BY <1>1, OutIs DEF Coming, Saving
<1>5. run.out # <<>>
  BY <1>1, <1>4 DEF RunFormed
<1>6. /\ m \in Outs /\ m \in Records /\ Tail(run.out) \in Seq(Outs) /\ <<m>> \in Seq(Records)
      /\ 0 \notin Given(<<m>>)
  BY <1>5, HeadOut
<1> HIDE DEF m
<1>7. run.then \in Thens
  BY <1>1, <1>4 DEF RunFormed
<1>8. /\ run' \in Runs /\ RunFormed(run') /\ run'.pc \notin {"none", "save"}
      /\ run'.out = Tail(run.out) /\ run'.owner = run.owner
      /\ Coming(run') = Tail(run.out) /\ Saving(run') = <<>>
  <2> DEFINE d == Deliver(run, Tail(run.out), run.then)
  <2>1. /\ d \in Runs /\ RunFormed(d) /\ d.pc \notin {"none", "save"}
        /\ d.out = Tail(run.out) /\ d.owner = run.owner
        /\ Coming(d) = Tail(run.out) /\ Saving(d) = <<>>
    BY <1>4, <1>6, <1>7, DeliverIs
  <2>2. run' = d
    BY <1>1
  <2> HIDE DEF d
  <2> QED BY <2>1, <2>2
<1>9. Typed'
  <2>1. last' \in Lasts
    BY <1>2, <1>3, <1>6 DEF Typed, Lasts
  <2> QED BY <1>1, <1>3, <1>8, <2>1 DEF Typed
<1>10. Formed'
  BY <1>1, <1>3, <1>8, FormedThen DEF Formed, Active
<1> DEFINE X == Given(<<m>>)
           T == Cells'
<1>11. PICK C : /\ Whole(C, sent, ~unheard, Given(messages))
                /\ C[1] = Preps /\ C[2] = Given(nextTurn) /\ C[3] = Given(steering)
                /\ C[4] = Given(followUps) /\ C[5] = Given(Coming(run))
                /\ C[6] = Given(Saving(run)) /\ C[7] = Given(log) \ {0} /\ C[8] = cleared
  BY CellsOf
<1>12. /\ T[1] = Preps' /\ T[2] = Given(nextTurn') /\ T[3] = Given(steering')
       /\ T[4] = Given(followUps') /\ T[5] = Given(Coming(run')) /\ T[6] = Given(Saving(run'))
       /\ T[7] = Given(log') \ {0} /\ T[8] = cleared'
  BY CellsAreThen
<1>13. T = Cells'
  OBVIOUS
<1> HIDE DEF T
<1>14. C[6] = X
  BY <1>4, <1>11
<1> HIDE DEF X
<1>15. /\ T[1] = C[1] /\ T[2] = C[2] /\ T[3] = C[3] /\ T[4] = C[4] /\ T[5] = C[5] /\ T[6] = {}
       /\ T[8] = C[8]
  BY <1>1, <1>3, <1>4, <1>8, <1>11, <1>12, OpsStill, NothingGiven
<1>16. log \in Seq(Records) /\ messages \in Seq(Records)
  BY <1>3 DEF Fits, Worlds, Now
<1>17. /\ Append(log, m) \in Seq(Records)
       /\ Given(Append(log, m)) = Given(log) \cup X
       /\ Singly(Append(log, m), GivenRoles)
            <=> Singly(log, GivenRoles)
                /\ (m.role \in GivenRoles => m.n \notin Told(log, GivenRoles))
       /\ m.role \in GivenRoles => m.n \in X
  <2>1. Told(<<m>>, GivenRoles) = IF m.role \in GivenRoles THEN {m.n} ELSE {}
    BY <1>6, ToldOne
  <2>2. /\ Append(log, m) \in Seq(Records)
        /\ Told(Append(log, m), GivenRoles)
             = Told(log, GivenRoles) \cup (IF m.role \in GivenRoles THEN {m.n} ELSE {})
        /\ Singly(Append(log, m), GivenRoles)
             <=> Singly(log, GivenRoles)
                 /\ (m.role \in GivenRoles => m.n \notin Told(log, GivenRoles))
    BY <1>6, <1>16, ToldAppend
  <2> QED BY <2>1, <2>2 DEF Given, X
<1>18. /\ Told(Append(log, m), BashRoles) = Told(log, BashRoles)
       /\ Singly(log, BashRoles) => Singly(Append(log, m), BashRoles)
  <2>1. m.role \notin BashRoles
    BY <1>6 DEF Outs, BashRoles, GivenRoles
  <2>2. /\ Told(Append(log, m), BashRoles)
             = Told(log, BashRoles) \cup (IF m.role \in BashRoles THEN {m.n} ELSE {})
        /\ Singly(Append(log, m), BashRoles)
             <=> Singly(log, BashRoles)
                 /\ (m.role \in BashRoles => m.n \notin Told(log, BashRoles))
    BY <1>6, <1>16, ToldAppend
  <2> QED BY <2>1, <2>2
<1>19. Whole(T, sent, ~unheard, Given(messages))
  <2>1. CASE log' = Append(log, m)
    <3> DEFINE D == Shift(C, 6, 7, X)
    <3>1. /\ Whole(D, sent, ~unheard, Given(messages))
          /\ D[6] = C[6] \ X /\ D[7] = C[7] \cup X
          /\ \A c \in 1..8 : c # 6 /\ c # 7 => D[c] = C[c]
      BY <1>11, <1>14, ShiftKeeps
    <3> HIDE DEF D
    <3>2. T[7] = C[7] \cup X
      BY <1>6, <1>11, <1>12, <1>17, <2>1 DEF X
    <3>3. /\ D[1] = C[1] /\ D[2] = C[2] /\ D[3] = C[3] /\ D[4] = C[4] /\ D[5] = C[5]
          /\ D[8] = C[8] /\ D[6] = {}
      BY <1>14, <3>1
    <3>4. Alike(D, T)
      BY <1>15, <3>1, <3>2, <3>3 DEF Alike
    <3> QED BY <1>3, <3>1, <3>4, AllEight, CellsSame
  <2>2. CASE ~run.heard /\ log' = log
    <3>1. unheard
      BY <1>1, <1>3, <2>2 DEF Formed
    <3>2. T[7] = C[7]
      BY <1>11, <1>12, <2>2
    <3>3. \A c \in 1..8 : T[c] \subseteq C[c]
      <4>1. \A a \in 1..8 : a = 1 \/ a = 2 \/ a = 3 \/ a = 4 \/ a = 5 \/ a = 6 \/ a = 7 \/ a = 8
        OBVIOUS
      <4> QED BY <1>15, <3>2, <4>1
    <3>4. Whole(T, sent, FALSE, Given(messages))
      BY <1>3, <1>11, <3>3, CellsSame
    <3> QED BY <3>1, <3>4 DEF Whole
  <2> QED BY <1>2, <2>1, <2>2
<1>20. Delivery'
  <2>1. Singly(Coming(run'), GivenRoles) /\ 0 \notin Given(Saving(run'))
    BY <1>3, <1>4, <1>8, NothingGiven DEF Delivery
  <2>2. Whole(T, sent', ~unheard', Given(messages'))
    BY <1>1, <1>19
  <2> QED BY <1>1, <1>3, <1>13, <2>1, <2>2, OpsStill, DeliveryThen DEF Delivery
<1>21. Fits(Now', extras)
  <2>1. CASE log' = log
    <3>1. Now' = Now
      BY <1>1, <2>1 DEF Now
    <3> QED BY <1>3, <3>1
  <2>2. CASE log' = Append(log, m)
    <3>1. m.role \in GivenRoles => m.n \notin Given(log)
      <4>1. C[6] \cap C[7] = {}
        <5>1. 6 \in 1..8 /\ 7 \in 1..8
          OBVIOUS
        <5> QED BY <1>11, <5>1 DEF Whole
      <4>2. 0 \notin X
        BY <1>6 DEF X
      <4> QED BY <1>11, <1>14, <1>17, <4>1, <4>2
    <3>2. /\ Now' = [messages |-> messages, log |-> Append(log, m), held |-> pendingBash]
          /\ Now = [messages |-> messages, log |-> log, held |-> pendingBash]
      BY <1>1, <2>2 DEF Now
    <3>3. Singly(Append(log, m), GivenRoles) /\ Singly(Append(log, m), BashRoles)
      BY <1>3, <1>17, <1>18, <3>1, <3>2 DEF Fits, Given
    <3> DEFINE a == Append(log, m)
    <3> HIDE DEF a
    <3>4. /\ Now'.log = a /\ Now'.messages = Now.messages /\ Now'.held = Now.held
          /\ Now' \in Worlds /\ Now.log = log
      BY <1>3, <1>17, <3>2 DEF a, Fits, Worlds
    <3>5. /\ Singly(a, GivenRoles) /\ Singly(a, BashRoles)
          /\ Told(a, BashRoles) = Told(log, BashRoles)
      BY <1>18, <3>3 DEF a
    <3> QED BY <1>3, <3>4, <3>5 DEF Fits
  <2> QED BY <1>2, <2>1, <2>2
<1> QED BY <1>1, <1>9, <1>10, <1>20, <1>21, FitsThen DEF Inv

-----------------------------------------------------------------------------
(* A call starts a run, or is rejected.                                      *)

Pre(o) == IF o.stage = "pre" THEN {o.n} ELSE {}

LEMMA StartKeeps ==
  ASSUME Inv, ~Active, NEW p \in Callers, NEW o \in Ops, o.stage # "check",
         NEW prompts \in Seq(Inputs), NEW then \in Thens, StartRun(p, o, prompts, then),
         manual' = manual, messages' = messages, log' = log, pendingBash' = pendingBash,
         last' = last, connected' = connected, unheard' = unheard, nextTurn' = nextTurn,
         cleared' = cleared, extras' = extras, sent' \in Nat,
         steering' \in Seq(Inputs), followUps' \in Seq(Inputs),
         Singly(steering', GivenRoles), Singly(followUps', GivenRoles),
         Singly(prompts, GivenRoles), Others(p) \cap Pre(o) = {},
         NEW D, Whole(D, sent', ~unheard, Given(messages)),
         D[1] = Others(p) \cup Pre(o), D[2] = Given(nextTurn), D[3] = Given(steering'),
         D[4] = Given(followUps'), D[5] = Given(prompts), D[6] = {},
         D[7] = Given(log) \ {0}, D[8] = cleared
  PROVE  Inv'
<1> DEFINE q == [[o EXCEPT !.prompts = <<>>] EXCEPT !.pc = "running"]
           r == [NoRun EXCEPT !.owner = p]
<1>1. Typed /\ Formed /\ Delivery
  BY DEF Inv
<1>2. prompts \in Seq(Outs)
  BY InputsTold
<1>3. r \in Runs /\ r.owner = p
  <2>1. NoRun \in Runs
    BY DEF NoRun, Runs, RunPcs
  <2> QED BY <2>1 DEF Runs
<1>4. run' = Deliver(r, prompts, then) /\ op' = [op EXCEPT ![p] = q]
  BY DEF StartRun, NewRun, Set
<1> HIDE DEF r
<1>5. /\ run' \in Runs /\ RunFormed(run') /\ run'.pc \notin {"none", "save"}
      /\ run'.owner = p /\ Coming(run') = prompts /\ Saving(run') = <<>>
  BY <1>2, <1>3, <1>4, DeliverIs
<1>6. q \in Ops /\ q.pc = "running" /\ q.stage = o.stage /\ q.n = o.n /\ q.prompts = <<>>
  <2> DEFINE t == [o EXCEPT !.prompts = <<>>]
  <2>1. t \in Ops /\ t.stage = o.stage /\ t.n = o.n /\ t.prompts = <<>>
    BY NothingGiven DEF Ops
  <2> HIDE DEF t
  <2>2. /\ [t EXCEPT !.pc = "running"] \in Ops /\ [t EXCEPT !.pc = "running"].pc = "running"
        /\ [t EXCEPT !.pc = "running"].stage = t.stage /\ [t EXCEPT !.pc = "running"].n = t.n
        /\ [t EXCEPT !.pc = "running"].prompts = t.prompts
    BY <2>1 DEF Ops, OpPcs
  <2> QED BY <2>1, <2>2 DEF t
<1> HIDE DEF q
<1>7. OpFormed(q)
  BY <1>6 DEF OpFormed
<1>8. Prep(q) = Pre(o)
  BY <1>6 DEF Prep, Pre
<1>9. op \in [Callers -> Ops]
  BY <1>1 DEF Typed
<1>10. /\ op' \in [Callers -> Ops] /\ op'[p] = q /\ \A c \in Callers \ {p} : op'[c] = op[c]
  BY <1>4, <1>6, <1>9
<1>11. Typed'
  BY <1>1, <1>5, <1>10 DEF Typed
<1>12. \A c \in Callers : OpFormed(op'[c])
  BY <1>1, <1>7, <1>10 DEF Formed
<1>13. Formed'
  BY <1>1, <1>5, <1>6, <1>10, <1>12, FormedThen DEF Formed
<1>14. Preps' = Others(p) \cup Prep(q)
  BY <1>4, <1>9, PrepsThen
<1>15. \A c, d \in Callers : c # d => Prep(op'[c]) \cap Prep(op'[d]) = {}
  <2>1. Apart(p, op[p])
    BY <1>1, ApartNow DEF Delivery
  <2> QED BY <1>4, <1>8, <1>9, <2>1, ApartThen
<1>16. \A c \in Callers : Singly(op'[c].prompts, GivenRoles)
  BY <1>1, <1>6, <1>10, NothingGiven DEF Delivery
<1>17. Singly(nextTurn', GivenRoles) /\ Singly(Coming(run'), GivenRoles)
  BY <1>1, <1>5 DEF Delivery
<1>18. /\ D[1] = Preps' /\ D[2] = Given(nextTurn') /\ D[5] = Given(Coming(run')) /\ D[8] = cleared'
       /\ extras <= extras'
  BY <1>1, <1>5, <1>8, <1>14 DEF Typed
<1> QED BY <1>5, <1>11, <1>13, <1>15, <1>16, <1>17, <1>18, Assemble

LEMMA RejectKeeps ==
  ASSUME Inv, NEW p \in Callers, op[p].pc \in {"preflight", "continue"}, Reject(p),
         manual' = manual, last' = last, connected' = connected, unheard' = unheard,
         extras' = extras, sent' = sent
  PROVE  Inv'
<1> DEFINE o == op[p]
           X == Prep(o)
<1>1. /\ Idle(p, Flush(Now))
      /\ cleared' = cleared \cup (IF o.stage = "pre" THEN {o.n} ELSE {})
                            \cup {o.prompts[i].n : i \in DOMAIN o.prompts}
      /\ run' = run /\ steering' = steering /\ followUps' = followUps
  BY DEF Reject
<1>2. /\ Fits(Now, extras) /\ Stays(Now, Now) /\ extras \in Nat /\ o \in Ops /\ OpFormed(o)
  BY NowFits
<1>3. Typed /\ Formed /\ Delivery /\ sent \in Nat
  BY DEF Inv, Typed
<1>4. cleared' = cleared \cup X
  <2>0. o.prompts \in Seq(Inputs)
    BY <1>2 DEF Ops
  <2>1. DOMAIN o.prompts = 1..Len(o.prompts)
    BY <2>0
  <2>2. Given(o.prompts) = {o.prompts[i].n : i \in DOMAIN o.prompts}
    BY <2>0, <2>1, InputsTold
  <2>3. CASE o.pc = "preflight"
    <3>1. o.stage = "main" /\ X = Given(o.prompts)
      BY <1>2, <2>3 DEF OpFormed, Prep
    <3> QED BY <1>1, <2>2, <3>1
  <2>4. CASE o.pc = "continue"
    <3>1. o.prompts = <<>> /\ o.stage # "check" /\ X = IF o.stage = "pre" THEN {o.n} ELSE {}
      BY <1>2, <2>4 DEF OpFormed, Prep
    <3>2. Given(o.prompts) = {}
      BY <3>1, NothingGiven
    <3> QED BY <1>1, <2>2, <3>1, <3>2
  <2> QED BY <2>3, <2>4
<1> HIDE DEF X
<1> DEFINE C == Cells
           D == Shift(C, 1, 8, X)
           T == Cells'
<1>5. /\ C[1] = Preps /\ C[2] = Given(nextTurn) /\ C[3] = Given(steering)
      /\ C[4] = Given(followUps) /\ C[5] = Given(Coming(run)) /\ C[6] = Given(Saving(run))
      /\ C[7] = Given(log) \ {0} /\ C[8] = cleared
  BY CellsAre
<1>6. Whole(C, sent, ~unheard, Given(messages))
  BY <1>3 DEF Delivery
<1> HIDE DEF C
<1>7. Apart(p, o)
  <2>1. \A q, r \in Callers : q # r => Prep(op[q]) \cap Prep(op[r]) = {}
    BY <1>3 DEF Delivery
  <2> QED BY <2>1, ApartNow
<1>8. Preps = Others(p) \cup X /\ Others(p) \cap X = {}
  <2>1. Preps = Others(p) \cup X
    BY DEF Preps, Others, X
  <2> QED BY <1>7, <2>1 DEF Apart, X
<1> HIDE DEF o
<1>9. /\ Whole(D, sent, ~unheard, Given(messages))
      /\ D[1] = C[1] \ X /\ D[8] = C[8] \cup X
      /\ \A c \in 1..8 : c # 1 /\ c # 8 => D[c] = C[c]
  BY <1>5, <1>6, <1>8, ShiftKeeps
<1> HIDE DEF D
<1>10. /\ D[1] = Others(p) /\ D[8] = cleared' /\ D[2] = C[2] /\ D[3] = C[3] /\ D[4] = C[4]
       /\ D[5] = C[5] /\ D[6] = C[6] /\ D[7] = C[7]
  BY <1>4, <1>5, <1>8, <1>9
<1>11. op' = [op EXCEPT ![p] = IdleOp] /\ nextTurn' = nextTurn /\ Become(Flush(Now))
  BY <1>1 DEF Idle
<1>12. /\ IdleOp \in Ops /\ IdleOp.prompts = <<>> /\ IdleOp.pc = "idle" /\ OpFormed(IdleOp)
       /\ Prep(IdleOp) = {}
  BY NothingGiven DEF IdleOp, Ops, OpPcs, Lasts, Whys, OpFormed, Prep
<1>13. /\ op \in [Callers -> Ops] /\ op' \in [Callers -> Ops] /\ op'[p] = IdleOp
       /\ \A c \in Callers \ {p} : op'[c] = op[c]
  BY <1>3, <1>11, <1>12 DEF Typed
<1>14. Preps' = Others(p)
  <2>1. Preps' = Others(p) \cup Prep(IdleOp)
    BY <1>11, <1>13, PrepsThen
  <2> QED BY <1>12, <2>1
<1>15. \A c, d \in Callers : c # d => Prep(op'[c]) \cap Prep(op'[d]) = {}
  BY <1>7, <1>11, <1>12, <1>13, ApartThen
<1>16. Fits(Flush(Now), extras) /\ Stays(Now, Flush(Now))
  BY <1>2, FlushFits
<1>17. Becomes(extras)
  BY <1>11, <1>16 DEF Becomes
<1>18. Fits(Now, extras)'
  BY <1>2, <1>17, BecomesFits, FitsThen
<1>19. /\ Given(log') = Given(log)
       /\ Given(messages') \subseteq Given(messages) \cup Given(log)
  BY <1>11, <1>16 DEF Become, Stays, Now, Given
<1>20. /\ T[1] = Preps' /\ T[2] = Given(nextTurn') /\ T[3] = Given(steering')
       /\ T[4] = Given(followUps') /\ T[5] = Given(Coming(run')) /\ T[6] = Given(Saving(run'))
       /\ T[7] = Given(log') \ {0} /\ T[8] = cleared' /\ T = Cells'
  BY CellsAreThen
<1> HIDE DEF T
<1>21. Alike(D, T)
  BY <1>1, <1>5, <1>10, <1>11, <1>14, <1>19, <1>20 DEF Alike
<1>22. Given(messages') \subseteq Given(messages) \cup D[6] \cup D[7] \cup D[8] \cup {0}
  BY <1>5, <1>10, <1>19
<1>23. Whole(T, sent', ~unheard', Given(messages'))
  <2>1. \A a \in 1..8 : T[a] = D[a]
    BY <1>21, AllEight
  <2> QED BY <1>3, <1>9, <1>22, <2>1, CellsSame
<1>24. Delivery'
  <2>1. \A c \in Callers : Singly(op'[c].prompts, GivenRoles)
    BY <1>3, <1>12, <1>13, NothingGiven DEF Delivery
  <2>2. /\ Singly(nextTurn', GivenRoles) /\ Singly(steering', GivenRoles)
        /\ Singly(followUps', GivenRoles) /\ Singly(Coming(run'), GivenRoles)
        /\ 0 \notin Given(Saving(run'))
    BY <1>1, <1>3, <1>11 DEF Delivery
  <2> QED BY <1>15, <1>20, <1>23, <2>1, <2>2, DeliveryThen
<1>25. Typed'
  BY <1>1, <1>2, <1>3, <1>11, <1>13 DEF Typed
<1>26. Formed'
  <2>1. \A c \in Callers : OpFormed(op'[c])
    BY <1>3, <1>12, <1>13 DEF Formed
  <2>2. RunFormed(run') /\ (run'.pc = "save" => run'.heard \/ unheard')
        /\ (manual'.pc = "compacting" => manual'.kept > 0)
    BY <1>1, <1>3 DEF Formed
  <2>3. run'.pc # "none" => run'.owner \in Callers /\ op'[run'.owner].pc = "running"
    BY <1>1, <1>3, <1>13 DEF Formed, Active
  <2> QED BY <2>1, <2>2, <2>3, FormedThen
<1> QED BY <1>18, <1>24, <1>25, <1>26 DEF Inv

LEMMA SendPromptKeeps ==
  ASSUME Inv, NEW p \in Callers, SendPrompt(p)
  PROVE  Inv'
<1>1. op[p].pc = "preflight" /\ UNCHANGED <<outside, attempt, tried, extras>>
  BY DEF SendPrompt
<1>2. /\ manual' = manual /\ last' = last /\ connected' = connected /\ unheard' = unheard
      /\ extras' = extras /\ sent' = sent
  BY <1>1 DEF outside
<1>3. CASE Active
  <2>1. Reject(p)
    BY <1>3 DEF SendPrompt
  <2> QED BY <1>1, <1>2, <2>1, RejectKeeps
<1>4. CASE ~Active
  <2> DEFINE o == op[p]
             prompts == o.prompts
             X == Given(prompts)
  <2>1. /\ StartRun(p, o, prompts, "poll")
        /\ UNCHANGED <<messages, steering, followUps, log, nextTurn, pendingBash, cleared>>
    BY <1>4 DEF SendPrompt
  <2>2. o \in Ops /\ OpFormed(o)
    BY NowFits
  <2>3. Typed /\ Delivery
    BY DEF Inv
  <2>4. Coming(run) = <<>> /\ Saving(run) = <<>>
    BY <1>4, OutIs
  <2>5. o.stage = "main" /\ prompts \in Seq(Inputs) /\ "poll" \in Thens
        /\ Singly(prompts, GivenRoles) /\ Prep(o) = X
    BY <1>1, <2>2, <2>3 DEF OpFormed, Ops, Thens, Delivery, Prep
  <2>6. PICK C : /\ Whole(C, sent, ~unheard, Given(messages))
                 /\ C[1] = Preps /\ C[2] = Given(nextTurn) /\ C[3] = Given(steering)
                 /\ C[4] = Given(followUps) /\ C[5] = Given(Coming(run))
                 /\ C[6] = Given(Saving(run)) /\ C[7] = Given(log) \ {0} /\ C[8] = cleared
    BY CellsOf
  <2>7. Preps = Others(p) \cup X /\ Others(p) \cap X = {} /\ Pre(o) = {}
    <3>1. \A q, r \in Callers : q # r => Prep(op[q]) \cap Prep(op[r]) = {}
      BY <2>3 DEF Delivery
    <3>2. Apart(p, o)
      BY <3>1, ApartNow
    <3>3. Preps = Others(p) \cup Prep(o)
      BY DEF Preps, Others
    <3> QED BY <2>5, <3>2, <3>3 DEF Apart, Pre
  <2> HIDE DEF X, prompts, o
  <2> DEFINE D == Shift(C, 1, 5, X)
  <2>8. /\ Whole(D, sent, ~unheard, Given(messages))
        /\ D[1] = C[1] \ X /\ D[5] = C[5] \cup X
        /\ \A c \in 1..8 : c # 1 /\ c # 5 => D[c] = C[c]
    BY <2>6, <2>7, ShiftKeeps
  <2> HIDE DEF D
  <2>9. /\ D[1] = Others(p) \cup Pre(o) /\ D[2] = Given(nextTurn) /\ D[3] = Given(steering')
        /\ D[4] = Given(followUps') /\ D[5] = Given(prompts) /\ D[6] = {}
        /\ D[7] = Given(log) \ {0} /\ D[8] = cleared
    BY <2>1, <2>4, <2>6, <2>7, <2>8, NothingGiven DEF X
  <2>10. /\ steering' \in Seq(Inputs) /\ followUps' \in Seq(Inputs) /\ sent' \in Nat
         /\ Singly(steering', GivenRoles) /\ Singly(followUps', GivenRoles)
         /\ Whole(D, sent', ~unheard, Given(messages))
    BY <1>2, <2>1, <2>3, <2>8 DEF Typed, Delivery
  <2>11. /\ messages' = messages /\ log' = log /\ pendingBash' = pendingBash
         /\ nextTurn' = nextTurn /\ cleared' = cleared
    BY <2>1
  <2>12. Others(p) \cap Pre(o) = {} /\ o.stage # "check"
    BY <2>5, <2>7
  <2> QED BY <1>2, <1>4, <2>1, <2>2, <2>5, <2>9, <2>10, <2>11, <2>12, StartKeeps
<1> QED BY <1>3, <1>4

LEMMA ContinueRunKeeps ==
  ASSUME Inv, NEW p \in Callers, ContinueRun(p)
  PROVE  Inv'
<1> DEFINE o == op[p]
<1>1. op[p].pc = "continue" /\ UNCHANGED <<outside, attempt, tried, extras>>
  BY DEF ContinueRun
<1>2. /\ manual' = manual /\ last' = last /\ connected' = connected /\ unheard' = unheard
      /\ extras' = extras /\ sent' = sent
  BY <1>1 DEF outside
<1>3. CASE ~Continuable
  <2>1. Reject(p)
    BY <1>3 DEF ContinueRun
  <2> QED BY <1>1, <1>2, <2>1, RejectKeeps
<1>4. CASE Continuable
  <2>1. /\ IF LastOf(messages).role # "assistant"
           THEN StartRun(p, o, <<>>, "poll") /\ steering' = steering /\ followUps' = followUps
           ELSE IF steering # <<>>
           THEN \E taken \in Drains(steering) \ {<<>>} :
                  /\ StartRun(p, o, taken, "request")
                  /\ steering' = Rest(steering, taken) /\ followUps' = followUps
           ELSE \E taken \in Drains(followUps) \ {<<>>} :
                  /\ StartRun(p, o, taken, "poll")
                  /\ followUps' = Rest(followUps, taken) /\ steering' = steering
        /\ UNCHANGED <<messages, log, nextTurn, pendingBash, cleared>>
    BY <1>4 DEF ContinueRun
  <2>2. o \in Ops /\ OpFormed(o) /\ ~Active
    BY <1>4, NowFits DEF Continuable
  <2>3. Typed /\ Delivery
    BY DEF Inv
  <2>4. Coming(run) = <<>> /\ Saving(run) = <<>>
    BY <2>2, OutIs
  <2>5. o.stage # "check" /\ Prep(o) = Pre(o)
    <3>1. o.stage # "check" /\ o.pc # "preflight"
      BY <1>1, <2>2 DEF OpFormed
    <3> QED BY <3>1 DEF Prep, Pre
  <2>6. PICK C : /\ Whole(C, sent, ~unheard, Given(messages))
                 /\ C[1] = Preps /\ C[2] = Given(nextTurn) /\ C[3] = Given(steering)
                 /\ C[4] = Given(followUps) /\ C[5] = Given(Coming(run))
                 /\ C[6] = Given(Saving(run)) /\ C[7] = Given(log) \ {0} /\ C[8] = cleared
    BY CellsOf
  <2>7. Preps = Others(p) \cup Pre(o) /\ Others(p) \cap Pre(o) = {}
    <3>1. \A q, r \in Callers : q # r => Prep(op[q]) \cap Prep(op[r]) = {}
      BY <2>3 DEF Delivery
    <3>2. Apart(p, o)
      BY <3>1, ApartNow
    <3>3. Preps = Others(p) \cup Prep(o)
      BY DEF Preps, Others
    <3> QED BY <2>5, <3>2, <3>3 DEF Apart
  <2>8. /\ messages' = messages /\ log' = log /\ pendingBash' = pendingBash
        /\ nextTurn' = nextTurn /\ cleared' = cleared
    BY <2>1
  <2>9. /\ steering \in Seq(Inputs) /\ followUps \in Seq(Inputs) /\ sent \in Nat
        /\ Singly(steering, GivenRoles) /\ Singly(followUps, GivenRoles)
        /\ "poll" \in Thens /\ "request" \in Thens
    BY <2>3 DEF Typed, Delivery, Thens
  <2> HIDE DEF o
  <2>10. CASE StartRun(p, o, <<>>, "poll") /\ steering' = steering /\ followUps' = followUps
    <3>1. /\ C[1] = Others(p) \cup Pre(o) /\ C[3] = Given(steering') /\ C[4] = Given(followUps')
          /\ C[5] = Given(<<>>) /\ C[6] = {}
      BY <2>4, <2>6, <2>7, <2>10, NothingGiven
    <3> DEFINE prompts == <<>>
    <3>2. prompts \in Seq(Inputs) /\ Singly(prompts, GivenRoles) /\ C[5] = Given(prompts)
          /\ StartRun(p, o, prompts, "poll")
      BY <2>10, <3>1, NothingGiven
    <3> HIDE DEF prompts
    <3> QED BY <1>2, <2>2, <2>5, <2>6, <2>7, <2>8, <2>9, <2>10, <3>1, <3>2, StartKeeps
  <2>11. ASSUME NEW taken \in Drains(steering), StartRun(p, o, taken, "request"),
                steering' = Rest(steering, taken), followUps' = followUps
         PROVE  Inv'
    <3> DEFINE D == Shift(C, 3, 5, Given(taken))
    <3>1. /\ taken \in Seq(Inputs) /\ Rest(steering, taken) \in Seq(Inputs)
          /\ Singly(taken, GivenRoles) /\ Singly(Rest(steering, taken), GivenRoles)
          /\ Given(taken) \subseteq Given(steering)
          /\ Given(Rest(steering, taken)) = Given(steering) \ Given(taken)
      BY TakenIs
    <3>2. /\ Whole(D, sent, ~unheard, Given(messages))
          /\ D[3] = C[3] \ Given(taken) /\ D[5] = C[5] \cup Given(taken)
          /\ \A c \in 1..8 : c # 3 /\ c # 5 => D[c] = C[c]
      BY <2>6, <3>1, ShiftKeeps
    <3> HIDE DEF D
    <3>3. /\ D[1] = Others(p) \cup Pre(o) /\ D[2] = Given(nextTurn) /\ D[3] = Given(steering')
          /\ D[4] = Given(followUps') /\ D[5] = Given(taken) /\ D[6] = {}
          /\ D[7] = Given(log) \ {0} /\ D[8] = cleared
      BY <2>4, <2>6, <2>7, <2>11, <3>1, <3>2, NothingGiven
    <3>4. /\ steering' \in Seq(Inputs) /\ followUps' \in Seq(Inputs) /\ sent' \in Nat
          /\ Singly(steering', GivenRoles) /\ Singly(followUps', GivenRoles)
          /\ Whole(D, sent', ~unheard, Given(messages))
      BY <1>2, <2>9, <2>11, <3>1, <3>2
    <3> QED BY <1>2, <2>2, <2>5, <2>7, <2>8, <2>9, <2>11, <3>1, <3>3, <3>4, StartKeeps
  <2>12. ASSUME NEW taken \in Drains(followUps), StartRun(p, o, taken, "poll"),
                followUps' = Rest(followUps, taken), steering' = steering
         PROVE  Inv'
    <3> DEFINE D == Shift(C, 4, 5, Given(taken))
    <3>1. /\ taken \in Seq(Inputs) /\ Rest(followUps, taken) \in Seq(Inputs)
          /\ Singly(taken, GivenRoles) /\ Singly(Rest(followUps, taken), GivenRoles)
          /\ Given(taken) \subseteq Given(followUps)
          /\ Given(Rest(followUps, taken)) = Given(followUps) \ Given(taken)
      BY TakenIs
    <3>2. /\ Whole(D, sent, ~unheard, Given(messages))
          /\ D[4] = C[4] \ Given(taken) /\ D[5] = C[5] \cup Given(taken)
          /\ \A c \in 1..8 : c # 4 /\ c # 5 => D[c] = C[c]
      BY <2>6, <3>1, ShiftKeeps
    <3> HIDE DEF D
    <3>3. /\ D[1] = Others(p) \cup Pre(o) /\ D[2] = Given(nextTurn) /\ D[3] = Given(steering')
          /\ D[4] = Given(followUps') /\ D[5] = Given(taken) /\ D[6] = {}
          /\ D[7] = Given(log) \ {0} /\ D[8] = cleared
      BY <2>4, <2>6, <2>7, <2>12, <3>1, <3>2, NothingGiven
    <3>4. /\ steering' \in Seq(Inputs) /\ followUps' \in Seq(Inputs) /\ sent' \in Nat
          /\ Singly(steering', GivenRoles) /\ Singly(followUps', GivenRoles)
          /\ Whole(D, sent', ~unheard, Given(messages))
      BY <1>2, <2>9, <2>12, <3>1, <3>2
    <3> QED BY <1>2, <2>2, <2>5, <2>7, <2>8, <2>9, <2>12, <3>1, <3>3, <3>4, StartKeeps
  <2> QED BY <2>1, <2>10, <2>11, <2>12
<1> QED BY <1>3, <1>4

-----------------------------------------------------------------------------
(* The clients.                                                              *)

LEMMA PromptGoes ==
  ASSUME Inv, NEW p \in Callers, Prompt(p)
  PROVE  /\ op[p].pc = "idle" /\ sent' = sent + 1
         /\ UNCHANGED <<run, steering, followUps, mirror, last, attempt, connected, manual,
                        cleared, returned, unheard>>
         /\ \E o \in Ops : /\ o.n = sent + 1 /\ o.stage = "check" /\ o.prompts = <<>>
                           /\ o.pc = "idle" /\ GoesOn(p, o)
         /\ extras' \in Nat /\ Becomes(extras')
<1> DEFINE o == [IdleOp EXCEPT !.stage = "check", !.n = sent + 1]
           w == Flush(Now)
<1>1. /\ op[p].pc = "idle" /\ sent' = sent + 1
      /\ CheckCompaction(p, o, LastAnswer(w.messages), FALSE, w)
      /\ UNCHANGED <<run, steering, followUps, mirror, last, attempt, connected, manual, cleared,
                     returned, unheard>>
  BY DEF Prompt
<1>2. /\ Fits(Now, extras) /\ Stays(Now, Now) /\ extras \in Nat /\ op[p] \in Ops
      /\ OpFormed(op[p])
  BY NowFits
<1>3. Typed /\ Formed /\ Delivery /\ sent \in Nat
  BY DEF Inv, Typed
<1>4. Fits(w, extras) /\ Stays(Now, w)
  BY <1>2, FlushFits
<1>5. /\ o \in Ops /\ o.n = sent + 1 /\ o.stage = "check" /\ o.prompts = <<>>
      /\ o.pc = "idle"
  <2>1. IdleOp \in Ops /\ IdleOp.prompts = <<>> /\ IdleOp.pc = "idle"
    BY NothingGiven DEF IdleOp, Ops, OpPcs, Lasts, Whys
  <2> DEFINE k == sent + 1
  <2>2. k \in Nat
    BY <1>3
  <2> HIDE DEF k
  <2>3. LET q == [IdleOp EXCEPT !.stage = "check", !.n = k]
        IN  /\ q \in Ops /\ q.n = k /\ q.stage = "check" /\ q.prompts = <<>> /\ q.pc = "idle"
    BY <2>1, <2>2 DEF Ops
  <2> QED BY <2>3 DEF k
<1> HIDE DEF o, w
<1>6. GoesOn(p, o) /\ extras' \in Nat /\ Becomes(extras')
  BY <1>1, <1>2, <1>4, <1>5, CheckGoes
<1> QED BY <1>1, <1>5, <1>6

LEMMA PromptKeeps ==
  ASSUME Inv, NEW p \in Callers, Prompt(p)
  PROVE  Inv'
<1>1. /\ op[p].pc = "idle" /\ sent' = sent + 1
      /\ UNCHANGED <<run, steering, followUps, mirror, last, attempt, connected, manual, cleared,
                     returned, unheard>>
  BY PromptGoes
<1>2. op[p] \in Ops /\ OpFormed(op[p])
  BY NowFits
<1>3. Typed /\ Formed /\ Delivery /\ sent \in Nat
  BY DEF Inv, Typed
<1>4. PICK o \in Ops : /\ o.n = sent + 1 /\ o.stage = "check" /\ o.prompts = <<>>
                      /\ o.pc = "idle" /\ GoesOn(p, o)
  BY PromptGoes
<1>5. extras' \in Nat /\ Becomes(extras')
  BY PromptGoes
<1>6. PICK C : /\ Whole(C, sent, ~unheard, Given(messages))
               /\ C[1] = Preps /\ C[2] = Given(nextTurn) /\ C[3] = Given(steering)
               /\ C[4] = Given(followUps) /\ C[5] = Given(Coming(run))
               /\ C[6] = Given(Saving(run)) /\ C[7] = Given(log) \ {0} /\ C[8] = cleared
  BY CellsOf
<1>7. Prep(op[p]) = {} /\ Prep(o) = {sent + 1}
  <2>1. op[p].stage = "main"
    BY <1>1, <1>2 DEF OpFormed
  <2> QED BY <1>1, <1>4, <2>1 DEF Prep
<1>8. Preps = Others(p)
  BY <1>7 DEF Preps, Others
<1> DEFINE D == Entered(C, 1, sent + 1)
<1>9. /\ Whole(D, sent + 1, ~unheard, Given(messages))
       /\ D[1] = C[1] \cup {sent + 1} /\ \A c \in 1..8 : c # 1 => D[c] = C[c]
  <2>1. Whole(C, sent, ~unheard, Given(messages)) /\ sent \in Nat
    BY <1>3, <1>6
  <2>2. \A b \in 1..8 : Whole(Entered(C, b, sent + 1), sent + 1, ~unheard, Given(messages))
    BY <2>1, EnteredKeeps
  <2> DEFINE k == sent + 1
  <2>3. /\ Entered(C, 1, k)[1] = C[1] \cup {k}
        /\ \A c \in 1..8 : c # 1 => Entered(C, 1, k)[c] = C[c]
    BY EnteredIs
  <2> QED BY <2>2, <2>3
<1> HIDE DEF D
<1>10. /\ D[1] = Others(p) \cup Prep(o) /\ D[2] = Given(nextTurn) /\ D[3] = Given(steering)
       /\ D[4] = Given(followUps) /\ D[5] = Given(Coming(run)) /\ D[6] = Given(Saving(run))
       /\ D[7] = Given(log) \ {0} /\ D[8] = cleared
  BY <1>6, <1>7, <1>8, <1>9
<1>11. Apart(p, o)
  <2>1. \A q, r \in Callers : q # r => Prep(op[q]) \cap Prep(op[r]) = {}
    BY <1>3 DEF Delivery
  <2>2. C[1] \subseteq 1..sent
    BY <1>6 DEF Whole
  <2>3. sent + 1 \notin Others(p)
    BY <1>3, <1>6, <1>8, <2>2
  <2> QED BY <1>7, <2>1, <2>3 DEF Apart
<1>12. /\ Singly(nextTurn, GivenRoles) /\ Singly(steering, GivenRoles)
       /\ Singly(followUps, GivenRoles) /\ Singly(Coming(run), GivenRoles)
       /\ \A q \in Callers : Singly(op[q].prompts, GivenRoles)
       /\ 0 \notin Given(Saving(run))
  BY <1>3 DEF Delivery
<1>13. /\ run' = run /\ steering' = steering /\ followUps' = followUps /\ cleared' = cleared
       /\ unheard' = unheard /\ last' \in Lasts /\ manual' = manual /\ connected' = connected
  BY <1>1, <1>3 DEF Typed
<1>14. sent + 1 \in Nat /\ op[p].pc # "running" /\ o.pc # "preflight"
  BY <1>1, <1>3, <1>4
<1> QED BY <1>1, <1>3, <1>4, <1>5, <1>9, <1>10, <1>11, <1>12, <1>13, <1>14, CallInv

LEMMA AppendGiven ==
  ASSUME NEW queue \in Seq(Inputs), Singly(queue, GivenRoles), NEW m \in Inputs,
         m.n \notin Given(queue)
  PROVE  /\ Append(queue, m) \in Seq(Inputs) /\ Singly(Append(queue, m), GivenRoles)
         /\ Given(Append(queue, m)) = Given(queue) \cup {m.n}
<1>1. queue \in Seq(Records) /\ m \in Records /\ m.role \in GivenRoles
  BY InputsTold, InputTypes DEF Inputs
<1>2. /\ Told(Append(queue, m), GivenRoles)
           = Told(queue, GivenRoles) \cup (IF m.role \in GivenRoles THEN {m.n} ELSE {})
      /\ Singly(Append(queue, m), GivenRoles)
           <=> Singly(queue, GivenRoles)
               /\ (m.role \in GivenRoles => m.n \notin Told(queue, GivenRoles))
  BY <1>1, ToldAppend
<1>3. Append(queue, m) \in Seq(Inputs)
  BY AppendProperties
<1> QED BY <1>1, <1>2, <1>3 DEF Given

(* A new message is in none of the places yet.                               *)
LEMMA NewNumber ==
  ASSUME NEW C, NEW n, NEW all, NEW M, Whole(C, n, all, M), n \in Nat
  PROVE  (\A a \in 1..8 : n + 1 \notin C[a]) /\ n + 1 \notin M
<1>1. n + 1 \notin 1..n /\ n + 1 \notin 0..n
  OBVIOUS
<1> QED BY <1>1 DEF Whole

(* A message is put into a queue, or kept for the next turn.                 *)
LEMMA SaidKeeps ==
  ASSUME Inv, run' = run, op' = op, manual' = manual, messages' = messages, log' = log,
         pendingBash' = pendingBash, last' = last, connected' = connected, unheard' = unheard,
         cleared' = cleared, extras' = extras, sent' = sent + 1, NEW m \in Inputs, m.n = sent + 1,
         \/ nextTurn' = Append(nextTurn, m) /\ steering' = steering /\ followUps' = followUps
         \/ steering' = Append(steering, m) /\ nextTurn' = nextTurn /\ followUps' = followUps
         \/ followUps' = Append(followUps, m) /\ steering' = steering /\ nextTurn' = nextTurn
  PROVE  Inv'
<1>1. Typed /\ Formed /\ Delivery /\ sent \in Nat /\ extras \in Nat
  BY DEF Inv, Typed
<1>2. PICK C : /\ Whole(C, sent, ~unheard, Given(messages))
               /\ C[1] = Preps /\ C[2] = Given(nextTurn) /\ C[3] = Given(steering)
               /\ C[4] = Given(followUps) /\ C[5] = Given(Coming(run))
               /\ C[6] = Given(Saving(run)) /\ C[7] = Given(log) \ {0} /\ C[8] = cleared
  BY CellsOf
<1>3. \A b \in 1..8 : Whole(Entered(C, b, sent + 1), sent + 1, ~unheard, Given(messages))
  BY <1>1, <1>2, EnteredKeeps
<1>4. \A a \in 1..8 : sent + 1 \notin C[a]
  BY <1>1, <1>2, NewNumber
<1>5. /\ nextTurn \in Seq(Inputs) /\ steering \in Seq(Inputs) /\ followUps \in Seq(Inputs)
      /\ Singly(nextTurn, GivenRoles) /\ Singly(steering, GivenRoles)
      /\ Singly(followUps, GivenRoles) /\ Singly(Coming(run), GivenRoles)
      /\ 0 \notin Given(Saving(run))
  BY <1>1 DEF Typed, Delivery
<1>6. m.n \notin Given(nextTurn) /\ m.n \notin Given(steering) /\ m.n \notin Given(followUps)
  BY <1>2, <1>4
<1>7. /\ nextTurn' \in Seq(Inputs) /\ steering' \in Seq(Inputs) /\ followUps' \in Seq(Inputs)
      /\ Singly(nextTurn', GivenRoles) /\ Singly(steering', GivenRoles)
      /\ Singly(followUps', GivenRoles)
  <2>1. Append(nextTurn, m) \in Seq(Inputs) /\ Singly(Append(nextTurn, m), GivenRoles)
    BY <1>5, <1>6, AppendGiven
  <2>2. Append(steering, m) \in Seq(Inputs) /\ Singly(Append(steering, m), GivenRoles)
    BY <1>5, <1>6, AppendGiven
  <2>3. Append(followUps, m) \in Seq(Inputs) /\ Singly(Append(followUps, m), GivenRoles)
    BY <1>5, <1>6, AppendGiven
  <2> QED BY <1>5, <2>1, <2>2, <2>3
<1>8. Typed'
  BY <1>1, <1>7 DEF Typed
<1>9. Formed'
  BY <1>1, FormedThen DEF Formed, Active
<1>10. /\ Preps' = Preps
       /\ \A p, q \in Callers : p # q => Prep(op'[p]) \cap Prep(op'[q]) = {}
       /\ \A p \in Callers : Singly(op'[p].prompts, GivenRoles)
  BY <1>1, OpsStill
<1>11. extras <= extras' /\ Singly(Coming(run'), GivenRoles) /\ 0 \notin Given(Saving(run'))
  BY <1>1, <1>5
<1>12. CASE nextTurn' = Append(nextTurn, m) /\ steering' = steering /\ followUps' = followUps
  <2> DEFINE k == sent + 1
             D == Entered(C, 2, k)
  <2>1. D[2] = C[2] \cup {k} /\ \A c \in 1..8 : c # 2 => D[c] = C[c]
    BY EnteredIs
  <2>2. Whole(D, sent', ~unheard, Given(messages))
    BY <1>3
  <2>3. Given(nextTurn') = Given(nextTurn) \cup {k}
    BY <1>5, <1>6, <1>12, AppendGiven
  <2> HIDE DEF D, k
  <2>4. /\ D[1] = Preps' /\ D[2] = Given(nextTurn') /\ D[3] = Given(steering')
        /\ D[4] = Given(followUps') /\ D[5] = Given(Coming(run')) /\ D[6] = Given(Saving(run'))
        /\ D[7] = Given(log) \ {0} /\ D[8] = cleared'
    BY <1>2, <1>10, <1>12, <2>1, <2>3
  <2> QED BY <1>7, <1>8, <1>9, <1>10, <1>11, <2>2, <2>4, AssembleAny
<1>13. CASE steering' = Append(steering, m) /\ nextTurn' = nextTurn /\ followUps' = followUps
  <2> DEFINE k == sent + 1
             D == Entered(C, 3, k)
  <2>1. D[3] = C[3] \cup {k} /\ \A c \in 1..8 : c # 3 => D[c] = C[c]
    BY EnteredIs
  <2>2. Whole(D, sent', ~unheard, Given(messages))
    BY <1>3
  <2>3. Given(steering') = Given(steering) \cup {k}
    BY <1>5, <1>6, <1>13, AppendGiven
  <2> HIDE DEF D, k
  <2>4. /\ D[1] = Preps' /\ D[2] = Given(nextTurn') /\ D[3] = Given(steering')
        /\ D[4] = Given(followUps') /\ D[5] = Given(Coming(run')) /\ D[6] = Given(Saving(run'))
        /\ D[7] = Given(log) \ {0} /\ D[8] = cleared'
    BY <1>2, <1>10, <1>13, <2>1, <2>3
  <2> QED BY <1>7, <1>8, <1>9, <1>10, <1>11, <2>2, <2>4, AssembleAny
<1>14. CASE followUps' = Append(followUps, m) /\ steering' = steering /\ nextTurn' = nextTurn
  <2> DEFINE k == sent + 1
             D == Entered(C, 4, k)
  <2>1. D[4] = C[4] \cup {k} /\ \A c \in 1..8 : c # 4 => D[c] = C[c]
    BY EnteredIs
  <2>2. Whole(D, sent', ~unheard, Given(messages))
    BY <1>3
  <2>3. Given(followUps') = Given(followUps) \cup {k}
    BY <1>5, <1>6, <1>14, AppendGiven
  <2> HIDE DEF D, k
  <2>4. /\ D[1] = Preps' /\ D[2] = Given(nextTurn') /\ D[3] = Given(steering')
        /\ D[4] = Given(followUps') /\ D[5] = Given(Coming(run')) /\ D[6] = Given(Saving(run'))
        /\ D[7] = Given(log) \ {0} /\ D[8] = cleared'
    BY <1>2, <1>10, <1>14, <2>1, <2>3
  <2> QED BY <1>7, <1>8, <1>9, <1>10, <1>11, <2>2, <2>4, AssembleAny
<1> QED BY <1>12, <1>13, <1>14

LEMMA SayKeeps ==
  ASSUME Inv, Steer \/ FollowUp \/ CustomForNextTurn \/ CustomQueued
  PROVE  Inv'
<1>1. /\ run' = run /\ op' = op /\ manual' = manual /\ messages' = messages /\ log' = log
      /\ pendingBash' = pendingBash /\ last' = last /\ connected' = connected
      /\ unheard' = unheard /\ cleared' = cleared /\ extras' = extras /\ sent' = sent + 1
  BY DEF Steer, FollowUp, CustomForNextTurn, CustomQueued, Say, aside, agentVars
<1>2. sent \in Nat
  BY DEF Inv, Typed
<1> DEFINE Put(m) ==
      \/ nextTurn' = Append(nextTurn, m) /\ steering' = steering /\ followUps' = followUps
      \/ steering' = Append(steering, m) /\ nextTurn' = nextTurn /\ followUps' = followUps
      \/ followUps' = Append(followUps, m) /\ steering' = steering /\ nextTurn' = nextTurn
<1>3. \/ Put(User(sent + 1, "steer")) \/ Put(User(sent + 1, "followUp")) \/ Put(Custom(sent + 1))
  BY DEF Steer, FollowUp, CustomForNextTurn, CustomQueued, aside, agentVars
<1>4. /\ User(sent + 1, "steer") \in Inputs /\ User(sent + 1, "followUp") \in Inputs
      /\ Custom(sent + 1) \in Inputs
  BY <1>2, InputTypes
<1>5. /\ User(sent + 1, "steer").n = sent + 1 /\ User(sent + 1, "followUp").n = sent + 1
      /\ Custom(sent + 1).n = sent + 1
  BY DEF User, Custom, Message
<1>6. PICK m \in Inputs : m.n = sent + 1 /\ Put(m)
  BY <1>3, <1>4, <1>5
<1> QED BY <1>1, <1>6, SaidKeeps

LEMMA CustomTurnKeeps ==
  ASSUME Inv, NEW p \in Callers, CustomTurn(p)
  PROVE  Inv'
<1> DEFINE m == Custom(sent + 1)
           prompts == <<m>>
<1>1. /\ op[p].pc = "idle" /\ ~Active /\ sent' = sent + 1
      /\ StartRun(p, IdleOp, prompts, "poll")
      /\ UNCHANGED <<aside, steering, followUps, mirror, extras, cleared, returned, unheard>>
  BY DEF CustomTurn, Say
<1>2. Typed /\ Formed /\ Delivery /\ sent \in Nat /\ extras \in Nat
  BY DEF Inv, Typed
<1>3. m \in Inputs /\ m.n = sent + 1 /\ m.role = "custom"
  BY <1>2, InputTypes DEF Custom, Message
<1> HIDE DEF m
<1>4. prompts \in Seq(Inputs) /\ Singly(prompts, GivenRoles) /\ Given(prompts) = {sent + 1}
  <2>1. m \in Records
    BY <1>3, InputTypes
  <2>2. Singly(prompts, GivenRoles) /\ Told(prompts, GivenRoles) = {m.n}
    BY <1>3, <2>1, ToldOne DEF GivenRoles
  <2> QED BY <1>3, <2>2 DEF Given
<1> HIDE DEF prompts
<1>5. IdleOp \in Ops /\ IdleOp.stage = "main" /\ Pre(IdleOp) = {}
  BY NothingGiven DEF IdleOp, Ops, OpPcs, Lasts, Whys, Pre
<1>6. PICK C : /\ Whole(C, sent, ~unheard, Given(messages))
               /\ C[1] = Preps /\ C[2] = Given(nextTurn) /\ C[3] = Given(steering)
               /\ C[4] = Given(followUps) /\ C[5] = Given(Coming(run))
               /\ C[6] = Given(Saving(run)) /\ C[7] = Given(log) \ {0} /\ C[8] = cleared
  BY CellsOf
<1>7. Coming(run) = <<>> /\ Saving(run) = <<>>
  BY <1>1, OutIs
<1>8. Preps = Others(p)
  <2>1. op[p] \in Ops /\ OpFormed(op[p])
    BY NowFits
  <2>2. Prep(op[p]) = {}
    BY <1>1, <2>1 DEF OpFormed, Prep
  <2> QED BY <2>2 DEF Preps, Others
<1> DEFINE k == sent + 1
           D == Entered(C, 5, k)
<1>9. Whole(D, sent', ~unheard, Given(messages))
  <2>1. \A b \in 1..8 : Whole(Entered(C, b, sent + 1), sent + 1, ~unheard, Given(messages))
    BY <1>2, <1>6, EnteredKeeps
  <2> QED BY <1>1, <2>1
<1>10. D[5] = C[5] \cup {k} /\ \A c \in 1..8 : c # 5 => D[c] = C[c]
  BY EnteredIs
<1>11. Given(prompts) = {k}
  BY <1>4
<1>110. sent' \in Nat
  BY <1>1, <1>2
<1> HIDE DEF D, k
<1>12. /\ D[1] = Others(p) \cup Pre(IdleOp) /\ D[2] = Given(nextTurn) /\ D[3] = Given(steering')
       /\ D[4] = Given(followUps') /\ D[5] = Given(prompts) /\ D[6] = {}
       /\ D[7] = Given(log) \ {0} /\ D[8] = cleared
  BY <1>1, <1>5, <1>6, <1>7, <1>8, <1>10, <1>11, NothingGiven
<1>13. /\ manual' = manual /\ messages' = messages /\ log' = log /\ pendingBash' = pendingBash
       /\ last' = last /\ connected' = connected /\ unheard' = unheard /\ nextTurn' = nextTurn
       /\ cleared' = cleared /\ extras' = extras
       /\ steering' = steering /\ followUps' = followUps
  BY <1>1 DEF aside
<1>14. /\ steering' \in Seq(Inputs) /\ followUps' \in Seq(Inputs)
       /\ Singly(steering', GivenRoles) /\ Singly(followUps', GivenRoles) /\ "poll" \in Thens
  BY <1>2, <1>13 DEF Typed, Delivery, Thens
<1>15. Others(p) \cap Pre(IdleOp) = {} /\ IdleOp.stage # "check"
  BY <1>5
<1> QED BY <1>1, <1>4, <1>5, <1>9, <1>110, <1>12, <1>13, <1>14, <1>15, StartKeeps

(* A custom message straight into the transcript and the session.            *)
LEMMA CustomAppendedKeeps == ASSUME Inv, CustomAppended PROVE Inv'
<1> DEFINE m == Custom(sent + 1)
           k == sent + 1
<1>1. /\ ~Active /\ sent' = k /\ messages' = Append(messages, m) /\ log' = Append(log, m)
      /\ run' = run /\ steering' = steering /\ followUps' = followUps /\ nextTurn' = nextTurn
      /\ pendingBash' = pendingBash /\ last' = last /\ connected' = connected
      /\ manual' = manual /\ op' = op /\ extras' = extras /\ cleared' = cleared
      /\ unheard' = unheard
  BY DEF CustomAppended, Say
<1>2. Typed /\ Formed /\ Delivery /\ sent \in Nat /\ extras \in Nat /\ k \in Nat /\ k # 0
  BY DEF Inv, Typed
<1>3. m \in Records /\ m.n = k /\ m.role = "custom"
  <2>1. m \in Inputs /\ m.n = k /\ m.role = "custom"
    BY <1>2, InputTypes DEF Custom, Message
  <2> QED BY <2>1, InputTypes
<1> DEFINE C == Cells
           D == Entered(C, 7, k)
           T == Cells'
<1>4. /\ C[1] = Preps /\ C[2] = Given(nextTurn) /\ C[3] = Given(steering)
      /\ C[4] = Given(followUps) /\ C[5] = Given(Coming(run)) /\ C[6] = Given(Saving(run))
      /\ C[7] = Given(log) \ {0} /\ C[8] = cleared
  BY CellsAre
<1>5. Whole(C, sent, ~unheard, Given(messages))
  BY <1>2 DEF Delivery
<1>6. /\ T[1] = Preps' /\ T[2] = Given(nextTurn') /\ T[3] = Given(steering')
      /\ T[4] = Given(followUps') /\ T[5] = Given(Coming(run')) /\ T[6] = Given(Saving(run'))
      /\ T[7] = Given(log') \ {0} /\ T[8] = cleared' /\ T = Cells'
  BY CellsAreThen
<1> HIDE DEF C, T
<1>7. k \notin Given(messages) /\ k \notin Given(log)
  <2>1. (\A a \in 1..8 : k \notin C[a]) /\ k \notin Given(messages)
    BY <1>2, <1>5, NewNumber
  <2> QED BY <1>2, <1>4, <2>1
<1>8. Whole(D, sent', ~unheard, Given(messages))
  <2>1. \A b \in 1..8 : Whole(Entered(C, b, sent + 1), sent + 1, ~unheard, Given(messages))
    BY <1>2, <1>5, EnteredKeeps
  <2> QED BY <1>1, <2>1
<1>9. D[7] = C[7] \cup {k} /\ \A c \in 1..8 : c # 7 => D[c] = C[c]
  BY EnteredIs
<1> HIDE DEF D, m, k
<1>10. /\ messages \in Seq(Records) /\ log \in Seq(Records) /\ pendingBash \in Seq(Bashes)
       /\ Singly(messages, GivenRoles) /\ Singly(log, GivenRoles)
       /\ Singly(messages, BashRoles) /\ Singly(log, BashRoles) /\ Singly(pendingBash, BashRoles)
       /\ Told(messages, BashRoles) \cap Told(pendingBash, BashRoles) = {}
       /\ Told(log, BashRoles) \cap Told(pendingBash, BashRoles) = {}
       /\ \A s \in {messages, log, pendingBash} : Told(s, BashRoles) \subseteq 0..extras
  BY DEF Inv, Fits, Worlds, Now
<1>11. \A s \in {messages, log} :
         /\ Append(s, m) \in Seq(Records)
         /\ Told(Append(s, m), GivenRoles) = Told(s, GivenRoles) \cup {k}
         /\ Told(Append(s, m), BashRoles) = Told(s, BashRoles)
         /\ Singly(Append(s, m), GivenRoles) /\ Singly(Append(s, m), BashRoles)
  <2> TAKE s \in {messages, log}
  <2>1. s \in Seq(Records) /\ Singly(s, GivenRoles) /\ Singly(s, BashRoles)
        /\ k \notin Told(s, GivenRoles)
    BY <1>7, <1>10 DEF Given
  <2>2. m.role \in GivenRoles /\ m.role \notin BashRoles
    BY <1>3 DEF GivenRoles, BashRoles
  <2>3. /\ Append(s, m) \in Seq(Records)
        /\ \A R : /\ Told(Append(s, m), R) = Told(s, R) \cup (IF m.role \in R THEN {m.n} ELSE {})
                  /\ Singly(Append(s, m), R)
                       <=> Singly(s, R) /\ (m.role \in R => m.n \notin Told(s, R))
    BY <1>3, <2>1, ToldAppend
  <2> QED BY <1>3, <2>1, <2>2, <2>3
<1>12. Fits(Now, extras)'
  <2> DEFINE w == [messages |-> Append(messages, m), log |-> Append(log, m), held |-> pendingBash]
  <2>1. w \in Worlds
    BY <1>10, <1>11 DEF Worlds
  <2>2. Fits(w, extras)
    BY <1>10, <1>11, <2>1 DEF Fits
  <2>3. Now' = w
    BY <1>1 DEF Now
  <2> QED BY <1>1, <2>2, <2>3, FitsThen
<1>13. Typed'
  BY <1>1, <1>2 DEF Typed
<1>14. Formed'
  BY <1>1, <1>2, FormedThen DEF Formed, Active
<1>15. Given(log') = Given(log) \cup {k} /\ Given(messages') = Given(messages) \cup {k}
  BY <1>1, <1>11 DEF Given
<1>16. /\ Preps' = Preps
       /\ \A p, q \in Callers : p # q => Prep(op'[p]) \cap Prep(op'[q]) = {}
       /\ \A p \in Callers : Singly(op'[p].prompts, GivenRoles)
  BY <1>1, <1>2, OpsStill
<1>17. Alike(D, T)
  BY <1>1, <1>2, <1>4, <1>6, <1>9, <1>15, <1>16 DEF Alike
<1>18. Whole(T, sent', ~unheard', Given(messages'))
  <2>1. \A a \in 1..8 : T[a] = D[a]
    BY <1>17, AllEight
  <2>2. Given(messages') \subseteq Given(messages) \cup D[6] \cup D[7] \cup D[8] \cup {0}
    BY <1>9, <1>15
  <2>3. sent' \in Nat
    BY <1>1, <1>2
  <2> QED BY <1>1, <1>8, <2>1, <2>2, <2>3, CellsSame
<1>19. /\ Singly(nextTurn', GivenRoles) /\ Singly(steering', GivenRoles)
       /\ Singly(followUps', GivenRoles) /\ Singly(Coming(run'), GivenRoles)
       /\ 0 \notin Given(Saving(run'))
  BY <1>1, <1>2 DEF Delivery
<1>20. Delivery'
  BY <1>6, <1>16, <1>18, <1>19, DeliveryThen
<1> QED BY <1>12, <1>13, <1>14, <1>20 DEF Inv

(* No message moves but from the session into the transcript.                *)
LEMMA QuietKeeps ==
  ASSUME Inv, extras' \in Nat, Becomes(extras'), run' \in Runs, run'.pc = run.pc,
         run'.owner = run.owner, run'.out = run.out, run'.then = run.then,
         run'.heard = run.heard, op' \in [Callers -> Ops],
         \A p \in Callers : /\ op'[p].pc = op[p].pc /\ op'[p].stage = op[p].stage
                            /\ op'[p].n = op[p].n /\ op'[p].prompts = op[p].prompts
                            /\ op'[p].kept = op[p].kept,
         steering' = steering, followUps' = followUps, nextTurn' = nextTurn, sent' = sent,
         cleared' = cleared, unheard' = unheard, last' = last, connected' \in BOOLEAN,
         manual' \in Manuals, manual'.pc = "compacting" => manual'.kept > 0
  PROVE  Inv'
<1>1. Typed /\ Formed /\ Delivery /\ sent \in Nat
  BY DEF Inv, Typed
<1>2. Fits(Now, extras)'
  BY BecomesFits, FitsThen
<1>3. Typed'
  BY <1>1 DEF Typed
<1>4. Formed'
  <2>1. \A p \in Callers : OpFormed(op'[p])
    BY <1>1 DEF Formed, OpFormed
  <2>2. RunFormed(run') /\ (run'.pc = "save" => run'.heard \/ unheard')
    BY <1>1 DEF Formed, RunFormed
  <2>3. run'.pc # "none" => run'.owner \in Callers /\ op'[run'.owner].pc = "running"
    BY <1>1 DEF Formed, Active
  <2> QED BY <2>1, <2>2, <2>3, FormedThen
<1>5. Coming(run') = Coming(run) /\ Saving(run') = Saving(run)
  BY DEF Coming, Saving
<1>6. \A p \in Callers : Prep(op'[p]) = Prep(op[p])
  BY DEF Prep
<1>7. Preps' = Preps
  <2>1. Preps' = UNION {Prep(op'[p]) : p \in Callers}
    BY DEF Preps, Prep, Given, Told
  <2> QED BY <1>6, <2>1 DEF Preps
<1>8. /\ \A p, q \in Callers : p # q => Prep(op'[p]) \cap Prep(op'[q]) = {}
      /\ \A p \in Callers : Singly(op'[p].prompts, GivenRoles)
  BY <1>1, <1>6 DEF Delivery
<1>9. /\ Given(log') = Given(log)
      /\ Given(messages') \subseteq Given(messages) \cup Given(log)
  BY DEF Becomes, Become, Stays, Now, Given
<1> DEFINE C == Cells
           T == Cells'
<1>10. /\ C[1] = Preps /\ C[2] = Given(nextTurn) /\ C[3] = Given(steering)
       /\ C[4] = Given(followUps) /\ C[5] = Given(Coming(run)) /\ C[6] = Given(Saving(run))
       /\ C[7] = Given(log) \ {0} /\ C[8] = cleared
  BY CellsAre
<1>11. Whole(C, sent, ~unheard, Given(messages))
  BY <1>1 DEF Delivery
<1>12. /\ T[1] = Preps' /\ T[2] = Given(nextTurn') /\ T[3] = Given(steering')
       /\ T[4] = Given(followUps') /\ T[5] = Given(Coming(run')) /\ T[6] = Given(Saving(run'))
       /\ T[7] = Given(log') \ {0} /\ T[8] = cleared' /\ T = Cells'
  BY CellsAreThen
<1> HIDE DEF C, T
<1>13. Alike(C, T)
  BY <1>5, <1>7, <1>9, <1>10, <1>12 DEF Alike
<1>14. Whole(T, sent', ~unheard', Given(messages'))
  <2>1. \A a \in 1..8 : T[a] = C[a]
    BY <1>13, AllEight
  <2>2. Given(messages') \subseteq Given(messages) \cup C[6] \cup C[7] \cup C[8] \cup {0}
    BY <1>9, <1>10
  <2> QED BY <1>1, <1>11, <2>1, <2>2, CellsSame
<1>15. /\ Singly(nextTurn', GivenRoles) /\ Singly(steering', GivenRoles)
       /\ Singly(followUps', GivenRoles) /\ Singly(Coming(run'), GivenRoles)
       /\ 0 \notin Given(Saving(run'))
  BY <1>1, <1>5 DEF Delivery
<1>16. Delivery'
  BY <1>8, <1>12, <1>14, <1>15, DeliveryThen
<1> QED BY <1>2, <1>3, <1>4, <1>16 DEF Inv

(* A new bash result, put where it belongs.                                  *)
LEMMA BashAppended ==
  ASSUME NEW e \in Nat, NEW s \in Seq(Records), Told(s, BashRoles) \subseteq 0..e,
         Singly(s, GivenRoles), Singly(s, BashRoles)
  PROVE  LET t == Append(s, BashResult(e + 1))
         IN  /\ t \in Seq(Records) /\ Singly(t, GivenRoles) /\ Singly(t, BashRoles)
             /\ Told(t, GivenRoles) = Told(s, GivenRoles)
             /\ Told(t, BashRoles) = Told(s, BashRoles) \cup {e + 1}
<1> DEFINE m == BashResult(e + 1)
<1>1. m \in Bashes /\ m.n = e + 1
  BY RecordTypes
<1>2. m \in Records /\ m.role \in BashRoles /\ m.role \notin GivenRoles
  BY <1>1, InputTypes DEF Bashes, BashRoles, GivenRoles
<1> HIDE DEF m
<1>3. e + 1 \notin Told(s, BashRoles)
  OBVIOUS
<1>4. /\ Append(s, m) \in Seq(Records)
      /\ \A R : /\ Told(Append(s, m), R) = Told(s, R) \cup (IF m.role \in R THEN {m.n} ELSE {})
                /\ Singly(Append(s, m), R)
                     <=> Singly(s, R) /\ (m.role \in R => m.n \notin Told(s, R))
  BY <1>2, ToldAppend
<1>5. /\ Append(s, m) \in Seq(Records) /\ Singly(Append(s, m), GivenRoles)
      /\ Singly(Append(s, m), BashRoles)
      /\ Told(Append(s, m), GivenRoles) = Told(s, GivenRoles)
      /\ Told(Append(s, m), BashRoles) = Told(s, BashRoles) \cup {e + 1}
  BY <1>1, <1>2, <1>3, <1>4
<1> QED BY <1>5 DEF m

LEMMA RecordFits ==
  ASSUME NEW w, NEW e \in Nat, Fits(w, e)
  PROVE  LET v == Record(BashResult(e + 1), w)
         IN  Fits(v, e + 1) /\ Stays(w, v)
<1> DEFINE m == BashResult(e + 1)
<1>1. /\ w \in Worlds /\ w.messages \in Seq(Records) /\ w.log \in Seq(Records)
      /\ w.held \in Seq(Bashes)
      /\ Singly(w.messages, GivenRoles) /\ Singly(w.log, GivenRoles)
      /\ Singly(w.messages, BashRoles) /\ Singly(w.log, BashRoles) /\ Singly(w.held, BashRoles)
      /\ Told(w.messages, BashRoles) \cap Told(w.held, BashRoles) = {}
      /\ Told(w.log, BashRoles) \cap Told(w.held, BashRoles) = {}
      /\ Told(w.messages, BashRoles) \subseteq 0..e /\ Told(w.log, BashRoles) \subseteq 0..e
      /\ Told(w.held, BashRoles) \subseteq 0..e
  BY DEF Fits, Worlds
<1>2. 0..e \subseteq 0..(e + 1) /\ e + 1 \in 0..(e + 1) /\ e + 1 \notin 0..e
  OBVIOUS
<1>3. w.held \in Seq(Records) /\ Singly(w.held, GivenRoles)
  BY <1>1, HeldTold
<1>4. \A s \in {w.messages, w.log, w.held} :
        /\ Append(s, m) \in Seq(Records) /\ Singly(Append(s, m), GivenRoles)
        /\ Singly(Append(s, m), BashRoles)
        /\ Told(Append(s, m), GivenRoles) = Told(s, GivenRoles)
        /\ Told(Append(s, m), BashRoles) = Told(s, BashRoles) \cup {e + 1}
  <2> TAKE s \in {w.messages, w.log, w.held}
  <2>1. /\ s \in Seq(Records) /\ Told(s, BashRoles) \subseteq 0..e
        /\ Singly(s, GivenRoles) /\ Singly(s, BashRoles)
    BY <1>1, <1>3
  <2> QED BY <2>1, BashAppended
<1>5. m \in Bashes
  BY RecordTypes
<1> HIDE DEF m
<1>6. CASE Active
  <2> DEFINE v == [messages |-> w.messages, log |-> w.log, held |-> Append(w.held, m)]
  <2>1. Record(m, w) = v
    BY <1>1, <1>6 DEF Record, Worlds
  <2>2. Append(w.held, m) \in Seq(Bashes)
    BY <1>1, <1>5, AppendProperties
  <2>3. v \in Worlds
    BY <1>1, <2>2 DEF Worlds
  <2>4. Fits(v, e + 1)
    BY <1>1, <1>2, <1>4, <2>3 DEF Fits
  <2>5. Stays(w, v)
    BY DEF Stays
  <2> QED BY <2>1, <2>4, <2>5 DEF m
<1>7. CASE ~Active
  <2> DEFINE v == [messages |-> Append(w.messages, m), log |-> Append(w.log, m), held |-> w.held]
  <2>1. Record(m, w) = v
    BY <1>1, <1>7 DEF Record, Worlds
  <2>3. v \in Worlds
    BY <1>1, <1>4 DEF Worlds
  <2>4. Fits(v, e + 1)
    BY <1>1, <1>2, <1>4, <2>3 DEF Fits
  <2>5. Stays(w, v)
    BY <1>4 DEF Stays
  <2> QED BY <2>1, <2>4, <2>5 DEF m
<1> QED BY <1>6, <1>7

LEMMA RecordBashResultKeeps == ASSUME Inv, RecordBashResult PROVE Inv'
<1>1. /\ extras' = extras + 1 /\ Become(Record(BashResult(extras + 1), Now))
      /\ run' = run /\ steering' = steering /\ followUps' = followUps /\ nextTurn' = nextTurn
      /\ last' = last /\ connected' = connected /\ manual' = manual /\ op' = op /\ sent' = sent
      /\ cleared' = cleared /\ unheard' = unheard
  BY DEF RecordBashResult, Extra
<1>2. Fits(Now, extras) /\ Typed /\ Formed /\ extras \in Nat
  BY DEF Inv, Typed
<1> DEFINE v == Record(BashResult(extras + 1), Now)
<1>3. Fits(v, extras + 1) /\ Stays(Now, v) /\ Become(v)
  BY <1>1, <1>2, RecordFits
<1> HIDE DEF v
<1>4. Becomes(extras') /\ extras' \in Nat
  BY <1>1, <1>2, <1>3 DEF Becomes
<1>5. /\ run' \in Runs /\ op' \in [Callers -> Ops] /\ manual' \in Manuals
      /\ connected' \in BOOLEAN /\ (manual'.pc = "compacting" => manual'.kept > 0)
  BY <1>1, <1>2 DEF Typed, Formed
<1> QED BY <1>1, <1>4, <1>5, QuietKeeps

(* abort(), and what compact() does first.                                   *)
LEMMA CancelledIs ==
  ASSUME Typed, Cancelled
  PROVE  /\ run' \in Runs /\ run'.pc = run.pc /\ run'.owner = run.owner /\ run'.out = run.out
         /\ run'.then = run.then /\ run'.heard = run.heard /\ op' \in [Callers -> Ops]
         /\ \A p \in Callers : /\ op'[p].pc = op[p].pc /\ op'[p].stage = op[p].stage
                               /\ op'[p].n = op[p].n /\ op'[p].prompts = op[p].prompts
                               /\ op'[p].kept = op[p].kept
<1>1. run \in Runs /\ op \in [Callers -> Ops]
  BY DEF Typed
<1>2. run' = [run EXCEPT !.aborted = Active] /\ Active \in BOOLEAN
  BY DEF Cancelled, Active
<1>3. op' = [p \in Callers |-> [op[p] EXCEPT !.quiet = (op[p].pc = "sleeping")]]
  BY DEF Cancelled
<1>4. /\ run' \in Runs /\ run'.pc = run.pc /\ run'.owner = run.owner /\ run'.out = run.out
      /\ run'.then = run.then /\ run'.heard = run.heard
  BY <1>1, <1>2 DEF Runs
<1>5. \A p \in Callers : /\ op'[p] \in Ops
                         /\ op'[p].pc = op[p].pc /\ op'[p].stage = op[p].stage
                         /\ op'[p].n = op[p].n /\ op'[p].prompts = op[p].prompts
                         /\ op'[p].kept = op[p].kept
  <2> TAKE p \in Callers
  <2>1. op[p] \in Ops /\ op'[p] = [op[p] EXCEPT !.quiet = (op[p].pc = "sleeping")]
    BY <1>1, <1>3
  <2> QED BY <2>1 DEF Ops
<1>6. op' \in [Callers -> Ops]
  BY <1>3, <1>5
<1> QED BY <1>4, <1>5, <1>6

LEMMA SameBecomes ==
  ASSUME Inv, messages' = messages, log' = log, pendingBash' = pendingBash, extras' \in Nat,
         extras <= extras'
  PROVE  Becomes(extras')
<1>1. Fits(Now, extras) /\ Stays(Now, Now) /\ extras \in Nat
  BY NowFits
<1>2. Fits(Now, extras')
  BY <1>1, FitsLonger
<1>3. Become(Now)
  BY DEF Become, Now
<1> QED BY <1>1, <1>2, <1>3 DEF Becomes

LEMMA AbortKeeps == ASSUME Inv, Abort \/ Compact PROVE Inv'
<1>1. /\ Cancelled /\ extras' = extras + 1 /\ messages' = messages /\ log' = log
      /\ pendingBash' = pendingBash /\ steering' = steering /\ followUps' = followUps
      /\ nextTurn' = nextTurn /\ last' = last /\ sent' = sent /\ cleared' = cleared
      /\ unheard' = unheard
  BY DEF Abort, Compact, Extra, aside
<1>2. Typed /\ Formed /\ extras \in Nat
  BY DEF Inv, Typed
<1>3. /\ manual' \in Manuals /\ connected' \in BOOLEAN
      /\ (manual'.pc = "compacting" => manual'.kept > 0)
  <2>1. CASE Abort
    BY <1>2, <2>1 DEF Abort, aside, Typed, Formed
  <2>2. CASE Compact
    BY <1>2, <2>2 DEF Compact, Typed, Manuals
  <2> QED BY <2>1, <2>2
<1>4. extras' \in Nat /\ extras <= extras' /\ Becomes(extras')
  <2>1. extras' \in Nat /\ extras <= extras'
    BY <1>1, <1>2
  <2> QED BY <1>1, <2>1, SameBecomes
<1>5. /\ run' \in Runs /\ run'.pc = run.pc /\ run'.owner = run.owner /\ run'.out = run.out
      /\ run'.then = run.then /\ run'.heard = run.heard /\ op' \in [Callers -> Ops]
      /\ \A p \in Callers : /\ op'[p].pc = op[p].pc /\ op'[p].stage = op[p].stage
                            /\ op'[p].n = op[p].n /\ op'[p].prompts = op[p].prompts
                            /\ op'[p].kept = op[p].kept
  BY <1>1, <1>2, CancelledIs
<1> QED BY <1>1, <1>3, <1>4, <1>5, QuietKeeps

LEMMA CompactPreparedKeeps == ASSUME Inv, CompactPrepared PROVE Inv'
<1>1. /\ run' = run /\ steering' = steering /\ followUps' = followUps /\ nextTurn' = nextTurn
      /\ last' = last /\ op' = op /\ sent' = sent /\ extras' = extras /\ cleared' = cleared
      /\ unheard' = unheard /\ messages' = messages /\ log' = log /\ pendingBash' = pendingBash
  BY DEF CompactPrepared, rest, history
<1>2. Typed /\ Formed /\ extras \in Nat /\ Fits(Now, extras) /\ connected \in BOOLEAN
  BY DEF Inv, Typed
<1>3. /\ manual' \in Manuals /\ connected' \in BOOLEAN
      /\ (manual'.pc = "compacting" => manual'.kept > 0)
  <2>1. CASE \E k \in CutPoints(log) : manual' = [pc |-> "compacting", kept |-> k] /\ UNCHANGED connected
    <3>1. PICK k \in CutPoints(log) :
            manual' = [pc |-> "compacting", kept |-> k] /\ UNCHANGED connected
      BY <2>1
    <3>2. log \in Seq(Records)
      BY <1>2 DEF Fits, Worlds, Now
    <3>3. k \in Nat \ {0}
      BY <3>2, CutPointsAre
    <3> QED BY <1>2, <3>1, <3>3 DEF Manuals
  <2>2. CASE manual' = NoManual /\ connected' = TRUE
    BY <2>2 DEF NoManual, Manuals
  <2>3. \/ \E k \in CutPoints(log) : manual' = [pc |-> "compacting", kept |-> k] /\ UNCHANGED connected
        \/ manual' = NoManual /\ connected' = TRUE
    BY DEF CompactPrepared
  <2> QED BY <2>1, <2>2, <2>3
<1>4. Becomes(extras')
  BY <1>1, <1>2, SameBecomes
<1>5. run' \in Runs /\ op' \in [Callers -> Ops] /\ extras' \in Nat
  BY <1>1, <1>2 DEF Typed
<1> QED BY <1>1, <1>3, <1>4, <1>5, QuietKeeps

LEMMA CompactDoneKeeps == ASSUME Inv, CompactDone PROVE Inv'
<1>1. /\ run' = run /\ steering' = steering /\ followUps' = followUps /\ nextTurn' = nextTurn
      /\ last' = last /\ op' = op /\ sent' = sent /\ extras' = extras /\ cleared' = cleared
      /\ unheard' = unheard /\ manual.pc = "compacting" /\ manual' = NoManual
      /\ connected' = TRUE
      /\ \/ Become(Compacted(manual.kept, Now))
         \/ messages' = messages /\ log' = log /\ pendingBash' = pendingBash
  BY DEF CompactDone, rest, history
<1>2. Typed /\ Formed /\ extras \in Nat /\ Fits(Now, extras)
  BY DEF Inv, Typed
<1>3. manual' \in Manuals /\ connected' \in BOOLEAN /\ manual'.pc # "compacting"
  BY <1>1 DEF NoManual, Manuals
<1>4. Becomes(extras')
  <2>1. CASE Become(Compacted(manual.kept, Now))
    <3>1. manual.kept \in Nat \ {0}
      BY <1>1, <1>2 DEF Typed, Formed, Manuals
    <3>2. Fits(Compacted(manual.kept, Now), extras) /\ Stays(Now, Compacted(manual.kept, Now))
      BY <1>2, <3>1, CompactedFits
    <3> QED BY <1>1, <2>1, <3>2 DEF Becomes
  <2>2. CASE messages' = messages /\ log' = log /\ pendingBash' = pendingBash
    BY <1>1, <1>2, <2>2, SameBecomes
  <2> QED BY <1>1, <2>1, <2>2
<1>5. run' \in Runs /\ op' \in [Callers -> Ops] /\ extras' \in Nat
  BY <1>1, <1>2 DEF Typed
<1> QED BY <1>1, <1>3, <1>4, <1>5, QuietKeeps

(* clearQueue takes the messages out of both queues.                         *)
LEMMA NumbersGiven ==
  ASSUME NEW s \in Seq(Inputs), NEW t \in Seq(Inputs)
  PROVE  Range(NumbersOf(s \o t)) = Given(s) \cup Given(t)
<1>1. s \o t \in Seq(Inputs)
  BY ConcatProperties
<1>2. Given(s \o t) = {(s \o t)[i].n : i \in 1..Len(s \o t)}
  BY <1>1, InputsTold
<1>3. s \in Seq(Records) /\ t \in Seq(Records)
  BY InputsTold
<1>4. Given(s \o t) = Given(s) \cup Given(t)
  BY <1>3, ToldConcat DEF Given
<1>5. Range(NumbersOf(s \o t)) = {(s \o t)[i].n : i \in 1..Len(s \o t)}
  BY DEF Range, NumbersOf
<1> QED BY <1>2, <1>4, <1>5

LEMMA ClearQueueKeeps == ASSUME Inv, ClearQueue PROVE Inv'
<1>1. /\ run' = run /\ op' = op /\ manual' = manual /\ messages' = messages /\ log' = log
      /\ pendingBash' = pendingBash /\ last' = last /\ connected' = connected
      /\ unheard' = unheard /\ extras' = extras /\ sent' = sent /\ nextTurn' = nextTurn
      /\ steering' = <<>> /\ followUps' = <<>>
      /\ cleared' = cleared \cup Range(NumbersOf(steering \o followUps))
  BY DEF ClearQueue, aside
<1>2. Typed /\ Formed /\ Delivery /\ sent \in Nat /\ extras \in Nat
  BY DEF Inv, Typed
<1>3. cleared' = cleared \cup Given(steering) \cup Given(followUps)
  BY <1>1, <1>2, NumbersGiven DEF Typed
<1>4. PICK C : /\ Whole(C, sent, ~unheard, Given(messages))
               /\ C[1] = Preps /\ C[2] = Given(nextTurn) /\ C[3] = Given(steering)
               /\ C[4] = Given(followUps) /\ C[5] = Given(Coming(run))
               /\ C[6] = Given(Saving(run)) /\ C[7] = Given(log) \ {0} /\ C[8] = cleared
  BY CellsOf
<1> DEFINE E == Shift(C, 3, 8, C[3])
<1>5. /\ Whole(E, sent, ~unheard, Given(messages)) /\ E[3] = C[3] \ C[3] /\ E[8] = C[8] \cup C[3]
      /\ \A c \in 1..8 : c # 3 /\ c # 8 => E[c] = C[c]
  BY <1>4, ShiftKeeps
<1> HIDE DEF E
<1> DEFINE D == Shift(E, 4, 8, E[4])
<1>6. /\ Whole(D, sent, ~unheard, Given(messages)) /\ D[4] = E[4] \ E[4] /\ D[8] = E[8] \cup E[4]
      /\ \A c \in 1..8 : c # 4 /\ c # 8 => D[c] = E[c]
  BY <1>5, ShiftKeeps
<1> HIDE DEF D
<1>7. /\ Preps' = Preps
      /\ \A p, q \in Callers : p # q => Prep(op'[p]) \cap Prep(op'[q]) = {}
      /\ \A p \in Callers : Singly(op'[p].prompts, GivenRoles)
  BY <1>1, <1>2, OpsStill
<1>8. /\ E[1] = Preps /\ E[2] = Given(nextTurn) /\ E[3] = {} /\ E[4] = Given(followUps)
      /\ E[5] = Given(Coming(run)) /\ E[6] = Given(Saving(run)) /\ E[7] = Given(log) \ {0}
      /\ E[8] = cleared \cup Given(steering)
  BY <1>4, <1>5
<1>80. /\ D[1] = E[1] /\ D[2] = E[2] /\ D[3] = E[3] /\ D[4] = {} /\ D[5] = E[5]
       /\ D[6] = E[6] /\ D[7] = E[7] /\ D[8] = E[8] \cup E[4]
  BY <1>6
<1>9. /\ D[1] = Preps' /\ D[2] = Given(nextTurn') /\ D[3] = Given(steering')
      /\ D[4] = Given(followUps') /\ D[5] = Given(Coming(run')) /\ D[6] = Given(Saving(run'))
      /\ D[7] = Given(log) \ {0} /\ D[8] = cleared'
  BY <1>1, <1>3, <1>7, <1>8, <1>80, NothingGiven
<1>10. Typed' /\ steering' \in Seq(Inputs) /\ followUps' \in Seq(Inputs)
  BY <1>1, <1>2, NothingGiven DEF Typed
<1>11. Formed'
  BY <1>1, <1>2, FormedThen DEF Formed, Active
<1>12. /\ Singly(nextTurn', GivenRoles) /\ Singly(steering', GivenRoles)
       /\ Singly(followUps', GivenRoles) /\ Singly(Coming(run'), GivenRoles)
       /\ 0 \notin Given(Saving(run'))
  BY <1>1, <1>2, NothingGiven DEF Delivery
<1>13. extras <= extras' /\ sent' = sent
  BY <1>1, <1>2
<1> QED BY <1>1, <1>6, <1>7, <1>9, <1>10, <1>11, <1>12, <1>13, AssembleAny

-----------------------------------------------------------------------------
(* The invariant always holds.                                               *)

LEMMA InitInv == Init => Inv
<1> SUFFICES ASSUME Init PROVE Inv
  OBVIOUS
<1>1. /\ run = NoRun /\ steering = <<>> /\ followUps = <<>> /\ nextTurn = <<>>
      /\ pendingBash = <<>> /\ last = NoMessage /\ connected = TRUE
      /\ op = [p \in Callers |-> IdleOp] /\ manual = NoManual /\ sent = 0 /\ extras = 0
      /\ cleared = {} /\ unheard = FALSE /\ log = messages
      /\ messages \in {<<>>} \cup {Resumed(stop) : stop \in Resumes}
  BY DEF Init
<1>2. /\ messages \in Seq(Records) /\ Singly(messages, GivenRoles) /\ Given(messages) \subseteq {0}
      /\ Singly(messages, BashRoles) /\ Told(messages, BashRoles) = {}
  <2>1. CASE messages = <<>>
    BY <2>1, ToldNothing DEF Given
  <2>2. CASE \E stop \in Resumes : messages = Resumed(stop)
    <3>1. PICK stop \in Resumes : messages = Resumed(stop)
      BY <2>2
    <3> DEFINE a == User(0, "prompt")
               b == Answer(stop, 0)
    <3>2. stop \in Kinds /\ "prompt" \in Kinds
      BY DEF Kinds
    <3>3. /\ a \in Records /\ a.role = "user" /\ a.n = 0 /\ b \in Outs /\ b.role = "assistant"
      BY <3>2, RecordTypes
    <3>4. b \in Records
      BY <3>3, InputTypes
    <3>5. messages = Append(<<a>>, b)
      BY <3>1 DEF Resumed
    <3> HIDE DEF a, b
    <3>6. \A R : /\ <<a>> \in Seq(Records) /\ Singly(<<a>>, R)
                 /\ Told(<<a>>, R) = IF a.role \in R THEN {a.n} ELSE {}
      BY <3>3, ToldOne
    <3>7. \A R : /\ Append(<<a>>, b) \in Seq(Records)
                 /\ Told(Append(<<a>>, b), R) = Told(<<a>>, R) \cup (IF b.role \in R THEN {b.n} ELSE {})
                 /\ Singly(Append(<<a>>, b), R)
                      <=> Singly(<<a>>, R) /\ (b.role \in R => b.n \notin Told(<<a>>, R))
      BY <3>4, <3>6, ToldAppend
    <3>8. /\ a.role \in GivenRoles /\ a.role \notin BashRoles
          /\ b.role \notin GivenRoles /\ b.role \notin BashRoles
      BY <3>3 DEF GivenRoles, BashRoles
    <3> QED BY <3>3, <3>5, <3>6, <3>7, <3>8 DEF Given
  <2> QED BY <1>1, <2>1, <2>2
<1>3. IdleOp \in Ops /\ OpFormed(IdleOp) /\ Prep(IdleOp) = {} /\ IdleOp.prompts = <<>>
  BY NothingGiven DEF IdleOp, Ops, OpPcs, Lasts, Whys, OpFormed, Prep
<1>4. /\ NoRun \in Runs /\ RunFormed(NoRun) /\ Coming(NoRun) = <<>> /\ Saving(NoRun) = <<>>
      /\ NoRun.pc = "none"
  <2>1. <<>> \in Seq(Outs)
    BY EmptySeq
  <2> QED BY <2>1 DEF NoRun, Runs, RunPcs, Thens, RunFormed, Coming, Saving
<1>5. Typed
  BY <1>1, <1>3, <1>4, NothingGiven DEF Typed, NoManual, Manuals, Lasts
<1>6. Formed
  BY <1>1, <1>3, <1>4 DEF Formed, Active, NoManual
<1>7. Fits(Now, extras)
  <2>1. /\ <<>> \in Seq(Bashes) /\ Told(<<>>, BashRoles) = {} /\ Singly(<<>>, BashRoles)
    BY EmptySeq, ToldNothing
  <2>2. Now \in Worlds /\ Now.messages = messages /\ Now.log = messages /\ Now.held = <<>>
    BY <1>1, <1>2, <2>1 DEF Now, Worlds
  <2> QED BY <1>2, <2>1, <2>2 DEF Fits, Given
<1>8. \A p \in Callers : op[p] = IdleOp
  BY <1>1
<1>9. Preps = {}
  BY <1>3, <1>8 DEF Preps
<1> DEFINE C == Cells
<1>10. /\ C[1] = Preps /\ C[2] = Given(nextTurn) /\ C[3] = Given(steering)
       /\ C[4] = Given(followUps) /\ C[5] = Given(Coming(run)) /\ C[6] = Given(Saving(run))
       /\ C[7] = Given(log) \ {0} /\ C[8] = cleared
  BY CellsAre
<1> HIDE DEF C
<1>11. \A a \in 1..8 : C[a] = {}
  <2>1. /\ C[1] = {} /\ C[2] = {} /\ C[3] = {} /\ C[4] = {} /\ C[5] = {} /\ C[6] = {}
        /\ C[7] = {} /\ C[8] = {}
    BY <1>1, <1>2, <1>4, <1>9, <1>10, NothingGiven
  <2> QED BY <2>1
<1>12. Whole(C, sent, ~unheard, Given(messages))
  BY <1>1, <1>2, <1>11 DEF Whole
<1>13. Delivery
  BY <1>1, <1>3, <1>4, <1>8, <1>12, NothingGiven DEF Delivery, C
<1> QED BY <1>5, <1>6, <1>7, <1>13 DEF Inv

LEMMA StepInv == Inv /\ [Next]_vars => Inv'
<1> SUFFICES ASSUME Inv, [Next]_vars PROVE Inv'
  OBVIOUS
<1>1. CASE RunStep
  <2>1. CASE MessageStart
    BY <2>1, MessageStartKeeps
  <2>2. CASE MessageEnd
    BY <2>2, MessageEndKeeps
  <2>3. CASE SaveMessage
    BY <2>3, SaveMessageKeeps
  <2>4. CASE PollSteering
    BY <2>4, PollSteeringKeeps
  <2>5. CASE Request \/ RunTools
    BY <2>5, RequestKeeps
  <2>6. CASE PollBoth
    BY <2>6, PollBothKeeps
  <2>7. CASE FinishRun
    BY <2>7, FinishRunKeeps
  <2> QED BY <1>1, <2>1, <2>2, <2>3, <2>4, <2>5, <2>6, <2>7 DEF RunStep
<1>2. ASSUME NEW p \in Callers, OpStep(p) PROVE Inv'
  <2>1. CASE SendPrompt(p)
    BY <2>1, SendPromptKeeps
  <2>2. CASE ContinueRun(p)
    BY <2>2, ContinueRunKeeps
  <2>3. CASE AfterRun(p)
    BY <2>3, AfterRunContinues, OpInv
  <2>4. CASE WakeUp(p)
    BY <2>4, WakeUpContinues, OpInv
  <2>5. CASE RetryCancelled(p)
    BY <2>5, RetryCancelledContinues, OpInv
  <2>6. CASE AutoCompacted(p) \/ AutoCompactionFails(p)
    BY <2>6, AutoCompactedContinues, OpInv
  <2>7. CASE AutoCompactionPrepared(p)
    BY <2>7, AutoCompactionPreparedContinues, OpInv
  <2> QED BY <1>2, <2>1, <2>2, <2>3, <2>4, <2>5, <2>6, <2>7 DEF OpStep
<1>3. CASE CompactPrepared
  BY <1>3, CompactPreparedKeeps
<1>4. CASE CompactDone
  BY <1>4, CompactDoneKeeps
<1>5. CASE Client
  <2>1. ASSUME NEW p \in Callers, Prompt(p) PROVE Inv'
    BY <2>1, PromptKeeps
  <2>2. ASSUME NEW p \in Callers, CustomTurn(p) PROVE Inv'
    BY <2>2, CustomTurnKeeps
  <2>3. CASE Steer \/ FollowUp \/ CustomForNextTurn \/ CustomQueued
    BY <2>3, SayKeeps
  <2>4. CASE CustomAppended
    BY <2>4, CustomAppendedKeeps
  <2>5. CASE RecordBashResult
    BY <2>5, RecordBashResultKeeps
  <2>6. CASE ClearQueue
    BY <2>6, ClearQueueKeeps
  <2>7. CASE Abort \/ Compact
    BY <2>7, AbortKeeps
  <2> QED BY <1>5, <2>1, <2>2, <2>3, <2>4, <2>5, <2>6, <2>7 DEF Client
<1>6. CASE UNCHANGED vars
  <2>1. /\ run' = run /\ op' = op /\ manual' = manual /\ messages' = messages /\ log' = log
        /\ pendingBash' = pendingBash /\ last' = last /\ connected' = connected
        /\ unheard' = unheard /\ extras' = extras /\ sent' = sent /\ nextTurn' = nextTurn
        /\ steering' = steering /\ followUps' = followUps /\ cleared' = cleared
    BY <1>6 DEF vars, agentVars, history
  <2>2. Typed /\ Formed /\ extras' \in Nat /\ extras <= extras'
    BY <2>1 DEF Inv, Typed
  <2>3. Becomes(extras')
    BY <2>1, <2>2, SameBecomes
  <2>4. /\ run' \in Runs /\ op' \in [Callers -> Ops] /\ manual' \in Manuals
        /\ connected' \in BOOLEAN /\ (manual'.pc = "compacting" => manual'.kept > 0)
    BY <2>1, <2>2 DEF Typed, Formed
  <2> QED BY <2>1, <2>2, <2>3, <2>4, QuietKeeps
<1> QED BY <1>1, <1>2, <1>3, <1>4, <1>5, <1>6 DEF Next

LEMMA InvAlways == Spec => []Inv
BY InitInv, StepInv, PTL DEF Spec

(* Where the property looks for a message, and where the invariant does.     *)
LEMMA PlacesAre ==
  ASSUME Inv
  PROVE  LET P == Places
             C == Cells
         IN  /\ DOMAIN P = 1..7
             /\ P[1] = C[1] /\ P[2] = C[2] /\ P[3] = C[3] /\ P[4] = C[4]
             /\ P[5] = C[5] \cup C[6] /\ P[6] = C[7] /\ P[7] = C[8]
<1>1. Typed /\ Formed
  BY DEF Inv
<1>2. \A p \in Callers : Preparing(p) = Prep(op[p])
  <2> TAKE p \in Callers
  <2>1. op[p].prompts \in Seq(Inputs)
    BY <1>1 DEF Typed, Ops
  <2>2. Spoken(op[p].prompts) = Given(op[p].prompts)
    BY <2>1, InputsTold
  <2> QED BY <2>2 DEF Preparing, Prep
<1>3. UNION {Preparing(p) : p \in Callers} = Preps
  BY <1>2 DEF Preps
<1>4. /\ Spoken(nextTurn) = Given(nextTurn) /\ Spoken(steering) = Given(steering)
      /\ Spoken(followUps) = Given(followUps)
  BY <1>1, InputsTold DEF Typed
<1>5. Spoken(log) = Given(log) \ {0}
  <2>1. log \in Seq(Records)
    BY DEF Inv, Fits, Worlds, Now
  <2> QED BY <2>1, SpokenTold
<1>6. Spoken(run.out) = Given(Coming(run)) \cup Given(Saving(run))
  <2>1. /\ run \in Runs /\ RunFormed(run) /\ run.out \in Seq(Outs)
        /\ run.pc # "save" => Coming(run) = run.out /\ Saving(run) = <<>>
    BY OutIs
  <2>2. Spoken(run.out) = Given(run.out)
    <3>1. run.out \in Seq(Records)
      BY <2>1, SeqTypes
    <3> QED BY <2>1, <3>1, SpokenTold
  <2>3. CASE run.pc = "save"
    <3>1. run.out # <<>>
      BY <2>1, <2>3 DEF RunFormed
    <3>2. Given(run.out) = Given(<<run.out[1]>>) \cup Given(Tail(run.out))
      BY <3>1, HeadOut
    <3> QED BY <2>2, <2>3, <3>2 DEF Coming, Saving
  <2>4. CASE run.pc # "save"
    BY <2>1, <2>2, <2>4, NothingGiven
  <2> QED BY <2>3, <2>4
<1> DEFINE P == Places
           C == Cells
<1>7. /\ DOMAIN P = 1..7 /\ P[1] = UNION {Preparing(p) : p \in Callers}
      /\ P[2] = Spoken(nextTurn) /\ P[3] = Spoken(steering) /\ P[4] = Spoken(followUps)
      /\ P[5] = Spoken(run.out) /\ P[6] = Spoken(log) /\ P[7] = cleared
  BY DEF Places
<1>8. /\ C[1] = Preps /\ C[2] = Given(nextTurn) /\ C[3] = Given(steering)
      /\ C[4] = Given(followUps) /\ C[5] = Given(Coming(run)) /\ C[6] = Given(Saving(run))
      /\ C[7] = Given(log) \ {0} /\ C[8] = cleared
  BY CellsAre
<1> HIDE DEF P, C
<1>9. /\ DOMAIN P = 1..7
      /\ P[1] = C[1] /\ P[2] = C[2] /\ P[3] = C[3] /\ P[4] = C[4]
      /\ P[5] = C[5] \cup C[6] /\ P[6] = C[7] /\ P[7] = C[8]
  BY <1>3, <1>4, <1>5, <1>6, <1>7, <1>8
<1> QED BY <1>9 DEF P, C

LEMMA InvGives == Inv => EveryMessageOnce
<1> SUFFICES ASSUME Inv PROVE EveryMessageOnce
  OBVIOUS
<1> DEFINE P == Places
           C == Cells
<1>1. /\ DOMAIN P = 1..7
      /\ P[1] = C[1] /\ P[2] = C[2] /\ P[3] = C[3] /\ P[4] = C[4]
      /\ P[5] = C[5] \cup C[6] /\ P[6] = C[7] /\ P[7] = C[8]
  BY PlacesAre
<1>2. Whole(C, sent, ~unheard, Given(messages))
  BY DEF Inv, Delivery
<1> HIDE DEF C, P
<1>3. ASSUME NEW n \in 1..sent
      PROVE  LET in == {i \in DOMAIN P : n \in P[i]}
             IN  Cardinality(in) = 1 \/ (unheard /\ in = {})
  <2> DEFINE in == {i \in DOMAIN P : n \in P[i]}
             G(a) == IF a <= 5 THEN a ELSE a - 1
  <2>1. CASE \E a \in 1..8 : n \in C[a]
    <3>1. PICK a \in 1..8 : n \in C[a]
      BY <2>1
    <3>2. \A b \in 1..8 : n \in C[b] => b = a
      BY <1>2, <3>1 DEF Whole
    <3>3. in = {G(a)}
      BY <1>1, <3>1, <3>2
    <3> QED BY <3>3, FS_Singleton
  <2>2. CASE ~ \E a \in 1..8 : n \in C[a]
    <3>1. unheard
      BY <1>2, <2>2 DEF Whole
    <3>2. in = {}
      BY <1>1, <2>2
    <3> QED BY <3>1, <3>2
  <2> QED BY <2>1, <2>2
<1>4. ASSUME NEW s \in {log, messages} PROVE ~Repeats(s, {"user", "custom", "bashExecution"})
  <2>1. s \in Seq(Records) /\ Singly(s, GivenRoles) /\ Singly(s, BashRoles)
    BY DEF Inv, Fits, Worlds, Now
  <2>2. DOMAIN s = 1..Len(s) /\ Len(s) \in Nat
    BY <2>1
  <2>3. \A i, j \in 1..Len(s) : s[i] = s[j] /\ s[i].role \in GivenRoles => i = j
    BY <2>1 DEF Singly
  <2>4. \A i, j \in 1..Len(s) : s[i] = s[j] /\ s[i].role \in BashRoles => i = j
    BY <2>1 DEF Singly
  <2>5. \A i, j \in 1..Len(s) : i < j => i # j
    BY <2>2
  <2> QED BY <2>2, <2>3, <2>4, <2>5 DEF Repeats, GivenRoles, BashRoles
<1> QED BY <1>3, <1>4 DEF EveryMessageOnce, P

(* At every moment every message given to the session is in exactly one      *)
(* place: with the call that prepares it, kept for the next turn, in a queue *)
(* of the agent, with the run, in the session file, or given back by         *)
(* clearQueue or a rejected call; none is twice in the transcript or in the  *)
(* file, whoever prompts, retries, compacts or aborts.  Only a compact() that *)
(* has stopped listening to its run loses messages.                          *)
THEOREM SessionMessagesOnce == Spec => []EveryMessageOnce
BY InvAlways, InvGives, PTL

-----------------------------------------------------------------------------
(* The mirror.  Of a sequence it shows the numbers of the user messages that *)
(* came by one way, but for those of R.                                      *)

Visible(way, R)  == {x \in Records : x.role = "user" /\ x.kind = way /\ x.n \notin R}
Shows(s, way, R) == NumbersOf(Only(s, Visible(way, R)))
Ways             == {"steer", "followUp"}

(* What is given by one way, and what is given as no user message at all.    *)
Sent(way) == {m \in Records : m.role = "user" => m.kind = way}
Customs   == {m \in Records : m.role = "custom"}

LEMMA NumbersAre ==
  ASSUME NEW s \in Seq(Records)
  PROVE  /\ NumbersOf(s) \in Seq(Nat) /\ Len(NumbersOf(s)) = Len(s)
         /\ \A i \in 1..Len(s) : NumbersOf(s)[i] = s[i].n
<1>1. Len(s) \in Nat /\ \A i \in 1..Len(s) : s[i].n \in Nat
  <2>1. \A i \in 1..Len(s) : s[i] \in Records
    OBVIOUS
  <2> QED BY <2>1 DEF Records
<1> QED BY <1>1 DEF NumbersOf

LEMMA NumbersConcat ==
  ASSUME NEW s \in Seq(Records), NEW t \in Seq(Records)
  PROVE  NumbersOf(s \o t) = NumbersOf(s) \o NumbersOf(t)
<1> DEFINE u == s \o t
           a == NumbersOf(u)
           b == NumbersOf(s)
           c == NumbersOf(t)
           d == b \o c
<1>1. /\ u \in Seq(Records) /\ Len(u) = Len(s) + Len(t) /\ Len(s) \in Nat /\ Len(t) \in Nat
      /\ \A i \in 1..Len(s) + Len(t) : u[i] = IF i <= Len(s) THEN s[i] ELSE t[i - Len(s)]
  BY ConcatProperties, LenProperties
<1>2. /\ a \in Seq(Nat) /\ Len(a) = Len(s) + Len(t) /\ \A i \in 1..Len(s) + Len(t) : a[i] = u[i].n
  <2> HIDE DEF u
  <2> QED BY <1>1, NumbersAre
<1>3. /\ b \in Seq(Nat) /\ Len(b) = Len(s) /\ \A i \in 1..Len(s) : b[i] = s[i].n
      /\ c \in Seq(Nat) /\ Len(c) = Len(t) /\ \A i \in 1..Len(t) : c[i] = t[i].n
  BY NumbersAre
<1> HIDE DEF a, b, c, u
<1>4. /\ d \in Seq(Nat) /\ Len(d) = Len(s) + Len(t)
      /\ \A i \in 1..Len(s) + Len(t) : d[i] = IF i <= Len(s) THEN b[i] ELSE c[i - Len(s)]
  <2>1. /\ d \in Seq(Nat) /\ Len(d) = Len(b) + Len(c)
        /\ \A i \in 1..Len(b) + Len(c) : d[i] = IF i <= Len(b) THEN b[i] ELSE c[i - Len(b)]
    BY <1>3, ConcatProperties
  <2> QED BY <1>3, <2>1
<1> HIDE DEF d
<1>5. \A i \in 1..Len(s) + Len(t) : a[i] = d[i]
  <2> TAKE i \in 1..Len(s) + Len(t)
  <2>1. CASE i <= Len(s)
    <3>1. i \in 1..Len(s)
      BY <1>1, <2>1
    <3> QED BY <1>1, <1>2, <1>3, <1>4, <2>1, <3>1
  <2>2. CASE ~(i <= Len(s))
    <3>1. i - Len(s) \in 1..Len(t)
      BY <1>1, <2>2
    <3> QED BY <1>1, <1>2, <1>3, <1>4, <2>2, <3>1
  <2> QED BY <2>1, <2>2
<1>6. a = d
  BY <1>2, <1>4, <1>5, SeqEqual
<1> QED BY <1>6 DEF a, b, c, d, u

LEMMA ShowsConcat ==
  ASSUME NEW s \in Seq(Records), NEW t \in Seq(Records), NEW way, NEW R
  PROVE  /\ s \o t \in Seq(Records)
         /\ Shows(s, way, R) \in Seq(Nat) /\ Shows(t, way, R) \in Seq(Nat)
         /\ Shows(s \o t, way, R) = Shows(s, way, R) \o Shows(t, way, R)
<1> DEFINE kept == Visible(way, R)
           a == Only(s, kept)
           b == Only(t, kept)
<1>1. s \o t \in Seq(Records) /\ Only(s \o t, kept) = a \o b
  BY OnlyConcat, ConcatProperties
<1>2. a \in Seq(Records) /\ b \in Seq(Records)
  BY OnlyPicks
<1> HIDE DEF a, b, kept
<1>3. NumbersOf(a) \in Seq(Nat) /\ NumbersOf(b) \in Seq(Nat)
      /\ NumbersOf(a \o b) = NumbersOf(a) \o NumbersOf(b)
  BY <1>2, NumbersAre, NumbersConcat
<1> QED BY <1>1, <1>3 DEF Shows, a, b, kept

LEMMA ShowsNothing ==
  ASSUME NEW s \in Seq(Records), NEW way, NEW R,
         \A i \in 1..Len(s) : s[i].role = "user" /\ s[i].kind = way => s[i].n \in R
  PROVE  Shows(s, way, R) = <<>>
<1>1. \A i \in 1..Len(s) : s[i] \notin Visible(way, R)
  BY DEF Visible
<1>2. Only(s, Visible(way, R)) = <<>>
  BY <1>1, OnlyNone
<1>3. NumbersOf(<<>>) = <<>>
  BY DEF NumbersOf
<1> QED BY <1>2, <1>3 DEF Shows

LEMMA ShowsOne ==
  ASSUME NEW m \in Records, NEW way, NEW R
  PROVE  /\ <<m>> \in Seq(Records)
         /\ Shows(<<m>>, way, R) = IF m.role = "user" /\ m.kind = way /\ m.n \notin R
                                   THEN <<m.n>> ELSE <<>>
<1> DEFINE s == <<m>>
<1>1. s \in Seq(Records) /\ Len(s) = 1 /\ s[1] = m
  OBVIOUS
<1>2. NumbersOf(<<m>>) = <<m.n>>
  BY DEF NumbersOf
<1> HIDE DEF s
<1>3. CASE m.role = "user" /\ m.kind = way /\ m.n \notin R
  <2>1. \A i \in 1..Len(s) : s[i] \in Visible(way, R)
    BY <1>1, <1>3 DEF Visible
  <2>2. Only(s, Visible(way, R)) = s
    BY <1>1, <2>1, OnlyAll
  <2> QED BY <1>1, <1>2, <1>3, <2>2 DEF Shows, s
<1>4. CASE ~(m.role = "user" /\ m.kind = way /\ m.n \notin R)
  <2>1. \A i \in 1..Len(s) : s[i].role = "user" /\ s[i].kind = way => s[i].n \in R
    BY <1>1, <1>4
  <2>2. Shows(s, way, R) = <<>>
    BY <1>1, <2>1, ShowsNothing
  <2> QED BY <1>1, <1>4, <2>2 DEF s
<1> QED BY <1>1, <1>3, <1>4 DEF s

(* What is shown are numbers of user messages that are there.                *)
LEMMA ShowsTold ==
  ASSUME NEW s \in Seq(Records), NEW way, NEW R
  PROVE  /\ Shows(s, way, R) \in Seq(Nat)
         /\ Range(Shows(s, way, R)) \subseteq Given(s)
         /\ \A i \in 1..Len(s) : s[i].role = "user" /\ s[i].kind = way
                                   => s[i].n \in R \cup Range(Shows(s, way, R))
<1> DEFINE kept == Visible(way, R)
           t == Only(s, kept)
<1>1. t \in Seq(Records) /\ Len(t) \in Nat
  BY OnlyPicks, LenProperties
<1>2. PICK g : Picks(g, t, s, kept, Len(s))
  BY OnlyPicks
<1> HIDE DEF t
<1>3. NumbersOf(t) \in Seq(Nat) /\ Len(NumbersOf(t)) = Len(t)
      /\ \A i \in 1..Len(t) : NumbersOf(t)[i] = t[i].n
  BY <1>1, NumbersAre
<1>4. Shows(s, way, R) = NumbersOf(t)
  BY DEF Shows, t
<1>5. Range(NumbersOf(t)) \subseteq Given(s)
  <2> SUFFICES ASSUME NEW i \in 1..Len(t) PROVE t[i].n \in Given(s)
    BY <1>3 DEF Range
  <2>1. g[i] \in 1..Len(s) /\ s[g[i]] = t[i] /\ t[i] \in kept
    BY <1>2 DEF Picks
  <2>2. t[i].role \in GivenRoles
    BY <2>1 DEF Visible, GivenRoles
  <2> QED BY <2>1, <2>2 DEF Given, Told
<1>6. ASSUME NEW i \in 1..Len(s), s[i].role = "user", s[i].kind = way, s[i].n \notin R
      PROVE  s[i].n \in Range(NumbersOf(t))
  <2>1. s[i] \in Records
    OBVIOUS
  <2>2. s[i] \in kept
    BY <1>6, <2>1 DEF Visible
  <2> HIDE DEF kept
  <2>3. PICK j \in 1..Len(t) : g[j] = i
    BY <1>2, <2>2 DEF Picks
  <2>4. t[j] = s[i]
    BY <1>2, <2>3 DEF Picks
  <2>5. j \in DOMAIN NumbersOf(t) /\ NumbersOf(t)[j] = s[i].n
    BY <1>3, <2>3, <2>4
  <2> QED BY <2>5 DEF Range
<1> QED BY <1>3, <1>4, <1>5, <1>6

LEMMA ShowsAgree ==
  ASSUME NEW s \in Seq(Records), NEW way, NEW R, NEW T,
         \A i \in 1..Len(s) : s[i].role = "user" /\ s[i].kind = way => (s[i].n \in R <=> s[i].n \in T)
  PROVE  Shows(s, way, R) = Shows(s, way, T)
<1>1. \A i \in 1..Len(s) : s[i] \in Visible(way, R) <=> s[i] \in Visible(way, T)
  BY DEF Visible
<1>2. Only(s, Visible(way, R)) = Only(s, Visible(way, T))
  BY <1>1, OnlyAgrees
<1> QED BY <1>2 DEF Shows

(* Nothing is shown of what came another way.                                *)
LEMMA ShowsSent ==
  ASSUME NEW s \in Seq(Records), NEW way, NEW other, way # other, NEW R,
         s \in Seq(Sent(other)) \cup Seq(Customs)
  PROVE  Shows(s, way, R) = <<>>
<1>1. \A i \in 1..Len(s) : s[i].role = "user" => s[i].kind # way
  <2>1. CASE s \in Seq(Sent(other))
    <3>1. \A i \in 1..Len(s) : s[i] \in Sent(other)
      BY <2>1
    <3> QED BY <3>1 DEF Sent
  <2>2. CASE s \in Seq(Customs)
    <3>1. \A i \in 1..Len(s) : s[i] \in Customs
      BY <2>2
    <3> QED BY <3>1 DEF Customs
  <2> QED BY <2>1, <2>2
<1> QED BY <1>1, ShowsNothing

(* What a run has still to start, and what is to be seen of it and of a      *)
(* queue.                                                                    *)
Left(r) == IF r.out = <<>> \/ r.pc = "start" THEN r.out ELSE Tail(r.out)
View(r, queue, way, R) == Shows(Left(r), way, R) \o Shows(queue, way, R)

LEMMA LeftIs ==
  ASSUME Inv
  PROVE  /\ Left(run) \in Seq(Records) /\ Left(run) \in Seq(Outs)
         /\ Given(Left(run)) \subseteq Given(Coming(run))
         /\ (~Active \/ run.pc \in Thens => Left(run) = <<>>)
         /\ Left(run) = NotStarted
<1>1. /\ run \in Runs /\ RunFormed(run) /\ run.out \in Seq(Outs)
      /\ ~Active => run.out = <<>>
      /\ run.pc \in Thens => run.out = <<>>
  BY OutIs
<1>2. run.out # <<>> => Tail(run.out) \in Seq(Outs) /\ Given(Tail(run.out)) \subseteq Given(run.out)
  BY HeadOut
<1>3. Left(run) \in Seq(Outs) /\ Given(Left(run)) \subseteq Given(Coming(run))
  BY <1>1, <1>2 DEF Left, Coming, RunFormed
<1>4. Left(run) \in Seq(Records)
  BY <1>3, SeqTypes
<1>5. Left(run) = NotStarted
  BY DEF Left, NotStarted
<1> QED BY <1>1, <1>3, <1>4, <1>5 DEF Left

LEMMA HeadAndTail ==
  ASSUME NEW S, NEW s \in Seq(S), s # <<>>
  PROVE  s = <<s[1]>> \o Tail(s) /\ s[1] \in S /\ Tail(s) \in Seq(S)
<1>1. /\ Len(s) \in Nat \ {0} /\ s[1] \in S
      /\ SubSeq(s, 1, 1) = <<s[1]>> /\ SubSeq(s, 2, Len(s)) = Tail(s)
  BY FirstOfSeq
<1>2. s = SubSeq(s, 1, 1) \o SubSeq(s, 1 + 1, Len(s))
  BY <1>1
<1> QED BY <1>1, <1>2

LEMMA DeliverLeft ==
  ASSUME NEW r \in Runs, NEW out \in Seq(Outs), NEW then \in Thens
  PROVE  LET d == Deliver(r, out, then)
         IN  \A way, R : Shows(Left(d), way, R) = Shows(out, way, R)
<1> DEFINE d == Deliver(r, out, then)
           pc == IF out = <<>> THEN then ELSE IF out[1].role = "user" THEN "start" ELSE "end"
<1>1. d.out = out /\ d.pc = pc
  BY DEF Deliver, Runs
<1> HIDE DEF d
<1>2. CASE out = <<>> \/ out[1].role = "user"
  <2>1. Left(d) = out
    BY <1>1, <1>2 DEF Left
  <2> QED BY <2>1 DEF d
<1>3. CASE out # <<>> /\ out[1].role # "user"
  <2>1. Left(d) = Tail(out)
    BY <1>1, <1>3 DEF Left
  <2>2. out = <<out[1]>> \o Tail(out) /\ out[1] \in Outs /\ Tail(out) \in Seq(Outs)
    BY <1>3, HeadAndTail
  <2>3. out[1] \in Records /\ Tail(out) \in Seq(Records)
    BY <2>2, InputTypes, SeqTypes
  <2> SUFFICES ASSUME NEW way, NEW R PROVE Shows(Tail(out), way, R) = Shows(out, way, R)
    BY <2>1 DEF d
  <2> DEFINE h == <<out[1]>>
             t == Tail(out)
  <2>4. h \in Seq(Records) /\ Shows(h, way, R) = <<>>
    BY <1>3, <2>3, ShowsOne
  <2>5. t \in Seq(Records) /\ out = h \o t
    BY <2>2, <2>3
  <2> HIDE DEF h, t
  <2>6. Shows(h \o t, way, R) = Shows(h, way, R) \o Shows(t, way, R) /\ Shows(t, way, R) \in Seq(Nat)
    <3>1. h \in Seq(Records) /\ t \in Seq(Records)
      BY <2>4, <2>5
    <3> QED BY ONLY <3>1, ShowsConcat
  <2>7. <<>> \o Shows(t, way, R) = Shows(t, way, R)
    BY <2>6
  <2> QED BY <2>4, <2>5, <2>6, <2>7 DEF t
<1> QED BY <1>2, <1>3

Mirrors == [steering : Seq(Nat), followUps : Seq(Nat)]

Marked ==
  /\ steering \in Seq(Sent("steer")) /\ followUps \in Seq(Sent("followUp"))
  /\ nextTurn \in Seq(Customs)
  /\ \A p \in Callers : op[p].prompts \in Seq(Sent("prompt"))
  /\ mirror \in Mirrors

Mirrored ==
  ~unheard => /\ returned \subseteq 1..sent
              /\ mirror.steering = View(run, steering, "steer", returned)
              /\ mirror.followUps = View(run, followUps, "followUp", returned)

LEMMA MirroredThen ==
  ASSUME ~unheard' => /\ returned' \subseteq 1..sent'
                      /\ mirror'.steering = View(run', steering', "steer", returned')
                      /\ mirror'.followUps = View(run', followUps', "followUp", returned')
  PROVE  Mirrored'
BY DEF Mirrored, View, Left, Shows, NumbersOf, Only, Visible, Records

(* A step that changes neither what is to be seen nor what is shown.         *)
LEMMA ViewStill ==
  ASSUME Inv, Mirrored, mirror' = mirror, returned' = returned, unheard' = unheard \/ unheard' = TRUE,
         sent' \in Nat, sent <= sent',
         \A R : /\ View(run', steering', "steer", R) = View(run, steering, "steer", R)
                /\ View(run', followUps', "followUp", R) = View(run, followUps, "followUp", R)
  PROVE  Mirrored'
<1> SUFFICES ASSUME ~unheard'
             PROVE  /\ returned' \subseteq 1..sent'
                    /\ mirror'.steering = View(run', steering', "steer", returned')
                    /\ mirror'.followUps = View(run', followUps', "followUp", returned')
  BY MirroredThen
<1>1. ~unheard /\ sent \in Nat /\ returned \subseteq 1..sent
  BY DEF Mirrored, Inv, Typed
<1>2. 1..sent \subseteq 1..sent'
  BY <1>1
<1> QED BY <1>1, <1>2 DEF Mirrored

LEMMA MarkedThen ==
  ASSUME steering' \in Seq(Sent("steer")), followUps' \in Seq(Sent("followUp")),
         nextTurn' \in Seq(Customs), \A p \in Callers : op'[p].prompts \in Seq(Sent("prompt")),
         mirror' \in Mirrors
  PROVE  Marked'
BY DEF Marked

LEMMA NothingSent ==
  <<>> \in Seq(Customs) /\ \A way : <<>> \in Seq(Sent(way))
BY EmptySeq

LEMMA PromptsThen ==
  ASSUME Typed, Marked, NEW p \in Callers, NEW q, op' = [op EXCEPT ![p] = q],
         q.prompts \in Seq(Sent("prompt"))
  PROVE  \A r \in Callers : op'[r].prompts \in Seq(Sent("prompt"))
BY DEF Typed, Marked

LEMMA GoesMarked ==
  ASSUME Typed, Marked, NEW p \in Callers, NEW o \in Ops, GoesOn(p, o)
  PROVE  /\ \A r \in Callers : op'[r].prompts \in Seq(Sent("prompt"))
         /\ nextTurn' \in Seq(Customs)
<1>1. nextTurn \in Seq(Customs)
  BY DEF Marked
<1>2. CASE Ends(p, o)
  <2>1. op' = [op EXCEPT ![p] = IdleOp] /\ nextTurn' = nextTurn
    BY <1>2 DEF Ends
  <2>2. IdleOp.prompts \in Seq(Sent("prompt"))
    BY NothingSent DEF IdleOp
  <2> QED BY <1>1, <2>1, <2>2, PromptsThen
<1>3. CASE Builds(p, o)
  <2> DEFINE u == User(o.n, "prompt")
             t == <<u>>
             prompts == t \o nextTurn
             q == [o EXCEPT !.stage = "main", !.pc = "preflight", !.prompts = prompts]
  <2>1. op' = [op EXCEPT ![p] = q] /\ nextTurn' = <<>>
    BY <1>3 DEF Builds
  <2>2. u \in Sent("prompt")
    <3>1. o.n \in Nat /\ "prompt" \in Kinds
      BY DEF Ops, Kinds
    <3> QED BY <3>1, RecordTypes DEF Sent
  <2>3. nextTurn \in Seq(Sent("prompt"))
    <3>1. Customs \subseteq Sent("prompt")
      BY DEF Customs, Sent
    <3> QED BY <1>1, <3>1, SeqMonotonic
  <2>4. t \in Seq(Sent("prompt"))
    <3> HIDE DEF u
    <3> QED BY <2>2
  <2>5. prompts \in Seq(Sent("prompt"))
    <3> HIDE DEF t
    <3> QED BY <2>3, <2>4, ConcatProperties
  <2>6. q.prompts = prompts
    <3> HIDE DEF prompts
    <3> QED BY DEF Ops
  <2> HIDE DEF q
  <2> QED BY <2>1, <2>5, <2>6, NothingSent, PromptsThen
<1>4. CASE Waits(p, o)
  <2>1. PICK q \in Ops : op' = [op EXCEPT ![p] = q] /\ q.pc # "preflight" /\ OpFormed(q)
    BY <1>4 DEF Waits
  <2>2. q.prompts \in Seq(Sent("prompt"))
    BY <2>1, NothingSent DEF OpFormed
  <2>3. nextTurn' = nextTurn
    BY <1>4 DEF Waits
  <2> QED BY <1>1, <2>1, <2>2, <2>3, PromptsThen
<1> QED BY <1>2, <1>3, <1>4 DEF GoesOn

LEMMA DrainsSent ==
  ASSUME NEW S, NEW queue \in Seq(S), NEW taken \in Drains(queue)
  PROVE  taken \in Seq(S) /\ Rest(queue, taken) \in Seq(S)
<1>1. Len(queue) \in Nat
  BY LenProperties
<1>2. CASE queue = <<>>
  <2>1. taken = <<>>
    BY <1>2 DEF Drains
  <2>2. Rest(queue, taken) = <<>>
    BY <1>2, <2>1 DEF Rest
  <2> QED BY <1>2, <2>1, <2>2
<1>3. CASE queue # <<>>
  <2>1. Len(queue) >= 1 /\ queue[1] \in S
    BY <1>3, FirstOfSeq
  <2>2. taken \in Seq(S) /\ Len(taken) \in 1..Len(queue)
    <3>1. CASE taken = queue
      BY <1>1, <2>1, <3>1
    <3>2. CASE taken = <<queue[1]>>
      <4>1. Len(taken) = 1
        BY <3>2
      <4> QED BY <1>1, <2>1, <3>2, <4>1
    <3> QED BY <1>3, <3>1, <3>2 DEF Drains
  <2>3. Rest(queue, taken) \in Seq(S)
    <3> DEFINE k == Len(taken)
    <3>1. k + 1 \in 1..(Len(queue) + 1) /\ Len(queue) \in (k + 1 - 1)..Len(queue)
      BY <1>1, <2>2
    <3> HIDE DEF k
    <3>2. SubSeq(queue, k + 1, Len(queue)) \in Seq(S)
      BY <3>1, SubSeqProperties
    <3> QED BY <3>2 DEF Rest, k
  <2> QED BY <2>2, <2>3
<1> QED BY <1>2, <1>3

LEMMA DrainsView ==
  ASSUME NEW way, NEW queue \in Seq(Inputs), queue \in Seq(Sent(way)), NEW taken \in Drains(queue)
  PROVE  /\ taken \in Seq(Outs) /\ taken \in Seq(Records) /\ taken \in Seq(Sent(way))
         /\ Rest(queue, taken) \in Seq(Sent(way))
         /\ \A R : Shows(taken, way, R) \o Shows(Rest(queue, taken), way, R) = Shows(queue, way, R)
<1> DEFINE left == Rest(queue, taken)
<1>1. taken \in Seq(Inputs) /\ left \in Seq(Inputs) /\ queue = taken \o left
  BY DrainsTold
<1>2. taken \in Seq(Sent(way)) /\ left \in Seq(Sent(way))
  BY DrainsSent
<1>3. taken \in Seq(Outs) /\ taken \in Seq(Records) /\ left \in Seq(Records)
  BY <1>1, SeqTypes
<1> HIDE DEF left
<1>4. ASSUME NEW R
      PROVE  Shows(taken, way, R) \o Shows(left, way, R) = Shows(queue, way, R)
  <2>1. Shows(taken \o left, way, R) = Shows(taken, way, R) \o Shows(left, way, R)
    BY ONLY <1>3, ShowsConcat
  <2> QED BY <1>1, <2>1
<1> QED BY <1>2, <1>3, <1>4 DEF left

LEMMA DeliverView ==
  ASSUME Left(run) = <<>>, NEW r \in Runs, NEW out \in Seq(Outs), NEW then \in Thens,
         run' = Deliver(r, out, then), steering \in Seq(Records), followUps \in Seq(Records),
         \A R : /\ Shows(out, "steer", R) \o Shows(steering', "steer", R) = Shows(steering, "steer", R)
                /\ Shows(out, "followUp", R) \o Shows(followUps', "followUp", R)
                     = Shows(followUps, "followUp", R)
  PROVE  \A R : /\ View(run', steering', "steer", R) = View(run, steering, "steer", R)
                /\ View(run', followUps', "followUp", R) = View(run, followUps, "followUp", R)
<1> SUFFICES ASSUME NEW R
             PROVE  /\ View(run', steering', "steer", R) = View(run, steering, "steer", R)
                    /\ View(run', followUps', "followUp", R) = View(run, followUps, "followUp", R)
  OBVIOUS
<1>1. \A way : Shows(Left(run'), way, R) = Shows(out, way, R)
  BY DeliverLeft
<1>2. \A way : Shows(Left(run), way, R) = <<>>
  <2>1. <<>> \in Seq(Records) /\ \A way : \A i \in 1..Len(<<>>) : FALSE
    BY EmptySeq
  <2>2. \A way : Shows(<<>>, way, R) = <<>>
    BY <2>1, ShowsNothing
  <2> QED BY <2>2
<1>3. Shows(steering, "steer", R) \in Seq(Nat)
  BY ShowsTold
<1>4. Shows(followUps, "followUp", R) \in Seq(Nat)
  BY ShowsTold
<1>5. /\ <<>> \o Shows(steering, "steer", R) = Shows(steering, "steer", R)
      /\ <<>> \o Shows(followUps, "followUp", R) = Shows(followUps, "followUp", R)
  BY <1>3, <1>4
<1> QED BY <1>1, <1>2, <1>5 DEF View

(* What the steps below rest on.                                             *)
Faithful == Inv /\ Marked /\ Mirrored

LEMMA QueuesAre ==
  ASSUME Faithful
  PROVE  /\ Inv /\ Marked /\ Mirrored /\ Typed /\ sent \in Nat
         /\ steering \in Seq(Inputs) /\ steering \in Seq(Records) /\ steering \in Seq(Sent("steer"))
         /\ followUps \in Seq(Inputs) /\ followUps \in Seq(Records)
         /\ followUps \in Seq(Sent("followUp"))
         /\ nextTurn \in Seq(Customs) /\ mirror \in Mirrors
         /\ \A p \in Callers : op[p].prompts \in Seq(Sent("prompt"))
BY SeqTypes DEF Faithful, Inv, Typed, Marked

LEMMA PollsMirror ==
  ASSUME Faithful, PollSteering \/ PollBoth
  PROVE  Marked' /\ Mirrored'
<1>1. /\ Inv /\ Marked /\ Mirrored /\ Typed /\ sent \in Nat
      /\ steering \in Seq(Inputs) /\ steering \in Seq(Records) /\ steering \in Seq(Sent("steer"))
      /\ followUps \in Seq(Inputs) /\ followUps \in Seq(Records)
      /\ followUps \in Seq(Sent("followUp"))
      /\ nextTurn \in Seq(Customs) /\ mirror \in Mirrors
      /\ \A p \in Callers : op[p].prompts \in Seq(Sent("prompt"))
  BY QueuesAre
<1>2. run.pc \in Thens /\ run \in Runs
  BY <1>1 DEF PollSteering, PollBoth, Thens, Typed
<1>3. Left(run) = <<>>
  BY <1>1, <1>2, LeftIs
<1>4. /\ mirror' = mirror /\ returned' = returned /\ unheard' = unheard /\ sent' = sent
      /\ op' = op /\ nextTurn' = nextTurn
  BY DEF PollSteering, PollBoth, runOnly, history
<1>5. /\ \A R : Shows(followUps, "followUp", R) \in Seq(Nat) /\ Shows(steering, "steer", R) \in Seq(Nat)
      /\ \A R : /\ <<>> \o Shows(followUps, "followUp", R) = Shows(followUps, "followUp", R)
                /\ <<>> \o Shows(steering, "steer", R) = Shows(steering, "steer", R)
  <2>1. \A R : Shows(followUps, "followUp", R) \in Seq(Nat)
    BY <1>1, ShowsTold
  <2>2. \A R : Shows(steering, "steer", R) \in Seq(Nat)
    BY <1>1, ShowsTold
  <2> QED BY <2>1, <2>2
<1>6. \E out \in Seq(Outs), then \in Thens :
        /\ run' = Deliver(run, out, then)
        /\ steering' \in Seq(Sent("steer")) /\ followUps' \in Seq(Sent("followUp"))
        /\ \A R : /\ Shows(out, "steer", R) \o Shows(steering', "steer", R) = Shows(steering, "steer", R)
                  /\ Shows(out, "followUp", R) \o Shows(followUps', "followUp", R)
                       = Shows(followUps, "followUp", R)
  <2>1. CASE \E taken \in Drains(steering) : \E then \in Thens :
               /\ run' = Deliver(run, taken, then)
               /\ steering' = Rest(steering, taken) /\ followUps' = followUps
    <3>1. PICK taken \in Drains(steering) : \E then \in Thens :
                 /\ run' = Deliver(run, taken, then)
                 /\ steering' = Rest(steering, taken) /\ followUps' = followUps
      BY <2>1
    <3>2. /\ taken \in Seq(Outs) /\ taken \in Seq(Records) /\ taken \in Seq(Sent("steer"))
          /\ Rest(steering, taken) \in Seq(Sent("steer"))
          /\ \A R : Shows(taken, "steer", R) \o Shows(Rest(steering, taken), "steer", R)
                      = Shows(steering, "steer", R)
      BY <1>1, DrainsView
    <3>3. \A R : Shows(taken, "followUp", R) = <<>>
      BY <3>2, ShowsSent
    <3> QED BY <1>1, <1>5, <3>1, <3>2, <3>3
  <2>2. CASE \E taken \in Drains(followUps) : \E then \in Thens :
               /\ run' = Deliver(run, taken, then)
               /\ followUps' = Rest(followUps, taken) /\ steering' = steering
    <3>1. PICK taken \in Drains(followUps) : \E then \in Thens :
                 /\ run' = Deliver(run, taken, then)
                 /\ followUps' = Rest(followUps, taken) /\ steering' = steering
      BY <2>2
    <3>2. /\ taken \in Seq(Outs) /\ taken \in Seq(Records) /\ taken \in Seq(Sent("followUp"))
          /\ Rest(followUps, taken) \in Seq(Sent("followUp"))
          /\ \A R : Shows(taken, "followUp", R) \o Shows(Rest(followUps, taken), "followUp", R)
                      = Shows(followUps, "followUp", R)
      BY <1>1, DrainsView
    <3>3. \A R : Shows(taken, "steer", R) = <<>>
      BY <3>2, ShowsSent
    <3> QED BY <1>1, <1>5, <3>1, <3>2, <3>3
  <2>3. CASE PollSteering
    <3>1. PICK taken \in Drains(steering) :
            run' = Deliver(run, taken, "request") /\ steering' = Rest(steering, taken)
      BY <2>3 DEF PollSteering
    <3>2. followUps' = followUps /\ "request" \in Thens
      BY <2>3 DEF PollSteering, Thens
    <3> QED BY <2>1, <3>1, <3>2
  <2>4. CASE PollBoth
    <3>1. PICK taken \in Drains(steering) :
            IF taken # <<>>
            THEN /\ run' = Deliver(run, taken, "request")
                 /\ steering' = Rest(steering, taken) /\ UNCHANGED followUps
            ELSE \E more \in Drains(followUps) :
                   /\ run' = Deliver(run, more, IF more = <<>> THEN "finish" ELSE "request")
                   /\ followUps' = Rest(followUps, more) /\ UNCHANGED steering
      BY <2>4 DEF PollBoth
    <3>2. "request" \in Thens /\ "finish" \in Thens
      BY DEF Thens
    <3> QED BY <2>1, <2>2, <3>1, <3>2
  <2> QED BY <2>3, <2>4
<1>7. \A R : /\ View(run', steering', "steer", R) = View(run, steering, "steer", R)
             /\ View(run', followUps', "followUp", R) = View(run, followUps, "followUp", R)
  BY <1>1, <1>2, <1>3, <1>6, DeliverView
<1>8. Mirrored'
  BY <1>1, <1>4, <1>7, ViewStill
<1>9. Marked'
  BY <1>1, <1>4, <1>6, MarkedThen
<1> QED BY <1>8, <1>9

(* A run starts with prompts that are shown nowhere, or with messages of a   *)
(* queue.                                                                    *)
LEMMA StartsMirror ==
  ASSUME Faithful, NEW p \in Callers, NEW o \in Ops, NEW out \in Seq(Outs), NEW then \in Thens,
         StartRun(p, o, out, then), ~Active,
         mirror' = mirror, returned' = returned, unheard' = unheard, sent' \in Nat, sent <= sent',
         nextTurn' = nextTurn,
         steering' \in Seq(Sent("steer")), followUps' \in Seq(Sent("followUp")),
         \A R : /\ Shows(out, "steer", R) \o Shows(steering', "steer", R) = Shows(steering, "steer", R)
                /\ Shows(out, "followUp", R) \o Shows(followUps', "followUp", R)
                     = Shows(followUps, "followUp", R)
  PROVE  Marked' /\ Mirrored'
<1>1. /\ Inv /\ Marked /\ Mirrored /\ Typed /\ sent \in Nat
      /\ steering \in Seq(Records) /\ followUps \in Seq(Records)
      /\ nextTurn \in Seq(Customs) /\ mirror \in Mirrors
  BY QueuesAre
<1>2. Left(run) = <<>>
  BY <1>1, LeftIs
<1> DEFINE r == [NoRun EXCEPT !.owner = p]
           q == [[o EXCEPT !.prompts = <<>>] EXCEPT !.pc = "running"]
<1>3. run' = Deliver(r, out, then) /\ op' = [op EXCEPT ![p] = q]
  BY DEF StartRun, NewRun, Set
<1>4. r \in Runs
  <2>1. <<>> \in Seq(Outs)
    BY EmptySeq
  <2> QED BY <2>1 DEF NoRun, Runs, RunPcs, Thens
<1>5. q.prompts \in Seq(Sent("prompt"))
  BY NothingSent DEF Ops
<1> HIDE DEF r, q
<1>6. \A R : /\ View(run', steering', "steer", R) = View(run, steering, "steer", R)
             /\ View(run', followUps', "followUp", R) = View(run, followUps, "followUp", R)
  BY <1>1, <1>2, <1>3, <1>4, DeliverView
<1>7. Mirrored'
  BY <1>1, <1>6, ViewStill
<1>8. \A c \in Callers : op'[c].prompts \in Seq(Sent("prompt"))
  BY <1>1, <1>3, <1>5, PromptsThen
<1>9. Marked'
  BY <1>1, <1>8, MarkedThen
<1> QED BY <1>7, <1>9

(* A step of somebody else, or one of the run that starts no message.        *)
SameLeft == \A way, R : Shows(Left(run'), way, R) = Shows(Left(run), way, R)

LEMMA StillMirror ==
  ASSUME Faithful, SameLeft,
         steering' = steering, followUps' = followUps, mirror' = mirror, returned' = returned,
         unheard' = unheard \/ unheard' = TRUE, sent' \in Nat, sent <= sent',
         nextTurn' \in Seq(Customs), \A p \in Callers : op'[p].prompts \in Seq(Sent("prompt"))
  PROVE  Marked' /\ Mirrored'
<1>1. /\ Inv /\ Marked /\ Mirrored /\ mirror \in Mirrors
      /\ steering \in Seq(Sent("steer")) /\ followUps \in Seq(Sent("followUp"))
  BY QueuesAre
<1>2. \A R : /\ View(run', steering', "steer", R) = View(run, steering, "steer", R)
             /\ View(run', followUps', "followUp", R) = View(run, followUps, "followUp", R)
  BY DEF View, SameLeft
<1>3. Mirrored'
  BY <1>1, <1>2, ViewStill
<1>4. Marked'
  BY <1>1, MarkedThen
<1> QED BY <1>3, <1>4

LEMMA RunMirror ==
  ASSUME Faithful, MessageEnd \/ SaveMessage \/ Request \/ RunTools \/ FinishRun
  PROVE  Marked' /\ Mirrored'
<1>1. /\ Inv /\ Typed /\ sent \in Nat /\ nextTurn \in Seq(Customs)
      /\ \A p \in Callers : op[p].prompts \in Seq(Sent("prompt"))
  BY QueuesAre
<1>2. run \in Runs /\ RunFormed(run) /\ run.out \in Seq(Outs) /\ op \in [Callers -> Ops]
  BY <1>1, OutIs DEF Typed
<1>3. /\ steering' = steering /\ followUps' = followUps /\ mirror' = mirror
      /\ returned' = returned /\ sent' = sent /\ nextTurn' = nextTurn
      /\ (unheard' = unheard \/ unheard' = TRUE)
  <2>1. CASE MessageEnd
    <3>1. unheard' = (unheard \/ ~connected) /\ unheard \in BOOLEAN /\ connected \in BOOLEAN
      BY <1>1, <2>1 DEF MessageEnd, Typed
    <3>2. unheard' = unheard \/ unheard' = TRUE
      BY <3>1
    <3> QED BY <2>1, <3>2 DEF MessageEnd
  <2>2. CASE SaveMessage
    BY <2>2 DEF SaveMessage
  <2>3. CASE Request \/ RunTools
    BY <2>3 DEF Request, RunTools, runOnly, history
  <2>4. CASE FinishRun
    BY <2>4 DEF FinishRun, history
  <2> QED BY <2>1, <2>2, <2>3, <2>4
<1>4. \A p \in Callers : op'[p].prompts \in Seq(Sent("prompt"))
  <2>1. CASE FinishRun
    <3>1. op' = [op EXCEPT ![run.owner].pc = "postRun"]
      BY <2>1 DEF FinishRun
    <3>2. ASSUME NEW p \in Callers PROVE op'[p].prompts = op[p].prompts
      <4>1. op[p] \in Ops
        BY <1>2
      <4>2. op'[p] = op[p] \/ op'[p] = [op[p] EXCEPT !.pc = "postRun"]
        BY <1>2, <3>1
      <4> QED BY <4>1, <4>2 DEF Ops
    <3> QED BY <1>1, <3>2
  <2>2. CASE MessageEnd \/ SaveMessage \/ Request \/ RunTools
    <3>1. op' = op
      BY <2>2 DEF MessageEnd, SaveMessage, Request, RunTools, runOnly
    <3> QED BY <1>1, <3>1
  <2> QED BY <2>1, <2>2
<1>5. SameLeft
  <2>1. CASE MessageEnd
    <3>1. run.pc = "end" /\ run' = [run EXCEPT !.pc = "save", !.heard = connected]
      BY <2>1 DEF MessageEnd
    <3>2. run'.out = run.out /\ run'.pc = "save"
      BY <1>2, <3>1 DEF Runs
    <3>3. Left(run') = Left(run)
      BY <3>1, <3>2 DEF Left
    <3> QED BY <3>3 DEF SameLeft
  <2>2. CASE SaveMessage
    <3>1. run.pc = "save" /\ run' = Deliver(run, Tail(run.out), run.then)
      BY <2>2 DEF SaveMessage
    <3>2. run.out # <<>> /\ run.then \in Thens
      BY <1>2, <3>1 DEF RunFormed
    <3>3. Left(run) = Tail(run.out) /\ Tail(run.out) \in Seq(Outs)
      BY <1>1, <3>1, <3>2, HeadOut DEF Left
    <3> DEFINE out == Tail(run.out)
               then == run.then
    <3>4. out \in Seq(Outs) /\ then \in Thens /\ run' = Deliver(run, out, then)
      BY <3>1, <3>2, <3>3
    <3> HIDE DEF out, then
    <3>5. \A way, R : Shows(Left(run'), way, R) = Shows(out, way, R)
      BY <1>2, <3>4, DeliverLeft
    <3> QED BY <3>3, <3>5 DEF SameLeft, out
  <2>3. CASE Request \/ RunTools
    <3>1. run.pc \in Thens
      BY <2>3 DEF Request, RunTools, Thens
    <3>2. Left(run) = <<>>
      BY <1>1, <3>1, LeftIs
    <3>3. PICK m \in Outs, then \in Thens : m.role # "user" /\ run' = Deliver(run, <<m>>, then)
      BY <1>1, <2>3, RequestIs DEF GivenRoles
    <3>4. <<m>> \in Seq(Outs) /\ m \in Records
      BY InputTypes
    <3>5. \A way, R : Shows(<<m>>, way, R) = <<>>
      BY <3>3, <3>4, ShowsOne
    <3> DEFINE out == <<m>>
    <3>6. out \in Seq(Outs) /\ run' = Deliver(run, out, then)
      BY <3>3, <3>4
    <3> HIDE DEF out
    <3>8. \A way, R : Shows(Left(run'), way, R) = Shows(out, way, R)
      BY <1>2, <3>6, DeliverLeft
    <3>7. \A way, R : Shows(<<>>, way, R) = <<>>
      <4>1. <<>> \in Seq(Records) /\ \A i \in 1..Len(<<>>) : FALSE
        BY EmptySeq
      <4> QED BY <4>1, ShowsNothing
    <3> QED BY <3>2, <3>5, <3>7, <3>8 DEF SameLeft, out
  <2>4. CASE FinishRun
    <3>1. run.pc \in Thens /\ run' = NoRun
      BY <2>4 DEF FinishRun, Thens
    <3>2. Left(run) = <<>>
      BY <1>1, <3>1, LeftIs
    <3>3. Left(run') = <<>>
      BY <3>1 DEF Left, NoRun
    <3> QED BY <3>2, <3>3 DEF SameLeft
  <2> QED BY <2>1, <2>2, <2>3, <2>4
<1>6. nextTurn' \in Seq(Customs) /\ sent' \in Nat /\ sent <= sent'
  BY <1>1, <1>3
<1> QED BY <1>3, <1>4, <1>5, <1>6, StillMirror

(* A call that goes on after a run or a compaction, or that is rejected.     *)
LEMMA CallMirror ==
  ASSUME Faithful, NEW p \in Callers, NEW o \in Ops,
         GoesOn(p, o) \/ (op' = [op EXCEPT ![p] = IdleOp] /\ nextTurn' = nextTurn),
         run' = run, steering' = steering, followUps' = followUps, mirror' = mirror,
         returned' = returned, unheard' = unheard, sent' \in Nat, sent <= sent'
  PROVE  Marked' /\ Mirrored'
<1>1. Marked /\ Typed /\ nextTurn \in Seq(Customs)
  BY QueuesAre
<1>2. nextTurn' \in Seq(Customs) /\ \A r \in Callers : op'[r].prompts \in Seq(Sent("prompt"))
  <2>1. CASE GoesOn(p, o)
    BY <1>1, <2>1, GoesMarked
  <2>2. CASE op' = [op EXCEPT ![p] = IdleOp] /\ nextTurn' = nextTurn
    <3>1. IdleOp.prompts \in Seq(Sent("prompt"))
      BY NothingSent DEF IdleOp
    <3> QED BY <1>1, <2>2, <3>1, PromptsThen
  <2> QED BY <2>1, <2>2
<1>3. SameLeft
  BY DEF SameLeft
<1> QED BY <1>2, <1>3, StillMirror

(* Prompts of a call are shown nowhere.                                      *)
LEMMA ShowsPrompts ==
  ASSUME Faithful, NEW out \in Seq(Records), out \in Seq(Sent("prompt")) \cup Seq(Customs)
  PROVE  \A R : /\ Shows(out, "steer", R) \o Shows(steering, "steer", R) = Shows(steering, "steer", R)
                /\ Shows(out, "followUp", R) \o Shows(followUps, "followUp", R)
                     = Shows(followUps, "followUp", R)
<1> SUFFICES ASSUME NEW R
             PROVE  /\ Shows(out, "steer", R) \o Shows(steering, "steer", R) = Shows(steering, "steer", R)
                    /\ Shows(out, "followUp", R) \o Shows(followUps, "followUp", R)
                         = Shows(followUps, "followUp", R)
  OBVIOUS
<1>1. steering \in Seq(Records) /\ followUps \in Seq(Records)
  BY QueuesAre
<1>2. Shows(steering, "steer", R) \in Seq(Nat)
  BY <1>1, ShowsTold
<1>3. Shows(followUps, "followUp", R) \in Seq(Nat)
  BY <1>1, ShowsTold
<1>4. Shows(out, "steer", R) = <<>>
  <2>1. "steer" # "prompt"
    OBVIOUS
  <2> QED BY <2>1, ShowsSent
<1>5. Shows(out, "followUp", R) = <<>>
  <2>1. "followUp" # "prompt"
    OBVIOUS
  <2> QED BY <2>1, ShowsSent
<1> QED BY <1>2, <1>3, <1>4, <1>5

LEMMA PromptSentMirror ==
  ASSUME Faithful, NEW p \in Callers, SendPrompt(p) \/ CustomTurn(p)
  PROVE  Marked' /\ Mirrored'
<1>1. /\ Inv /\ Typed /\ sent \in Nat /\ op[p] \in Ops
      /\ steering \in Seq(Sent("steer")) /\ followUps \in Seq(Sent("followUp"))
      /\ op[p].prompts \in Seq(Sent("prompt"))
  BY QueuesAre DEF Typed
<1>2. CASE SendPrompt(p) /\ Active
  <2>1. Reject(p) /\ UNCHANGED <<outside, attempt, tried, extras>>
    BY <1>2 DEF SendPrompt
  <2>2. /\ op' = [op EXCEPT ![p] = IdleOp] /\ nextTurn' = nextTurn
        /\ run' = run /\ steering' = steering /\ followUps' = followUps
    BY <2>1 DEF Reject, Idle
  <2>3. mirror' = mirror /\ returned' = returned /\ unheard' = unheard /\ sent' = sent
    BY <2>1 DEF outside
  <2>4. sent' \in Nat /\ sent <= sent'
    BY <1>1, <2>3
  <2> QED BY <1>1, <2>2, <2>3, <2>4, CallMirror
<1>3. CASE SendPrompt(p) /\ ~Active
  <2> DEFINE out == op[p].prompts
  <2>1. /\ StartRun(p, op[p], out, "poll") /\ UNCHANGED <<outside, attempt, tried, extras>>
        /\ nextTurn' = nextTurn /\ steering' = steering /\ followUps' = followUps
    BY <1>3 DEF SendPrompt
  <2>2. mirror' = mirror /\ returned' = returned /\ unheard' = unheard /\ sent' = sent
    BY <2>1 DEF outside
  <2>3. sent' \in Nat /\ sent <= sent' /\ "poll" \in Thens
    BY <1>1, <2>2 DEF Thens
  <2>4. out \in Seq(Outs) /\ out \in Seq(Records) /\ out \in Seq(Sent("prompt"))
    BY <1>1, SeqTypes DEF Ops
  <2> HIDE DEF out
  <2>5. \A R : /\ Shows(out, "steer", R) \o Shows(steering, "steer", R) = Shows(steering, "steer", R)
               /\ Shows(out, "followUp", R) \o Shows(followUps, "followUp", R)
                    = Shows(followUps, "followUp", R)
    BY <2>4, ShowsPrompts
  <2> QED BY <1>1, <1>3, <2>1, <2>2, <2>3, <2>4, <2>5, StartsMirror
<1>4. CASE CustomTurn(p)
  <2> DEFINE k == sent + 1
             out == <<Custom(k)>>
  <2>1. /\ StartRun(p, IdleOp, out, "poll") /\ ~Active /\ sent' = k
        /\ UNCHANGED <<aside, steering, followUps, mirror, extras, cleared, returned, unheard>>
    BY <1>4 DEF CustomTurn, Say
  <2>2. /\ mirror' = mirror /\ returned' = returned /\ unheard' = unheard /\ nextTurn' = nextTurn
        /\ steering' = steering /\ followUps' = followUps
    BY <2>1 DEF aside
  <2>3. sent' \in Nat /\ sent <= sent' /\ "poll" \in Thens /\ k \in Nat
    BY <1>1, <2>1 DEF Thens
  <2>4. out \in Seq(Outs) /\ out \in Seq(Records) /\ out \in Seq(Customs)
    <3>1. Custom(k) \in Inputs
      BY <1>1, InputTypes
    <3>2. Custom(k) \in Outs /\ Custom(k) \in Records
      BY <3>1, InputTypes
    <3>3. Custom(k) \in Customs
      BY <2>3, RecordTypes DEF Customs
    <3> DEFINE c == Custom(k)
    <3> HIDE DEF c
    <3>4. <<c>> \in Seq(Outs) /\ <<c>> \in Seq(Records) /\ <<c>> \in Seq(Customs)
      BY <3>2, <3>3 DEF c
    <3> QED BY <3>4 DEF c
  <2>5. IdleOp \in Ops
    BY NothingGiven DEF IdleOp, Ops, OpPcs, Lasts, Whys
  <2> HIDE DEF out, k
  <2>6. \A R : /\ Shows(out, "steer", R) \o Shows(steering, "steer", R) = Shows(steering, "steer", R)
               /\ Shows(out, "followUp", R) \o Shows(followUps, "followUp", R)
                    = Shows(followUps, "followUp", R)
    BY <2>4, ShowsPrompts
  <2> QED BY <1>1, <2>1, <2>2, <2>3, <2>4, <2>5, <2>6, StartsMirror
<1> QED BY <1>2, <1>3, <1>4

LEMMA ContinueMirror ==
  ASSUME Faithful, NEW p \in Callers, ContinueRun(p)
  PROVE  Marked' /\ Mirrored'
<1>1. /\ Inv /\ Typed /\ sent \in Nat /\ op[p] \in Ops
      /\ steering \in Seq(Inputs) /\ steering \in Seq(Records) /\ steering \in Seq(Sent("steer"))
      /\ followUps \in Seq(Inputs) /\ followUps \in Seq(Records)
      /\ followUps \in Seq(Sent("followUp"))
  BY QueuesAre DEF Typed
<1>2. UNCHANGED <<outside, attempt, tried, extras>>
  BY DEF ContinueRun
<1>3. mirror' = mirror /\ returned' = returned /\ unheard' = unheard /\ sent' = sent
  BY <1>2 DEF outside
<1>4. sent' \in Nat /\ sent <= sent' /\ "poll" \in Thens /\ "request" \in Thens
  BY <1>1, <1>3 DEF Thens
<1>5. CASE ~Continuable
  <2>1. Reject(p)
    BY <1>5 DEF ContinueRun
  <2>2. /\ op' = [op EXCEPT ![p] = IdleOp] /\ nextTurn' = nextTurn
        /\ run' = run /\ steering' = steering /\ followUps' = followUps
    BY <2>1 DEF Reject, Idle
  <2> QED BY <1>1, <1>3, <1>4, <2>2, CallMirror
<1>6. CASE Continuable
  <2>1. ~Active /\ nextTurn' = nextTurn
    BY <1>6 DEF ContinueRun, Continuable
  <2>2. \/ StartRun(p, op[p], <<>>, "poll") /\ UNCHANGED <<steering, followUps>>
        \/ \E taken \in Drains(steering) :
             /\ StartRun(p, op[p], taken, "request")
             /\ steering' = Rest(steering, taken) /\ UNCHANGED followUps
        \/ \E taken \in Drains(followUps) :
             /\ StartRun(p, op[p], taken, "poll")
             /\ followUps' = Rest(followUps, taken) /\ UNCHANGED steering
    BY <1>6 DEF ContinueRun
  <2>3. CASE StartRun(p, op[p], <<>>, "poll") /\ UNCHANGED <<steering, followUps>>
    <3> DEFINE out == <<>>
    <3>1. out \in Seq(Outs) /\ out \in Seq(Records) /\ out \in Seq(Customs)
      BY EmptySeq
    <3>2. StartRun(p, op[p], out, "poll") /\ steering' = steering /\ followUps' = followUps
      BY <2>3
    <3> HIDE DEF out
    <3>3. \A R : /\ Shows(out, "steer", R) \o Shows(steering, "steer", R) = Shows(steering, "steer", R)
                 /\ Shows(out, "followUp", R) \o Shows(followUps, "followUp", R)
                      = Shows(followUps, "followUp", R)
      BY <3>1, ShowsPrompts
    <3> QED BY <1>1, <1>3, <1>4, <2>1, <3>1, <3>2, <3>3, StartsMirror
  <2>4. ASSUME NEW taken \in Drains(steering), StartRun(p, op[p], taken, "request"),
               steering' = Rest(steering, taken), UNCHANGED followUps
        PROVE  Marked' /\ Mirrored'
    <3>1. /\ taken \in Seq(Outs) /\ taken \in Seq(Records) /\ taken \in Seq(Sent("steer"))
          /\ Rest(steering, taken) \in Seq(Sent("steer"))
          /\ \A R : Shows(taken, "steer", R) \o Shows(Rest(steering, taken), "steer", R)
                      = Shows(steering, "steer", R)
      BY <1>1, DrainsView
    <3>2. \A R : Shows(taken, "followUp", R) = <<>>
      BY <3>1, ShowsSent
    <3>3. \A R : Shows(followUps, "followUp", R) \in Seq(Nat)
      BY <1>1, ShowsTold
    <3>4. \A R : Shows(taken, "followUp", R) \o Shows(followUps', "followUp", R)
                   = Shows(followUps, "followUp", R)
      BY <2>4, <3>2, <3>3
    <3>5. \A R : Shows(taken, "steer", R) \o Shows(steering', "steer", R)
                   = Shows(steering, "steer", R)
      BY <2>4, <3>1
    <3>6. steering' \in Seq(Sent("steer")) /\ followUps' \in Seq(Sent("followUp"))
      BY <1>1, <2>4, <3>1
    <3> QED BY <1>1, <1>3, <1>4, <2>1, <2>4, <3>1, <3>4, <3>5, <3>6, StartsMirror
  <2>5. ASSUME NEW taken \in Drains(followUps), StartRun(p, op[p], taken, "poll"),
               followUps' = Rest(followUps, taken), UNCHANGED steering
        PROVE  Marked' /\ Mirrored'
    <3>1. /\ taken \in Seq(Outs) /\ taken \in Seq(Records) /\ taken \in Seq(Sent("followUp"))
          /\ Rest(followUps, taken) \in Seq(Sent("followUp"))
          /\ \A R : Shows(taken, "followUp", R) \o Shows(Rest(followUps, taken), "followUp", R)
                      = Shows(followUps, "followUp", R)
      BY <1>1, DrainsView
    <3>2. \A R : Shows(taken, "steer", R) = <<>>
      BY <3>1, ShowsSent
    <3>3. \A R : Shows(steering, "steer", R) \in Seq(Nat)
      BY <1>1, ShowsTold
    <3>4. \A R : Shows(taken, "steer", R) \o Shows(steering', "steer", R)
                   = Shows(steering, "steer", R)
      BY <2>5, <3>2, <3>3
    <3>5. \A R : Shows(taken, "followUp", R) \o Shows(followUps', "followUp", R)
                   = Shows(followUps, "followUp", R)
      BY <2>5, <3>1
    <3>6. steering' \in Seq(Sent("steer")) /\ followUps' \in Seq(Sent("followUp"))
      BY <1>1, <2>5, <3>1
    <3> QED BY <1>1, <1>3, <1>4, <2>1, <2>5, <3>1, <3>4, <3>5, <3>6, StartsMirror
  <2> QED BY <2>2, <2>3, <2>4, <2>5
<1> QED BY <1>5, <1>6

LEMMA ConcatNumbers == \A s, t, u \in Seq(Nat) : (s \o t) \o u = s \o (t \o u)
<1> DEFINE S == Nat
<1> HIDE DEF S
<1>1. \A s, t, u \in Seq(S) : (s \o t) \o u = s \o (t \o u)
  BY ConcatAssociative
<1> QED BY <1>1 DEF S

LEMMA ViewAppend ==
  ASSUME NEW r, Left(r) \in Seq(Records), NEW queue \in Seq(Records), NEW m \in Records, NEW way, NEW R
  PROVE  View(r, Append(queue, m), way, R)
           = IF m.role = "user" /\ m.kind = way /\ m.n \notin R
             THEN Append(View(r, queue, way, R), m.n) ELSE View(r, queue, way, R)
<1> DEFINE t == <<m>>
           a == Shows(Left(r), way, R)
           b == Shows(queue, way, R)
           c == Shows(t, way, R)
<1>1. /\ t \in Seq(Records)
      /\ c = IF m.role = "user" /\ m.kind = way /\ m.n \notin R THEN <<m.n>> ELSE <<>>
  BY ShowsOne
<1>2. Append(queue, m) = queue \o t
  BY AppendIsConcat
<1> HIDE DEF t
<1>3. Shows(queue \o t, way, R) = b \o c /\ b \in Seq(Nat) /\ c \in Seq(Nat)
  <2>1. queue \in Seq(Records) /\ t \in Seq(Records)
    BY <1>1
  <2> QED BY ONLY <2>1, ShowsConcat
<1>4. a \in Seq(Nat)
  BY ShowsTold
<1>5. View(r, Append(queue, m), way, R) = a \o (b \o c) /\ View(r, queue, way, R) = a \o b
  BY <1>2, <1>3 DEF View
<1> HIDE DEF a, b, c
<1>6. CASE m.role = "user" /\ m.kind = way /\ m.n \notin R
  <2> DEFINE d == a \o b
  <2>1. c = <<m.n>> /\ m.n \in Nat
    BY <1>1, <1>6 DEF Records
  <2>2. c \in Seq(Nat) /\ d \in Seq(Nat)
    BY <1>3, <1>4, <2>1
  <2>3. a \o (b \o c) = (a \o b) \o c
    BY <1>3, <1>4, ConcatNumbers
  <2> HIDE DEF d
  <2>4. Append(d, m.n) = d \o <<m.n>>
    BY <2>1, <2>2, AppendIsConcat
  <2> QED BY <1>5, <1>6, <2>1, <2>3, <2>4 DEF d
<1>7. CASE ~(m.role = "user" /\ m.kind = way /\ m.n \notin R)
  <2>1. c = <<>>
    BY <1>1, <1>7
  <2>2. b \o c = b
    BY <1>3, <2>1
  <2> QED BY <1>5, <1>7, <2>2
<1> QED BY <1>6, <1>7

LEMMA SayMirror ==
  ASSUME Faithful, Steer \/ FollowUp \/ CustomQueued
  PROVE  Marked' /\ Mirrored'
<1> DEFINE k == sent + 1
<1>1. /\ Inv /\ Marked /\ Mirrored /\ Typed /\ sent \in Nat /\ k \in Nat /\ k \notin 1..sent
      /\ steering \in Seq(Records) /\ steering \in Seq(Sent("steer"))
      /\ followUps \in Seq(Records) /\ followUps \in Seq(Sent("followUp"))
      /\ nextTurn \in Seq(Customs) /\ mirror \in Mirrors
      /\ \A p \in Callers : op[p].prompts \in Seq(Sent("prompt"))
  BY QueuesAre
<1>2. Left(run) \in Seq(Records)
  BY <1>1, LeftIs
<1>3. /\ run' = run /\ returned' = returned /\ unheard' = unheard /\ sent' = k
      /\ op' = op /\ nextTurn' = nextTurn
  BY DEF Steer, FollowUp, CustomQueued, Say, aside
<1>4. sent' \in Nat /\ sent <= sent' /\ 1..sent \subseteq 1..sent'
  BY <1>1, <1>3
<1>5. /\ mirror = [steering |-> mirror.steering, followUps |-> mirror.followUps]
      /\ mirror.steering \in Seq(Nat) /\ mirror.followUps \in Seq(Nat)
  BY <1>1 DEF Mirrors
<1>6. ~unheard => /\ returned \subseteq 1..sent
                  /\ mirror.steering = View(run, steering, "steer", returned)
                  /\ mirror.followUps = View(run, followUps, "followUp", returned)
  BY <1>1 DEF Mirrored
<1>7. CASE Steer
  <2> DEFINE m == User(k, "steer")
  <2>1. /\ mirror' = [mirror EXCEPT !.steering = Append(@, k)]
        /\ steering' = Append(steering, m) /\ followUps' = followUps
    BY <1>7 DEF Steer
  <2>2. mirror'.steering = Append(mirror.steering, k) /\ mirror'.followUps = mirror.followUps
        /\ mirror' \in Mirrors
    <3>1. mirror' = [steering |-> Append(mirror.steering, k), followUps |-> mirror.followUps]
      BY <1>5, <2>1
    <3>2. Append(mirror.steering, k) \in Seq(Nat)
      BY <1>1, <1>5, AppendProperties
    <3> QED BY <1>5, <3>1, <3>2 DEF Mirrors
  <2>3. m \in Records /\ m.role = "user" /\ m.n = k /\ m.kind = "steer"
    <3>1. "steer" \in Kinds
      BY DEF Kinds
    <3> QED BY <1>1, <3>1, RecordTypes
  <2>4. m \in Sent("steer")
    BY <2>3 DEF Sent
  <2> HIDE DEF m, k
  <2>5. steering' \in Seq(Sent("steer"))
    BY <1>1, <2>1, <2>4
  <2>6. Marked'
    BY <1>1, <1>3, <2>1, <2>2, <2>5, MarkedThen
  <2>7. ASSUME ~unheard
        PROVE  View(run, Append(steering, m), "steer", returned) = Append(mirror.steering, k)
    <3>1. k \notin returned
      BY <1>1, <1>6, <2>7
    <3> QED BY <1>1, <1>2, <1>6, <2>3, <2>7, <3>1, ViewAppend
  <2>8. ~unheard' => /\ returned' \subseteq 1..sent'
                     /\ mirror'.steering = View(run', steering', "steer", returned')
                     /\ mirror'.followUps = View(run', followUps', "followUp", returned')
    BY <1>3, <1>4, <1>6, <2>1, <2>2, <2>7
  <2>9. Mirrored'
    BY <2>8, MirroredThen
  <2> QED BY <2>6, <2>9
<1>8. CASE FollowUp
  <2> DEFINE m == User(k, "followUp")
  <2>1. /\ mirror' = [mirror EXCEPT !.followUps = Append(@, k)]
        /\ followUps' = Append(followUps, m) /\ steering' = steering
    BY <1>8 DEF FollowUp
  <2>2. mirror'.followUps = Append(mirror.followUps, k) /\ mirror'.steering = mirror.steering
        /\ mirror' \in Mirrors
    <3>1. mirror' = [steering |-> mirror.steering, followUps |-> Append(mirror.followUps, k)]
      BY <1>5, <2>1
    <3>2. Append(mirror.followUps, k) \in Seq(Nat)
      BY <1>1, <1>5, AppendProperties
    <3> QED BY <1>5, <3>1, <3>2 DEF Mirrors
  <2>3. m \in Records /\ m.role = "user" /\ m.n = k /\ m.kind = "followUp"
    <3>1. "followUp" \in Kinds
      BY DEF Kinds
    <3> QED BY <1>1, <3>1, RecordTypes
  <2>4. m \in Sent("followUp")
    BY <2>3 DEF Sent
  <2> HIDE DEF m, k
  <2>5. followUps' \in Seq(Sent("followUp"))
    BY <1>1, <2>1, <2>4
  <2>6. Marked'
    BY <1>1, <1>3, <2>1, <2>2, <2>5, MarkedThen
  <2>7. ASSUME ~unheard
        PROVE  View(run, Append(followUps, m), "followUp", returned) = Append(mirror.followUps, k)
    <3>1. k \notin returned
      BY <1>1, <1>6, <2>7
    <3> QED BY <1>1, <1>2, <1>6, <2>3, <2>7, <3>1, ViewAppend
  <2>8. ~unheard' => /\ returned' \subseteq 1..sent'
                     /\ mirror'.steering = View(run', steering', "steer", returned')
                     /\ mirror'.followUps = View(run', followUps', "followUp", returned')
    BY <1>3, <1>4, <1>6, <2>1, <2>2, <2>7
  <2>9. Mirrored'
    BY <2>8, MirroredThen
  <2> QED BY <2>6, <2>9
<1>9. CASE CustomQueued
  <2> DEFINE m == Custom(k)
  <2>1. /\ mirror' = mirror
        /\ \/ steering' = Append(steering, m) /\ followUps' = followUps
           \/ followUps' = Append(followUps, m) /\ steering' = steering
    BY <1>9 DEF CustomQueued
  <2>2. m \in Records /\ m.role = "custom"
    BY <1>1, RecordTypes
  <2>3. m \in Sent("steer") /\ m \in Sent("followUp")
    BY <2>2 DEF Sent
  <2> HIDE DEF m, k
  <2>4. steering' \in Seq(Sent("steer")) /\ followUps' \in Seq(Sent("followUp"))
    <3>1. Append(steering, m) \in Seq(Sent("steer")) /\ Append(followUps, m) \in Seq(Sent("followUp"))
      BY <1>1, <2>3, AppendProperties
    <3> QED BY <1>1, <2>1, <3>1
  <2>5. Marked'
    BY <1>1, <1>3, <2>1, <2>4, MarkedThen
  <2>6. \A R : /\ View(run, Append(steering, m), "steer", R) = View(run, steering, "steer", R)
               /\ View(run, Append(followUps, m), "followUp", R) = View(run, followUps, "followUp", R)
    <3>1. m.role # "user"
      BY <2>2
    <3> QED BY <1>1, <1>2, <2>2, <3>1, ViewAppend
  <2>7. \A R : /\ View(run', steering', "steer", R) = View(run, steering, "steer", R)
               /\ View(run', followUps', "followUp", R) = View(run, followUps, "followUp", R)
    BY <1>3, <2>1, <2>6
  <2>8. Mirrored'
    BY <1>1, <1>3, <1>4, <2>1, <2>7, ViewStill
  <2> QED BY <2>5, <2>8
<1> QED BY <1>7, <1>8, <1>9

LEMMA QuietMirror ==
  ASSUME Faithful,
         \/ CustomForNextTurn \/ CustomAppended \/ RecordBashResult \/ Abort \/ Compact
         \/ CompactPrepared \/ CompactDone \/ UNCHANGED vars
  PROVE  Marked' /\ Mirrored'
<1>1. /\ Typed /\ sent \in Nat /\ nextTurn \in Seq(Customs)
      /\ \A p \in Callers : op[p].prompts \in Seq(Sent("prompt"))
  BY QueuesAre
<1>2. /\ steering' = steering /\ followUps' = followUps /\ mirror' = mirror
      /\ returned' = returned /\ unheard' = unheard /\ (sent' = sent \/ sent' = sent + 1)
  BY DEF CustomForNextTurn, CustomAppended, RecordBashResult, Abort, Compact, CompactPrepared,
         CompactDone, vars, agentVars, history, rest, aside, Say
<1>3. sent' \in Nat /\ sent <= sent'
  BY <1>1, <1>2
<1>4. CASE CustomForNextTurn
  <2>1. run' = run /\ op' = op /\ nextTurn' = Append(nextTurn, Custom(sent + 1))
    BY <1>4 DEF CustomForNextTurn, agentVars
  <2>2. Custom(sent + 1) \in Customs
    <3>1. sent + 1 \in Nat
      BY <1>1
    <3> QED BY <3>1, RecordTypes DEF Customs
  <2> DEFINE c == Custom(sent + 1)
  <2>3. nextTurn' = Append(nextTurn, c) /\ c \in Customs
    BY <2>1, <2>2
  <2> HIDE DEF c
  <2>4. nextTurn' \in Seq(Customs)
    BY <1>1, <2>3
  <2>5. SameLeft
    BY <2>1 DEF SameLeft
  <2> QED BY <1>1, <1>2, <1>3, <2>1, <2>4, <2>5, StillMirror
<1>5. CASE Abort \/ Compact
  <2>1. Cancelled /\ nextTurn' = nextTurn
    BY <1>5 DEF Abort, Compact, aside
  <2>2. /\ run'.pc = run.pc /\ run'.out = run.out
        /\ \A p \in Callers : op'[p].prompts = op[p].prompts
    BY <1>1, <2>1, CancelledIs
  <2>3. SameLeft
    BY <2>2 DEF SameLeft, Left
  <2> QED BY <1>1, <1>2, <1>3, <2>1, <2>2, <2>3, StillMirror
<1>6. CASE CustomAppended \/ RecordBashResult \/ CompactPrepared \/ CompactDone \/ UNCHANGED vars
  <2>1. run' = run /\ op' = op /\ nextTurn' = nextTurn
    BY <1>6 DEF CustomAppended, RecordBashResult, CompactPrepared, CompactDone, vars, agentVars, rest
  <2>2. SameLeft
    BY <2>1 DEF SameLeft
  <2> QED BY <1>1, <1>2, <1>3, <2>1, <2>2, StillMirror
<1> QED BY <1>4, <1>5, <1>6

LEMMA RangeConcat ==
  ASSUME NEW s \in Seq(Nat), NEW t \in Seq(Nat)
  PROVE  s \o t \in Seq(Nat) /\ Range(s \o t) = Range(s) \cup Range(t)
<1> DEFINE u == s \o t
<1>1. /\ u \in Seq(Nat) /\ Len(u) = Len(s) + Len(t) /\ Len(s) \in Nat /\ Len(t) \in Nat
      /\ \A i \in 1..Len(s) + Len(t) : u[i] = IF i <= Len(s) THEN s[i] ELSE t[i - Len(s)]
  BY ConcatProperties, LenProperties
<1>2. /\ Range(u) = {u[i] : i \in 1..Len(u)} /\ Range(s) = {s[i] : i \in 1..Len(s)}
      /\ Range(t) = {t[i] : i \in 1..Len(t)}
  <2>1. DOMAIN u = 1..Len(u) /\ DOMAIN s = 1..Len(s) /\ DOMAIN t = 1..Len(t)
    BY <1>1, LenProperties
  <2> HIDE DEF u
  <2> QED BY <2>1 DEF Range
<1> HIDE DEF u
<1>3. Range(u) \subseteq Range(s) \cup Range(t)
  <2> SUFFICES ASSUME NEW i \in 1..Len(u) PROVE u[i] \in Range(s) \cup Range(t)
    BY <1>2
  <2>1. CASE i <= Len(s)
    <3>1. i \in 1..Len(s) /\ u[i] = s[i]
      BY <1>1, <2>1
    <3> QED BY <1>2, <3>1
  <2>2. CASE ~(i <= Len(s))
    <3>1. i \in 1..Len(s) + Len(t)
      BY <1>1
    <3>2. u[i] = t[i - Len(s)]
      BY <1>1, <2>2, <3>1
    <3>3. i - Len(s) \in 1..Len(t)
      BY <1>1, <2>2, <3>1
    <3> QED BY <1>2, <3>2, <3>3
  <2> QED BY <2>1, <2>2
<1>4. Range(s) \subseteq Range(u)
  <2> SUFFICES ASSUME NEW i \in 1..Len(s) PROVE s[i] \in Range(u)
    BY <1>2
  <2>1. i \in 1..Len(u) /\ u[i] = s[i]
    BY <1>1
  <2> QED BY <1>2, <2>1
<1>5. Range(t) \subseteq Range(u)
  <2> SUFFICES ASSUME NEW i \in 1..Len(t) PROVE t[i] \in Range(u)
    BY <1>2
  <2> DEFINE k == i + Len(s)
  <2>1. k \in 1..Len(s) + Len(t) /\ ~(k <= Len(s)) /\ k - Len(s) = i
    BY <1>1
  <2> HIDE DEF k
  <2>2. k \in 1..Len(u) /\ u[k] = t[i]
    BY <1>1, <2>1
  <2> QED BY <1>2, <2>2
<1> QED BY <1>1, <1>3, <1>4, <1>5 DEF u

(* What may be seen are numbers of user messages not started yet.            *)
LEMMA ViewTold ==
  ASSUME NEW r, Left(r) \in Seq(Records), NEW queue \in Seq(Records), NEW way, NEW R
  PROVE  /\ View(r, queue, way, R) \in Seq(Nat)
         /\ Range(View(r, queue, way, R))
              = Range(Shows(Left(r), way, R)) \cup Range(Shows(queue, way, R))
         /\ Range(View(r, queue, way, R)) \subseteq Given(Left(r)) \cup Given(queue)
<1>1. Shows(Left(r), way, R) \in Seq(Nat) /\ Range(Shows(Left(r), way, R)) \subseteq Given(Left(r))
  BY ShowsTold
<1>2. Shows(queue, way, R) \in Seq(Nat) /\ Range(Shows(queue, way, R)) \subseteq Given(queue)
  BY ShowsTold
<1> QED BY <1>1, <1>2, RangeConcat DEF View

(* Messages on their way out of the queues are in none.                      *)
LEMMA LeftApart ==
  ASSUME Inv
  PROVE  /\ Given(Left(run)) \subseteq 1..sent /\ Given(steering) \subseteq 1..sent
         /\ Given(followUps) \subseteq 1..sent
         /\ Given(Left(run)) \cap (Given(steering) \cup Given(followUps)) = {}
<1>1. PICK C : /\ Whole(C, sent, ~unheard, Given(messages))
               /\ C[1] = Preps /\ C[2] = Given(nextTurn) /\ C[3] = Given(steering)
               /\ C[4] = Given(followUps) /\ C[5] = Given(Coming(run))
               /\ C[6] = Given(Saving(run)) /\ C[7] = Given(log) \ {0} /\ C[8] = cleared
  BY CellsOf
<1>2. Given(Left(run)) \subseteq C[5]
  BY <1>1, LeftIs
<1>3. C[3] \subseteq 1..sent /\ C[4] \subseteq 1..sent /\ C[5] \subseteq 1..sent
  BY <1>1 DEF Whole
<1>4. C[5] \cap C[3] = {} /\ C[5] \cap C[4] = {}
  <2>1. \A a, b \in 1..8 : \A x \in C[a] : x \in C[b] => a = b
    BY <1>1 DEF Whole
  <2> QED BY <2>1
<1> QED BY <1>1, <1>2, <1>3, <1>4

LEMMA ClearMirror == ASSUME Faithful, ClearQueue PROVE Marked' /\ Mirrored'
<1>1. /\ Inv /\ Marked /\ Mirrored /\ mirror \in Mirrors
      /\ steering \in Seq(Inputs) /\ steering \in Seq(Records)
      /\ followUps \in Seq(Inputs) /\ followUps \in Seq(Records)
      /\ nextTurn \in Seq(Customs) /\ \A p \in Callers : op[p].prompts \in Seq(Sent("prompt"))
  BY QueuesAre
<1>2. /\ run' = run /\ op' = op /\ nextTurn' = nextTurn /\ unheard' = unheard /\ sent' = sent
      /\ mirror' = NoMirror /\ steering' = <<>> /\ followUps' = <<>>
      /\ returned' = returned \cup (Range(mirror.steering \o mirror.followUps)
                                     \ Range(NumbersOf(steering \o followUps)))
  BY DEF ClearQueue, aside
<1>3. Range(NumbersOf(steering \o followUps)) = Given(steering) \cup Given(followUps)
  BY <1>1, NumbersGiven
<1>4. Range(mirror.steering \o mirror.followUps) = Range(mirror.steering) \cup Range(mirror.followUps)
  BY <1>1, RangeConcat DEF Mirrors
<1>5. /\ Given(Left(run)) \subseteq 1..sent /\ Given(steering) \subseteq 1..sent
      /\ Given(followUps) \subseteq 1..sent
      /\ Given(Left(run)) \cap (Given(steering) \cup Given(followUps)) = {}
      /\ Left(run) \in Seq(Records)
  BY <1>1, LeftApart, LeftIs
<1>6. Marked'
  <2>1. mirror' \in Mirrors
    BY <1>2 DEF NoMirror, Mirrors
  <2> QED BY <1>1, <1>2, <2>1, NothingSent, MarkedThen
<1>7. ASSUME ~unheard'
      PROVE  /\ returned' \subseteq 1..sent'
             /\ mirror'.steering = View(run', steering', "steer", returned')
             /\ mirror'.followUps = View(run', followUps', "followUp", returned')
  <2>1. /\ returned \subseteq 1..sent
        /\ mirror.steering = View(run, steering, "steer", returned)
        /\ mirror.followUps = View(run, followUps, "followUp", returned)
    BY <1>1, <1>2, <1>7 DEF Mirrored
  <2>2. /\ Range(mirror.steering) = Range(Shows(Left(run), "steer", returned))
                                      \cup Range(Shows(steering, "steer", returned))
        /\ Range(mirror.steering) \subseteq Given(Left(run)) \cup Given(steering)
    BY <1>1, <1>5, <2>1, ViewTold
  <2>3. /\ Range(mirror.followUps) = Range(Shows(Left(run), "followUp", returned))
                                       \cup Range(Shows(followUps, "followUp", returned))
        /\ Range(mirror.followUps) \subseteq Given(Left(run)) \cup Given(followUps)
    BY <1>1, <1>5, <2>1, ViewTold
  <2>4. returned' \subseteq 1..sent'
    BY <1>2, <1>4, <1>5, <2>1, <2>2, <2>3
  <2>5. \A way \in Ways : Shows(Left(run), way, returned') = <<>>
    <3> SUFFICES ASSUME NEW way \in Ways PROVE Shows(Left(run), way, returned') = <<>>
      OBVIOUS
    <3>1. Range(Shows(Left(run), way, returned))
            \subseteq Range(mirror.steering) \cup Range(mirror.followUps)
      BY <2>2, <2>3 DEF Ways
    <3>2. ASSUME NEW i \in 1..Len(Left(run)), Left(run)[i].role = "user", Left(run)[i].kind = way
          PROVE  Left(run)[i].n \in returned'
      <4>1. Left(run)[i].n \in returned \cup Range(Shows(Left(run), way, returned))
        BY <1>5, <3>2, ShowsTold
      <4>2. Left(run)[i].n \in Given(Left(run))
        BY <3>2 DEF Given, Told, GivenRoles
      <4> QED BY <1>2, <1>3, <1>4, <1>5, <3>1, <4>1, <4>2
    <3> QED BY <1>5, <3>2, ShowsNothing
  <2>6. \A way : Shows(<<>>, way, returned') = <<>>
    <3>1. <<>> \in Seq(Records) /\ \A i \in 1..Len(<<>>) : FALSE
      BY EmptySeq
    <3> QED BY <3>1, ShowsNothing
  <2>7. /\ View(run', steering', "steer", returned') = <<>>
        /\ View(run', followUps', "followUp", returned') = <<>>
    <3>1. /\ View(run', steering', "steer", returned')
               = Shows(Left(run), "steer", returned') \o Shows(<<>>, "steer", returned')
          /\ View(run', followUps', "followUp", returned')
               = Shows(Left(run), "followUp", returned') \o Shows(<<>>, "followUp", returned')
      BY <1>2 DEF View
    <3>2. Shows(Left(run), "steer", returned') = <<>> /\ Shows(Left(run), "followUp", returned') = <<>>
      BY <2>5 DEF Ways
    <3>3. <<>> \o <<>> = <<>>
      OBVIOUS
    <3> QED BY <2>6, <3>1, <3>2, <3>3
  <2>8. mirror'.steering = <<>> /\ mirror'.followUps = <<>>
    BY <1>2 DEF NoMirror
  <2> QED BY <2>4, <2>7, <2>8
<1> QED BY <1>6, <1>7, MirroredThen

LEMMA WithoutIs ==
  ASSUME NEW s \in Seq(Nat), NEW n \in Nat, n \notin Range(s)
  PROVE  /\ Without(<<n>> \o s, n) = s /\ Contains(<<n>> \o s, n)
         /\ Without(s, n) = s /\ ~Contains(s, n)
<1> DEFINE u == <<n>> \o s
<1>1. /\ u \in Seq(Nat) /\ u[1] = n /\ 1 \in 1..Len(u) /\ Range(u) = {n} \cup Range(s)
  <2>1. <<n>> \in Seq(Nat) /\ Range(<<n>>) = {n}
    BY DEF Range
  <2>2. u \in Seq(Nat) /\ Range(u) = {n} \cup Range(s)
    BY <2>1, RangeConcat
  <2>3. u[1] = n /\ Len(u) = 1 + Len(s) /\ Len(s) \in Nat
    BY LenProperties
  <2> QED BY <2>2, <2>3
<1>2. \A i \in 1..Len(s) : s[i] \in Range(s) /\ s[i] # n
  <2>1. DOMAIN s = 1..Len(s)
    BY LenProperties
  <2> QED BY <2>1 DEF Range
<1>3. Only(u, Range(u) \ {n}) = s
  <2> DEFINE kept == Range(u) \ {n}
  <2>1. n \notin kept /\ \A i \in 1..Len(s) : s[i] \in kept
    BY <1>1, <1>2
  <2> HIDE DEF kept
  <2> QED BY <2>1, OnlyTail DEF kept
<1>4. Only(s, Range(s) \ {n}) = s
  <2> DEFINE kept == Range(s) \ {n}
  <2>1. \A i \in 1..Len(s) : s[i] \in kept
    BY <1>2
  <2> HIDE DEF kept
  <2> QED BY <2>1, OnlyAll DEF kept
<1>5. Contains(u, n) /\ ~Contains(s, n)
  BY <1>1, <1>2 DEF Contains
<1> QED BY <1>3, <1>4, <1>5 DEF Without

(* A message that starts is the first to be seen, if at all, and then gone.  *)
LEMMA StartView ==
  ASSUME Inv, MessageStart, NEW queue \in {steering, followUps}, NEW way
  PROVE  LET n == run.out[1].n
             left == View(run', queue, way, returned')
         IN  /\ n \in Nat /\ left \in Seq(Nat) /\ n \notin Range(left)
             /\ View(run, queue, way, returned)
                  = IF run.out[1].kind = way /\ n \notin returned THEN <<n>> \o left ELSE left
<1> DEFINE h == run.out[1]
           t == Tail(run.out)
           n == h.n
           a == Shows(<<h>>, way, returned)
           b == Shows(t, way, returned)
           c == Shows(queue, way, returned)
<1>1. run.pc = "start" /\ run' = [run EXCEPT !.pc = "end"] /\ returned' = returned \ {n}
  BY DEF MessageStart
<1>2. /\ run \in Runs /\ RunFormed(run) /\ run.out \in Seq(Outs) /\ run.out # <<>>
      /\ h.role = "user"
  BY <1>1, OutIs DEF RunFormed
<1>3. run'.out = run.out /\ run'.pc = "end"
  BY <1>1, <1>2 DEF Runs
<1>4. Left(run) = run.out /\ Left(run') = t
  BY <1>1, <1>2, <1>3 DEF Left
<1>5. /\ h \in Records /\ t \in Seq(Records) /\ <<h>> \in Seq(Records)
      /\ n \in Given(run.out) /\ n \notin Given(t)
  <2>1. /\ h \in Records /\ t \in Seq(Outs) /\ <<h>> \in Seq(Records)
        /\ Given(run.out) = Given(<<h>>) \cup Given(t)
        /\ Singly(run.out, GivenRoles) => Given(<<h>>) \cap Given(t) = {}
    BY <1>2, HeadOut
  <2>2. Singly(run.out, GivenRoles)
    <3>1. Coming(run) = run.out
      BY <1>1, OutIs
    <3> QED BY <3>1 DEF Inv, Delivery
  <2>3. Given(<<h>>) = {n}
    <3> HIDE DEF h
    <3>1. h.role \in GivenRoles /\ h \in Records
      BY <1>2, <2>1 DEF h, GivenRoles
    <3> QED BY <3>1, ToldOne DEF Given
  <2> QED BY <2>1, <2>2, <2>3, SeqTypes
<1>6. run.out = <<h>> \o t
  BY <1>2, HeadAndTail
<1>7. queue \in Seq(Records) /\ n \notin Given(queue)
  <2>1. queue \in Seq(Records)
    BY SeqTypes DEF Inv, Typed
  <2>2. Given(Left(run)) \cap (Given(steering) \cup Given(followUps)) = {}
    BY LeftApart
  <2> QED BY <1>4, <1>5, <2>1, <2>2
<1>8. n \in Nat
  BY <1>5 DEF Records
<1>9. Shows(t, way, returned') = b
  <2>1. \A i \in 1..Len(t) : t[i].role = "user" /\ t[i].kind = way
                               => (t[i].n \in returned' <=> t[i].n \in returned)
    <3> SUFFICES ASSUME NEW i \in 1..Len(t), t[i].role = "user"
                 PROVE  t[i].n \in returned' <=> t[i].n \in returned
      OBVIOUS
    <3>1. t[i].n \in Given(t)
      BY DEF Given, Told, GivenRoles
    <3> QED BY <1>1, <1>5, <3>1
  <2>2. t \in Seq(Records)
    BY <1>5
  <2> HIDE DEF t
  <2> QED BY ONLY <2>1, <2>2, ShowsAgree
<1>10. Shows(queue, way, returned') = c
  <2>1. \A i \in 1..Len(queue) : queue[i].role = "user" /\ queue[i].kind = way
                                   => (queue[i].n \in returned' <=> queue[i].n \in returned)
    <3> SUFFICES ASSUME NEW i \in 1..Len(queue), queue[i].role = "user"
                 PROVE  queue[i].n \in returned' <=> queue[i].n \in returned
      OBVIOUS
    <3>1. queue[i].n \in Given(queue)
      BY DEF Given, Told, GivenRoles
    <3> QED BY <1>1, <1>7, <3>1
  <2> QED BY <1>7, <2>1, ShowsAgree
<1>11. a = IF h.kind = way /\ n \notin returned THEN <<n>> ELSE <<>>
  <2>1. /\ h \in Records /\ h.role = "user"
    BY <1>2, <1>5
  <2> HIDE DEF h
  <2> QED BY <2>1, ShowsOne
<1> DEFINE left == b \o c
<1>12. /\ View(run', queue, way, returned') = left
       /\ left \in Seq(Nat) /\ n \notin Range(left)
       /\ a \in Seq(Nat) /\ b \in Seq(Nat) /\ c \in Seq(Nat)
  <2>1. View(run', queue, way, returned') = left
    BY <1>4, <1>9, <1>10 DEF View
  <2>2. b \in Seq(Nat) /\ Range(b) \subseteq Given(t)
    <3> HIDE DEF t
    <3> QED BY <1>5, ShowsTold DEF t
  <2>3. c \in Seq(Nat) /\ Range(c) \subseteq Given(queue)
    BY <1>7, ShowsTold
  <2>4. left \in Seq(Nat) /\ Range(left) = Range(b) \cup Range(c)
    <3> HIDE DEF b, c
    <3> QED BY <2>2, <2>3, RangeConcat
  <2>5. a \in Seq(Nat)
    BY <1>5, ShowsTold
  <2> QED BY <1>5, <1>7, <2>1, <2>2, <2>3, <2>4, <2>5
<1>13. View(run, queue, way, returned) = a \o left
  <2> DEFINE d == <<h>>
  <2>1. d \in Seq(Records) /\ t \in Seq(Records)
    BY <1>5
  <2> HIDE DEF d, t
  <2>2. Shows(d \o t, way, returned) = Shows(d, way, returned) \o Shows(t, way, returned)
    BY ONLY <2>1, ShowsConcat
  <2>3. Shows(run.out, way, returned) = a \o b
    BY <1>6, <2>2 DEF d
  <2>4. View(run, queue, way, returned) = (a \o b) \o c
    BY <1>4, <2>3 DEF View
  <2> HIDE DEF a, b, c
  <2>5. (a \o b) \o c = a \o (b \o c)
    BY <1>12, ConcatNumbers
  <2> QED BY <2>4, <2>5
<1> HIDE DEF a, b, c
<1>14. View(run, queue, way, returned)
         = IF h.kind = way /\ n \notin returned THEN <<n>> \o left ELSE left
  <2> HIDE DEF left, h
  <2>1. <<>> \o left = left
    BY <1>12
  <2> QED BY <1>11, <1>13, <2>1
<1> QED BY <1>8, <1>12, <1>14

LEMMA StartMirror == ASSUME Faithful, MessageStart PROVE Marked' /\ Mirrored'
<1> DEFINE n == run.out[1].n
           s == View(run', steering, "steer", returned')
           f == View(run', followUps, "followUp", returned')
<1>1. /\ Inv /\ Marked /\ Mirrored /\ mirror \in Mirrors
      /\ steering \in Seq(Sent("steer")) /\ followUps \in Seq(Sent("followUp"))
      /\ nextTurn \in Seq(Customs) /\ \A p \in Callers : op[p].prompts \in Seq(Sent("prompt"))
  BY QueuesAre
<1>2. /\ op' = op /\ nextTurn' = nextTurn /\ sent' = sent /\ steering' = steering
      /\ followUps' = followUps /\ returned' = returned \ {n}
  BY DEF MessageStart
<1>3. /\ mirror = [steering |-> mirror.steering, followUps |-> mirror.followUps]
      /\ mirror.steering \in Seq(Nat) /\ mirror.followUps \in Seq(Nat)
  BY <1>1 DEF Mirrors
<1>4. CASE ~connected
  <2>1. unheard' = TRUE /\ mirror' = mirror
    BY <1>4 DEF MessageStart
  <2>2. Marked'
    BY <1>1, <1>2, <2>1, MarkedThen
  <2>3. Mirrored'
    BY <2>1, MirroredThen
  <2> QED BY <2>2, <2>3
<1>5. CASE connected
  <2>1. /\ unheard' = unheard
        /\ mirror' = IF Contains(mirror.steering, n)
                     THEN [mirror EXCEPT !.steering = Without(@, n)]
                     ELSE [mirror EXCEPT !.followUps = Without(@, n)]
    BY <1>5 DEF MessageStart
  <2>2. mirror' = IF Contains(mirror.steering, n)
                  THEN [steering |-> Without(mirror.steering, n), followUps |-> mirror.followUps]
                  ELSE [steering |-> mirror.steering, followUps |-> Without(mirror.followUps, n)]
    BY <1>3, <2>1
  <2>3. mirror' \in Mirrors
    <3>1. Without(mirror.steering, n) \in Seq(Nat)
      BY <1>3, OnlyPicks DEF Without
    <3>2. Without(mirror.followUps, n) \in Seq(Nat)
      BY <1>3, OnlyPicks DEF Without
    <3> QED BY <1>3, <2>2, <3>1, <3>2 DEF Mirrors
  <2>4. Marked'
    BY <1>1, <1>2, <2>3, MarkedThen
  <2>5. ASSUME ~unheard'
        PROVE  /\ returned' \subseteq 1..sent'
               /\ mirror'.steering = View(run', steering', "steer", returned')
               /\ mirror'.followUps = View(run', followUps', "followUp", returned')
    <3>1. /\ returned \subseteq 1..sent
          /\ mirror.steering = View(run, steering, "steer", returned)
          /\ mirror.followUps = View(run, followUps, "followUp", returned)
      BY <1>1, <2>1, <2>5 DEF Mirrored
    <3>2. /\ n \in Nat /\ s \in Seq(Nat) /\ n \notin Range(s)
          /\ mirror.steering = IF run.out[1].kind = "steer" /\ n \notin returned
                               THEN <<n>> \o s ELSE s
      BY <1>1, <3>1, StartView
    <3>3. /\ f \in Seq(Nat) /\ n \notin Range(f)
          /\ mirror.followUps = IF run.out[1].kind = "followUp" /\ n \notin returned
                                THEN <<n>> \o f ELSE f
      BY <1>1, <3>1, StartView
    <3> DEFINE k == run.out[1].kind
    <3>4. k = "steer" => k # "followUp"
      OBVIOUS
    <3> HIDE DEF s, f, n, k
    <3>5. /\ Without(<<n>> \o s, n) = s /\ Contains(<<n>> \o s, n)
          /\ Without(s, n) = s /\ ~Contains(s, n)
      BY <3>2, WithoutIs
    <3>6. Without(<<n>> \o f, n) = f /\ Without(f, n) = f
      BY <3>2, <3>3, WithoutIs
    <3>7. mirror'.steering = s /\ mirror'.followUps = f
      <4>1. CASE k = "steer" /\ n \notin returned
        BY <2>2, <3>2, <3>3, <3>4, <3>5, <4>1 DEF k
      <4>2. CASE ~(k = "steer" /\ n \notin returned)
        <5>1. mirror.steering = s /\ ~Contains(mirror.steering, n)
          BY <3>2, <3>5, <4>2 DEF k
        <5>2. Without(mirror.followUps, n) = f
          BY <3>3, <3>6
        <5> QED BY <2>2, <5>1, <5>2
      <4> QED BY <4>1, <4>2
    <3> QED BY <1>2, <3>1, <3>7 DEF s, f
  <2>6. Mirrored'
    BY <2>5, MirroredThen
  <2> QED BY <2>4, <2>6
<1> QED BY <1>4, <1>5


(* A call that goes on by itself neither speaks nor hears.                   *)
LEMMA OpMirror ==
  ASSUME Faithful, NEW p \in Callers,
         \/ AfterRun(p) \/ WakeUp(p) \/ RetryCancelled(p)
         \/ AutoCompactionPrepared(p) \/ AutoCompacted(p) \/ AutoCompactionFails(p)
  PROVE  Marked' /\ Mirrored'
<1>1. Inv /\ sent \in Nat
  BY QueuesAre
<1>2. Continues(p)
  BY <1>1, AfterRunContinues, WakeUpContinues, RetryCancelledContinues,
     AutoCompactionPreparedContinues, AutoCompactedContinues
<1>3. PICK o \in Ops : GoesOn(p, o)
  BY <1>2 DEF Continues
<1>4. /\ run' = run /\ steering' = steering /\ followUps' = followUps
      /\ unheard' = unheard /\ sent' = sent
  BY <1>2 DEF Continues
<1>5. mirror' = mirror /\ returned' = returned
  BY DEF AfterRun, WakeUp, RetryCancelled, AutoCompactionPrepared, AutoCompacted,
         AutoCompactionFails, elsewhere
<1>6. sent' \in Nat /\ sent <= sent'
  BY <1>1, <1>4
<1> QED BY <1>3, <1>4, <1>5, <1>6, CallMirror

LEMMA PromptMirror == ASSUME Faithful, NEW p \in Callers, Prompt(p) PROVE Marked' /\ Mirrored'
<1>1. Inv /\ sent \in Nat
  BY QueuesAre
<1>2. PICK o \in Ops : GoesOn(p, o)
  BY <1>1, PromptGoes
<1>3. /\ run' = run /\ steering' = steering /\ followUps' = followUps /\ unheard' = unheard
      /\ mirror' = mirror /\ returned' = returned /\ sent' = sent + 1
  BY <1>1, PromptGoes
<1>4. sent' \in Nat /\ sent <= sent'
  BY <1>1, <1>3
<1> QED BY <1>2, <1>3, <1>4, CallMirror

LEMMA InitFaithful == Init => Faithful
<1> SUFFICES ASSUME Init PROVE Faithful
  OBVIOUS
<1>1. /\ run = NoRun /\ steering = <<>> /\ followUps = <<>> /\ nextTurn = <<>>
      /\ mirror = NoMirror /\ returned = {} /\ op = [p \in Callers |-> IdleOp]
  BY DEF Init
<1>2. Inv
  BY InitInv
<1>3. \A p \in Callers : op[p].prompts = <<>>
  BY <1>1 DEF IdleOp
<1>4. Marked
  BY <1>1, <1>3, NothingSent, EmptySeq DEF Marked, NoMirror, Mirrors
<1>5. Left(run) = <<>>
  BY <1>1 DEF Left, NoRun
<1>6. \A way : Shows(<<>>, way, returned) = <<>>
  <2>1. <<>> \in Seq(Records) /\ \A i \in 1..Len(<<>>) : FALSE
    BY EmptySeq
  <2> QED BY <2>1, ShowsNothing
<1>7. /\ View(run, steering, "steer", returned) = <<>>
      /\ View(run, followUps, "followUp", returned) = <<>>
  <2>1. <<>> \o <<>> = <<>>
    OBVIOUS
  <2> QED BY <1>1, <1>5, <1>6, <2>1 DEF View
<1>8. Mirrored
  BY <1>1, <1>7 DEF Mirrored, NoMirror
<1> QED BY <1>2, <1>4, <1>8 DEF Faithful

LEMMA StepFaithful == Faithful /\ [Next]_vars => Faithful'
<1> SUFFICES ASSUME Faithful, [Next]_vars PROVE Marked' /\ Mirrored'
  BY StepInv DEF Faithful
<1>1. CASE RunStep
  <2>1. CASE MessageStart
    BY <2>1, StartMirror
  <2>2. CASE MessageEnd \/ SaveMessage \/ Request \/ RunTools \/ FinishRun
    BY <2>2, RunMirror
  <2>3. CASE PollSteering \/ PollBoth
    BY <2>3, PollsMirror
  <2> QED BY <1>1, <2>1, <2>2, <2>3 DEF RunStep
<1>2. ASSUME NEW p \in Callers, OpStep(p) PROVE Marked' /\ Mirrored'
  <2>1. CASE SendPrompt(p)
    BY <2>1, PromptSentMirror
  <2>2. CASE ContinueRun(p)
    BY <2>2, ContinueMirror
  <2>3. CASE \/ AfterRun(p) \/ WakeUp(p) \/ RetryCancelled(p)
             \/ AutoCompactionPrepared(p) \/ AutoCompacted(p) \/ AutoCompactionFails(p)
    BY <2>3, OpMirror
  <2> QED BY <1>2, <2>1, <2>2, <2>3 DEF OpStep
<1>3. CASE \/ CustomForNextTurn \/ CustomAppended \/ RecordBashResult \/ Abort \/ Compact
           \/ CompactPrepared \/ CompactDone \/ UNCHANGED vars
  BY <1>3, QuietMirror
<1>4. CASE Client
  <2>1. ASSUME NEW p \in Callers, Prompt(p) PROVE Marked' /\ Mirrored'
    BY <2>1, PromptMirror
  <2>2. ASSUME NEW p \in Callers, CustomTurn(p) PROVE Marked' /\ Mirrored'
    BY <2>2, PromptSentMirror
  <2>3. CASE Steer \/ FollowUp \/ CustomQueued
    BY <2>3, SayMirror
  <2>4. CASE ClearQueue
    BY <2>4, ClearMirror
  <2> QED BY <1>3, <1>4, <2>1, <2>2, <2>3, <2>4 DEF Client
<1> QED BY <1>1, <1>2, <1>3, <1>4 DEF Next

(* What the property shows is what the invariant shows.                      *)
LEMMA WaitingIs ==
  ASSUME Faithful, NEW way, NEW queue \in {steering, followUps}
  PROVE  Waiting(way, queue) = View(run, queue, way, returned)
<1> DEFINE s == Left(run)
           u == s \o queue
<1>1. s \in Seq(Records) /\ queue \in Seq(Records) /\ s = NotStarted
  BY QueuesAre, LeftIs
<1> HIDE DEF s
<1>2. u \in Seq(Records) /\ Shows(u, way, returned) = Shows(s, way, returned) \o Shows(queue, way, returned)
  BY <1>1, ShowsConcat
<1> HIDE DEF u
<1>3. \A i \in 1..Len(u) : u[i] \in Shown(way, u) <=> u[i] \in Visible(way, returned)
  <2>1. \A i \in 1..Len(u) : u[i] \in Records /\ u[i] \in Range(u)
    BY <1>2 DEF Range
  <2> QED BY <2>1 DEF Shown, Visible
<1>4. Only(u, Shown(way, u)) = Only(u, Visible(way, returned))
  BY <1>2, <1>3, OnlyAgrees
<1> QED BY <1>1, <1>2, <1>4 DEF Waiting, View, Shows, u, s

LEMMA FaithfulGives == Faithful => MirrorIsFaithful
BY WaitingIs DEF Faithful, Mirrored, MirrorIsFaithful

(* Unless a compact() has stopped listening to the run, the pending messages *)
(* that the session shows its users are, at every moment and whoever steers, *)
(* prompts, aborts, compacts or clears the queues, exactly the user messages *)
(* that wait in the agent's queues or that a run has taken and not started,  *)
(* in their order, but for those that clearQueue gave back.                  *)
THEOREM MirrorTellsTheQueues == Spec => []MirrorIsFaithful
<1>1. Spec => []Faithful
  BY InitFaithful, StepFaithful, PTL DEF Spec
<1> QED BY <1>1, FaithfulGives, PTL

=============================================================================
