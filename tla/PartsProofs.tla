---------------------------- MODULE PartsProofs -----------------------------
(***************************************************************************)
(* The components that work by themselves: the queue of file mutations,    *)
(* which is a chain of promises, the file lock of the stored credentials,  *)
(* the RPC client and the incremental review.                              *)
(***************************************************************************)
EXTENDS FileMutationQueue, AuthStorage, RpcClient, IncrementalReview, FilterProofs

-----------------------------------------------------------------------------
(***************************************************************************)
(* The queue of file mutations keeps calls with one key apart, for any     *)
(* number of calls, paths and files.  The order of registration is the key *)
(* to the proof: a call that may run is the first of its key, the call a   *)
(* call waits for is the one right before it, and the call the queue of a  *)
(* key names is the last.                                                  *)
(***************************************************************************)

Rivals(c, d) == Active(c) /\ Active(d) /\ key[c] = key[d] /\ c # d

TicketsDiffer ==
  /\ \A c \in Calls : Active(c) => ticket[c] < turn
  /\ \A c, d \in Calls : Rivals(c, d) => ticket[c] # ticket[d]

QueueNamesLast ==
  \A c \in Calls : Active(c) =>
    /\ queues[key[c]] \in Calls /\ Active(queues[key[c]])
    /\ key[queues[key[c]]] = key[c] /\ ticket[c] <= ticket[queues[key[c]]]

QueueNamesActive ==
  \A k \in Paths : queues[k] # NoCall => Active(queues[k]) /\ key[queues[k]] = k

FirstMayRun ==
  \A c, d \in Calls : (Rivals(c, d) /\ Settled(before[c])) => ticket[c] < ticket[d]

WaitsForPrevious ==
  \A c \in Calls : (Active(c) /\ ~Settled(before[c])) =>
    /\ Rivals(before[c], c)
    /\ \A d \in Calls : (Rivals(c, d) /\ ticket[d] < ticket[c]) => ticket[d] <= ticket[before[c]]

InsideMayRun == \A c \in Calls : stage[c] \in Inside => Settled(before[c])

IndInv == /\ QueueTypeOK /\ TicketsDiffer /\ QueueNamesLast /\ QueueNamesActive
          /\ FirstMayRun /\ WaitsForPrevious /\ InsideMayRun

-----------------------------------------------------------------------------
(* The type invariant is inductive by itself.                                *)
LEMMA TypeInit == QueueInit => QueueTypeOK
  BY SMTT(30), QueueAssumption DEF QueueInit, QueueTypeOK, Stages

LEMMA TypeStep ==
  ASSUME QueueTypeOK, [QueueNext]_queueVars
  PROVE  QueueTypeOK'
<1> USE QueueAssumption DEF QueueTypeOK, Stages, Inside, history, diskVars, arguments, File, AtHead
<1>1. ASSUME NEW c \in Calls, NEW t \in {"edit", "write"}, Call(c, t)
      PROVE  QueueTypeOK'
  BY <1>1 DEF Call
<1>2. ASSUME NEW c \in Calls, Leave(c)
      PROVE  /\ stage' \in [Calls -> Stages \cup {"new", "registering", "keyed", "settled"}]
             /\ queues' \in [Paths -> Calls \cup {NoCall}]
  BY <1>2 DEF Leave, Forget
<1>3. ASSUME NEW c \in Calls, NEW s \in Inside, Go(c, s)
      PROVE  /\ stage' \in [Calls -> Stages \cup {"new", "registering", "keyed", "settled"}]
             /\ queues' \in [Paths -> Calls \cup {NoCall}]
  <2>1. CASE Leave(c)
    BY <1>2, <2>1
  <2>2. CASE ~Leave(c)
    BY <1>3, <2>2 DEF Go
  <2> QED BY <2>1, <2>2
<1>4. ASSUME NEW c \in Calls, ResolveKey(c)
      PROVE  QueueTypeOK'
  <2>1. Key(c) \in Paths
    BY DEF Key
  <2> QED BY <1>4, <2>1 DEF ResolveKey
<1>5. ASSUME NEW c \in Calls, RegistrationFails(c)
      PROVE  QueueTypeOK'
  BY <1>5 DEF RegistrationFails
<1>6. ASSUME NEW c \in Calls, Register(c)
      PROVE  QueueTypeOK'
  BY <1>6 DEF Register
<1>7. ASSUME NEW c \in Calls, Enter(c)
      PROVE  QueueTypeOK'
  <2>1. (IF tool[c] = "edit" THEN "access" ELSE "mkdir") \in Inside
    OBVIOUS
  <2> QED BY <1>7, <1>3, <2>1 DEF Enter
<1>8. ASSUME NEW c \in Calls, Access(c)
      PROVE  QueueTypeOK'
  BY <1>8, <1>2, <1>3 DEF Access
<1>9. ASSUME NEW c \in Calls, MakeDirectory(c)
      PROVE  QueueTypeOK'
  BY <1>9, <1>3 DEF MakeDirectory
<1>10. ASSUME NEW c \in Calls, Write(c)
       PROVE  QueueTypeOK'
  BY <1>10, <1>2 DEF Write
<1>11. ASSUME NEW c \in Calls, Fails(c)
       PROVE  QueueTypeOK'
  BY <1>11, <1>2 DEF Fails
<1>12. ASSUME NEW c \in Calls, NEW matches \in BOOLEAN, Read(c, matches)
       PROVE  QueueTypeOK'
  BY <1>12, <1>2, <1>3 DEF Read
<1>13. CASE UNCHANGED queueVars
  BY <1>13 DEF queueVars
<1> QED
  BY <1>1, <1>4, <1>5, <1>6, <1>7, <1>8, <1>9, <1>10, <1>11, <1>12, <1>13 DEF QueueNext, CallStep

-----------------------------------------------------------------------------
(* A call that is not under way changes nothing the order depends on.        *)
LEMMA OutsideStep ==
  ASSUME IndInv, QueueTypeOK', NEW c \in Calls, ~Active(c),
         UNCHANGED <<queues, before, ticket, turn>>,
         \A d \in Calls : d # c => stage'[d] = stage[d] /\ key'[d] = key[d],
         stage[c] # "settled", stage'[c] \notin Stages
  PROVE  IndInv'
<1> USE QueueAssumption DEF IndInv, QueueTypeOK, Active, Rivals, Settled, Inside
<1>1. \A d \in Calls : Active(d)' <=> Active(d)
  OBVIOUS
<1>2. \A d, e \in Calls : Rivals(d, e)' <=> Rivals(d, e)
  BY <1>1
<1>3. \A d \in Calls : Active(d) => (Settled(before[d])' <=> Settled(before[d]))
  <2> SUFFICES ASSUME NEW d \in Calls, Active(d), before[d] # NoCall
               PROVE  stage'[before[d]] = "settled" <=> stage[before[d]] = "settled"
    OBVIOUS
  <2>1. CASE before[d] # c
    BY <2>1
  <2>2. CASE before[d] = c
    BY <2>2 DEF WaitsForPrevious
  <2> QED BY <2>1, <2>2
<1>4. TicketsDiffer'
  BY <1>1, <1>2 DEF TicketsDiffer
<1>5. QueueNamesLast'
  <2> SUFFICES ASSUME NEW d \in Calls, Active(d)
               PROVE  /\ queues[key'[d]] \in Calls /\ stage'[queues[key'[d]]] \in Stages
                      /\ key'[queues[key'[d]]] = key'[d]
                      /\ ticket[d] <= ticket[queues[key'[d]]]
    BY <1>1 DEF QueueNamesLast
  <2>1. key'[d] = key[d]
    OBVIOUS
  <2>2. queues[key[d]] \in Calls /\ queues[key[d]] # c
    BY DEF QueueNamesLast
  <2> QED BY <2>1, <2>2, <1>1 DEF QueueNamesLast
<1>6. QueueNamesActive'
  BY <1>1 DEF QueueNamesActive
<1>7. FirstMayRun'
  BY <1>1, <1>2, <1>3 DEF FirstMayRun
<1>8. WaitsForPrevious'
  <2> SUFFICES ASSUME NEW d \in Calls, Active(d)', ~Settled(before[d])'
               PROVE  /\ Rivals(before[d], d)'
                      /\ \A e \in Calls : (Rivals(d, e)' /\ ticket[e] < ticket[d])
                                            => ticket[e] <= ticket[before[d]]
    BY DEF WaitsForPrevious
  <2>1. before[d] \in Calls /\ Active(d) /\ ~Settled(before[d])
    BY <1>1, <1>3
  <2> QED BY <2>1, <1>2 DEF WaitsForPrevious
<1>9. InsideMayRun'
  <2> SUFFICES ASSUME NEW d \in Calls, stage'[d] \in Inside
               PROVE  Settled(before[d])'
    BY DEF InsideMayRun
  <2>1. d # c /\ stage[d] \in Inside /\ Active(d)
    OBVIOUS
  <2> QED BY <2>1, <1>3 DEF InsideMayRun
<1> QED BY <1>4, <1>5, <1>6, <1>7, <1>8, <1>9

(* A call that may run goes on to one of its file operations.                *)
LEMMA MoveStep ==
  ASSUME IndInv, QueueTypeOK', NEW c \in Calls, NEW next \in Inside,
         Active(c), Settled(before[c]),
         stage' = [stage EXCEPT ![c] = next],
         UNCHANGED <<queues, key, before, ticket, turn>>
  PROVE  IndInv'
<1> USE QueueAssumption DEF IndInv, QueueTypeOK, Active, Rivals, Settled, Inside, Stages
<1>1. \A d \in Calls : Active(d)' <=> Active(d)
  OBVIOUS
<1>2. \A d, e \in Calls : Rivals(d, e)' <=> Rivals(d, e)
  BY <1>1
<1>3. \A d \in Calls : Settled(before[d])' <=> Settled(before[d])
  OBVIOUS
<1>4. TicketsDiffer'
  BY <1>1, <1>2 DEF TicketsDiffer
<1>5. QueueNamesLast'
  <2> SUFFICES ASSUME NEW d \in Calls, Active(d)
               PROVE  /\ queues[key[d]] \in Calls /\ stage'[queues[key[d]]] \in Stages
                      /\ key[queues[key[d]]] = key[d]
                      /\ ticket[d] <= ticket[queues[key[d]]]
    BY <1>1 DEF QueueNamesLast
  <2> QED BY <1>1 DEF QueueNamesLast
<1>6. QueueNamesActive'
  BY <1>1 DEF QueueNamesActive
<1>7. FirstMayRun'
  BY <1>1, <1>2, <1>3 DEF FirstMayRun
<1>8. WaitsForPrevious'
  <2> SUFFICES ASSUME NEW d \in Calls, Active(d)', ~Settled(before[d])'
               PROVE  /\ Rivals(before[d], d)'
                      /\ \A e \in Calls : (Rivals(d, e)' /\ ticket[e] < ticket[d])
                                            => ticket[e] <= ticket[before[d]]
    BY DEF WaitsForPrevious
  <2>1. before[d] \in Calls /\ Active(d) /\ ~Settled(before[d])
    BY <1>1, <1>3
  <2> QED BY <2>1, <1>2 DEF WaitsForPrevious
<1>9. InsideMayRun'
  BY <1>3 DEF InsideMayRun
<1> QED BY <1>4, <1>5, <1>6, <1>7, <1>8, <1>9

(* A call that may run settles: the finally block.                           *)
LEMMA LeaveStep ==
  ASSUME IndInv, QueueTypeOK', NEW c \in Calls,
         Active(c), Settled(before[c]), Leave(c),
         UNCHANGED <<key, before, ticket, turn>>
  PROVE  IndInv'
<1> USE QueueAssumption DEF IndInv, QueueTypeOK, Active, Rivals, Settled, Inside, Stages
<1>1. stage' = [stage EXCEPT ![c] = "settled"]
  BY DEF Leave
<1>2. \A d \in Calls : Active(d)' <=> Active(d) /\ d # c
  BY <1>1
<1>3. \A d, e \in Calls : Rivals(d, e)' <=> Rivals(d, e) /\ d # c /\ e # c
  BY <1>2
<1>4. \A d \in Calls : Settled(before[d])' <=> Settled(before[d]) \/ before[d] = c
  BY <1>1
<1>5. \A d \in Calls : Rivals(c, d) => ticket[c] < ticket[d]
  BY DEF FirstMayRun
<1>6. \A k \in Paths : queues'[k] = IF queues[k] = c THEN NoCall ELSE queues[k]
  BY DEF Leave, Forget, QueueNamesActive
<1>7. TicketsDiffer'
  BY <1>2, <1>3 DEF TicketsDiffer
<1>8. QueueNamesLast'
  <2> SUFFICES ASSUME NEW d \in Calls, Active(d), d # c
               PROVE  /\ queues'[key[d]] \in Calls /\ stage'[queues'[key[d]]] \in Stages
                      /\ key[queues'[key[d]]] = key[d]
                      /\ ticket[d] <= ticket[queues'[key[d]]]
    BY <1>2 DEF QueueNamesLast
  <2>1. queues[key[d]] # c
    <3> SUFFICES ASSUME queues[key[d]] = c PROVE FALSE
      OBVIOUS
    <3>1. Rivals(c, d) /\ ticket[d] <= ticket[c]
      BY DEF QueueNamesLast
    <3> QED BY <3>1, <1>5
  <2> QED BY <2>1, <1>2, <1>6 DEF QueueNamesLast
<1>9. QueueNamesActive'
  BY <1>2, <1>6 DEF QueueNamesActive
<1>10. FirstMayRun'
  <2> SUFFICES ASSUME NEW d \in Calls, NEW e \in Calls, Rivals(d, e)', Settled(before[d])'
               PROVE  ticket[d] < ticket[e]
    BY DEF FirstMayRun
  <2>1. Rivals(d, e) /\ d # c /\ e # c
    BY <1>3
  <2>2. CASE Settled(before[d])
    BY <2>1, <2>2 DEF FirstMayRun
  <2>3. CASE ~Settled(before[d]) /\ before[d] = c
    <3>1. Rivals(c, d) /\ (ticket[e] < ticket[d] => ticket[e] <= ticket[c])
      BY <2>1, <2>3 DEF WaitsForPrevious
    <3>2. Rivals(c, e) /\ ticket[c] < ticket[e]
      BY <2>1, <3>1, <1>5
    <3>3. ticket[d] # ticket[e] /\ ticket[d] \in Nat /\ ticket[e] \in Nat /\ ticket[c] \in Nat
      BY <2>1 DEF TicketsDiffer
    <3> QED BY <3>1, <3>2, <3>3
  <2> QED BY <2>2, <2>3, <1>4
<1>11. WaitsForPrevious'
  <2> SUFFICES ASSUME NEW d \in Calls, Active(d)', ~Settled(before[d])'
               PROVE  /\ Rivals(before[d], d)'
                      /\ \A e \in Calls : (Rivals(d, e)' /\ ticket[e] < ticket[d])
                                            => ticket[e] <= ticket[before[d]]
    BY DEF WaitsForPrevious
  <2>1. before[d] \in Calls /\ before[d] # c /\ Active(d) /\ d # c /\ ~Settled(before[d])
    BY <1>2, <1>4
  <2> QED BY <2>1, <1>3 DEF WaitsForPrevious
<1>12. InsideMayRun'
  BY <1>1, <1>4 DEF InsideMayRun
<1> QED BY <1>7, <1>8, <1>9, <1>10, <1>11, <1>12

(* A call joins the queue of its key behind the last one.                    *)
LEMMA RegisterStep ==
  ASSUME IndInv, QueueTypeOK', NEW c \in Calls, Register(c)
  PROVE  IndInv'
<1> USE QueueAssumption DEF IndInv, QueueTypeOK, Active, Rivals, Settled, Inside, Stages
<1> DEFINE last == queues[key[c]]
<1>1. /\ stage[c] = "keyed" /\ stage' = [stage EXCEPT ![c] = "waiting"] /\ key' = key
      /\ before' = [before EXCEPT ![c] = last] /\ queues' = [queues EXCEPT ![key[c]] = c]
      /\ ticket' = [ticket EXCEPT ![c] = turn] /\ turn' = turn + 1
  BY DEF Register
<1>2. \A d \in Calls : Active(d)' <=> Active(d) \/ d = c
  BY <1>1
<1>3. /\ ~Active(c) /\ key[c] \in Paths /\ ticket'[c] = turn /\ turn \in Nat
      /\ \A d \in Calls : d # c => ticket'[d] = ticket[d] /\ before'[d] = before[d]
  BY <1>1
<1>4. \A d \in Calls : Active(d) => ticket[d] \in Nat /\ ticket[d] < turn
  BY DEF TicketsDiffer
<1>5. \A d, e \in Calls : Rivals(d, e)' /\ d # c /\ e # c => Rivals(d, e)
  BY <1>1, <1>2
<1>6. \A d \in Calls : d # c => (Settled(before[d])' <=> Settled(before[d]))
  BY <1>1
<1>7. last # NoCall => last \in Calls /\ Active(last) /\ key[last] = key[c] /\ last # c
  BY <1>3 DEF QueueNamesActive
<1>8. \A d \in Calls : (Active(d) /\ key[d] = key[c]) => last # NoCall /\ ticket[d] <= ticket[last]
  BY DEF QueueNamesLast
<1>9. TicketsDiffer'
  <2>1. \A d \in Calls : Active(d)' => ticket'[d] < turn'
    BY <1>1, <1>2, <1>3, <1>4
  <2>2. \A d, e \in Calls : Rivals(d, e)' => ticket'[d] # ticket'[e]
    BY <1>1, <1>2, <1>3, <1>4, <1>5 DEF TicketsDiffer
  <2> QED BY <2>1, <2>2 DEF TicketsDiffer
<1>10. QueueNamesLast'
  <2> SUFFICES ASSUME NEW d \in Calls, Active(d)'
               PROVE  /\ queues'[key[d]] \in Calls /\ stage'[queues'[key[d]]] \in Stages
                      /\ key[queues'[key[d]]] = key[d]
                      /\ ticket'[d] <= ticket'[queues'[key[d]]]
    BY <1>1 DEF QueueNamesLast
  <2>1. CASE key[d] = key[c]
    <3>1. queues'[key[d]] = c
      BY <1>1, <1>3, <2>1
    <3> QED BY <1>1, <1>2, <1>3, <1>4, <2>1, <3>1
  <2>2. CASE key[d] # key[c]
    <3>1. d # c /\ Active(d) /\ queues'[key[d]] = queues[key[d]]
      BY <1>1, <1>2, <2>2
    <3>2. /\ queues[key[d]] \in Calls /\ Active(queues[key[d]]) /\ key[queues[key[d]]] = key[d]
          /\ ticket[d] <= ticket[queues[key[d]]]
      BY <3>1 DEF QueueNamesLast
    <3> QED BY <1>1, <1>3, <3>1, <3>2
  <2> QED BY <2>1, <2>2
<1>11. QueueNamesActive'
  <2> SUFFICES ASSUME NEW k \in Paths, queues'[k] # NoCall
               PROVE  stage'[queues'[k]] \in Stages /\ key[queues'[k]] = k
    BY <1>1 DEF QueueNamesActive
  <2>1. CASE k = key[c]
    BY <1>1, <2>1
  <2>2. CASE k # key[c]
    BY <1>1, <2>2 DEF QueueNamesActive
  <2> QED BY <2>1, <2>2
<1>12. FirstMayRun'
  <2> SUFFICES ASSUME NEW d \in Calls, NEW e \in Calls, Rivals(d, e)', Settled(before[d])'
               PROVE  ticket'[d] < ticket'[e]
    BY DEF FirstMayRun
  <2>1. CASE d # c /\ e # c
    BY <2>1, <1>3, <1>5, <1>6 DEF FirstMayRun
  <2>2. CASE e = c
    BY <2>2, <1>2, <1>3, <1>4
  <2>3. CASE d = c
    <3>1. Active(e) /\ key[e] = key[c]
      BY <2>3, <1>1, <1>2
    <3>2. last # NoCall /\ before'[c] = last /\ stage'[last] # "settled"
      BY <3>1, <1>1, <1>7, <1>8
    <3> QED BY <2>3, <3>2
  <2> QED BY <2>1, <2>2, <2>3
<1>13. WaitsForPrevious'
  <2> SUFFICES ASSUME NEW d \in Calls, Active(d)', ~Settled(before[d])'
               PROVE  /\ Active(before[d])' /\ key'[before'[d]] = key'[d] /\ before'[d] # d
                      /\ \A e \in Calls : (Rivals(d, e)' /\ ticket'[e] < ticket'[d])
                                            => ticket'[e] <= ticket'[before'[d]]
    BY DEF WaitsForPrevious
  <2>1. CASE d # c
    <3>1. Active(d) /\ ~Settled(before[d]) /\ before'[d] = before[d] /\ before[d] \in Calls
      BY <2>1, <1>2, <1>3, <1>6
    <3>2. Rivals(before[d], d) /\ before[d] # c
      BY <3>1, <1>3 DEF WaitsForPrevious
    <3>3. ASSUME NEW e \in Calls, Rivals(d, e)', ticket'[e] < ticket'[d]
          PROVE  ticket'[e] <= ticket'[before'[d]]
      <4>1. e # c
        BY <3>3, <3>1, <2>1, <1>3, <1>4
      <4>2. Rivals(d, e) /\ ticket[e] < ticket[d]
        BY <3>3, <4>1, <2>1, <1>3, <1>5
      <4> QED BY <4>1, <4>2, <3>1, <3>2, <1>3 DEF WaitsForPrevious
    <3> QED BY <3>1, <3>2, <3>3, <1>1, <1>2
  <2>2. CASE d = c
    <3>1. before'[c] = last /\ last # NoCall
      BY <2>2, <1>1
    <3>2. ASSUME NEW e \in Calls, Rivals(d, e)'
          PROVE  ticket'[e] <= ticket'[last]
      <4>1. e # c /\ Active(e) /\ key[e] = key[c]
        BY <3>2, <2>2, <1>1, <1>2
      <4> QED BY <4>1, <1>3, <1>7, <1>8
    <3> QED BY <3>1, <3>2, <2>2, <1>1, <1>2, <1>7
  <2> QED BY <2>1, <2>2
<1>14. InsideMayRun'
  <2> SUFFICES ASSUME NEW d \in Calls, stage'[d] \in Inside
               PROVE  Settled(before[d])'
    BY DEF InsideMayRun
  <2>1. d # c /\ stage[d] \in Inside
    BY <1>1
  <2> QED BY <2>1, <1>6 DEF InsideMayRun
<1> QED BY <1>9, <1>10, <1>11, <1>12, <1>13, <1>14

-----------------------------------------------------------------------------
LEMMA IndInit == QueueInit => IndInv
<1> SUFFICES ASSUME QueueInit PROVE IndInv
  OBVIOUS
<1>1. QueueTypeOK
  BY TypeInit
<1>2. \A c \in Calls : ~Active(c)
  BY DEF QueueInit, Active, Stages
<1>3. QueueNamesActive
  BY DEF QueueInit, QueueNamesActive
<1> QED BY <1>1, <1>2, <1>3 DEF IndInv, TicketsDiffer, QueueNamesLast, FirstMayRun,
           WaitsForPrevious, InsideMayRun, Rivals, Active, Inside

LEMMA IndStep ==
  ASSUME IndInv, [QueueNext]_queueVars
  PROVE  IndInv'
<1>1. QueueTypeOK'
  BY TypeStep DEF IndInv
<1> USE <1>1
<1>2. ASSUME NEW c \in Calls, stage[c] \in Inside
      PROVE  Active(c) /\ Settled(before[c])
  BY <1>2 DEF IndInv, InsideMayRun, Active, Inside
<1>3. ASSUME NEW c \in Calls, stage[c] \in Inside, Leave(c), UNCHANGED <<key, before, ticket, turn>>
      PROVE  IndInv'
  BY <1>2, <1>3, LeaveStep
<1>4. ASSUME NEW c \in Calls, NEW s \in Inside, Active(c), Settled(before[c]), Go(c, s),
             UNCHANGED <<key, before, ticket, turn>>
      PROVE  IndInv'
  BY <1>4, LeaveStep, MoveStep DEF Go
<1>5. ASSUME NEW c \in Calls, NEW t \in {"edit", "write"}, Call(c, t)
      PROVE  IndInv'
  <2>1. /\ ~Active(c) /\ stage[c] # "settled" /\ stage'[c] \notin Stages
        /\ \A d \in Calls : d # c => stage'[d] = stage[d] /\ key'[d] = key[d]
        /\ UNCHANGED <<queues, before, ticket, turn>>
    BY <1>5 DEF Call, IndInv, QueueTypeOK, Active, Stages, history
  <2> QED BY <2>1, OutsideStep
<1>6. ASSUME NEW c \in Calls, ResolveKey(c)
      PROVE  IndInv'
  <2>1. /\ ~Active(c) /\ stage[c] # "settled" /\ stage'[c] \notin Stages
        /\ \A d \in Calls : d # c => stage'[d] = stage[d] /\ key'[d] = key[d]
        /\ UNCHANGED <<queues, before, ticket, turn>>
    BY <1>6 DEF ResolveKey, IndInv, QueueTypeOK, Active, Stages, history
  <2> QED BY <2>1, OutsideStep
<1>7. ASSUME NEW c \in Calls, RegistrationFails(c)
      PROVE  IndInv'
  <2>1. /\ ~Active(c) /\ stage[c] # "settled" /\ stage'[c] \notin Stages
        /\ \A d \in Calls : d # c => stage'[d] = stage[d] /\ key'[d] = key[d]
        /\ UNCHANGED <<queues, before, ticket, turn>>
    BY <1>7 DEF RegistrationFails, IndInv, QueueTypeOK, Active, Stages, history
  <2> QED BY <2>1, OutsideStep
<1>8. ASSUME NEW c \in Calls, Register(c)
      PROVE  IndInv'
  BY <1>8, RegisterStep
<1>9. ASSUME NEW c \in Calls, Enter(c)
      PROVE  IndInv'
  <2>1. Active(c) /\ Settled(before[c]) /\ (IF tool[c] = "edit" THEN "access" ELSE "mkdir") \in Inside
    BY <1>9 DEF Enter, Active, Stages, Inside
  <2> QED BY <1>4, <1>9, <2>1 DEF Enter, history
<1>10. ASSUME NEW c \in Calls, Access(c)
       PROVE  IndInv'
  <2>1. stage[c] \in Inside /\ "read" \in Inside
    BY <1>10 DEF Access, Inside, Stages
  <2> QED BY <1>2, <1>3, <1>4, <1>10, <2>1 DEF Access, history
<1>11. ASSUME NEW c \in Calls, MakeDirectory(c)
       PROVE  IndInv'
  <2>1. stage[c] \in Inside /\ "write" \in Inside
    BY <1>11 DEF MakeDirectory, Inside, Stages
  <2> QED BY <1>2, <1>4, <1>11, <2>1 DEF MakeDirectory, history
<1>12. ASSUME NEW c \in Calls, Write(c)
       PROVE  IndInv'
  <2>1. stage[c] \in Inside
    BY <1>12 DEF Write, Inside, Stages
  <2> QED BY <1>3, <1>12, <2>1 DEF Write, history
<1>13. ASSUME NEW c \in Calls, Fails(c)
       PROVE  IndInv'
  BY <1>3, <1>13 DEF Fails, history
<1>14. ASSUME NEW c \in Calls, NEW matches \in BOOLEAN, Read(c, matches)
       PROVE  IndInv'
  <2>1. stage[c] \in Inside /\ "write" \in Inside
    BY <1>14 DEF Read, Inside, Stages
  <2> QED BY <1>2, <1>3, <1>4, <1>14, <2>1 DEF Read, history
<1>15. CASE UNCHANGED queueVars
  BY <1>15 DEF queueVars, IndInv, QueueTypeOK, TicketsDiffer, QueueNamesLast, QueueNamesActive,
       FirstMayRun, WaitsForPrevious, InsideMayRun, Rivals, Active, Settled
<1> QED
  BY <1>5, <1>6, <1>7, <1>8, <1>9, <1>10, <1>11, <1>12, <1>13, <1>14, <1>15 DEF QueueNext, CallStep

(* No two calls that are at work have one key: both would be first.          *)
LEMMA FirstIsAlone ==
  ASSUME IndInv
  PROVE  OneCallPerKey
<1> SUFFICES ASSUME NEW c \in Calls, NEW d \in Calls, stage[c] \in Inside, stage[d] \in Inside,
                    key[c] = key[d], c # d
             PROVE  FALSE
  BY DEF OneCallPerKey
<1>1. Rivals(c, d) /\ Rivals(d, c)
  BY DEF Rivals, Active, Inside
<1>2. ticket[c] < ticket[d] /\ ticket[d] < ticket[c]
  BY <1>1 DEF IndInv, InsideMayRun, FirstMayRun
<1> QED BY <1>2 DEF IndInv, QueueTypeOK

(* The mutual exclusion withFileMutationQueue is there for: whatever number  *)
(* of calls register, fail or are aborted, no two with one key are inside.   *)
THEOREM CallsExclude == QueueSpec => []OneCallPerKey
<1>1. QueueInit => IndInv
  BY IndInit
<1>2. IndInv /\ [QueueNext]_queueVars => IndInv'
  BY IndStep
<1>3. IndInv => OneCallPerKey
  BY FirstIsAlone
<1> QED BY <1>1, <1>2, <1>3, PTL DEF QueueSpec

-----------------------------------------------------------------------------
(* Calls with one file have one key, unless there are TwoKeys; what an edit  *)
(* has read is then what the file holds until it writes.                     *)
Keyed(c) == Active(c) \/ stage[c] = "keyed"

KeysAreReal ==
  /\ \A c \in Calls : Keyed(c) => c \in missing \/ key[c] = RealPath[File(c)]
  /\ \A c \in missing : stage[c] \notin {"new", "registering"}

OnlyWritesMakeDirectories == \A c \in Calls : stage[c] = "mkdir" => tool[c] = "write"

SerialInv == IndInv /\ KeysAreReal /\ OnlyWritesMakeDirectories /\ EditsAreSerial

(* A step that resolves no key: what the property reads stays as it was, or  *)
(* the call that comes to write has just read.                               *)
LEMMA SerialFrame ==
  ASSUME QueueTypeOK, QueueTypeOK', KeysAreReal, EditsAreSerial,
         UNCHANGED <<key, path, missing>>,
         \A c \in Calls : Keyed(c)' => Keyed(c),
         \A c \in Calls : stage[c] \notin {"new", "registering"} =>
                          stage'[c] \notin {"new", "registering"},
         TwoKeys \/ \A c \in Calls :
           (stage'[c] = "write" /\ tool'[c] = "edit") =>
              \/ seen'[c] = content'[File(c)]
              \/ /\ stage[c] = "write" /\ tool[c] = "edit" /\ seen'[c] = seen[c]
                 /\ content'[File(c)] = content[File(c)]
  PROVE  KeysAreReal' /\ EditsAreSerial'
<1>1. \A c \in Calls : File(c)' = File(c)
  BY DEF File
<1>2. TwoKeys' <=> TwoKeys
  BY <1>1 DEF TwoKeys, QueueTypeOK
<1>3. KeysAreReal'
  BY <1>1 DEF KeysAreReal, QueueTypeOK
<1>4. EditsAreSerial'
  BY <1>1, <1>2 DEF EditsAreSerial
<1> QED BY <1>3, <1>4

(* A step of one call that neither reads nor writes and does not come to     *)
(* write: it moves inside the queue, or leaves it.                           *)
LEMMA SerialMove ==
  ASSUME SerialInv, IndInv', QueueTypeOK', NEW c \in Calls,
         UNCHANGED <<key, path, missing, tool, seen, content>>,
         NEW s \in {"settled", "waiting", "access", "read", "mkdir"},
         stage' = [stage EXCEPT ![c] = s],
         s = "settled" \/ Keyed(c),
         s = "mkdir" => tool[c] = "write"
  PROVE  SerialInv'
<1>1. QueueTypeOK
  BY DEF SerialInv, IndInv
<1>2. \A d \in Calls : /\ Keyed(d)' => Keyed(d)
                       /\ stage'[d] = "write" => stage[d] = "write"
                       /\ stage'[d] = "mkdir" => stage[d] = "mkdir" \/ tool[d] = "write"
  BY <1>1 DEF Keyed, Active, Stages, QueueTypeOK
<1>3. \A d \in Calls : stage[d] \notin {"new", "registering"} =>
                       stage'[d] \notin {"new", "registering"}
  BY <1>1 DEF QueueTypeOK
<1>4. OnlyWritesMakeDirectories'
  BY <1>2 DEF OnlyWritesMakeDirectories, SerialInv
<1>5. \A d \in Calls : (stage'[d] = "write" /\ tool'[d] = "edit") =>
         /\ stage[d] = "write" /\ tool[d] = "edit" /\ seen'[d] = seen[d]
         /\ content'[File(d)] = content[File(d)]
  BY <1>2
<1> QED BY <1>1, <1>2, <1>3, <1>4, <1>5, SerialFrame DEF SerialInv

(* Without TwoKeys, calls that are at work on one file have one key.         *)
LEMMA OneKeyPerFile ==
  ASSUME QueueTypeOK, KeysAreReal, ~TwoKeys, NEW c \in Calls, NEW d \in Calls,
         Active(c), Active(d), File(c) = File(d)
  PROVE  key[c] = key[d]
BY DEF KeysAreReal, TwoKeys, Keyed

(* The real path of a file is asked for: the call is keyed by it, or was     *)
(* registered before its file existed.                                       *)
LEMMA SerialResolve ==
  ASSUME SerialInv, IndInv', QueueTypeOK', NEW c \in Calls, ResolveKey(c)
  PROVE  SerialInv'
<1> USE DEF ResolveKey, QueueTypeOK, diskVars, arguments
<1>1. QueueTypeOK /\ KeysAreReal /\ EditsAreSerial /\ OnlyWritesMakeDirectories
  BY DEF SerialInv, IndInv
<1>2. \A d \in Calls : File(d)' = File(d)
  BY DEF File
<1>3. c \notin missing
  BY <1>1 DEF KeysAreReal
<1>4. \A d \in Calls : d # c => key'[d] = key[d] /\ stage'[d] = stage[d]
  BY <1>1
<1>5. key'[c] = Key(c) /\ stage'[c] = "keyed"
  BY <1>1
<1>6. missing' \subseteq missing \cup {c} /\ missing \subseteq missing'
  OBVIOUS
<1>7. c \in missing' \/ key'[c] = RealPath[File(c)]
  BY <1>5 DEF Key
<1>8. KeysAreReal'
  <2>1. \A d \in Calls : Keyed(d)' => d \in missing' \/ key'[d] = RealPath[File(d)]
    BY <1>1, <1>4, <1>6, <1>7 DEF KeysAreReal, Keyed, Active
  <2>2. \A d \in missing' : stage'[d] \notin {"new", "registering"}
    BY <1>1, <1>4, <1>5, <1>6 DEF KeysAreReal
  <2> QED BY <1>2, <2>1, <2>2 DEF KeysAreReal
<1>9. TwoKeys => TwoKeys'
  BY <1>2, <1>3, <1>4, <1>6 DEF TwoKeys
<1>10. EditsAreSerial'
  BY <1>1, <1>2, <1>4, <1>5, <1>9 DEF EditsAreSerial
<1>11. OnlyWritesMakeDirectories'
  BY <1>1, <1>4, <1>5 DEF OnlyWritesMakeDirectories
<1> QED BY <1>8, <1>10, <1>11 DEF SerialInv

LEMMA SerialStep ==
  ASSUME SerialInv, [QueueNext]_queueVars
  PROVE  SerialInv'
<1> USE DEF history, diskVars, arguments
<1>1. IndInv /\ IndInv' /\ QueueTypeOK /\ QueueTypeOK' /\ KeysAreReal /\ EditsAreSerial
      /\ OnlyWritesMakeDirectories
  BY IndStep DEF SerialInv, IndInv
<1>2. ASSUME UNCHANGED <<key, path, missing, tool, seen, content>>, NEW c \in Calls, Leave(c)
      PROVE  SerialInv'
  BY <1>1, <1>2, SerialMove DEF Leave
<1>3. ASSUME UNCHANGED <<key, path, missing, tool, seen, content>>, NEW c \in Calls,
             NEW s \in {"access", "read", "mkdir"}, Active(c), Go(c, s),
             s = "mkdir" => tool[c] = "write"
      PROVE  SerialInv'
  BY <1>1, <1>2, <1>3, SerialMove DEF Go, Keyed
<1>4. ASSUME NEW c \in Calls, NEW t \in {"edit", "write"}, Call(c, t)
      PROVE  SerialInv'
  <2>1. \A d \in Calls : d # c => stage'[d] = stage[d] /\ tool'[d] = tool[d]
    BY <1>1, <1>4 DEF Call, QueueTypeOK
  <2>2. stage[c] = "new" /\ stage'[c] = "registering"
    BY <1>1, <1>4 DEF Call, QueueTypeOK
  <2>3. \A d \in Calls : Keyed(d)' => Keyed(d)
    BY <2>1, <2>2 DEF Keyed, Active, Stages
  <2>4. OnlyWritesMakeDirectories'
    BY <1>1, <2>1, <2>2 DEF OnlyWritesMakeDirectories
  <2>5. UNCHANGED <<key, path, missing, seen, content>>
    BY <1>4 DEF Call
  <2>6. \A d \in Calls : stage[d] \notin {"new", "registering"} =>
                         stage'[d] \notin {"new", "registering"}
    BY <2>1, <2>2
  <2>7. \A d \in Calls : (stage'[d] = "write" /\ tool'[d] = "edit") =>
           /\ stage[d] = "write" /\ tool[d] = "edit" /\ seen'[d] = seen[d]
           /\ content'[File(d)] = content[File(d)]
    BY <2>1, <2>2, <2>5
  <2> QED BY <1>1, <2>3, <2>4, <2>5, <2>6, <2>7, SerialFrame DEF SerialInv
<1>5. ASSUME NEW c \in Calls, ResolveKey(c)
      PROVE  SerialInv'
  BY <1>1, <1>5, SerialResolve
<1>6. ASSUME NEW c \in Calls, RegistrationFails(c)
      PROVE  SerialInv'
  BY <1>1, <1>6, SerialMove DEF RegistrationFails
<1>7. ASSUME NEW c \in Calls, Register(c)
      PROVE  SerialInv'
  BY <1>1, <1>7, SerialMove DEF Register, Keyed
<1>8. ASSUME NEW c \in Calls, Enter(c)
      PROVE  SerialInv'
  <2>1. Active(c) /\ tool[c] \in {"edit", "write"}
    BY <1>1, <1>8 DEF Enter, Active, Stages, QueueTypeOK
  <2>2. UNCHANGED <<key, path, missing, tool, seen, content>>
    BY <1>8 DEF Enter
  <2>3. CASE tool[c] = "edit"
    BY <1>3, <1>8, <2>1, <2>2, <2>3 DEF Enter
  <2>4. CASE tool[c] = "write"
    BY <1>3, <1>8, <2>1, <2>2, <2>4 DEF Enter
  <2> QED BY <2>1, <2>3, <2>4
<1>9. ASSUME NEW c \in Calls, Access(c)
      PROVE  SerialInv'
  <2>1. Active(c) /\ UNCHANGED <<key, path, missing, tool, seen, content>>
    BY <1>9 DEF Access, Active, Stages
  <2> QED BY <1>2, <1>3, <1>9, <2>1 DEF Access
<1>10. ASSUME NEW c \in Calls, Fails(c)
       PROVE  SerialInv'
  BY <1>2, <1>10 DEF Fails
<1>11. ASSUME NEW c \in Calls, MakeDirectory(c)
       PROVE  SerialInv'
  <2>1. /\ Active(c) /\ stage[c] = "mkdir" /\ tool[c] = "write"
        /\ UNCHANGED <<key, path, missing, tool, seen, content>>
    BY <1>1, <1>11 DEF MakeDirectory, Active, Stages, OnlyWritesMakeDirectories
  <2>2. CASE Leave(c)
    BY <1>2, <2>1, <2>2
  <2>3. CASE stage' = [stage EXCEPT ![c] = "write"]
    <3>1. \A d \in Calls : d # c => stage'[d] = stage[d]
      BY <1>1, <2>3 DEF QueueTypeOK
    <3>2. stage'[c] = "write"
      BY <1>1, <2>3 DEF QueueTypeOK
    <3>3. \A d \in Calls : Keyed(d)' => Keyed(d)
      BY <2>1, <3>1 DEF Keyed, Active
    <3>4. OnlyWritesMakeDirectories'
      BY <1>1, <2>1, <3>1, <3>2 DEF OnlyWritesMakeDirectories
    <3>5. \A d \in Calls : stage[d] \notin {"new", "registering"} =>
                           stage'[d] \notin {"new", "registering"}
      BY <3>1, <3>2
    <3>6. \A d \in Calls : (stage'[d] = "write" /\ tool'[d] = "edit") =>
             /\ stage[d] = "write" /\ tool[d] = "edit" /\ seen'[d] = seen[d]
             /\ content'[File(d)] = content[File(d)]
      BY <2>1, <3>1
    <3> QED BY <1>1, <2>1, <3>3, <3>4, <3>5, <3>6, SerialFrame DEF SerialInv
  <2> QED BY <1>11, <2>2, <2>3 DEF MakeDirectory, Go
<1>12. ASSUME NEW c \in Calls, NEW matches \in BOOLEAN, Read(c, matches)
       PROVE  SerialInv'
  <2>1. /\ Active(c) /\ UNCHANGED <<key, path, missing, tool, content>>
        /\ seen' = [seen EXCEPT ![c] = content[File(c)]]
    BY <1>12 DEF Read, Active, Stages
  <2>2. /\ \A d \in Calls : d # c => stage'[d] = stage[d] /\ seen'[d] = seen[d]
        /\ seen'[c] = content[File(c)] /\ stage'[c] \in {"write", "settled"}
    BY <1>1, <1>12, <2>1 DEF Read, Go, Leave, QueueTypeOK
  <2>3. \A d \in Calls : Keyed(d)' => Keyed(d)
    BY <2>1, <2>2 DEF Keyed, Active
  <2>4. OnlyWritesMakeDirectories'
    BY <1>1, <2>1, <2>2 DEF OnlyWritesMakeDirectories
  <2>5. \A d \in Calls : stage[d] \notin {"new", "registering"} =>
                         stage'[d] \notin {"new", "registering"}
    BY <2>2
  <2>6. \A d \in Calls : (stage'[d] = "write" /\ tool'[d] = "edit") =>
           \/ seen'[d] = content'[File(d)]
           \/ /\ stage[d] = "write" /\ tool[d] = "edit" /\ seen'[d] = seen[d]
              /\ content'[File(d)] = content[File(d)]
    BY <2>1, <2>2
  <2> QED BY <1>1, <2>1, <2>3, <2>4, <2>5, <2>6, SerialFrame DEF SerialInv
<1>13. ASSUME NEW c \in Calls, Write(c)
       PROVE  SerialInv'
  <2>1. /\ Active(c) /\ stage[c] \in Inside /\ stage[c] = "write"
        /\ UNCHANGED <<key, path, missing, tool, seen>>
    BY <1>13 DEF Write, Active, Stages, Inside
  <2>2. (\A d \in Calls : d # c => stage'[d] = stage[d]) /\ stage'[c] = "settled"
    BY <1>1, <1>13 DEF Write, Leave, QueueTypeOK
  <2>3. \A d \in Calls : Keyed(d)' => Keyed(d)
    BY <2>1, <2>2 DEF Keyed, Active
  <2>4. OnlyWritesMakeDirectories'
    BY <1>1, <2>1, <2>2 DEF OnlyWritesMakeDirectories
  <2>5. \A d \in Calls : stage[d] \notin {"new", "registering"} =>
                         stage'[d] \notin {"new", "registering"}
    BY <2>2
  <2>6. ASSUME ~TwoKeys, NEW d \in Calls, stage'[d] = "write", tool'[d] = "edit"
        PROVE  /\ stage[d] = "write" /\ tool[d] = "edit" /\ seen'[d] = seen[d]
               /\ content'[File(d)] = content[File(d)]
    <3>1. d # c /\ stage[d] = "write" /\ Active(d) /\ stage[d] \in Inside
      BY <2>2, <2>6 DEF Active, Stages, Inside
    <3>2. File(d) # File(c)
      BY <1>1, <2>1, <2>6, <3>1, OneKeyPerFile, FirstIsAlone DEF OneCallPerKey
    <3>3. content' = [content EXCEPT ![File(c)] = IF tool[c] = "edit" THEN seen[c] \cup {c} ELSE {c}]
      BY <1>13 DEF Write
    <3>4. File(d) \in Files
      BY <1>1, QueueAssumption DEF File, QueueTypeOK
    <3>5. content'[File(d)] = content[File(d)]
      BY <1>1, <3>2, <3>3, <3>4 DEF QueueTypeOK
    <3> QED BY <2>1, <2>6, <3>1, <3>5
  <2> QED BY <1>1, <2>1, <2>3, <2>4, <2>5, <2>6, SerialFrame DEF SerialInv
<1>14. CASE UNCHANGED queueVars
  <2>1. UNCHANGED <<key, path, missing, tool, seen, content, stage>>
    BY <1>14 DEF queueVars
  <2>2. (\A d \in Calls : Keyed(d)' => Keyed(d)) /\ OnlyWritesMakeDirectories'
    BY <1>1, <2>1 DEF Keyed, Active, OnlyWritesMakeDirectories
  <2> QED BY <1>1, <2>1, <2>2, SerialFrame DEF SerialInv
<1> QED
  BY <1>4, <1>5, <1>6, <1>7, <1>8, <1>9, <1>10, <1>11, <1>12, <1>13, <1>14 DEF QueueNext, CallStep

(* No edit is lost, as long as no call was registered under a linked path    *)
(* before its file existed: exclusion by keys is exclusion by files then.    *)
THEOREM EditsSerial == QueueSpec => []EditsAreSerial
<1>1. QueueInit => SerialInv
  <2> SUFFICES ASSUME QueueInit PROVE SerialInv
    OBVIOUS
  <2>1. \A c \in Calls : stage[c] = "new"
    BY DEF QueueInit
  <2>2. KeysAreReal /\ OnlyWritesMakeDirectories /\ EditsAreSerial
    BY <2>1 DEF QueueInit, KeysAreReal, OnlyWritesMakeDirectories, EditsAreSerial, Keyed,
       Active, Stages
  <2> QED BY <2>2, IndInit DEF SerialInv
<1>2. SerialInv /\ [QueueNext]_queueVars => SerialInv'
  BY SerialStep
<1>3. SerialInv => EditsAreSerial
  BY DEF SerialInv
<1> QED BY <1>1, <1>2, <1>3, PTL DEF QueueSpec

-----------------------------------------------------------------------------
(***************************************************************************)
(* For any number of instances, requests and providers: while no lock is   *)
(* taken from a request at work, no write is cut off and no file is        *)
(* created over another, no token is spent twice, but for one whose        *)
(* successor was lost, and no change is undone.  The file lock is the key  *)
(* to the proof: what a request has read under it is still what is in the  *)
(* file when the provider answers; through a link to the file it may not   *)
(* be, but it still holds no token that was spent.                         *)
(***************************************************************************)

Asking(c)  == request[c] \in {"refreshing", "answered"}
Working(c) == request[c] \in {"refreshing", "answered", "releasing", "aborting"}

(* Tokens that were exchanged, and whose successors are not lost.            *)
Gone == spent \ lost

(* Tokens expire and are spent only after they were given out.               *)
KnownTokens ==
  /\ expired \subseteq 1..issued /\ spent \subseteq 1..issued
  /\ \A c \in Requests : Asking(c) => base[c][asked[c]] \in expired
  /\ \A c \in Requests : request[c] = "answered" => answer[c] \in 1..issued

WorkersHoldTheLock == \A c \in Requests : Working(c) => lock = c

(* The token that was exchanged is in the file until the new one arrives.    *)
FileIsUnspent ==
  \A p \in OAuthProviders :
    credentials[p] \in Gone
      => \E c \in Requests : request[c] = "answered" /\ base[c][asked[c]] = credentials[p]

ReadingIsUnspent ==
  \A c \in Requests, p \in OAuthProviders :
    (Asking(c) /\ base[c][p] \in Gone) => (request[c] = "answered" /\ p = asked[c])

AnswerIsNew ==
  \A c \in Requests :
    request[c] = "answered" =>
      answer[c] \notin spent /\ \A p \in Providers : base[c][p] # answer[c]

(* Every credential was given out, and for one provider.                     *)
OneProviderEach(held) ==
  /\ \A p \in Providers : held[p] <= issued
  /\ \A p, q \in Providers : (p # q /\ held[p] = held[q]) => held[p] = 0

ReadingIsFresh ==
  ~linked => /\ credentials = stored
             /\ \A c \in Requests : Asking(c) => base[c] = credentials

Sound == /\ WorkersHoldTheLock /\ FileIsUnspent /\ ReadingIsUnspent /\ AnswerIsNew
         /\ OneProviderEach(credentials)
         /\ \A c \in Requests : Asking(c) => OneProviderEach(base[c])
         /\ ReadingIsFresh

AuthInv == AuthTypeOK /\ KnownTokens /\ (~mishap => Sound)

-----------------------------------------------------------------------------
LEMMA AuthInvInit == AuthInit => AuthInv
<1> SUFFICES ASSUME AuthInit PROVE AuthInv
  OBVIOUS
<1> USE AuthAssumption
<1>1. /\ credentials \in [Providers -> Nat] /\ \A p \in Providers : credentials[p] <= Given
      /\ \A p, q \in Providers : (p # q /\ credentials[p] = credentials[q]) => credentials[p] = 0
  <2>1. CASE present
    BY <2>1 DEF AuthInit
  <2>2. CASE ~present
    BY <2>2 DEF AuthInit, NoCredentials
  <2> QED BY <2>1, <2>2
<1>2. NoCredentials \in [Providers -> Nat]
  BY DEF NoCredentials
<1>3. AuthTypeOK
  BY <1>1, <1>2 DEF AuthInit, AuthTypeOK
<1>4. \A c \in Requests : request[c] = "idle"
  BY DEF AuthInit
<1>5. KnownTokens
  BY <1>4 DEF AuthInit, KnownTokens, Asking
<1>6. Sound
  BY <1>1, <1>4 DEF AuthInit, Sound, WorkersHoldTheLock, FileIsUnspent, ReadingIsUnspent, AnswerIsNew,
     OneProviderEach, ReadingIsFresh, Working, Asking, Gone
<1> QED BY <1>3, <1>5, <1>6 DEF AuthInv

-----------------------------------------------------------------------------
(* What the steps need of the assumptions.                                   *)
LEMMA Constants ==
  /\ Nobody \notin Requests
  /\ InstanceOf \in [Requests -> Instances] /\ OAuthProviders \subseteq Providers
  /\ MaxIssued \in Nat
  BY AuthAssumption

(* The type invariant is inductive by itself.                                *)
LEMMA AuthTypeStep ==
  ASSUME AuthTypeOK, [AuthNext]_authVars
  PROVE  AuthTypeOK'
<1> USE Constants DEF AuthTypeOK, fileVars, lockVars, memoryVars, requestVars, tokenVars
<1>0. NoCredentials \in [Providers -> Nat]
  BY DEF NoCredentials
<1>1. ASSUME NEW i \in Instances, LoadInto(i)
      PROVE  data' \in [Instances -> [Providers -> Nat]] /\ loadError' \subseteq Instances
  BY <1>1 DEF LoadInto
<1>2. ASSUME WriteCutOff
      PROVE  /\ credentials' \in [Providers -> Nat] /\ unreadable' \in BOOLEAN
             /\ present' \in BOOLEAN /\ mishap' \in BOOLEAN
  <2>1. credentials' = credentials \/ credentials' = NoCredentials
    BY <1>2 DEF WriteCutOff
  <2>2. credentials' \in [Providers -> Nat]
    BY <1>0, <2>1
  <2> QED BY <1>2, <2>2 DEF WriteCutOff
<1>3. ASSUME NEW i \in Instances, FindNoFile(i) \/ StartInstance(i) \/ Reload(i)
      PROVE  AuthTypeOK'
  BY <1>1, <1>3 DEF FindNoFile, StartInstance, Reload
<1>4. ASSUME NEW i \in Instances, CreateFile(i)
      PROVE  AuthTypeOK'
  BY <1>0, <1>4 DEF CreateFile
<1>5. ASSUME NEW i \in Instances, NEW p \in Providers, NEW n \in Nat, Change(i, p, n),
             issued' \in Nat
      PROVE  AuthTypeOK'
  <2>1. /\ credentials' \in [Providers -> Nat] /\ stored' \in [Providers -> Nat]
        /\ unreadable' \in BOOLEAN /\ present' \in BOOLEAN /\ mishap' \in BOOLEAN
    <3>1. CASE /\ credentials' = [credentials EXCEPT ![p] = n]
               /\ stored' = [stored EXCEPT ![p] = n]
               /\ UNCHANGED <<unreadable, present, mishap>>
      BY <3>1
    <3>2. CASE WriteCutOff /\ UNCHANGED stored
      BY <1>2, <3>2
    <3>3. CASE UNCHANGED <<credentials, unreadable, present, stored, mishap>>
      BY <3>3
    <3> QED BY <1>5, <3>1, <3>2, <3>3 DEF Change, PersistProviderChange, Merged
  <2>2. data' \in [Instances -> [Providers -> Nat]]
    BY <1>5 DEF Change
  <2> QED BY <1>5, <2>1, <2>2 DEF Change
<1>6. ASSUME NEW i \in Instances, NEW p \in Providers, SetCredential(i, p) \/ RemoveCredential(i, p)
      PROVE  AuthTypeOK'
  BY <1>5, <1>6 DEF SetCredential, RemoveCredential
<1>7. ASSUME NEW c \in Requests, NEW p \in OAuthProviders, Ask(c, p)
      PROVE  AuthTypeOK'
  BY <1>7 DEF Ask
<1>8. ASSUME NEW c \in Requests, LockTimesOut(c) \/ RefreshFails(c)
      PROVE  AuthTypeOK'
  BY <1>8 DEF LockTimesOut, RefreshFails
<1>9. ASSUME NEW c \in Requests, TakeLock(c)
      PROVE  AuthTypeOK'
  <2>1. /\ \/ UNCHANGED <<data, base>>
           \/ /\ data' = [data EXCEPT ![InstanceOf[c]] = credentials]
              /\ base' = [base EXCEPT ![c] = credentials]
        /\ \E s \in {"refreshing", "releasing", "aborting"} :
             request' = [request EXCEPT ![c] = s]
    BY <1>9 DEF TakeLock, Current
  <2>2. data' \in [Instances -> [Providers -> Nat]] /\ base' \in [Requests -> [Providers -> Nat]]
    <3>1. CASE UNCHANGED <<data, base>>
      BY <3>1
    <3>2. CASE /\ data' = [data EXCEPT ![InstanceOf[c]] = credentials]
               /\ base' = [base EXCEPT ![c] = credentials]
      BY <3>2
    <3> QED BY <2>1, <3>1, <3>2
  <2>3. request' \in [Requests -> {"idle", "locking", "refreshing", "answered", "releasing",
                                   "aborting", "failed"}]
    BY <2>1
  <2>4. loadError' \subseteq Instances /\ lock' \in Requests /\ compromised' \subseteq Requests
    BY <1>9 DEF TakeLock
  <2> QED BY <1>9, <2>2, <2>3, <2>4 DEF TakeLock
<1>10. ASSUME NEW c \in Requests, TokenExchanged(c)
       PROVE  AuthTypeOK'
  <2>1. base[c][asked[c]] \in Nat /\ issued + 1 \in Nat
    OBVIOUS
  <2> QED BY <1>10, <2>1 DEF TokenExchanged
<1>11. ASSUME NEW c \in Requests, AnswerLost(c)
       PROVE  AuthTypeOK'
  <2>1. base[c][asked[c]] \in Nat
    OBVIOUS
  <2> QED BY <1>11, <2>1 DEF AnswerLost
<1>12. ASSUME NEW c \in Requests, SaveToken(c)
       PROVE  AuthTypeOK'
  <2>1. Renewed(c) \in [Providers -> Nat] /\ base[c][asked[c]] \in Nat
    BY DEF Renewed
  <2>2. data' \in [Instances -> [Providers -> Nat]] /\ loadError' \subseteq Instances
    BY <1>12, <2>1 DEF SaveToken
  <2>3. /\ credentials' \in [Providers -> Nat] /\ unreadable' \in BOOLEAN /\ present' \in BOOLEAN
        /\ stored' \in [Providers -> Nat] /\ lost' \subseteq Nat /\ mishap' \in BOOLEAN
    <3>1. CASE /\ credentials' = Renewed(c) /\ unreadable' = FALSE
               /\ stored' = [stored EXCEPT ![asked[c]] = answer[c]]
               /\ UNCHANGED <<present, lost, mishap>>
      BY <2>1, <3>1
    <3>2. CASE WriteCutOff /\ lost' = lost \cup {base[c][asked[c]]} /\ UNCHANGED stored
      BY <1>2, <2>1, <3>2
    <3>3. CASE /\ UNCHANGED <<credentials, unreadable, present, stored, mishap>>
               /\ lost' = lost \cup {base[c][asked[c]]}
      BY <2>1, <3>3
    <3> QED BY <1>12, <3>1, <3>2, <3>3 DEF SaveToken
  <2>4. request' \in [Requests -> {"idle", "locking", "refreshing", "answered", "releasing",
                                   "aborting", "failed"}]
    BY <1>12 DEF SaveToken
  <2> QED BY <1>12, <2>2, <2>3, <2>4 DEF SaveToken
<1>13. ASSUME NEW c \in Requests, Release(c)
       PROVE  AuthTypeOK'
  <2>1. lock' \in {lock, Nobody} /\ left' \in BOOLEAN
    BY <1>13 DEF Release
  <2> QED BY <1>0, <1>13, <2>1 DEF Release
<1>14. ASSUME NEW c \in Requests, ReadAgain(c)
       PROVE  AuthTypeOK'
  BY <1>1, <1>14 DEF ReadAgain
<1>15. ASSUME NEW n \in 1..MaxIssued, Expire(n)
       PROVE  AuthTypeOK'
  <2>1. n \in Nat /\ expired' = expired \cup {n}
    BY <1>15 DEF Expire
  <2> QED BY <1>15, <2>1 DEF Expire
<1>16. ASSUME LockLost \/ LeftLockLost
       PROVE  AuthTypeOK'
  BY <1>16 DEF LockLost, LeftLockLost, Held
<1>17. ASSUME NEW i \in Instances, CrashInstance(i)
       PROVE  AuthTypeOK'
  <2>1. data' \in [Instances -> [Providers -> Nat]]
    BY <1>0, <1>17 DEF CrashInstance
  <2>2. /\ base' \in [Requests -> [Providers -> Nat]] /\ answer' \in [Requests -> Nat]
        /\ request' \in [Requests -> {"idle", "locking", "refreshing", "answered", "releasing",
                                      "aborting", "failed"}]
    BY <1>0, <1>17 DEF CrashInstance
  <2>3. lost' \subseteq Nat
    <3> SUFFICES ASSUME NEW t \in lost' PROVE t \in Nat
      OBVIOUS
    <3>1. t \in lost \/ \E c \in Requests : t = base[c][asked[c]]
      BY <1>17 DEF CrashInstance, Own
    <3>2. \A c \in Requests : base[c][asked[c]] \in Nat
      OBVIOUS
    <3>3. CASE t \in lost
      BY <3>3
    <3> QED BY <3>1, <3>2, <3>3
  <2>4. /\ credentials' \in [Providers -> Nat] /\ unreadable' \in BOOLEAN
        /\ present' \in BOOLEAN /\ mishap' \in BOOLEAN
    <3>1. CASE WriteCutOff
      BY <1>2, <3>1
    <3>2. CASE UNCHANGED <<credentials, unreadable, present, mishap>>
      BY <3>2
    <3> QED BY <1>17, <3>1, <3>2 DEF CrashInstance
  <2>5. left' \in BOOLEAN
    BY <1>17 DEF CrashInstance, SyncFree
  <2>6. /\ running' \subseteq Instances /\ creating' \subseteq Instances /\ loadError' \subseteq Instances
        /\ UNCHANGED <<linked, lock, compromised, asked, issued, expired, spent, stored>>
    BY <1>17 DEF CrashInstance
  <2> QED BY <2>1, <2>2, <2>3, <2>4, <2>5, <2>6
<1>18. CASE UNCHANGED authVars
  BY <1>18 DEF authVars
<1> QED
  BY <1>3, <1>4, <1>6, <1>7, <1>8, <1>9, <1>10, <1>11, <1>12, <1>13, <1>14, <1>15, <1>16, <1>17,
     <1>18 DEF AuthNext, RequestStep

-----------------------------------------------------------------------------
(* A request that is asking its provider was asking it before.               *)
RequestAsBefore(c) ==
  Asking(c)' => /\ request'[c] = request[c] /\ base'[c] = base[c]
                /\ asked'[c] = asked[c] /\ answer'[c] = answer[c]

LEMMA KnownTokensStep ==
  ASSUME AuthTypeOK, AuthTypeOK', KnownTokens, [AuthNext]_authVars
  PROVE  KnownTokens'
<1> USE Constants DEF AuthTypeOK, fileVars, lockVars, memoryVars, requestVars, tokenVars
<1>1. ASSUME \A c \in Requests : RequestAsBefore(c),
             issued' >= issued, expired \subseteq expired', expired' \subseteq 1..issued',
             spent' \subseteq 1..issued'
      PROVE  KnownTokens'
  BY <1>1 DEF KnownTokens, RequestAsBefore, Asking
<1>2. ASSUME \A c \in Requests : RequestAsBefore(c),
             issued' \in {issued, issued + 1}, UNCHANGED <<expired, spent>>
      PROVE  KnownTokens'
  <2>1. issued' >= issued /\ expired' \subseteq 1..issued' /\ spent' \subseteq 1..issued'
    BY <1>2 DEF KnownTokens
  <2> QED BY <1>1, <1>2, <2>1
<1>3. ASSUME NEW i \in Instances, FindNoFile(i) \/ CreateFile(i) \/ StartInstance(i) \/ Reload(i)
      PROVE  KnownTokens'
  BY <1>2, <1>3
  DEF FindNoFile, CreateFile, StartInstance, Reload, RequestAsBefore
<1>4. ASSUME NEW i \in Instances, NEW p \in Providers,
             SetCredential(i, p) \/ RemoveCredential(i, p)
      PROVE  KnownTokens'
  BY <1>2, <1>4 DEF SetCredential, RemoveCredential, Change, RequestAsBefore
<1>5. ASSUME NEW c \in Requests, NEW p \in OAuthProviders, Ask(c, p)
      PROVE  KnownTokens'
  BY <1>2, <1>5 DEF Ask, RequestAsBefore, Asking
<1>6. ASSUME NEW c \in Requests, LockTimesOut(c) \/ RefreshFails(c) \/ AnswerLost(c)
      PROVE  KnownTokens'
  BY <1>2, <1>6 DEF LockTimesOut, RefreshFails, AnswerLost, RequestAsBefore, Asking
<1>7. ASSUME NEW c \in Requests, TakeLock(c)
      PROVE  KnownTokens'
  <2>1. \A d \in Requests : d # c => RequestAsBefore(d)
    BY <1>7 DEF TakeLock, RequestAsBefore, Asking
  <2>2. /\ request'[c] # "answered"
        /\ request'[c] = "refreshing" => base'[c][asked'[c]] \in expired'
    BY <1>7 DEF TakeLock, Current
  <2>3. UNCHANGED tokenVars
    BY <1>7 DEF TakeLock
  <2> QED BY <2>1, <2>2, <2>3 DEF KnownTokens, RequestAsBefore, Asking
<1>8. ASSUME NEW c \in Requests, TokenExchanged(c)
      PROVE  KnownTokens'
  <2>1. \A d \in Requests : d # c => RequestAsBefore(d)
    BY <1>8 DEF TokenExchanged, RequestAsBefore, Asking
  <2>2. spent' = spent \cup {base[c][asked[c]]} /\ base[c][asked[c]] \in expired
    BY <1>8 DEF TokenExchanged, KnownTokens, Asking
  <2>3. /\ issued' = issued + 1 /\ UNCHANGED <<base, asked, expired>>
        /\ answer'[c] = issued + 1
    BY <1>8 DEF TokenExchanged
  <2>4. expired' \subseteq 1..issued' /\ spent' \subseteq 1..issued' /\ issued' >= issued
    BY <2>2, <2>3 DEF KnownTokens
  <2>5. \A d \in Requests : Asking(d)' => base'[d][asked'[d]] \in expired'
    BY <2>1, <2>2, <2>3 DEF KnownTokens, RequestAsBefore, Asking
  <2>6. ASSUME NEW d \in Requests, request'[d] = "answered"
        PROVE  answer'[d] \in 1..issued'
    <3>1. CASE d = c
      BY <2>3, <3>1
    <3>2. CASE d # c
      <4>1. request[d] = "answered" /\ answer'[d] = answer[d]
        BY <2>1, <2>6, <3>2 DEF RequestAsBefore, Asking
      <4> QED BY <2>3, <4>1 DEF KnownTokens
    <3> QED BY <3>1, <3>2
  <2> QED BY <2>4, <2>5, <2>6 DEF KnownTokens
<1>9. ASSUME NEW c \in Requests, SaveToken(c)
      PROVE  KnownTokens'
  <2>1. \A d \in Requests : RequestAsBefore(d)
    BY <1>9 DEF SaveToken, RequestAsBefore, Asking
  <2> QED BY <1>2, <1>9, <2>1 DEF SaveToken
<1>10. ASSUME NEW c \in Requests, Release(c)
       PROVE  KnownTokens'
  <2>1. \A d \in Requests : RequestAsBefore(d)
    BY <1>10 DEF Release, RequestAsBefore, Asking
  <2> QED BY <1>2, <1>10, <2>1 DEF Release
<1>11. ASSUME NEW c \in Requests, ReadAgain(c)
       PROVE  KnownTokens'
  BY <1>2, <1>11 DEF ReadAgain, RequestAsBefore, Asking
<1>12. ASSUME NEW n \in 1..MaxIssued, Expire(n)
       PROVE  KnownTokens'
  BY <1>1, <1>12 DEF Expire, RequestAsBefore, KnownTokens
<1>13. ASSUME LockLost \/ LeftLockLost
       PROVE  KnownTokens'
  BY <1>2, <1>13 DEF LockLost, LeftLockLost, RequestAsBefore
<1>14. ASSUME NEW i \in Instances, CrashInstance(i)
       PROVE  KnownTokens'
  <2>1. \A c \in Requests : RequestAsBefore(c)
    BY <1>14 DEF CrashInstance, RequestAsBefore, Asking
  <2> QED BY <1>2, <1>14, <2>1 DEF CrashInstance
<1>15. CASE UNCHANGED authVars
  BY <1>2, <1>15 DEF authVars, RequestAsBefore
<1> QED
  BY <1>3, <1>4, <1>5, <1>6, <1>7, <1>8, <1>9, <1>10, <1>11, <1>12, <1>13, <1>14, <1>15
  DEF AuthNext, RequestStep

-----------------------------------------------------------------------------
(* A step that leaves the file alone keeps it sound when whoever is at work  *)
(* after it was at work before, with the lock, and when a new token that is  *)
(* given up counts as lost.                                                  *)
LEMMA FileKept ==
  ASSUME AuthTypeOK, AuthTypeOK', Sound, UNCHANGED <<credentials, stored, spent, linked>>,
         lost \subseteq lost', issued' >= issued,
         \A c \in Requests : Working(c)' => Working(c) /\ lock' = lock,
         \A c \in Requests : RequestAsBefore(c),
         \A c \in Requests : (request[c] = "answered" /\ request'[c] # "answered")
                               => base[c][asked[c]] \in lost'
  PROVE  Sound'
<1>1. WorkersHoldTheLock'
  BY DEF Sound, WorkersHoldTheLock
<1>2. Gone' \subseteq Gone
  BY DEF Gone
<1>3. FileIsUnspent'
  <2> SUFFICES ASSUME NEW p \in OAuthProviders, credentials[p] \in Gone'
               PROVE  \E c \in Requests :
                        request'[c] = "answered" /\ base'[c][asked'[c]] = credentials[p]
    BY DEF FileIsUnspent
  <2>1. PICK c \in Requests : request[c] = "answered" /\ base[c][asked[c]] = credentials[p]
    BY <1>2 DEF Sound, FileIsUnspent
  <2>2. request'[c] = "answered"
    BY <2>1 DEF Gone
  <2> QED BY <2>1, <2>2 DEF RequestAsBefore, Asking
<1>4. ReadingIsUnspent'
  <2> SUFFICES ASSUME NEW c \in Requests, NEW p \in OAuthProviders, Asking(c)',
                      base'[c][p] \in Gone'
               PROVE  request'[c] = "answered" /\ p = asked'[c]
    BY DEF ReadingIsUnspent
  <2> QED BY <1>2 DEF Sound, ReadingIsUnspent, RequestAsBefore, Asking
<1>5. AnswerIsNew'
  BY DEF Sound, AnswerIsNew, RequestAsBefore, Asking
<1>6. OneProviderEach(credentials)'
  BY DEF Sound, OneProviderEach, AuthTypeOK
<1>7. \A c \in Requests : Asking(c)' => OneProviderEach(base[c])'
  BY Constants DEF Sound, OneProviderEach, RequestAsBefore, Asking, AuthTypeOK
<1>8. ReadingIsFresh'
  BY DEF Sound, ReadingIsFresh, RequestAsBefore, Asking
<1> QED BY <1>1, <1>3, <1>4, <1>5, <1>6, <1>7, <1>8 DEF Sound

(* Nobody is at work while the lock is free.                                 *)
LEMMA FreeLock ==
  ASSUME AuthTypeOK, Sound, lock \notin Requests
  PROVE  \A c \in Requests : ~Working(c)
  BY Constants DEF Sound, WorkersHoldTheLock

(* A change of a provider by set or remove.                                  *)
LEMMA ChangeStep ==
  ASSUME AuthTypeOK, AuthTypeOK', KnownTokens, Sound, NEW i \in Instances, NEW p \in Providers,
         NEW n \in {0, issued + 1}, Change(i, p, n), issued' \in {issued, issued + 1},
         n <= issued', ~mishap'
  PROVE  Sound'
<1>1. /\ UNCHANGED <<spent, lost, lock, linked, request, asked, base, answer>>
      /\ issued' >= issued
  BY DEF Change, AuthTypeOK, lockVars, requestVars
<1>2. \A c \in Requests : RequestAsBefore(c) /\ (Working(c)' => Working(c))
  BY <1>1 DEF RequestAsBefore, Working
<1>3. CASE UNCHANGED <<credentials, stored>>
  BY <1>1, <1>2, <1>3, FileKept
<1>4. CASE /\ Readable /\ credentials' = [credentials EXCEPT ![p] = n]
           /\ stored' = [stored EXCEPT ![p] = n]
  <2>1. /\ credentials'[p] = n
        /\ \A q \in Providers : q # p => credentials'[q] = credentials[q]
    BY <1>4 DEF AuthTypeOK
  <2>2. n \notin spent
    BY DEF KnownTokens, AuthTypeOK
  <2>3. WorkersHoldTheLock' /\ ReadingIsUnspent' /\ AnswerIsNew'
    BY <1>1 DEF Sound, WorkersHoldTheLock, ReadingIsUnspent, AnswerIsNew, Working, Asking, Gone
  <2>4. FileIsUnspent'
    <3> SUFFICES ASSUME NEW q \in OAuthProviders, credentials'[q] \in Gone'
                 PROVE  \E c \in Requests :
                          request'[c] = "answered" /\ base'[c][asked'[c]] = credentials'[q]
      BY DEF FileIsUnspent
    <3>1. q # p /\ credentials'[q] = credentials[q] /\ Gone' = Gone
      BY <1>1, <2>1, <2>2, Constants DEF Gone
    <3> QED BY <1>1, <3>1 DEF Sound, FileIsUnspent
  <2>5. OneProviderEach(credentials)'
    <3>1. \A q \in Providers : credentials[q] \in Nat /\ credentials[q] <= issued
      BY DEF Sound, OneProviderEach, AuthTypeOK
    <3>2. \A q \in Providers : credentials'[q] <= issued'
      BY <1>1, <2>1, <3>1 DEF AuthTypeOK
    <3>3. ASSUME NEW q \in Providers, NEW r \in Providers, q # r,
                 credentials'[q] = credentials'[r]
          PROVE  credentials'[q] = 0
      <4>1. CASE q # p /\ r # p
        BY <2>1, <3>3, <4>1 DEF Sound, OneProviderEach
      <4>2. CASE q = p \/ r = p
        BY <2>1, <3>1, <3>3, <4>2 DEF AuthTypeOK
      <4> QED BY <4>1, <4>2
    <3> QED BY <3>2, <3>3 DEF OneProviderEach
  <2>6. \A c \in Requests : Asking(c)' => OneProviderEach(base[c])'
    BY <1>1, Constants DEF Sound, OneProviderEach, Asking, AuthTypeOK
  <2>7. ReadingIsFresh'
    <3> SUFFICES ASSUME ~linked PROVE ReadingIsFresh'
      BY <1>1 DEF ReadingIsFresh
    <3>1. \A c \in Requests : ~Asking(c)'
      BY <1>1, <1>4, FreeLock, Constants DEF Readable, SyncFree, Working, Asking
    <3>2. credentials' = stored'
      BY <1>4 DEF Sound, ReadingIsFresh
    <3> QED BY <3>1, <3>2 DEF ReadingIsFresh
  <2> QED BY <2>3, <2>4, <2>5, <2>6, <2>7 DEF Sound
<1> QED BY <1>3, <1>4 DEF Change, PersistProviderChange, Merged, WriteCutOff

(* A request takes the lock and reads the file.                              *)
LEMMA TakeLockStep ==
  ASSUME AuthTypeOK, AuthTypeOK', Sound, NEW c \in Requests, TakeLock(c)
  PROVE  Sound'
<1>1. /\ UNCHANGED <<credentials, stored, spent, lost, issued, linked>>
      /\ lock = Nobody /\ lock' = c
      /\ \A d \in Requests : d # c => request'[d] = request[d]
      /\ request'[c] \in {"refreshing", "releasing", "aborting"}
  BY DEF TakeLock, AsyncFree, fileVars, tokenVars, AuthTypeOK
<1>2. \A d \in Requests : ~Working(d)
  BY <1>1, FreeLock, Constants
<1>3. \A d \in Requests : /\ d # c => ~Working(d)' /\ ~Asking(d)'
                          /\ request'[d] # "answered"
  BY <1>1, <1>2 DEF Working, Asking
<1>4. request'[c] = "refreshing" => base'[c] = credentials
  BY DEF TakeLock, Current, AuthTypeOK
<1>5. \A p \in OAuthProviders : credentials[p] \notin Gone /\ Gone' = Gone
  BY <1>1, <1>2 DEF Sound, FileIsUnspent, Working, Gone
<1>6. WorkersHoldTheLock' /\ FileIsUnspent' /\ AnswerIsNew'
  BY <1>1, <1>3, <1>5 DEF WorkersHoldTheLock, FileIsUnspent, AnswerIsNew
<1>7. ReadingIsUnspent'
  BY <1>1, <1>3, <1>4, <1>5 DEF ReadingIsUnspent, Asking
<1>8. OneProviderEach(credentials)'
  BY <1>1 DEF Sound, OneProviderEach
<1>9. \A d \in Requests : Asking(d)' => OneProviderEach(base[d])'
  BY <1>1, <1>3, <1>4 DEF Sound, OneProviderEach, Asking
<1>10. ReadingIsFresh'
  BY <1>1, <1>3, <1>4 DEF Sound, ReadingIsFresh, Asking
<1> QED BY <1>6, <1>7, <1>8, <1>9, <1>10 DEF Sound

(* The token that is exchanged was read under the lock, for one provider.    *)
LEMMA ExchangeStep ==
  ASSUME AuthTypeOK, AuthTypeOK', KnownTokens, Sound, NEW c \in Requests, TokenExchanged(c)
  PROVE  Sound'
<1> DEFINE old == base[c][asked[c]]
<1>1. /\ request[c] = "refreshing" /\ request'[c] = "answered"
      /\ \A d \in Requests : d # c => request'[d] = request[d] /\ answer'[d] = answer[d]
      /\ answer'[c] = issued + 1 /\ issued' = issued + 1 /\ spent' = spent \cup {old}
      /\ UNCHANGED <<credentials, stored, lost, lock, linked, base, asked>>
  BY DEF TokenExchanged, AuthTypeOK, fileVars, lockVars
<1>2. \A d \in Requests : Working(d) => d = c
  BY <1>1 DEF Sound, WorkersHoldTheLock, Working
<1>3. /\ asked[c] \in OAuthProviders /\ asked[c] \in Providers
      /\ old \in expired /\ old \in 1..issued /\ issued \in Nat
  BY <1>1, Constants DEF KnownTokens, AuthTypeOK, Asking
<1>4. OneProviderEach(base[c])
  BY <1>1 DEF Sound, Asking
<1> HIDE DEF old
<1>5. Gone' \subseteq Gone \cup {old}
  BY <1>1 DEF Gone
<1>6. \A p \in OAuthProviders : credentials[p] \notin Gone /\ base[c][p] \notin Gone
  BY <1>1, <1>2 DEF Sound, FileIsUnspent, ReadingIsUnspent, Working, Asking
<1>7. \A d \in Requests : d # c => ~Working(d)' /\ ~Asking(d)' /\ request'[d] # "answered"
  BY <1>1, <1>2 DEF Working, Asking
<1>8. WorkersHoldTheLock'
  BY <1>1, <1>7 DEF Sound, WorkersHoldTheLock, Working
<1>9. FileIsUnspent'
  BY <1>1, <1>5, <1>6 DEF FileIsUnspent, old
<1>10. ReadingIsUnspent'
  <2> SUFFICES ASSUME NEW p \in OAuthProviders, base[c][p] \in Gone' PROVE p = asked[c]
    BY <1>1, <1>7 DEF ReadingIsUnspent
  <2>1. base[c][p] = base[c][asked[c]] /\ base[c][p] # 0
    BY <1>3, <1>5, <1>6 DEF old
  <2> QED BY <1>3, <1>4, <2>1, Constants DEF OneProviderEach
<1>11. AnswerIsNew'
  <2>1. issued + 1 \notin spent'
    BY <1>1, <1>3 DEF KnownTokens
  <2>2. \A p \in Providers : base[c][p] # issued + 1
    BY <1>3, <1>4 DEF OneProviderEach, AuthTypeOK
  <2> QED BY <1>1, <1>7, <2>1, <2>2 DEF AnswerIsNew
<1>12. OneProviderEach(credentials)'
  BY <1>1, <1>3 DEF Sound, OneProviderEach, AuthTypeOK
<1>13. \A d \in Requests : Asking(d)' => OneProviderEach(base[d])'
  <2>1. OneProviderEach(base[c])'
    BY <1>1, <1>3, <1>4 DEF OneProviderEach, AuthTypeOK
  <2> QED BY <1>7, <2>1
<1>14. ReadingIsFresh'
  BY <1>1, <1>7 DEF Sound, ReadingIsFresh, Asking
<1> QED BY <1>8, <1>9, <1>10, <1>11, <1>12, <1>13, <1>14 DEF Sound

(* The new token is in the file, the one it was exchanged for is not.        *)
LEMMA SaveStep ==
  ASSUME AuthTypeOK, AuthTypeOK', KnownTokens, Sound, NEW c \in Requests, SaveToken(c),
         credentials' = Renewed(c), stored' = [stored EXCEPT ![asked[c]] = answer[c]],
         request' = [request EXCEPT ![c] = "releasing"], lost' = lost
  PROVE  Sound'
<1> DEFINE p == asked[c]
<1>1. /\ request[c] = "answered" /\ request'[c] = "releasing"
      /\ \A d \in Requests : d # c => request'[d] = request[d]
      /\ UNCHANGED <<lock, linked, base, asked, answer, issued, spent>>
  BY DEF SaveToken, AuthTypeOK, lockVars
<1>2. lock = c /\ \A d \in Requests : Working(d) => d = c
  BY <1>1 DEF Sound, WorkersHoldTheLock, Working
<1>3. p \in OAuthProviders /\ p \in Providers
  BY Constants DEF AuthTypeOK
<1>4. /\ credentials'[p] = answer[c]
      /\ \A q \in Providers : q # p => credentials'[q] = base[c][q]
  BY <1>3 DEF Renewed, AuthTypeOK
<1>5. OneProviderEach(base[c]) /\ answer[c] \in 1..issued /\ issued \in Nat
  BY <1>1 DEF Sound, Asking, KnownTokens, AuthTypeOK
<1>6. answer[c] \notin spent /\ \A q \in Providers : base[c][q] # answer[c]
  BY <1>1 DEF Sound, AnswerIsNew
<1>7. \A q \in OAuthProviders : q # p => base[c][q] \notin Gone
  BY <1>1 DEF Sound, ReadingIsUnspent, Asking
<1> HIDE DEF p
<1>8. \A d \in Requests : ~Asking(d)' /\ request'[d] # "answered" /\ (Working(d)' => d = c)
  BY <1>1, <1>2 DEF Working, Asking
<1>9. WorkersHoldTheLock' /\ ReadingIsUnspent' /\ AnswerIsNew'
  BY <1>1, <1>2, <1>8 DEF WorkersHoldTheLock, ReadingIsUnspent, AnswerIsNew
<1>10. FileIsUnspent'
  <2>1. \A q \in OAuthProviders : credentials'[q] \notin Gone
    BY <1>4, <1>6, <1>7, Constants DEF Gone
  <2> QED BY <1>1, <2>1 DEF FileIsUnspent, Gone
<1>11. OneProviderEach(credentials)'
  <2>1. \A q \in Providers : credentials'[q] <= issued'
    BY <1>1, <1>4, <1>5 DEF OneProviderEach
  <2>2. \A q, r \in Providers :
          (q # r /\ credentials'[q] = credentials'[r]) => credentials'[q] = 0
    BY <1>4, <1>5, <1>6 DEF OneProviderEach
  <2> QED BY <2>1, <2>2 DEF OneProviderEach
<1>12. ReadingIsFresh'
  <2> SUFFICES ASSUME ~linked PROVE credentials' = stored'
    BY <1>1, <1>8 DEF ReadingIsFresh
  <2> QED BY <1>1 DEF Sound, ReadingIsFresh, Asking, Renewed
<1> QED BY <1>8, <1>9, <1>10, <1>11, <1>12 DEF Sound

LEMMA SoundStep ==
  ASSUME AuthInv, AuthTypeOK', [AuthNext]_authVars, ~mishap'
  PROVE  Sound'
<1> USE DEF fileVars, lockVars, memoryVars, requestVars, tokenVars
<1>1. ~mishap => Sound
  BY DEF AuthInv
<1>2. AuthTypeOK /\ KnownTokens /\ issued \in Nat
  BY DEF AuthInv, AuthTypeOK
<1>3. ASSUME Sound, UNCHANGED <<credentials, stored, spent, lost, issued, lock, linked>>,
             \A c \in Requests :
               /\ RequestAsBefore(c) /\ (Working(c)' => Working(c))
               /\ request[c] = "answered" => request'[c] = "answered"
      PROVE  Sound'
  BY <1>2, <1>3, FileKept
<1>4. ASSUME NEW i \in Instances, FindNoFile(i) \/ StartInstance(i) \/ Reload(i)
      PROVE  Sound'
  BY <1>1, <1>3, <1>4 DEF FindNoFile, StartInstance, Reload, RequestAsBefore, Working
<1>5. ASSUME NEW i \in Instances, CreateFile(i)
      PROVE  Sound'
  BY <1>1, <1>3, <1>5 DEF CreateFile, RequestAsBefore, Working
<1>6. ASSUME NEW i \in Instances, NEW p \in Providers, SetCredential(i, p)
      PROVE  Sound'
  <2>1. Change(i, p, issued + 1) /\ issued' = issued + 1
    BY <1>6 DEF SetCredential
  <2>2. Sound
    BY <1>1, <2>1 DEF Change, PersistProviderChange, WriteCutOff
  <2> QED BY <1>2, <2>1, <2>2, ChangeStep
<1>7. ASSUME NEW i \in Instances, NEW p \in Providers, RemoveCredential(i, p)
      PROVE  Sound'
  <2>1. Change(i, p, 0) /\ issued' = issued
    BY <1>7 DEF RemoveCredential
  <2>2. Sound
    BY <1>1, <2>1 DEF Change, PersistProviderChange, WriteCutOff
  <2> QED BY <1>2, <2>1, <2>2, ChangeStep
<1>8. ASSUME NEW c \in Requests, NEW p \in OAuthProviders, Ask(c, p)
      PROVE  Sound'
  BY <1>1, <1>2, <1>3, <1>8 DEF Ask, RequestAsBefore, Working, Asking, AuthTypeOK
<1>9. ASSUME NEW c \in Requests, LockTimesOut(c) \/ RefreshFails(c)
      PROVE  Sound'
  BY <1>1, <1>2, <1>3, <1>9
  DEF LockTimesOut, RefreshFails, RequestAsBefore, Working, Asking, AuthTypeOK
<1>10. ASSUME NEW c \in Requests, TakeLock(c)
       PROVE  Sound'
  BY <1>1, <1>2, <1>10, TakeLockStep DEF TakeLock
<1>11. ASSUME NEW c \in Requests, TokenExchanged(c)
       PROVE  Sound'
  BY <1>1, <1>2, <1>11, ExchangeStep DEF TokenExchanged
<1>12. ASSUME NEW c \in Requests, request[c] = "answered",
              request' = [request EXCEPT ![c] = "aborting"],
              lost' = lost \cup {base[c][asked[c]]}, Sound,
              UNCHANGED <<credentials, stored, spent, issued, lock, linked, base, asked, answer>>
       PROVE  Sound'
  <2>1. \A d \in Requests :
          /\ RequestAsBefore(d) /\ (Working(d)' => Working(d))
          /\ (request[d] = "answered" /\ request'[d] # "answered") => d = c
    BY <1>2, <1>12 DEF RequestAsBefore, Working, Asking, AuthTypeOK
  <2> QED BY <1>2, <1>12, <2>1, FileKept
<1>13. ASSUME NEW c \in Requests, AnswerLost(c)
       PROVE  Sound'
  BY <1>1, <1>12, <1>13 DEF AnswerLost
<1>14. ASSUME NEW c \in Requests, SaveToken(c)
       PROVE  Sound'
  <2>1. CASE /\ credentials' = Renewed(c)
             /\ stored' = [stored EXCEPT ![asked[c]] = answer[c]]
             /\ request' = [request EXCEPT ![c] = "releasing"]
             /\ UNCHANGED <<lost, mishap>>
    BY <1>1, <1>2, <1>14, <2>1, SaveStep
  <2>2. CASE /\ lost' = lost \cup {base[c][asked[c]]} /\ UNCHANGED <<credentials, stored, mishap>>
             /\ request' = [request EXCEPT ![c] = "aborting"]
    BY <1>1, <1>12, <1>14, <2>2 DEF SaveToken
  <2> QED BY <1>14, <2>1, <2>2 DEF SaveToken, WriteCutOff
<1>15. ASSUME NEW c \in Requests, Release(c)
       PROVE  Sound'
  <2>1. Sound /\ UNCHANGED <<credentials, stored, spent, lost, issued, linked>>
    BY <1>1, <1>15 DEF Release
  <2>2. Working(c) /\ lock = c /\ request[c] # "answered"
    BY <1>15, <2>1 DEF Release, Working, Sound, WorkersHoldTheLock
  <2>3. \A d \in Requests : /\ RequestAsBefore(d) /\ ~Working(d)'
                            /\ request[d] # "answered"
    BY <1>2, <1>15, <2>1, <2>2
    DEF Release, RequestAsBefore, Working, Asking, Sound, WorkersHoldTheLock, AuthTypeOK
  <2> QED BY <1>2, <2>1, <2>3, FileKept
<1>16. ASSUME NEW c \in Requests, ReadAgain(c)
       PROVE  Sound'
  BY <1>1, <1>2, <1>3, <1>16 DEF ReadAgain, RequestAsBefore, Working, Asking, AuthTypeOK
<1>17. ASSUME NEW n \in 1..MaxIssued, Expire(n)
       PROVE  Sound'
  BY <1>1, <1>3, <1>17 DEF Expire, RequestAsBefore, Working
<1>18. ASSUME LockLost
       PROVE  Sound'
  <2>1. /\ Sound /\ ~Held /\ lock # Nobody
        /\ UNCHANGED <<credentials, stored, spent, lost, issued, linked, request, base, asked,
                       answer>>
    BY <1>1, <1>18 DEF LockLost
  <2>2. \A c \in Requests : RequestAsBefore(c) /\ ~Working(c)'
    BY <2>1 DEF Sound, WorkersHoldTheLock, Working, Held, RequestAsBefore
  <2> QED BY <1>2, <2>1, <2>2, FileKept
<1>19. ASSUME LeftLockLost
       PROVE  Sound'
  BY <1>1, <1>3, <1>19 DEF LeftLockLost, RequestAsBefore, Working
<1>20. ASSUME NEW i \in Instances, CrashInstance(i)
       PROVE  Sound'
  <2>1. Sound /\ UNCHANGED <<credentials, stored, spent, issued, lock, linked>>
    BY <1>1, <1>20 DEF CrashInstance, WriteCutOff
  <2>2. /\ lost' = lost \cup {base[c][asked[c]] : c \in {d \in Own(i) : request[d] = "answered"}}
        /\ \A c \in Requests :
             /\ c \in Own(i) => request'[c] = "idle"
             /\ c \notin Own(i) => /\ request'[c] = request[c] /\ base'[c] = base[c]
                                   /\ asked'[c] = asked[c] /\ answer'[c] = answer[c]
    BY <1>20 DEF CrashInstance
  <2>3. \A c \in Requests :
          /\ RequestAsBefore(c) /\ (Working(c)' => Working(c))
          /\ (request[c] = "answered" /\ request'[c] # "answered") => base[c][asked[c]] \in lost'
    BY <2>2 DEF RequestAsBefore, Working, Asking
  <2>4. lost \subseteq lost'
    BY <2>2
  <2> QED BY <1>2, <2>1, <2>3, <2>4, FileKept
<1>21. CASE UNCHANGED authVars
  BY <1>1, <1>3, <1>21 DEF authVars, RequestAsBefore, Working
<1> QED
  BY <1>4, <1>5, <1>6, <1>7, <1>8, <1>9, <1>10, <1>11, <1>13, <1>14, <1>15, <1>16, <1>17,
     <1>18, <1>19, <1>20, <1>21 DEF AuthNext, RequestStep

-----------------------------------------------------------------------------
LEMMA AuthInvStep ==
  ASSUME AuthInv, [AuthNext]_authVars
  PROVE  AuthInv'
<1>1. AuthTypeOK'
  BY AuthTypeStep DEF AuthInv
<1>2. KnownTokens'
  BY <1>1, KnownTokensStep DEF AuthInv
<1>3. ~mishap' => Sound'
  BY <1>1, SoundStep
<1> QED BY <1>1, <1>2, <1>3 DEF AuthInv

(* The types of the variables, for every number of instances and requests.   *)
THEOREM CredentialTypes == AuthSpec => []AuthTypeOK
<1>1. AuthInv => AuthTypeOK
  BY DEF AuthInv
<1> QED BY <1>1, AuthInvInit, AuthInvStep, PTL DEF AuthSpec

(* No token is sent to be exchanged a second time, however many requests of  *)
(* however many instances find it expired, whichever of them crash, and be   *)
(* the file a link or not: but for a token whose successor was lost on its   *)
(* way to the file, and until a mishap.                                      *)
THEOREM NoTokenSpentTwice == AuthSpec => []TokensSpentOnce
<1>1. AuthInv => TokensSpentOnce
  BY DEF AuthInv, Sound, ReadingIsUnspent, Asking, Gone, TokensSpentOnce, AuthTypeOK
<1> QED BY <1>1, AuthInvInit, AuthInvStep, PTL DEF AuthSpec

(* No instance undoes what another has stored, for the same provider or for  *)
(* others, while the file is no link and until a mishap: a lock taken from a *)
(* request at work, a write cut off, or a file created over another's.       *)
THEOREM NoChangeUndone == AuthSpec => []ChangesAreKept
<1>1. AuthInv => ChangesAreKept
  BY DEF AuthInv, Sound, ReadingIsFresh, ChangesAreKept
<1> QED BY <1>1, AuthInvInit, AuthInvStep, PTL DEF AuthSpec

-----------------------------------------------------------------------------
(* The RPC client: nobody who waits is forgotten, and a request is settled   *)
(* once.                                                                     *)

(* The inductive invariant.  Whoever has an armed timeout is still waiting,  *)
(* and every request the client remembers has one: stop() may forget a       *)
(* request, never its timeout.                                               *)
WaitersArmed ==
  /\ timers \subseteq Commands \cup Waiters
  /\ DOMAIN outcome = Commands \cup Waiters
  /\ pendingRequests \subseteq timers \cap Commands

UnsettledWhileArmed == \A r \in timers \cap Commands : outcome[r] = "none"

ClientInv == WaitersArmed /\ UnsettledWhileArmed

ForgetsNobody == \A x \in timers : x \in timers' \/ outcome'[x] # "none"
KeepsOutcomes == \A r \in Commands : outcome[r] # "none" => outcome'[r] = outcome[r]

(* A request is settled once: what it was told stays, whatever arrives after *)
(* its timeout, its rejection, or the end of the child.                      *)
SettledOnce == [][KeepsOutcomes]_rpcVars

LEMMA InitArmed == ClientInit => ClientInv
BY DEF ClientInit, ClientInv, WaitersArmed, UnsettledWhileArmed

(* Settling some who wait; of the remembered requests only others stay.      *)
LEMMA Settles ==
  ASSUME ClientInv, NEW xs, NEW how \in {"rejected", "resolved"}, Settle(xs, how),
         xs \cap Commands \subseteq timers, pendingRequests' \subseteq pendingRequests \ xs
  PROVE  ClientInv' /\ ForgetsNobody /\ KeepsOutcomes
<1>1. /\ timers' = timers \ xs
      /\ outcome' = [x \in DOMAIN outcome |-> IF x \in xs THEN how ELSE outcome[x]]
      /\ how # "none"
  BY DEF Settle
<1>2. DOMAIN outcome = Commands \cup Waiters /\ timers \subseteq Commands \cup Waiters
  BY DEF ClientInv, WaitersArmed
<1>3. WaitersArmed'
  BY <1>1, <1>2 DEF ClientInv, WaitersArmed
<1>4. UnsettledWhileArmed'
  BY <1>1, <1>2 DEF ClientInv, UnsettledWhileArmed
<1>5. ForgetsNobody
  BY <1>1, <1>2 DEF ForgetsNobody
<1>6. KeepsOutcomes
  BY <1>1, <1>2 DEF KeepsOutcomes, ClientInv, UnsettledWhileArmed
<1> QED BY <1>3, <1>4, <1>5, <1>6 DEF ClientInv

(* Steps that settle nobody.                                                 *)
LEMMA Keeps ==
  ASSUME ClientInv, timers' = timers, outcome' = outcome,
         pendingRequests' \subseteq pendingRequests
  PROVE  ClientInv' /\ ForgetsNobody /\ KeepsOutcomes
BY DEF ClientInv, WaitersArmed, UnsettledWhileArmed, ForgetsNobody, KeepsOutcomes

LEMMA RejectsPending ==
  ASSUME ClientInv, RejectPendingRequests
  PROVE  ClientInv' /\ ForgetsNobody /\ KeepsOutcomes
<1>1. pendingRequests \cap Commands \subseteq timers /\ pendingRequests' = {}
  BY DEF ClientInv, WaitersArmed, RejectPendingRequests
<1>2. Settle(pendingRequests, "rejected")
  BY DEF RejectPendingRequests
<1> QED BY <1>1, <1>2, Settles

LEMMA SendArms ==
  ASSUME ClientInv, NEW r \in Commands, Send(r)
  PROVE  ClientInv' /\ ForgetsNobody /\ KeepsOutcomes
<1>1. outcome[r] = "none" /\ r \notin timers /\ r \in DOMAIN outcome
  BY DEF Send, ClientInv, WaitersArmed
<1>2. CASE /\ pendingRequests' = pendingRequests \cup {r}
           /\ timers' = timers \cup {r} /\ outcome' = outcome
  BY <1>1, <1>2
     DEF ClientInv, WaitersArmed, UnsettledWhileArmed, ForgetsNobody, KeepsOutcomes
<1>3. CASE /\ outcome' = [outcome EXCEPT ![r] = "rejected"]
           /\ pendingRequests' = pendingRequests /\ timers' = timers
  BY <1>1, <1>3
     DEF ClientInv, WaitersArmed, UnsettledWhileArmed, ForgetsNobody, KeepsOutcomes
<1> QED BY <1>2, <1>3 DEF Send

LEMMA ListenArms ==
  ASSUME ClientInv, NEW x, Listen(x)
  PROVE  ClientInv' /\ ForgetsNobody /\ KeepsOutcomes
BY ClientAssumption DEF Listen, ClientInv, WaitersArmed, UnsettledWhileArmed, ForgetsNobody,
       KeepsOutcomes

LEMMA TimeoutSettles ==
  ASSUME ClientInv,
         NEW x, RequestTimeout(x) \/ (x \in Waiters /\ WaiterTimeout(x))
  PROVE  ClientInv' /\ ForgetsNobody /\ KeepsOutcomes
<1>1. /\ x \in timers /\ Settle({x}, "rejected")
      /\ pendingRequests' \subseteq pendingRequests \ {x}
  BY ClientAssumption DEF RequestTimeout, WaiterTimeout, ClientInv, WaitersArmed
<1> QED BY <1>1, Settles

LEMMA HandleLineSettles ==
  ASSUME ClientInv, HandleLine
  PROVE  ClientInv' /\ ForgetsNobody /\ KeepsOutcomes
<1>1. CASE \E r \in pendingRequests :
             Settle({r}, "resolved") /\ pendingRequests' = pendingRequests \ {r}
  BY <1>1, Settles DEF ClientInv, WaitersArmed
<1>2. CASE \E heard : /\ heard \subseteq Waiters /\ Settle(heard, "resolved")
                      /\ pendingRequests' = pendingRequests
  <2>1. PICK heard : /\ heard \subseteq Waiters /\ Settle(heard, "resolved")
                     /\ pendingRequests' = pendingRequests
    BY <1>2
  <2>2. heard \cap Commands \subseteq timers /\ pendingRequests' \subseteq pendingRequests \ heard
    BY <2>1, ClientAssumption DEF ClientInv, WaitersArmed
  <2> QED BY <2>1, <2>2, Settles
<1>3. CASE timers' = timers /\ outcome' = outcome /\ pendingRequests' = pendingRequests
  BY <1>3, Keeps
<1> QED BY <1>1, <1>2, <1>3 DEF HandleLine

LEMMA NextStep ==
  ASSUME ClientInv, [ClientNext]_rpcVars
  PROVE  ClientInv' /\ ForgetsNobody /\ KeepsOutcomes
<1>1. CASE Start \/ Started \/ ChildExits \/ Stop \/ Stopped \/ EndOfRun \/ UNCHANGED rpcVars
  BY <1>1, Keeps
     DEF Start, Started, ChildExits, Stop, Stopped, EndOfRun, rpcVars, childVars
<1>2. CASE ExitReported \/ ChildError
  BY <1>2, RejectsPending DEF ExitReported, ChildError
<1>3. CASE \E r \in Commands : Send(r)
  BY <1>3, SendArms
<1>4. CASE \E r \in Commands : Respond(r)
  BY <1>4, Keeps DEF Respond
<1>5. CASE (\E r \in Commands : RequestTimeout(r)) \/ (\E w \in Waiters : WaiterTimeout(w))
  BY <1>5, TimeoutSettles
<1>6. CASE \E x \in Waiters \cup Observers : Listen(x)
  BY <1>6, ListenArms
<1>7. CASE HandleLine
  BY <1>7, HandleLineSettles
<1> QED BY <1>1, <1>2, <1>3, <1>4, <1>5, <1>6, <1>7 DEF ClientNext

-----------------------------------------------------------------------------
(* In every state, whoever has an armed timeout is unsettled, and every      *)
(* request that could still be answered has its timeout armed.               *)
THEOREM ClientInvariant == ClientSpec => []ClientInv
<1>1. ClientInv /\ [ClientNext]_rpcVars => ClientInv'
  BY NextStep
<1> QED BY InitArmed, <1>1, PTL DEF ClientSpec

(* No request and no waiter loses its timeout before it is settled, though   *)
(* stop() forgets the requests it finds.                                     *)
THEOREM NobodyIsForgotten == ClientSpec => NobodyForgotten
<1>1. ClientInv /\ [ClientNext]_rpcVars => [ForgetsNobody]_rpcVars
  BY NextStep
<1>2. ClientSpec => [][ForgetsNobody]_rpcVars
  BY ClientInvariant, <1>1, PTL DEF ClientSpec
<1> QED BY <1>2 DEF NobodyForgotten, ForgetsNobody

(* The first answer counts: a response that comes after the timeout, or a    *)
(* rejection after the response, changes nothing.                            *)
THEOREM RequestsSettleOnce == ClientSpec => SettledOnce
<1>1. ClientInv /\ [ClientNext]_rpcVars => [KeepsOutcomes]_rpcVars
  BY NextStep
<1> QED BY ClientInvariant, <1>1, PTL DEF ClientSpec, SettledOnce

-----------------------------------------------------------------------------
(* The incremental review: what a rule matches wherever it stands has an     *)
(* issue, when it was last changed in one piece.                             *)

(* A position of a set of positions lies in a maximal run of it.             *)
LEMMA MaximalRun ==
  ASSUME NEW N \in Nat, NEW S \in SUBSET (1..N), NEW i \in S
  PROVE  \E a \in S, b \in S :
           /\ a <= i /\ i <= b /\ a..b \subseteq S
           /\ {a - 1, b + 1} \cap S = {}
<1> DEFINE Starts == {a \in 1..i : a..i \subseteq S}
           Ends   == {b \in i..N : i..b \subseteq S}
<1>0. i \in 1..N
  OBVIOUS
<1>1. i \in Starts /\ Starts \in SUBSET Nat /\ i \in Ends /\ Ends \in SUBSET (0..N)
  BY <1>0
<1>2. PICK a \in Starts : \A y \in Starts : a <= y
  BY <1>1, HasMinimum
<1>3. PICK b \in Ends : \A y \in Ends : y <= b
  BY <1>1, HasMaximum
<1>4. a \in 1..i /\ a..i \subseteq S /\ b \in i..N /\ i..b \subseteq S
  OBVIOUS
<1>5. a \in S /\ b \in S /\ a <= i /\ i <= b
  BY <1>0, <1>4
<1>6. a..b \subseteq S
  BY <1>0, <1>4
<1>7. a - 1 \notin S
  <2> SUFFICES ASSUME a - 1 \in S PROVE FALSE
    OBVIOUS
  <2>1. a - 1 \in 1..i /\ (a - 1)..i \subseteq S
    BY <1>0, <1>4
  <2>2. a - 1 \in Starts
    BY <2>1
  <2> QED BY <2>2, <1>2, <1>4
<1>8. b + 1 \notin S
  <2> SUFFICES ASSUME b + 1 \in S PROVE FALSE
    OBVIOUS
  <2>1. b + 1 \in i..N /\ i..(b + 1) \subseteq S
    BY <1>0, <1>4
  <2>2. b + 1 \in Ends
    BY <2>1
  <2> QED BY <2>2, <1>3, <1>4
<1> HIDE DEF Starts, Ends
<1>9. {a - 1, b + 1} \cap S = {}
  BY <1>7, <1>8
<1> QED BY <1>5, <1>6, <1>9

-----------------------------------------------------------------------------
(* A rule matches all of the texts that the hash cannot tell apart, or none  *)
(* of them.                                                                  *)
TwinsAlike ==
  \A r \in DOMAIN Matches, s, t \in Texts :
    Hash(s) = Hash(t) => (s \in Matches[r] <=> t \in Matches[r])

RulesMatchTexts ==
  /\ MaxLines \in Nat
  /\ EmptyLine \notin Lines /\ "twin" \notin Lines /\ Twins \subseteq Lines
  /\ \A r \in DOMAIN Matches : Matches[r] \subseteq Texts
  /\ TwinsAlike

(* The lines a to b of a text are matched by a rule wherever they stand.     *)
Matched(r, text, a, b) == a <= b /\ SubSeq(text, a, b) \in SureParts[r]

(* An issue of the rule at line a or above.                                  *)
Reported(r, issues, a) == \E issue \in issues : issue.rule = r /\ issue.line <= a

(* What one review was the last to change, and a rule matches, is reported.  *)
MatchesReported(r, text, pairs, issues) ==
  \A a, b \in 1..Len(text) :
    ({a} \X (a..b) \subseteq pairs /\ Matched(r, text, a, b)) => Reported(r, issues, a)

SnapshotTypes ==
  /\ DOMAIN snapshot = ReviewedFiles /\ DOMAIN together = ReviewedFiles
  /\ \A f \in ReviewedFiles : snapshot[f].text \in Texts \cup {NoText}

ReviewInv ==
  /\ SnapshotTypes
  /\ \A f \in ReviewedFiles, r \in DOMAIN Matches :
       MatchesReported(r, snapshot[f].text, together[f], snapshot[f].issues)

LEMMA TextsAreSequences ==
  ASSUME RulesMatchTexts, NEW text \in Texts
  PROVE  /\ text \in Seq(Lines \cup {EmptyLine}) /\ Len(text) \in 1..MaxLines
         /\ text # NoText
<1>1. PICK n \in 1..MaxLines : text \in [1..n -> Lines \cup {EmptyLine}]
  BY DEF Texts
<1>2. n \in Nat /\ text \in Seq(Lines \cup {EmptyLine}) /\ Len(text) = n
  BY <1>1 DEF RulesMatchTexts
<1> QED BY <1>1, <1>2 DEF NoText

LEMMA SequencesAreTexts ==
  ASSUME RulesMatchTexts, NEW text \in Seq(Lines \cup {EmptyLine}), Len(text) \in 1..MaxLines
  PROVE  text \in Texts
BY DEF Texts, RulesMatchTexts

(* The lines a to b of a text, read one by one.                              *)
LEMMA PartOfText ==
  ASSUME RulesMatchTexts, NEW text \in Texts, NEW a \in 1..Len(text), NEW b \in a..Len(text)
  PROVE  /\ SubSeq(text, a, b) \in Texts
         /\ Len(SubSeq(text, a, b)) = b - a + 1
         /\ \A i \in 1..(b - a + 1) : SubSeq(text, a, b)[i] = text[a + i - 1]
<1>1. text \in Seq(Lines \cup {EmptyLine}) /\ Len(text) \in 1..MaxLines
  BY TextsAreSequences
<1>2. a \in Int /\ b \in Int /\ \A i \in a..b : text[i] \in Lines \cup {EmptyLine}
  BY <1>1
<1>3. /\ SubSeq(text, a, b) \in Seq(Lines \cup {EmptyLine})
      /\ Len(SubSeq(text, a, b)) = b - a + 1
      /\ \A i \in 1..(b - a + 1) : SubSeq(text, a, b)[i] = text[a + i - 1]
  BY <1>2, SubSeqProperties
<1>4. b - a + 1 \in 1..MaxLines
  BY <1>1 DEF RulesMatchTexts
<1> QED BY <1>3, <1>4, SequencesAreTexts

(* Texts that agree from a to b have the same part there.                    *)
LEMMA SamePart ==
  ASSUME RulesMatchTexts, NEW s \in Texts, NEW t \in Texts,
         NEW a \in 1..Len(s), NEW b \in a..Len(s), b <= Len(t),
         \A i \in a..b : s[i] = t[i]
  PROVE  SubSeq(s, a, b) = SubSeq(t, a, b)
<1>1. Len(s) \in Nat /\ Len(t) \in Nat
  BY TextsAreSequences
<1>2. a \in 1..Len(t) /\ b \in a..Len(t)
  BY <1>1
<1> DEFINE p == SubSeq(s, a, b)
           q == SubSeq(t, a, b)
<1>3. /\ p \in Texts /\ Len(p) = b - a + 1
      /\ \A i \in 1..(b - a + 1) : p[i] = s[a + i - 1]
  BY PartOfText
<1>4. /\ q \in Texts /\ Len(q) = b - a + 1
      /\ \A i \in 1..(b - a + 1) : q[i] = t[a + i - 1]
  BY <1>2, PartOfText
<1>5. p \in Seq(Lines \cup {EmptyLine}) /\ q \in Seq(Lines \cup {EmptyLine})
  BY <1>3, <1>4, TextsAreSequences
<1> HIDE DEF p, q
<1>6. \A i \in 1..Len(p) : p[i] = q[i]
  <2> TAKE i \in 1..Len(p)
  <2>1. i \in 1..(b - a + 1) /\ a + i - 1 \in a..b
    BY <1>3, <1>1
  <2> QED BY <2>1, <1>3, <1>4
<1>7. p = q
  BY <1>3, <1>4, <1>5, <1>6, SeqEqual
<1> QED BY <1>7 DEF p, q

(* A block that covers a match that does not depend on what is around it is  *)
(* flagged.                                                                  *)
LEMMA CoveredIsFlagged ==
  ASSUME RulesMatchTexts, NEW r \in DOMAIN Matches, NEW text \in Texts,
         NEW a \in 1..Len(text), NEW b \in 1..Len(text), Matched(r, text, a, b),
         NEW x \in 1..a, NEW y \in Nat, b <= y
  PROVE  Flags(r, <<x, y>>, text)
<1> DEFINE end     == IF y < Len(text) THEN y ELSE Len(text)
           joined == SubSeq(text, x, end)
           part    == SubSeq(text, a, b)
<1>1. Len(text) \in Nat /\ a <= b /\ part \in SureParts[r]
  BY TextsAreSequences DEF Matched
<1>2. end \in b..Len(text) /\ end \in x..Len(text) /\ x \in 1..Len(text) /\ b \in a..Len(text)
  BY <1>1
<1>3. /\ joined \in Texts /\ Len(joined) = end - x + 1
      /\ \A i \in 1..(end - x + 1) : joined[i] = text[x + i - 1]
  <2> HIDE DEF end
  <2> QED BY <1>2, PartOfText
<1>4. /\ Len(part) = b - a + 1 /\ part \in Texts /\ part # <<EmptyLine>>
      /\ \A i \in 1..(b - a + 1) : part[i] = text[a + i - 1]
  BY <1>1, <1>2, PartOfText DEF SureParts
<1> HIDE DEF end, joined, part
<1> DEFINE c == a - x + 1
           d == b - x + 1
           inner == SubSeq(joined, c, d)
<1>5. c \in 1..Len(joined) /\ d \in c..Len(joined) /\ d - c + 1 = b - a + 1
  <2>1. Len(joined) = end - x + 1 /\ Len(text) \in Nat
    BY <1>1, <1>3
  <2> QED BY <1>2, <2>1
<1>6. /\ inner \in Texts /\ Len(inner) = b - a + 1
      /\ \A i \in 1..(b - a + 1) : inner[i] = joined[c + i - 1]
  <2> HIDE DEF c, d
  <2> QED BY <1>3, <1>5, PartOfText
<1>7. inner \in Seq(Lines \cup {EmptyLine}) /\ part \in Seq(Lines \cup {EmptyLine})
  BY <1>4, <1>6, TextsAreSequences
<1> HIDE DEF inner
<1>8. \A i \in 1..Len(inner) : inner[i] = part[i]
  <2> TAKE i \in 1..Len(inner)
  <2>1. i \in 1..(b - a + 1)
    BY <1>6
  <2>2. c + i - 1 \in 1..(end - x + 1)
    BY <2>1, <1>1, <1>2
  <2>3. x + (c + i - 1) - 1 = a + i - 1
    BY <2>1, <1>1, <1>2
  <2> QED BY <2>1, <2>2, <2>3, <1>3, <1>4, <1>6
<1>9. inner = part
  BY <1>4, <1>6, <1>7, <1>8, SeqEqual
<1>10. HasPart(joined, part)
  <2>1. c \in 1..Len(joined) /\ d \in 1..Len(joined)
    BY <1>5, <1>3, <1>2
  <2>2. SubSeq(joined, c, d) = part
    BY <1>9 DEF inner
  <2> HIDE DEF c, d
  <2> QED BY <2>1, <2>2 DEF HasPart
<1>11. joined \in Matches[r]
  BY <1>1, <1>3, <1>10 DEF SureParts, part
<1>12. joined # <<>> /\ joined # <<EmptyLine>>
  <2>1. joined # <<>>
    BY <1>3, TextsAreSequences DEF NoText
  <2>2. joined # <<EmptyLine>>
    <3> SUFFICES ASSUME joined = <<EmptyLine>> PROVE FALSE
      OBVIOUS
    <3>1. Len(joined) = 1 /\ joined[1] = EmptyLine
      OBVIOUS
    <3>2. c = 1 /\ a = b /\ Len(inner) = 1 /\ inner[1] = joined[1]
      BY <3>1, <1>1, <1>2, <1>3, <1>6
    <3>3. Len(<<EmptyLine>>) = 1 /\ <<EmptyLine>>[1] = EmptyLine
      OBVIOUS
    <3>4. part[1] = EmptyLine /\ Len(part) = 1
      BY <3>1, <3>2, <1>9
    <3>5. part = <<EmptyLine>>
      BY <3>4, <1>7
    <3> QED BY <3>5, <1>4
  <2> QED BY <2>1, <2>2
<1>13. BlockText(<<x, y>>, text) = joined
  BY DEF BlockText, joined, end
<1> QED BY <1>11, <1>12, <1>13 DEF Flags

LEMMA FlaggedIsEmitted ==
  ASSUME NEW was, NEW text, NEW r \in DOMAIN Matches, NEW a, NEW x, NEW y, x <= a,
         <<x, y>> \in ChangedBlocks(was, text), Flags(r, <<x, y>>, text)
  PROVE  Reported(r, Emitted(was, text), a)
<1> DEFINE p == <<r, <<x, y>>>>
<1>1. /\ p \in Rules \X ChangedBlocks(was, text) /\ Flags(p[1], p[2], text)
      /\ p[1] = r /\ p[2][1] = x
  BY DEF Rules
<1>2. [rule |-> p[1], line |-> p[2][1]] \in Emitted(was, text)
  <2> HIDE DEF p
  <2> QED BY <1>1 DEF Emitted
<1>3. [rule |-> p[1], line |-> p[2][1]].rule = r /\ [rule |-> p[1], line |-> p[2][1]].line = x
  BY <1>1
<1> HIDE DEF p
<1> QED BY <1>2, <1>3 DEF Reported

(* A changed line lies in a block that reaches as far as lines changed.      *)
LEMMA ChangedLineInBlock ==
  ASSUME RulesMatchTexts, NEW was \in Texts, NEW text \in Texts, Hash(was) # Hash(text),
         NEW i \in ChangedLines(CachedLines(was), text)
  PROVE  \E x \in 1..i, y \in Nat :
           /\ <<x, y>> \in ChangedBlocks(was, text) /\ i <= y
           /\ y + 1 \notin ChangedLines(CachedLines(was), text)
<1> DEFINE old == CachedLines(was)
           S   == ChangedLines(old, text)
           N   == IF Len(old) > Len(text) THEN Len(old) ELSE Len(text)
<1>1. was # NoText /\ Len(was) \in Nat /\ Len(text) \in Nat
  BY TextsAreSequences
<1>2. Len(old) \in Nat
  BY <1>1 DEF CachedLines
<1>3. N \in Nat /\ S \in SUBSET (1..N) /\ i \in S
  BY <1>1, <1>2 DEF ChangedLines
<1>4. PICK a \in S, b \in S : /\ a <= i /\ i <= b /\ a..b \subseteq S
                             /\ {a - 1, b + 1} \cap S = {}
  <2> HIDE DEF S, N
  <2> QED BY <1>3, MaximalRun
<1>5. <<a, b>> \in LineDiff(old, text)
  <2> HIDE DEF old
  <2> QED BY <1>4 DEF LineDiff
<1>6. <<a, b>> \in ChangedBlocks(was, text)
  BY <1>1, <1>5 DEF ChangedBlocks
<1>7. a \in 1..i /\ b \in Nat
  BY <1>3, <1>4
<1> QED BY <1>4, <1>6, <1>7

(* The lines of the blocks are the changed lines.                            *)
LEMMA BlocksOfChangedLines ==
  ASSUME RulesMatchTexts, NEW was \in Texts, NEW text \in Texts, Hash(was) # Hash(text)
  PROVE  UNION {b[1]..b[2] : b \in ChangedBlocks(was, text)}
           = ChangedLines(CachedLines(was), text)
<1> DEFINE S == ChangedLines(CachedLines(was), text)
<1>1. was # NoText /\ Len(was) \in Nat /\ Len(text) \in Nat
  BY TextsAreSequences
<1>2. S \subseteq Int
  BY DEF ChangedLines
<1>3. ChangedBlocks(was, text) = LineDiff(CachedLines(was), text)
  BY <1>1 DEF ChangedBlocks
<1>4. \A b \in ChangedBlocks(was, text) : b[1]..b[2] \subseteq S
  BY <1>3 DEF LineDiff
<1>5. \A i \in S : \E b \in ChangedBlocks(was, text) : i \in b[1]..b[2]
  <2> TAKE i \in S
  <2>1. PICK x \in 1..i, y \in Nat : <<x, y>> \in ChangedBlocks(was, text) /\ i <= y
    BY ChangedLineInBlock
  <2>2. i \in <<x, y>>[1]..<<x, y>>[2]
    BY <2>1, <1>2
  <2> QED BY <2>1, <2>2
<1> QED BY <1>4, <1>5

(* What the hash cannot tell apart is matched by the same rules wherever it  *)
(* stands.                                                                   *)
LEMMA SameHashSure ==
  ASSUME RulesMatchTexts, NEW r \in DOMAIN Matches, NEW p \in SureParts[r],
         NEW q \in Texts, Hash(q) = Hash(p)
  PROVE  q \in SureParts[r]
<1>1. p \in Texts /\ p # <<EmptyLine>>
  BY DEF SureParts
<1>2. /\ p \in Seq(Lines \cup {EmptyLine}) /\ q \in Seq(Lines \cup {EmptyLine})
      /\ Len(p) \in 1..MaxLines /\ Len(q) \in 1..MaxLines
  BY <1>1, TextsAreSequences
<1>3. DOMAIN Hash(p) = DOMAIN p /\ DOMAIN Hash(q) = DOMAIN q
  BY DEF Hash
<1>4. Len(p) = Len(q)
  <2>0. DOMAIN Hash(p) = DOMAIN Hash(q) /\ DOMAIN p = 1..Len(p) /\ DOMAIN q = 1..Len(q)
    BY <1>2
  <2>1. 1..Len(p) = 1..Len(q)
    BY <2>0, <1>3
  <2>2. Len(p) \in 1..Len(q) /\ Len(q) \in 1..Len(p)
    BY <2>1, <1>2
  <2> QED BY <2>2, <1>2
<1>5. \A i \in 1..Len(p) : (IF p[i] \in Twins THEN "twin" ELSE p[i])
                             = (IF q[i] \in Twins THEN "twin" ELSE q[i])
  <2> TAKE i \in 1..Len(p)
  <2>1. i \in DOMAIN p /\ i \in DOMAIN q
    BY <1>2, <1>4
  <2>2. /\ Hash(p)[i] = IF p[i] \in Twins THEN "twin" ELSE p[i]
        /\ Hash(q)[i] = IF q[i] \in Twins THEN "twin" ELSE q[i]
    BY <2>1 DEF Hash
  <2> QED BY <2>2
<1>6. q # <<EmptyLine>>
  <2> SUFFICES ASSUME q = <<EmptyLine>> PROVE FALSE
    OBVIOUS
  <2>1. Len(q) = 1 /\ q[1] = EmptyLine
    OBVIOUS
  <2>2. EmptyLine \notin Twins /\ EmptyLine # "twin"
    BY DEF RulesMatchTexts, EmptyLine
  <2>3. 1 \in 1..Len(p)
    BY <2>1, <1>4
  <2>4. p[1] = EmptyLine
    BY <2>1, <2>2, <2>3, <1>5
  <2>5. Len(<<EmptyLine>>) = 1 /\ <<EmptyLine>>[1] = EmptyLine
    OBVIOUS
  <2>6. p = <<EmptyLine>>
    BY <2>1, <2>4, <1>2, <1>4
  <2> QED BY <2>6, <1>1
<1>7. ASSUME NEW t \in Texts, HasPart(t, q) PROVE t \in Matches[r]
  <2>1. PICK c \in 1..Len(t), d \in 1..Len(t) : SubSeq(t, c, d) = q
    BY <1>7 DEF HasPart
  <2>2. t \in Seq(Lines \cup {EmptyLine}) /\ Len(t) \in 1..MaxLines
    BY TextsAreSequences
  <2>3. c <= d
    <3> SUFFICES ASSUME d < c PROVE FALSE
      BY <2>2
    <3>1. c \in Int /\ d \in Int
      OBVIOUS
    <3>2. SubSeq(t, c, d) = <<>>
      BY <3>1, SubSeqEmpty
    <3> QED BY <3>2, <2>1, TextsAreSequences DEF NoText
  <2>4. /\ Len(q) = d - c + 1 /\ d \in c..Len(t)
        /\ \A i \in 1..(d - c + 1) : q[i] = t[c + i - 1]
    BY <2>1, <2>2, <2>3, PartOfText
  <2> DEFINE s == [i \in 1..Len(t) |-> IF i \in c..d THEN p[i - c + 1] ELSE t[i]]
  <2>5. \A i \in c..d : i - c + 1 \in 1..Len(p) /\ c + (i - c + 1) - 1 = i
    BY <1>4, <2>4, <2>2
  <2>6. s \in [1..Len(t) -> Lines \cup {EmptyLine}] /\ s \in Texts
    <3>1. \A i \in 1..Len(t) : s[i] \in Lines \cup {EmptyLine}
      <4> TAKE i \in 1..Len(t)
      <4>1. t[i] \in Lines \cup {EmptyLine}
        BY <2>2, ElementOfSeq
      <4>2. CASE i \in c..d
        <5>1. p[i - c + 1] \in Lines \cup {EmptyLine}
          BY <4>2, <2>5, <1>2, ElementOfSeq
        <5> QED BY <4>2, <5>1
      <4> QED BY <4>1, <4>2
    <3>2. s \in [1..Len(t) -> Lines \cup {EmptyLine}]
      BY <3>1
    <3> HIDE DEF s
    <3> QED BY <3>2, <2>2 DEF Texts
  <2>7. Len(s) = Len(t) /\ \A i \in 1..Len(t) : s[i] = IF i \in c..d THEN p[i - c + 1] ELSE t[i]
    BY <2>2
  <2> HIDE DEF s
  <2>8. Hash(s) = Hash(t)
    <3>1. DOMAIN s = 1..Len(t) /\ DOMAIN t = 1..Len(t)
      BY <2>2, <2>6
    <3>2. \A i \in 1..Len(t) : (IF s[i] \in Twins THEN "twin" ELSE s[i])
                                 = (IF t[i] \in Twins THEN "twin" ELSE t[i])
      <4> TAKE i \in 1..Len(t)
      <4>1. CASE i \in c..d
        <5>1. /\ i - c + 1 \in 1..Len(p) /\ i - c + 1 \in 1..(d - c + 1)
              /\ c + (i - c + 1) - 1 = i
          BY <4>1, <2>5, <2>4, <1>4
        <5>2. s[i] = p[i - c + 1] /\ t[i] = q[i - c + 1]
          BY <4>1, <5>1, <2>4, <2>7
        <5> QED BY <5>1, <5>2, <1>5
      <4>2. CASE i \notin c..d
        BY <4>2, <2>7
      <4> QED BY <4>1, <4>2
    <3> QED BY <3>1, <3>2 DEF Hash
  <2>9. SubSeq(s, c, d) = p
    <3>1. /\ SubSeq(s, c, d) \in Texts /\ Len(SubSeq(s, c, d)) = d - c + 1
          /\ \A i \in 1..(d - c + 1) : SubSeq(s, c, d)[i] = s[c + i - 1]
      BY <2>4, <2>6, <2>7, PartOfText
    <3>2. SubSeq(s, c, d) \in Seq(Lines \cup {EmptyLine})
      BY <3>1, TextsAreSequences
    <3>3. \A i \in 1..(d - c + 1) : SubSeq(s, c, d)[i] = p[i]
      <4> TAKE i \in 1..(d - c + 1)
      <4>1. c + i - 1 \in c..d /\ c + i - 1 \in 1..Len(t) /\ (c + i - 1) - c + 1 = i
        BY <2>4, <2>2
      <4> QED BY <4>1, <3>1, <2>7
    <3> QED BY <3>1, <3>2, <3>3, <1>2, <1>4, <2>4, SeqEqual
  <2>10. HasPart(s, p)
    BY <2>9, <2>7 DEF HasPart
  <2>11. s \in Matches[r]
    BY <2>6, <2>10 DEF SureParts
  <2> QED BY <2>6, <2>8, <2>11 DEF RulesMatchTexts, TwinsAlike
<1> QED BY <1>6, <1>7 DEF SureParts

(* Texts with the same hash are matched in the same places.                  *)
LEMMA SameHashMatched ==
  ASSUME RulesMatchTexts, NEW r \in DOMAIN Matches,
         NEW was \in Texts, NEW text \in Texts, Hash(was) = Hash(text),
         NEW a \in 1..Len(text), NEW b \in 1..Len(text), Matched(r, text, a, b)
  PROVE  Len(was) = Len(text) /\ Matched(r, was, a, b)
<1>1. /\ was \in Seq(Lines \cup {EmptyLine}) /\ text \in Seq(Lines \cup {EmptyLine})
      /\ a <= b /\ SubSeq(text, a, b) \in SureParts[r]
  BY TextsAreSequences DEF Matched
<1>2. DOMAIN was = 1..Len(was) /\ DOMAIN text = 1..Len(text)
  BY <1>1
<1>3. DOMAIN Hash(was) = DOMAIN was /\ DOMAIN Hash(text) = DOMAIN text
  BY DEF Hash
<1>4. Len(was) = Len(text)
  <2>1. 1..Len(was) = 1..Len(text)
    BY <1>2, <1>3
  <2>2. Len(was) \in Nat \ {0} /\ Len(text) \in Nat \ {0}
    BY TextsAreSequences
  <2>3. Len(was) \in 1..Len(text) /\ Len(text) \in 1..Len(was)
    BY <2>1, <2>2
  <2> QED BY <2>2, <2>3
<1>5. b \in a..Len(text) /\ a \in 1..Len(was) /\ b \in a..Len(was)
  BY <1>1, <1>4
<1> DEFINE p == SubSeq(text, a, b)
           q == SubSeq(was, a, b)
<1>6. /\ p \in Texts /\ Len(p) = b - a + 1
      /\ \A i \in 1..(b - a + 1) : p[i] = text[a + i - 1]
  BY <1>5, PartOfText
<1>7. /\ q \in Texts /\ Len(q) = b - a + 1
      /\ \A i \in 1..(b - a + 1) : q[i] = was[a + i - 1]
  BY <1>5, PartOfText
<1>8. p \in Seq(Lines \cup {EmptyLine}) /\ q \in Seq(Lines \cup {EmptyLine})
  BY <1>6, <1>7, TextsAreSequences
<1> HIDE DEF p, q
<1>9. DOMAIN p = 1..(b - a + 1) /\ DOMAIN q = 1..(b - a + 1)
  BY <1>6, <1>7, <1>8
<1>10. \A i \in 1..(b - a + 1) : (IF p[i] \in Twins THEN "twin" ELSE p[i])
                                   = (IF q[i] \in Twins THEN "twin" ELSE q[i])
  <2> TAKE i \in 1..(b - a + 1)
  <2>1. a + i - 1 \in DOMAIN was /\ a + i - 1 \in DOMAIN text
    BY <1>2, <1>4, <1>5
  <2>2. /\ Hash(was)[a + i - 1] = IF was[a + i - 1] \in Twins THEN "twin" ELSE was[a + i - 1]
        /\ Hash(text)[a + i - 1] = IF text[a + i - 1] \in Twins THEN "twin" ELSE text[a + i - 1]
    BY <2>1 DEF Hash
  <2> QED BY <2>2, <1>6, <1>7
<1>11. Hash(q) = Hash(p)
  BY <1>9, <1>10 DEF Hash
<1>12. q \in SureParts[r]
  BY <1>1, <1>7, <1>11, SameHashSure DEF p
<1> QED BY <1>1, <1>4, <1>12 DEF Matched, q

(* Lines that did not change were matched before.                            *)
LEMMA UnchangedMatched ==
  ASSUME RulesMatchTexts, NEW r \in DOMAIN Matches, NEW was \in Texts, NEW text \in Texts,
         NEW a \in 1..Len(text), NEW b \in 1..Len(text), Matched(r, text, a, b),
         (a..b) \cap ChangedLines(CachedLines(was), text) = {}
  PROVE  a \in 1..Len(was) /\ b \in 1..Len(was) /\ Matched(r, was, a, b)
<1> DEFINE old == CachedLines(was)
<1>1. Len(was) \in Nat /\ Len(text) \in Nat
  BY TextsAreSequences
<1>2. Len(old) \in Nat
  BY <1>1 DEF CachedLines
<1>3. a <= b
  BY DEF Matched
<1>4. \A i \in a..b : i <= Len(old) /\ old[i] = text[i]
  <2> TAKE i \in a..b
  <2>1. i \in 1..Len(text) /\ i \notin ChangedLines(old, text)
    BY <1>1
  <2> HIDE DEF old
  <2> QED BY <2>1, <1>1, <1>2 DEF ChangedLines
<1>5. b \in a..b /\ b <= Len(old)
  BY <1>3, <1>4
<1>6. old = was
  BY <1>5, <1>1 DEF CachedLines
<1>7. /\ b \in a..Len(text) /\ b <= Len(was) /\ a \in 1..Len(was) /\ b \in 1..Len(was)
      /\ \A i \in a..b : text[i] = was[i]
  BY <1>1, <1>3, <1>4, <1>5, <1>6
<1>8. SubSeq(text, a, b) = SubSeq(was, a, b)
  BY <1>7, SamePart
<1> QED BY <1>7, <1>8, <1>3 DEF Matched

(* One review: what it emits and what it carries over have an issue of every *)
(* rule that matches what one review was the last to change.                 *)
LEMMA ReviewFinds ==
  ASSUME RulesMatchTexts, NEW r \in DOMAIN Matches,
         NEW old, old.text \in Texts \cup {NoText}, NEW pairs,
         MatchesReported(r, old.text, pairs, old.issues),
         NEW text \in Texts
  PROVE  LET emitted == Emitted(old.text, text)
         IN  MatchesReported(r, text, Together(old.text, text, pairs),
                             emitted \cup CarriedOver(old, emitted))
<1> DEFINE emitted == Emitted(old.text, text)
           changed == UNION {b[1]..b[2] : b \in ChangedBlocks(old.text, text)}
           S       == ChangedLines(CachedLines(old.text), text)
<1> SUFFICES ASSUME NEW a \in 1..Len(text), NEW b \in 1..Len(text),
                    {a} \X (a..b) \subseteq Together(old.text, text, pairs),
                    Matched(r, text, a, b)
             PROVE  Reported(r, emitted \cup CarriedOver(old, emitted), a)
  BY DEF MatchesReported
<1>1. Len(text) \in Nat /\ a <= b
  BY TextsAreSequences DEF Matched
<1>2. \A j \in a..b : \/ a \in changed /\ j \in changed
                      \/ a \notin changed /\ j \notin changed /\ <<a, j>> \in pairs
  <2> TAKE j \in a..b
  <2> HIDE DEF changed
  <2>1. <<a, j>> \in Together(old.text, text, pairs)
    OBVIOUS
  <2>2. <<a, j>>[1] = a /\ <<a, j>>[2] = j
    OBVIOUS
  <2> QED BY <2>1, <2>2 DEF Together, changed
<1>3. Reported(r, emitted, a) \/ Reported(r, old.issues, a)
  <2>1. CASE old.text = NoText
    <3>1. <<1, Len(text)>> \in ChangedBlocks(old.text, text)
      BY <2>1 DEF ChangedBlocks
    <3>2. 1 \in 1..a /\ b <= Len(text) /\ 1 <= a
      BY <1>1
    <3>3. Flags(r, <<1, Len(text)>>, text)
      BY <1>1, <3>2, CoveredIsFlagged
    <3> QED BY <3>1, <3>2, <3>3, FlaggedIsEmitted
  <2>2. CASE old.text \in Texts /\ Hash(old.text) = Hash(text)
    <3>1. Len(old.text) = Len(text) /\ Matched(r, old.text, a, b)
      BY <2>2, SameHashMatched
    <3>2. old.text # NoText
      BY <2>2, TextsAreSequences
    <3>3. ChangedBlocks(old.text, text) = {}
      BY <2>2, <3>2 DEF ChangedBlocks
    <3>4. {a} \X (a..b) \subseteq pairs
      BY <1>2, <3>3
    <3> QED BY <3>1, <3>4 DEF MatchesReported
  <2>3. CASE old.text \in Texts /\ Hash(old.text) # Hash(text)
    <3>0. changed = S
      BY <2>3, BlocksOfChangedLines
    <3> HIDE DEF changed, S
    <3>1. CASE a \in changed
      <4>1. a \in S /\ a..b \subseteq S
        BY <3>0, <3>1, <1>2
      <4>2. PICK x \in 1..a, y \in Nat :
              /\ <<x, y>> \in ChangedBlocks(old.text, text) /\ a <= y
              /\ y + 1 \notin S
        BY <4>1, <2>3, ChangedLineInBlock DEF S
      <4>3. b <= y
        <5> SUFFICES ASSUME b > y PROVE FALSE
          BY <1>1
        <5>1. y + 1 \in a..b
          BY <4>2, <1>1
        <5> QED BY <5>1, <4>1, <4>2
      <4>4. Flags(r, <<x, y>>, text)
        BY <4>3, CoveredIsFlagged
      <4>5. x <= a
        BY <1>1
      <4> QED BY <4>2, <4>4, <4>5, FlaggedIsEmitted
    <3>2. CASE a \notin changed
      <4>1. \A j \in a..b : j \notin S /\ <<a, j>> \in pairs
        BY <3>0, <3>2, <1>2
      <4>2. (a..b) \cap S = {} /\ {a} \X (a..b) \subseteq pairs
        <5>1. (a..b) \cap S = {}
          BY <4>1
        <5>2. \A e \in {a} \X (a..b) : e = <<a, e[2]>> /\ e[2] \in a..b
          OBVIOUS
        <5>3. {a} \X (a..b) \subseteq pairs
          BY <4>1, <5>2
        <5> QED BY <5>1, <5>3
      <4>3. a \in 1..Len(old.text) /\ b \in 1..Len(old.text) /\ Matched(r, old.text, a, b)
        BY <4>2, <2>3, UnchangedMatched DEF S
      <4> QED BY <4>2, <4>3 DEF MatchesReported
    <3> QED BY <3>1, <3>2
  <2> QED BY <2>1, <2>2, <2>3
<1> HIDE DEF emitted
<1> QED BY <1>3 DEF Reported, CarriedOver

LEMMA NothingToReport ==
  ASSUME NEW r, NEW pairs, NEW issues
  PROVE  MatchesReported(r, NoText, pairs, issues)
<1>1. Len(NoText) = 0 /\ 1..0 = {}
  BY DEF NoText
<1> QED BY <1>1 DEF MatchesReported

LEMMA InitReview == ReviewInit => ReviewInv
<1> SUFFICES ASSUME ReviewInit PROVE ReviewInv
  OBVIOUS
<1>1. \A f \in ReviewedFiles : snapshot[f].text = NoText
  BY DEF ReviewInit, Untracked
<1>2. SnapshotTypes
  BY <1>1 DEF ReviewInit, SnapshotTypes
<1> QED BY <1>1, <1>2, NothingToReport DEF ReviewInv

(* A review of one file leaves the snapshots of the others.                  *)
LEMMA ReviewStep ==
  ASSUME RulesMatchTexts, ReviewInv, NEW f \in ReviewedFiles, NEW text \in Texts,
         NEW old \in {snapshot[f], Untracked}, ReviewFrom(f, old, text)
  PROVE  ReviewInv'
<1> DEFINE issues == Emitted(old.text, text) \cup CarriedOver(old, Emitted(old.text, text))
           pairs  == Together(old.text, text, together[f])
<1>1. /\ snapshot' = [snapshot EXCEPT ![f] = [text |-> text, issues |-> issues]]
      /\ together' = [together EXCEPT ![f] = pairs]
  BY DEF ReviewFrom
<1>2. /\ old.text \in Texts \cup {NoText}
      /\ \A r \in DOMAIN Matches : MatchesReported(r, old.text, together[f], old.issues)
  <2>1. CASE old = Untracked
    BY <2>1, NothingToReport DEF Untracked
  <2>2. CASE old = snapshot[f]
    BY <2>2 DEF ReviewInv, SnapshotTypes
  <2> QED BY <2>1, <2>2
<1>3. \A r \in DOMAIN Matches : MatchesReported(r, text, pairs, issues)
  BY <1>2, ReviewFinds
<1> HIDE DEF issues, pairs
<1>4. DOMAIN snapshot = ReviewedFiles /\ DOMAIN together = ReviewedFiles
  BY DEF ReviewInv, SnapshotTypes
<1>5. /\ snapshot'[f].text = text /\ snapshot'[f].issues = issues /\ together'[f] = pairs
      /\ \A g \in ReviewedFiles \ {f} : snapshot'[g] = snapshot[g] /\ together'[g] = together[g]
      /\ DOMAIN snapshot' = ReviewedFiles /\ DOMAIN together' = ReviewedFiles
  BY <1>1, <1>4
<1>6. SnapshotTypes'
  BY <1>5 DEF ReviewInv, SnapshotTypes
<1>7. \A g \in ReviewedFiles, r \in DOMAIN Matches :
        MatchesReported(r, snapshot'[g].text, together'[g], snapshot'[g].issues)
  BY <1>3, <1>5 DEF ReviewInv
<1> QED BY <1>6, <1>7 DEF ReviewInv, MatchesReported, Matched, Reported

LEMMA ResetStep ==
  ASSUME ReviewInv, (\E f \in ReviewedFiles : ResetFile(f)) \/ Reset
  PROVE  ReviewInv'
<1>1. /\ DOMAIN snapshot' = ReviewedFiles /\ together' = together
      /\ \A f \in ReviewedFiles : snapshot'[f] = snapshot[f] \/ snapshot'[f] = Untracked
  BY DEF ReviewInv, SnapshotTypes, ResetFile, Reset
<1>2. Untracked.text = NoText
  BY DEF Untracked
<1>3. SnapshotTypes'
  BY <1>1, <1>2 DEF ReviewInv, SnapshotTypes
<1>4. \A f \in ReviewedFiles, r \in DOMAIN Matches :
        MatchesReported(r, snapshot'[f].text, together'[f], snapshot'[f].issues)
  BY <1>1, <1>2, NothingToReport DEF ReviewInv
<1> QED BY <1>3, <1>4 DEF ReviewInv, MatchesReported, Matched, Reported

-----------------------------------------------------------------------------
(* Whatever the texts and the files, as long as no rule tells texts apart    *)
(* that the hash does not: lines that a rule with a pattern matches wherever *)
(* they stand, and that one review was the last to change, have an issue of  *)
(* that rule at or above the first of them.                                  *)
THEOREM NoViolationIsMissed == ASSUME TwinsAlike PROVE ReviewSpec => []NoMissedViolation
<1>0. RulesMatchTexts
  BY ReviewAssumption DEF RulesMatchTexts
<1>1. ReviewInv /\ [ReviewNext]_reviewVars => ReviewInv'
  <2> SUFFICES ASSUME ReviewInv, [ReviewNext]_reviewVars PROVE ReviewInv'
    OBVIOUS
  <2>1. CASE \E f \in ReviewedFiles, text \in Texts : ReviewFile(f, text) \/ ReviewFileFull(f, text)
    BY <1>0, <2>1, ReviewStep DEF ReviewFile, ReviewFileFull
  <2>2. CASE (\E f \in ReviewedFiles : ResetFile(f)) \/ Reset
    BY <2>2, ResetStep
  <2>3. CASE UNCHANGED reviewVars
    BY <2>3 DEF reviewVars, ReviewInv, SnapshotTypes, MatchesReported, Matched, Reported
  <2> QED BY <2>1, <2>2, <2>3 DEF ReviewNext
<1>2. ReviewInv => NoMissedViolation
  <2> SUFFICES ASSUME ReviewInv, NEW f \in ReviewedFiles, NEW r \in DOMAIN Matches,
                      NEW a \in 1..Len(snapshot[f].text), NEW b \in 1..Len(snapshot[f].text),
                      {a} \X (a..b) \subseteq together[f],
                      SubSeq(snapshot[f].text, a, b) \in SureParts[r]
               PROVE  \E issue \in snapshot[f].issues : issue.rule = r /\ issue.line <= a
    BY DEF NoMissedViolation
  <2>1. a <= b
    <3> SUFFICES ASSUME b < a PROVE FALSE
      OBVIOUS
    <3>1. SubSeq(snapshot[f].text, a, b) = NoText
      BY SubSeqEmpty DEF NoText
    <3>2. SubSeq(snapshot[f].text, a, b) \in Texts
      BY DEF SureParts
    <3> QED BY <3>1, <3>2, <1>0, TextsAreSequences
  <2>2. Matched(r, snapshot[f].text, a, b)
    BY <2>1 DEF Matched
  <2> QED BY <2>2 DEF ReviewInv, MatchesReported, Reported
<1> QED BY InitReview, <1>1, <1>2, PTL DEF ReviewSpec
=============================================================================
