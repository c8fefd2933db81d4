--------------------------- MODULE AgentSessionMC ---------------------------
(* Two small instances of AgentSession in one run: the one of the            *)
(* configuration, which is busy, and Failing.  A behaviour belongs to one of  *)
(* them from its first state on.                                             *)
EXTENDS AgentSession

VARIABLE instance

(* One message, one tool call, bash result, abort or compaction; answers end *)
(* in every way, and the session may be one that ended in an overflow.       *)
Failing == INSTANCE AgentSession
  WITH Stops <- {"stop", "silent", "toolUse", "retryable", "overflow"},
       Resumes <- {"overflow"}, MaxSent <- 1, MaxExtras <- 1

allVars == <<vars, instance>>

MCInit ==
  \/ instance = "busy" /\ Init
  \/ instance = "failing" /\ Failing!Init

MCNext ==
  /\ \/ instance = "busy" /\ Next
     \/ instance = "failing" /\ Failing!Next
  /\ UNCHANGED instance

(* What the session does by itself goes on: less than Fairness assumes, and  *)
(* enough, since a bounded session can do only so much.                      *)
GoesOn ==
  /\ \/ instance = "busy" /\ (RunStep \/ \E p \in Callers : OpStep(p))
     \/ instance = "failing" /\ (Failing!RunStep \/ \E p \in Callers : Failing!OpStep(p))
     \/ CompactPrepared \/ CompactDone
  /\ UNCHANGED instance

MCSpec == MCInit /\ [][MCNext]_allVars /\ WF_allVars(GoesOn)
=============================================================================
