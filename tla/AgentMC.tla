------------------------------ MODULE AgentMC ------------------------------
(* Two small instances of Agent in one run: the one of the configuration,    *)
(* with parallel calls and listeners that throw, and Calm.  A behaviour      *)
(* belongs to one of them from its first state on, so that their states add  *)
(* up.                                                                       *)
EXTENDS Agent

VARIABLE instance

(* Two user messages, a tool call per run, an agent created with or without  *)
(* a transcript, listeners that do not throw.                                *)
Calm == INSTANCE Agent
  WITH MaxTurns <- 1, MaxCalls <- 1, MaxMessages <- 2, ListenersThrow <- FALSE, Resumes <- TRUE

allVars == <<vars, instance>>

MCInit ==
  \/ instance = "throwing" /\ Init
  \/ instance = "calm" /\ Calm!Init

(* Runs are interchangeable: one of them starts first.                       *)
FirstRun == CHOOSE r \in Runs : TRUE
InOrder  == loop[FirstRun] = Unused => \A r \in Runs \ {FirstRun} : loop'[r] = Unused

MCNext ==
  /\ \/ instance = "throwing" /\ Next
     \/ instance = "calm" /\ Calm!Next
  /\ InOrder /\ UNCHANGED instance

(* The fairness of Agent, for the steps of the instance.                     *)
Progress(r) == \/ instance = "throwing" /\ (RunStep(r) \/ Failure(r))
               \/ instance = "calm" /\ Calm!RunStep(r)
MCFairness  == \A r \in Runs : WF_allVars(Progress(r) /\ UNCHANGED instance)

MCSpec == MCInit /\ [][MCNext]_allVars /\ MCFairness

-----------------------------------------------------------------------------
(* The pending calls are those announced and not ended, and an idle agent    *)
(* has no tool at work; each instance has its own exception.                 *)
PendingCalls == IF instance = "calm" THEN Calm!PendingCallsExact ELSE PendingCallsExact

(* agent_end is the last event of a run whose listeners do not throw.        *)
EndIsLast == [][instance = "calm" => Calm!QuietAfterEnd]_allVars
=============================================================================
