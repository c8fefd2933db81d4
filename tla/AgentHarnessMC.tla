---------------------------- MODULE AgentHarnessMC ----------------------------
(* Small instances of AgentHarness for TLC.                                  *)
EXTENDS AgentHarness, TLC

RunSymmetry == Permutations(Runs)
=============================================================================
