---------------------------- MODULE MCAgentLoop ----------------------------
(* Small instances of AgentLoop for TLC.                                    *)
EXTENDS AgentLoop, TLC

(* Inputs are interchangeable and no property orders them by name.          *)
InputSymmetry == Permutations(Inputs)
=============================================================================
