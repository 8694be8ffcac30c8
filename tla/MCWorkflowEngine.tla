-------------------------- MODULE MCWorkflowEngine --------------------------
(* Instances of WorkflowEngine for TLC.                                    *)
EXTENDS WorkflowEngine, TLC

Symmetry == Permutations(Calls) \union Permutations(Activities)
=============================================================================
