---------------------------- MODULE MCToolBroker ----------------------------
(* Instances of ToolBroker for TLC: the tool of g1 is metered, that of g2   *)
(* requires an approval.  The budget covers two executions.                 *)
EXTENDS ToolBroker, TLC

CONSTANTS g1, g2

MCMaxUses == g1 :> 2 @@ g2 :> 1
MCCost == g1 :> 2 @@ g2 :> 0
MCNeedsApproval == {g2}
Symmetry == Permutations(Calls) \union Permutations(Reservations)
=============================================================================
