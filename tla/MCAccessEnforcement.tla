------------------------ MODULE MCAccessEnforcement ------------------------
(* Small instances of AccessEnforcement for TLC.                           *)
EXTENDS AccessEnforcement

CONSTANTS n1, n2, u1, u2, o1, o2, Updates, Deploys, Expiries, Uses, ApplyFailures,
          Refusals, Breaks, AgentRestartsMax, KernelRestartsMax, CoreRestarts

\* Every user has a credential on every node.
MCHolds == [u \in Users |-> Nodes]

MCBudget ==
    [f \in Limited |-> CASE f = "update"  -> Updates
                         [] f = "deploy"  -> Deploys
                         [] f = "expire"  -> Expiries
                         [] f = "use"     -> Uses
                         [] f = "apply"   -> ApplyFailures
                         [] f = "op"      -> Refusals
                         [] f = "break"   -> Breaks
                         [] f = "agent"   -> AgentRestartsMax
                         [] f = "restart" -> KernelRestartsMax
                         [] f = "core"    -> CoreRestarts]
=============================================================================
