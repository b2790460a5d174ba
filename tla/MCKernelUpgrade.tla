-------------------------- MODULE MCKernelUpgrade --------------------------
(* Small instances of KernelUpgrade for TLC.                               *)
EXTENDS KernelUpgrade, TLC

CONSTANTS FaultsInAll, n1, n2, n3, k1, k2, OneOffs, Retries, FetchFailures, Breaks, AgentDeaths,
          CoreRestarts

\* Nodes are interchangeable; used by the safety runs only.
MCSymmetry == Permutations(Nodes)

MCBudget ==
    [f \in Limited |-> CASE f = "oneoff" -> OneOffs
                         [] f = "retry"  -> Retries
                         [] f = "fetch"  -> FetchFailures
                         [] f = "break"  -> Breaks
                         [] f = "agent"  -> AgentDeaths
                         [] f = "core"   -> CoreRestarts
                         [] f = "fault"  -> FaultsInAll]
=============================================================================
