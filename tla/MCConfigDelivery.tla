-------------------------- MODULE MCConfigDelivery --------------------------
(* Small instances of ConfigDelivery for TLC.                               *)
EXTENDS ConfigDelivery, TLC

CONSTANTS s1, s2, b1, b2, bad, Breaks, AgentDeaths, CoreRestarts, KernelDeaths, StartFailures,
          Restarts

\* Rolling back to b2 restores it with today's block rules, which is b1.
MCRestored == [b \in Bodies |-> IF b = b2 THEN b1 ELSE b]

\* Streams are interchangeable; used by the safety runs only.
MCSymmetry == Permutations(Streams)

MCFaultBudget ==
    [f \in Faults |-> CASE f = "break"  -> Breaks
                        [] f = "agent"  -> AgentDeaths
                        [] f = "core"   -> CoreRestarts
                        [] f = "kernel" -> KernelDeaths
                        [] f = "start"  -> StartFailures
                        [] f = "restart" -> Restarts]
=============================================================================
