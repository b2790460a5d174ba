--------------------------- MODULE MCXrayManager ---------------------------
(* Small instances of XrayManager for TLC.                                 *)
EXTENDS XrayManager

CONSTANTS FaultsInAll, k1, k2, c1, c2, Installs, Applies, Restarts, Breaks, AgentDeaths,
          KernelDeaths, StartFailures, NetFailures

MCFaultBudget ==
    [f \in Faults |-> CASE f = "install" -> Installs
                        [] f = "apply"   -> Applies
                        [] f = "restart" -> Restarts
                        [] f = "break"   -> Breaks
                        [] f = "agent"   -> AgentDeaths
                        [] f = "kernel"  -> KernelDeaths
                        [] f = "start"   -> StartFailures
                        [] f = "net"     -> NetFailures
                        [] f = "fault"  -> FaultsInAll]
=============================================================================
