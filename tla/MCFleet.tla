------------------------------ MODULE MCFleet ------------------------------
(* Who may use what (Grants) and the lines between nodes (Lines), a part of *)
(* the API per scenario: with two requests at a time, and with one.         *)
EXTENDS Grants, Lines, TLC

CONSTANTS Scenarios, e1

VARIABLE scenario

MCReachOf == [p \in Profiles |-> Nodes]
MCSymmetry == Permutations(Users) \cup Permutations(Requests) \cup Permutations(Hosts)
                  \cup Permutations(Calls)

\* Without a second request to overlap with, there is room for more rows.
Wide == {"rules", "profiles", "relays", "egress", "exits"}
Alone == scenario \in Wide

\* Requests that read a grant, write it and assemble nodes...
GrantScenario ==
    \/ scenario = "access" /\ (RowStep \/ MoveStep \/ AccessStep)
    \/ scenario = "rules" /\ (RowStep \/ MoveStep \/ RulesetStep)
    \/ scenario = "profiles" /\ (RowStep \/ MoveStep \/ ProfileStep)
    \/ /\ scenario = "profiles overlap" /\ (RowStep \/ MoveStep \/ ProfileStep)
       /\ Cardinality(groups') <= 1 /\ Cardinality(users') <= 1

\* ...and requests that change a line and assemble its ends.
RelayEdit(q) == RelayStep(q) \/ AccessEdit(q) \/ DestStep(q) \/ NodeStep(q)
EgressEdit(q) == EgressStep(q) \/ DestStep(q) \/ NodeStep(q)
ExitEdit(q) == EgressStep(q) \/ AccessEdit(q) \/ NodeStep(q)

LineEdit(q) ==
    \/ scenario = "relays" /\ RelayEdit(q)
    \/ scenario = "relays overlap" /\ RelayEdit(q) /\ Cardinality(relays') <= 1
    \/ scenario = "egress" /\ EgressEdit(q)
    \/ /\ scenario = "egress overlap" /\ EgressEdit(q)
       /\ ToSet(order') \subseteq {e1} /\ \A d \in Dests : dest'[d].rev = 0
    \/ scenario = "exits" /\ ExitEdit(q) /\ Len(order') <= 1

LineScenario ==
    \/ \E q \in Calls : LineEdit(q) /\ Crossing(q)
    \/ scenario = "exits" /\ ExitStep /\ UNCHANGED crossed

FleetInit == scenario \in Scenarios /\ GrantsInit /\ LinesInit

FleetNext ==
    /\ UNCHANGED scenario
    /\ \/ GrantScenario /\ Noted /\ UNCHANGED rvars
       \/ LineScenario /\ UNCHANGED gvars
    /\ Alone => ~ overlapped' /\ ~ crossed'

FleetSpec == FleetInit /\ [][FleetNext]_<<scenario, gvars, rvars>>

=============================================================================
