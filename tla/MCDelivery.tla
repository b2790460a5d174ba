----------------------------- MODULE MCDelivery -----------------------------
(* Two regions of ConfigDelivery's behaviours, explored in one run:         *)
(*   Order     three versions, one of which may crash, over one lasting     *)
(*             stream: pushes, acknowledgements and pruning in every order  *)
(*   Recovery  one version and up to three of the faults that the panel and  *)
(*             the agent recover from, with a second stream to recover on   *)
EXTENDS MCConfigDelivery

Waiting(frames) == \A s \in Streams : Len(frames[s]) <= 1

Order ==
    /\ budget = FaultBudget
    /\ Cardinality({s \in Streams : hstate[s] # "unused"}) <= 1
    /\ Cardinality({v \in DOMAIN configs : configs[v].body = bad}) <= 1

Recovery ==
    /\ Len(configs) <= 1
    /\ \A v \in DOMAIN configs : configs[v].body # bad
    /\ Waiting(down)
    /\ Cardinality({f \in Faults : budget[f] # FaultBudget[f]}) <= 3

Confined == (Waiting(up) /\ (Order \/ Recovery))'
=============================================================================
