----------------------------- MODULE MCServices -----------------------------
(* What the panel does around its nodes and subscribers, one service per    *)
(* scenario: the services share no state that the properties relate.        *)
EXTENDS Services, TLC

CONSTANTS Scenarios, MaxEdits, px, py, l1, l2, l3, hk, us, n1, v1

VARIABLES
    scenario,   \* the service this behaviour is about
    edits       \* what was changed under a renderer

services == <<avarsAlerts, ovars, wvars, cvars, tvars, svars, hvars, edits>>

-----------------------------------------------------------------------------
(* Instances *)

\* What a provider may offer: one proxy or two, two names and two endpoints.
Proxies == [name : {"a", "b"}, end : {px, py}]
MCOffers == UNION {[1..k -> Proxies] : k \in 1..2}
Fixed == <<[name |-> "a", end |-> px], [name |-> "b", end |-> py]>>

\* Two presets.  In the first, HK has members only when a node of that region
\* is there, and Top only HK.
Group(literals, takes) == [literals |-> literals, takes |-> takes]
Rule(list, group) == [list |-> list, group |-> group]
Regional ==
    [rules |-> <<Rule(l1, "HK"), Rule(l2, "Sel"), Rule(NoList, "DIRECT")>>,
     order |-> <<"Top", "Sel", "HK">>,
     groups |-> [Top |-> Group({"HK"}, {}), Sel |-> Group({"Top", "DIRECT"}, {us}),
                 HK |-> Group({}, {hk})]]
Plain == [rules |-> <<Rule(l3, "Sel")>>, order |-> <<"Sel">>,
          groups |-> [Sel |-> Group({"DIRECT"}, {})]]
MCPresets == {Regional, Plain}
MCBaseOf == [l \in Lists |-> IF l = l3 THEN "c" ELSE "ads"]

MCPrivate(k) == "k.private"
MCPublic(k) == "k.public"
MCEntryOf == [h \in Hops |-> n1]

-----------------------------------------------------------------------------
(* Scenarios *)

AlertsScenario ==
    /\ AlertsNext
    /\ UNCHANGED <<ovars, wvars, cvars, tvars, svars, hvars, edits>>

OnlineScenario ==
    /\ OnlineNext
    /\ UNCHANGED <<avarsAlerts, wvars, cvars, tvars, svars, hvars, edits>>

\* Archives relayed over a stream that breaks, nothing else on it...
RelayScenario ==
    /\ Open \/ Break \/ Sent \/ (\E v \in Versions : Order(v)) \/ (\E a \in asked : Answer(a))
       \/ AgentStreamStep
    /\ report' = report /\ Cardinality(asked') <= 1
    /\ UNCHANGED <<avarsAlerts, ovars, cvars, tvars, svars, hvars, edits>>

\* ...and everything else, without an archive.
FlowScenario ==
    /\ Open \/ Break \/ Sent \/ Pushed \/ Policy \/ Command \/ AgentStreamStep
    /\ UNCHANGED <<avarsAlerts, ovars, cvars, tvars, svars, hvars, edits>>

\* A source that answers differently every time.
RefreshScenario ==
    /\ SourceStep \/ PeopleStep
    /\ UNCHANGED <<avarsAlerts, ovars, wvars, tvars, svars, hvars, edits>>

\* One answer, and operators who chain its proxies while a page is rendered.
PageScenario ==
    /\ \/ issued = 0 /\ SourceStep
       \/ PeopleStep /\ reader \subseteq reader'
       \/ PageStep
       \/ /\ page.step \in {"none", "served"} /\ \E e \in Editors : EditStep(e)
          /\ \A e \in {d \in Editors : edit'[d] # Resting} : edit'[e].on /\ edit'[e].exposed
    /\ IF refresh'.step = "replace" THEN refresh'.offer = Fixed ELSE TRUE
    /\ UNCHANGED <<avarsAlerts, ovars, wvars, tvars, svars, hvars, edits>>

RoutingScenario ==
    /\ RoutingNext
    /\ UNCHANGED <<avarsAlerts, ovars, wvars, cvars, svars, hvars, edits>>

\* Operators prepare a key group, a plain variable and the templates; then one
\* document is rendered while up to MaxEdits changes are made under it.
OneOfEach ==
    \A v \in {w \in Vars : vrow'[w] # Gone} : vrow'[v].keys = (v = v1)
SingleReferences ==
    \A p \in {q \in Profiles : ctpl'[q] # Gone} : Cardinality(ctpl'[p].refs) = 1
Prepare ==
    /\ sub.step = "idle" /\ UNCHANGED edits
    /\ \/ VariableStep
       \/ /\ TemplateStep /\ bind' = bind
          /\ \A p \in Profiles : ctpl[p] # Gone => ctpl'[p] = ctpl[p]
EditUnderRender ==
    /\ sub.step \notin {"idle", "done"}
    /\ edits < MaxEdits /\ edits' = edits + 1
    /\ VariableStep \/ TemplateStep \/ AccessStep
    /\ svars' # svars
SubscriptionScenario ==
    /\ \/ Prepare
       \/ /\ sub.step # "done" /\ RenderStep /\ UNCHANGED edits
          /\ sub.step = "idle" => put = Idle /\ \A p \in Profiles : ctpl[p] # Gone
       \/ EditUnderRender
    /\ SingleReferences /\ OneOfEach
    /\ UNCHANGED <<avarsAlerts, ovars, wvars, cvars, tvars, hvars>>

CacheScenario ==
    /\ CacheNext
    /\ UNCHANGED <<avarsAlerts, ovars, wvars, cvars, tvars, svars, edits>>

\* A subscriber with two profiles, both bound to the node and assembled.
SubscriptionGiven ==
    /\ vrow = [v \in Vars |-> Gone] /\ ctpl = [p \in Profiles |-> Gone]
    /\ bind = Points /\ entitled = Profiles /\ withheld = {}
    /\ cred = {c \in Profiles \X Machines \X ({Own} \cup Hops) : c[3] = Own \/ EntryOf[c[3]] = c[2]}
    /\ put = Idle /\ sub = Idle /\ calm = {}

ServicesInit ==
    /\ scenario \in Scenarios /\ edits = 0
    /\ AlertsInit /\ OnlineInit /\ StreamInit /\ CatalogInit /\ RoutingInit /\ SubscriptionGiven
    /\ CacheInit

ServicesNext ==
    /\ scenario' = scenario
    /\ \/ scenario = "alerts" /\ AlertsScenario
       \/ scenario = "online" /\ OnlineScenario
       \/ scenario = "relay" /\ RelayScenario
       \/ scenario = "flow" /\ FlowScenario
       \/ scenario = "refresh" /\ RefreshScenario
       \/ scenario = "page" /\ PageScenario
       \/ scenario = "routing" /\ RoutingScenario
       \/ scenario = "subscription" /\ SubscriptionScenario
       \/ scenario = "cache" /\ CacheScenario

\* The fairness of each service, in the scenario it is about.
ServicesFairness ==
    /\ WF_avarsAlerts(scenario = "alerts" /\ SweepStep)
    /\ \A n \in Reporters :
          /\ WF_ovars(scenario = "online" /\ ReportRound(n))
          /\ \A k \in 1..MaxStreams : WF_ovars(scenario = "online" /\ Cleanup(<<n, k>>))

ServicesSpec ==
    ServicesInit /\ [][ServicesNext]_<<services, scenario>> /\ ServicesFairness

\* The agent's goroutines keep running; for the scenario "flow".
FlowSpec == ServicesInit /\ [][ServicesNext]_<<services, scenario>> /\ StreamFairness

-----------------------------------------------------------------------------
\* EventuallyAnnounced of Alerts: a change that lasts is announced in the end.
ChangesAnnounced == scenario = "alerts" => EventuallyAnnounced
=============================================================================
