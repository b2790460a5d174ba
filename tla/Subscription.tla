---------------------------- MODULE Subscription ----------------------------
(***************************************************************************)
(* Variables, client templates and what a subscriber is served             *)
(* (store/template.go, api/template.go, profile/profile.go,                *)
(* template/engine.go, subscription/subscription.go).                     *)
(* A variable is written once in one scope -- the fleet, a profile or a    *)
(* node -- and resolved by name, the narrowest scope first; a document     *)
(* holds one line per access point whose template resolves.  Rendering is  *)
(* dozens of statements, and operators edit between any two of them.       *)
(* A template is the set of names it references, a line is whether the     *)
(* values in it came from a sealed component.  One subscriber, one client  *)
(* kind.  Who may use what is Grants' and Lines' business: here it changes *)
(* under the renderer, one row at a time.                                  *)
(***************************************************************************)
EXTENDS Integers, FiniteSets, Sequences

CONSTANTS
    Profiles,       \* profiles
    Machines,       \* nodes
    Hops,           \* lines that leave a node for somewhere else
    EntryOf,        \* the node each of them enters at
    Vars,           \* variable ids
    Keys,           \* names of key groups
    PlainNames,     \* names of plain variables
    Private(_),     \* flat name of a group's private component
    Public(_),      \* flat name of its public one
    Global,         \* the owner of a variable of the whole fleet
    Gone,           \* no row
    MoveIsEdit      \* whether a move counts as editing the variable

Own == "own"        \* the line that ends at the node itself
Owners == {Global} \cup Profiles \cup Machines
FlatNames == PlainNames \cup {Private(k) : k \in Keys} \cup {Public(k) : k \in Keys}

VARIABLES
    vrow,       \* variable id -> Gone or [name, owner, keys]
    ctpl,       \* profile -> Gone or [refs, serve]
    bind,       \* profile_nodes
    entitled,   \* the subscriber's profiles
    withheld,   \* nodes and lines withheld from them
    cred,       \* <<profile, node, line>> the subscriber has a credential for
    put,        \* a createVariable between its two statements
    sub,        \* the document being rendered
    calm        \* access points nobody disturbed since it began (history)

svars == <<vrow, ctpl, bind, entitled, withheld, cred, put, sub, calm>>

Idle == [step |-> "idle"]
Points == Profiles \X Machines

SubscriptionInit ==
    /\ vrow = [v \in Vars |-> Gone] /\ ctpl = [p \in Profiles |-> Gone]
    /\ bind = {} /\ entitled = {} /\ withheld = {} /\ cred = {}
    /\ put = Idle /\ sub = Idle /\ calm = {}

-----------------------------------------------------------------------------
(* Resolving names *)

\* The components of a variable: a plain one is its own name, a generated
\* group a public component and a sealed one.
flat(r) == IF r.keys THEN {Public(r.name), Private(r.name)} ELSE {r.name}
sealed(r, x) == r.keys /\ x = Private(r.name)

\* One scope as one query returns it: flat name -> is the value sealed.
ScopeVariables(owner) ==
    LET here == {v \in Vars : vrow[v] # Gone /\ vrow[v].owner = owner}
    IN  [x \in UNION {flat(vrow[v]) : v \in here} |->
            \E v \in here : x \in flat(vrow[v]) /\ sealed(vrow[v], x)]

\* template.Merge: the narrowest scope that has the name.
Merge(g, pr, nd) ==
    [x \in DOMAIN g \cup DOMAIN pr \cup DOMAIN nd |->
        IF x \in DOMAIN nd THEN nd[x] ELSE IF x \in DOMAIN pr THEN pr[x] ELSE g[x]]

secretNames(g, pr, nd) ==
    {x \in DOMAIN g : g[x]} \cup {x \in DOMAIN pr : pr[x]} \cup {x \in DOMAIN nd : nd[x]}

\* contextFor then ForClient: every name some scope seals is dropped, in
\* whichever scope the value was found.
ForClientUnsealed(g, pr, nd) ==
    LET vars == Merge(g, pr, nd)
    IN  [x \in DOMAIN vars \ ({y \in DOMAIN pr : pr[y]} \cup {y \in DOMAIN nd : nd[y]}) |-> vars[x]]

ForClient(g, pr, nd) ==
    LET vars == Merge(g, pr, nd)
    IN  [x \in DOMAIN vars \ secretNames(g, pr, nd) |-> vars[x]]

ClientContext(p, n) == ForClient(ScopeVariables(Global), ScopeVariables(p), ScopeVariables(n))

\* Context.Render of a client template: all of its names or an error.
renders(refs, context) == refs \subseteq DOMAIN context

-----------------------------------------------------------------------------
(* What disturbs an access point *)

\* What it takes for the subscriber to have the line that ends at the node.
Deliverable(pt) ==
    /\ pt[1] \in entitled /\ pt \in bind /\ pt[2] \notin withheld
    /\ <<pt[1], pt[2], Own>> \in cred
    /\ ctpl[pt[1]] # Gone /\ ctpl[pt[1]].serve
    /\ renders(ctpl[pt[1]].refs, ClientContext(pt[1], pt[2]))

Uses(pt, names) == ctpl[pt[1]] # Gone /\ ctpl[pt[1]].refs \cap names # {}

\* History: a point stays calm while it is deliverable and none of the names
\* its template uses is edited.
StayCalm(names) ==
    calm' = {pt \in calm : Deliverable(pt)' /\ ~Uses(pt, names)}

-----------------------------------------------------------------------------
(* Variables (api/template.go, store/template.go) *)

taken(owner, name, but) ==
    \E v \in Vars \ {but} : vrow[v] # Gone /\ vrow[v].owner = owner /\ vrow[v].name = name

\* GenerateVariable, ImportVariable: a fresh row; a name already in the scope
\* breaks the unique index and is the caller's mistake.
putGroup(v, k, owner) ==
    /\ vrow[v] = Gone /\ ~taken(owner, k, v)
    /\ vrow' = [vrow EXCEPT ![v] = [name |-> k, owner |-> owner, keys |-> TRUE]]
    /\ UNCHANGED <<ctpl, bind, entitled, withheld, cred, put, sub>>
    /\ StayCalm({Public(k), Private(k)})

\* createVariable with a value: the row this name has in the scope, if any...
FindVariableID(name, owner) ==
    /\ put = Idle
    /\ put' = [step |-> "put", name |-> name, owner |-> owner,
               id |-> IF taken(owner, name, Gone)
                      THEN CHOOSE v \in Vars : /\ vrow[v] # Gone /\ vrow[v].owner = owner
                                               /\ vrow[v].name = name
                      ELSE Gone]
    /\ UNCHANGED <<vrow, ctpl, bind, entitled, withheld, cred, sub, calm>>

\* ...then the components.  An upsert by id leaves the scope of the row as it
\* is; a new row whose name was taken meanwhile is refused.
PutVariable(v) ==
    /\ put.step = "put" /\ put' = Idle
    /\ IF put.id = Gone THEN vrow[v] = Gone ELSE v = put.id
    /\ vrow' = IF vrow[v] # Gone
               THEN [vrow EXCEPT ![v].name = put.name, ![v].keys = FALSE]
               ELSE IF taken(put.owner, put.name, v) THEN vrow
               ELSE [vrow EXCEPT ![v] = [name |-> put.name, owner |-> put.owner, keys |-> FALSE]]
    /\ UNCHANGED <<ctpl, bind, entitled, withheld, cred, sub>>
    /\ StayCalm({put.name} \cup (IF vrow[v] = Gone THEN {} ELSE flat(vrow[v])))

deleteVariable(v) ==
    /\ vrow[v] # Gone
    /\ vrow' = [vrow EXCEPT ![v] = Gone]
    /\ UNCHANGED <<ctpl, bind, entitled, withheld, cred, put, sub>>
    /\ StayCalm(flat(vrow[v]))

\* moveVariable: the id and the components stay.  Its check and its UPDATE are
\* two statements; the unique index refuses what the check let through.
moveVariable(v, owner) ==
    /\ vrow[v] # Gone /\ vrow[v].owner # owner /\ ~taken(owner, vrow[v].name, v)
    /\ vrow' = [vrow EXCEPT ![v].owner = owner]
    /\ UNCHANGED <<ctpl, bind, entitled, withheld, cred, put, sub>>
    /\ StayCalm(IF MoveIsEdit THEN flat(vrow[v]) ELSE {})

-----------------------------------------------------------------------------
(* Client templates and bindings *)

\* The template is checked against the first node bound, and only for
\* references to what is sealed.
validateClientTemplate(p, refs) ==
    LET bound == {n \in Machines : <<p, n>> \in bind}
        first == CHOOSE n \in bound : TRUE
    IN  IF bound = {} THEN TRUE
        ELSE refs \cap secretNames(ScopeVariables(Global), ScopeVariables(p),
                                   ScopeVariables(first)) = {}

\* A replaced template keeps its serve flag; a new one is served.
putClientTemplate(p, refs) ==
    /\ validateClientTemplate(p, refs)
    /\ ctpl' = [ctpl EXCEPT ![p] =
           [refs |-> refs, serve |-> IF ctpl[p] = Gone THEN TRUE ELSE ctpl[p].serve]]
    /\ calm' = {pt \in calm : pt[1] # p}
    /\ UNCHANGED <<vrow, bind, entitled, withheld, cred, put, sub>>

deleteClientTemplate(p) ==
    /\ ctpl[p] # Gone
    /\ ctpl' = [ctpl EXCEPT ![p] = Gone]
    /\ UNCHANGED <<vrow, bind, entitled, withheld, cred, put, sub>>
    /\ StayCalm({})

setClientTemplateServe(p, on) ==
    /\ ctpl[p] # Gone
    /\ ctpl' = [ctpl EXCEPT ![p].serve = on]
    /\ UNCHANGED <<vrow, bind, entitled, withheld, cred, put, sub>>
    /\ StayCalm({})

\* Neither binding nor unbinding assembles the node.
bindNode(p, n) ==
    /\ bind' = bind \cup {<<p, n>>}
    /\ UNCHANGED <<vrow, ctpl, entitled, withheld, cred, put, sub>>
    /\ StayCalm({})

unbindNode(p, n) ==
    /\ bind' = bind \ {<<p, n>>}
    /\ UNCHANGED <<vrow, ctpl, entitled, withheld, cred, put, sub>>
    /\ StayCalm({})

-----------------------------------------------------------------------------
(* Who may use what, as the renderer sees it change *)

bindUserProfile(p) == entitled' = entitled \cup {p} /\ UNCHANGED <<withheld, cred>>

\* Taking a profile back deletes the credentials minted under it.
unbindUserProfile(p) ==
    /\ entitled' = entitled \ {p} /\ cred' = {c \in cred : c[1] # p}
    /\ UNCHANGED withheld

SetAccess(x, open) ==
    /\ withheld' = IF open THEN withheld \ {x} ELSE withheld \cup {x}
    /\ UNCHANGED <<entitled, cred>>

\* Assembly mints the credential of a user it puts on the node.
ensureCredential(p, n, line) ==
    /\ p \in entitled /\ <<p, n>> \in bind
    /\ line # Own => EntryOf[line] = n
    /\ cred' = cred \cup {<<p, n, line>>}
    /\ UNCHANGED <<entitled, withheld>>

AccessStep ==
    /\ \/ \E p \in Profiles : bindUserProfile(p) \/ unbindUserProfile(p)
       \/ \E x \in Machines \cup Hops, open \in BOOLEAN : SetAccess(x, open)
       \/ \E pt \in Points, line \in {Own} \cup Hops : ensureCredential(pt[1], pt[2], line)
    /\ UNCHANGED <<vrow, ctpl, bind, put, sub>>
    /\ StayCalm({})

-----------------------------------------------------------------------------
(* Rendering a subscription *)

\* The profiles and the denials, read up front.
RenderBegins ==
    /\ sub.step \in {"idle", "done"}
    /\ sub' = [step |-> "profile", left |-> entitled, denied |-> withheld, doc |-> {}, skipped |-> {}]
    /\ calm' = {pt \in Points : Deliverable(pt)}
    /\ UNCHANGED <<vrow, ctpl, bind, entitled, withheld, cred, put>>

\* templateFor, then the nodes bound to the profile.  A profile without a
\* served template contributes nothing.
OpenProfile(p) ==
    /\ sub.step = "profile" /\ p \in sub.left
    /\ sub' = IF ctpl[p] # Gone /\ ctpl[p].serve
              THEN [step |-> "node", left |-> sub.left \ {p}, denied |-> sub.denied,
                    doc |-> sub.doc, skipped |-> sub.skipped, p |-> p, refs |-> ctpl[p].refs,
                    nodes |-> {n \in Machines : <<p, n>> \in bind} \ sub.denied]
              ELSE [sub EXCEPT !.left = @ \ {p}]
    /\ UNCHANGED <<vrow, ctpl, bind, entitled, withheld, cred, put, calm>>

NextProfile ==
    /\ sub.step = "node" /\ sub.nodes = {}
    /\ sub' = [step |-> "profile", left |-> sub.left, denied |-> sub.denied,
               doc |-> sub.doc, skipped |-> sub.skipped]
    /\ UNCHANGED <<vrow, ctpl, bind, entitled, withheld, cred, put, calm>>

\* FindCredential, and the fleet's variables.  An access point that was never
\* assembled is passed over.
OpenPoint(n) ==
    /\ sub.step = "node" /\ n \in sub.nodes
    /\ sub' = IF <<sub.p, n, Own>> \in cred
              THEN [step |-> "scopes", left |-> sub.left, denied |-> sub.denied, doc |-> sub.doc,
                    skipped |-> sub.skipped, p |-> sub.p, refs |-> sub.refs,
                    nodes |-> sub.nodes \ {n}, n |-> n, scopes |-> <<ScopeVariables(Global)>>]
              ELSE [sub EXCEPT !.nodes = @ \ {n}]
    /\ UNCHANGED <<vrow, ctpl, bind, entitled, withheld, cred, put, calm>>

\* The profile's variables and the node's: two more queries.
ReadScope ==
    /\ sub.step = "scopes" /\ Len(sub.scopes) < 3
    /\ sub' = [sub EXCEPT !.scopes =
           Append(@, ScopeVariables(IF Len(@) = 1 THEN sub.p ELSE sub.n))]
    /\ UNCHANGED <<vrow, ctpl, bind, entitled, withheld, cred, put, calm>>

\* The other lines of the node: each needs its own credential and is left out
\* when it is withheld; they share the template and so fail together.
otherLines(p, n, denied) ==
    {h \in Hops : EntryOf[h] = n /\ h \notin denied /\ <<p, n, h>> \in cred}

\* One line per access point; what does not render is skipped, with a reason.
renderPoint(context) ==
    IF renders(sub.refs, context)
    THEN [doc |-> {[point |-> <<sub.p, sub.n>>, line |-> l,
                    leaks |-> \E x \in sub.refs : context[x]] :
                      l \in {Own} \cup otherLines(sub.p, sub.n, sub.denied)},
          skipped |-> {}]
    ELSE [doc |-> {}, skipped |-> {<<sub.p, sub.n>>}]

\* As when a template that does not render was fatal.
pointDoneFatal(context) ==
    LET out == renderPoint(context) IN
    [step |-> "node", left |-> IF out.skipped = {} THEN sub.left ELSE {}, denied |-> sub.denied,
     doc |-> IF out.skipped = {} THEN sub.doc \cup out.doc ELSE {},
     skipped |-> sub.skipped \cup out.skipped, p |-> sub.p, refs |-> sub.refs,
     nodes |-> IF out.skipped = {} THEN sub.nodes ELSE {}]

pointDone(context) ==
    LET out == renderPoint(context) IN
    [step |-> "node", left |-> sub.left, denied |-> sub.denied, doc |-> sub.doc \cup out.doc,
     skipped |-> sub.skipped \cup out.skipped, p |-> sub.p, refs |-> sub.refs,
     nodes |-> sub.nodes]

RenderPoint ==
    /\ sub.step = "scopes" /\ Len(sub.scopes) = 3
    /\ sub' = pointDone(ForClient(sub.scopes[1], sub.scopes[2], sub.scopes[3]))
    /\ UNCHANGED <<vrow, ctpl, bind, entitled, withheld, cred, put, calm>>

\* An empty document is refused, so that a client keeps the one it holds.
serveSubscription ==
    /\ sub.step = "profile" /\ sub.left = {}
    /\ sub' = [step |-> "done", served |-> sub.doc # {}, doc |-> sub.doc, skipped |-> sub.skipped]
    /\ UNCHANGED <<vrow, ctpl, bind, entitled, withheld, cred, put, calm>>

-----------------------------------------------------------------------------

VariableStep ==
    \/ \E v \in Vars, k \in Keys, o \in Owners : putGroup(v, k, o)
    \/ \E x \in PlainNames, o \in Owners : FindVariableID(x, o)
    \/ \E v \in Vars : PutVariable(v) \/ deleteVariable(v)
    \/ \E v \in Vars, o \in Owners : moveVariable(v, o)

TemplateStep ==
    \/ \E p \in Profiles, refs \in SUBSET FlatNames : putClientTemplate(p, refs)
    \/ \E p \in Profiles : deleteClientTemplate(p)
    \/ \E p \in Profiles, on \in BOOLEAN : setClientTemplateServe(p, on)
    \/ \E p \in Profiles, n \in Machines : bindNode(p, n) \/ unbindNode(p, n)

RenderStep ==
    \/ RenderBegins \/ NextProfile \/ ReadScope \/ RenderPoint \/ serveSubscription
    \/ \E p \in Profiles : OpenProfile(p)
    \/ \E n \in Machines : OpenPoint(n)

SubscriptionNext == VariableStep \/ TemplateStep \/ AccessStep \/ RenderStep

SubscriptionSpec == SubscriptionInit /\ [][SubscriptionNext]_svars

-----------------------------------------------------------------------------

\* No document carries the private half of a key, whichever scopes have the
\* name, and however rows are created, replaced or moved while it is rendered
\* (profile.go ClientContext: "minus every secret component").
SecretStaysHome == sub.step # "idle" => \A l \in sub.doc : ~l.leaks

\* A document that is served has every access point that was the subscriber's
\* from its first statement to its last, whatever the others ran into
\* (subscription.go Render: losing one line is a degraded subscription, losing
\* all of them is an outage).
HealthyLinesServed ==
    sub.step = "done" => \A pt \in calm : \E l \in sub.doc : l.point = pt /\ l.line = Own

=============================================================================
