------------------------------- MODULE Portal -------------------------------
(***************************************************************************)
(* The subscribers' portal: registering, signing in, claiming an account   *)
(* with a link from an operator, and losing access.  As in AdminAuth a     *)
(* handler is one step up to what it reads and one or two for its writes,  *)
(* a row goes when it expires, and tokens are fresh numbers.               *)
(*                                                                         *)
(*   subscriber  the users table: the ids that exist                       *)
(*   account     user_accounts (NoValue: no row)                              *)
(*   psession    portal_sessions;  link  portal_challenges of purpose      *)
(*               "claim", each naming a subscriber                         *)
(*   preq        requests past their first step                            *)
(*   gone        history: the ids already used, which never come back      *)
(***************************************************************************)
EXTENDS Integers, FiniteSets

CONSTANTS
    Subscribers,   \* ids of the users table, used once
    Addresses,     \* normalised email addresses
    Calls,         \* concurrent requests
    MaxPtoken,     \* bound on links and sessions
    PortalMode,    \* CHIRAL_PORTAL_MODE
    InviteCode,    \* is a registration code configured
    NoValue

Secrets == {1, 2}
Ptokens == 1..MaxPtoken

\* A row of user_accounts.
AccountRows == [email : Addresses, pw : Secrets, disabled : BOOLEAN]

ASSUME PortalAssumption ==
    /\ MaxPtoken \in Nat
    /\ NoValue \notin AccountRows \cup Subscribers \cup Addresses

VARIABLES subscriber, account, psession, link, preq, ptoken, gone

pvars == <<subscriber, account, psession, link, preq, ptoken, gone>>

Waiting == [op |-> "idle"]

\* Enabled: the routes exist at all.
PortalEnabled == PortalMode # "off"

UserAccountByEmail(e) == {u \in Subscribers : account[u] # NoValue /\ account[u].email = e}

\* CreateUserAccount: one account per user and per address, for a user that exists.
CanCreateAccount(u, e) == u \in subscriber /\ account[u] = NoValue /\ UserAccountByEmail(e) = {}

NewAccount(e, p) == [email |-> e, pw |-> p, disabled |-> FALSE]

\* UserByPortalSession; a subscriber who may not proxy can still sign in.
UserByPortalSession(s) == s \in psession /\ account[s.user] # NoValue /\ ~account[s.user].disabled

PortalIdle(c) == preq[c] = Waiting
PortalBegin(c, rec) == preq' = [preq EXCEPT ![c] = rec]
PortalEnd(c) == preq' = [preq EXCEPT ![c] = Waiting]
PortalDraw == ptoken < MaxPtoken /\ ptoken' = ptoken + 1

PortalInit ==
    /\ subscriber \in {{}, {CHOOSE u \in Subscribers : TRUE}}
    /\ account = [u \in Subscribers |-> NoValue]
    /\ psession = {}
    /\ link = [t \in Ptokens |-> NoValue]
    /\ preq = [c \in Calls |-> Waiting]
    /\ ptoken = 0
    /\ gone = {}
-----------------------------------------------------------------------------
\* portalRegister: what it checks, and the lookup that finds nobody.  A taken
\* address gets the same answer and no account.
PortalRegister(c, e, p, invited) ==
    /\ PortalMode = "open" /\ (InviteCode => invited)
    /\ PortalIdle(c)
    /\ UserAccountByEmail(e) = {}
    /\ PortalBegin(c, [op |-> "register", email |-> e, pw |-> p])
    /\ UNCHANGED <<subscriber, account, psession, link, ptoken, gone>>

\* createSubscriber: the user first, under a name drawn at random.
CreateSubscriber(c, u) ==
    /\ preq[c].op = "register"
    /\ u \notin subscriber \cup gone
    /\ subscriber' = subscriber \cup {u}
    /\ PortalBegin(c, [op |-> "account", user |-> u, email |-> preq[c].email, pw |-> preq[c].pw])
    /\ UNCHANGED <<account, psession, link, ptoken, gone>>

\* Then the account, which a second registration of the address does not get.
CreateSubscriberAccount(c) ==
    LET q == preq[c] IN
    /\ q.op = "account"
    /\ PortalEnd(c)
    /\ account' = IF CanCreateAccount(q.user, q.email)
                  THEN [account EXCEPT ![q.user] = NewAccount(q.email, q.pw)] ELSE account
    /\ UNCHANGED <<subscriber, psession, link, ptoken, gone>>

PortalLogin(c, e, p) ==
    /\ PortalEnabled /\ PortalIdle(c)
    /\ \E u \in UserAccountByEmail(e) :
         /\ ~account[u].disabled /\ account[u].pw = p
         /\ PortalBegin(c, [op |-> "session", user |-> u])
    /\ UNCHANGED <<subscriber, account, psession, link, ptoken, gone>>

IssuePortalSession(c) ==
    /\ preq[c].op = "session"
    /\ PortalEnd(c)
    /\ IF preq[c].user \in subscriber
       THEN /\ PortalDraw
            /\ psession' = psession \cup {[token |-> ptoken', user |-> preq[c].user]}
       ELSE UNCHANGED <<ptoken, psession>>
    /\ UNCHANGED <<subscriber, account, link, gone>>

PortalLogout(s) ==
    /\ UserByPortalSession(s)
    /\ psession' = psession \ {s}
    /\ UNCHANGED <<subscriber, account, link, preq, ptoken, gone>>

PortalChangePassword(c, s, current, new) ==
    /\ PortalIdle(c) /\ UserByPortalSession(s)
    /\ account[s.user].pw = current
    /\ PortalBegin(c, [op |-> "password", user |-> s.user, pw |-> new])
    /\ UNCHANGED <<subscriber, account, psession, link, ptoken, gone>>

\* SetUserAccountPassword: with every session of the account.
SetUserAccountPassword(c) ==
    LET u == preq[c].user IN
    /\ preq[c].op = "password"
    /\ PortalEnd(c)
    /\ account' = IF account[u] = NoValue THEN account ELSE [account EXCEPT ![u].pw = preq[c].pw]
    /\ psession' = IF account[u] = NoValue THEN psession ELSE {s \in psession : s.user # u}
    /\ UNCHANGED <<subscriber, link, ptoken, gone>>
-----------------------------------------------------------------------------
\* issuePortalLink, from an operator.
IssuePortalLink(u) ==
    /\ u \in subscriber
    /\ PortalDraw
    /\ link' = [link EXCEPT ![ptoken'] = u]
    /\ UNCHANGED <<subscriber, account, psession, preq, gone>>

\* portalClaim: the link is read, and the account it will act on looked up.
PortalClaim(c, t, e, p) ==
    /\ PortalEnabled /\ PortalIdle(c)
    /\ link[t] # NoValue
    /\ account[link[t]] = NoValue => e # NoValue
    /\ account[link[t]] # NoValue => e \in {NoValue, account[link[t]].email}
    /\ PortalBegin(c, [op |-> "claim", token |-> t, user |-> link[t], email |-> e, pw |-> p,
                       creates |-> account[link[t]] = NoValue])
    /\ UNCHANGED <<subscriber, account, psession, link, ptoken, gone>>

\* A mutant for TLC: what was true when the link was read is not checked again.
ClaimWritesUnchecked(q) == q.user \in subscriber

\* The link may only set a password on an account that exists: it never moves
\* the address.  What a claim can write when it gets to it:
ClaimWrites(q) ==
    IF q.creates THEN CanCreateAccount(q.user, q.email) ELSE account[q.user] # NoValue
ClaimedAccount(q) ==
    IF q.creates THEN NewAccount(q.email, q.pw) ELSE [account[q.user] EXCEPT !.pw = q.pw]

\* The account is written, the link spent, and every earlier session dropped;
\* the claimant's own session is next.
FinishClaim(c) ==
    LET q == preq[c] IN
    /\ q.op = "claim"
    /\ IF ClaimWrites(q)
       THEN /\ account' = [account EXCEPT ![q.user] = ClaimedAccount(q)]
            /\ link' = [link EXCEPT ![q.token] = NoValue]
            /\ psession' = {s \in psession : s.user # q.user}
            /\ PortalBegin(c, [op |-> "session", user |-> q.user])
       ELSE /\ PortalEnd(c)
            /\ UNCHANGED <<account, link, psession>>
    /\ UNCHANGED <<subscriber, ptoken, gone>>

\* setPortalAccess: switching it off drops the live sessions with it.
SetPortalAccess(u, disabled) ==
    /\ u \in subscriber /\ account[u] # NoValue
    /\ account' = [account EXCEPT ![u].disabled = disabled]
    /\ psession' = IF disabled THEN {s \in psession : s.user # u} ELSE psession
    /\ UNCHANGED <<subscriber, link, preq, ptoken, gone>>

\* Deleting a user takes the account, its sessions and its links along.
DeleteSubscriber(u) ==
    /\ u \in subscriber
    /\ subscriber' = subscriber \ {u}
    /\ gone' = gone \cup {u}
    /\ account' = [account EXCEPT ![u] = NoValue]
    /\ psession' = {s \in psession : s.user # u}
    /\ link' = [t \in Ptokens |-> IF link[t] = u THEN NoValue ELSE link[t]]
    /\ UNCHANGED <<preq, ptoken>>

PortalExpiry ==
    /\ \/ \E s \in psession : psession' = psession \ {s} /\ UNCHANGED link
       \/ \E t \in Ptokens : link[t] # NoValue /\ link' = [link EXCEPT ![t] = NoValue] /\ UNCHANGED psession
    /\ UNCHANGED <<subscriber, account, preq, ptoken, gone>>

PortalNext ==
    \/ \E c \in Calls :
         \/ \E e \in Addresses, p \in Secrets, ok \in BOOLEAN : PortalRegister(c, e, p, ok)
         \/ \E e \in Addresses, p \in Secrets : PortalLogin(c, e, p)
         \/ \E u \in Subscribers : CreateSubscriber(c, u)
         \/ CreateSubscriberAccount(c) \/ IssuePortalSession(c)
         \/ \E s \in psession, p, q \in Secrets : PortalChangePassword(c, s, p, q)
         \/ SetUserAccountPassword(c) \/ FinishClaim(c)
         \/ \E t \in Ptokens, e \in Addresses \cup {NoValue}, p \in Secrets : PortalClaim(c, t, e, p)
    \/ \E s \in psession : PortalLogout(s)
    \/ \E u \in Subscribers :
         \/ IssuePortalLink(u) \/ DeleteSubscriber(u)
         \/ \E d \in BOOLEAN : SetPortalAccess(u, d)
    \/ PortalExpiry

PortalSpec == PortalInit /\ [][PortalNext]_pvars
-----------------------------------------------------------------------------
\* Every account, session and link belongs to a subscriber that exists, also
\* when the subscriber was deleted under a request (FK cascades), and a session
\* is never written for an account that was never created.
PortalTypeOK ==
    /\ subscriber \cap gone = {}
    /\ \A u \in Subscribers : account[u] # NoValue =>
         u \in subscriber /\ account[u].email \in Addresses /\ account[u].pw \in Secrets
    /\ \A s \in psession : s.user \in subscriber /\ account[s.user] # NoValue
    /\ \A t \in Ptokens : link[t] # NoValue => link[t] \in subscriber

\* portal_auth.go: a claim link that acts as a reset "must NOT be allowed to
\* move the address", and an address belongs to one account: however claims and
\* registrations of the same address interleave, the address of an account
\* stays what it was first set to, for as long as the subscriber exists.
AddressNeverMoves ==
    [][/\ \A u \in Subscribers :
            account[u] # NoValue /\ u \in subscriber' =>
                account'[u] # NoValue /\ account'[u].email = account[u].email
       /\ \A u, v \in Subscribers :
            u # v /\ account'[u] # NoValue /\ account'[v] # NoValue =>
                account'[u].email # account'[v].email]_pvars
=============================================================================
