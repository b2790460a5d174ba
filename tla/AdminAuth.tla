----------------------------- MODULE AdminAuth -----------------------------
(***************************************************************************)
(* Accounts of operators: signing in with a password and a second factor,  *)
(* enrolling factors, and managing the accounts themselves.  Handlers run  *)
(* concurrently and share one database, whose statements are serialised: a *)
(* handler that reads, decides and then writes is two steps here, with     *)
(* what it read kept in req.                                               *)
(*                                                                         *)
(*   admin      the admins table (None: no such row)                       *)
(*   factors    mfa_credentials;  recovery  the unused recovery codes      *)
(*   challenge  auth_challenges, by the key they are stored under          *)
(*   session    admin_sessions                                             *)
(*   req        requests past their first step                             *)
(*   spent      history: how many sessions each recovery code has bought   *)
(*                                                                         *)
(* Secrets.  A token, code or id is a number no row and no request holds;  *)
(* a number is used again once nothing holds it, for a caller may present  *)
(* any number at any time.  A mailed code and the data of a passkey        *)
(* ceremony are the number of the login they belong to; 0 is every wrong   *)
(* or superseded answer.  A session keeps, as history, what bought it.     *)
(*                                                                         *)
(* Expiry.  Every read ignores an expired row and every insert replaces    *)
(* one, so a row goes when it expires and the sweep's deletion changes     *)
(* nothing more.  Replies that change nothing are stuttering steps.  The   *)
(* environment token is the caller EnvToken, a superadmin without account. *)
(***************************************************************************)
EXTENDS Integers, FiniteSets

CONSTANTS
    Admins, Emails, Requests,
    Passwords,             \* a set of numbers; an account starts with 1
    FirstRole,             \* the role of the accounts that exist at the start
    NewRoles,              \* the roles given to accounts
    Managers,              \* who manages accounts: admins, or EnvToken
    Enrolments,            \* [Admins -> SUBSET Kinds], a set: factors at the start
    MaxTokens,             \* bound on login and registration challenges
    MaxSessions,           \* bound on live sessions
    MaxFactors,            \* bound on factors
    MaxChallengeAttempts,  \* wrong answers before a challenge is burned
    RecoveryCodeCount,     \* codes in one set
    TOTPSkew,              \* periods a clock may be off
    EnvToken, None

Roles == {"superadmin", "operator", "viewer"}
Kinds == {"totp", "passkey", "email"}
Tokens == 1..MaxTokens
RecoveryCodes == 1..RecoveryCodeCount

\* A row of the admins table.
AdminRows == [role : Roles, disabled : BOOLEAN, pw : Passwords, email : Emails \cup {None},
              verified : BOOLEAN]

ASSUME AdminAssumption ==
    /\ FirstRole \in Roles /\ NewRoles \subseteq Roles
    /\ Passwords \subseteq Nat /\ 1 \in Passwords /\ Emails # {}
    /\ Enrolments \subseteq [Admins -> SUBSET Kinds]
    /\ MaxTokens \in Nat /\ MaxSessions \in Nat /\ MaxFactors \in Nat /\ TOTPSkew \in Nat
    /\ MaxChallengeAttempts \in Nat \ {0} /\ RecoveryCodeCount \in Nat \ {0}
    /\ None \notin AdminRows

VARIABLES admin, factors, recovery, challenge, session, req, spent

avars == <<admin, factors, recovery, challenge, session, req, spent>>

\* What is stored under a key derived from a token, or from an admin's id.
Plain(t) == [of |-> t, kind |-> "plain"]
Keys == [of : Tokens, kind : {"plain", "email", "webauthn"}]
            \cup [of : Admins, kind : {"verify"}]

NoChallenge == [purpose |-> "none", admin |-> None, data |-> 0, attempts |-> 0]
Idle == [op |-> "idle", admin |-> None]

rank == [viewer |-> 1, operator |-> 2, superadmin |-> 3]

NewAdmin(role, pw) ==
    [role |-> role, disabled |-> FALSE, pw |-> pw, email |-> None, verified |-> FALSE]
-----------------------------------------------------------------------------
(* The store. *)

GetAdmin(a) == admin[a] # None
ConfirmedMFACredentials(a) == {f \in factors : f.admin = a /\ f.confirmed}
AdminBySession(s) == s \in session /\ GetAdmin(s.admin) /\ ~admin[s.admin].disabled
CountEnabledSuperadmins ==
    Cardinality({a \in Admins : GetAdmin(a) /\ admin[a].role = "superadmin" /\ ~admin[a].disabled})

\* A mutant for TLC: the purpose is not compared.
GetChallengeAnyPurpose(k, purpose) == challenge[k] # NoChallenge

\* A live challenge of the expected purpose.
GetChallenge(k, purpose) == challenge[k].purpose = purpose

CreateChallenge(k, a, purpose, data) ==
    [challenge EXCEPT ![k] = [purpose |-> purpose, admin |-> a, data |-> data, attempts |-> 0]]

DeleteChallenge(ks) ==
    [k \in Keys |-> IF k \in ks THEN NoChallenge ELSE challenge[k]]

\* BumpChallengeAttempts, and the deletion its answer leads to.
FailChallenge(k, also) ==
    LET n == challenge[k].attempts + 1 IN
    challenge' = [DeleteChallenge(also) EXCEPT
                    ![k] = IF challenge[k] = NoChallenge \/ n >= MaxChallengeAttempts
                           THEN NoChallenge ELSE [challenge[k] EXCEPT !.attempts = n]]

\* ReplaceRecoveryCodes, with a new set of NewRecoveryCodes.
ReplaceRecoveryCodes(a) ==
    /\ recovery' = [recovery EXCEPT ![a] = RecoveryCodes]
    /\ spent' = [spent EXCEPT ![a] = [t \in RecoveryCodes |-> 0]]

\* VerifyTOTP: a code of this secret, at most TOTPSkew periods off.
VerifyTOTP(f, code) == code.of = f /\ code.drift \in (-TOTPSkew)..TOTPSkew

VerifyPassword(p, a) == p = admin[a].pw

\* The webauthn library: the response signs the challenge of this ceremony
\* with a credential of this account.
FinishLoginAccepts(a, data, response) ==
    /\ response.data = data
    /\ \E f \in ConfirmedMFACredentials(a) : f.kind = "passkey" /\ f.id = response.id
-----------------------------------------------------------------------------
(* Who is calling. *)

SignedIn(a) == \E s \in session : s.admin = a /\ AdminBySession(s)

Authenticate(by) == by = EnvToken \/ SignedIn(by)

Require(by, min) ==
    /\ Authenticate(by)
    /\ by # EnvToken => rank[admin[by].role] >= rank[min]

Free(r) == req[r] = Idle
Begin(r, rec) == req' = [req EXCEPT ![r] = rec]
End(r) == req' = [req EXCEPT ![r] = Idle]

\* NewSecret: a number nothing holds, the least one for there is nothing to
\* tell them apart.
Least(S) == CHOOSE x \in S : \A y \in S : x <= y
FreshTokens ==
    {t \in Tokens : /\ \A k \in Keys : challenge[k] # NoChallenge => k.of # t
                   /\ \A r \in Requests : req[r].op = "verify" => req[r].login # t}
FreshSessions == {i \in 1..MaxSessions : \A s \in session : s.id # i}
FreshFactors ==
    {i \in 1..MaxFactors : /\ \A f \in factors : f.id # i
                          /\ \A r \in Requests : req[r].op = "totp" => req[r].factor.id # i}

\* An admin who has factors at the start has a set of recovery codes.
AdminInit ==
    /\ \E enrolled \in Enrolments :
         /\ admin = [a \in Admins |->
                       [NewAdmin(FirstRole, 1) EXCEPT
                          !.email = IF "email" \in enrolled[a] THEN CHOOSE e \in Emails : TRUE ELSE None,
                          !.verified = "email" \in enrolled[a]]]
         /\ factors = UNION {{[id |-> 0, admin |-> a, kind |-> k, confirmed |-> TRUE]
                               : k \in enrolled[a]} : a \in Admins}
         /\ recovery = [a \in Admins |-> IF enrolled[a] = {} THEN {} ELSE RecoveryCodes]
    /\ challenge = [k \in Keys |-> NoChallenge]
    /\ session = {}
    /\ req = [r \in Requests |-> Idle]
    /\ spent = [a \in Admins |-> [t \in RecoveryCodes |-> 0]]
-----------------------------------------------------------------------------
(* Signing in. *)

\* login, up to the factors it loads: from here on it acts on what it read.
Login(r, a, p) ==
    /\ Free(r)
    /\ GetAdmin(a) /\ ~admin[a].disabled /\ VerifyPassword(p, a)
    /\ Begin(r, [op |-> "login", admin |-> a, mfa |-> ConfirmedMFACredentials(a) # {}])
    /\ UNCHANGED <<admin, factors, recovery, challenge, session, spent>>

\* startMFA: the password has earned a challenge.
StartMFA(r) ==
    /\ req[r].op = "login" /\ req[r].mfa
    /\ End(r)
    /\ IF GetAdmin(req[r].admin)
       THEN /\ FreshTokens # {}
            /\ challenge' = CreateChallenge(Plain(Least(FreshTokens)), req[r].admin, "login", 0)
       ELSE UNCHANGED challenge
    /\ UNCHANGED <<admin, factors, recovery, session, spent>>

\* A mutant for TLC: sessions of accounts that are gone (foreign keys off).
IssueSessionUnchecked(a, how, proof) ==
    /\ FreshSessions # {}
    /\ session' = session \cup {[id |-> Least(FreshSessions), admin |-> a, how |-> how,
                                 proof |-> proof]}

\* issueSession.  The insert fails when the account is gone.
NoProof == [admin |-> None, purpose |-> "none", login |-> 0, code |-> 0]
IssueSession(a, how, proof) ==
    IF GetAdmin(a)
    THEN /\ FreshSessions # {}
         /\ session' = session \cup {[id |-> Least(FreshSessions), admin |-> a, how |-> how,
                                      proof |-> proof]}
    ELSE UNCHANGED session

FinishLogin(r) ==
    /\ req[r].op = "login" /\ ~req[r].mfa
    /\ End(r)
    /\ IssueSession(req[r].admin, "password", NoProof)
    /\ UNCHANGED <<admin, factors, recovery, challenge, spent>>

\* spendChallenge: the login challenge a request presents, and its account.
SpendChallenge(t) ==
    /\ GetChallenge(Plain(t), "login")
    /\ GetAdmin(challenge[Plain(t)].admin) /\ ~admin[challenge[Plain(t)].admin].disabled

\* A challenge of an account that was disabled since goes when it is presented.
DropChallenge(t) ==
    /\ GetChallenge(Plain(t), "login")
    /\ admin[challenge[Plain(t)].admin].disabled
    /\ challenge' = DeleteChallenge({Plain(t)})
    /\ UNCHANGED <<admin, factors, recovery, session, req, spent>>

VerifyMFA(r, t) ==
    /\ Free(r)
    /\ SpendChallenge(t)
    /\ Begin(r, [op |-> "verify", admin |-> challenge[Plain(t)].admin, login |-> t,
                 purpose |-> challenge[Plain(t)].purpose])
    /\ UNCHANGED <<admin, factors, recovery, challenge, session, spent>>

\* The factors are loaded after the challenge was accepted.
Proof(c, code) == [admin |-> c.admin, purpose |-> c.purpose, login |-> c.login, code |-> code]
VerifyTOTPCode(r, code) ==
    LET c == req[r] IN
    /\ c.op = "verify"
    /\ End(r)
    /\ IF \E f \in ConfirmedMFACredentials(c.admin) : f.kind = "totp" /\ VerifyTOTP(f, code)
       THEN /\ challenge' = DeleteChallenge({Plain(c.login)})
            /\ IssueSession(c.admin, "totp", Proof(c, 0))
       ELSE /\ FailChallenge(Plain(c.login), {})
            /\ UNCHANGED session
    /\ UNCHANGED <<admin, factors, recovery, spent>>

\* A mutant for TLC: the code is checked and never marked used.
UseRecoveryCodeUnmarked(a, code) == recovery

\* UseRecoveryCode: the update is the check.
UseRecoveryCode(a, code) == [recovery EXCEPT ![a] = @ \ {code}]

VerifyRecoveryCode(r, code) ==
    LET c == req[r] IN
    /\ c.op = "verify"
    /\ End(r)
    /\ IF code \in recovery[c.admin]
       THEN /\ recovery' = UseRecoveryCode(c.admin, code)
            /\ challenge' = DeleteChallenge({Plain(c.login)})
            /\ IssueSession(c.admin, "recovery-code", Proof(c, 0))
            /\ spent' = [spent EXCEPT ![c.admin][code] = @ + 1]
       ELSE /\ FailChallenge(Plain(c.login), {})
            /\ UNCHANGED <<recovery, session, spent>>
    /\ UNCHANGED <<admin, factors>>

\* sendEmailCode: stored under the login challenge before it is mailed; that the
\* mail fails changes nothing.
EmailKey(t) == [of |-> t, kind |-> "email"]
SendEmailCode(t) ==
    LET a == challenge[Plain(t)].admin IN
    /\ SpendChallenge(t)
    /\ admin[a].verified /\ admin[a].email # None
    /\ challenge' = CreateChallenge(EmailKey(t), a, "email_code", t)
    /\ UNCHANGED <<admin, factors, recovery, session, req, spent>>

\* A wrong answer counts against the mailed code, not against the login.
VerifyEmailCode(r, code) ==
    LET c == req[r] IN
    /\ c.op = "verify"
    /\ End(r)
    /\ CASE ~GetChallenge(EmailKey(c.login), "email_code") -> UNCHANGED <<challenge, session>>
         [] GetChallenge(EmailKey(c.login), "email_code")
              /\ challenge[EmailKey(c.login)].data # code ->
              /\ FailChallenge(EmailKey(c.login), {})
              /\ UNCHANGED session
         [] OTHER ->
              /\ challenge' = DeleteChallenge({EmailKey(c.login), Plain(c.login)})
              /\ IssueSession(c.admin, "email-code", Proof(c, code))
    /\ UNCHANGED <<admin, factors, recovery, spent>>

\* Begin and finish of a passkey login: the ceremony hangs off the login challenge.
WebAuthnKey(t) == [of |-> t, kind |-> "webauthn"]
BeginPasskeyLogin(t) ==
    LET a == challenge[Plain(t)].admin IN
    /\ SpendChallenge(t)
    /\ \E f \in ConfirmedMFACredentials(a) : f.kind = "passkey"
    /\ challenge' = CreateChallenge(WebAuthnKey(t), a, "webauthn_login", t)
    /\ UNCHANGED <<admin, factors, recovery, session, req, spent>>

FinishPasskeyLogin(t, response) ==
    LET a == challenge[Plain(t)].admin IN
    /\ SpendChallenge(t)
    /\ GetChallenge(WebAuthnKey(t), "webauthn_login")
    /\ IF FinishLoginAccepts(a, challenge[WebAuthnKey(t)].data, response)
       THEN /\ challenge' = DeleteChallenge({WebAuthnKey(t), Plain(t)})
            /\ IssueSession(a, "passkey", [admin |-> a, purpose |-> challenge[Plain(t)].purpose,
                                         login |-> t, code |-> 0])
       ELSE /\ FailChallenge(Plain(t), {WebAuthnKey(t)})
            /\ UNCHANGED session
    /\ UNCHANGED <<admin, factors, recovery, req, spent>>

Logout(s) ==
    /\ AdminBySession(s)
    /\ session' = session \ {s}
    /\ UNCHANGED <<admin, factors, recovery, challenge, req, spent>>

ExpireSession(s) ==
    /\ s \in session
    /\ session' = session \ {s}
    /\ UNCHANGED <<admin, factors, recovery, challenge, req, spent>>

ExpireChallenge(k) ==
    /\ challenge[k] # NoChallenge
    /\ challenge' = DeleteChallenge({k})
    /\ UNCHANGED <<admin, factors, recovery, session, req, spent>>
-----------------------------------------------------------------------------
(* Managing accounts. *)

\* An id is never used again: a name comes back only when no request still
\* means its earlier holder.
CreateAdmin(by, a, role) ==
    /\ Require(by, "superadmin")
    /\ ~GetAdmin(a) /\ \A r \in Requests : req[r].admin # a
    /\ admin' = [admin EXCEPT ![a] = NewAdmin(role, 1)]
    /\ UNCHANGED <<factors, recovery, challenge, session, req, spent>>

\* updateAdmin up to its count of superadmins, and its write.
LosingSuper(a, role, disabled) ==
    /\ admin[a].role = "superadmin" /\ ~admin[a].disabled
    /\ role # "superadmin" \/ disabled

UpdateAdmin(r, by, a, role, disabled) ==
    /\ Free(r) /\ Require(by, "superadmin") /\ GetAdmin(a)
    /\ LosingSuper(a, role, disabled) => CountEnabledSuperadmins > 1
    /\ Begin(r, [op |-> "update", admin |-> a, role |-> role, disabled |-> disabled])
    /\ UNCHANGED <<admin, factors, recovery, challenge, session, spent>>

UpdateAdminRole(r) ==
    LET c == req[r] IN
    /\ c.op = "update"
    /\ End(r)
    /\ admin' = IF GetAdmin(c.admin)
                THEN [admin EXCEPT ![c.admin].role = c.role, ![c.admin].disabled = c.disabled]
                ELSE admin
    /\ UNCHANGED <<factors, recovery, challenge, session, spent>>

DeleteAdmin(r, by, a) ==
    /\ Free(r) /\ Require(by, "superadmin") /\ GetAdmin(a) /\ by # a
    /\ admin[a].role = "superadmin" /\ ~admin[a].disabled => CountEnabledSuperadmins > 1
    /\ Begin(r, [op |-> "delete", admin |-> a])
    /\ UNCHANGED <<admin, factors, recovery, challenge, session, spent>>

\* The row goes, and everything that refers to it.
DeleteAdminRow(r) ==
    LET a == req[r].admin IN
    /\ req[r].op = "delete"
    /\ End(r)
    /\ admin' = [admin EXCEPT ![a] = None]
    /\ factors' = {f \in factors : f.admin # a}
    /\ recovery' = [recovery EXCEPT ![a] = {}]
    /\ challenge' = DeleteChallenge({k \in Keys : challenge[k].admin = a})
    /\ session' = {s \in session : s.admin # a}
    /\ spent' = [spent EXCEPT ![a] = [t \in RecoveryCodes |-> 0]]

ChangePassword(r, by, a, current, new) ==
    /\ Free(r) /\ Authenticate(by) /\ GetAdmin(a)
    /\ by = a \/ Require(by, "superadmin")
    /\ by = a => VerifyPassword(current, a)
    /\ Begin(r, [op |-> "password", admin |-> a, new |-> new])
    /\ UNCHANGED <<admin, factors, recovery, challenge, session, spent>>

\* SetAdminPassword: the password and the sessions, in one transaction.
SetAdminPassword(r) ==
    LET a == req[r].admin IN
    /\ req[r].op = "password"
    /\ End(r)
    /\ admin' = IF GetAdmin(a) THEN [admin EXCEPT ![a].pw = req[r].new] ELSE admin
    /\ session' = {s \in session : s.admin # a}
    /\ UNCHANGED <<factors, recovery, challenge, spent>>
-----------------------------------------------------------------------------
(* Enrolling factors, each on the caller's own account. *)

\* A mutant for TLC: the codes are left to a step the account may never take.
AfterFirstFactorNoCodes(r) ==
    req[r].op = "codes" /\ End(r) /\ UNCHANGED <<admin, factors, recovery, challenge, session, spent>>

\* afterFirstFactor: codes for an account that has none left, once its factor counts.
AfterFirstFactor(r) ==
    /\ req[r].op = "codes"
    /\ End(r)
    /\ IF recovery[req[r].admin] = {} /\ GetAdmin(req[r].admin)
       THEN ReplaceRecoveryCodes(req[r].admin) ELSE UNCHANGED <<recovery, spent>>
    /\ UNCHANGED <<admin, factors, challenge, session>>

BeginTOTP(a) ==
    /\ SignedIn(a)
    /\ FreshFactors # {}
    /\ factors' = factors \cup {[id |-> Least(FreshFactors), admin |-> a, kind |-> "totp",
                                 confirmed |-> FALSE]}
    /\ UNCHANGED <<admin, recovery, challenge, session, req, spent>>

ConfirmTOTP(r, a, f, code) ==
    /\ Free(r) /\ SignedIn(a)
    /\ f.admin = a /\ f.kind = "totp" /\ VerifyTOTP(f, code)
    /\ Begin(r, [op |-> "totp", admin |-> a, factor |-> f])
    /\ UNCHANGED <<admin, factors, recovery, challenge, session, spent>>

\* PutMFACredential writes the row as it was read, also when it is gone.
PutConfirmedTOTP(r) ==
    LET c == req[r] IN
    /\ c.op = "totp"
    /\ IF GetAdmin(c.admin)
       THEN /\ factors' = (factors \ {c.factor}) \cup {[c.factor EXCEPT !.confirmed = TRUE]}
            /\ Begin(r, [op |-> "codes", admin |-> c.admin])
       ELSE End(r) /\ UNCHANGED factors
    /\ UNCHANGED <<admin, recovery, challenge, session, spent>>

BeginPasskeyRegistration(a) ==
    /\ SignedIn(a)
    /\ FreshTokens # {}
    /\ challenge' = CreateChallenge(Plain(Least(FreshTokens)), a, "webauthn_register", 0)
    /\ UNCHANGED <<admin, factors, recovery, session, req, spent>>

\* The ceremony is the proof: the factor is confirmed at once.
FinishPasskeyRegistration(r, a, t, accepted) ==
    /\ Free(r) /\ SignedIn(a)
    /\ GetChallenge(Plain(t), "webauthn_register") /\ challenge[Plain(t)].admin = a
    /\ challenge' = DeleteChallenge({Plain(t)})
    /\ IF accepted
       THEN /\ FreshFactors # {}
            /\ factors' = factors \cup {[id |-> Least(FreshFactors), admin |-> a,
                                         kind |-> "passkey", confirmed |-> TRUE]}
            /\ Begin(r, [op |-> "codes", admin |-> a])
       ELSE UNCHANGED <<factors, req>>
    /\ UNCHANGED <<admin, recovery, session, spent>>

\* sendEmailVerification: the address is recorded first, its code after it.
VerifyKey(a) == [of |-> a, kind |-> "verify"]
SetAdminEmail(r, a, e) ==
    /\ Free(r) /\ SignedIn(a)
    /\ admin' = [admin EXCEPT ![a].email = e, ![a].verified = FALSE]
    /\ Begin(r, [op |-> "send", admin |-> a, email |-> e])
    /\ UNCHANGED <<factors, recovery, challenge, session, spent>>

SendEmailVerification(r) ==
    LET a == req[r].admin IN
    /\ req[r].op = "send"
    /\ End(r)
    /\ IF GetAdmin(a)
       THEN challenge' = CreateChallenge(VerifyKey(a), a, "email_verify", req[r].email)
       ELSE UNCHANGED challenge
    /\ UNCHANGED <<admin, factors, recovery, session, spent>>

ConfirmEmail(r, a, code) ==
    /\ Free(r) /\ SignedIn(a)
    /\ GetChallenge(VerifyKey(a), "email_verify")
    /\ IF challenge[VerifyKey(a)].data = code
       THEN /\ challenge' = DeleteChallenge({VerifyKey(a)})
            /\ Begin(r, [op |-> "email", admin |-> a])
       ELSE FailChallenge(VerifyKey(a), {}) /\ UNCHANGED req
    /\ UNCHANGED <<admin, factors, recovery, session, spent>>

\* The address is read again and becomes a factor.
MarkEmailVerified(r) ==
    LET a == req[r].admin IN
    /\ req[r].op = "email"
    /\ IF GetAdmin(a)
       THEN /\ admin' = [admin EXCEPT ![a].verified = TRUE]
            /\ FreshFactors # {}
            /\ factors' = factors \cup {[id |-> Least(FreshFactors), admin |-> a,
                                         kind |-> "email", confirmed |-> TRUE]}
            /\ Begin(r, [op |-> "codes", admin |-> a])
       ELSE End(r) /\ UNCHANGED <<admin, factors>>
    /\ UNCHANGED <<recovery, challenge, session, spent>>

RegenerateRecoveryCodes(a) ==
    /\ SignedIn(a)
    /\ ReplaceRecoveryCodes(a)
    /\ UNCHANGED <<admin, factors, challenge, session, req>>

DeleteMFA(a, f) ==
    /\ SignedIn(a) /\ f \in factors /\ f.admin = a
    /\ factors' = factors \ {f}
    /\ UNCHANGED <<admin, recovery, challenge, session, req, spent>>
-----------------------------------------------------------------------------
Codes == [of : factors \cup {None}, drift : {0, TOTPSkew + 1}]

\* Ways in without a second factor, and out; with one; managing accounts; enrolling.
PasswordStep ==
    \/ \E r \in Requests : FinishLogin(r) \/ \E a \in Admins, p \in Passwords : Login(r, a, p)
    \/ \E s \in session : Logout(s) \/ ExpireSession(s)
    \/ \E k \in Keys : ExpireChallenge(k)

FactorStep ==
    \/ \E r \in Requests :
         \/ StartMFA(r)
         \/ \E t \in Tokens : VerifyMFA(r, t)
         \/ \E t \in RecoveryCodes \cup {0} : VerifyRecoveryCode(r, t)
         \/ \E t \in Tokens \cup {0} : VerifyEmailCode(r, t)
         \/ \E c \in Codes : VerifyTOTPCode(r, c)
    \/ \E t \in Tokens :
         \/ DropChallenge(t)
         \/ SendEmailCode(t) \/ BeginPasskeyLogin(t)
         \/ \E f \in factors, d \in Tokens : FinishPasskeyLogin(t, [id |-> f.id, data |-> d])

AccountStep ==
    \/ \E by \in Managers, a \in Admins :
         \/ \E role \in NewRoles : CreateAdmin(by, a, role)
         \/ \E r \in Requests :
              \/ \E role \in NewRoles, disabled \in BOOLEAN : UpdateAdmin(r, by, a, role, disabled)
              \/ DeleteAdmin(r, by, a)
              \/ \E p, q \in Passwords : ChangePassword(r, by, a, p, q)
    \/ \E r \in Requests : UpdateAdminRole(r) \/ DeleteAdminRow(r) \/ SetAdminPassword(r)

EnrolStep ==
    \/ \E a \in Admins :
         \/ BeginTOTP(a) \/ BeginPasskeyRegistration(a) \/ RegenerateRecoveryCodes(a)
         \/ \E f \in factors : DeleteMFA(a, f)
         \/ \E r \in Requests :
              \/ \E f \in factors, c \in Codes : ConfirmTOTP(r, a, f, c)
              \/ \E t \in Tokens, ok \in BOOLEAN : FinishPasskeyRegistration(r, a, t, ok)
              \/ \E e \in Emails : SetAdminEmail(r, a, e)
              \/ \E e \in Emails \cup {None} : ConfirmEmail(r, a, e)
    \/ \E r \in Requests : PutConfirmedTOTP(r) \/ SendEmailVerification(r) \/ MarkEmailVerified(r)
                              \/ AfterFirstFactor(r)

AdminNext == PasswordStep \/ FactorStep \/ AccountStep \/ EnrolStep

AdminSpec == AdminInit /\ [][AdminNext]_avars
-----------------------------------------------------------------------------
Purposes == {"none", "login", "email_code", "webauthn_login", "webauthn_register", "email_verify"}

\* Every row refers to an account that exists: the deletion of an admin leaves
\* no factor, code, challenge or session behind, whatever was in flight
\* (ON DELETE CASCADE and the inserts that come after it).
AdminTypeOK ==
    /\ \A a \in Admins : GetAdmin(a) => admin[a].role \in Roles /\ admin[a].pw \in Passwords
    /\ \A f \in factors : f.kind \in Kinds /\ GetAdmin(f.admin)
    /\ \A a \in Admins : ~GetAdmin(a) => recovery[a] = {}
    /\ \A k \in Keys : /\ challenge[k].purpose \in Purposes
                       /\ challenge[k].attempts \in 0..(MaxChallengeAttempts - 1)
                       /\ challenge[k] # NoChallenge => GetAdmin(challenge[k].admin)
    /\ \A s \in session : GetAdmin(s.admin)

\* "Two concurrent attempts with the same code cannot both succeed": a recovery
\* code buys at most one session, however many requests present it.
RecoveryCodeOnce == \A a \in Admins, t \in RecoveryCodes : spent[a][t] <= 1

\* A session got with a second factor was bought by a login challenge of that
\* very account, and an emailed code by one mailed for that very login: no
\* registration ceremony, no other login's code and no other account's
\* challenge stands in for it.
SecondFactorBound ==
    \A s \in session : s.how # "password" =>
        /\ s.proof.purpose = "login" /\ s.proof.admin = s.admin
        /\ s.how = "email-code" => s.proof.code = s.proof.login

\* "Enrolling MFA without a way back in is how people lock themselves out": an
\* account whose login asks for a factor has a recovery code left, or has used
\* one, or the request that enrolled the factor is about to write them, however
\* enrolments, removals and uses of the last code interleave.
WayBackIn ==
    \A a \in Admins : ConfirmedMFACredentials(a) # {} =>
        \/ recovery[a] # {}
        \/ \E t \in RecoveryCodes : spent[a][t] > 0
        \/ \E r \in Requests : req[r].op = "codes" /\ req[r].admin = a

=============================================================================
