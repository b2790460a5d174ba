------------------------------- MODULE SignIn -------------------------------
(* Who may do what: the operators' accounts, the subscribers' portal, the limiter in     *)
(* front of both, the key their secrets are sealed under and the enrolment of nodes.     *)
EXTENDS AdminAuth, Portal, RateLimiter, KeyRotation, Enrolment

\* Nothing outlives what it refers to: an account, factor, code, challenge,
\* session or claim link whose owner is deleted under a request in flight goes
\* with it, and a request that writes afterwards leaves nothing behind (the
\* tables' ON DELETE CASCADE, and the inserts of the handlers); and no stream
\* of a deleted node stays registered.
RowsHaveOwners == AdminTypeOK /\ PortalTypeOK /\ SessionsHaveNodes

\* What is good for one use is used once: a recovery code and a join token,
\* whoever presents it at the same time or again after a lost answer.
SpentOnce == RecoveryCodeOnce /\ JoinTokenOnce
=============================================================================
