------------------------------ MODULE MCSignIn ------------------------------
(* Small instances of SignIn for TLC.  The components share no state the properties      *)
(* relate, so one run takes a behaviour of one of them at a time.                        *)
EXTENDS SignIn, TLC

CONSTANTS a1, a2, e1, u1, u2, q1, q2, Parts

VARIABLE part   \* the component this behaviour is about

MCEnrolments == {[a \in Admins |-> {}], [a \in Admins |-> Kinds]}
MCLimit == [r \in Routes |-> IF r = "login" THEN 2 ELSE 1]
MCWindow == [r \in Routes |-> IF r = "login" THEN 1 ELSE 2]

\* Requests are interchangeable, and so are machines.
MCSymmetry == Permutations(Requests) \cup Permutations(Hosts)

\* "login" starts with every factor enrolled and only signs in and out; "admin" starts with
\* none, does everything, and has one login or registration pending at a time.
Init ==
    /\ part \in Parts
    /\ AdminInit /\ (factors = {} <=> part # "login")
    /\ PortalInit /\ (part # "portal" => subscriber = {})
    /\ LimiterInit
    /\ KeyInit /\ (part # "keys" => key = NoKey /\ \A c \in Cells : cell[c] = Blank)
    /\ EnrolmentInit

Next ==
    /\ UNCHANGED part
    /\ \/ /\ part = "login"
          /\ PasswordStep \/ FactorStep
          /\ UNCHANGED <<pvars, lvars, kvars, nvars>>
       \/ /\ part = "admin"
          /\ AdminNext /\ challenge'[Plain(2)] = NoChallenge
          /\ UNCHANGED <<pvars, lvars, kvars, nvars>>
       \/ part = "portal" /\ PortalNext /\ UNCHANGED <<avars, lvars, kvars, nvars>>
       \/ part = "limiter" /\ LimiterNext /\ UNCHANGED <<avars, pvars, kvars, nvars>>
       \/ part = "keys" /\ KeyNext /\ UNCHANGED <<avars, pvars, lvars, nvars>>
       \/ part = "enrol" /\ EnrolmentNext /\ UNCHANGED <<avars, pvars, lvars, kvars>>

Spec == Init /\ [][Next]_<<part, avars, pvars, lvars, kvars, nvars>>
=============================================================================
