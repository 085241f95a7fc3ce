------------------------------- MODULE Family -------------------------------
(***************************************************************************)
(* What first-boot setup promises: a person gets a login once and keeps    *)
(* its role, only its secret can change later; and setup is closed once.   *)
(* The wizard asks for that when a parent and a child can log in; nothing  *)
(* keeps another process from asking before.                               *)
(***************************************************************************)
CONSTANTS Users, Secrets, NoLogin

VARIABLES
  logins,  \* who can log in, in which role and with which secret
  open,    \* setup is not complete
  asker    \* who is about to complete it: "nobody", the "wizard", an "other"

familyVars == <<logins, open, asker>>

Login == [role : {"parent", "child"}, secret : Secrets]

FamilyInit ==
  /\ logins = [u \in Users |-> NoLogin]
  /\ open = TRUE
  /\ asker = "nobody"

CanLogIn(role) ==
  \E u \in Users : logins[u] # NoLogin /\ logins[u].role = role

Provision(u) ==
  /\ logins[u] = NoLogin
  /\ \E login \in Login : logins' = [logins EXCEPT ![u] = login]
  /\ UNCHANGED <<open, asker>>

ChangeSecret(u) ==
  /\ logins[u] # NoLogin
  /\ \E s \in Secrets : logins' = [logins EXCEPT ![u].secret = s]
  /\ UNCHANGED <<open, asker>>

WizardAsks ==
  /\ asker = "nobody"
  /\ CanLogIn("parent") /\ CanLogIn("child")
  /\ asker' = "wizard"
  /\ UNCHANGED <<logins, open>>

AnotherAsks ==
  /\ asker = "nobody"
  /\ asker' = "other"
  /\ UNCHANGED <<logins, open>>

\* Setup is complete from then on; asking again changes nothing.
Close ==
  /\ asker # "nobody"
  /\ open' = FALSE
  /\ asker' = "nobody"
  /\ UNCHANGED logins

\* The file cannot be made, or the service dies before.
GiveUpClosing ==
  /\ asker # "nobody"
  /\ asker' = "nobody"
  /\ UNCHANGED <<logins, open>>

FamilyNext ==
  \/ WizardAsks \/ AnotherAsks \/ Close \/ GiveUpClosing
  \/ \E u \in Users : Provision(u) \/ ChangeSecret(u)

FamilySpec == FamilyInit /\ [][FamilyNext]_familyVars
=============================================================================
