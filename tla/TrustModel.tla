----------------------------- MODULE TrustModel -----------------------------
(***************************************************************************)
(* What external-application trust promises: content is blocked until a    *)
(* parent authorises it, which happens only while somebody asks for it,    *)
(* and blocked again once a parent has revoked it.  How a content becomes  *)
(* trusted, or silently stops being trusted, is left open; that it is      *)
(* trusted only between the two decisions is not.                          *)
(***************************************************************************)
CONSTANT Contents

VARIABLES
  asked,      \* contents with a request that nobody has decided
  authorised, \* contents a parent authorised and has not revoked
  trusted     \* contents that run, or will after fapolicyd restarts

tmVars == <<asked, authorised, trusted>>

TMInit == asked = {} /\ authorised = {} /\ trusted = {}

\* Somebody asks for a content.
Ask ==
  /\ \E h \in Contents : asked' = asked \union {h}
  /\ UNCHANGED <<authorised, trusted>>

\* A parent authorises a content that is asked for; it need not be trusted at
\* once, or ever.
Authorise ==
  /\ \E h \in asked : authorised' = authorised \union {h}
  /\ UNCHANGED <<asked, trusted>>

\* A request is decided.
Decide ==
  /\ \E h \in asked : asked' = asked \ {h}
  /\ UNCHANGED <<authorised, trusted>>

\* The system changes what it trusts within what is authorised.
Adjust ==
  /\ trusted' \in SUBSET authorised
  /\ UNCHANGED <<asked, authorised>>

\* A revocation completes when its content is no longer trusted.
Withdraw ==
  /\ \E h \in authorised \ trusted : authorised' = authorised \ {h}
  /\ UNCHANGED <<asked, trusted>>

TMNext == Ask \/ Authorise \/ Decide \/ Adjust \/ Withdraw

TMSpec == TMInit /\ [][TMNext]_tmVars
=============================================================================
