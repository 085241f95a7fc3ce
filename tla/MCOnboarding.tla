---------------------------- MODULE MCOnboarding ----------------------------
(***************************************************************************)
(* Small instances of Onboarding.                                          *)
(***************************************************************************)
EXTENDS Onboarding

CONSTANTS u1, u2, u3, d1, d2
============================================================================
