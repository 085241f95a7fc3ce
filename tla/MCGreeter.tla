----------------------------- MODULE MCGreeter -----------------------------
(***************************************************************************)
(* A small instance of Greeter: a parent, a child with a profile and a     *)
(* child whose profile was never written.                                  *)
(***************************************************************************)
EXTENDS Greeter

CONSTANTS mum, kid, tot, d1, d2

MCProfile == [u \in {mum, kid, tot} |->
                IF u = mum THEN "parent" ELSE IF u = kid THEN "child" ELSE "none"]
============================================================================
