------------------------------ MODULE PolicyMap ------------------------------
(***************************************************************************)
(* What a parent may rely on of kidsos-policy: an entry takes a value only *)
(* by a decision of a parent that named both, each decision takes effect   *)
(* at most once and never after a later one, and whatever goes wrong       *)
(* either leaves the other entries alone or loses all of them.             *)
(***************************************************************************)
CONSTANTS Keys, Values, None

VARIABLES
  entries,  \* the value of each key that readers get
  decision  \* the decision a parent has authorised and that is carried out

pmVars == <<entries, decision>>

Nothing == [k \in Keys |-> None]
NoDecision == <<>>

PMInit == entries = Nothing /\ decision = NoDecision

Decide ==
  /\ decision = NoDecision
  /\ \E k \in Keys, v \in Values : decision' = <<k, v>>
  /\ UNCHANGED entries

\* The decision takes effect, on the entries or on none of them.
Put ==
  /\ decision # NoDecision
  /\ \E base \in {entries, Nothing} :
       entries' = [base EXCEPT ![decision[1]] = decision[2]]
  /\ decision' = NoDecision

Forget ==
  /\ entries' = Nothing
  /\ decision' = NoDecision

PMNext == Decide \/ Put \/ Forget

PMSpec == PMInit /\ [][PMNext]_pmVars
=============================================================================
