---------------------------- MODULE MCApprovals ----------------------------
(***************************************************************************)
(* Small instances of Approvals.                                           *)
(***************************************************************************)
EXTENDS Approvals, TLC

CONSTANTS p1, p2, c1, c2, d1, r1, r2, w1, w2

\* Contents of two sizes.
MCSizeOf == [c \in Contents |-> IF c = c1 THEN 1 ELSE 2]

\* Every path reads back from its line as it was written.
PlainText == [p \in Paths |-> [brought |-> {}, entry |-> p, quotes |-> {}]]

Symmetry == Permutations(Ids) \union Permutations(Clients)
============================================================================
