----------------------------- MODULE ProcessStat -----------------------------
(***************************************************************************)
(* PolkitCheck.cpp's processStartTime: the start time of a caller, by      *)
(* which polkit tells a process from a later one with the same pid, read   *)
(* from the text of /proc/<pid>/stat.  The text is a sequence of blanks,   *)
(* parentheses and whole words.                                            *)
(***************************************************************************)
EXTENDS Naturals, Sequences, FiniteSets, SequencesExt

Zero == "0"

\* Behind the last parenthesis, and the blank after it, the fields are
\* separated by single blanks; the start time is the twentieth.
processStartTime(data) ==
  LET close  == SelectLastInSeq(data, LAMBDA c : c = ")")
      fields == SubSeq(data, close + 2, Len(data))
      Blanks(n) == {i \in 1..n : fields[i] = " "}
      starts == {i \in DOMAIN fields : i > 1 /\ fields[i - 1] = " "
                                        /\ Cardinality(Blanks(i - 1)) = 19}
  IN IF close = 0 \/ starts = {} THEN Zero
     ELSE fields[CHOOSE i \in starts : TRUE]

\* What the kernel writes: the pid, the program's own name in parentheses, and
\* the other fields.
Stat(comm, fields) ==
  <<"1", " ", "(">> \o comm \o <<")">>
    \o [i \in 1..(2 * Len(fields)) |-> IF i % 2 = 1 THEN " " ELSE fields[i \div 2]]

=============================================================================
