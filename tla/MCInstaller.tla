---------------------------- MODULE MCInstaller ----------------------------
(***************************************************************************)
(* Small instances of Installer, and the classifier on every head.         *)
(***************************************************************************)
EXTENDS Installer, FileClassifier, FiniteSets, TLC

PS == INSTANCE ProcessStat
SD == INSTANCE StoreDialog

CONSTANTS p1, p2, p3, c1, c2, d1, r1, r2, k1, k2

\* Two contents of different size, so a stale size shows.
MCSizeOf == [c \in Contents |-> IF c = c1 THEN 1 ELSE 2]

\* Every path reads back from its line as it was written, but one: p3 quotes
\* c2's hash; or p2 ends in p1's own name on a line of its own, after a line
\* for c2.
PlainText == [p \in Paths |-> [brought |-> {}, entry |-> p, quotes |-> {}]]
QuotingText == [PlainText EXCEPT ![p3].quotes = {c2}]
BrokenText ==
  [PlainText EXCEPT ![p2] = [brought |-> {[path |-> p1, size |-> 2, hash |-> c2]},
                             entry |-> p1, quotes |-> {c2}]]

\* Bound: the file at the path that is not plain is not edited.
P2Stays == disk[p2] = c1
P3Stays == disk[p3] = c1

Symmetry == Permutations(Ids) \union Permutations(Clients)

-----------------------------------------------------------------------------
Runs == {"elf", "shebang", "ar", "rpm"}

\* FileClassifier.h: a program, a script or a package needs approval whatever
\* else its first bytes hold, unless it is too short to be one.
ASSUME ProgramsNeedApproval ==
  \A h \in Heads : h.begins \in Runs =>
    (requiresApproval(classify(h)) <=> h.size >= 4)

\* What cannot be read, and what is neither text nor a known document, needs
\* approval; text and known documents never do.
ASSUME DoubtNeedsApproval ==
  /\ requiresApproval(classify(Unreadable))
  /\ \A h \in Heads : h.size >= 4 /\ h.begins \notin Runs =>
       (requiresApproval(classify(h)) <=> h.begins = "none" /\ h.zero)

\* PolkitCheck.cpp:25: polkit is given the caller's own start time whatever the
\* caller calls itself, and none when the line is cut short.
Fields == [i \in 1..50 |-> IF i = 20 THEN "start" ELSE "other"]
Names  == UNION {[1..n -> {")", "(", " ", "x"}] : n \in 0..4}

ASSUME StartTimeIsTheCallers ==
  \A comm \in Names :
    /\ PS!processStartTime(PS!Stat(comm, Fields)) = "start"
    /\ \A n \in 0..19 : PS!processStartTime(PS!Stat(comm, SubSeq(Fields, 1, n))) = PS!Zero

-----------------------------------------------------------------------------
(* The store dialog, opened and clicked up to three times, two in each second *)

Clicks == [click : {"open", "request"}, submitted : SD!Outcomes, listed : SD!Outcomes]

Dialogs(clicks) ==
  LET after[n \in 0..Len(clicks)] ==
        IF n = 0 THEN SD!open([rows |-> {}], "game", "done")
        ELSE UNION {IF clicks[n].click = "open"
                    THEN SD!open(d, "game", clicks[n].listed)
                    ELSE SD!request(d, "game", n \div 2, clicks[n].submitted, clicks[n].listed) :
                    d \in after[n - 1]}
  IN after[Len(clicks)]

\* Main.qml:322: a child makes at most one request too many for every listing
\* that was not answered, and none otherwise; and of several requests the
\* dialog never shows a newer one than the oldest.
ASSUME OneRequestPerListing ==
  \A clicks \in UNION {[1..n -> Clicks] : n \in 0..3} :
    \A d \in Dialogs(clicks) :
      /\ Cardinality(d.rows)
           <= 1 + Cardinality({n \in DOMAIN clicks : clicks[n].listed # "done"})
      /\ d.myRequest # SD!NoRow =>
           \A r \in d.rows : d.myRequest.requested_at <= r.requested_at
=============================================================================
