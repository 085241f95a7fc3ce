--------------------------- MODULE GreeterProofs ---------------------------
(***************************************************************************)
(* Proofs about Greeter, for any users, profiles and pad lengths: the pad  *)
(* is never stuck and the credentials are those of the selected card.      *)
(***************************************************************************)
EXTENDS Greeter, TLAPS, SequenceTheorems

LEMMA InitInv == GreeterInit => PadInv
<1> SUFFICES ASSUME GreeterInit PROVE PadInv
  OBVIOUS
<1>1. /\ view = "cards" /\ shown = FALSE /\ timer = FALSE /\ session = FALSE
      /\ selected = NoUser /\ shows = NoUser /\ attempt = NoUser /\ error = "none"
      /\ reads = <<>> /\ entry = <<>>
  BY DEF GreeterInit
<1>2. reads \in Seq(Users) /\ entry \in Seq(Digits) /\ Len(entry) = 0
  BY <1>1, EmptySeq
<1>3. Len(entry) <= MaxEntry /\ ~(Len(entry) >= PadLength)
  BY <1>2, PadAssumption DEF PadAssumption
<1>4. GreeterTypeOK
  BY <1>1, <1>2, <1>3 DEF GreeterTypeOK
<1>5. PadNeverStuck
  BY <1>3 DEF PadNeverStuck
<1> QED
  BY <1>1, <1>4, <1>5 DEF PadInv

\* The reads left when the first is answered end with the same user.
LEMMA LastRead ==
  ASSUME reads \in Seq(Users), reads # <<>>
  PROVE  /\ Head(reads) \in Users /\ Tail(reads) \in Seq(Users)
         /\ Tail(reads) = <<>> => Head(reads) = reads[Len(reads)]
         /\ Tail(reads) # <<>> => Tail(reads)[Len(Tail(reads))] = reads[Len(reads)]
<1>1. Len(reads) \in Nat /\ Len(reads) # 0
  BY EmptySeq, LenProperties
<1>2. /\ Head(reads) \in Users /\ Tail(reads) \in Seq(Users)
      /\ Len(Tail(reads)) = Len(reads) - 1
      /\ \A i \in 1 .. Len(Tail(reads)) : Tail(reads)[i] = reads[i + 1]
  BY HeadTailProperties
<1>3. ASSUME Tail(reads) = <<>> PROVE Head(reads) = reads[Len(reads)]
  <2>1. Len(reads) = 1
    BY <1>1, <1>2, <1>3, EmptySeq
  <2> QED
    BY <2>1
<1>4. ASSUME Tail(reads) # <<>>
      PROVE  Tail(reads)[Len(Tail(reads))] = reads[Len(reads)]
  <2>1. Len(Tail(reads)) # 0
    BY <1>2, <1>4, EmptySeq
  <2> DEFINE n == Len(Tail(reads))
  <2>2. n \in Nat /\ n \in 1 .. n /\ n + 1 = Len(reads)
    BY <1>1, <1>2, <2>1
  <2> QED
    BY <1>2, <2>2
<1> QED
  BY <1>2, <1>3, <1>4

\* A pad that holds nothing is not full.
LEMMA Emptied ==
  ASSUME entry' \in {entry, <<>>}, entry \in Seq(Digits), Len(entry) <= MaxEntry
  PROVE  /\ entry' \in Seq(Digits) /\ Len(entry') <= MaxEntry
         /\ Len(entry') >= PadLength => entry' = entry
<1>1. CASE entry' = entry
  BY <1>1
<1>2. CASE entry' = <<>>
  <2>1. entry' \in Seq(Digits) /\ Len(entry') = 0
    BY <1>2, EmptySeq
  <2>2. Len(entry') <= MaxEntry /\ ~(Len(entry') >= PadLength)
    BY <2>1, PadAssumption DEF PadAssumption
  <2> QED
    BY <2>1, <2>2
<1> QED
  BY <1>1, <1>2

LEMMA NextInv == PadInv /\ [GreeterNext]_greeterVars => PadInv'
<1> SUFFICES ASSUME PadInv, [GreeterNext]_greeterVars PROVE PadInv'
  OBVIOUS
<1> USE DEF PadInv, padVars
<1>0. /\ GreeterTypeOK /\ PadNeverStuck
      /\ reads \in Seq(Users) /\ entry \in Seq(Digits) /\ Len(entry) <= MaxEntry
      /\ Len(entry) \in Nat
  BY DEF GreeterTypeOK
<1>1. ASSUME NEW u \in Users, Select(u) PROVE PadInv'
  <2>1. reads' \in Seq(Users) /\ reads'[Len(reads')] = u /\ Len(reads') # 0
    BY <1>0, <1>1 DEF Select
  <2>2. reads' # <<>>
    BY <2>1, EmptySeq
  <2>3. selected' = u /\ u # NoUser
    BY <1>1, UserAssumption DEF Select, UserAssumption
  <2>4. GreeterTypeOK'
    BY <1>0, <1>1, <2>1, <2>3 DEF Select, GreeterTypeOK
  <2>5. PadNeverStuck'
    BY <1>0, <1>1 DEF Select, PadNeverStuck
  <2> QED
    BY <2>1, <2>2, <2>3, <2>4, <2>5
<1>2. CASE ProfileRead
  <2>1. reads # <<>> /\ reads' = Tail(reads) /\ shows' = Head(reads)
        /\ UNCHANGED <<selected, timer, attempt, error, session>>
        /\ view' = "credentials" /\ shown' = TRUE /\ entry' \in {entry, <<>>}
    BY <1>2 DEF ProfileRead
  <2>2. selected = reads[Len(reads)] /\ selected \in Users
    <3>1. Len(reads) \in Nat /\ Len(reads) # 0
      BY <1>0, <2>1, EmptySeq, LenProperties
    <3> QED
      BY <1>0, <2>1, <3>1, ElementOfSeq
  <2>3. selected # NoUser /\ Head(reads) \in Users /\ Head(reads) # NoUser
    BY <1>0, <2>1, <2>2, LastRead, UserAssumption DEF UserAssumption
  <2>4. GreeterTypeOK'
    BY <1>0, <2>1, <2>2, <2>3, LastRead, Emptied DEF GreeterTypeOK
  <2>5. PadNeverStuck'
    BY <1>0, <2>1, Emptied DEF PadNeverStuck
  <2> QED
    BY <1>0, <2>1, <2>2, <2>3, <2>4, <2>5, LastRead
<1>3. CASE Back
  BY <1>0, <1>3 DEF Back, GreeterTypeOK, PadNeverStuck
<1>4. CASE Faded
  <2>1. entry' \in {entry, <<>>} /\ shown' = FALSE /\ view = "cards"
        /\ UNCHANGED <<view, selected, shows, reads, timer, attempt, error, session>>
    BY <1>4 DEF Faded
  <2>2. GreeterTypeOK'
    BY <1>0, <2>1, Emptied DEF GreeterTypeOK
  <2>3. PadNeverStuck'
    BY <1>0, <2>1, Emptied DEF PadNeverStuck
  <2> QED
    BY <2>1, <2>2, <2>3
<1>5. CASE DigitPressed
  <2>1. PICK d \in Digits : entry' = Append(entry, d)
    BY <1>5 DEF DigitPressed
  <2>2. /\ Len(entry) < MaxEntry /\ timer' = (timer \/ Len(entry) + 1 = PadLength)
        /\ UNCHANGED <<view, shown, selected, shows, reads, attempt, error, session>>
        /\ shown
    BY <1>5 DEF DigitPressed, PadVisible
  <2>3. entry' \in Seq(Digits) /\ Len(entry') = Len(entry) + 1
    BY <1>0, <2>1
  <2>4. Len(entry') <= MaxEntry
    BY <1>0, <2>2, <2>3, PadAssumption DEF PadAssumption
  <2>5. timer' \in BOOLEAN
    BY <2>2
  <2>6. GreeterTypeOK'
    BY <1>0, <2>2, <2>3, <2>4, <2>5 DEF GreeterTypeOK
  <2>7. PadNeverStuck'
    <3>1. CASE Len(entry) >= PadLength
      BY <1>0, <2>2, <3>1 DEF PadNeverStuck
    <3>2. CASE ~(Len(entry) >= PadLength)
      <4>1. Len(entry') >= PadLength => Len(entry) + 1 = PadLength
        BY <1>0, <2>3, <3>2, PadAssumption DEF PadAssumption
      <4> QED
        BY <2>2, <4>1 DEF PadNeverStuck
    <3> QED
      BY <3>1, <3>2
  <2>8. selected # NoUser
    BY <1>0, <2>2 DEF GreeterTypeOK
  <2> QED
    BY <2>2, <2>6, <2>7, <2>8
<1>6. CASE Backspace
  <2>1. /\ entry # <<>> /\ entry' = SubSeq(entry, 1, Len(entry) - 1)
        /\ UNCHANGED <<view, shown, selected, shows, reads, timer, attempt, error,
                       session>>
    BY <1>6 DEF Backspace
  <2>2. Len(entry) # 0
    BY <1>0, <2>1, EmptySeq
  <2> DEFINE n == Len(entry) - 1
  <2>3. 1 \in Int /\ n \in Int /\ 0 <= n /\ n + 1 = Len(entry)
    BY <1>0, <2>2
  <2>4. entry' \in Seq(Digits) /\ Len(entry') = n
    <3>1. \A i \in 1 .. n : entry[i] \in Digits
      BY <1>0, <2>3
    <3>2. entry' = SubSeq(entry, 1, n)
      BY <2>1
    <3> HIDE DEF n
    <3>3. /\ SubSeq(entry, 1, n) \in Seq(Digits)
          /\ Len(SubSeq(entry, 1, n)) = IF 1 <= n THEN n - 1 + 1 ELSE 0
      BY <2>3, <3>1, SubSeqProperties
    <3>4. Len(SubSeq(entry, 1, n)) = n
      BY <2>3, <3>3
    <3> QED
      BY <3>2, <3>3, <3>4
  <2> HIDE DEF n
  <2>5. Len(entry') <= MaxEntry /\ (Len(entry') >= PadLength => Len(entry) >= PadLength)
    BY <1>0, <2>3, <2>4, PadAssumption DEF PadAssumption
  <2>6. GreeterTypeOK'
    BY <1>0, <2>1, <2>4, <2>5 DEF GreeterTypeOK
  <2>7. PadNeverStuck'
    BY <1>0, <2>1, <2>5 DEF PadNeverStuck
  <2> QED
    BY <2>1, <2>6, <2>7
<1>7. CASE SubmitPin
  BY <1>0, <1>7 DEF SubmitPin, AttemptLogin, GreeterTypeOK, PadNeverStuck
<1>8. CASE SubmitPassword
  BY <1>0, <1>8 DEF SubmitPassword, AttemptLogin, GreeterTypeOK, PadNeverStuck
<1>9. CASE LoginFails
  <2>1. /\ entry' = <<>> /\ attempt' = NoUser /\ error' \in {"wrongPin", "wrongPassword"}
        /\ UNCHANGED <<view, shown, selected, shows, reads, timer, session>>
    BY <1>9 DEF LoginFails
  <2>2. entry' \in Seq(Digits) /\ Len(entry') = 0
    BY <2>1, EmptySeq
  <2>3. Len(entry') <= MaxEntry /\ ~(Len(entry') >= PadLength)
    BY <2>2, PadAssumption DEF PadAssumption
  <2>4. GreeterTypeOK'
    BY <1>0, <2>1, <2>2, <2>3 DEF GreeterTypeOK
  <2>5. PadNeverStuck'
    BY <2>3 DEF PadNeverStuck
  <2> QED
    BY <2>1, <2>4, <2>5
<1>10. CASE LoginSucceeds
  BY <1>0, <1>10 DEF LoginSucceeds, GreeterTypeOK, PadNeverStuck
<1>11. CASE SwitchToGreeter
  <2>1. GreeterInit'
    BY <1>11 DEF SwitchToGreeter, GreeterInit
  <2> QED
    BY <2>1, InitInv, PTL
<1>12. CASE UNCHANGED greeterVars
  BY <1>0, <1>12 DEF greeterVars, GreeterTypeOK, PadNeverStuck
<1> QED
  BY <1>1, <1>2, <1>3, <1>4, <1>5, <1>6, <1>7, <1>8, <1>9, <1>10, <1>11, <1>12
  DEF GreeterNext, Person, Answers

\* The login screen's inductive invariant: a whole PIN has its timer or its attempt
\* under way, the last of the profiles being read is that of the card selected,
\* and no timer runs before a card is.
THEOREM Inductive == GreeterSpec => []PadInv
BY InitInv, NextInv, PTL DEF GreeterSpec

\* Every variable of the login screen keeps its type, and its credentials
\* are shown for somebody.
THEOREM TypeCorrect == GreeterSpec => []GreeterTypeOK
BY Inductive, PTL DEF PadInv

\* A pad with a whole PIN will be submitted or is about to be answered.
THEOREM NeverStuck == GreeterSpec => []PadNeverStuck
BY Inductive, PTL DEF PadInv

\* When no profile is being read, the credentials shown are those of the card
\* selected last.
THEOREM Matches == GreeterSpec => []CardMatches
<1>1. PadInv => CardMatches
  BY DEF PadInv, CardMatches
<1> QED
  BY <1>1, Inductive, PTL
============================================================================
