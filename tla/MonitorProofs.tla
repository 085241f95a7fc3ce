---------------------------- MODULE MonitorProofs ----------------------------
(***************************************************************************)
(* Proofs about Assessment and SafetyMonitor, for every window, every set  *)
(* of screens and vision results and every thresholds.                     *)
(***************************************************************************)
EXTENDS SafetyMonitor, Engines, TLAPS, SequenceTheorems, WellFoundedInduction,
        FiniteSetTheorems

-----------------------------------------------------------------------------
(* Choosing a least element *)

LEMMA LeastNat ==
  ASSUME NEW T, T \subseteq Nat, T # {}
  PROVE  \E x \in T : \A y \in T : x <= y
<1>1. PICK x \in T : \A y \in T : ~(<<y, x>> \in OpToRel(<, Nat))
  BY NatLessThanWellFounded, WFMin
<1>2. ASSUME NEW y \in T PROVE x <= y
  <2>1. ~(y < x)
    BY <1>1, <1>2 DEF OpToRel
  <2> QED
    BY <2>1, <1>2
<1> QED
  BY <1>2

\* SafetyPolicy.cpp:55: a surer result is never a milder one, whatever the
\* thresholds, ordered or not.
THEOREM SeverityMonotone ==
  ASSUME NEW t \in Thresholds, NEW c \in Confidence, NEW d \in Confidence, c <= d
  PROVE  Rank[SeverityOf(t, c)] <= Rank[SeverityOf(t, d)]
<1>1. /\ t.safe \in Int /\ t.medium \in Int /\ t.high \in Int /\ t.critical \in Int
      /\ c \in Int /\ d \in Int
  BY DEF Thresholds, Confidence
<1>2. /\ Rank["SAFE"] = 0 /\ Rank["LOW"] = 1 /\ Rank["MEDIUM"] = 2
      /\ Rank["HIGH"] = 3 /\ Rank["CRITICAL"] = 4
  BY DEF Rank, Severities
<1> QED
  BY <1>1, <1>2 DEF SeverityOf

-----------------------------------------------------------------------------
(* What the rules, the combination and the adjustment return *)


LEMMA FirstGreatestIs ==
  ASSUME NEW S, S \subseteq Nat, S # {}, NEW value, \A i \in S : value[i] \in Confidence
  PROVE  /\ FirstGreatest(S, value) \in S
         /\ \A j \in S : value[j] <= value[FirstGreatest(S, value)]
<1> DEFINE Lack == {100 - value[i] : i \in S}
<1>1. Lack \subseteq Nat /\ Lack # {}
  <2>1. \A i \in S : 100 - value[i] \in Nat
    BY DEF Confidence
  <2> QED
    BY <2>1
<1>2. PICK h \in Lack : \A y \in Lack : h <= y
  BY <1>1, LeastNat
<1> DEFINE Top == {i \in S : 100 - value[i] = h}
<1>3. Top \subseteq Nat /\ Top # {}
  BY <1>2
<1> HIDE DEF Lack
<1>4. PICK f \in Top : \A y \in Top : f <= y
  BY <1>3, LeastNat
<1>5. ASSUME NEW j \in S
      PROVE  value[j] < value[f] \/ (value[j] = value[f] /\ f <= j)
  <2>1. h <= 100 - value[j]
    BY <1>2 DEF Lack
  <2>2. 100 - value[f] = h /\ f \in S
    BY <1>4
  <2>3. value[j] \in Int /\ value[f] \in Int /\ h \in Int
    BY <2>2 DEF Confidence
  <2>4. value[j] <= value[f] /\ (value[j] = value[f] => j \in Top)
    BY <2>1, <2>2, <2>3
  <2> QED
    BY <1>4, <2>3, <2>4
<1>6. f \in S
  BY <1>4
<1> DEFINE g == FirstGreatest(S, value)
<1>7. g \in S /\ \A j \in S : value[j] < value[g] \/ (value[j] = value[g] /\ g <= j)
  BY <1>5, <1>6 DEF FirstGreatest
<1> HIDE DEF g
<1>8. ASSUME NEW j \in S PROVE value[j] <= value[g]
  <2>1. value[j] \in Int /\ value[g] \in Int
    BY <1>7 DEF Confidence
  <2> QED
    BY <1>7, <2>1
<1> QED
  BY <1>7, <1>8 DEF g

LEMMA ClassifyTyped ==
  ASSUME NEW texts
  PROVE  /\ Classify(texts) \in Result
         /\ Classify(texts).category \in {Unknown} \/ Classify(texts).confidence \in 1..85
         /\ Classify(texts).category # Grooming
         /\ Classify(texts).category = Personal => Classify(texts).confidence = 45
<1> DEFINE matched == {i \in DOMAIN Rules : Rules[i].category \in texts}
           best == FirstGreatest(matched, [i \in matched |-> Rules[i].weight])
<1>1. DOMAIN Rules = 1..10 /\ \A i \in 1..10 : Rules[i].weight \in 1..85
  BY DEF Rules, Rule
<1>2. \A i \in 1..10 : Rules[i].category \in Categories \ {Unknown, Grooming}
  BY DEF Rules, Rule, Categories, Unknown, Grooming, Personal, Secrecy, Violence
<1>3. \A i \in 1..10 : Rules[i].category = Personal => Rules[i].weight = 45
  BY DEF Rules, Rule, Personal, Secrecy, Violence
<1>4. CASE matched = {}
  BY <1>4 DEF Classify, Result, Confidence, Categories, Unknown, Grooming, Personal
<1>5. CASE matched # {}
  <2>1. best \in matched
    <3>1. matched \subseteq Nat
      BY <1>1
    <3>2. \A i \in matched : [k \in matched |-> Rules[k].weight][i] \in Confidence
      BY <1>1 DEF Confidence
    <3> HIDE DEF matched
    <3> QED
      BY <1>5, <3>1, <3>2, FirstGreatestIs
  <2>2. Classify(texts) = [category |-> Rules[best].category, confidence |-> Rules[best].weight]
    BY <1>5 DEF Classify
  <2> HIDE DEF best
  <2>3. best \in 1..10
    BY <1>1, <2>1
  <2> QED
    BY <1>1, <1>2, <1>3, <2>2, <2>3 DEF Result, Confidence
<1> QED
  BY <1>4, <1>5

VisionCategories == {"SEXUAL_CONTENT", Violence, "SELF_HARM", Unknown}

\* Vision replaces a text only by something surer, and never by a request.
LEMMA CombineTyped ==
  ASSUME NEW text \in Result, NEW visions \in Visions
  PROVE  /\ Combine(text, visions) \in Result
         /\ \/ Combine(text, visions) = text
            \/ /\ Combine(text, visions).category \in VisionCategories
               /\ Combine(text, visions).confidence > text.confidence
<1> DEFINE surer == Surer(text, visions)
           best == FirstGreatest(surer, [i \in surer |-> visions[i].confidence])
<1>1. visions \in Seq(Vision) /\ \A i \in DOMAIN visions : visions[i].category \in VisionCategories
  BY VisionsAssumption DEF VisionsAssumption, VisionCategories
<1>2. \A i \in surer : i \in Nat /\ visions[i] \in Vision /\ visions[i].confidence > text.confidence
                       /\ i \in DOMAIN visions
  BY <1>1 DEF Surer
<1>3. CASE surer = {}
  BY <1>3 DEF Combine
<1>4. CASE surer # {}
  <2>1. best \in surer
    <3>1. surer \subseteq Nat
      BY <1>2
    <3>2. \A i \in surer : [k \in surer |-> visions[k].confidence][i] \in Confidence
      BY <1>2 DEF Vision
    <3> HIDE DEF surer
    <3> QED
      BY <1>4, <3>1, <3>2, FirstGreatestIs
  <2>2. Combine(text, visions) = [category |-> visions[best].category,
                                  confidence |-> visions[best].confidence]
    BY <1>4 DEF Combine
  <2> HIDE DEF best, surer
  <2> QED
    BY <1>1, <1>2, <2>1, <2>2 DEF Result, Vision
<1> QED
  BY <1>3, <1>4

LEMMA AdjustedTyped ==
  ASSUME NEW w, NEW raw \in Result, NEW game \in BOOLEAN
  PROVE  Adjusted(w, raw, game) \in Result
<1>1. raw.confidence \in Confidence /\ raw.category \in Categories
  BY DEF Result
<1>2. /\ Capped(raw.confidence + 25) \in Confidence
      /\ AtLeast(raw.confidence, 85) \in Confidence
      /\ AtMost(raw.confidence, 20) \in Confidence
  BY <1>1 DEF Confidence, Capped, AtLeast, AtMost
<1>3. Grooming \in Categories
  BY DEF Categories
<1> QED
  BY <1>1, <1>2, <1>3 DEF Adjusted, Result

\* When the adjustment turns to grooming, and when it does not.
LEMMA AdjustedGrooming ==
  ASSUME NEW w, NEW raw \in Result, NEW game \in BOOLEAN,
         raw.category # Grooming, raw.category = Secrecy => raw.confidence > 0
  PROVE  Adjusted(w, raw, game).category = Grooming
           <=> raw.category = Secrecy /\ Holds(w, {Personal})
<1>1. /\ Unknown # Secrecy /\ Personal # Secrecy /\ Violence # Secrecy
      /\ Grooming # Secrecy
  BY DEF Unknown, Secrecy, Personal, Violence, Grooming
<1>2. CASE raw.category = Secrecy /\ Holds(w, {Personal})
  BY <1>1, <1>2 DEF Adjusted, Result, Confidence
<1>3. CASE ~(raw.category = Secrecy /\ Holds(w, {Personal}))
  BY <1>3 DEF Adjusted, Result
<1> QED
  BY <1>2, <1>3

-----------------------------------------------------------------------------
(* The window after it is trimmed *)

Sorted(seq) == \A i, j \in DOMAIN seq : i < j => seq[i].age >= seq[j].age

LEMMA DropOldIs ==
  ASSUME NEW w \in Seq(Entry)
  PROVE  \E n \in 0..Len(w) : /\ DropOld(w) = SubSeq(w, n + 1, Len(w))
                              /\ \A i \in 1..n : Old(w[i])
                              /\ n < Len(w) => ~Old(w[n + 1])
<1> DEFINE Stop == {k \in 0..Len(w) : k < Len(w) => ~Old(w[k + 1])}
           P(k) == /\ \A i \in 1..k : Old(w[i])
                   /\ k < Len(w) => ~Old(w[k + 1])
<1>1. Stop \subseteq Nat /\ Len(w) \in Stop
  OBVIOUS
<1>2. PICK k \in Stop : \A y \in Stop : k <= y
  BY <1>1, LeastNat
<1>3. ASSUME NEW i \in 1..k PROVE Old(w[i])
  <2>1. i - 1 \in 0..Len(w) /\ i - 1 < Len(w) /\ ~(k <= i - 1) /\ (i - 1) + 1 = i
    BY <1>2
  <2> QED
    BY <1>2, <2>1
<1>4. k \in 0..Len(w) /\ P(k)
  BY <1>2, <1>3
<1> DEFINE n == CHOOSE m \in 0..Len(w) : P(m)
<1>5. n \in 0..Len(w) /\ P(n)
  BY <1>4
<1>6. DropOld(w) = SubSeq(w, n + 1, Len(w))
  BY DEF DropOld
<1> HIDE DEF n
<1> QED
  BY <1>5, <1>6

\* A trimmed window is what remains of it behind the old and the surplus.
LEMMA TrimIs ==
  ASSUME NEW w \in Seq(Entry), Sorted(w)
  PROVE  \E m \in 0..Len(w) : /\ Trim(w) = SubSeq(w, m + 1, Len(w))
                              /\ Len(w) - m <= WindowSize
                              /\ \A i \in 1..m : Old(w[i]) \/ i <= Len(w) - WindowSize
                              /\ \A i \in (m + 1)..Len(w) : ~Old(w[i])
<1>1. PICK n \in 0..Len(w) : /\ DropOld(w) = SubSeq(w, n + 1, Len(w))
                             /\ \A i \in 1..n : Old(w[i])
                             /\ n < Len(w) => ~Old(w[n + 1])
  BY DropOldIs
<1>2. ASSUME NEW i \in (n + 1)..Len(w) PROVE ~Old(w[i])
  <2>1. n < Len(w) /\ ~Old(w[n + 1]) /\ n + 1 \in DOMAIN w /\ i \in DOMAIN w
    BY <1>1
  <2>4. w[i] \in Entry /\ w[n + 1] \in Entry
    BY <2>1
  <2>2. w[i].age \in Nat /\ w[n + 1].age \in Nat
    BY <2>4 DEF Entry
  <2>3. w[n + 1].age >= w[i].age
    <3>1. CASE i = n + 1
      BY <2>2, <3>1
    <3>2. CASE n + 1 < i
      BY <2>1, <3>2 DEF Sorted
    <3> QED
      BY <3>1, <3>2
  <2> QED
    BY <2>1, <2>2, <2>3, WindowAssumption DEF Old, WindowAssumption
<1> DEFINE v == SubSeq(w, n + 1, Len(w))
<1>3. v \in Seq(Entry) /\ Len(v) = Len(w) - n /\ \A i \in 1..Len(v) : v[i] = w[n + i]
  BY SubSeqProperties
<1>0. WindowSize \in Nat \ {0}
  BY WindowAssumption DEF WindowAssumption
<1>6. Trim(w) = KeepLast(v)
  BY <1>1 DEF Trim
<1>7. v = SubSeq(w, n + 1, Len(w))
  OBVIOUS
<1> HIDE DEF v
<1>4. CASE Len(v) <= WindowSize
  <2>1. Trim(w) = SubSeq(w, n + 1, Len(w))
    BY <1>0, <1>3, <1>4, <1>6, <1>7 DEF KeepLast
  <2>2. Len(w) - n <= WindowSize
    BY <1>3, <1>4
  <2> QED
    BY <1>1, <1>2, <2>1, <2>2
<1>5. CASE Len(v) > WindowSize
  <2> DEFINE m == Len(w) - WindowSize
             u == SubSeq(v, Len(v) - WindowSize + 1, Len(v))
             t == SubSeq(w, m + 1, Len(w))
  <2>1. m \in 0..Len(w) /\ m > n
    BY <1>3, <1>5, <1>0
  <2>2. Trim(w) = u
    BY <1>5, <1>6 DEF KeepLast
  <2>3. Len(u) = WindowSize /\ u \in Seq(Entry)
        /\ \A i \in 1..WindowSize : u[i] = v[Len(v) - WindowSize + i]
    BY <1>3, <1>5, <1>0, SubSeqProperties
  <2>4. Len(t) = WindowSize /\ t \in Seq(Entry) /\ \A i \in 1..WindowSize : t[i] = w[m + i]
    BY <1>0, <2>1, SubSeqProperties
  <2>5. ASSUME NEW i \in 1..WindowSize PROVE u[i] = t[i]
    <3>1. Len(v) - WindowSize + i \in 1..Len(v) /\ n + (Len(v) - WindowSize + i) = m + i
      BY <1>3, <1>5, <1>0, <2>1
    <3> QED
      BY <1>3, <2>3, <2>4, <3>1
  <2>6. u = t
    BY <1>0, <2>3, <2>4, <2>5, SeqEqual
  <2> HIDE DEF u, t, v
  <2>7. /\ Trim(w) = SubSeq(w, m + 1, Len(w))
        /\ Len(w) - m <= WindowSize
        /\ \A i \in 1..m : i <= Len(w) - WindowSize
        /\ \A i \in (m + 1)..Len(w) : ~Old(w[i])
    BY <1>2, <1>0, <2>1, <2>2, <2>6 DEF t
  <2> QED
    BY <2>1, <2>7
<1>8. Len(v) <= WindowSize \/ Len(v) > WindowSize
  BY <1>0, <1>3
<1> QED
  BY <1>4, <1>5, <1>8

-----------------------------------------------------------------------------
(* The window against the history: what the window has forgotten is too old, *)
(* and what it holds is what the history holds.                               *)

Matches(e, p) == e.category = p.raw /\ e.age = p.age

Linked ==
  /\ Len(window) <= Len(past)
  /\ Len(past) <= WindowSize + 1
  /\ \A i \in 1..Len(window) : Matches(window[i], past[Len(past) - Len(window) + i])
  /\ \A i \in 1..(Len(past) - Len(window)) : past[i].age > WindowMinutes
  /\ Sorted(past)

MonitorInv == TypeOK /\ Linked

LEMMA Sizes == WindowSize \in Nat \ {0} /\ WindowMinutes \in Nat /\ Gap \in Nat \ {0}
BY WindowAssumption, OtherAssumption DEF WindowAssumption, OtherAssumption

LEMMA SortedWindow ==
  ASSUME MonitorInv
  PROVE  Sorted(window)
<1> DEFINE d == Len(past) - Len(window)
<1>1. window \in Seq(Entry) /\ past \in Seq(PastEntry) /\ d \in Nat
  BY DEF MonitorInv, TypeOK, Linked
<1>2. \A i \in 1..Len(window) : window[i].age = past[d + i].age
  BY DEF MonitorInv, Linked, Matches
<1>3. ASSUME NEW i \in DOMAIN window, NEW j \in DOMAIN window, i < j
      PROVE  window[i].age >= window[j].age
  <2>1. d + i \in DOMAIN past /\ d + j \in DOMAIN past /\ d + i < d + j
    BY <1>1, <1>3
  <2>3. Sorted(past)
    BY DEF MonitorInv, Linked
  <2> HIDE DEF d
  <2>2. past[d + i].age >= past[d + j].age
    BY <2>1, <2>3 DEF Sorted
  <2> QED
    BY <1>1, <1>2, <1>3, <2>2
<1> QED
  BY <1>3 DEF Sorted

LEMMA RecallIs ==
  ASSUME NEW h \in Seq(PastEntry)
  PROVE  \E q \in 0..Len(h) : /\ Recall(h) = SubSeq(h, q + 1, Len(h))
                              /\ Recall(h) \in Seq(PastEntry)
                              /\ Len(Recall(h)) = Len(h) - q
                              /\ Len(h) - q <= WindowSize
                              /\ q = 0 \/ q = Len(h) - WindowSize
                              /\ \A i \in 1..(Len(h) - q) : Recall(h)[i] = h[q + i]
<1>1. CASE Len(h) > WindowSize
  <2> DEFINE q == Len(h) - WindowSize
  <2>1. q \in 0..Len(h)
    BY <1>1, Sizes
  <2>2. Recall(h) = SubSeq(h, q + 1, Len(h))
    BY <1>1 DEF Recall
  <2>3. SubSeq(h, q + 1, Len(h)) \in Seq(PastEntry)
        /\ Len(SubSeq(h, q + 1, Len(h))) = Len(h) - q
        /\ \A i \in 1..(Len(h) - q) : SubSeq(h, q + 1, Len(h))[i] = h[q + i]
    BY <2>1, SubSeqProperties
  <2>4. q = 0 \/ q = Len(h) - WindowSize
    OBVIOUS
  <2>5. Len(h) - q <= WindowSize
    BY <1>1, Sizes
  <2> HIDE DEF q
  <2>6. /\ Recall(h) \in Seq(PastEntry)
        /\ Len(Recall(h)) = Len(h) - q
        /\ \A i \in 1..(Len(h) - q) : Recall(h)[i] = h[q + i]
    BY <2>2, <2>3
  <2> QED
    BY <2>1, <2>2, <2>4, <2>5, <2>6
<1>2. CASE Len(h) <= WindowSize
  <2>1. Recall(h) = h /\ SubSeq(h, 0 + 1, Len(h)) = h
    BY <1>2, Sizes, SubSeqFull DEF Recall
  <2>2. 0 \in 0..Len(h) /\ Len(h) - 0 <= WindowSize /\ Len(h) - 0 = Len(h)
    BY <1>2
  <2>3. \A i \in 1..(Len(h) - 0) : Recall(h)[i] = h[0 + i]
    BY <2>1
  <2> QED
    BY <2>1, <2>2, <2>3
<1> QED
  BY <1>1, <1>2, Sizes

\* What trimming keeps of the window and recalling keeps of the history still
\* match, and they part exactly at the age limit.
KeptTogether(T, R) ==
  /\ T \in Seq(Entry) /\ R \in Seq(PastEntry)
  /\ Len(T) <= Len(R) /\ Len(R) <= WindowSize
  /\ \A i \in 1..Len(T) : Matches(T[i], R[Len(R) - Len(T) + i])
  /\ \A i \in 1..(Len(R) - Len(T)) : R[i].age > WindowMinutes
  /\ \A i \in (Len(R) - Len(T) + 1)..Len(R) : R[i].age <= WindowMinutes
  /\ Sorted(R)

LEMMA Kept ==
  ASSUME MonitorInv
  PROVE  KeptTogether(Trim(window), Recall(past))
<1> DEFINE T == Trim(window)
           R == Recall(past)
           L == Len(window)
           P == Len(past)
           d == Len(R) - Len(T)
<1>1. /\ window \in Seq(Entry) /\ past \in Seq(PastEntry) /\ L \in Nat /\ P \in Nat /\ L <= P
      /\ \A i \in 1..L : Matches(window[i], past[P - L + i])
      /\ \A i \in 1..(P - L) : past[i].age > WindowMinutes
      /\ Sorted(past)
  BY DEF MonitorInv, TypeOK, Linked
<1>2. PICK m \in 0..L : /\ T = SubSeq(window, m + 1, L)
                        /\ L - m <= WindowSize
                        /\ \A i \in 1..m : Old(window[i]) \/ i <= L - WindowSize
                        /\ \A i \in (m + 1)..L : ~Old(window[i])
  BY <1>1, SortedWindow, TrimIs
<1>3. PICK q \in 0..P : /\ R \in Seq(PastEntry)
                        /\ Len(R) = P - q
                        /\ P - q <= WindowSize
                        /\ q = 0 \/ q = P - WindowSize
                        /\ \A i \in 1..(P - q) : R[i] = past[q + i]
  BY <1>1, RecallIs
<1>4. T \in Seq(Entry) /\ Len(T) = L - m /\ \A i \in 1..(L - m) : T[i] = window[m + i]
  BY <1>1, <1>2, SubSeqProperties
<1> HIDE DEF T, R, L, P
<1>5. d = (P - q) - (L - m) /\ d \in Nat /\ Len(R) <= WindowSize
  <2>1. d = (P - q) - (L - m)
    BY <1>3, <1>4
  <2>2. CASE q = 0
    BY <1>1, <1>2, <1>3, <2>1, <2>2
  <2>3. CASE q = P - WindowSize
    BY <1>1, <1>2, <1>3, <2>1, <2>3, Sizes
  <2> QED
    BY <1>3, <2>1, <2>2, <2>3
<1> HIDE DEF d
<1>6. ASSUME NEW i \in 1..(L - m) PROVE Matches(T[i], R[d + i])
  <2>1. d + i \in 1..(P - q) /\ m + i \in 1..L /\ P - L + (m + i) = q + (d + i)
    BY <1>1, <1>2, <1>3, <1>5
  <2>2. T[i] = window[m + i] /\ R[d + i] = past[q + (d + i)]
    BY <1>3, <1>4, <2>1
  <2>3. Matches(window[m + i], past[P - L + (m + i)])
    BY <1>1, <2>1
  <2> QED
    BY <2>1, <2>2, <2>3
<1>7. ASSUME NEW i \in 1..d PROVE R[i].age > WindowMinutes
  <2>1. i \in 1..(P - q) /\ R[i] = past[q + i]
    BY <1>1, <1>2, <1>3, <1>5
  <2>2. CASE q + i <= P - L
    <3>1. q + i \in 1..(P - L)
      BY <1>1, <1>3, <2>2
    <3> QED
      BY <1>1, <2>1, <3>1
  <2>3. CASE q + i > P - L
    <3> DEFINE k == q + i - (P - L)
    <3>1. k \in 1..m /\ k \in 1..L /\ P - L + k = q + i
      BY <1>1, <1>2, <1>3, <1>5, <2>3
    <3>2. ~(k <= L - WindowSize)
      BY <1>1, <1>2, <1>3, <1>5, Sizes
    <3>3. Old(window[k])
      BY <1>2, <3>1, <3>2
    <3>4. Matches(window[k], past[P - L + k])
      BY <1>1, <3>1
    <3> QED
      BY <2>1, <3>1, <3>3, <3>4 DEF Matches, Old
  <2> QED
    BY <1>1, <1>3, <2>2, <2>3
<1>8. ASSUME NEW i \in (d + 1)..Len(R) PROVE R[i].age <= WindowMinutes
  <2> DEFINE k == i - d
  <2>1. k \in 1..(L - m) /\ d + k = i /\ m + k \in (m + 1)..L /\ m + k \in 1..L
    BY <1>1, <1>2, <1>3, <1>5
  <2>2. Matches(T[k], R[i]) /\ T[k] = window[m + k]
    BY <1>4, <1>6, <2>1
  <2>3. ~Old(window[m + k]) /\ window[m + k] \in Entry
    BY <1>1, <1>2, <2>1 DEF L
  <2>4. window[m + k].age \in Nat
    BY <2>3 DEF Entry
  <2> QED
    BY <2>2, <2>3, <2>4, Sizes DEF Matches, Old
<1>9. Sorted(R)
  <2> SUFFICES ASSUME NEW i \in DOMAIN R, NEW j \in DOMAIN R, i < j
               PROVE  R[i].age >= R[j].age
    BY DEF Sorted
  <2>1. i \in 1..(P - q) /\ j \in 1..(P - q) /\ q + i \in 1..P /\ q + j \in 1..P
        /\ q + i < q + j
    BY <1>1, <1>3
  <2>2. DOMAIN past = 1..P
    BY <1>1 DEF P
  <2> QED
    BY <1>1, <1>3, <2>1, <2>2 DEF Sorted
<1>10. Len(T) <= Len(R)
  BY <1>1, <1>2, <1>3, <1>4, <1>5
<1> QED
  BY <1>3, <1>4, <1>5, <1>6, <1>7, <1>8, <1>9, <1>10 DEF KeptTogether, T, R, d

-----------------------------------------------------------------------------
(* The steps *)

LEMMA AssessLinks ==
  ASSUME NEW T, NEW R, KeptTogether(T, R), NEW e \in Entry, NEW p \in PastEntry,
         Matches(e, p), e.age = 0,
         window' = Append(T, e), past' = Append(R, p)
  PROVE  /\ window' \in Seq(Entry) /\ past' \in Seq(PastEntry) /\ Linked'
         /\ Len(past') = Len(R) + 1
         /\ \A i \in 1..Len(R) : past'[i] = R[i]
<1> DEFINE n == Len(T)
           k == Len(R)
<1>0. T \in Seq(Entry) /\ R \in Seq(PastEntry)
  BY DEF KeptTogether
<1>8. n \in Nat /\ k \in Nat
  BY <1>0
<1>1. /\ n <= k /\ k <= WindowSize /\ Sorted(R)
      /\ \A i \in 1..n : Matches(T[i], R[k - n + i])
      /\ \A i \in 1..(k - n) : R[i].age > WindowMinutes
  BY DEF KeptTogether
<1>2. /\ window' \in Seq(Entry) /\ Len(window') = n + 1
      /\ window'[n + 1] = e /\ \A i \in 1..n : window'[i] = T[i]
  BY <1>0
<1>3. /\ past' \in Seq(PastEntry) /\ Len(past') = k + 1
      /\ past'[k + 1] = p /\ \A i \in 1..k : past'[i] = R[i]
  BY <1>0
<1> HIDE DEF n, k
<1>4. ASSUME NEW i \in 1..(n + 1) PROVE Matches(window'[i], past'[(k + 1) - (n + 1) + i])
  <2>1. CASE i = n + 1
    <3>1. (k + 1) - (n + 1) + i = k + 1
      BY <1>8, <2>1
    <3> QED
      BY <1>2, <1>3, <2>1, <3>1
  <2>2. CASE i \in 1..n
    <3>1. (k + 1) - (n + 1) + i = k - n + i /\ k - n + i \in 1..k
      BY <1>8, <1>1, <2>2
    <3>2. Matches(T[i], R[k - n + i])
      BY <1>1, <2>2
    <3>3. window'[i] = T[i] /\ past'[k - n + i] = R[k - n + i]
      BY <1>2, <1>3, <2>2, <3>1
    <3> QED
      BY <3>1, <3>2, <3>3
  <2>3. i = n + 1 \/ i \in 1..n
    BY <1>8
  <2> QED
    BY <2>1, <2>2, <2>3
<1>5. \A i \in 1..((k + 1) - (n + 1)) : past'[i].age > WindowMinutes
  <2> SUFFICES ASSUME NEW i \in 1..((k + 1) - (n + 1)) PROVE past'[i].age > WindowMinutes
    OBVIOUS
  <2>1. i \in 1..(k - n) /\ i \in 1..k
    BY <1>8, <1>1
  <2> QED
    BY <1>1, <1>3, <2>1
<1>6. Sorted(past')
  <2> SUFFICES ASSUME NEW i \in 1..(k + 1), NEW j \in 1..(k + 1), i < j
               PROVE  past'[i].age >= past'[j].age
    BY <1>3 DEF Sorted
  <2>1. i \in 1..k /\ i \in DOMAIN R /\ R[i] \in PastEntry
    BY <1>0, <1>8 DEF k
  <2>2. CASE j = k + 1
    <3>1. past'[j].age = 0 /\ past'[i] = R[i] /\ R[i].age \in Nat
      BY <1>3, <2>1, <2>2 DEF Matches, PastEntry
    <3> QED
      BY <3>1
  <2>3. CASE j \in 1..k
    <3>1. j \in DOMAIN R
      BY <1>0, <2>3 DEF k
    <3> QED
      BY <1>1, <1>3, <2>1, <2>3, <3>1 DEF Sorted
  <2>4. j = k + 1 \/ j \in 1..k
    BY <1>8
  <2> QED
    BY <2>2, <2>3, <2>4
<1>9. n + 1 <= k + 1 /\ k + 1 <= WindowSize + 1
  BY <1>1, <1>8, Sizes
<1>10. Len(window') = n + 1 /\ Len(past') = k + 1
  BY <1>2, <1>3
<1>7. Linked'
  BY <1>4, <1>5, <1>6, <1>9, <1>10 DEF Linked
<1> QED
  BY <1>2, <1>3, <1>7 DEF k

\* Just after a sample, the recent ones of the history and the trimmed window
\* show the same categories.
LEMMA RecentIsWindow ==
  ASSUME NEW T, NEW R, KeptTogether(T, R), Len(past') = Len(R) + 1,
         \A i \in 1..Len(R) : past'[i] = R[i], NEW cs
  PROVE  (\E e \in Recent' : e.raw \in cs) <=> Holds(T, cs)
<1> DEFINE n == Len(T)
           k == Len(R)
<1>1. /\ T \in Seq(Entry) /\ R \in Seq(PastEntry) /\ n \in Nat /\ k \in Nat
      /\ n <= k /\ k <= WindowSize
      /\ \A i \in 1..n : Matches(T[i], R[k - n + i])
      /\ \A i \in 1..(k - n) : R[i].age > WindowMinutes
      /\ \A i \in (k - n + 1)..k : R[i].age <= WindowMinutes
  BY DEF KeptTogether
<1>2. DOMAIN T = 1..n
  BY <1>1
<1>3. \A i \in 1..k : past'[i] = R[i] /\ Len(past') - 1 = k
  BY <1>1
<1>4. Recent' = {past'[i] : i \in {j \in 1..k :
                     j >= (k + 1) - WindowSize /\ past'[j].age <= WindowMinutes}}
  BY <1>1 DEF Recent
<1> HIDE DEF n, k
<1>5. ASSUME NEW e \in Recent', e.raw \in cs PROVE Holds(T, cs)
  <2>1. PICK j \in 1..k : e = past'[j] /\ past'[j].age <= WindowMinutes
    BY <1>4
  <2>2. past'[j] = R[j] /\ R[j] \in PastEntry
    BY <1>1, <1>3, <2>1 DEF k
  <2>3. ~(j \in 1..(k - n))
    BY <1>1, <2>1, <2>2, Sizes DEF PastEntry
  <2>4. j - (k - n) \in 1..n /\ k - n + (j - (k - n)) = j
    BY <1>1, <2>3
  <2>5. Matches(T[j - (k - n)], R[j])
    BY <1>1, <2>4
  <2> QED
    BY <1>2, <1>5, <2>1, <2>2, <2>4, <2>5 DEF Holds, Matches
<1>6. ASSUME NEW i \in 1..n, T[i].category \in cs PROVE \E e \in Recent' : e.raw \in cs
  <2> DEFINE j == k - n + i
  <2>1. j \in 1..k /\ j \in (k - n + 1)..k /\ j >= (k + 1) - WindowSize
    BY <1>1, Sizes
  <2>2. R[j].age <= WindowMinutes /\ R[j].raw \in cs /\ past'[j] = R[j]
    BY <1>1, <1>3, <1>6, <2>1 DEF Matches
  <2> QED
    BY <1>4, <2>1, <2>2
<1> QED
  BY <1>2, <1>5, <1>6 DEF Holds

LEMMA AgedLinks ==
  ASSUME MonitorInv, window' = Aged(window), past' = Aged(past)
  PROVE  window' \in Seq(Entry) /\ past' \in Seq(PastEntry) /\ Linked'
<1>1. window \in Seq(Entry) /\ past \in Seq(PastEntry) /\ Linked
  BY DEF MonitorInv, TypeOK
<1>2. \A a \in Nat : /\ AtMost(a + 1, WindowMinutes + 1) \in Nat
                     /\ a > WindowMinutes => AtMost(a + 1, WindowMinutes + 1) > WindowMinutes
  BY Sizes DEF AtMost
<1>3. \A a, b \in Nat : a >= b =>
        AtMost(a + 1, WindowMinutes + 1) >= AtMost(b + 1, WindowMinutes + 1)
  BY Sizes DEF AtMost
<1>4. ASSUME NEW e \in Entry
      PROVE  Older(e) \in Entry /\ Older(e).category = e.category
             /\ Older(e).age = AtMost(e.age + 1, WindowMinutes + 1)
  BY <1>2 DEF Older, Entry
<1>5. ASSUME NEW e \in PastEntry
      PROVE  Older(e) \in PastEntry /\ Older(e).raw = e.raw
             /\ Older(e).age = AtMost(e.age + 1, WindowMinutes + 1)
  BY <1>2 DEF Older, PastEntry
<1>6. /\ window' \in Seq(Entry) /\ Len(window') = Len(window)
      /\ \A i \in 1..Len(window) : window'[i] = Older(window[i]) /\ window[i] \in Entry
  <2>1. DOMAIN window = 1..Len(window) /\ \A i \in 1..Len(window) : window[i] \in Entry
    BY <1>1
  <2>2. window' = [i \in 1..Len(window) |-> Older(window[i])]
    BY <2>1 DEF Aged
  <2> QED
    BY <1>1, <1>4, <2>1, <2>2
<1>7. /\ past' \in Seq(PastEntry) /\ Len(past') = Len(past)
      /\ \A i \in 1..Len(past) : past'[i] = Older(past[i]) /\ past[i] \in PastEntry
  <2>1. DOMAIN past = 1..Len(past) /\ \A i \in 1..Len(past) : past[i] \in PastEntry
    BY <1>1
  <2>2. past' = [i \in 1..Len(past) |-> Older(past[i])]
    BY <2>1 DEF Aged
  <2> QED
    BY <1>1, <1>5, <2>1, <2>2
<1>8. \A i \in 1..Len(past) : past[i].age \in Nat
  BY <1>7 DEF PastEntry
<1>9. ASSUME NEW i \in 1..Len(window)
      PROVE  Matches(window'[i], past'[Len(past) - Len(window) + i])
  <2>1. Len(past) - Len(window) + i \in 1..Len(past)
    BY <1>1 DEF Linked
  <2>2. Matches(window[i], past[Len(past) - Len(window) + i])
    BY <1>1 DEF Linked
  <2> DEFINE w == window[i]
             h == past[Len(past) - Len(window) + i]
  <2>3. window'[i] = Older(w) /\ w \in Entry
    BY <1>6
  <2>4. past'[Len(past) - Len(window) + i] = Older(h) /\ h \in PastEntry
    BY <1>7, <2>1
  <2> HIDE DEF w, h
  <2>5. Matches(Older(w), Older(h))
    BY <1>4, <1>5, <2>2, <2>3, <2>4 DEF Matches, w, h
  <2>6. QED
    BY <2>3, <2>4, <2>5
<1>10. ASSUME NEW i \in 1..(Len(past) - Len(window)) PROVE past'[i].age > WindowMinutes
  <2>1. i \in 1..Len(past) /\ past[i].age > WindowMinutes
    <3>1. Len(window) \in Nat /\ Len(past) \in Nat
      BY <1>1
    <3>2. past[i].age > WindowMinutes
      BY <1>1, <1>10 DEF Linked
    <3> QED
      BY <3>1, <3>2
  <2>2. past'[i].age = AtMost(past[i].age + 1, WindowMinutes + 1)
    <3>1. past[i] \in PastEntry /\ past'[i] = Older(past[i])
      BY <1>7, <2>1
    <3> QED
      BY <1>5, <3>1
  <2>3. past[i].age \in Nat
    BY <1>8, <2>1
  <2> QED
    BY <1>2, <2>1, <2>2, <2>3
<1>11. Sorted(past')
  <2> SUFFICES ASSUME NEW i \in 1..Len(past), NEW j \in 1..Len(past), i < j
               PROVE  past'[i].age >= past'[j].age
    BY <1>7 DEF Sorted
  <2>1. past[i].age >= past[j].age
    BY <1>1 DEF Linked, Sorted
  <2>2. /\ past'[i].age = AtMost(past[i].age + 1, WindowMinutes + 1)
        /\ past'[j].age = AtMost(past[j].age + 1, WindowMinutes + 1)
    <3>1. /\ past[i] \in PastEntry /\ past'[i] = Older(past[i])
          /\ past[j] \in PastEntry /\ past'[j] = Older(past[j])
      BY <1>7
    <3> QED
      BY <1>5, <3>1
  <2>3. past[i].age \in Nat /\ past[j].age \in Nat
    BY <1>8
  <2> QED
    BY <1>3, <2>1, <2>2, <2>3
<1> QED
  BY <1>1, <1>6, <1>7, <1>9, <1>10, <1>11 DEF Linked

-----------------------------------------------------------------------------
(* What a sample says, given the history it was assessed with *)

\* Every statement about the sample in flight.
SampleInv == GroomingExact /\ RepeatExact /\ DroppedExactly

FullInv == MonitorInv /\ SampleInv

LEMMA SeverityTyped ==
  ASSUME NEW t, NEW c
  PROVE  SeverityOf(t, c) \in Severities
BY DEF SeverityOf, Severities

\* A surer result is suspicious when a less sure one is.
LEMMA SuspicionRises ==
  ASSUME NEW t \in Thresholds, NEW c \in Confidence, NEW d \in Confidence, c <= d,
         SeverityOf(t, c) # "SAFE"
  PROVE  SeverityOf(t, d) # "SAFE"
<1>1. /\ t.safe \in Int /\ t.medium \in Int /\ t.high \in Int /\ t.critical \in Int
      /\ c \in Int /\ d \in Int
  BY DEF Thresholds, Confidence
<1> QED
  BY <1>1 DEF SeverityOf

LEMMA RawIs ==
  ASSUME NEW texts, NEW vision \in Visions
  PROVE  LET text == Classify(texts)
             raw == Raw(text, vision)
         IN /\ text \in Result /\ raw \in Result
            /\ raw.category # Grooming
            /\ raw.category # Unknown => raw.confidence > 0
            /\ raw.category = Personal => raw.confidence = 45
            /\ raw.confidence >= text.confidence
<1> DEFINE text == Classify(texts)
           raw == Raw(text, vision)
<1>1. /\ text \in Result
      /\ text.category = Unknown \/ text.confidence \in 1..85
      /\ text.category # Grooming
      /\ text.category = Personal => text.confidence = 45
  BY ClassifyTyped
<1> HIDE DEF text
<1>2. raw = text \/ raw = Combine(text, vision)
  BY DEF Raw
<1>3. /\ raw \in Result
      /\ raw = text \/ (raw.category \in VisionCategories /\ raw.confidence > text.confidence)
  BY <1>1, <1>2, CombineTyped
<1>4. Personal \notin VisionCategories /\ Grooming \notin VisionCategories
  BY DEF VisionCategories, Personal, Grooming, Violence, Unknown
<1>5. text.confidence \in Confidence /\ raw.confidence \in Confidence
  BY <1>1, <1>3 DEF Result
<1> HIDE DEF raw
<1>6. /\ raw.category # Grooming
      /\ raw.category # Unknown => raw.confidence > 0
      /\ raw.category = Personal => raw.confidence = 45
      /\ raw.confidence >= text.confidence
  <2>1. CASE raw = text
    BY <1>1, <1>5, <2>1 DEF Confidence
  <2>2. CASE raw.category \in VisionCategories /\ raw.confidence > text.confidence
    BY <1>4, <1>5, <2>2 DEF Confidence
  <2> QED
    BY <1>3, <2>1, <2>2
<1> QED
  BY <1>1, <1>3, <1>6 DEF raw, text

\* The adjustment, read off its four cases.
LEMMA AdjustedIs ==
  ASSUME NEW w, NEW raw \in Result, NEW game \in BOOLEAN,
         raw.category # Grooming, raw.category # Unknown => raw.confidence > 0,
         raw.category = Personal => raw.confidence = 45
  PROVE  LET a == Adjusted(w, raw, game)
         IN /\ a.category = Grooming <=> (raw.category = Secrecy /\ Holds(w, {Personal}))
            /\ raw.category = Personal =>
                 a.confidence = (IF Holds(w, {Personal}) THEN 70 ELSE 45)
            /\ IF /\ game /\ raw.category = Violence
                  /\ ~Holds(w, Categories \ {Violence, Unknown})
               THEN a.confidence = AtMost(raw.confidence, 20)
               ELSE a.confidence >= raw.confidence
<1> DEFINE a == Adjusted(w, raw, game)
<1>0. raw.confidence \in Confidence
  BY DEF Result
<1>1. a.category = Grooming <=> (raw.category = Secrecy /\ Holds(w, {Personal}))
  BY AdjustedGrooming DEF Unknown, Secrecy
<1>2. ASSUME raw.category = Personal
      PROVE  a.confidence = (IF Holds(w, {Personal}) THEN 70 ELSE 45)
  <2>1. Personal # Unknown /\ Personal # Secrecy /\ Personal # Violence
        /\ raw.confidence = 45 /\ Capped(45 + 25) = 70
    BY <1>2 DEF Personal, Unknown, Secrecy, Violence, Capped
  <2>2. CASE Holds(w, {Personal})
    <3>1. a = [raw EXCEPT !.confidence = Capped(raw.confidence + 25)]
      BY <1>2, <2>1, <2>2 DEF Adjusted
    <3> QED
      BY <2>1, <2>2, <3>1 DEF Result
  <2>3. CASE ~Holds(w, {Personal})
    <3>1. a = raw
      BY <1>2, <2>1, <2>3 DEF Adjusted
    <3> QED
      BY <2>1, <2>3, <3>1
  <2> QED
    BY <2>2, <2>3
<1>3. CASE /\ game /\ raw.category = Violence
           /\ ~Holds(w, Categories \ {Violence, Unknown})
  <2>1. /\ Violence # Personal /\ Violence # Secrecy /\ Violence # Unknown
        /\ ~(raw.confidence <= 0)
    BY <1>0, <1>3 DEF Violence, Personal, Secrecy, Unknown, Confidence
  <2>2. a = [raw EXCEPT !.confidence = AtMost(raw.confidence, 20)]
    BY <1>3, <2>1 DEF Adjusted
  <2>3. a.confidence = AtMost(raw.confidence, 20)
    BY <2>2 DEF Result
  <2> QED
    BY <1>1, <1>2, <1>3, <2>3
<1>4. CASE ~(/\ game /\ raw.category = Violence
             /\ ~Holds(w, Categories \ {Violence, Unknown}))
  <2> SUFFICES a.confidence >= raw.confidence
    BY <1>1, <1>2, <1>4
  <2>1. raw.category = Personal => a.confidence >= raw.confidence
    BY <1>0, <1>2 DEF Confidence
  <2>2. CASE raw.category = Secrecy /\ Holds(w, {Personal})
                /\ ~(raw.category = Unknown \/ raw.confidence <= 0)
    <3>1. a = [category |-> Grooming, confidence |-> AtLeast(raw.confidence, 85)]
      BY <2>2 DEF Adjusted, Personal, Secrecy, Violence
    <3> QED
      BY <1>0, <3>1 DEF AtLeast, Confidence
  <2>3. CASE a = raw
    BY <1>0, <2>3 DEF Confidence
  <2> QED
    BY <1>4, <2>1, <2>2, <2>3 DEF Adjusted
<1> QED
  BY <1>3, <1>4

LEMMA InitInv == Init => FullInv
<1> SUFFICES ASSUME Init PROVE FullInv
  OBVIOUS
<1>1. window = <<>> /\ past = <<>> /\ sample = NoSample
  BY DEF Init
<1>2. <<>> \in Seq(Entry) /\ <<>> \in Seq(PastEntry)
  BY EmptySeq
<1>3. Defaults \in Thresholds
  BY DEF Defaults, Thresholds, Confidence
<1>4. TypeOK
  BY <1>1, <1>2, <1>3, Sizes DEF Init, TypeOK
<1>5. Len(window) = 0 /\ Len(past) = 0 /\ DOMAIN past = {}
  BY <1>1
<1>6. Linked
  BY <1>5, Sizes DEF Linked, Sorted
<1> QED
  BY <1>1, <1>4, <1>6
  DEF FullInv, MonitorInv, SampleInv, GroomingExact, RepeatExact, DroppedExactly, Assessed

\* With no sample in flight the statements about it hold.
LEMMA Idle == sample' = NoSample => SampleInv'
BY DEF SampleInv, GroomingExact, RepeatExact, DroppedExactly, Assessed

\* A step that leaves the window, the history, the agent's thresholds and the
\* sample alone keeps everything said about them.
LEMMA Untouched ==
  ASSUME FullInv, UNCHANGED <<window, agentPolicy, sample, past>>
  PROVE  Linked' /\ SampleInv'
BY DEF FullInv, MonitorInv, Linked, Sorted, SampleInv, GroomingExact, RepeatExact,
       DroppedExactly, Assessed, Suspicious, Recent

LEMMA LoadTyped ==
  ASSUME TypeOK
  PROVE  Load(file) \in Thresholds /\ AgentLoad(file) \in Thresholds
<1>1. Defaults \in Thresholds
  BY DEF Defaults, Thresholds, Confidence
<1> QED
  BY <1>1 DEF TypeOK, Load, AgentLoad

LEMMA PassInv == FullInv /\ Pass => FullInv'
<1> SUFFICES ASSUME FullInv, Pass PROVE FullInv'
  OBVIOUS
<1>1. window' \in Seq(Entry) /\ past' \in Seq(PastEntry) /\ Linked'
  BY AgedLinks DEF FullInv, Pass
<1>2. wait' \in 0..Gap
  BY Sizes DEF FullInv, MonitorInv, TypeOK, Pass, AtLeast
<1>3. sample' = NoSample
  BY DEF Pass
<1>4. TypeOK'
  BY <1>1, <1>2, <1>3 DEF FullInv, MonitorInv, TypeOK, Pass
<1> QED
  BY <1>1, <1>3, <1>4, Idle DEF FullInv, MonitorInv

LEMMA EndOfCallInv == FullInv /\ (Heartbeat \/ ReportEvent) => FullInv'
<1> SUFFICES ASSUME FullInv, Heartbeat \/ ReportEvent PROVE FullInv'
  OBVIOUS
<1>1. /\ sample' = NoSample /\ sample # NoSample
      /\ UNCHANGED <<window, agentPolicy, policy, file, wait, past>>
      /\ newest' \in {Event(sample), newest}
  BY DEF Heartbeat, ReportEvent
<1>2. sample \in SampleType
  BY <1>1 DEF FullInv, MonitorInv, TypeOK
<1>3. Event(sample) \in [category : Categories, confidence : Confidence,
                         severity : Severities]
  BY <1>2 DEF Event, SampleType
<1>4. TypeOK'
  BY <1>1, <1>3 DEF FullInv, MonitorInv, TypeOK
<1>5. Linked'
  BY <1>1 DEF FullInv, MonitorInv, Linked, Sorted
<1> QED
  BY <1>1, <1>4, <1>5, Idle DEF FullInv, MonitorInv

LEMMA SetThresholdInv ==
  ASSUME FullInv, NEW setting \in Settings, SetThreshold(setting)
  PROVE  FullInv'
<1>1. /\ policy' = [policy EXCEPT ![setting[1]] = setting[2]]
      /\ file' \in {policy', file, Empty}
      /\ UNCHANGED <<window, agentPolicy, newest, wait, sample, past>>
  BY DEF SetThreshold
<1>2. setting[1] \in {"safe", "medium", "high", "critical"} /\ setting[2] \in Int
  BY SettingsAssumption DEF SettingsAssumption
<1>3. policy \in Thresholds
  BY DEF FullInv, MonitorInv, TypeOK
<1>4. policy' \in Thresholds
  BY <1>1, <1>2, <1>3 DEF Thresholds
<1>5. TypeOK'
  BY <1>1, <1>4 DEF FullInv, MonitorInv, TypeOK
<1> QED
  BY <1>1, <1>5, Untouched DEF FullInv, MonitorInv

LEMMA RestartInv == FullInv /\ (AgentRestart \/ ServiceRestart) => FullInv'
<1> SUFFICES ASSUME FullInv, AgentRestart \/ ServiceRestart PROVE FullInv'
  OBVIOUS
<1>1. Load(file) \in Thresholds /\ AgentLoad(file) \in Thresholds
  BY LoadTyped DEF FullInv, MonitorInv
<1>2. CASE AgentRestart
  <2>1. window' = <<>> /\ past' = <<>> /\ sample' = NoSample
    BY <1>2 DEF AgentRestart
  <2>2. <<>> \in Seq(Entry) /\ <<>> \in Seq(PastEntry)
    BY EmptySeq
  <2>3. TypeOK'
    BY <1>1, <1>2, <2>1, <2>2, Sizes DEF AgentRestart, FullInv, MonitorInv, TypeOK
  <2>4. Len(window') = 0 /\ Len(past') = 0 /\ DOMAIN past' = {}
    BY <2>1
  <2>5. Linked'
    BY <2>4, Sizes DEF Linked, Sorted
  <2> QED
    BY <2>1, <2>3, <2>5, Idle DEF FullInv, MonitorInv
<1>3. CASE ServiceRestart
  <2>1. TypeOK'
    BY <1>1, <1>3 DEF ServiceRestart, FullInv, MonitorInv, TypeOK
  <2> QED
    BY <1>3, <2>1, Untouched DEF ServiceRestart, FullInv, MonitorInv
<1> QED
  BY <1>2, <1>3

LEMMA AssessInv ==
  ASSUME FullInv, NEW texts \in Screens, NEW vision \in Visions, NEW game \in BOOLEAN,
         Assess(texts, vision, game)
  PROVE  FullInv'
<1> DEFINE text == Classify(texts)
           raw  == Raw(text, vision)
           T    == Trim(window)
           R    == Recall(past)
           a    == Adjusted(T, raw, game)
           e    == EntryOf(raw, a)
           p    == [texts |-> texts, raw |-> raw.category, age |-> 0]
<1>1. /\ wait' = Gap
      /\ window' = Append(T, e)
      /\ sample' = [texts |-> texts, text |-> text, game |-> game, raw |-> raw,
                    category |-> a.category, confidence |-> a.confidence,
                    severity |-> SeverityOf(agentPolicy, a.confidence)]
      /\ past' = Append(R, p)
      /\ UNCHANGED <<agentPolicy, policy, file, newest>>
  BY DEF Assess, Remember
<1>2. /\ text \in Result /\ raw \in Result
      /\ raw.category # Grooming
      /\ raw.category # Unknown => raw.confidence > 0
      /\ raw.category = Personal => raw.confidence = 45
      /\ raw.confidence >= text.confidence
  BY RawIs
<1> HIDE DEF text, raw
<1>3. a \in Result
  BY <1>2, AdjustedTyped
<1>4. /\ a.category = Grooming <=> (raw.category = Secrecy /\ Holds(T, {Personal}))
      /\ raw.category = Personal =>
           a.confidence = (IF Holds(T, {Personal}) THEN 70 ELSE 45)
      /\ IF /\ game /\ raw.category = Violence
            /\ ~Holds(T, Categories \ {Violence, Unknown})
         THEN a.confidence = AtMost(raw.confidence, 20)
         ELSE a.confidence >= raw.confidence
  BY <1>2, AdjustedIs
<1>5. KeptTogether(T, R)
  BY Kept DEF FullInv
<1> HIDE DEF T, R, a
<1>6. texts \subseteq Categories
  BY ScreensAssumption DEF ScreensAssumption
<1>7. e \in Entry /\ p \in PastEntry /\ Matches(e, p) /\ e.age = 0
  BY <1>2, <1>3, <1>6 DEF EntryOf, Entry, PastEntry, Matches, Result
<1> HIDE DEF e, p
<1>8. /\ window' \in Seq(Entry) /\ past' \in Seq(PastEntry) /\ Linked'
      /\ Len(past') = Len(R) + 1 /\ \A i \in 1..Len(R) : past'[i] = R[i]
  BY <1>1, <1>5, <1>7, AssessLinks
<1>9. SeverityOf(agentPolicy, a.confidence) \in Severities
  BY SeverityTyped
<1>10. sample' \in SampleType
  BY <1>1, <1>2, <1>3, <1>6, <1>9 DEF SampleType, Result
<1>11. TypeOK'
  BY <1>1, <1>8, <1>10, Sizes DEF FullInv, MonitorInv, TypeOK
<1>12. (\E r \in Recent' : r.raw \in {Personal}) <=> Holds(T, {Personal})
  BY <1>5, <1>8, RecentIsWindow
<1>13. (\E r \in Recent' : r.raw \in Categories \ {Violence, Unknown})
         <=> Holds(T, Categories \ {Violence, Unknown})
  BY <1>5, <1>8, RecentIsWindow
<1>14. ASSUME NEW r \in Recent' PROVE r.raw \in Categories
  <2>1. PICK i \in 1..(Len(past') - 1) : r = past'[i]
    BY DEF Recent
  <2>2. Len(past') \in Nat /\ DOMAIN past' = 1..Len(past')
    BY <1>8
  <2>3. past'[i] \in PastEntry
    BY <1>8, <2>2
  <2> QED
    BY <2>1, <2>3 DEF PastEntry
<1>15. /\ sample'.category = a.category /\ sample'.confidence = a.confidence
       /\ sample'.raw = raw /\ sample'.text = text /\ sample'.game = game
       /\ sample'.severity = SeverityOf(agentPolicy, a.confidence)
       /\ agentPolicy' = agentPolicy /\ agentPolicy \in Thresholds
  BY <1>1 DEF FullInv, MonitorInv, TypeOK
<1>16. a.confidence \in Confidence /\ raw.confidence \in Confidence
       /\ text.confidence \in Confidence
  BY <1>2, <1>3 DEF Result
<1>17. GroomingExact'
  BY <1>4, <1>12, <1>15 DEF GroomingExact
<1>18. RepeatExact'
  <2> SUFFICES ASSUME raw.category = Personal
               PROVE  /\ sample'.severity # SeverityOf(agentPolicy, raw.confidence)
                            => \E r \in Recent' : r.raw = Personal
                      /\ (\E r \in Recent' : r.raw = Personal) => a.confidence > raw.confidence
    BY <1>15 DEF RepeatExact
  <2>1. raw.confidence = 45 /\ a.confidence = (IF Holds(T, {Personal}) THEN 70 ELSE 45)
    BY <1>2, <1>4
  <2>2. CASE Holds(T, {Personal})
    BY <1>12, <2>1, <2>2
  <2>3. CASE ~Holds(T, {Personal})
    BY <1>12, <1>15, <2>1, <2>3
  <2> QED
    BY <2>2, <2>3
<1>19. DroppedExactly'
  <2> DEFINE Quiet == /\ game /\ raw.category = Violence
                      /\ \A r \in Recent' : r.raw \in {Violence, Unknown}
  <2> SUFFICES ASSUME SeverityOf(agentPolicy, text.confidence) # "SAFE"
               PROVE  SeverityOf(agentPolicy, a.confidence) = "SAFE"
                        <=> /\ Quiet
                            /\ SeverityOf(agentPolicy, AtMost(raw.confidence, 20)) = "SAFE"
    BY <1>15 DEF DroppedExactly, Suspicious
  <2>1. Quiet <=> /\ game /\ raw.category = Violence
                  /\ ~Holds(T, Categories \ {Violence, Unknown})
    BY <1>13, <1>14
  <2> HIDE DEF Quiet
  <2>2. CASE Quiet
    BY <1>4, <2>1, <2>2
  <2>3. CASE ~Quiet
    <3>1. a.confidence >= raw.confidence
      BY <1>4, <2>1, <2>3
    <3>2. text.confidence <= a.confidence
      <4>1. /\ a.confidence \in Int /\ raw.confidence \in Int /\ text.confidence \in Int
            /\ raw.confidence >= text.confidence
        BY <1>2, <1>16 DEF Confidence
      <4> QED
        BY <3>1, <4>1
    <3> QED
      BY <1>15, <1>16, <2>3, <3>2, SuspicionRises
  <2> QED
    BY <2>2, <2>3
<1> QED
  BY <1>8, <1>11, <1>17, <1>18, <1>19 DEF FullInv, MonitorInv, SampleInv

LEMMA NextInv == FullInv /\ [Next]_vars => FullInv'
<1> SUFFICES ASSUME FullInv, [Next]_vars PROVE FullInv'
  OBVIOUS
<1>1. CASE Pass
  BY <1>1, PassInv
<1>2. CASE Heartbeat \/ ReportEvent
  BY <1>2, EndOfCallInv
<1>3. CASE AgentRestart \/ ServiceRestart
  BY <1>3, RestartInv
<1>4. CASE \E texts \in Screens, vision \in Visions, game \in BOOLEAN :
             Assess(texts, vision, game)
  BY <1>4, AssessInv
<1>5. CASE \E setting \in Settings : SetThreshold(setting)
  BY <1>5, SetThresholdInv
<1>6. CASE UNCHANGED vars
  <2>1. UNCHANGED <<window, agentPolicy, policy, file, newest, wait, sample, past>>
    BY <1>6 DEF vars
  <2>2. TypeOK'
    BY <2>1 DEF FullInv, MonitorInv, TypeOK
  <2> QED
    BY <2>1, <2>2, Untouched DEF FullInv, MonitorInv
<1> QED
  BY <1>1, <1>2, <1>3, <1>4, <1>5, <1>6 DEF Next

-----------------------------------------------------------------------------
(* The theorems *)

LEMMA Invariance == Spec => []FullInv
BY InitInv, NextInv, PTL DEF Spec

\* Whatever the screens, the models and the thresholds, every variable keeps its
\* type: confidences stay percents through boosting and flooring
\* (ContextEngine.cpp:41-60), and thresholds survive a file that cannot be read.
THEOREM TypeCorrect == Spec => []TypeOK
<1>1. FullInv => TypeOK
  BY DEF FullInv, MonitorInv
<1> QED
  BY <1>1, Invariance, PTL

\* ContextEngine.cpp:43: grooming is reported exactly for a request for secrecy
\* with a recent request for personal information, for a window of any size and
\* duration.
THEOREM GroomingIsExact == Spec => []GroomingExact
<1>1. FullInv => GroomingExact
  BY DEF FullInv, SampleInv
<1> QED
  BY <1>1, Invariance, PTL

\* ContextEngine.cpp:38: a request for personal information is made more of
\* exactly when it is not the first recent one.
THEOREM RepetitionIsExact == Spec => []RepeatExact
<1>1. FullInv => RepeatExact
  BY DEF FullInv, SampleInv
<1> QED
  BY <1>1, Invariance, PTL

\* SafetyAgent.cpp:115-134: what stage 1 finds suspicious reaches the service
\* unless vision or the text makes it violence in a game with nothing else recent
\* and 20 percent are safe, under any thresholds, also ones that are not in order.
THEOREM DropsAreExact == Spec => []DroppedExactly
<1>1. FullInv => DroppedExactly
  BY DEF FullInv, SampleInv
<1> QED
  BY <1>1, Invariance, PTL

-----------------------------------------------------------------------------
(* Severities *)

\* The sample in flight carries the severity that the agent's thresholds give it.
Graded == Assessed => sample.severity = SeverityOf(agentPolicy, sample.confidence)

LEMMA GradedStep == Graded /\ [Next]_vars => Graded'
<1> SUFFICES ASSUME Graded, [Next]_vars PROVE Graded'
  OBVIOUS
<1>1. CASE sample' = NoSample
  BY <1>1 DEF Graded, Assessed
<1>2. CASE \E texts \in Screens, vision \in Visions, game \in BOOLEAN :
             Assess(texts, vision, game)
  BY <1>2 DEF Assess, Graded
<1>3. CASE UNCHANGED <<sample, agentPolicy>>
  BY <1>3 DEF Graded, Assessed
<1> QED
  BY <1>1, <1>2, <1>3
  DEF Next, vars, Pass, Heartbeat, ReportEvent, AgentRestart, ServiceRestart, SetThreshold

\* SafetyEventStore.cpp stores what the call says: the severity of a new row is
\* the one that the agent's thresholds, in force while the call is in flight, give
\* its confidence, whatever a parent has set at the service in the meantime.
SeverityIsAgents ==
  [][newest' # newest => newest'.severity = SeverityOf(agentPolicy, newest'.confidence)]_vars

\* SafetyAgent.cpp reports what its own thresholds gave: SeverityIsAgents holds of
\* every call, restart and change of a setting.
THEOREM AgentGrades == Spec => SeverityIsAgents
<1>1. Init => Graded
  BY DEF Init, Graded, Assessed
<1>2. Graded /\ [Next]_vars =>
        [newest' # newest =>
           newest'.severity = SeverityOf(agentPolicy, newest'.confidence)]_vars
  <2> SUFFICES ASSUME Graded, Next, newest' # newest
               PROVE  newest'.severity = SeverityOf(agentPolicy, newest'.confidence)
    BY DEF vars
  <2>1. ReportEvent
    BY DEF Next, Pass, Heartbeat, AgentRestart, ServiceRestart, Assess, SetThreshold
  <2>2. sample # NoSample /\ newest' = Event(sample)
    BY <2>1 DEF ReportEvent
  <2>3. newest'.severity = sample.severity /\ newest'.confidence = sample.confidence
    BY <2>2 DEF Event
  <2> QED
    BY <2>2, <2>3 DEF Graded, Assessed
<1> QED
  BY <1>1, <1>2, GradedStep, PTL DEF Spec, SeverityIsAgents

-----------------------------------------------------------------------------
(* The engines *)

Pictured == {"SEXUAL_CONTENT", Violence}
Runs == [Pictured -> Confidence \union {Throws}]

LEMMA DirsSpelledOut ==
  /\ DOMAIN CategoryDirs = 1..2
  /\ \A i \in 1..2 : CategoryDirs[i].category \in Pictured
BY DEF CategoryDirs, Pictured

\* What AnalyzeImage returns, without its concatenation.
LEMMA AnalyzedElements ==
  ASSUME NEW models \in Seq(Pictured), NEW answers \in Runs
  PROVE  /\ AnalyzeImage(models, answers) \in Seq(Vision)
         /\ \A i \in DOMAIN AnalyzeImage(models, answers) :
              LET v == AnalyzeImage(models, answers)[i] IN
              \/ \E c \in Pictured \union {"SELF_HARM"} : v = Unavailable(c)
              \/ \E k \in DOMAIN models : /\ answers[models[k]] # Throws
                                          /\ v = Available(models[k], answers[models[k]])
<1> DEFINE Others ==
      IF models = <<>>
      THEN [i \in DOMAIN CategoryDirs |-> Unavailable(CategoryDirs[i].category)]
      ELSE [i \in DOMAIN models |->
              IF answers[models[i]] = Throws THEN Unavailable(models[i])
              ELSE Available(models[i], answers[models[i]])]
      Result1(v) == \/ \E c \in Pictured \union {"SELF_HARM"} : v = Unavailable(c)
                    \/ \E k \in DOMAIN models :
                         /\ answers[models[k]] # Throws
                         /\ v = Available(models[k], answers[models[k]])
<1>1. \A i \in DOMAIN models : models[i] \in Pictured /\ answers[models[i]] \in Confidence \union {Throws}
  BY DEF Runs
<1>2. \A c \in Pictured \union {"SELF_HARM"} : Unavailable(c) \in Vision
  BY DEF Unavailable, Vision, Pictured, Categories, Violence, Confidence
<1>3. \A c \in Pictured, n \in Confidence : Available(c, n) \in Vision
  BY DEF Available, Vision, Pictured, Categories, Violence
<1>4. Len(models) \in Nat /\ DOMAIN models = 1..Len(models)
  OBVIOUS
<1>5. /\ Others \in Seq(Vision)
      /\ \A i \in DOMAIN Others : Result1(Others[i])
  <2>1. CASE models = <<>>
    <3>1. Others = [i \in 1..2 |-> Unavailable(CategoryDirs[i].category)]
      BY <2>1, DirsSpelledOut
    <3>2. \A i \in 1..2 : Others[i] \in Vision /\ Result1(Others[i])
      BY <3>1, <1>2, DirsSpelledOut
    <3> HIDE DEF Others, Result1
    <3>3. Others \in [1..2 -> Vision] /\ DOMAIN Others = 1..2
      BY <3>1, <3>2
    <3>4. Others \in Seq(Vision)
      BY <3>3, 2 \in Nat, SeqDef
    <3>5. \A i \in DOMAIN Others : Result1(Others[i])
      BY <3>2, <3>3
    <3> QED
      BY <3>4, <3>5
  <2>2. CASE models # <<>>
    <3>1. Others = [i \in 1..Len(models) |->
                      IF answers[models[i]] = Throws THEN Unavailable(models[i])
                      ELSE Available(models[i], answers[models[i]])]
      BY <2>2, <1>4
    <3>2. ASSUME NEW i \in 1..Len(models) PROVE Others[i] \in Vision /\ Result1(Others[i])
      BY <3>1, <3>2, <1>1, <1>2, <1>3, <1>4
    <3> HIDE DEF Others, Result1
    <3>3. Others \in [1..Len(models) -> Vision]
      BY <3>1, <3>2
    <3> QED
      BY <3>2, <3>3, <1>4
  <2> QED
    BY <2>1, <2>2
<1>6. AnalyzeImage(models, answers) = <<Unavailable("SELF_HARM")>> \o Others
  BY DEF AnalyzeImage
<1>7. <<Unavailable("SELF_HARM")>> \in Seq(Vision) /\ Result1(Unavailable("SELF_HARM"))
  BY <1>2
<1> HIDE DEF Others
<1>8. \A i \in DOMAIN AnalyzeImage(models, answers) : Result1(AnalyzeImage(models, answers)[i])
  <2> HIDE DEF Result1
  <2> QED
    BY <1>5, <1>6, <1>7
<1> QED
  BY <1>5, <1>6, <1>7, <1>8

\* OnnxVisionEngine.cpp:95-158: for whatever models are loaded and whatever
\* they answer or throw, the engine's results are of the kind that the theorems
\* above assume of Visions.
THEOREM EngineResults ==
  ASSUME NEW models \in Seq(Pictured), NEW answers \in Runs
  PROVE  LET v == AnalyzeImage(models, answers) IN
         /\ v \in Seq(Vision)
         /\ \A i \in DOMAIN v :
              v[i].category \in {"SEXUAL_CONTENT", Violence, "SELF_HARM", Unknown}
<1> DEFINE v == AnalyzeImage(models, answers)
<1>1. \A k \in DOMAIN models : models[k] \in Pictured
  OBVIOUS
<1>2. ASSUME NEW i \in DOMAIN v
      PROVE  v[i].category \in Pictured \union {"SELF_HARM"}
  <2>1. CASE \E c \in Pictured \union {"SELF_HARM"} : v[i] = Unavailable(c)
    BY <2>1 DEF Unavailable
  <2>2. CASE \E k \in DOMAIN models : v[i] = Available(models[k], answers[models[k]])
    BY <2>2, <1>1 DEF Available
  <2> QED
    BY <2>1, <2>2, <1>2, AnalyzedElements
<1> QED
  BY <1>2, AnalyzedElements DEF Pictured

\* RiskEngine.cpp:10, OnnxVisionEngine.cpp:107-116, 148-152: an engine without
\* models, or whose models all throw, never changes what the text came to: no
\* absent model counts as an answer.
THEOREM NoModelNoChange ==
  ASSUME NEW models \in Seq(Pictured), NEW answers \in Runs, NEW text \in Result,
         \A k \in DOMAIN models : answers[models[k]] = Throws
  PROVE  Combine(text, AnalyzeImage(models, answers)) = text
<1> DEFINE v == AnalyzeImage(models, answers)
<1>1. ASSUME NEW i \in DOMAIN v PROVE ~v[i].available
  BY <1>1, AnalyzedElements DEF Unavailable
<1> HIDE DEF v
<1>2. Surer(text, v) = {}
  BY <1>1 DEF Surer
<1> QED
  BY <1>2 DEF Combine, v

-----------------------------------------------------------------------------
(* The store *)

Store == INSTANCE SafetyStore

LEMMA SameCount == \A S : Store!Cardinality(S) = Cardinality(S)
  BY DEF Store!Cardinality, Cardinality

\* The shield's last check is at or after every event, and not after now.
Covered(db, now) ==
  LET checked == Store!GetStatus(db).lastCheckAt
  IN /\ checked \in Nat /\ checked <= now
     /\ \A r \in db.safety_events : r.timestamp \in Nat /\ r.timestamp <= checked

LEMMA Checked ==
  ASSUME NEW db, DOMAIN db = Store!Tables, NEW now, NEW fails, "setPolicyState" \notin fails
  PROVE  LET after == Store!setPolicyState(db, "lastCheckAt", now, fails) IN
         /\ after.safety_events = db.safety_events
         /\ Store!GetStatus(after).lastCheckAt = now
         /\ DOMAIN after = Store!Tables
<1> DEFINE after == Store!setPolicyState(db, "lastCheckAt", now, fails)
           kept  == [k \in DOMAIN db.policy_state \union {"lastCheckAt"} |->
                       IF k = "lastCheckAt" THEN now ELSE db.policy_state[k]]
<1>1. after = [db EXCEPT !.policy_state = kept]
  BY DEF Store!setPolicyState
<1>2. /\ after.safety_events = db.safety_events
      /\ after.policy_state = kept
      /\ DOMAIN after = Store!Tables
  BY <1>1 DEF Store!Tables
<1>3. "lastCheckAt" \in DOMAIN kept /\ kept["lastCheckAt"] = now
  OBVIOUS
<1> HIDE DEF kept, after
<1>4. Store!GetStatus(after).lastCheckAt = now
  BY <1>2, <1>3 DEF Store!GetStatus, Store!policyState
<1> QED
  BY <1>2, <1>4 DEF after

\* SafetyService.cpp:55-78, 80-85, SafetyEventStore.cpp:62-90: the shield never
\* shows a last check older than an event, whoever reports, from whatever groups,
\* and however far apart the service's two readings of the clock are; only a
\* refused status statement, or a clock set back, breaks this.
THEOREM StatusStaysAhead ==
  ASSUME NEW db, DOMAIN db = Store!Tables, NEW before \in Nat, Covered(db, before),
         NEW at \in Nat, NEW now \in Nat, before <= at, at <= now,
         NEW sender, NEW groups, NEW payload,
         NEW fails, "setPolicyState" \notin fails
  PROVE  /\ Covered(Store!ReportEvent(db, sender, groups, payload, at, now, fails), now)
         /\ Covered(Store!Heartbeat(db, now, fails), now)
<1>1. \A r \in db.safety_events : r.timestamp \in Nat /\ r.timestamp <= now
  BY DEF Covered
<1>2. Covered(db, now)
  BY DEF Covered
<1>3. Covered(Store!Heartbeat(db, now, fails), now)
  BY <1>1, Checked DEF Store!Heartbeat, Covered
<1>4. ASSUME NEW event, event.timestamp = at, {"id", "timestamp"} \subseteq DOMAIN event
      PROVE  Covered(Store!insertEvent(db, event, now, fails), now)
  <2> DEFINE row  == [event EXCEPT !.id = Store!newEventId(db)]
             with == [db EXCEPT !.safety_events = @ \union {row}]
  <2>1. row.timestamp = at
    BY <1>4
  <2>2. with.safety_events = db.safety_events \union {row} /\ DOMAIN with = Store!Tables
    BY DEF Store!Tables
  <2>3. Store!insertEvent(db, event, now, fails) =
          IF "insertEvent" \in fails THEN db
          ELSE Store!setPolicyState(with, "lastCheckAt", now, fails)
    BY DEF Store!insertEvent
  <2> HIDE DEF row, with
  <2>4. Covered(Store!setPolicyState(with, "lastCheckAt", now, fails), now)
    BY <1>1, <2>1, <2>2, Checked DEF Covered
  <2> QED
    BY <1>2, <2>3, <2>4
<1> DEFINE event ==
      [id |-> 0, timestamp |-> at, childId |-> payload.childId,
       category |-> Store!categoryToString(Store!categoryFromString(payload.category)),
       severity |-> Store!severityToString(Store!severityFromString(payload.severity))]
<1>5. event.timestamp = at /\ {"id", "timestamp"} \subseteq DOMAIN event
  OBVIOUS
<1>6. Store!ReportEvent(db, sender, groups, payload, at, now, fails) =
        IF Store!uidIsInGroup(sender, groups, "wheel") THEN db
        ELSE Store!insertEvent(db, event, now, fails)
  BY DEF Store!ReportEvent
<1> HIDE DEF event
<1> QED
  BY <1>2, <1>3, <1>4, <1>5, <1>6

\* SafetyEventStore.cpp:140: a listing cut short is what a parent who asks for
\* fewer events may get: newest first, and nothing left out is newer than
\* anything shown, for any number of rows and any order among equal times.
THEOREM ShorterIsPrefix ==
  ASSUME NEW db, IsFiniteSet(db.safety_events),
         \A r \in db.safety_events : r.timestamp \in Nat,
         NEW child, NEW limit \in Nat, NEW list \in Store!listEvents(db, child, limit),
         NEW k \in 0..Len(list)
  PROVE  SubSeq(list, 1, k) \in Store!listEvents(db, child, k)
<1> DEFINE rows == {r \in db.safety_events : child = "" \/ r.childId = child}
           n    == IF limit < Store!Cardinality(rows) THEN limit ELSE Store!Cardinality(rows)
           head == SubSeq(list, 1, k)
<1>1. Store!Cardinality(rows) \in Nat
  <2>1. IsFiniteSet(rows)
    BY FS_Subset
  <2> HIDE DEF rows
  <2> QED
    BY <2>1, FS_CardinalityType, SameCount
<1>2. n \in Nat /\ n <= Store!Cardinality(rows)
  <2> HIDE DEF rows
  <2> QED
    BY <1>1
<1>3. /\ list \in [1..n -> rows]
      /\ \A i, j \in 1..n : i < j => list[i] # list[j] /\ list[i].timestamp >= list[j].timestamp
      /\ \A r \in rows : (\E i \in 1..n : list[i] = r)
                           \/ \A i \in 1..n : list[i].timestamp >= r.timestamp
  <2>1. list \in Store!listEvents(db, child, limit)
    OBVIOUS
  <2> QED
    BY ONLY <2>1, Zenon DEF Store!listEvents
<1>4. \A r \in rows : r.timestamp \in Nat
  OBVIOUS
<1> HIDE DEF n, rows
<1>5. Len(list) = n /\ k \in Nat /\ k <= n
  BY <1>2, <1>3
<1>6. head \in [1..k -> rows] /\ \A i \in 1..k : head[i] = list[i]
  <2>1. list \in Seq(rows)
    BY <1>2, <1>3, SeqDef
  <2>2. /\ head \in Seq(rows) /\ Len(head) = k
        /\ \A i \in 1..k : head[i] = list[1 + i - 1]
    BY <2>1, <1>2, <1>5, SubSeqProperties
  <2> HIDE DEF head
  <2>3. head \in [1..k -> rows]
    BY <2>2, <1>5
  <2>4. \A i \in 1..k : 1 + i - 1 = i
    BY <1>5
  <2> QED
    BY <2>2, <2>3, <2>4
<1>7. (IF k < Store!Cardinality(rows) THEN k ELSE Store!Cardinality(rows)) = k
  BY <1>1, <1>2, <1>5
<1> HIDE DEF head
<1>8. \A i, j \in 1..k : i < j => head[i] # head[j] /\ head[i].timestamp >= head[j].timestamp
  BY <1>2, <1>3, <1>5, <1>6
<1>9. ASSUME NEW r \in rows, ~\E i \in 1..k : head[i] = r
      PROVE  \A i \in 1..k : head[i].timestamp >= r.timestamp
  <2>1. CASE \E j \in 1..n : list[j] = r
    <3>1. PICK j \in 1..n : list[j] = r
      BY <2>1
    <3>2. j > k
      BY <1>5, <1>6, <1>9, <3>1
    <3> QED
      BY <1>2, <1>3, <1>5, <1>6, <3>1, <3>2
  <2>2. CASE \A i \in 1..n : list[i].timestamp >= r.timestamp
    BY <1>2, <1>5, <1>6, <2>2
  <2> QED
    BY <1>3, <2>1, <2>2
<1>10. head \in {l \in [1..k -> rows] :
          /\ \A i, j \in 1..k : i < j => l[i] # l[j] /\ l[i].timestamp >= l[j].timestamp
          /\ \A r \in rows : (\E i \in 1..k : l[i] = r)
                               \/ \A i \in 1..k : l[i].timestamp >= r.timestamp}
  BY ONLY <1>6, <1>8, <1>9, Zenon
<1>11. Store!listEvents(db, child, k) =
         {l \in [1..k -> rows] :
            /\ \A i, j \in 1..k : i < j => l[i] # l[j] /\ l[i].timestamp >= l[j].timestamp
            /\ \A r \in rows : (\E i \in 1..k : l[i] = r)
                                 \/ \A i \in 1..k : l[i].timestamp >= r.timestamp}
  BY ONLY <1>7, Zenon DEF Store!listEvents, rows
<1> QED
  BY ONLY <1>10, <1>11, Zenon DEF head

=============================================================================
