----------------------------- MODULE Assessment -----------------------------
(***************************************************************************)
(* What the safety agent makes of one sample: the rule table, the mapping  *)
(* of a confidence to a severity, the combination of text and vision, and  *)
(* the adjustment by the rolling window of recent samples.  Confidences    *)
(* and weights are percents; the code uses doubles in [0,1], and on the    *)
(* values of the rule table and of the default thresholds the two compare  *)
(* alike.  A vision confidence that is not a number is left out.           *)
(***************************************************************************)
EXTENDS Integers, Sequences, FiniteSets

CONSTANTS WindowSize, WindowMinutes      \* ContextEngine(10, 15)

ASSUME WindowAssumption == WindowSize \in Nat \ {0} /\ WindowMinutes \in Nat

Unknown  == "UNKNOWN"
Grooming == "GROOMING_INDICATORS"
Personal == "PERSONAL_INFORMATION_REQUEST"
Secrecy  == "SECRECY_REQUEST"
Violence == "VIOLENCE"

Categories ==
  {Unknown, Grooming, Personal, Secrecy, Violence, "CYBERBULLYING",
   "SEXUAL_CONTENT", "SEXTORTION_INDICATORS", "SELF_HARM", "SCAM", "PHISHING",
   "DANGEROUS_CHALLENGE"}

Severities == {"SAFE", "LOW", "MEDIUM", "HIGH", "CRITICAL"}
Rank == [s \in Severities |->
           CASE s = "SAFE" -> 0 [] s = "LOW" -> 1 [] s = "MEDIUM" -> 2
             [] s = "HIGH" -> 3 [] s = "CRITICAL" -> 4]

Confidence == 0..100
Result     == [category : Categories, confidence : Confidence]
Vision     == [category : Categories, confidence : Confidence, available : BOOLEAN]
Entry      == [category : Categories, confidence : Confidence, age : Nat]
\* Nothing keeps a threshold in the range of confidences, or the four in order.
Thresholds == [safe : Int, medium : Int, high : Int, critical : Int]

-----------------------------------------------------------------------------
(* Thresholds *)

Defaults == [safe |-> 35, medium |-> 55, high |-> 75, critical |-> 90]

\* severityForConfidence: the strictest threshold reached, tried from above.
SeverityOf(t, confidence) ==
  IF confidence >= t.critical THEN "CRITICAL"
  ELSE IF confidence >= t.high THEN "HIGH"
  ELSE IF confidence >= t.medium THEN "MEDIUM"
  ELSE IF confidence >= t.safe THEN "LOW"
  ELSE "SAFE"

-----------------------------------------------------------------------------
\* What a loop that replaces its best only by something strictly better ends
\* with: the first of the greatest.
FirstGreatest(S, value) ==
  CHOOSE i \in S : \A j \in S : value[j] < value[i] \/ (value[j] = value[i] /\ i <= j)

-----------------------------------------------------------------------------
(* Stage 1: the rule table, in the order of the file *)

Rule(c, w) == [category |-> c, weight |-> w]

Rules == <<Rule(Personal, 45), Rule(Secrecy, 55), Rule("SEXTORTION_INDICATORS", 85),
           Rule("SEXUAL_CONTENT", 60), Rule("CYBERBULLYING", 40), Rule("SELF_HARM", 70),
           Rule(Violence, 50), Rule("SCAM", 45), Rule("PHISHING", 50),
           Rule("DANGEROUS_CHALLENGE", 60)>>

\* AnalyzeText of a screen that matches the categories in texts: the heaviest
\* rule, the first of equals; an empty screen, failed OCR and a rule table that
\* did not load all match nothing.
Classify(texts) ==
  LET matched == {i \in DOMAIN Rules : Rules[i].category \in texts}
      best == FirstGreatest(matched, [i \in matched |-> Rules[i].weight])
  IN IF matched = {} THEN [category |-> Unknown, confidence |-> 0]
                     ELSE [category |-> Rules[best].category, confidence |-> Rules[best].weight]

-----------------------------------------------------------------------------
(* Stage 2: RiskEngine::combine *)

\* The models that ran and are strictly surer than the text.
Surer(text, visions) ==
  {i \in DOMAIN visions : visions[i].available /\ visions[i].confidence > text.confidence}

\* The surest of them, the first of equals, replaces the text.
Combine(text, visions) ==
  LET surer == Surer(text, visions)
      best == FirstGreatest(surer, [i \in surer |-> visions[i].confidence])
  IN IF surer = {} THEN text
     ELSE [category |-> visions[best].category, confidence |-> visions[best].confidence]

-----------------------------------------------------------------------------
(* ContextEngine: the window is a sequence of entries, oldest first *)

Old(entry) == entry.age > WindowMinutes

\* trimWindow: from the front while the first entry is old, then while there
\* are too many.
DropOld(window) ==
  LET n == CHOOSE k \in 0..Len(window) :
             /\ \A i \in 1..k : Old(window[i])
             /\ k < Len(window) => ~Old(window[k + 1])
  IN SubSeq(window, n + 1, Len(window))

\* Mutant of KeepLast: one entry too many.
KeepLastAndOne(window) ==
  IF Len(window) > WindowSize + 1
  THEN SubSeq(window, Len(window) - WindowSize, Len(window))
  ELSE window

KeepLast(window) ==
  IF Len(window) > WindowSize
  THEN SubSeq(window, Len(window) - WindowSize + 1, Len(window))
  ELSE window

\* Mutant of Trim: the window forgets by size alone.
TrimBySize(window) == KeepLast(window)

Trim(window) == KeepLast(DropOld(window))

Holds(window, cs) == \E i \in DOMAIN window : window[i].category \in cs

Capped(n) == IF n > 100 THEN 100 ELSE n
AtLeast(a, b) == IF a < b THEN b ELSE a
AtMost(a, b)  == IF a > b THEN b ELSE a

\* Mutant of Adjusted: what else is recent does not matter.
AdjustedInGames(window, raw, game) ==
  IF raw.category = Unknown \/ raw.confidence <= 0 THEN raw
  ELSE CASE raw.category = Personal /\ Holds(window, {Personal}) ->
              [raw EXCEPT !.confidence = Capped(raw.confidence + 25)]
         [] raw.category = Secrecy /\ Holds(window, {Personal}) ->
              [category |-> Grooming, confidence |-> AtLeast(raw.confidence, 85)]
         [] raw.category = Violence /\ game ->
              [raw EXCEPT !.confidence = AtMost(raw.confidence, 20)]
         [] OTHER -> raw

\* The adjusted result for a raw one, given the trimmed window.
Adjusted(window, raw, game) ==
  IF raw.category = Unknown \/ raw.confidence <= 0 THEN raw
  ELSE CASE raw.category = Personal /\ Holds(window, {Personal}) ->
              [raw EXCEPT !.confidence = Capped(raw.confidence + 25)]
         [] raw.category = Secrecy /\ Holds(window, {Personal}) ->
              [category |-> Grooming, confidence |-> AtLeast(raw.confidence, 85)]
         [] raw.category = Violence /\ game
              /\ ~Holds(window, Categories \ {Violence, Unknown}) ->
              [raw EXCEPT !.confidence = AtMost(raw.confidence, 20)]
         [] OTHER -> raw

\* What the window keeps of a sample: its raw category, its adjusted confidence.
EntryOf(raw, adjusted) ==
  [category |-> raw.category, confidence |-> adjusted.confidence, age |-> 0]

\* The window after a sample.
Remember(window, raw, adjusted) == Append(Trim(window), EntryOf(raw, adjusted))

=============================================================================
