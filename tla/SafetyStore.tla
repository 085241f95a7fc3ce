----------------------------- MODULE SafetyStore -----------------------------
(***************************************************************************)
(* The database of kidsos-safety and what its handlers read and write in   *)
(* it.  A database is a function from its tables to their contents: the    *)
(* rows of safety_events as a set, policy_state as a function from keys.   *)
(* Times are seconds, the resolution of the stored text; fails is the set  *)
(* of statements that the database refuses.  Row details nobody compares   *)
(* (application, summary, confidence, quality, model version) are left out.*)
(***************************************************************************)
EXTENDS Naturals, FiniteSets, Membership

Tables    == {"safety_events", "policy_state"}
NoContent == [safety_events |-> {}, policy_state |-> << >>]
Never     == 0                                \* the empty text of a missing key

\* SafetyEventStore::open: a table that exists is kept as it is.
Open(file) == [t \in Tables |-> IF t \in DOMAIN file THEN file[t] ELSE NoContent[t]]

-----------------------------------------------------------------------------
(* The names a category and a severity have in the agent, and on the way *)

CategoryText ==
  [Cyberbullying |-> "CYBERBULLYING", GroomingIndicators |-> "GROOMING_INDICATORS",
   SexualContent |-> "SEXUAL_CONTENT", SextortionIndicators |-> "SEXTORTION_INDICATORS",
   Violence |-> "VIOLENCE", SelfHarm |-> "SELF_HARM", Scam |-> "SCAM",
   Phishing |-> "PHISHING", DangerousChallenge |-> "DANGEROUS_CHALLENGE",
   PersonalInformationRequest |-> "PERSONAL_INFORMATION_REQUEST",
   SecrecyRequest |-> "SECRECY_REQUEST", Unknown |-> "UNKNOWN"]

SeverityText == [Safe |-> "SAFE", Low |-> "LOW", Medium |-> "MEDIUM", High |-> "HIGH",
                 Critical |-> "CRITICAL"]

categoryToString(c) == CategoryText[c]
severityToString(s) == SeverityText[s]

\* The name a text stands for; any text that stands for none is the default.
Named(texts, text, default) ==
  IF \E n \in DOMAIN texts : texts[n] = text
  THEN CHOOSE n \in DOMAIN texts : texts[n] = text
  ELSE default

categoryFromString(text) == Named(CategoryText, text, "Unknown")
severityFromString(text) == Named(SeverityText, text, "Safe")

\* toExportSchema, and the fields runSample adds to it for the call.
Exported(event) ==
  [childId |-> event.childId, category |-> categoryToString(event.category),
   severity |-> severityToString(event.severity)]

-----------------------------------------------------------------------------
(* The store *)

setPolicyState(db, key, value, fails) ==
  IF "setPolicyState" \in fails THEN db
  ELSE [db EXCEPT !.policy_state =
          [k \in DOMAIN @ \union {key} |-> IF k = key THEN value ELSE @[k]]]

policyState(db, key) ==
  IF key \in DOMAIN db.policy_state THEN db.policy_state[key] ELSE Never

\* createUuid: an id that no row has; rows are never deleted.
newEventId(db) == Cardinality(db.safety_events) + 1

\* Two statements, and what becomes of the second is not looked at.
insertEvent(db, event, now, fails) ==
  LET row == [event EXCEPT !.id = newEventId(db)]
  IN IF "insertEvent" \in fails THEN db
     ELSE setPolicyState([db EXCEPT !.safety_events = @ \union {row}],
                         "lastCheckAt", now, fails)

\* The answers a listing may give: newest first, and rows of one second in any
\* order the database likes.
listEvents(db, childId, limit) ==
  LET rows == {r \in db.safety_events : childId = "" \/ r.childId = childId}
      n    == IF limit < Cardinality(rows) THEN limit ELSE Cardinality(rows)
  IN {list \in [1..n -> rows] :
        /\ \A i, j \in 1..n : i < j => list[i] # list[j] /\ list[i].timestamp >= list[j].timestamp
        /\ \A r \in rows : (\E i \in 1..n : list[i] = r)
                             \/ \A i \in 1..n : list[i].timestamp >= r.timestamp}

-----------------------------------------------------------------------------
(* The handlers *)

\* The service reads the clock for the row, and again for lastCheckAt.
ReportEvent(db, sender, groups, payload, at, now, fails) ==
  IF uidIsInGroup(sender, groups, "wheel") THEN db
  ELSE insertEvent(db,
         [id |-> 0, timestamp |-> at, childId |-> payload.childId,
          category |-> categoryToString(categoryFromString(payload.category)),
          severity |-> severityToString(severityFromString(payload.severity))],
         now, fails)

\* Whoever calls.
Heartbeat(db, now, fails) == setPolicyState(db, "lastCheckAt", now, fails)

\* protectionActive does not depend on anything.
GetStatus(db) ==
  [protectionActive |-> TRUE, lastCheckAt |-> policyState(db, "lastCheckAt")]

GetRecentEvents(db, authorised, childId, limit) ==
  IF ~authorised THEN {<< >>}
  ELSE listEvents(db, childId, IF limit > 0 THEN limit ELSE 100)

\* What the launcher's shield shows: a service that does not answer is no
\* protection, a service that does is.
safetyStatus(answers, db) ==
  IF answers THEN GetStatus(db) ELSE [protectionActive |-> FALSE, lastCheckAt |-> Never]

=============================================================================
