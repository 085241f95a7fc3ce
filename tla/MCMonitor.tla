------------------------------ MODULE MCMonitor ------------------------------
(***************************************************************************)
(* SafetyMonitor on screens of one rule at a time and single vision hits;  *)
(* the engines and the store's operators on every small input.             *)
(***************************************************************************)
EXTENDS SafetyMonitor, Engines, SequencesExt

Store == INSTANCE SafetyStore

\* The loop of RiskEngine.cpp, for comparison with Combine on every text and
\* every two results of a small range.
Stronger(best, vision) ==
  IF vision.available /\ vision.confidence > best.confidence
  THEN [category |-> vision.category, confidence |-> vision.confidence]
  ELSE best

SomeResults == [category : {Violence, "SELF_HARM"}, confidence : {0, 45, 60}]
SomeVisions == [category : {Violence, "SELF_HARM", "SEXUAL_CONTENT"},
                confidence : {0, 45, 60}, available : BOOLEAN]

ASSUME CombineIsTheLoop ==
  \A text \in SomeResults : \A v, w, x \in SomeVisions :
    \A visions \in {<<>>, <<v>>, <<v, w, x>>} :
      Combine(text, visions) = FoldLeft(Stronger, text, visions)

-----------------------------------------------------------------------------
(* Engines *)

Disks   == [Dirs -> Folders]
Answers == [{CategoryDirs[i].category : i \in DOMAIN CategoryDirs} -> {0, 92, Throws}]
Models  == {discoverModels(disk) : disk \in Disks}

\* OnnxVisionEngine.h, ModelManager.h: whatever is on disk, an image is given a
\* confidence only by a model that is approved and whose data is what its
\* manifest says, and self-harm by none.
ASSUME OnlyApprovedModelsRun ==
  \A disk \in Disks : \A i \in DOMAIN discoverModels(disk) :
    \E d \in DOMAIN CategoryDirs :
      LET f == disk[CategoryDirs[d].dir]
      IN /\ discoverModels(disk)[i] = CategoryDirs[d].category
         /\ f.approvalStatus = "APPROVED_FOR_DISTRIBUTION" /\ f.data = f.sha256

\* What either engine says of any image is something SafetyMonitor's Visions
\* allows, and no category has two results.
ASSUME EnginesGiveVisions ==
  \A v \in {AnalyzeImage(m, a) : m \in Models, a \in Answers}
              \union {MockAnalyzeImage(p) : p \in DOMAIN Fixtures \union {"other"}} :
    /\ \A i \in DOMAIN v :
         /\ v[i] \in Vision
         /\ v[i].category \in {"SEXUAL_CONTENT", Violence, "SELF_HARM", Unknown}
    /\ \A i, j \in DOMAIN v : v[i].category = v[j].category => i = j

\* A frame on which OCR fails, and any frame once the rule table was refused,
\* is unsuspicious to every model: SafetyAgent.cpp:115 never asks them.
ASSUME BlindIsSafe ==
  \A texts \in SUBSET {Violence, Secrecy} : \A reads \in BOOLEAN :
    SeverityOf(Defaults, Classify(recognize(NotLoaded, texts, reads)).confidence) = "SAFE"

\* A language that could not be loaded once is tried again, and asking for it
\* never leaves another one in use.
ASSUME LanguageIsTheOneAsked ==
  \A loaded \in {NotLoaded, "eng", "heb"}, locale \in {"he", "ar", "en"} :
    LET language == tesseractLanguageFor(locale)
        failed   == ensureInitialized(loaded, language, {})
    IN /\ failed \in {language, NotLoaded}
       /\ ensureInitialized(failed, language, {language}) = language

MCScreens == {{}, {Personal}, {Secrecy}}

NoAnswers == [c \in {} |-> 0]
\* The shipped image has no vision model; then one that knows violence.
ShippedVisions == {AnalyzeImage(<<>>, NoAnswers)}
MCVisions      == ShippedVisions \union {AnalyzeImage(<<Violence>>, [c \in {Violence} |-> 92])}

MCSettings == {<<"safe", 50>>}

-----------------------------------------------------------------------------
(* The store: every history of up to three calls, two in each second, of two *)
(* accounts and a parent, with either statement refused.                     *)

Groups  == [g \in {"wheel", "kidsos-children"} |->
              IF g = "wheel" THEN [gid |-> 10, members |-> {"mum"}]
              ELSE [gid |-> 20, members |-> {"noa", "ben"}]]
Senders == [name : {"mum", "noa"}, gid : {1000}]
Found   == [childId |-> "noa", category |-> "Violence", severity |-> "High"]

Calls == [call : {"report"}, sender : Senders, childId : {"noa", "ben"},
          fails : SUBSET {"insertEvent", "setPolicyState"}]
           \union [call : {"heartbeat", "restart"}, fails : SUBSET {"setPolicyState"}]

Called(db, c, now) ==
  CASE c.call = "report" ->
         Store!ReportEvent(db, c.sender, Groups,
                           Store!Exported([Found EXCEPT !.childId = c.childId]), now, now, c.fails)
    [] c.call = "heartbeat" -> Store!Heartbeat(db, now, c.fails)
    [] c.call = "restart"   -> Store!Open(db)

After(calls) ==
  LET db[n \in 0..Len(calls)] ==
        IF n = 0 THEN Store!Open(<< >>) ELSE Called(db[n - 1], calls[n], (n + 1) \div 2)
  IN db[Len(calls)]

Histories == UNION {[1..n -> Calls] : n \in 0..3}

\* SafetyTypes.cpp: no category or severity is lost or confused on the way from
\* the agent through the call to the row.
ASSUME NamesSurvive ==
  \A c \in DOMAIN Store!CategoryText, s \in DOMAIN Store!SeverityText :
    LET sent == Store!Exported([childId |-> "noa", category |-> c, severity |-> s])
    IN /\ Store!categoryFromString(sent.category) = c
       /\ Store!severityFromString(sent.severity) = s
       /\ sent.category \in Categories /\ sent.severity \in Severities

\* SafetyService.cpp:55: nothing a parent's session reports is ever a row, and
\* every row is found by exactly one id.
ASSUME NoParentRows ==
  \A calls \in Histories : LET db == After(calls) IN
    Cardinality({r.id : r \in db.safety_events})
      = Cardinality({n \in DOMAIN calls : /\ calls[n].call = "report"
                                          /\ calls[n].sender.name # "mum"
                                          /\ "insertEvent" \notin calls[n].fails})

\* The last check the shield shows is no earlier than any event, unless the
\* second statement of insertEvent was refused.
ASSUME StatusCoversEvents ==
  \A calls \in Histories : LET db == After(calls) IN
    (\A n \in DOMAIN calls : "setPolicyState" \notin calls[n].fails) =>
      \A r \in db.safety_events : r.timestamp <= Store!safetyStatus(TRUE, db).lastCheckAt

\* SafetyEventStore.cpp:140: a parent who asks for the last events of a child
\* gets one of its newest first; a longer list shows no less than a shorter one.
ASSUME NewestFirst ==
  \A calls \in Histories : LET db == After(calls) IN
    \A child \in {"", "noa", "ben"} :
      /\ \A list \in Store!GetRecentEvents(db, TRUE, child, 0) :
           /\ Len(list) = Cardinality({r \in db.safety_events : child \in {"", r.childId}})
           /\ \A k \in 1..Len(list) :
                SubSeq(list, 1, k) \in Store!GetRecentEvents(db, TRUE, child, k)
      /\ Store!GetRecentEvents(db, FALSE, child, 2) = {<<>>}

=============================================================================
