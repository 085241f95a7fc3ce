------------------------------- MODULE Engines -------------------------------
(***************************************************************************)
(* The engines of the safety agent, as far as its assessment depends on    *)
(* them: which models on disk are used at all, what the two vision engines *)
(* report of one image, and when there is text to classify.  A model       *)
(* directory is what loadManifest and verifyIntegrity make of it; a model's*)
(* run is a confidence or Throws.  A confidence outside [0,1], which the   *)
(* ONNX engine would pass on, is left out.                                 *)
(***************************************************************************)
EXTENDS Assessment

CONSTANT Throws     \* onnxruntime's exception, at loading or at running

-----------------------------------------------------------------------------
(* Models on disk *)

NoData == "no data"

\* Of model.json: whether name and file are given, the approval status, the
\* hash; of the data file: its hash, or NoData; and what opening it comes to.
Folders == [named : BOOLEAN, approvalStatus : {"UNREVIEWED", "APPROVED_FOR_DISTRIBUTION"},
            sha256 : {"", "h1"}, data : {"h1", "h2", NoData}, opens : BOOLEAN]

\* loadManifest: a missing or unreadable manifest names nothing.
valid(f) == f.named

verifyIntegrity(f) ==
  /\ valid(f) /\ f.sha256 # ""
  /\ f.data # NoData
  /\ f.data = f.sha256

\* The rule table is used whatever its approval status.
loadRules(f, rules) == IF verifyIntegrity(f) THEN rules ELSE <<>>

\* kCategoryDirs: self-harm is not among them.
CategoryDirs == <<[dir |-> "nsfw", category |-> "SEXUAL_CONTENT"],
                  [dir |-> "violence", category |-> Violence]>>
Dirs == {CategoryDirs[i].dir : i \in DOMAIN CategoryDirs}

\* The categories of the models that load, in the order of the table.
discoverModels(disk) ==
  LET loads(entry) ==
        LET f == disk[entry.dir]
        IN /\ f.approvalStatus = "APPROVED_FOR_DISTRIBUTION"
           /\ verifyIntegrity(f)
           /\ f.opens
      found == SelectSeq(CategoryDirs, loads)
  IN [i \in DOMAIN found |-> found[i].category]

-----------------------------------------------------------------------------
(* Vision *)

Unavailable(c) == [category |-> c, confidence |-> 0, available |-> FALSE]
Available(c, n) == [category |-> c, confidence |-> n, available |-> TRUE]

\* OnnxVisionEngine::AnalyzeImage; answers gives the run of each model.
AnalyzeImage(models, answers) ==
  <<Unavailable("SELF_HARM")>> \o
    IF models = <<>>
    THEN [i \in DOMAIN CategoryDirs |-> Unavailable(CategoryDirs[i].category)]
    ELSE [i \in DOMAIN models |->
            IF answers[models[i]] = Throws THEN Unavailable(models[i])
            ELSE Available(models[i], answers[models[i]])]

\* The pictures MockVisionEngine knows, by name instead of hash.
Fixtures == [violence |-> Available(Violence, 92),
             sexual   |-> Available("SEXUAL_CONTENT", 88),
             selfHarm |-> Available("SELF_HARM", 81)]

\* Of any other picture it has no opinion, and says so as a result.
MockAnalyzeImage(image) ==
  <<IF image \in DOMAIN Fixtures THEN Fixtures[image] ELSE Available(Unknown, 0)>>

-----------------------------------------------------------------------------
(* Text *)

NotLoaded == "none"

\* By the language of the locale; English for all others.
Languages == [he |-> "heb", ar |-> "ara"]
tesseractLanguageFor(locale) == IF locale \in DOMAIN Languages THEN Languages[locale] ELSE "eng"

\* ensureInitialized: the language tesseract has loaded after a request for
\* one, given the languages whose data is installed; what was loaded is freed
\* before the other is tried.
ensureInitialized(loaded, language, installed) ==
  IF loaded = language \/ language \in installed THEN language ELSE NotLoaded

\* The categories whose patterns are looked for in the text: those of the
\* screen if there is a frame, tesseract has the language and reads anything.
recognize(loaded, texts, reads) == IF loaded # NotLoaded /\ reads THEN texts ELSE {}

=============================================================================
