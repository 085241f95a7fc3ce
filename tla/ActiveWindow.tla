---------------------------- MODULE ActiveWindow ----------------------------
(***************************************************************************)
(* How a sample learns the application in front, while the child goes on   *)
(* working (ActiveApplicationProviders.cpp).  On X11 the focused window is *)
(* asked.  On Wayland a script is loaded into KWin and run; all it can do  *)
(* is print, and what it prints comes back through the journal: the agent  *)
(* sets its cursor at the end of the journal before the script runs, and   *)
(* takes the first line with the script's marker that is written after it, *)
(* for 300 ms.  Whose line it is, the agent does not look at: any process  *)
(* may write one.  KWin keeps a script until it restarts and refuses to    *)
(* load it again, so the later samples of a session learn nothing.         *)
(* The journal is reduced to its newest line with the marker.              *)
(***************************************************************************)
EXTENDS Sampler

CONSTANTS Windows,   \* names of applications
          NoApp,     \* no window in front; a name that could not be learnt
          NoLine     \* no line with the marker

ASSUME WindowsAssumption == NoApp \notin Windows /\ NoLine \notin Windows \cup {NoApp}

VARIABLES
  front,    \* the application in front
  script,   \* KWin has the script
  late,     \* a line KWin has printed and the journal does not have yet
  line,     \* the newest line with the marker in the journal
  ask       \* what the running sample has asked, and learnt

desktop == <<front, script, late, line>>
agentVars == <<vars, desktop, ask>>

Shown == Windows \cup {NoApp}

\* seen and told are history: what was in front since the question, and what
\* the first line behind the cursor named if another process wrote it.  new: the
\* first line behind the cursor.
Question(pc, new) ==
  [pc |-> pc, seen |-> {front}, told |-> {}, new |-> new, app |-> NoApp]
NotAsked == [pc |-> "none", seen |-> {}, told |-> {}, new |-> NoLine, app |-> NoApp]
Questions == [pc : {"none", "run", "read", "done"}, seen : SUBSET Shown,
              told : SUBSET Shown, new : Shown \cup {NoLine}, app : Shown]

AgentInit ==
  /\ Init
  /\ front \in Shown
  /\ script \in BOOLEAN        \* an earlier agent may have loaded it
  /\ late = NoLine /\ line \in Shown \cup {NoLine}
  /\ ask = NotAsked

-----------------------------------------------------------------------------
(* The providers: SafetyAgent.cpp takes X11's with X11's capture. *)

AskAt(pc) == Running("analyse") /\ ask.pc = pc

\* X11: the class of the focused window; nothing without a display, a focus or
\* a class.
AskX11 ==
  /\ AskAt("none")
  /\ backend = "x11"
  /\ \E app \in {front, NoApp} : ask' = [Question("done", NoLine) EXCEPT !.app = app]
  /\ UNCHANGED <<vars, desktop>>

\* Without KWin or a journal to read, or with the script loaded before, nothing
\* is learnt.
NothingLearnt ==
  /\ AskAt("none")
  /\ backend = "portal"
  /\ ask' = Question("done", NoLine)
  /\ script' \in {script, TRUE}
  /\ UNCHANGED <<vars, front, late, line>>

\* Mutant of LoadScript: the journal is read from its head.
LoadScriptAtHead ==
  /\ AskAt("none")
  /\ backend = "portal"
  /\ ~script
  /\ script' = TRUE
  /\ ask' = Question("run", line)
  /\ UNCHANGED <<vars, front, late, line>>

\* The script is loaded, and the cursor set at the end of the journal.
LoadScript ==
  /\ AskAt("none")
  /\ backend = "portal"
  /\ ~script
  /\ script' = TRUE
  /\ ask' = Question("run", NoLine)
  /\ UNCHANGED <<vars, front, late, line>>

\* KWin runs the script, if it still has it; the call returns in any case.
RunScript ==
  /\ AskAt("run")
  /\ ask' = [ask EXCEPT !.pc = "read"]
  /\ late' = IF script THEN front ELSE late
  /\ UNCHANGED <<vars, front, script, line>>

\* The first line that follows the cursor, whoever wrote it; an empty name is none.
ReadLine ==
  /\ AskAt("read")
  /\ ask.new # NoLine
  /\ ask' = [ask EXCEPT !.pc = "done", !.app = ask.new]
  /\ UNCHANGED <<vars, desktop>>

\* 300 ms are over.
NoLineInTime ==
  /\ AskAt("read")
  /\ ask' = [ask EXCEPT !.pc = "done"]
  /\ UNCHANGED <<vars, desktop>>

Provider == AskX11 \/ NothingLearnt \/ LoadScript \/ RunScript \/ ReadLine \/ NoLineInTime

-----------------------------------------------------------------------------
(* The session. *)

Listening == ask.pc \in {"run", "read"}

SwitchTo(app) ==
  /\ front' = app
  /\ ask' = IF Listening THEN [ask EXCEPT !.seen = @ \cup {app}] ELSE ask
  /\ UNCHANGED <<vars, script, late, line>>

\* Behind the cursor, the first line counts.
Behind(app) == IF ask.new = NoLine THEN app ELSE ask.new

\* KWin's line reaches the journal.
JournalWrites ==
  /\ late # NoLine
  /\ line' = late /\ late' = NoLine
  /\ ask' = IF Listening THEN [ask EXCEPT !.new = Behind(late)] ELSE ask
  /\ UNCHANGED <<vars, front, script>>

\* Any other process of the session writes a line with the marker in it, and
\* whatever name it likes.
OtherWrites(app) ==
  /\ line' = app
  /\ ask' = IF Listening /\ ask.new = NoLine
            THEN [ask EXCEPT !.new = app, !.told = {app}] ELSE ask
  /\ UNCHANGED <<vars, front, script, late>>

KWinRestarts == script' = FALSE /\ UNCHANGED <<vars, front, late, line, ask>>

\* The rest of a sample follows the answer, and forgets the question.
SampleGoesOn ==
  /\ Running("analyse") => ask.pc = "done"
  /\ Sample
  /\ ask' = NotAsked
  /\ UNCHANGED desktop

AgentDies == Crash /\ ask' = NotAsked /\ UNCHANGED desktop

\* A line is in the journal long before the next sample.
AgentTicks == late = NoLine /\ Tick /\ UNCHANGED <<desktop, ask>>

TimePasses == Pass /\ UNCHANGED <<desktop, ask>>

PortalSteps ==
  /\ \/ \E p \in posted : Deliver(p)
     \/ \E r \in open, ok \in BOOLEAN : PortalResponds(r, ok)
  /\ UNCHANGED <<desktop, ask>>

AgentNext ==
  \/ Provider \/ SampleGoesOn \/ AgentDies \/ AgentTicks \/ TimePasses \/ PortalSteps
  \/ JournalWrites \/ KWinRestarts
  \/ \E app \in Shown \ {front} : SwitchTo(app)
  \/ \E app \in Shown : OtherWrites(app)

\* As in Sampler; the journal is written, and the provider asks and waits for
\* 25 s and 300 ms at most.
AgentFairness ==
  /\ WF_agentVars(TimePasses)
  /\ WF_agentVars(AgentTicks)
  /\ WF_agentVars(SampleGoesOn)
  /\ WF_agentVars(Provider)
  /\ WF_agentVars(JournalWrites)
  /\ WF_agentVars((\E p \in posted : Deliver(p)) /\ UNCHANGED <<desktop, ask>>)

AgentSpec == AgentInit /\ [][AgentNext]_agentVars /\ AgentFairness

-----------------------------------------------------------------------------
(* Properties *)

\* An application a sample names was in front at some moment between the
\* question and the answer, or another process wrote its name behind the marker in
\* that time, and before KWin did: never does the line of an earlier sample, of an earlier KWin, of an
\* agent that crashed, or what any process wrote before, pass for it.
AnswerIsCurrent == ask.app # NoApp => ask.app \in ask.seen \cup ask.told

=============================================================================
