---------------------------- MODULE SafetyMonitor ----------------------------
(***************************************************************************)
(* The safety agent's assessment over time and the service that stores its *)
(* events and owns the thresholds: a sample is assessed in one step of the *)
(* agent's thread (SafetyAgent.cpp, no event loop runs in it after the     *)
(* capture), its result crosses to kidsos-safety in one blocking call, and *)
(* a parent changes thresholds, or either process restarts, in between.    *)
(* When samples begin and what their screenshots are is the module Sampler.*)
(***************************************************************************)
EXTENDS Assessment

CONSTANTS
  Screens,      \* sets of rule categories a screen's text may match
  Visions,      \* sequences of vision results; the empty one is the shipped image
  Gap,          \* minutes between samples (kCaptureIntervalSeconds)
  Settings,     \* <<threshold, value>> pairs a parent may choose
  AgentReads    \* may the agent read safety-policy.json?

ASSUME ScreensAssumption == \A s \in Screens : s \subseteq Categories
\* The engines report SexualContent, Violence and SelfHarm; the mock also Unknown.
ASSUME VisionsAssumption == \A v \in Visions :
  /\ v \in Seq(Vision)
  /\ \A i \in DOMAIN v :
       v[i].category \in {"SEXUAL_CONTENT", Violence, "SELF_HARM", Unknown}
ASSUME SettingsAssumption ==
  \A s \in Settings : s[1] \in {"safe", "medium", "high", "critical"} /\ s[2] \in Int
ASSUME OtherAssumption == Gap \in Nat \ {0} /\ AgentReads \in BOOLEAN

VARIABLES
  window,       \* the agent's rolling window
  agentPolicy,  \* the agent's m_policy
  policy,       \* the service's m_policy
  file,         \* /etc/kidsos/safety-policy.json; Empty stands for no usable one
  newest,       \* the newest row of safety_events, without its time
  wait,         \* minutes until the next sample may begin
  sample,       \* the sample whose call to the service is not over
  past          \* history: what recent samples showed, oldest first

vars == <<window, agentPolicy, policy, file, newest, wait, sample, past>>

Empty    == [empty |-> TRUE]
NoSample == [none |-> TRUE]
NoEvent  == [none |-> TRUE]

\* Mutant of Load: no defaults.
LoadOnly(f) == f

\* SafetyPolicy::load over the defaults: what cannot be read changes nothing.
Load(f) == IF f = Empty THEN Defaults ELSE f
AgentLoad(f) == IF AgentReads THEN Load(f) ELSE Defaults

Init ==
  /\ window = <<>>
  /\ agentPolicy = Defaults /\ policy = Defaults /\ file = Empty
  /\ newest = NoEvent
  /\ wait = Gap
  /\ sample = NoSample
  /\ past = <<>>

Older(e) == [e EXCEPT !.age = AtMost(e.age + 1, WindowMinutes + 1)]
Aged(seq) == [i \in DOMAIN seq |-> Older(seq[i])]

\* A minute: far longer than the call of a sample, so none is in flight.
Pass ==
  /\ sample = NoSample
  /\ wait' = AtLeast(wait - 1, 0)
  /\ window' = Aged(window)
  /\ past' = Aged(past)
  /\ UNCHANGED <<agentPolicy, policy, file, newest, sample>>

\* History keeps one sample more than the window may hold.
Recall(h) == IF Len(h) > WindowSize THEN SubSeq(h, Len(h) - WindowSize + 1, Len(h)) ELSE h

\* Stage-1 gate: vision runs, and is combined, only on suspicious text.
Suspicious(text) == SeverityOf(agentPolicy, text.confidence) # "SAFE"
Raw(text, vision) == IF Suspicious(text) THEN Combine(text, vision) ELSE text

\* runSample after the capture, to the call.
Assess(texts, vision, game) ==
  LET text     == Classify(texts)
      raw      == Raw(text, vision)
      adjusted == Adjusted(Trim(window), raw, game)
  IN /\ sample = NoSample
     /\ wait = 0
     /\ wait' = Gap
     /\ window' = Remember(window, raw, adjusted)
     /\ sample' = [texts |-> texts, text |-> text, game |-> game, raw |-> raw,
                   category |-> adjusted.category, confidence |-> adjusted.confidence,
                   severity |-> SeverityOf(agentPolicy, adjusted.confidence)]
     /\ past' = Append(Recall(past), [texts |-> texts, raw |-> raw.category, age |-> 0])
     /\ UNCHANGED <<agentPolicy, policy, file, newest>>

Event(s) == [category |-> s.category, confidence |-> s.confidence, severity |-> s.severity]

\* Heartbeat: nothing is stored.
Heartbeat ==
  /\ sample # NoSample
  /\ sample.severity = "SAFE"
  /\ sample' = NoSample
  /\ UNCHANGED <<window, agentPolicy, policy, file, newest, wait, past>>

\* ReportEvent, and insertEvent, which trust the severity the agent computed;
\* the agent looks at no answer, so an absent service or a failed insert loses
\* the event.
ReportEvent ==
  /\ sample # NoSample
  /\ sample.severity # "SAFE"
  /\ sample' = NoSample
  /\ newest' \in {Event(sample), newest}
  /\ UNCHANGED <<window, agentPolicy, policy, file, wait, past>>

\* SetThreshold by an authorised parent: memory first, then the file, which may
\* not open, or may be truncated and then not written.
SetThreshold(setting) ==
  /\ policy' = [policy EXCEPT ![setting[1]] = setting[2]]
  /\ file' \in {policy', file, Empty}
  /\ UNCHANGED <<window, agentPolicy, newest, wait, sample, past>>

\* A new agent has an empty window and a full interval to wait.
AgentRestart ==
  /\ window' = <<>> /\ past' = <<>>
  /\ agentPolicy' = AgentLoad(file)
  /\ wait' = Gap
  /\ sample' = NoSample
  /\ UNCHANGED <<policy, file, newest>>

ServiceRestart ==
  /\ policy' = Load(file)
  /\ UNCHANGED <<window, agentPolicy, file, newest, wait, sample, past>>

Next ==
  \/ Pass \/ Heartbeat \/ ReportEvent \/ AgentRestart \/ ServiceRestart
  \/ \E texts \in Screens, vision \in Visions, game \in BOOLEAN : Assess(texts, vision, game)
  \/ \E setting \in Settings : SetThreshold(setting)

Spec == Init /\ [][Next]_vars

-----------------------------------------------------------------------------
(* Properties.  They speak of a sample at the moment it is assessed; the last *)
(* element of past is that sample, the others are those before it.            *)

PastEntry == [texts : SUBSET Categories, raw : Categories, age : Nat]
SampleType ==
  [texts : SUBSET Categories, text : Result, game : BOOLEAN, raw : Result,
   category : Categories, confidence : Confidence, severity : Severities]

TypeOK ==
  /\ window \in Seq(Entry)
  /\ agentPolicy \in Thresholds /\ policy \in Thresholds
  /\ file = Empty \/ file \in Thresholds
  /\ newest = NoEvent \/ newest \in [category : Categories, confidence : Confidence,
                                     severity : Severities]
  /\ wait \in 0..Gap
  /\ sample = NoSample \/ sample \in SampleType
  /\ past \in Seq(PastEntry)

\* The samples before the current one that are recent enough to count: at most
\* WindowSize of them, none older than WindowMinutes.
Recent == {past[i] : i \in {j \in 1..(Len(past) - 1) :
              j >= Len(past) - WindowSize /\ past[j].age <= WindowMinutes}}

Assessed == sample # NoSample

\* Grooming is reported exactly when a request for secrecy is what a sample
\* comes down to and a recent sample came down to a request for personal
\* information: never from a sample that has left the window, from one the
\* agent saw before it restarted, or from the sample itself.
GroomingExact ==
  Assessed => (sample.category = Grooming
                 <=> /\ sample.raw.category = Secrecy
                     /\ \E e \in Recent : e.raw = Personal)

\* The confidence in a request for personal information is raised exactly when a
\* recent sample came down to one, too; without one the severity is what the
\* thresholds give the rule's own weight.
RepeatExact ==
  Assessed /\ sample.raw.category = Personal =>
    (sample.severity # SeverityOf(agentPolicy, sample.raw.confidence)
       => \E e \in Recent : e.raw = Personal)
    /\ ((\E e \in Recent : e.raw = Personal) => sample.confidence > sample.raw.confidence)

\* What stage 1 finds suspicious is dropped, and nothing of it stored, exactly when
\* the sample comes down to violence in a known game, no recent sample came down to
\* anything else, and the thresholds leave 20 percent safe, as the defaults do.  A
\* text that vision outweighs as violence is dropped with it, whatever it was about:
\* ContextEngine.h:20 has the finding stay LOW, and only without such a text.
DroppedExactly ==
  Assessed /\ Suspicious(sample.text) =>
    (sample.severity = "SAFE"
       <=> /\ sample.game
           /\ sample.raw.category = Violence
           /\ \A e \in Recent : e.raw \in {Violence, Unknown}
           /\ SeverityOf(agentPolicy, AtMost(sample.raw.confidence, 20)) = "SAFE")

-----------------------------------------------------------------------------
(* What documents and comments say, and the code does not do *)

\* SafetyPolicy.h:5 agent and service read the same thresholds "so they can
\* never disagree": an event is stored with the severity the service's
\* thresholds give its confidence.
StoredSeverityMatches ==
  [][newest' # newest => newest'.severity = SeverityOf(policy, newest'.confidence)]_vars

=============================================================================
