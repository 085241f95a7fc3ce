---------------------------- MODULE SamplerProofs ----------------------------
(***************************************************************************)
(* Proofs about Sampler, for every interval, every set of portal handles   *)
(* and every behaviour of the portal: at most one sample runs, samples are *)
(* an interval apart, and a sample looks at its own screenshot; and about  *)
(* ActiveWindow: a sample is answered by no line from before its question. *)
(***************************************************************************)
EXTENDS ActiveWindow, TLAPS, SequenceTheorems

Typed ==
  /\ backend \in {"portal", "x11"}
  /\ due \in -Interval..Interval
  /\ since \in 0..Interval
  /\ got \in BOOLEAN
  /\ uri \in Requests \cup {NoRequest}
  /\ sub \subseteq Requests
  /\ posted \subseteq Response
  /\ open \subseteq Requests
  /\ files \subseteq Requests
  /\ crashes \in 0..MaxCrashes

\* A sample runs exactly while the flag is set.
Idle == busy = FALSE /\ stack = <<>>
One  == busy = TRUE /\ \E f \in Frame : stack = <<f>>

\* The deadline is never nearer than what is left of the interval.
Spaced == since = Interval \/ due + since >= Interval

\* What the capture's shared members may hold, by where the sample is: answers
\* reach it only between its subscription and its end, and only its own.
Clean == sub = {} /\ posted = {}
Asking(f) ==
  /\ f.image = NoRequest
  /\ f.pc \in {"lock", "capture"} => Clean
  /\ f.pc = "subscribe" => Clean /\ uri = NoRequest
  /\ f.pc \in {"subscribe", "wait", "quit"} => f.req \in Requests
  /\ f.pc \in {"wait", "quit"} =>
       /\ sub = {f.req}
       /\ uri \in {NoRequest, f.req}
       /\ \A p \in posted : p.req = f.req
Done(f) == f.image \in {Screen, f.req} /\ sub = {}

Captured ==
  /\ stack = <<>> => sub = {}
  /\ \A f \in Frame : stack = <<f>> =>
       IF f.pc \in {"analyse", "report"} THEN Done(f) ELSE Asking(f)

Inv == Typed /\ (Idle \/ One) /\ Spaced /\ Captured

-----------------------------------------------------------------------------
(* The stack of one frame *)

LEMMA FrameTop ==
  ASSUME NEW f, stack = <<f>>
  PROVE  /\ Len(stack) = 1 /\ top = f /\ stack # <<>>
         /\ SubSeq(stack, 1, Len(stack) - 1) = <<>>
BY DEF top

LEMMA FrameStep ==
  ASSUME NEW f \in Frame, stack = <<f>>, NEW pc \in PCs, Step(pc)
  PROVE  stack' = <<[f EXCEPT !.pc = pc]>> /\ [f EXCEPT !.pc = pc] \in Frame
BY DEF Step, Frame

LEMMA FrameEnd ==
  ASSUME NEW f, stack = <<f>>, EndSample
  PROVE  stack' = <<>> /\ busy' = FALSE
BY DEF EndSample

\* A running sample is the only frame, and its place is the frame's.
LEMMA TheFrame ==
  ASSUME Inv, NEW pc, Running(pc)
  PROVE  \E f \in Frame : stack = <<f>> /\ f.pc = pc /\ busy = TRUE
BY FrameTop DEF Inv, Idle, One, Running

\* A stack that does not change keeps everything said of it.
LEMMA SameFrame ==
  ASSUME Captured, stack' = stack, UNCHANGED <<uri, sub, posted>>
  PROVE  Captured'
BY DEF Captured, Asking, Done, Clean

-----------------------------------------------------------------------------
(* Each step preserves the invariant *)

LEMMA InitInv == Init => Inv
<1> SUFFICES ASSUME Init PROVE Inv
  OBVIOUS
<1>0. due = Interval /\ since = Interval /\ crashes = 0
  BY DEF Init, Started
<1>1. due \in -Interval..Interval /\ since \in 0..Interval /\ crashes \in 0..MaxCrashes
  BY <1>0, IntervalAssumption, CrashAssumption DEF IntervalAssumption, CrashAssumption
<1>2. Typed
  BY <1>1 DEF Init, Typed
<1>3. Idle /\ Spaced /\ Captured
  BY DEF Init, Idle, Spaced, Captured
<1> QED
  BY <1>2, <1>3 DEF Inv

LEMMA PassInv == Inv /\ Pass => Inv'
<1> SUFFICES ASSUME Inv, Pass PROVE Inv'
  OBVIOUS
<1>1. Typed' /\ Spaced'
  BY IntervalAssumption DEF Inv, Pass, Typed, Spaced, IntervalAssumption
<1>2. (Idle \/ One)'
  BY DEF Inv, Pass, Idle, One
<1>3. Captured'
  BY SameFrame DEF Inv, Pass
<1> QED
  BY <1>1, <1>2, <1>3 DEF Inv

LEMMA NewFrameTyped == NewFrame \in Frame
BY DEF NewFrame, Frame, PCs

LEMMA TickInv == Inv /\ Tick => Inv'
<1> SUFFICES ASSUME Inv, Tick PROVE Inv'
  OBVIOUS
<1>0. stack = <<>>
  BY DEF Inv, Tick, Idle, One
<1>1. stack' = <<NewFrame>> /\ busy' = TRUE /\ posted = {} /\ sub = {}
  BY <1>0 DEF Inv, Tick, Captured
<1>2. Typed' /\ Spaced'
  BY IntervalAssumption DEF Inv, Tick, Typed, Spaced, IntervalAssumption
<1>3. One'
  BY <1>1, NewFrameTyped DEF One
<1>4. Asking(NewFrame)' /\ NewFrame.pc = "lock"
  BY <1>1 DEF Asking, NewFrame, Clean, Tick
<1>5. Captured'
  BY <1>1, <1>4 DEF Captured
<1> QED
  BY <1>2, <1>3, <1>5 DEF Inv

\* The end of a sample, whatever it did, once its subscription is gone.
LEMMA EndInv ==
  ASSUME Inv, NEW pc, Running(pc), EndSample, Typed', sub' = {},
         UNCHANGED <<due, since>>
  PROVE  Inv'
<1>1. stack' = <<>> /\ busy' = FALSE
  BY TheFrame, FrameEnd
<1>2. Idle' /\ Captured' /\ Spaced'
  BY <1>1 DEF Idle, Captured, Spaced, Inv
<1> QED
  BY <1>2 DEF Inv

\* A sample that goes on.
LEMMA StepInv ==
  ASSUME Inv, NEW f \in Frame, busy' = TRUE, Typed', stack' = <<f>>,
         UNCHANGED <<due, since>>,
         (IF f.pc \in {"analyse", "report"} THEN Done(f) ELSE Asking(f))'
  PROVE  Inv'
<1>1. One'
  BY DEF One
<1>2. Captured'
  BY DEF Captured
<1>3. Spaced'
  BY DEF Inv, Spaced
<1> QED
  BY <1>1, <1>2, <1>3 DEF Inv

\* The samples' own steps, apart from the capture's, change nothing shared.
LEMMA StillTyped ==
  ASSUME Typed, UNCHANGED <<backend, due, since, got, uri, sub, posted, open, files, crashes>>
  PROVE  Typed'
BY DEF Typed

\* The members of the capture before a request is made.
LEMMA BeforeAsking ==
  ASSUME Inv, NEW f \in Frame, stack = <<f>>
  PROVE  IF f.pc \in {"analyse", "report"} THEN Done(f) ELSE Asking(f)
BY DEF Inv, Captured

LEMMA LockCheckInv == Inv /\ LockCheck => Inv'
<1> SUFFICES ASSUME Inv, LockCheck PROVE Inv'
  OBVIOUS
<1>1. PICK f \in Frame : stack = <<f>> /\ f.pc = "lock" /\ busy = TRUE
  BY TheFrame DEF LockCheck
<1>2. Asking(f) /\ Clean
  BY <1>1, BeforeAsking DEF Asking
<1>3. Typed'
  BY StillTyped DEF Inv, LockCheck
<1>4. CASE EndSample
  <2>1. sub' = {} /\ Running("lock")
    BY <1>2 DEF LockCheck, Clean
  <2> QED
    BY <1>3, <1>4, <2>1, EndInv DEF LockCheck
<1>5. CASE Step("capture") /\ UNCHANGED busy
  <2> DEFINE g == [f EXCEPT !.pc = "capture"]
  <2>1. stack' = <<g>> /\ g \in Frame
    BY <1>1, <1>5, FrameStep DEF PCs
  <2>2. g.pc = "capture" /\ g.image = f.image
    BY DEF Frame
  <2>3. Asking(g)'
    BY <1>2, <2>2 DEF Asking, Clean, LockCheck
  <2> HIDE DEF g
  <2> QED
    BY <1>1, <1>3, <1>5, <2>1, <2>2, <2>3, StepInv DEF LockCheck
<1> QED
  BY <1>4, <1>5 DEF LockCheck

LEMMA GrabX11Inv == Inv /\ GrabX11 => Inv'
<1> SUFFICES ASSUME Inv, GrabX11 PROVE Inv'
  OBVIOUS
<1>1. PICK f \in Frame : stack = <<f>> /\ f.pc = "capture" /\ busy = TRUE
  BY TheFrame DEF GrabX11
<1>2. Asking(f) /\ Clean
  BY <1>1, BeforeAsking DEF Asking
<1>3. Typed'
  BY StillTyped DEF Inv, GrabX11
<1>4. CASE EndSample
  <2>1. sub' = {} /\ Running("capture")
    BY <1>2 DEF GrabX11, Clean
  <2> QED
    BY <1>3, <1>4, <2>1, EndInv DEF GrabX11
<1>5. CASE /\ stack' = [stack EXCEPT ![Len(stack)].pc = "analyse",
                                     ![Len(stack)].image = Screen]
           /\ UNCHANGED busy
  <2> DEFINE g == [f EXCEPT !.pc = "analyse", !.image = Screen]
  <2>1. stack' = <<g>>
    BY <1>1, <1>5
  <2>2. g \in Frame /\ g.pc = "analyse" /\ g.image = Screen
    BY DEF Frame, PCs
  <2>3. Done(g)'
    BY <1>2, <2>2 DEF Done, Clean, GrabX11
  <2> HIDE DEF g
  <2> QED
    BY <1>1, <1>3, <1>5, <2>1, <2>2, <2>3, StepInv DEF GrabX11
<1> QED
  BY <1>4, <1>5 DEF GrabX11

LEMMA CallPortalInv ==
  ASSUME Inv, NEW r \in Requests, CallPortal(r)
  PROVE  Inv'
<1>1. PICK f \in Frame : stack = <<f>> /\ f.pc = "capture" /\ busy = TRUE
  BY TheFrame DEF CallPortal
<1>2. Asking(f) /\ Clean /\ f.image = NoRequest
  BY <1>1, BeforeAsking DEF Asking
<1>3. Typed'
  BY DEF Inv, CallPortal, Typed
<1> DEFINE g == [f EXCEPT !.pc = "subscribe", !.req = r]
<1>4. stack' = <<g>>
  BY <1>1 DEF CallPortal
<1>5. g \in Frame /\ g.pc = "subscribe" /\ g.image = NoRequest /\ g.req = r
  BY <1>2 DEF Frame, PCs
<1>6. Asking(g)'
  BY <1>2, <1>5 DEF Asking, Clean, CallPortal
<1> HIDE DEF g
<1> QED
  BY <1>1, <1>3, <1>4, <1>5, <1>6, StepInv DEF CallPortal

LEMMA CallFailsInv == Inv /\ CallFails => Inv'
<1> SUFFICES ASSUME Inv, CallFails PROVE Inv'
  OBVIOUS
<1>1. PICK f \in Frame : stack = <<f>> /\ f.pc = "capture" /\ busy = TRUE
  BY TheFrame DEF CallFails
<1>2. Asking(f) /\ Clean
  BY <1>1, BeforeAsking DEF Asking
<1>3. Typed'
  BY StillTyped DEF Inv, CallFails
<1>4. sub' = {}
  BY <1>2 DEF CallFails, Clean
<1> QED
  BY <1>3, <1>4, EndInv DEF CallFails

LEMMA SubscribeInv == Inv /\ Subscribe => Inv'
<1> SUFFICES ASSUME Inv, Subscribe PROVE Inv'
  OBVIOUS
<1>1. PICK f \in Frame : stack = <<f>> /\ f.pc = "subscribe" /\ busy = TRUE
  BY TheFrame DEF Subscribe
<1>2. Asking(f) /\ Clean /\ uri = NoRequest /\ f.image = NoRequest /\ f.req \in Requests
  BY <1>1, BeforeAsking DEF Asking
<1>3. CASE EndSample /\ UNCHANGED sub
  <2>1. Typed' /\ sub' = {}
    BY <1>2, <1>3, StillTyped DEF Inv, Subscribe, Clean
  <2> QED
    BY <1>3, <2>1, EndInv DEF Subscribe
<1>4. CASE sub' = sub \cup {top.req} /\ Step("wait") /\ UNCHANGED busy
  <2> DEFINE g == [f EXCEPT !.pc = "wait"]
  <2>1. stack' = <<g>> /\ g \in Frame
    BY <1>1, <1>4, FrameStep DEF PCs
  <2>2. g.pc = "wait" /\ g.image = f.image /\ g.req = f.req
    BY DEF Frame
  <2>3. sub' = {f.req}
    BY <1>1, <1>2, <1>4, FrameTop DEF Clean
  <2>4. Asking(g)'
    BY <1>2, <2>2, <2>3 DEF Asking, Clean, Subscribe
  <2>5. Typed'
    BY <1>2, <2>3 DEF Inv, Typed, Subscribe
  <2> HIDE DEF g
  <2> QED
    BY <1>1, <1>4, <2>1, <2>2, <2>4, <2>5, StepInv DEF Subscribe
<1> QED
  BY <1>3, <1>4 DEF Subscribe

LEMMA PortalRespondsInv ==
  ASSUME Inv, NEW r \in open, NEW ok \in BOOLEAN, PortalResponds(r, ok)
  PROVE  Inv'
<1>1. Typed' /\ Spaced'
  BY DEF Inv, Typed, Spaced, PortalResponds, Response
<1>2. (Idle \/ One)'
  BY DEF Inv, Idle, One, PortalResponds
<1>3. posted' = posted \/ (r \in sub /\ posted' = posted \cup {[req |-> r, ok |-> ok]})
  BY DEF PortalResponds
<1>4. stack' = stack /\ UNCHANGED <<uri, sub>>
  BY DEF PortalResponds
<1>5. ASSUME NEW f \in Frame, stack = <<f>>, ~(f.pc \in {"analyse", "report"}), Asking(f)
      PROVE  Asking(f)'
  <2>1. sub = {} => posted' = posted
    BY <1>3
  <2>2. f.pc \in {"wait", "quit"} => \A p \in posted' : p.req = f.req
    BY <1>3, <1>5 DEF Asking
  <2> QED
    BY <1>4, <1>5, <2>1, <2>2 DEF Asking, Clean
<1>6. Captured'
  BY <1>4, <1>5 DEF Inv, Captured, Done
<1> QED
  BY <1>1, <1>2, <1>6 DEF Inv

LEMMA DeliverInv ==
  ASSUME Inv, NEW p \in posted, Deliver(p)
  PROVE  Inv'
<1>1. Typed' /\ Spaced'
  BY DEF Inv, Typed, Spaced, Deliver, Response
<1>2. CASE stack = <<>>
  <2>1. stack' = <<>> /\ sub' = {} /\ busy' = busy
    BY <1>2 DEF Deliver, QuitLoop, Running, Inv, Captured
  <2> QED
    BY <1>1, <1>2, <2>1 DEF Inv, Idle, One, Captured
<1>3. CASE stack # <<>>
  <2>1. PICK f \in Frame : stack = <<f>> /\ f.pc \in {"wait", "quit"} /\ busy = TRUE
    BY <1>3, TheFrame DEF Deliver, InLoop
  <2>2. Asking(f)
    BY <2>1, BeforeAsking
  <2> DEFINE g == [f EXCEPT !.pc = "quit"]
  <2>3. stack' = <<g>>
    <3>1. CASE f.pc = "wait"
      BY <2>1, <3>1, FrameTop, FrameStep DEF Deliver, QuitLoop, Running, PCs
    <3>2. CASE f.pc = "quit"
      BY <2>1, <3>2, FrameTop DEF Deliver, QuitLoop, Running, Frame
    <3> QED
      BY <2>1, <3>1, <3>2
  <2>4. g \in Frame /\ g.pc = "quit" /\ g.req = f.req /\ g.image = f.image
    BY DEF Frame, PCs
  <2>5. p.req = f.req
    BY <2>1, <2>2 DEF Asking
  <2>6. Asking(g)'
    BY <2>1, <2>2, <2>4, <2>5 DEF Asking, Clean, Deliver
  <2> HIDE DEF g
  <2> QED
    BY <1>1, <2>1, <2>3, <2>4, <2>6, StepInv DEF Deliver
<1> QED
  BY <1>2, <1>3

LEMMA PortalTimeoutInv == Inv /\ PortalTimeout => Inv'
<1> SUFFICES ASSUME Inv, PortalTimeout PROVE Inv'
  OBVIOUS
<1>1. PICK f \in Frame : stack = <<f>> /\ f.pc = "wait" /\ busy = TRUE
  BY TheFrame DEF PortalTimeout
<1>2. Asking(f)
  BY <1>1, BeforeAsking
<1>3. Typed'
  BY StillTyped DEF Inv, PortalTimeout
<1> DEFINE g == [f EXCEPT !.pc = "quit"]
<1>4. stack' = <<g>> /\ g \in Frame
  BY <1>1, FrameStep DEF PortalTimeout, PCs
<1>5. g.pc = "quit" /\ g.req = f.req /\ g.image = f.image
  BY DEF Frame
<1>6. Asking(g)'
  BY <1>1, <1>2, <1>5 DEF Asking, Clean, PortalTimeout
<1> HIDE DEF g
<1> QED
  BY <1>1, <1>3, <1>4, <1>5, <1>6, StepInv DEF PortalTimeout

LEMMA ReadScreenshotInv == Inv /\ ReadScreenshot => Inv'
<1> SUFFICES ASSUME Inv, ReadScreenshot PROVE Inv'
  OBVIOUS
<1>1. PICK f \in Frame : stack = <<f>> /\ f.pc = "quit" /\ busy = TRUE
  BY TheFrame DEF ReadScreenshot
<1>2. Asking(f) /\ sub = {f.req} /\ uri \in {NoRequest, f.req}
  BY <1>1, BeforeAsking DEF Asking
<1>3. sub' = {}
  BY <1>1, <1>2, FrameTop DEF ReadScreenshot
<1>4. files' \subseteq files
  BY DEF ReadScreenshot
<1>5. Typed'
  BY <1>3, <1>4 DEF Inv, Typed, ReadScreenshot
<1>6. CASE EndSample
  BY <1>3, <1>5, <1>6, EndInv DEF ReadScreenshot
<1>7. CASE /\ uri # NoRequest
           /\ stack' = [stack EXCEPT ![Len(stack)].pc = "analyse",
                                     ![Len(stack)].image = uri]
           /\ UNCHANGED busy
  <2> DEFINE g == [f EXCEPT !.pc = "analyse", !.image = f.req]
  <2>0. uri = f.req
    BY <1>2, <1>7
  <2>1. stack' = <<g>>
    BY <1>1, <1>7, <2>0
  <2>2. g \in Frame /\ g.pc = "analyse" /\ g.image = f.req /\ g.req = f.req
    BY <1>2, <1>7 DEF Frame, PCs, Inv, Typed
  <2>3. Done(g)'
    BY <1>3, <2>2 DEF Done
  <2> HIDE DEF g
  <2> QED
    BY <1>1, <1>5, <1>7, <2>1, <2>2, <2>3, StepInv DEF ReadScreenshot
<1> QED
  BY <1>6, <1>7 DEF ReadScreenshot

LEMMA AnalyseInv == Inv /\ Analyse => Inv'
<1> SUFFICES ASSUME Inv, Analyse PROVE Inv'
  OBVIOUS
<1>1. PICK f \in Frame : stack = <<f>> /\ f.pc = "analyse" /\ busy = TRUE
  BY TheFrame DEF Analyse
<1>2. Done(f)
  BY <1>1, BeforeAsking
<1>3. Typed'
  BY StillTyped DEF Inv, Analyse
<1> DEFINE g == [f EXCEPT !.pc = "report"]
<1>4. stack' = <<g>> /\ g \in Frame
  BY <1>1, FrameStep DEF Analyse, PCs
<1>5. g.pc = "report" /\ g.req = f.req /\ g.image = f.image
  BY DEF Frame
<1>6. Done(g)'
  BY <1>2, <1>5 DEF Done, Analyse
<1> HIDE DEF g
<1> QED
  BY <1>1, <1>3, <1>4, <1>5, <1>6, StepInv DEF Analyse

LEMMA ReportInv == Inv /\ Report => Inv'
<1> SUFFICES ASSUME Inv, Report PROVE Inv'
  OBVIOUS
<1>1. PICK f \in Frame : stack = <<f>> /\ f.pc = "report"
  BY TheFrame DEF Report
<1>2. Done(f)
  BY <1>1, BeforeAsking
<1>3. Typed' /\ sub' = {}
  BY <1>2, StillTyped DEF Inv, Report, Done
<1> QED
  BY <1>3, EndInv DEF Report

LEMMA CrashInv == Inv /\ Crash => Inv'
<1> SUFFICES ASSUME Inv, Crash PROVE Inv'
  OBVIOUS
<1>1. Idle' /\ Captured'
  BY DEF Crash, Idle, Captured
<1>2. due' = Interval /\ since' = since /\ crashes' = crashes + 1 /\ crashes < MaxCrashes
  BY DEF Crash
<1>3. /\ due' \in -Interval..Interval /\ since' \in 0..Interval
      /\ due' + since' >= Interval /\ crashes' \in 0..MaxCrashes
  BY <1>2, IntervalAssumption, CrashAssumption
  DEF Inv, Typed, IntervalAssumption, CrashAssumption
<1>4. Typed' /\ Spaced'
  BY <1>3 DEF Crash, Inv, Typed, Spaced
<1> QED
  BY <1>1, <1>4 DEF Inv

LEMMA StutterInv == Inv /\ UNCHANGED vars => Inv'
<1> SUFFICES ASSUME Inv, UNCHANGED vars PROVE Inv'
  OBVIOUS
<1>1. Typed' /\ (Idle \/ One)' /\ Spaced'
  BY DEF Inv, vars, agent, Typed, Idle, One, Spaced
<1>2. Captured'
  BY SameFrame DEF Inv, vars, agent
<1> QED
  BY <1>1, <1>2 DEF Inv

LEMMA NextInv == Inv /\ [Next]_vars => Inv'
<1> SUFFICES ASSUME Inv, [Next]_vars PROVE Inv'
  OBVIOUS
<1>1. CASE Sample
  BY <1>1, LockCheckInv, GrabX11Inv, CallPortalInv, CallFailsInv, SubscribeInv,
     PortalTimeoutInv, ReadScreenshotInv, AnalyseInv, ReportInv DEF Sample
<1> QED
  BY <1>1, PassInv, TickInv, CrashInv, DeliverInv, PortalRespondsInv, StutterInv DEF Next

-----------------------------------------------------------------------------
(* The theorems *)

\* The invariant behind the four theorems that follow: which frames the stack has,
\* how far the deadline is, and whose answers the capture's members can hold.
THEOREM Invariance == Spec => []Inv
BY InitInv, NextInv, PTL DEF Spec

LEMMA InvTypes == Inv => TypeOK
<1> SUFFICES ASSUME Inv PROVE TypeOK
  OBVIOUS
<1>1. stack \in Seq(Frame) /\ busy \in BOOLEAN
  <2>1. <<>> \in Seq(Frame)
    BY EmptySeq
  <2>2. \A f \in Frame : <<f>> \in Seq(Frame)
    OBVIOUS
  <2>3. CASE Idle
    BY <2>1, <2>3 DEF Idle
  <2>4. CASE One
    BY <2>2, <2>4 DEF One
  <2> QED
    BY <2>3, <2>4 DEF Inv
<1> QED
  BY <1>1 DEF Inv, Typed, TypeOK

\* There is at most one frame, and its image is its own request's.
LEMMA InvFrame == Inv => OneSample /\ OwnScreenshot
<1>1. Inv => OneSample
  BY FrameTop DEF Inv, Idle, One, OneSample
<1>2. Inv => OwnScreenshot
  <2> SUFFICES ASSUME Inv, NEW i \in DOMAIN stack
               PROVE  stack[i].image \in {NoRequest, Screen, stack[i].req}
    BY DEF OwnScreenshot
  <2>1. PICK f \in Frame : stack = <<f>>
    BY DEF Inv, Idle, One
  <2>2. stack[i] = f
    BY <2>1
  <2>3. f.image \in {NoRequest, Screen, f.req}
    BY <2>1, BeforeAsking DEF Done, Asking
  <2> QED
    BY <2>2, <2>3
<1> QED
  BY <1>1, <1>2

\* The variables keep their types: SafetyScheduler's deadline is at most an
\* interval away, and the capture's members name requests it made.
THEOREM TypeCorrect == Spec => []TypeOK
BY InvTypes, Invariance, PTL

\* SafetyScheduler.h "Overlap prevention": no sample starts inside another,
\* although the capture runs an event loop that delivers the scheduler's timer.
THEOREM NoOverlap == Spec => []OneSample
BY InvFrame, Invariance, PTL

\* WaylandPortalCapture.cpp:42: a sample looks at the screenshot it asked for,
\* however late or out of turn the portal answers.
THEOREM ScreenshotIsOwn == Spec => []OwnScreenshot
BY InvFrame, Invariance, PTL

\* A sample starts only when an interval has passed since the last one did.
LEMMA StartsSpaced ==
  ASSUME Inv, [Next]_vars
  PROVE  [stack = <<>> /\ stack' # <<>> => since = Interval]_vars
<1> SUFFICES ASSUME Inv, Next, stack = <<>>, stack' # <<>> PROVE since = Interval
  BY DEF vars, agent
<1>1. Tick
  BY DEF Next, Sample, Pass, Crash, LockCheck, GrabX11, CallFails, Subscribe,
     PortalTimeout, ReadScreenshot, Analyse, Report, CallPortal, Running,
     Deliver, QuitLoop, PortalResponds
<1>2. due <= 0 /\ Typed /\ Spaced
  BY <1>1 DEF Tick, Inv
<1> QED
  BY <1>2, IntervalAssumption DEF Typed, Spaced, IntervalAssumption

\* SafetyScheduler.cpp:46 "no burst of catch-up samples": the starts of two
\* samples are an interval of the clock apart, crashes of the agent included.
THEOREM NoBurst == Spec => Spacing
<1>1. Inv /\ [Next]_vars =>
        [stack = <<>> /\ stack' # <<>> => since = Interval]_vars
  BY StartsSpaced
<1> QED
  BY <1>1, Invariance, PTL DEF Spec, Spacing

-----------------------------------------------------------------------------
(* The active application. *)

LEMMA AgentStep == [AgentNext]_agentVars => [Next]_vars
BY DEF AgentNext, agentVars, Provider, AskX11, NothingLearnt, LoadScript, RunScript, ReadLine,
   NoLineInTime, SwitchTo, JournalWrites, OtherWrites, KWinRestarts, SampleGoesOn, AgentDies, AgentTicks,
   TimePasses, PortalSteps, Next

\* An agent that asks for the application samples as Sampler says.
THEOREM AgentSamples == AgentSpec => Init /\ [][Next]_vars
BY AgentStep, PTL DEF AgentSpec, AgentInit

LEMMA AgentInvariance == AgentSpec => []Inv
BY AgentSamples, InitInv, NextInv, PTL

\* So what holds of the samples holds while providers ask, windows change, the
\* journal is late and KWin restarts in between.
THEOREM AgentKeepsSamples ==
  AgentSpec => [](TypeOK /\ OneSample /\ OwnScreenshot) /\ Spacing
<1>1. Inv /\ [Next]_vars =>
        [stack = <<>> /\ stack' # <<>> => since = Interval]_vars
  BY StartsSpaced
<1> QED
  BY <1>1, InvTypes, InvFrame, AgentInvariance, AgentSamples, PTL DEF Spacing

AskTyped ==
  /\ ask \in Questions /\ front \in Shown
  /\ line \in Shown \cup {NoLine} /\ late \in Shown \cup {NoLine}

\* A line on its way to the journal is of the running sample, or nobody reads it.
LateOnly ==
  late # NoLine => \A f \in Frame : stack = <<f>> =>
    f.pc = "report" \/ (f.pc = "analyse" /\ ask.pc \in {"read", "done"})

Heard ==
  /\ Listening => front \in ask.seen
  /\ IF ask.new = NoLine THEN ask.told = {} ELSE ask.new \in ask.seen \cup ask.told
  /\ ask.pc = "run" => late = NoLine
  /\ ask.pc = "read" /\ late # NoLine => late \in ask.seen
  /\ ask.app # NoApp => ask.app \in ask.seen \cup ask.told

AskInv == AskTyped /\ LateOnly /\ Heard

LEMMA InitAsk == AgentInit => AskInv
BY DEF AgentInit, AskInv, AskTyped, LateOnly, Heard, Listening, NotAsked, Questions, Shown

\* While a provider asks, the frame is the one that analyses.
LEMMA Analysing ==
  ASSUME Inv, NEW pc, AskAt(pc)
  PROVE  \E f \in Frame : stack = <<f>> /\ f.pc = "analyse"
BY TheFrame DEF AskAt

LEMMA ProviderAsk ==
  ASSUME Inv, AskInv, Provider
  PROVE  AskInv'
<1>0. AskTyped /\ LateOnly /\ Heard /\ NoApp \in Shown /\ stack' = stack
      /\ NoLine \notin Shown
  BY WindowsAssumption
  DEF AskInv, Shown, WindowsAssumption, Provider, AskX11, NothingLearnt, LoadScript, RunScript,
      ReadLine, NoLineInTime, vars, agent
<1>1. CASE AskX11
  <2>1. late = NoLine
    BY <1>0, <1>1, Analysing DEF AskX11, AskAt, LateOnly
  <2>2. PICK app \in {front, NoApp} : ask' = [Question("done", NoLine) EXCEPT !.app = app]
    BY <1>1 DEF AskX11
  <2>3. /\ ask'.pc = "done" /\ ask'.seen = {front} /\ ask'.app = app /\ ask' \in Questions
        /\ ask'.new = NoLine /\ ask'.told = {}
    BY <1>0, <2>2 DEF AskTyped, Question, Questions, Shown
  <2>4. UNCHANGED desktop
    BY <1>1 DEF AskX11
  <2> QED
    BY <1>0, <2>1, <2>3, <2>4 DEF AskInv, AskTyped, LateOnly, Heard, Listening, desktop
<1>2. CASE NothingLearnt
  <2>1. late = NoLine
    BY <1>0, <1>2, Analysing DEF NothingLearnt, AskAt, LateOnly
  <2> QED
    BY <1>0, <1>2, <2>1
    DEF NothingLearnt, AskInv, AskTyped, LateOnly, Heard, Listening, Question, Questions, Shown
<1>3. CASE LoadScript
  <2>1. late = NoLine
    BY <1>0, <1>3, Analysing DEF LoadScript, AskAt, LateOnly
  <2> QED
    BY <1>0, <1>3, <2>1
    DEF LoadScript, AskInv, AskTyped, LateOnly, Heard, Listening, Question, Questions, Shown
<1>4. CASE RunScript
  <2>1. late = NoLine
    BY <1>0, <1>4, Analysing DEF RunScript, AskAt, LateOnly
  <2>2. PICK f \in Frame : stack = <<f>> /\ f.pc = "analyse"
    BY <1>4, Analysing DEF RunScript
  <2>3. /\ ask.pc = "run" /\ ask' = [ask EXCEPT !.pc = "read"] /\ late' \in {NoLine, front}
        /\ UNCHANGED <<front, line>>
    BY <1>4, <2>1 DEF RunScript, AskAt
  <2>4. /\ ask'.pc = "read" /\ ask'.seen = ask.seen /\ ask'.told = ask.told
        /\ ask'.new = ask.new /\ ask'.app = ask.app /\ ask' \in Questions
    BY <1>0, <2>3 DEF AskTyped, Questions
  <2>5. LateOnly'
    BY <1>0, <2>2, <2>4 DEF LateOnly
  <2> QED
    BY <1>0, <2>3, <2>4, <2>5 DEF AskInv, AskTyped, Heard, Listening
<1>5. CASE ReadLine \/ NoLineInTime
  <2>1. PICK f \in Frame : stack = <<f>> /\ f.pc = "analyse"
    BY <1>5, Analysing DEF ReadLine, NoLineInTime
  <2>2. ask.pc = "read" /\ UNCHANGED desktop
    BY <1>5 DEF ReadLine, NoLineInTime, AskAt
  <2>3. ask'.pc = "done" /\ ask'.seen = ask.seen /\ ask'.told = ask.told /\ ask'.new = ask.new
        /\ (ask'.app = ask.app \/ (ask.new # NoLine /\ ask'.app = ask.new))
    BY <1>0, <1>5 DEF ReadLine, NoLineInTime, AskTyped, Questions
  <2>4. ask \in Questions
    BY <1>0 DEF AskTyped
  <2>5. ask' \in Questions
    BY <1>5, <2>4 DEF ReadLine, NoLineInTime, Questions
  <2>6. LateOnly'
    BY <1>0, <2>1, <2>3 DEF LateOnly
  <2> QED
    BY <1>0, <2>2, <2>3, <2>5, <2>6 DEF AskInv, AskTyped, Heard, Listening, desktop
<1> QED
  BY <1>1, <1>2, <1>3, <1>4, <1>5 DEF Provider

\* A step that asks nothing, or forgets the question, and writes no line.
LEMMA QuietAsk ==
  ASSUME AskInv, UNCHANGED desktop, ask' \in {ask, NotAsked}, LateOnly'
  PROVE  AskInv'
<1>1. CASE ask' = ask
  BY <1>1 DEF AskInv, AskTyped, Heard, Listening, desktop
<1>2. CASE ask' = NotAsked
  <2>1. ask'.pc = "none" /\ ask'.app = NoApp /\ ask'.new = NoLine /\ ask'.told = {}
        /\ ask' \in Questions
    BY <1>2 DEF NotAsked, Questions, Shown
  <2> QED
    BY <2>1 DEF AskInv, AskTyped, Heard, Listening, desktop
<1> QED
  BY <1>1, <1>2

LEMMA AgentAsk ==
  ASSUME Inv, AskInv, [AgentNext]_agentVars
  PROVE  AskInv'
<1>0. AskTyped /\ LateOnly /\ Heard /\ NoLine \notin Shown
  BY WindowsAssumption DEF AskInv, Shown, WindowsAssumption
<1>1. CASE Provider
  BY <1>1, ProviderAsk
<1>2. CASE SampleGoesOn
  <2>1. CASE late = NoLine
    BY <1>2, <2>1, QuietAsk DEF SampleGoesOn, desktop, LateOnly
  <2>2. CASE late # NoLine
    <3>1. PICK pc : Running(pc)
      BY <1>2 DEF SampleGoesOn, Sample, LockCheck, GrabX11, CallFails, Subscribe, PortalTimeout,
         ReadScreenshot, Analyse, Report, CallPortal
    <3>2. PICK f \in Frame : stack = <<f>> /\ f.pc = pc
      BY <3>1, TheFrame
    <3>3. f.pc \in {"report", "analyse"} /\ top = f
      BY <1>0, <2>2, <3>2, FrameTop DEF LateOnly
    <3>4. Analyse \/ Report
      BY <1>2, <3>3 DEF SampleGoesOn, Sample, LockCheck, GrabX11, CallFails, Subscribe,
         PortalTimeout, ReadScreenshot, CallPortal, Running
    <3>5. CASE Analyse
      <4>1. stack' = <<[f EXCEPT !.pc = "report"]>>
        BY <3>2, <3>5, FrameStep DEF Analyse, PCs
      <4>2. \A g : stack' = <<g>> => g.pc = "report"
        BY <3>2, <4>1 DEF Frame
      <4>3. LateOnly'
        BY <4>2 DEF LateOnly
      <4> QED
        BY <1>2, <4>3, QuietAsk DEF SampleGoesOn
    <3>6. CASE Report
      <4>1. stack' = <<>>
        BY <3>2, <3>6, FrameEnd DEF Report
      <4>2. LateOnly'
        BY <4>1 DEF LateOnly
      <4> QED
        BY <1>2, <4>2, QuietAsk DEF SampleGoesOn
    <3> QED
      BY <3>4, <3>5, <3>6
  <2> QED
    BY <2>1, <2>2
<1>3. CASE AgentDies
  <2>1. LateOnly'
    BY <1>3 DEF AgentDies, Crash, LateOnly
  <2> QED
    BY <1>3, <2>1, QuietAsk DEF AgentDies
<1>4. CASE AgentTicks
  <2>1. LateOnly'
    BY <1>4 DEF AgentTicks, LateOnly, desktop
  <2> QED
    BY <1>4, <2>1, QuietAsk DEF AgentTicks
<1>5. ASSUME stack' = stack, UNCHANGED <<desktop, ask>> PROVE AskInv'
  <2>1. LateOnly'
    BY <1>0, <1>5 DEF LateOnly, desktop
  <2> QED
    BY <1>5, <2>1, QuietAsk
<1>6. CASE TimePasses
  BY <1>5, <1>6 DEF TimePasses, Pass
<1>7. CASE PortalSteps
  <2>1. CASE stack' = stack
    BY <1>5, <1>7, <2>1 DEF PortalSteps
  <2>2. CASE Running("wait")
    <3>0. PICK f \in Frame : stack = <<f>> /\ f.pc = "wait"
      BY <2>2, TheFrame
    <3>1. late = NoLine
      BY <1>0, <3>0 DEF LateOnly
    <3>2. LateOnly'
      BY <1>7, <3>1 DEF PortalSteps, desktop, LateOnly
    <3> QED
      BY <1>7, <3>2, QuietAsk DEF PortalSteps
  <2> QED
    BY <1>7, <2>1, <2>2 DEF PortalSteps, Deliver, QuitLoop, PortalResponds
<1>8. CASE JournalWrites
  <2>1. late # NoLine /\ line' = late /\ late' = NoLine /\ front' = front
        /\ ask' = IF Listening THEN [ask EXCEPT !.new = Behind(late)] ELSE ask
    BY <1>8 DEF JournalWrites
  <2>2. Listening => ask.pc = "read" /\ late \in ask.seen
    BY <1>0, <2>1 DEF Heard, Listening
  <2>3. /\ ask'.pc = ask.pc /\ ask'.seen = ask.seen /\ ask'.told = ask.told
        /\ ask'.app = ask.app /\ ask' \in Questions
        /\ ask'.new = ask.new \/ (ask'.new = late /\ late \in ask.seen)
    BY <1>0, <2>1, <2>2 DEF AskTyped, Questions, Behind
  <2>4. late \in Shown /\ late # NoLine
    BY <1>0, <2>1 DEF AskTyped
  <2> QED
    BY <1>0, <2>1, <2>3, <2>4 DEF AskInv, AskTyped, LateOnly, Heard, Listening
<1>9. CASE KWinRestarts
  <2>1. UNCHANGED <<stack, front, late, line, ask>>
    BY <1>9 DEF KWinRestarts, vars, agent
  <2> QED
    BY <1>0, <2>1 DEF AskInv, AskTyped, LateOnly, Heard, Listening
<1>10. ASSUME NEW app \in Shown \ {front}, SwitchTo(app) PROVE AskInv'
  <2>1. /\ front' = app /\ UNCHANGED <<stack, late, line>>
        /\ ask' = IF Listening THEN [ask EXCEPT !.seen = @ \cup {app}] ELSE ask
    BY <1>10 DEF SwitchTo, vars, agent
  <2>2. /\ ask'.pc = ask.pc /\ ask'.new = ask.new /\ ask'.app = ask.app /\ ask' \in Questions
        /\ ask.seen \subseteq ask'.seen /\ ask'.told = ask.told
        /\ Listening => app \in ask'.seen
    BY <1>0, <2>1 DEF AskTyped, Questions
  <2> QED
    BY <1>0, <2>1, <2>2 DEF AskInv, AskTyped, LateOnly, Heard, Listening
<1>12. ASSUME NEW app \in Shown, OtherWrites(app) PROVE AskInv'
  <2>1. /\ line' = app /\ UNCHANGED <<stack, front, late>>
        /\ ask' = IF Listening /\ ask.new = NoLine
                  THEN [ask EXCEPT !.new = app, !.told = {app}] ELSE ask
    BY <1>12 DEF OtherWrites, vars, agent
  <2>2. CASE ask' = ask
    BY <1>0, <2>1, <2>2 DEF AskInv, AskTyped, LateOnly, Heard, Listening
  <2>3. CASE ask.new = NoLine /\ Listening /\ ask' = [ask EXCEPT !.new = app, !.told = {app}]
    <3>1. /\ ask'.pc = ask.pc /\ ask'.seen = ask.seen /\ ask'.app = ask.app
          /\ ask'.new = app /\ ask'.told = {app} /\ ask' \in Questions
      BY <1>0, <2>3 DEF AskTyped, Questions
    <3>2. ask.app # NoApp => ask.app \in ask.seen
      BY <1>0, <2>3 DEF Heard
    <3> QED
      BY <1>0, <2>1, <2>3, <3>1, <3>2 DEF AskInv, AskTyped, LateOnly, Heard, Listening
  <2> QED
    BY <2>1, <2>2, <2>3
<1>11. CASE UNCHANGED agentVars
  BY <1>5, <1>11 DEF agentVars, vars, agent
<1> QED
  BY <1>1, <1>2, <1>3, <1>4, <1>6, <1>7, <1>8, <1>9, <1>10, <1>11, <1>12 DEF AgentNext

\* IActiveApplicationProvider.h:5: an application a sample names was in front
\* while it asked, or the first line behind the cursor was another process's and
\* named it; no line from before the question is taken for the answer.
THEOREM AnswersAreCurrent == AgentSpec => []AnswerIsCurrent
<1>1. AskInv => AnswerIsCurrent
  BY DEF AskInv, Heard, AnswerIsCurrent
<1> QED
  BY <1>1, AgentInvariance, AgentAsk, InitAsk, PTL DEF AgentSpec
=============================================================================
