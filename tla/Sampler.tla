------------------------------- MODULE Sampler -------------------------------
(***************************************************************************)
(* One safety agent in a child's session: the scheduler that starts a      *)
(* sample every Interval (SafetyScheduler.cpp) and the capture that asks   *)
(* the desktop portal for a screenshot and waits for it in an event loop   *)
(* of its own (WaylandPortalCapture.cpp).  The agent has one thread.  While*)
(* a D-Bus call blocks it, no event is delivered; while the capture waits, *)
(* the nested loop delivers every event of the thread, the scheduler's     *)
(* timer included, so a sample could start inside a sample: samples are a  *)
(* stack of frames, the last of which runs.                                *)
(* What a sample makes of its screenshot is the module Assessment.         *)
(***************************************************************************)
EXTENDS Integers, Sequences, FiniteSets

CONSTANTS Interval,     \* m_intervalMs, in units of the bound below
          Requests,     \* handles of portal requests; reused once forgotten
          NoRequest,
          Screen,       \* the image an X11 grab returns
          MaxCrashes    \* bound: crashes of the agent

ASSUME IntervalAssumption == Interval \in Nat \ {0}
ASSUME RequestAssumption == NoRequest \notin Requests /\ Screen \notin Requests
                            /\ NoRequest # Screen
ASSUME CrashAssumption == MaxCrashes \in Nat

VARIABLES
  backend,    \* m_capture: "portal" (Wayland) or "x11"
  due,        \* m_nextFireAtMs - now; the overdue part is cut at -Interval
  since,      \* history: time since the last sample began, cut at Interval
  busy,       \* m_busy
  stack,      \* the calls of runSample on the thread's stack, innermost last
  got, uri,   \* m_gotResponse, m_resultUri (as the request it belongs to)
  sub,        \* requests whose Response signal is subscribed to
  posted,     \* responses queued for the agent's thread
  open,       \* requests the portal still works on
  files,      \* screenshots on disk
  crashes

agent  == <<due, since, busy, stack, got, uri, sub, posted>>
vars   == <<backend, agent, open, files, crashes>>

PCs == {"lock", "capture", "subscribe", "wait", "quit", "analyse", "report"}

Frame    == [pc : PCs, req : Requests \cup {NoRequest},
             image : Requests \cup {NoRequest, Screen}]
Response == [req : Requests, ok : BOOLEAN]

-----------------------------------------------------------------------------
(* The scheduler *)

Started == due = Interval                       \* SafetyScheduler::start

Init ==
  /\ backend \in {"portal", "x11"}
  /\ Started
  /\ since = Interval
  /\ busy = FALSE
  /\ stack = <<>>
  /\ got = FALSE /\ uri = NoRequest /\ sub = {} /\ posted = {}
  /\ open = {} /\ files = {}
  /\ crashes = 0

top == stack[Len(stack)]
Running(pc) == stack # <<>> /\ top.pc = pc

\* The thread is in an event loop: the application's, or the capture's.
InLoop == stack = <<>> \/ Running("wait") \/ Running("quit")

\* One unit of CLOCK_MONOTONIC, which stands still while the machine sleeps.
Pass ==
  /\ due' = IF due > -Interval THEN due - 1 ELSE due
  /\ since' = IF since < Interval THEN since + 1 ELSE since
  /\ UNCHANGED <<backend, busy, stack, got, uri, sub, posted, open, files, crashes>>

NewFrame == [pc |-> "lock", req |-> NoRequest, image |-> NoRequest]

\* Mutant of Tick: it does not look at m_busy.
TickAnyway ==
  /\ InLoop
  /\ stack = <<>> => posted = {}
  /\ due <= 0
  /\ due' = Interval
  /\ since' = 0
  /\ busy' = TRUE
  /\ stack' = Append(stack, NewFrame)
  /\ UNCHANGED <<backend, got, uri, sub, posted, open, files, crashes>>

\* Mutant of Tick: the next deadline is computed from the missed one.
TickCatchingUp ==
  /\ InLoop
  /\ stack = <<>> => posted = {}
  /\ ~busy
  /\ due <= 0
  /\ due' = due + Interval
  /\ since' = 0
  /\ busy' = TRUE
  /\ stack' = Append(stack, NewFrame)
  /\ UNCHANGED <<backend, got, uri, sub, posted, open, files, crashes>>

\* Mutant of Tick: the interval is counted twice.
TickTwice ==
  /\ InLoop
  /\ stack = <<>> => posted = {}
  /\ ~busy
  /\ due <= 0
  /\ due' = 2 * Interval
  /\ since' = 0
  /\ busy' = TRUE
  /\ stack' = Append(stack, NewFrame)
  /\ UNCHANGED <<backend, got, uri, sub, posted, open, files, crashes>>

\* housekeepingTick when the deadline has passed; the other ticks return at
\* once.  Queued responses are delivered before timers, and none is queued for
\* a thread that subscribes to none, so the application's loop ticks with an
\* empty queue.
Tick ==
  /\ InLoop
  /\ stack = <<>> => posted = {}
  /\ ~busy
  /\ due <= 0
  /\ due' = Interval
  /\ since' = 0
  /\ busy' = TRUE
  /\ stack' = Append(stack, NewFrame)
  /\ UNCHANGED <<backend, got, uri, sub, posted, open, files, crashes>>

\* The running sample goes on at pc.
Step(pc) == stack' = [stack EXCEPT ![Len(stack)].pc = pc]

\* runSample returns, early or at its end, and the callback of main.cpp calls
\* sampleFinished whatever the sample did.
EndSample ==
  /\ stack' = SubSeq(stack, 1, Len(stack) - 1)
  /\ busy' = FALSE

-----------------------------------------------------------------------------
(* A sample: the capture *)

\* isSessionLocked: any answer; a screen saver that cannot be asked counts as
\* unlocked, and the call may block for as long as it likes.
LockCheck ==
  /\ Running("lock")
  /\ UNCHANGED <<backend, due, since, got, uri, sub, posted, open, files, crashes>>
  /\ \/ Step("capture") /\ UNCHANGED busy
     \/ EndSample

\* X11Capture: the whole desktop, or nothing without a screen.
GrabX11 ==
  /\ Running("capture")
  /\ backend = "x11"
  /\ UNCHANGED <<backend, due, since, got, uri, sub, posted, open, files, crashes>>
  /\ \/ /\ stack' = [stack EXCEPT ![Len(stack)].pc = "analyse",
                                  ![Len(stack)].image = Screen]
        /\ UNCHANGED busy
     \/ EndSample

\* A handle nothing refers to any more.
Forgotten(r) ==
  /\ r \notin open \cup files \cup sub \cup {uri}
  /\ \A p \in posted : p.req # r
  /\ \A i \in DOMAIN stack : r \notin {stack[i].req, stack[i].image}

\* Mutant of CallPortal: the earlier answer is not forgotten.
CallPortalOnly(r) ==
  /\ Running("capture")
  /\ backend = "portal"
  /\ Forgotten(r)
  /\ open' = open \cup {r}
  /\ stack' = [stack EXCEPT ![Len(stack)].pc = "subscribe", ![Len(stack)].req = r]
  /\ UNCHANGED <<backend, due, since, busy, got, uri, sub, posted, files, crashes>>

\* The Screenshot call succeeds, and the answer of an earlier request is
\* forgotten before this one is waited for.
CallPortal(r) ==
  /\ Running("capture")
  /\ backend = "portal"
  /\ Forgotten(r)
  /\ open' = open \cup {r}
  /\ got' = FALSE
  /\ uri' = NoRequest
  /\ stack' = [stack EXCEPT ![Len(stack)].pc = "subscribe", ![Len(stack)].req = r]
  /\ UNCHANGED <<backend, due, since, busy, sub, posted, files, crashes>>

\* Mutant of CallFails: an early return that skips sampleFinished.
CallFailsBusy ==
  /\ Running("capture")
  /\ backend = "portal"
  /\ stack' = SubSeq(stack, 1, Len(stack) - 1)
  /\ UNCHANGED <<backend, due, since, busy, got, uri, sub, posted, open, files, crashes>>

\* No portal, or its call failed: an empty image, and the sample is skipped.
CallFails ==
  /\ Running("capture")
  /\ backend = "portal"
  /\ EndSample
  /\ UNCHANGED <<backend, due, since, got, uri, sub, posted, open, files, crashes>>

\* The subscription follows the call: a Response in between is lost.
Subscribe ==
  /\ Running("subscribe")
  /\ UNCHANGED <<backend, due, since, got, uri, posted, open, files, crashes>>
  /\ \/ sub' = sub \cup {top.req} /\ Step("wait") /\ UNCHANGED busy
     \/ EndSample /\ UNCHANGED sub

\* The portal answers when it likes, having written the screenshot if it made
\* one.  A signal nobody subscribes to reaches nobody.
PortalResponds(r, ok) ==
  /\ r \in open
  /\ open' = open \ {r}
  /\ files' = IF ok THEN files \cup {r} ELSE files
  /\ posted' = IF r \in sub THEN posted \cup {[req |-> r, ok |-> ok]} ELSE posted
  /\ UNCHANGED <<backend, due, since, busy, stack, got, uri, sub, crashes>>

\* The waiting loop, if one runs, is told to quit.
QuitLoop == IF Running("wait") THEN Step("quit") ELSE UNCHANGED stack

\* handlePortalResponse, from whichever loop delivers the event: a queued
\* response outlives its subscription.
Deliver(p) ==
  /\ InLoop
  /\ p \in posted
  /\ posted' = posted \ {p}
  /\ got' = TRUE
  /\ uri' = IF p.ok THEN p.req ELSE uri
  /\ QuitLoop
  /\ UNCHANGED <<backend, due, since, busy, sub, open, files, crashes>>

\* Mutant of PortalTimeout: the wait has no timer.
PortalTimeoutNever ==
  /\ Running("wait")
  /\ got
  /\ Step("quit")
  /\ UNCHANGED <<backend, due, since, busy, got, uri, sub, posted, open, files, crashes>>

\* kPortalTimeoutMs after the wait began.
PortalTimeout ==
  /\ Running("wait")
  /\ Step("quit")
  /\ UNCHANGED <<backend, due, since, busy, got, uri, sub, posted, open, files, crashes>>

\* The loop has returned: disconnect, then read the screenshot and remove it.
ReadScreenshot ==
  /\ Running("quit")
  /\ sub' = sub \ {top.req}
  /\ UNCHANGED <<backend, due, since, got, uri, posted, open, crashes>>
  /\ IF got /\ uri # NoRequest
       THEN /\ files' = files \ {uri}
            /\ \/ /\ uri \in files
                  /\ stack' = [stack EXCEPT ![Len(stack)].pc = "analyse",
                                            ![Len(stack)].image = uri]
                  /\ UNCHANGED busy
               \/ EndSample                        \* it cannot be read
       ELSE EndSample /\ UNCHANGED files

-----------------------------------------------------------------------------
(* A sample: the rest, and the death of the agent *)

\* Active application, OCR, rules, vision, combine, adjust: no event loop runs.
Analyse ==
  /\ Running("analyse")
  /\ Step("report")
  /\ UNCHANGED <<backend, due, since, busy, got, uri, sub, posted, open, files, crashes>>

\* Heartbeat or ReportEvent, answered or not.
Report ==
  /\ Running("report")
  /\ EndSample
  /\ UNCHANGED <<backend, due, since, got, uri, sub, posted, open, files, crashes>>

\* Restart=on-failure: a new agent starts with a full interval to wait.  What
\* the portal does and what is on disk survives it.
Crash ==
  /\ crashes < MaxCrashes
  /\ crashes' = crashes + 1
  /\ due' = Interval
  /\ busy' = FALSE
  /\ stack' = <<>>
  /\ got' = FALSE /\ uri' = NoRequest /\ sub' = {} /\ posted' = {}
  /\ UNCHANGED <<backend, since, open, files>>

Sample ==
  \/ LockCheck \/ GrabX11 \/ CallFails \/ Subscribe \/ PortalTimeout
  \/ ReadScreenshot \/ Analyse \/ Report
  \/ \E r \in Requests : CallPortal(r)

Next ==
  \/ Pass \/ Tick \/ Sample \/ Crash
  \/ \E p \in posted : Deliver(p)
  \/ \E r \in open, ok \in BOOLEAN : PortalResponds(r, ok)

\* The clock runs, timers fire, and every blocking call is over after 25 s at
\* most.  Nothing is assumed of the portal.
Fairness ==
  /\ WF_vars(Pass)
  /\ WF_vars(Tick)
  /\ WF_vars(Sample)
  /\ WF_vars(\E p \in posted : Deliver(p))

Spec == Init /\ [][Next]_vars /\ Fairness

-----------------------------------------------------------------------------
(* Properties *)

TypeOK ==
  /\ backend \in {"portal", "x11"}
  /\ due \in -Interval..Interval
  /\ since \in 0..Interval
  /\ busy \in BOOLEAN
  /\ stack \in Seq(Frame)
  /\ got \in BOOLEAN
  /\ uri \in Requests \cup {NoRequest}
  /\ sub \subseteq Requests
  /\ posted \subseteq Response
  /\ open \subseteq Requests
  /\ files \subseteq Requests
  /\ crashes \in 0..MaxCrashes

\* SafetyScheduler.h: "Overlap prevention": although the capture delivers the
\* scheduler's own timer while it waits, no sample starts inside another, and
\* the flag that prevents it is set exactly while a sample runs.
OneSample == Len(stack) = (IF busy THEN 1 ELSE 0)

\* No burst of catch-up samples: however late a sample starts, whatever blocked
\* the one before it and whether or not the agent crashed between them, a full
\* interval of the clock lies between the starts of two samples.
Spacing == [][stack = <<>> /\ stack' # <<>> => since = Interval]_vars

\* A sample analyses the screenshot it asked for itself, never the late answer
\* to an earlier request whose file is still there.
OwnScreenshot ==
  \A i \in DOMAIN stack :
    stack[i].image \in {NoRequest, Screen, stack[i].req}

\* Every sample ends, whatever the portal, the screen saver and the services do.
SamplesEnd == busy ~> ~busy

\* Sampling never stops: another sample always begins.
SamplesGoOn == stack = <<>> ~> stack # <<>>

\* WaylandPortalCapture.cpp:74 "never leave a copy on disk": when no sample
\* runs, no screenshot is left.
NothingLeft == stack = <<>> => files = {}

=============================================================================
