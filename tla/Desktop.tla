------------------------------- MODULE Desktop -------------------------------
(***************************************************************************)
(* One user's session: the settings window as a client of kidsos-policy,   *)
(* and the appearance the settings window and the launcher share through   *)
(* ~/.config/kidsos/settings.json.  The settings window asks for the       *)
(* parent's banner when a page is chosen and is blocked until the service  *)
(* has answered, which it cannot while a parent's password is awaited.     *)
(* Each of the two processes reads the appearance once, when it starts,    *)
(* and saves it in two steps; the other may run between them.              *)
(***************************************************************************)
EXTENDS Policy

CONSTANTS
  Window,   \* the settings window's connection
  NoPage,   \* a page that asks nothing, such as the first one
  Modes,    \* the appearances to choose from
  Named     \* the child's name is that of a group: see Accounts!HasOwnGroup

Processes == {"launcher", "window"}
Default == "light"
NoMode == "unset"

ASSUME WindowAssumption == Window \in Clients
ASSUME PageAssumption == NoPage \notin Keys
ASSUME ModesAssumption == {"light", "dark"} \subseteq Modes /\ NoMode \notin Modes
ASSUME NamedAssumption == Named \in BOOLEAN

VARIABLES
  child,    \* m_isChildAccount
  win,      \* the settings window: its page, its banner and its appearance
  launcher, \* m_appearanceMode of the launcher
  saved,    \* appearanceMode in settings.json
  saving,   \* what a process has emptied the file for and not yet written
  chosen    \* history: the appearance last chosen in either process, or
            \* "unset" if that choice was lost

lookVars == <<launcher, saved, saving, chosen>>
desktopVars == <<policyVars, child, win, lookVars>>

\* answer is history: whether the page's question was answered, and whether
\* its setting has changed since.
WindowState == [pc : {"closed", "open", "asking"}, page : Settings \union {NoPage},
                banner : BOOLEAN, answer : {"none", "current", "outdated"}, mode : Modes]
Closed == [pc |-> "closed", page |-> NoPage, banner |-> FALSE, answer |-> "none",
           mode |-> Default]

\* Type correctness of the session and of the service.
DesktopTypeOK ==
  /\ PolicyTypeOK
  /\ child \in BOOLEAN
  /\ win \in WindowState
  /\ launcher \in Modes
  /\ saved \in Modes \union {NoMode}
  /\ saving \in [Processes -> Modes \union {NoMode}]
  /\ chosen \in Modes \union {NoMode}

DesktopInit ==
  /\ PolicyInit
  /\ child \in BOOLEAN
  /\ win = Closed
  /\ launcher = Default
  /\ saved = NoMode
  /\ saving = [p \in Processes |-> NoMode]
  /\ chosen = Default

----------------------------------------------------------------------------
(* Appearance.                                                             *)

\* Mutant of Loaded: what is in the file is not looked at.
LoadedDefault(mode) == Default

\* What a starting process shows: an absent or unreadable mode is the default.
Loaded(mode) == IF mode = NoMode THEN Default ELSE mode

Idle(p) == saving[p] = NoMode

\* ~/.config/kidsos is the user's: a child's is still root's.
Owned == child => Named

\* The file is opened, which empties it, or cannot be; nobody is told.  With
\* two of them at it, either choice may be left, or none.
Save(p, mode) ==
  /\ Idle(p)
  /\ \/ /\ Owned
        /\ saved' = NoMode
        /\ saving' = [saving EXCEPT ![p] = mode]
        /\ chosen' = IF \A q \in Processes : Idle(q) THEN mode ELSE NoMode
        /\ UNCHANGED budget
     \/ /\ IF Owned THEN Spend("writeFail") ELSE UNCHANGED budget
        /\ chosen' = NoMode /\ UNCHANGED <<saved, saving>>

\* The text is written to the start of the file, where a longer one of the
\* other process leaves a tail that may make it unreadable.
SaveEnds(p) ==
  /\ ~Idle(p)
  /\ saving' = [saving EXCEPT ![p] = NoMode]
  /\ \/ /\ saved' = saving[p] \/ (saved # NoMode /\ saved' = NoMode)
        /\ UNCHANGED <<chosen, budget>>
     \/ /\ Spend("writeFail")
        /\ chosen' = NoMode /\ UNCHANGED saved
  /\ UNCHANGED <<file, serv, queue, replies, told, intact, child, win,
                 launcher>>

\* A process that ends between the two steps leaves the file empty.
Ends(p) ==
  /\ saving' = [saving EXCEPT ![p] = NoMode]
  /\ chosen' = IF Idle(p) THEN chosen ELSE NoMode

\* The quick-settings tile toggles; "system" shows as one of the other two.
QuickToggle ==
  \E mode \in {"light", "dark"} \ {launcher} :
    /\ launcher' = mode
    /\ Save("launcher", mode)
    /\ UNCHANGED <<file, serv, queue, replies, told, intact, child, win>>

ChooseAppearance(mode) ==
  /\ win.pc = "open" /\ win.page = NoPage
  /\ win' = [win EXCEPT !.mode = mode]
  /\ Save("window", mode)
  /\ UNCHANGED <<file, serv, queue, replies, told, intact, child, launcher>>

\* The launcher starts again, whatever the last one was doing.
LauncherStarts ==
  /\ launcher' = Loaded(saved)
  /\ Ends("launcher")
  /\ UNCHANGED <<policyVars, child, win, saved>>

----------------------------------------------------------------------------
(* The settings window.                                                    *)

WindowOpens ==
  /\ win.pc = "closed"
  /\ win' = [Closed EXCEPT !.pc = "open", !.mode = Loaded(saved)]
  /\ UNCHANGED <<policyVars, child, lookVars>>

WindowCloses ==
  /\ win.pc = "open"
  /\ win' = Closed
  /\ Ends("window")
  /\ UNCHANGED <<policyVars, child, launcher, saved>>

Question(page) == [op |-> "IsSettingParentManaged", key |-> page, value |-> "none",
                   from |-> Window]

\* The page of another category: the banner's binding is evaluated again, in a
\* parent's session without a question.
ChoosePage(page) ==
  /\ win.pc = "open" /\ page # win.page /\ Idle("window")
  /\ LET shown == [win EXCEPT !.page = page, !.banner = FALSE,
                                  !.answer = "current"] IN
       IF child /\ page # NoPage
       THEN /\ win' = [shown EXCEPT !.pc = "asking"]
            /\ PlaceCall(Window, Question(page))
       ELSE win' = shown /\ UNCHANGED policyVars
  /\ UNCHANGED <<child, lookVars>>

\* Mutant of PageShown: anything but a plain no is a banner.
PageShownUnlessFalse ==
  /\ win.pc = "asking"
  /\ ReadReply(Window)
  /\ win' = [win EXCEPT !.pc = "open", !.banner = replies[Window] # "false",
                        !.answer = IF replies[Window] = "error" THEN "none" ELSE @]
  /\ UNCHANGED <<child, lookVars>>

\* No service, an error and no answer in time show no banner.
PageShown ==
  /\ win.pc = "asking"
  /\ ReadReply(Window)
  /\ win' = [win EXCEPT !.pc = "open", !.banner = replies[Window] = "true",
                        !.answer = IF replies[Window] = "error" THEN "none" ELSE @]
  /\ UNCHANGED <<child, lookVars>>

\* The setting of the page changes after the answer for it was given.
Outdated == /\ win.answer = "current" /\ win.page \in Settings
            /\ told'[win.page] # told[win.page]
            /\ replies[Window] # "pending" \/ win.pc = "open"

\* The service, its crashes, and everybody else who calls it.
Elsewhere(step) ==
  /\ step
  /\ win' = IF Outdated THEN [win EXCEPT !.answer = "outdated"] ELSE win
  /\ UNCHANGED <<child, lookVars>>

Others ==
  \E c \in Clients \ {Window} :
    \/ \E call \in SetCall({c}) \union GetCall({c}) : PlaceCall(c, call)
    \/ ReadReply(c)

Environment == \/ WriteFails \/ Crash \/ Others
               \/ \E c \in Clients : GiveUp(c)

DesktopNext ==
  \/ Elsewhere(ServiceStep) \/ Elsewhere(Environment)
  \/ QuickToggle \/ LauncherStarts \/ \E p \in Processes : SaveEnds(p)
  \/ WindowOpens \/ WindowCloses \/ PageShown
  \/ \E page \in Settings \union {NoPage} : ChoosePage(page)
  \/ \E mode \in Modes : ChooseAppearance(mode)

\* Every call to polkit and to the service is over after 25 seconds at most.
DesktopFairness ==
  /\ WF_desktopVars(Elsewhere(ServiceStep))
  /\ WF_desktopVars(PageShown)

DesktopSpec == DesktopInit /\ [][DesktopNext]_desktopVars /\ DesktopFairness

----------------------------------------------------------------------------
(* Properties.                                                             *)

\* A page shows the parent's banner exactly in a child's session and for a
\* setting the last parent was told is managed, however its question was
\* queued behind parents' calls, and never after a question nobody answered;
\* excepted are a setting changed after the answer and a lost write.
BannerMatches ==
  intact /\ win.pc = "open" /\ win.page \in Settings =>
    /\ win.answer = "current" => (win.banner <=> child /\ told[win.page] = "managed")
    /\ win.answer = "none" => ~win.banner

\* What makes it so: the window has one question at most, for the page that it
\* waits to show, ...
OneQuestion ==
  \A i \in DOMAIN queue : queue[i].from = Window =>
    /\ queue[i] = Question(win.page)
    /\ win.pc = "asking" /\ replies[Window] = "pending"
    /\ \A j \in DOMAIN queue : queue[j].from = Window => i = j

\* ... and an answer to no other.
AskInv ==
  /\ OneQuestion
  /\ serv # Resting => serv.call.from # Window
  /\ win.pc = "asking" => child /\ win.page \in Settings /\ win.answer # "none"
  /\ win.pc # "asking" => replies[Window] = "pending"
  /\ replies[Window] \in {"pending", "true", "false", "error"}
  /\ intact /\ win.answer = "current" /\ replies[Window] \in {"true", "false"} =>
       (replies[Window] = "true" <=> told[win.page] = "managed")
  /\ win.banner => win.pc = "open" /\ child /\ win.answer # "none"

\* A page that asks is shown, whatever a parent does about a password prompt
\* and even if the service dies with the question.
PageOpens == win.pc = "asking" ~> win.pc = "open"

\* DESKTOP_SHELL.md:46 "survives a restart": a launcher or a settings window
\* that starts shows the appearance last chosen in either of them, unless that
\* choice was lost (the directory is not the user's, a write failed, a process
\* ended while it saved, both saved at once) or a save is half way.
ChoiceShown ==
  [][chosen # NoMode /\ (\A p \in Processes : Idle(p)) =>
       /\ launcher' # launcher /\ chosen' = chosen => launcher' = chosen
       /\ win.pc = "closed" /\ win'.pc = "open" => win'.mode = chosen]_desktopVars
=============================================================================
