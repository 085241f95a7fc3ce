----------------------------- MODULE Onboarding -----------------------------
(***************************************************************************)
(* The first-boot wizard, the only client of kidsos-auth in the setup      *)
(* session.  Ten screens lie on a stack: forward pushes the next one, back *)
(* pops the last one and forgets what it held.  Two screens make an        *)
(* account and wait for the answer, the last one closes setup and quits    *)
(* whatever it is answered.                                                *)
(*                                                                         *)
(* Pages are counted as in screenUrls; the stack holds pages 0 to `page`,  *)
(* but for those between `under` and the pairing screen.                   *)
(* What the parent and the child type is any of what the button accepts.   *)
(***************************************************************************)
EXTENDS Accounts

CONSTANTS PinLength,  \* digits the PIN screen asks for, 4
          NoLogin

\* The screen takes the shortest PIN the service accepts.
ASSUME LengthAssumption == PinLength = MinPin
ASSUME NoLoginAssumption == NoLogin \notin [role : Roles, secret : Secrets]

VARIABLES
  page,    \* the screen on top of the stack
  names,   \* appState: the two account names entered last
  pin,     \* the PIN screen: what it holds while it is on the stack
  late,    \* the PIN confirmed on a PIN screen that was left before its timer
  under    \* the screen below the pairing screen

wizardVars == <<page, names, pin, late, under>>
setupVars == <<accountVars, wizardVars>>

\* Indexes into screenUrls of the screens that do more than lead on.
AccountPage == 2
PasswordPage == 3
NamePage == 4
AvatarPage == 5
PinPage == 7
ConnectPage == 8
FinishPage == 9

PinState == [confirming : BOOLEAN, first : Entries, entry : Entries, timer : BOOLEAN]
FreshPin == [confirming |-> FALSE, first |-> <<>>, entry |-> <<>>, timer |-> FALSE]

SetupTypeOK ==
  /\ AccountsTypeOK
  /\ page \in 0 .. FinishPage
  /\ names \in [Roles -> Users \union {NoUser}]
  /\ page > AccountPage => names["parent"] \in Users
  /\ page > NamePage => names["child"] \in Users
  /\ pin \in PinState
  /\ Len(pin.first) <= PinLength /\ Len(pin.entry) <= PinLength
  /\ late \in Entries \union {NoSecret} /\ (late # NoSecret => Len(late) <= PinLength)
  /\ under \in AvatarPage .. PinPage

SetupInit ==
  /\ AccountsInit
  /\ page = 0
  /\ names = [r \in Roles |-> NoUser]
  /\ pin = FreshPin
  /\ late = NoSecret
  /\ under = PinPage

\* What the wizard knows is lost with it.
Forgotten ==
  /\ awaits' = "none"
  /\ page' = 0
  /\ names' = [r \in Roles |-> NoUser]
  /\ pin' = FreshPin
  /\ late' = NoSecret
  /\ under' = PinPage

\* The wizard runs and is not blocked in a call.
Responsive == setupUp /\ awaits = "none"

----------------------------------------------------------------------------
(* Moving between screens.                                                 *)

\* goToStep(stepIndex + 1): the next screen is a new one.
GoOn(at) ==
  /\ Responsive
  /\ page = at
  /\ page' = at + 1
  /\ pin' = IF page' = PinPage THEN FreshPin ELSE pin
  /\ UNCHANGED <<late, under>>

\* A screen whose button only leads on, once something is chosen on it.
LeadOn(at) == GoOn(at) /\ UNCHANGED <<accountVars, names>>

Welcome == LeadOn(0)
Language == LeadOn(1)
Avatar == LeadOn(5)
Age == LeadOn(6)
\* Pairing is a mock: connected, or skipped.
ParentConnect == LeadOn(ConnectPage)

\* A screen that asks for an account name.
EnterName(at, role) ==
  /\ GoOn(at)
  /\ \E u \in Users : names' = [names EXCEPT ![role] = u]
  /\ UNCHANGED accountVars

ParentAccount == EnterName(AccountPage, "parent")
Name == EnterName(NamePage, "child")

\* Both entries are typed and the timer runs: the next thing is the call.
Confirmed == page = PinPage /\ pin.timer /\ pin.confirming /\ pin.entry = pin.first

\* Mutant of GoBack: goBack does not look at the depth of the stack.
GoBackAnyhow ==
  /\ Responsive
  /\ page # FinishPage
  /\ page' = page - 1
  /\ pin' = IF page = PinPage THEN FreshPin ELSE pin
  /\ UNCHANGED <<accountVars, names, late, under>>

\* The back button or Escape.  A popped screen fades out for 500 ms and lives
\* as long: a PIN screen's timer of 220 ms still ends, which matters only
\* where it makes the call.  A bound: in those 220 ms nobody gets further
\* back than the avatar screen, whose buttons, like any, are dead meanwhile.
GoBack ==
  /\ Responsive
  /\ page \in 1 .. FinishPage - 1
  /\ page = AvatarPage => late = NoSecret
  /\ page' = IF page = ConnectPage THEN under ELSE page - 1
  /\ pin' = IF page = PinPage THEN FreshPin ELSE pin
  /\ late' = IF page = ConnectPage THEN NoSecret
             ELSE IF Confirmed THEN pin.first ELSE late
  /\ UNCHANGED <<accountVars, names, under>>

----------------------------------------------------------------------------
(* The screens that call kidsos-auth.                                      *)

SubmitParent ==
  /\ Responsive
  /\ page = PasswordPage
  /\ \E s \in Passwords : Send("parent", names["parent"], s)
  /\ UNCHANGED <<hostVars, setupUp, auth, budget, wizardVars>>

\* Mutant of ParentAnswered: the result of the call is not looked at.
ParentReturned ==
  /\ setupUp /\ page = PasswordPage
  /\ awaits \in {"true", "false"}
  /\ awaits' = "none"
  /\ page' = NamePage
  /\ UNCHANGED <<hostVars, setupUp, auth, inbox, budget, names, pin, late, under>>

\* Forward when the account was made, an error and another try when not.
ParentAnswered ==
  /\ setupUp /\ page = PasswordPage
  /\ awaits \in {"true", "false"}
  /\ awaits' = "none"
  /\ page' = IF awaits = "true" THEN NamePage ELSE page
  /\ UNCHANGED <<hostVars, setupUp, auth, inbox, budget, names, pin, late, under>>

\* A bound: nobody types on a new PIN screen while an old one's timer runs.
DigitPressed ==
  /\ Responsive
  /\ page = PinPage /\ late = NoSecret
  /\ Len(pin.entry) < PinLength
  /\ \E d \in Digits :
       pin' = [pin EXCEPT !.entry = Append(@, d),
                          !.timer = @ \/ Len(pin.entry) + 1 = PinLength]
  /\ UNCHANGED <<accountVars, page, names, late, under>>

\* It does not stop the timer that the last digit started.
Backspace ==
  /\ Responsive
  /\ page = PinPage
  /\ pin.entry # <<>>
  /\ pin' = [pin EXCEPT !.entry = SubSeq(@, 1, Len(@) - 1)]
  /\ UNCHANGED <<accountVars, page, names, late, under>>

\* evaluateEntry, 220 ms after the last digit: the entry becomes the one to
\* confirm, or differs from it, or confirms it and the child is created.
RememberEntry ==
  /\ Responsive
  /\ page = PinPage
  /\ pin.timer /\ ~pin.confirming
  /\ pin' = [FreshPin EXCEPT !.confirming = TRUE, !.first = pin.entry]
  /\ UNCHANGED <<accountVars, page, names, late, under>>

RejectEntry ==
  /\ Responsive
  /\ page = PinPage
  /\ pin.timer /\ pin.confirming /\ pin.entry # pin.first
  /\ pin' = FreshPin
  /\ UNCHANGED <<accountVars, page, names, late, under>>

SubmitChild ==
  /\ Responsive
  /\ Confirmed
  /\ Send("child", names["child"], pin.first)
  /\ pin' = [pin EXCEPT !.timer = FALSE]
  /\ UNCHANGED <<hostVars, setupUp, auth, budget, page, names, late, under>>

\* The same call, by the timer of a screen that was left in the meantime.
SubmitLate ==
  /\ Responsive
  /\ page \in AvatarPage .. PinPage /\ late # NoSecret
  /\ Send("child", names["child"], late)
  /\ UNCHANGED <<hostVars, setupUp, auth, budget, wizardVars>>

\* Forward, over whatever is on top, with the page left as it is; or an error
\* and a fresh entry, which nobody sees on a page that was left.
ChildAnswered ==
  /\ setupUp /\ page \in AvatarPage .. PinPage
  /\ awaits \in {"true", "false"}
  /\ awaits' = "none"
  /\ IF awaits = "true"
     THEN page' = ConnectPage /\ under' = page /\ UNCHANGED <<pin, late>>
     ELSE pin' = FreshPin /\ late' = NoSecret /\ UNCHANGED <<page, under>>
  /\ UNCHANGED <<hostVars, setupUp, auth, inbox, budget, names>>

CloseSetup ==
  /\ Responsive
  /\ page = FinishPage
  /\ Send("mark", NoUser, NoSecret)
  /\ UNCHANGED <<hostVars, setupUp, auth, budget, wizardVars>>

\* Whatever the answer, the wizard quits and its session with it; without
\* Relogin the login screen follows.
Quit ==
  /\ setupUp /\ page = FinishPage
  /\ awaits \in {"true", "false"}
  /\ setupUp' = FALSE
  /\ Forgotten
  /\ UNCHANGED <<hostVars, auth, inbox, budget>>

----------------------------------------------------------------------------
(* The machine.                                                            *)

\* The wizard dies and its session with it; its calls stay on the bus.
WizardCrash ==
  /\ setupUp
  /\ Spend("wizardCrash")
  /\ setupUp' = FALSE
  /\ Forgotten
  /\ UNCHANGED <<hostVars, auth, inbox>>

\* The setup session starts again, from the first screen, if its autologin
\* is still configured.
Reboot ==
  /\ Spend("reboot")
  /\ setupUp' = autologin
  /\ auth' = Idle
  /\ inbox' = <<>>
  /\ Forgotten
  /\ UNCHANGED hostVars

WizardStep ==
  \/ Welcome \/ Language \/ ParentAccount \/ Name \/ Avatar \/ Age
  \/ ParentConnect \/ GoBack
  \/ SubmitParent \/ SubmitChild \/ SubmitLate \/ CloseSetup
  \/ DigitPressed \/ Backspace \/ RememberEntry \/ RejectEntry

WizardReturns == ParentAnswered \/ ChildAnswered \/ Quit

SetupNext ==
  \/ AccountsStep /\ UNCHANGED wizardVars
  \/ WizardStep \/ WizardReturns \/ WizardCrash \/ Reboot

SetupSpec == SetupInit /\ [][SetupNext]_setupVars

\* Commands end or are killed, so the service goes on, and the bus delivers
\* in order, so others' calls do not keep one waiting for ever; the wizard's
\* event loop runs.  Nothing makes a person go on, and no fault must happen.
SetupFairness == /\ WF_setupVars(HandlerStep /\ UNCHANGED wizardVars)
                 /\ SF_setupVars(TakeCall /\ UNCHANGED wizardVars)
                 /\ WF_setupVars(WizardReturns)

FairSetupSpec == SetupSpec /\ SetupFairness

----------------------------------------------------------------------------
(* Properties.                                                             *)

\* u can log in in this role.
LogsIn(u, role) == linux[u] = role /\ secret[u] # NoSecret

\* The names typed last log in, in their roles: the parent past the password
\* screen, the child, with the PIN typed twice, past the PIN screen.
ParentIn == /\ linux[names["parent"]] = "parent"
            /\ secret[names["parent"]] \in Passwords
ChildPin == IF late # NoSecret THEN late ELSE pin.first
ChildIn == /\ linux[names["child"]] = "child"
           /\ secret[names["child"]] = ChildPin
           /\ Len(ChildPin) = PinLength

\* Past the screens that ask for them, the names and secrets last typed log
\* in, and the PIN has the length the login screen submits: they are not
\* those of an earlier try, an abandoned call or a session before a reboot.
TypedLogsIn == /\ page >= NamePage => ParentIn
               /\ page >= ConnectPage => ChildIn

\* A public profile gives the role of an account that can log in: it is
\* written last, whatever fails or dies before it.  (The login screen's cards
\* are SDDM's users; an account without a profile gets a bare one.)
ProfilesTell == \A u \in Users : profile[u] # "none" => LogsIn(u, profile[u])

\* The wizard never stays blocked: every call it makes returns, though the
\* service may die with it or the call may be given up.
CallsReturn == (awaits # "none") ~> (awaits = "none")

\* Who is about to complete setup: its handler opens the flag next.
Asker == IF auth.pc # "flag" THEN "nobody"
         ELSE IF auth.call.by = "setup" THEN "wizard" ELSE "other"

\* Who can log in, and whether setup is complete: module Family.
Fam == INSTANCE Family WITH
  logins <- [u \in Users |->
               IF linux[u] # "none" /\ secret[u] # NoSecret
               THEN [role |-> linux[u], secret |-> secret[u]] ELSE NoLogin],
  open <- ~flag,
  asker <- Asker

\* Setup keeps Family's promise: a login is made once and keeps its role,
\* setup is closed once, and the wizard has it closed only when a parent and
\* a child can log in; another process may have it closed at any time.
FamilySpec == Fam!FamilySpec

\* As a comment of the service says, the child's settings are handed over to
\* the child.
HandedOver == page >= ConnectPage => config[names["child"]] = "user"

----------------------------------------------------------------------------
(* The inductive invariant.                                                *)

Closable == \A r \in Roles : \E u \in Users : LogsIn(u, r)

\* What is not an account has no secret and no profile.
OnlyAccounts ==
  \A u \in Users : linux[u] = "none" => secret[u] = NoSecret /\ profile[u] = "none"

\* Calls of the setup session: to close only what may be closed.
CallOK(call) == call.op \in Roles \union {"mark"} /\ call.by = "setup"
                /\ (call.op = "mark" => Closable)

CallsOK ==
  /\ \A k \in 1 .. Len(inbox) : CallOK(inbox[k])
  /\ auth.pc # "idle" => \/ CallOK(auth.call)
                         \/ ~setupUp /\ auth.call.op # "mark" /\ auth.call.by = "parent"
                         \/ auth.call.op = "mark" /\ auth.call.by = "other"

\* How far a handler has got with its account; no name is used twice.
HandlerOK ==
  LET u == auth.call.user  op == auth.call.op IN
  /\ auth.pc \in {"flag", "rm"} => op = "mark"
  /\ auth.pc \in {"useradd", "chpasswd", "chown", "profile"} => ValidSecret(auth.call)
  /\ auth.pc = "chpasswd" /\ op # "pin" =>
       linux[u] = op /\ secret[u] = NoSecret /\ profile[u] = "none"
  /\ auth.pc \in {"chown", "profile"} =>
       linux[u] = op /\ secret[u] = auth.call.secret

\* The wizard waits for the call of the screen on top, or of the PIN screen
\* that was left for it.
IsCallOf(call) ==
  \/ page = PasswordPage /\ call.op = "parent" /\ call.user = names["parent"]
  \/ page \in AvatarPage .. PinPage /\ call.op = "child"
       /\ call.user = names["child"] /\ call.secret = ChildPin
  \/ page = FinishPage /\ call.op = "mark"

\* While the timer of a screen that was left runs, no other does.
LateAlone == late # NoSecret => ~pin.timer

CallingPages == {PasswordPage, FinishPage} \union AvatarPage .. PinPage

Awaited ==
  /\ awaits # "none" => setupUp /\ page \in CallingPages
  /\ awaits = "queued" => inbox # <<>> /\ IsCallOf(inbox[Len(inbox)])
  /\ awaits = "running" => inbox = <<>> /\ auth.pc # "idle" /\ IsCallOf(auth.call)
  /\ awaits = "true" => /\ page = PasswordPage => ParentIn
                        /\ page \in AvatarPage .. PinPage => ChildIn
  /\ ~setupUp => page = 0

\* Inductive; TypedLogsIn and the condition for closing are not by themselves.
IInv == /\ SetupTypeOK
        /\ TypedLogsIn
        /\ ProfilesTell
        /\ OnlyAccounts
        /\ CallsOK
        /\ HandlerOK
        /\ LateAlone
        /\ Awaited
============================================================================
