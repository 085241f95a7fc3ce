------------------------------ MODULE Greeter ------------------------------
(***************************************************************************)
(* The login screen, a theme of SDDM's greeter.  A card selects a user and *)
(* reads the public profile, whose role decides between a password field   *)
(* and a PIN pad.  The pad submits by itself, a moment after the fourth    *)
(* digit; SDDM answers later, and ignores what is submitted meanwhile.     *)
(*                                                                         *)
(* The daemon and PAM are external: an attempt is answered either way.     *)
(***************************************************************************)
EXTENDS Naturals, Sequences

CONSTANTS
  Users,       \* accounts with a card
  Profile,     \* the role in a user's public profile, or "none"
  Digits,      \* keys of the pad
  PadLength,   \* the length at which the pad submits, 4
  MaxEntry,    \* the most it holds, 8
  MaxReads,    \* bound: profile reads under way
  NoUser

ASSUME UserAssumption == NoUser \notin Users
ASSUME ProfileAssumption == Profile \in [Users -> {"parent", "child", "none"}]
ASSUME PadAssumption ==
  PadLength \in Nat /\ MaxEntry \in Nat /\ 0 < PadLength /\ PadLength <= MaxEntry

VARIABLES
  view,      \* state of the picker: cards or credentials
  shown,     \* the credentials are visible: they still are while they fade
  selected,  \* selectedUsername
  shows,     \* whose profile is selectedProfile
  reads,     \* users whose profiles are being read, in order
  entry,     \* digits on the pad
  timer,     \* submitTimer runs
  attempt,   \* the user SDDM authenticates
  error,     \* errorText
  session    \* a login succeeded: the greeter is gone

padVars == <<entry, timer>>
greeterVars == <<view, shown, selected, shows, reads, padVars, attempt, error, session>>

GreeterTypeOK ==
  /\ view \in {"cards", "credentials"}
  /\ shown \in BOOLEAN /\ timer \in BOOLEAN /\ session \in BOOLEAN
  /\ selected \in Users \union {NoUser} /\ shows \in Users \union {NoUser}
  /\ view = "credentials" => shown
  /\ shown => selected # NoUser /\ shows # NoUser
  /\ reads \in Seq(Users)
  /\ entry \in Seq(Digits) /\ Len(entry) <= MaxEntry
  /\ attempt \in Users \union {NoUser}
  /\ error \in {"none", "wrongPin", "wrongPassword"}

GreeterInit ==
  /\ view = "cards" /\ shown = FALSE
  /\ selected = NoUser /\ shows = NoUser /\ reads = <<>>
  /\ entry = <<>> /\ timer = FALSE
  /\ attempt = NoUser /\ error = "none" /\ session = FALSE

\* A profile that cannot be read counts as a child's.
RoleShown(u) == IF u # NoUser /\ Profile[u] = "parent" THEN "parent" ELSE "child"

PadVisible == shown /\ RoleShown(shows) = "child"

----------------------------------------------------------------------------
(* Choosing a user.                                                        *)

\* Mutant of Select: no second read while one is under way.
SelectOnce(u) ==
  /\ ~session /\ Len(reads) < MaxReads
  /\ selected' = u
  /\ error' = "none"
  /\ reads' = IF reads = <<>> THEN <<u>> ELSE reads
  /\ UNCHANGED <<view, shown, shows, padVars, attempt, session>>

\* Cards take clicks in either view: at opacity 0 they are only unseen.
Select(u) ==
  /\ ~session /\ Len(reads) < MaxReads
  /\ selected' = u
  /\ error' = "none"
  /\ reads' = Append(reads, u)
  /\ UNCHANGED <<view, shown, shows, padVars, attempt, session>>

\* Profiles are read in order; the credentials appear, for the role read.
\* The pad forgets its digits when it disappears.
ProfileRead ==
  /\ ~session /\ reads # <<>>
  /\ shows' = Head(reads)
  /\ reads' = Tail(reads)
  /\ view' = "credentials"
  /\ shown' = TRUE
  /\ entry' = IF PadVisible /\ RoleShown(Head(reads)) = "parent" THEN <<>> ELSE entry
  /\ UNCHANGED <<selected, timer, attempt, error, session>>

\* The arrow back to the cards, while the credentials are visible.
Back ==
  /\ ~session /\ shown
  /\ view' = "cards"
  /\ error' = "none"
  /\ UNCHANGED <<shown, selected, shows, reads, padVars, attempt, session>>

\* The credentials have faded away.
Faded ==
  /\ ~session /\ shown /\ view = "cards"
  /\ shown' = FALSE
  /\ entry' = IF PadVisible THEN <<>> ELSE entry
  /\ UNCHANGED <<view, selected, shows, reads, timer, attempt, error, session>>

----------------------------------------------------------------------------
(* Entering credentials.                                                   *)

\* Mutant of DigitPressed: the pad does not look at how much it holds.
DigitPressedAlways ==
  /\ ~session /\ PadVisible
  /\ \E d \in Digits : entry' = Append(entry, d)
  /\ timer' = (timer \/ Len(entry) + 1 = PadLength)
  /\ UNCHANGED <<view, shown, selected, shows, reads, attempt, error, session>>

\* Mutant of DigitPressed: the timer starts when the pad is full.
DigitPressedLate ==
  /\ ~session /\ PadVisible
  /\ Len(entry) < MaxEntry
  /\ \E d \in Digits : entry' = Append(entry, d)
  /\ timer' = (timer \/ Len(entry) + 1 = MaxEntry)
  /\ UNCHANGED <<view, shown, selected, shows, reads, attempt, error, session>>

\* The digit that makes the PIN complete starts the timer.
DigitPressed ==
  /\ ~session /\ PadVisible
  /\ Len(entry) < MaxEntry
  /\ \E d \in Digits : entry' = Append(entry, d)
  /\ timer' = (timer \/ Len(entry) + 1 = PadLength)
  /\ UNCHANGED <<view, shown, selected, shows, reads, attempt, error, session>>

Backspace ==
  /\ ~session /\ PadVisible
  /\ entry # <<>>
  /\ entry' = SubSeq(entry, 1, Len(entry) - 1)
  /\ UNCHANGED <<view, shown, selected, shows, reads, timer, attempt, error, session>>

\* sddm.login for the selected user; the daemon ignores it while it is busy.
AttemptLogin == attempt' = IF attempt = NoUser THEN selected ELSE attempt

\* 200 ms after the last digit, whatever the pad holds and shows by then.
SubmitPin ==
  /\ ~session /\ timer
  /\ timer' = FALSE
  /\ AttemptLogin
  /\ UNCHANGED <<view, shown, selected, shows, reads, entry, error, session>>

SubmitPassword ==
  /\ ~session /\ shown /\ RoleShown(shows) = "parent"
  /\ AttemptLogin
  /\ UNCHANGED <<view, shown, selected, shows, reads, padVars, error, session>>

\* Mutant of LoginFails: the pad keeps what was refused.
LoginFailsKeeping ==
  /\ ~session /\ attempt # NoUser
  /\ attempt' = NoUser
  /\ error' = IF RoleShown(shows) = "child" THEN "wrongPin" ELSE "wrongPassword"
  /\ UNCHANGED <<view, shown, selected, shows, reads, padVars, session>>

\* onLoginFailed speaks of the profile shown now and clears the pad.
LoginFails ==
  /\ ~session /\ attempt # NoUser
  /\ attempt' = NoUser
  /\ error' = IF RoleShown(shows) = "child" THEN "wrongPin" ELSE "wrongPassword"
  /\ entry' = <<>>
  /\ UNCHANGED <<view, shown, selected, shows, reads, timer, session>>

LoginSucceeds ==
  /\ ~session /\ attempt # NoUser
  /\ session' = TRUE
  /\ UNCHANGED <<view, shown, selected, shows, reads, padVars, attempt, error>>

\* kidsos-auth's SwitchToGreeter, or a logout: a new greeter.
SwitchToGreeter ==
  /\ session
  /\ view' = "cards" /\ shown' = FALSE
  /\ selected' = NoUser /\ shows' = NoUser /\ reads' = <<>>
  /\ entry' = <<>> /\ timer' = FALSE
  /\ attempt' = NoUser /\ error' = "none" /\ session' = FALSE

Person == Back \/ DigitPressed \/ Backspace \/ SubmitPassword \/ \E u \in Users : Select(u)
Answers == LoginFails \/ LoginSucceeds

GreeterNext == Person \/ ProfileRead \/ Faded \/ SubmitPin \/ Answers \/ SwitchToGreeter

GreeterSpec == GreeterInit /\ [][GreeterNext]_greeterVars

\* Timers, reads and animations end, and SDDM answers; people need not act.
FairGreeterSpec == /\ GreeterSpec
                   /\ WF_greeterVars(ProfileRead) /\ WF_greeterVars(Faded)
                   /\ WF_greeterVars(SubmitPin) /\ WF_greeterVars(Answers)

----------------------------------------------------------------------------
(* Properties.                                                             *)

\* A full pad is never stuck: it will be submitted, or the attempt that is
\* under way will clear it, though the timer starts at one length only and
\* SDDM may ignore a submission.
PadNeverStuck == Len(entry) >= PadLength => timer \/ attempt # NoUser

\* So a full pad empties or lets its user in.
FullPadDrains == Len(entry) >= PadLength ~> (Len(entry) < PadLength \/ session)

\* Once all reads are done the credentials are those of the selected user,
\* however many cards were clicked meanwhile.
CardMatches == shown /\ reads = <<>> => shows = selected

\* Inductive: the selected user is the one whose profile was asked for last.
PadInv == /\ GreeterTypeOK
          /\ PadNeverStuck
          /\ reads # <<>> => selected = reads[Len(reads)]
          /\ reads = <<>> => shows = selected
          /\ timer => selected # NoUser
============================================================================
