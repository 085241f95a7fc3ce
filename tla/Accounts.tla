------------------------------ MODULE Accounts ------------------------------
(***************************************************************************)
(* kidsos-auth: the root service that makes the family's Linux accounts.   *)
(* It handles one call at a time by running useradd, chpasswd and chown    *)
(* and writing two files; a handler is cut where a failing command, a      *)
(* crash or a reboot leaves the work half done.  Nothing is ever undone.   *)
(*                                                                         *)
(* A password stands for any text of at least eight characters; a PIN is   *)
(* the sequence of its digits.                                             *)
(***************************************************************************)
EXTENDS Naturals, Sequences

CONSTANTS
  Users,      \* account names
  GroupNames, \* those of them that are names of groups of the system
  Passwords,  \* what a parent may choose
  Digits,     \* keys of a PIN pad
  MinPin, MaxPin,  \* length of a PIN, 4 and 8 in pinPattern
  NoUser, NoSecret,
  Faults,     \* the kinds of fault that may occur
  MaxFaults   \* how many of them may occur in a behaviour

FaultKinds == {"useradd", "chpasswd", "profile", "flag", "rm", "timeout",
               "authCrash", "wizardCrash", "reboot"}

\* Strings of digits a pad can hold.
Entries == UNION {[1 .. n -> Digits] : n \in 0 .. MaxPin}
Secrets == Passwords \union Entries

ASSUME PinAssumption == MinPin \in Nat /\ MaxPin \in Nat /\ MinPin <= MaxPin
ASSUME GroupAssumption == GroupNames \subseteq Users
ASSUME NoneAssumption == NoUser \notin Users /\ NoSecret \notin Secrets
ASSUME FaultAssumption == Faults \subseteq FaultKinds /\ MaxFaults \in Nat

VARIABLES
  linux,      \* the role each Linux account was made with, or "none"
  secret,     \* the secret in /etc/shadow
  config,     \* who owns ~/.config, if the service made it
  profile,    \* the role in the public profile the login screen reads
  flag,       \* firstboot-done exists
  autologin,  \* the setup session's autologin file exists
  setupUp,    \* the setup session is connected to the bus
  auth,       \* the handler in progress
  inbox,      \* calls on the bus, in order
  awaits,     \* how far the last call of the setup session has got
  budget      \* faults that may still occur

hostVars == <<linux, secret, config, profile, flag, autologin>>
accountVars == <<hostVars, setupUp, auth, inbox, awaits, budget>>

Roles == {"parent", "child"}
Ops == Roles \union {"pin", "mark"}
Call == [op : Ops, user : Users \union {NoUser},
         secret : Secrets \union {NoSecret}, by : {"setup", "parent", "other"}]
Handler == [pc : {"idle", "check", "useradd", "chpasswd", "chown", "profile",
                  "flag", "rm"}, call : Call]

\* A call that makes or changes an account says whose and to what.
WellFormed(call) == call.op # "mark" => call.user \in Users /\ call.secret \in Secrets

MarkCall == [op |-> "mark", user |-> NoUser, secret |-> NoSecret, by |-> "setup"]
Idle == [pc |-> "idle", call |-> MarkCall]

AccountsTypeOK ==
  /\ linux \in [Users -> Roles \union {"none"}]
  /\ secret \in [Users -> Secrets \union {NoSecret}]
  /\ config \in [Users -> {"none", "root", "user"}]
  /\ profile \in [Users -> Roles \union {"none"}]
  /\ flag \in BOOLEAN /\ autologin \in BOOLEAN /\ setupUp \in BOOLEAN
  /\ auth \in Handler
  /\ WellFormed(auth.call)
  /\ auth.pc \in {"useradd", "chown", "profile"} => auth.call.op \in Roles
  /\ auth.pc = "chpasswd" => auth.call.op # "mark"
  /\ inbox \in Seq(Call) /\ \A k \in 1 .. Len(inbox) : WellFormed(inbox[k])
  /\ awaits \in {"none", "queued", "running", "true", "false"}
  /\ budget \in 0 .. MaxFaults

\* The image: no family accounts, the setup session logs in by itself.
AccountsInit ==
  /\ linux = [u \in Users |-> "none"]
  /\ secret = [u \in Users |-> NoSecret]
  /\ config = [u \in Users |-> "none"]
  /\ profile = [u \in Users |-> "none"]
  /\ flag = FALSE
  /\ autologin = TRUE
  /\ setupUp = TRUE
  /\ auth = Idle
  /\ inbox = <<>>
  /\ awaits = "none"
  /\ budget = MaxFaults

\* A fault happens: one fewer may still occur.
Spend(fault) ==
  /\ fault \in Faults
  /\ budget > 0
  /\ budget' = budget - 1

ValidPin(pin) == pin \in Entries /\ Len(pin) \in MinPin .. MaxPin

\* What the length and pattern checks of the handlers accept.
ValidSecret(call) ==
  IF call.op = "parent" THEN call.secret \in Passwords ELSE ValidPin(call.secret)

----------------------------------------------------------------------------
(* The caller's side of the bus.                                           *)

\* The setup session sends a call and blocks; it sends none while blocked.
Send(op, user, s) ==
  /\ awaits = "none"
  /\ inbox' = Append(inbox, [op |-> op, user |-> user, secret |-> s, by |-> "setup"])
  /\ awaits' = "queued"

\* Mutant of Answer: an answer to an abandoned call counts for the next one.
AnswerWhoeverWaits(b) ==
  /\ auth' = Idle
  /\ awaits' = IF awaits \in {"queued", "running"} THEN b ELSE awaits

\* The handler returns; the session still waits unless it gave this call up.
Answer(b) ==
  /\ auth' = Idle
  /\ awaits' = IF awaits = "running" THEN b ELSE awaits

\* After 25 seconds the session takes the call for failed; it goes on.
GiveUp ==
  /\ awaits \in {"queued", "running"}
  /\ Spend("timeout")
  /\ awaits' = "false"
  /\ UNCHANGED <<hostVars, setupUp, auth, inbox>>

----------------------------------------------------------------------------
(* The handlers.                                                           *)

\* The awaited call is the last one sent.
TakeCall ==
  /\ auth.pc = "idle" /\ inbox # <<>>
  /\ auth' = [pc |-> "check", call |-> Head(inbox)]
  /\ inbox' = Tail(inbox)
  /\ awaits' = IF awaits = "queued" /\ Len(inbox) = 1 THEN "running" ELSE awaits
  /\ UNCHANGED <<hostVars, setupUp, budget>>

\* A tool in a parent's session calls, which takes a login: the seat is not
\* the setup session's.  No application of the tree makes these calls yet.
\* What others send may be delivered ahead of what the wizard has sent.
ParentCalls ==
  /\ ~setupUp
  /\ auth.pc = "idle"
  /\ \E u \in Users : linux[u] = "parent" /\ secret[u] # NoSecret
  /\ \E op \in Ops \ {"mark"}, u \in Users, s \in Secrets :
       auth' = [pc |-> "check",
                call |-> [op |-> op, user |-> u, secret |-> s, by |-> "parent"]]
  /\ UNCHANGED <<hostVars, setupUp, inbox, awaits, budget>>

\* The bus lets any process send to the service, and MarkFirstBootComplete
\* asks of none who it is: whoever wants to can close setup at any time.  Once
\* it is closed and the autologin gone, such a call changes nothing.
AnyoneMarks ==
  /\ auth.pc = "idle"
  /\ ~flag \/ autologin
  /\ auth' = [pc |-> "flag", call |-> [MarkCall EXCEPT !.by = "other"]]
  /\ UNCHANGED <<hostVars, setupUp, inbox, awaits, budget>>

\* Until setup is complete only the setup session may make accounts, and it
\* must still be there to be asked for; afterwards, and for PIN changes,
\* polkit decides, and the setup session has nobody to answer its prompt.
MayAsk(call) ==
  \/ call.op = "mark"
  \/ call.op \in Roles /\ ~flag /\ call.by = "setup" /\ setupUp
  \/ call.op \in Roles /\ flag /\ call.by = "parent"
  \/ call.op = "pin" /\ call.by = "parent"

Proceed ==
  /\ auth.pc = "check"
  /\ MayAsk(auth.call)
  /\ auth.call.op # "mark" => ValidSecret(auth.call)
  /\ auth' = [auth EXCEPT !.pc = CASE auth.call.op \in Roles -> "useradd"
                                   [] auth.call.op = "pin" -> "chpasswd"
                                   [] auth.call.op = "mark" -> "flag"]
  /\ UNCHANGED <<hostVars, setupUp, inbox, awaits, budget>>

\* Not allowed, not valid, or the parent dismisses polkit's prompt.
Refuse ==
  /\ auth.pc = "check"
  /\ \/ ~MayAsk(auth.call)
     \/ auth.call.op # "mark" /\ ~ValidSecret(auth.call)
     \/ auth.call.by = "parent"
  /\ Answer("false")
  /\ UNCHANGED <<hostVars, setupUp, inbox, budget>>

\* useradd makes no account twice, nor a group for a parent where there is
\* one of that name; a child is told another group and gets none of its own.
CanBeMade(call) ==
  /\ linux[call.user] = "none"
  /\ call.op = "parent" => call.user \notin GroupNames

\* useradd makes a new account, with the group of its role.
Useradd ==
  /\ auth.pc = "useradd"
  /\ CanBeMade(auth.call)
  /\ linux' = [linux EXCEPT ![auth.call.user] = auth.call.op]
  /\ auth' = [auth EXCEPT !.pc = "chpasswd"]
  /\ UNCHANGED <<secret, config, profile, flag, autologin, setupUp, inbox,
                 awaits, budget>>

NameTaken ==
  /\ auth.pc = "useradd"
  /\ ~CanBeMade(auth.call)
  /\ Answer("false")
  /\ UNCHANGED <<hostVars, setupUp, inbox, budget>>

\* useradd fails, or is killed after five seconds with the account made.
UseraddFails ==
  /\ auth.pc = "useradd"
  /\ Spend("useradd")
  /\ \/ UNCHANGED linux
     \/ /\ CanBeMade(auth.call)
        /\ linux' = [linux EXCEPT ![auth.call.user] = auth.call.op]
  /\ Answer("false")
  /\ UNCHANGED <<secret, config, profile, flag, autologin, setupUp, inbox>>

\* What comes after the secret is set; a PIN change ends there.
AfterChpasswd ==
  IF auth.call.op = "pin" THEN Answer("true")
  ELSE /\ auth' = [auth EXCEPT !.pc = IF auth.call.op = "child" THEN "chown"
                                                                ELSE "profile"]
       /\ UNCHANGED awaits

\* setLinuxSecret, for any account: a PIN change does not ask whose it is.
Chpasswd ==
  /\ auth.pc = "chpasswd"
  /\ linux[auth.call.user] # "none"
  /\ secret' = [secret EXCEPT ![auth.call.user] = auth.call.secret]
  /\ AfterChpasswd
  /\ UNCHANGED <<linux, config, profile, flag, autologin, setupUp, inbox, budget>>

NobodyToChange ==
  /\ auth.pc = "chpasswd"
  /\ linux[auth.call.user] = "none"
  /\ Answer("false")
  /\ UNCHANGED <<hostVars, setupUp, inbox, budget>>

\* Mutant of ChpasswdFails: the result of setLinuxSecret is not looked at.
ChpasswdUnchecked ==
  /\ auth.pc = "chpasswd"
  /\ Spend("chpasswd")
  /\ AfterChpasswd
  /\ UNCHANGED <<hostVars, setupUp, inbox>>

\* chpasswd fails, or is killed after five seconds with the secret set.
ChpasswdFails ==
  /\ auth.pc = "chpasswd"
  /\ Spend("chpasswd")
  /\ secret' \in {secret, [secret EXCEPT ![auth.call.user] =
       IF linux[auth.call.user] = "none" THEN @ ELSE auth.call.secret]}
  /\ Answer("false")
  /\ UNCHANGED <<linux, config, profile, flag, autologin, setupUp, inbox>>

\* A group of u's name: useradd made it with a parent's account, or the
\* system had it.
HasOwnGroup(u) == linux[u] = "parent" \/ u \in GroupNames

\* The child's settings are written by root into ~/.config, then `chown
\* user:user` hands them over, if that group exists; its exit is ignored.
SeedConfig ==
  /\ auth.pc = "chown"
  /\ config' = [config EXCEPT ![auth.call.user] =
                  IF HasOwnGroup(auth.call.user) THEN "user" ELSE "root"]
  /\ auth' = [auth EXCEPT !.pc = "profile"]
  /\ UNCHANGED <<linux, secret, profile, flag, autologin, setupUp, inbox,
                 awaits, budget>>

WriteProfile ==
  /\ auth.pc = "profile"
  /\ profile' = [profile EXCEPT ![auth.call.user] = auth.call.op]
  /\ Answer("true")
  /\ UNCHANGED <<linux, secret, config, flag, autologin, setupUp, inbox, budget>>

\* writePublicProfile says nothing of a file it cannot open.
ProfileFails ==
  /\ auth.pc = "profile"
  /\ Spend("profile")
  /\ Answer("true")
  /\ UNCHANGED <<hostVars, setupUp, inbox>>

WriteFlag ==
  /\ auth.pc = "flag"
  /\ flag' = TRUE
  /\ auth' = [auth EXCEPT !.pc = "rm"]
  /\ UNCHANGED <<linux, secret, config, profile, autologin, setupUp, inbox,
                 awaits, budget>>

FlagFails ==
  /\ auth.pc = "flag"
  /\ Spend("flag")
  /\ Answer("false")
  /\ UNCHANGED <<hostVars, setupUp, inbox>>

RemoveAutologin ==
  /\ auth.pc = "rm"
  /\ autologin' = FALSE
  /\ Answer("true")
  /\ UNCHANGED <<linux, secret, config, profile, flag, setupUp, inbox, budget>>

\* The exit of rm is ignored.
RemoveFails ==
  /\ auth.pc = "rm"
  /\ Spend("rm")
  /\ Answer("true")
  /\ UNCHANGED <<hostVars, setupUp, inbox>>

\* Mutant of AuthCrash: nobody tells the session that its call is gone.
AuthCrashSilent ==
  /\ Spend("authCrash")
  /\ auth' = Idle
  /\ inbox' = <<>>
  /\ UNCHANGED <<hostVars, setupUp, awaits>>

\* The service dies with its handler; the bus fails the calls sent to it.
AuthCrash ==
  /\ Spend("authCrash")
  /\ auth' = Idle
  /\ inbox' = <<>>
  /\ awaits' = IF awaits \in {"queued", "running"} THEN "false" ELSE awaits
  /\ UNCHANGED <<hostVars, setupUp>>

HandlerStep ==
  \/ TakeCall
  \/ Proceed \/ Refuse
  \/ Useradd \/ NameTaken
  \/ Chpasswd \/ NobodyToChange
  \/ SeedConfig \/ WriteProfile
  \/ WriteFlag \/ RemoveAutologin

CommandFails ==
  UseraddFails \/ ChpasswdFails \/ ProfileFails \/ FlagFails \/ RemoveFails

AccountsStep ==
  HandlerStep \/ CommandFails \/ AuthCrash \/ GiveUp
  \/ ParentCalls \/ AnyoneMarks
=============================================================================
