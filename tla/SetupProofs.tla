---------------------------- MODULE SetupProofs ----------------------------
(***************************************************************************)
(* Proofs about Onboarding and Accounts, for any accounts, digits, lengths *)
(* and faults: what was typed logs in, profiles tell the truth, and setup  *)
(* keeps Family's promise.                                                 *)
(***************************************************************************)
EXTENDS Onboarding, TLAPS, SequenceTheorems

----------------------------------------------------------------------------
(* Entries of a PIN pad.                                                   *)

LEMMA EntryIsSeq ==
  ASSUME NEW e PROVE e \in Entries <=> e \in Seq(Digits) /\ Len(e) <= MaxPin
<1>1. ASSUME e \in Entries PROVE e \in Seq(Digits) /\ Len(e) <= MaxPin
  <2>1. PICK n \in 0 .. MaxPin : e \in [1 .. n -> Digits]
    BY <1>1 DEF Entries
  <2>2. n \in Nat /\ n <= MaxPin
    BY <2>1, PinAssumption DEF PinAssumption
  <2>3. e \in Seq(Digits) /\ Len(e) = n
    BY <2>1, <2>2
  <2> QED
    BY <2>2, <2>3
<1>2. ASSUME e \in Seq(Digits), Len(e) <= MaxPin PROVE e \in Entries
  <2>1. Len(e) \in Nat /\ e \in [1 .. Len(e) -> Digits]
    BY <1>2, LenProperties
  <2>2. Len(e) \in 0 .. MaxPin
    BY <2>1, <1>2, PinAssumption DEF PinAssumption
  <2> QED
    BY <2>1, <2>2 DEF Entries
<1> QED
  BY <1>1, <1>2

LEMMA EmptyEntry == <<>> \in Entries /\ Len(<<>>) = 0
<1>1. <<>> \in Seq(Digits) /\ Len(<<>>) = 0
  BY EmptySeq
<1>2. 0 <= MaxPin
  BY PinAssumption DEF PinAssumption
<1>3. Len(<<>>) <= MaxPin
  BY <1>1, <1>2
<1> QED
  BY <1>1, <1>3, EntryIsSeq

LEMMA LengthType == PinLength \in Nat /\ PinLength <= MaxPin /\ MaxPin \in Nat
BY PinAssumption, LengthAssumption DEF PinAssumption, LengthAssumption

LEMMA FreshPinType == FreshPin \in PinState /\ Len(FreshPin.first) = 0
                      /\ Len(FreshPin.entry) = 0
BY EmptyEntry DEF FreshPin, PinState

\* A digit more, while the pad is not full.
LEMMA LongerEntry ==
  ASSUME NEW e \in Entries, NEW d \in Digits, Len(e) < PinLength
  PROVE  Append(e, d) \in Entries /\ Len(Append(e, d)) <= PinLength
<1>1. e \in Seq(Digits) /\ Len(e) \in Nat
  BY EntryIsSeq, LenProperties
<1>2. Append(e, d) \in Seq(Digits) /\ Len(Append(e, d)) = Len(e) + 1
  BY <1>1
<1>3. Len(Append(e, d)) <= PinLength
  BY <1>1, <1>2, LengthType
<1>4. Len(Append(e, d)) \in Nat
  BY <1>1, <1>2
<1>5. Len(Append(e, d)) <= MaxPin
  BY <1>3, <1>4, LengthType
<1> QED
  BY <1>2, <1>3, <1>5, EntryIsSeq

\* A digit fewer.
LEMMA ShorterEntry ==
  ASSUME NEW e \in Entries, e # <<>>, Len(e) <= PinLength
  PROVE  /\ SubSeq(e, 1, Len(e) - 1) \in Entries
         /\ Len(SubSeq(e, 1, Len(e) - 1)) <= PinLength
<1> DEFINE s == SubSeq(e, 1, Len(e) - 1)
<1>1. e \in Seq(Digits) /\ Len(e) \in Nat /\ Len(e) <= MaxPin
  BY EntryIsSeq, LenProperties
<1>2. Len(e) # 0
  BY <1>1, EmptySeq
<1> DEFINE n == Len(e) - 1
<1>3. 1 \in Int /\ n \in Int /\ 0 <= n /\ n + 1 = Len(e)
  BY <1>1, <1>2
<1>4. s \in Seq(Digits) /\ Len(s) = n
  <2>1. \A i \in 1 .. n : e[i] \in Digits
    BY <1>1, <1>3
  <2> HIDE DEF n
  <2>2. /\ SubSeq(e, 1, n) \in Seq(Digits)
        /\ Len(SubSeq(e, 1, n)) = IF 1 <= n THEN n - 1 + 1 ELSE 0
    BY <1>3, <2>1, SubSeqProperties
  <2>3. Len(SubSeq(e, 1, n)) = n
    BY <1>3, <2>2
  <2> QED
    BY <2>2, <2>3 DEF n
<1>5. Len(s) <= MaxPin /\ Len(s) <= PinLength
  BY <1>1, <1>3, <1>4, LengthType
<1> QED
  BY <1>4, <1>5, EntryIsSeq

----------------------------------------------------------------------------
(* Types.                                                                  *)

LEMMA InitType == SetupInit => SetupTypeOK
<1> SUFFICES ASSUME SetupInit PROVE SetupTypeOK
  OBVIOUS
<1>1. inbox \in Seq(Call) /\ \A k \in 1 .. Len(inbox) : WellFormed(inbox[k])
  <2>1. inbox \in Seq(Call) /\ Len(inbox) = 0
    BY EmptySeq DEF SetupInit, AccountsInit
  <2> QED
    BY <2>1
<1>2. auth \in Handler /\ WellFormed(auth.call) /\ auth.pc = "idle"
  BY DEF SetupInit, AccountsInit, Idle, MarkCall, Handler, Call, Ops, WellFormed
<1>3. budget \in 0 .. MaxFaults
  BY FaultAssumption DEF FaultAssumption, SetupInit, AccountsInit
<1>4. AccountsTypeOK
  BY <1>1, <1>2, <1>3 DEF SetupInit, AccountsInit, AccountsTypeOK
<1>5. pin \in PinState /\ Len(pin.first) <= PinLength /\ Len(pin.entry) <= PinLength
  BY FreshPinType, LengthType DEF SetupInit
<1> QED
  BY <1>4, <1>5
  DEF SetupInit, SetupTypeOK, FinishPage, AccountPage, NamePage, AvatarPage, PinPage

\* A handler that ends has a type, and so has the answer it leaves.
LEMMA AnswerType ==
  ASSUME AccountsTypeOK, NEW b \in {"true", "false"}, Answer(b)
  PROVE  /\ auth' \in Handler /\ WellFormed(auth'.call) /\ auth'.pc = "idle"
         /\ awaits' \in {"none", "queued", "running", "true", "false"}
BY DEF Answer, AccountsTypeOK, Idle, MarkCall, Handler, Call, Ops, WellFormed

\* Moving on within a handler.
LEMMA ProceedType ==
  ASSUME AccountsTypeOK,
         NEW pc \in {"useradd", "chpasswd", "chown", "profile", "flag", "rm"},
         auth' = [auth EXCEPT !.pc = pc]
  PROVE  auth' \in Handler /\ auth'.call = auth.call /\ auth'.pc = pc
         /\ WellFormed(auth'.call)
BY DEF AccountsTypeOK, Handler

LEMMA SpendType ==
  ASSUME AccountsTypeOK, NEW f, Spend(f)
  PROVE  budget' \in 0 .. MaxFaults
BY FaultAssumption DEF FaultAssumption, AccountsTypeOK, Spend

\* Every step of the service keeps the types.
LEMMA ServiceType ==
  ASSUME AccountsTypeOK, AccountsStep PROVE AccountsTypeOK'
<1> USE DEF hostVars
<1>1. CASE TakeCall
  <2>1. Head(inbox) \in Call /\ WellFormed(Head(inbox))
    BY <1>1 DEF TakeCall, AccountsTypeOK
  <2>2. inbox' \in Seq(Call) /\ \A k \in 1 .. Len(inbox') : WellFormed(inbox'[k])
    <3>1. inbox' \in Seq(Call) /\ Len(inbox') = Len(inbox) - 1
          /\ \A k \in 1 .. Len(inbox') : inbox'[k] = inbox[k + 1]
      BY <1>1 DEF TakeCall, AccountsTypeOK
    <3>2. Len(inbox) \in Nat
      BY DEF AccountsTypeOK
    <3>3. \A k \in 1 .. Len(inbox') : k + 1 \in 1 .. Len(inbox)
      BY <3>1, <3>2
    <3> QED
      BY <3>1, <3>3 DEF AccountsTypeOK
  <2>3. auth' \in Handler /\ auth'.pc = "check" /\ WellFormed(auth'.call)
    BY <1>1, <2>1 DEF TakeCall, Handler
  <2> QED
    BY <1>1, <2>2, <2>3 DEF TakeCall, AccountsTypeOK
<1>2. CASE Proceed
  <2>1. auth.call.op \in Ops
    BY DEF AccountsTypeOK, Handler, Call
  <2>2. CASE auth.call.op \in Roles
    BY <1>2, <2>2, ProceedType DEF Proceed, AccountsTypeOK, Roles
  <2>3. CASE auth.call.op = "pin"
    BY <1>2, <2>3, ProceedType DEF Proceed, AccountsTypeOK, Roles
  <2>4. CASE auth.call.op = "mark"
    BY <1>2, <2>4, ProceedType DEF Proceed, AccountsTypeOK, Roles
  <2> QED
    BY <2>1, <2>2, <2>3, <2>4 DEF Ops
<1>3. CASE Refuse
  BY <1>3, AnswerType DEF Refuse, AccountsTypeOK
<1>4. CASE Useradd
  BY <1>4, ProceedType DEF Useradd, CanBeMade, AccountsTypeOK, Roles
<1>5. CASE NameTaken
  BY <1>5, AnswerType DEF NameTaken, AccountsTypeOK
<1>6. CASE Chpasswd
  <2>1. /\ auth' \in Handler /\ WellFormed(auth'.call)
        /\ auth'.pc \in {"useradd", "chown", "profile"} => auth'.call.op \in Roles
        /\ auth'.pc # "chpasswd"
        /\ awaits' \in {"none", "queued", "running", "true", "false"}
    <3>1. CASE auth.call.op = "pin"
      BY <1>6, <3>1, AnswerType DEF Chpasswd, AfterChpasswd
    <3>2. CASE auth.call.op \in Roles
      <4>1. auth.call.op # "pin"
        BY <3>2 DEF Roles
      <4>2. CASE auth.call.op = "child"
        BY <1>6, <3>2, <4>1, <4>2, ProceedType
        DEF Chpasswd, AfterChpasswd, AccountsTypeOK
      <4>3. CASE auth.call.op # "child"
        BY <1>6, <3>2, <4>1, <4>3, ProceedType
        DEF Chpasswd, AfterChpasswd, AccountsTypeOK
      <4> QED
        BY <4>2, <4>3
    <3> QED
      BY <1>6, <3>1, <3>2 DEF Chpasswd, AccountsTypeOK, Handler, Call, Ops
  <2>2. auth.call.secret \in Secrets
    BY <1>6 DEF Chpasswd, AccountsTypeOK, WellFormed
  <2> QED
    BY <1>6, <2>1, <2>2 DEF Chpasswd, AccountsTypeOK
<1>7. CASE NobodyToChange
  BY <1>7, AnswerType DEF NobodyToChange, AccountsTypeOK
<1>8. CASE SeedConfig
  BY <1>8, ProceedType DEF SeedConfig, AccountsTypeOK
<1>9. CASE WriteProfile
  BY <1>9, AnswerType DEF WriteProfile, AccountsTypeOK
<1>10. CASE WriteFlag
  BY <1>10, ProceedType DEF WriteFlag, AccountsTypeOK
<1>11. CASE RemoveAutologin
  BY <1>11, AnswerType DEF RemoveAutologin, AccountsTypeOK
<1>12. CASE UseraddFails
  <2>1. linux' \in [Users -> Roles \union {"none"}]
    BY <1>12 DEF UseraddFails, AccountsTypeOK
  <2> QED
    BY <1>12, <2>1, AnswerType, SpendType DEF UseraddFails, AccountsTypeOK
<1>13. CASE ChpasswdFails
  <2>1. auth.call.secret \in Secrets
    BY <1>13 DEF ChpasswdFails, AccountsTypeOK, WellFormed
  <2>2. secret' \in [Users -> Secrets \union {NoSecret}]
    BY <1>13, <2>1 DEF ChpasswdFails, AccountsTypeOK
  <2> QED
    BY <1>13, <2>2, AnswerType, SpendType DEF ChpasswdFails, AccountsTypeOK
<1>14. CASE ProfileFails
  BY <1>14, AnswerType, SpendType DEF ProfileFails, AccountsTypeOK
<1>15. CASE FlagFails
  BY <1>15, AnswerType, SpendType DEF FlagFails, AccountsTypeOK
<1>16. CASE RemoveFails
  BY <1>16, AnswerType, SpendType DEF RemoveFails, AccountsTypeOK
<1>17. CASE AuthCrash
  <2>1. inbox' \in Seq(Call) /\ Len(inbox') = 0
    BY <1>17, EmptySeq DEF AuthCrash
  <2>2. auth' \in Handler /\ WellFormed(auth'.call) /\ auth'.pc = "idle"
    BY <1>17 DEF AuthCrash, Idle, MarkCall, Handler, Call, Ops, WellFormed
  <2> QED
    BY <1>17, <2>1, <2>2, SpendType DEF AuthCrash, AccountsTypeOK
<1>18. CASE GiveUp
  BY <1>18, SpendType DEF GiveUp, AccountsTypeOK
<1>19. CASE ParentCalls
  <2>1. PICK op \in Ops \ {"mark"}, u \in Users, s \in Secrets :
          auth' = [pc |-> "check",
                   call |-> [op |-> op, user |-> u, secret |-> s, by |-> "parent"]]
    BY <1>19 DEF ParentCalls
  <2>2. auth' \in Handler /\ WellFormed(auth'.call) /\ auth'.pc = "check"
    BY <2>1 DEF Handler, Call, WellFormed
  <2> QED
    BY <1>19, <2>2 DEF ParentCalls, AccountsTypeOK
<1>20. CASE AnyoneMarks
  <2>1. auth' \in Handler /\ WellFormed(auth'.call) /\ auth'.pc = "flag"
    BY <1>20 DEF AnyoneMarks, MarkCall, Handler, Call, Ops, WellFormed
  <2> QED
    BY <1>20, <2>1 DEF AnyoneMarks, AccountsTypeOK
<1> QED
  BY <1>1, <1>2, <1>3, <1>4, <1>5, <1>6, <1>7, <1>8, <1>9, <1>10, <1>11, <1>12,
     <1>13, <1>14, <1>15, <1>16, <1>17, <1>18, <1>19, <1>20
  DEF AccountsStep, HandlerStep, CommandFails
\* A call of the setup session, appended to those on the bus.
LEMMA SendType ==
  ASSUME AccountsTypeOK,
         NEW op \in Roles \union {"mark"}, NEW user, NEW s, Send(op, user, s),
         op # "mark" => user \in Users /\ s \in Secrets,
         op = "mark" => user = NoUser /\ s = NoSecret
  PROVE  /\ inbox' \in Seq(Call)
         /\ \A k \in 1 .. Len(inbox') : WellFormed(inbox'[k])
         /\ awaits' = "queued"
<1> DEFINE call == [op |-> op, user |-> user, secret |-> s, by |-> "setup"]
<1>1. call \in Call /\ WellFormed(call)
  BY DEF Call, Ops, WellFormed
<1>2. inbox \in Seq(Call) /\ \A k \in 1 .. Len(inbox) : WellFormed(inbox[k])
  BY DEF AccountsTypeOK
<1>3. inbox' = Append(inbox, call) /\ awaits' = "queued"
  BY DEF Send
<1> HIDE DEF call
<1>4. inbox' \in Seq(Call) /\ Len(inbox') = Len(inbox) + 1
  BY <1>1, <1>2, <1>3
<1>5. ASSUME NEW k \in 1 .. Len(inbox') PROVE WellFormed(inbox'[k])
  <2>1. Len(inbox) \in Nat /\ k \in Nat /\ (k = Len(inbox) + 1 \/ k \in 1 .. Len(inbox))
    BY <1>2, <1>4, <1>5
  <2>2. CASE k = Len(inbox) + 1
    BY <1>1, <1>2, <1>3, <2>2
  <2>3. CASE k \in 1 .. Len(inbox)
    BY <1>2, <1>3, <2>3
  <2> QED
    BY <2>1, <2>2, <2>3
<1> QED
  BY <1>3, <1>4, <1>5

\* The wizard and the machine leave the host alone; only a reboot ends the
\* handler in progress.
LEMMA Untouched ==
  ASSUME WizardStep \/ WizardReturns \/ WizardCrash \/ Reboot
  PROVE  UNCHANGED hostVars /\ (auth' = auth \/ (Reboot /\ auth' = Idle))
<1> USE DEF accountVars
<1>1. ASSUME NEW at, LeadOn(at) PROVE UNCHANGED <<hostVars, auth>>
  BY <1>1 DEF LeadOn
<1>2. CASE ParentAccount \/ Name \/ GoBack
  BY <1>2 DEF ParentAccount, Name, EnterName, GoBack
<1>3. CASE SubmitParent \/ SubmitChild \/ SubmitLate \/ CloseSetup
  BY <1>3 DEF SubmitParent, SubmitChild, SubmitLate, CloseSetup
<1>4. CASE DigitPressed \/ Backspace \/ RememberEntry \/ RejectEntry
  BY <1>4 DEF DigitPressed, Backspace, RememberEntry, RejectEntry
<1>5. CASE WizardReturns \/ WizardCrash
  BY <1>5 DEF WizardReturns, ParentAnswered, ChildAnswered, Quit, WizardCrash
<1>6. CASE Reboot
  BY <1>6 DEF Reboot
<1> QED
  BY <1>1, <1>2, <1>3, <1>4, <1>5, <1>6
  DEF WizardStep, Welcome, Language, Avatar, Age, ParentConnect

\* A screen more.
LEMMA GoOnType ==
  ASSUME SetupTypeOK, NEW at \in 0 .. FinishPage - 1, GoOn(at)
  PROVE  /\ page' = at + 1 /\ page' \in 0 .. FinishPage
         /\ pin' \in PinState /\ Len(pin'.first) <= PinLength
         /\ Len(pin'.entry) <= PinLength
         /\ UNCHANGED <<late, under>>
<1>1. page' = at + 1 /\ page' \in 0 .. FinishPage
  BY DEF GoOn, FinishPage
<1>2. pin' = FreshPin \/ pin' = pin
  BY DEF GoOn
<1> QED
  BY <1>1, <1>2, FreshPinType, LengthType DEF SetupTypeOK, GoOn

LEMMA WizardType ==
  ASSUME SetupTypeOK, WizardStep PROVE SetupTypeOK'
<1> USE DEF wizardVars, accountVars, hostVars
<1>0. AccountsTypeOK
  BY DEF SetupTypeOK
<1> DEFINE P(v) == v \in PinState /\ Len(v.first) <= PinLength
                   /\ Len(v.entry) <= PinLength
<1>1. ASSUME NEW at \in {0, 1, 5, 6, 8}, LeadOn(at) PROVE SetupTypeOK'
  <2>1. at \in 0 .. FinishPage - 1 /\ GoOn(at) /\ UNCHANGED <<accountVars, names>>
    BY <1>1 DEF LeadOn, FinishPage
  <2>2. AccountsTypeOK'
    BY <1>0, <2>1 DEF AccountsTypeOK
  <2>3. /\ page' > AccountPage => page > AccountPage
        /\ page' > NamePage => page > NamePage
    BY <1>1, <2>1 DEF GoOn, AccountPage, NamePage
  <2> QED
    BY <2>1, <2>2, <2>3, GoOnType DEF SetupTypeOK
<1>2. CASE ParentAccount
  <2>1. GoOn(AccountPage) /\ UNCHANGED accountVars
    BY <1>2 DEF ParentAccount, EnterName
  <2>2. AccountsTypeOK'
    BY <1>0, <2>1 DEF AccountsTypeOK
  <2>3. names' \in [Roles -> Users \union {NoUser}] /\ names'["parent"] \in Users
    BY <1>2 DEF ParentAccount, EnterName, SetupTypeOK, Roles
  <2>4. AccountPage \in 0 .. FinishPage - 1 /\ page' = 3
    BY <2>1 DEF GoOn, FinishPage, AccountPage
  <2> QED
    BY <2>1, <2>2, <2>3, <2>4, GoOnType DEF SetupTypeOK, AccountPage, NamePage
<1>3. CASE Name
  <2>1. GoOn(NamePage) /\ UNCHANGED accountVars
    BY <1>3 DEF Name, EnterName
  <2>2. AccountsTypeOK'
    BY <1>0, <2>1 DEF AccountsTypeOK
  <2>3. NamePage \in 0 .. FinishPage - 1 /\ page = 4 /\ page' = 5
    BY <2>1 DEF GoOn, FinishPage, NamePage
  <2>4. names["parent"] \in Users
    BY <2>3 DEF SetupTypeOK, AccountPage
  <2>5. /\ names' \in [Roles -> Users \union {NoUser}]
        /\ names'["parent"] \in Users /\ names'["child"] \in Users
    BY <1>3, <2>4 DEF Name, EnterName, SetupTypeOK, Roles
  <2> QED
    BY <2>1, <2>2, <2>3, <2>5, GoOnType DEF SetupTypeOK, AccountPage, NamePage
<1>4. CASE GoBack
  <2>1. AccountsTypeOK' /\ names' = names
    BY <1>0, <1>4 DEF GoBack, AccountsTypeOK
  <2>2. page' \in 0 .. FinishPage /\ page' < page
    BY <1>4
    DEF GoBack, FinishPage, ConnectPage, AvatarPage, PinPage, SetupTypeOK
  <2>3. pin' = FreshPin \/ pin' = pin
    BY <1>4 DEF GoBack
  <2>4. P(pin')
    BY <2>3, FreshPinType, LengthType DEF SetupTypeOK
  <2>5. pin.first \in Entries /\ Len(pin.first) <= PinLength
    BY DEF SetupTypeOK, PinState
  <2>6. late' \in {late, NoSecret, pin.first} /\ under' = under
    BY <1>4 DEF GoBack
  <2>7. late' \in Entries \union {NoSecret}
        /\ (late' # NoSecret => Len(late') <= PinLength)
    BY <2>5, <2>6 DEF SetupTypeOK
  <2> QED
    BY <2>1, <2>2, <2>4, <2>6, <2>7 DEF SetupTypeOK, AccountPage, NamePage, FinishPage
<1>5. CASE SubmitParent
  <2>1. PICK s \in Passwords : Send("parent", names["parent"], s)
    BY <1>5 DEF SubmitParent
  <2>2. names["parent"] \in Users /\ s \in Secrets
    BY <1>5 DEF SubmitParent, SetupTypeOK, PasswordPage, AccountPage, Secrets
  <2>3. AccountsTypeOK'
    BY <1>0, <1>5, <2>1, <2>2, SendType DEF SubmitParent, AccountsTypeOK, Roles
  <2> QED
    BY <1>5, <2>3 DEF SubmitParent, SetupTypeOK
<1>6. CASE SubmitChild
  <2>1. names["child"] \in Users /\ pin.first \in Secrets
    BY <1>6
    DEF SubmitChild, Confirmed, SetupTypeOK, PinPage, NamePage, PinState, Secrets
  <2>2. AccountsTypeOK'
    BY <1>0, <1>6, <2>1, SendType DEF SubmitChild, AccountsTypeOK, Roles
  <2>3. P(pin')
    BY <1>6 DEF SubmitChild, SetupTypeOK, PinState
  <2> QED
    BY <1>6, <2>2, <2>3 DEF SubmitChild, SetupTypeOK
<1>7. CASE CloseSetup
  <2>1. AccountsTypeOK'
    BY <1>0, <1>7, SendType DEF CloseSetup, AccountsTypeOK, Roles
  <2> QED
    BY <1>7, <2>1 DEF CloseSetup, SetupTypeOK
<1>8. CASE DigitPressed
  <2>1. PICK d \in Digits :
          pin' = [pin EXCEPT !.entry = Append(@, d),
                             !.timer = @ \/ Len(pin.entry) + 1 = PinLength]
    BY <1>8 DEF DigitPressed
  <2>2. pin \in PinState /\ pin.entry \in Entries /\ Len(pin.first) <= PinLength
        /\ Len(pin.entry) < PinLength
    BY <1>8 DEF DigitPressed, SetupTypeOK, PinState
  <2>3. Append(pin.entry, d) \in Entries /\ Len(Append(pin.entry, d)) <= PinLength
    BY <2>2, LongerEntry
  <2>4. P(pin')
    BY <2>1, <2>2, <2>3 DEF PinState
  <2>5. AccountsTypeOK' /\ UNCHANGED <<page, names, late, under>>
    BY <1>0, <1>8 DEF DigitPressed, AccountsTypeOK
  <2> QED
    BY <2>4, <2>5 DEF SetupTypeOK
<1>9. CASE Backspace
  <2>1. pin \in PinState /\ pin.entry \in Entries /\ pin.entry # <<>>
        /\ Len(pin.first) <= PinLength /\ Len(pin.entry) <= PinLength
    BY <1>9 DEF Backspace, SetupTypeOK, PinState
  <2>2. pin' = [pin EXCEPT !.entry = SubSeq(pin.entry, 1, Len(pin.entry) - 1)]
    BY <1>9 DEF Backspace
  <2>3. P(pin')
    BY <2>1, <2>2, ShorterEntry DEF PinState
  <2>4. AccountsTypeOK' /\ UNCHANGED <<page, names, late, under>>
    BY <1>0, <1>9 DEF Backspace, AccountsTypeOK
  <2> QED
    BY <2>3, <2>4 DEF SetupTypeOK
<1>10. CASE RememberEntry
  <2>1. pin.entry \in Entries /\ Len(pin.entry) <= PinLength
    BY DEF SetupTypeOK, PinState
  <2>2. pin' = [confirming |-> TRUE, first |-> pin.entry, entry |-> <<>>,
                timer |-> FALSE]
    BY <1>10 DEF RememberEntry, FreshPin
  <2>3. P(pin')
    BY <2>1, <2>2, EmptyEntry, LengthType DEF PinState
  <2>4. AccountsTypeOK' /\ UNCHANGED <<page, names, late, under>>
    BY <1>0, <1>10 DEF RememberEntry, AccountsTypeOK
  <2> QED
    BY <2>3, <2>4 DEF SetupTypeOK
<1>11. CASE RejectEntry
  <2>1. P(pin')
    BY <1>11, FreshPinType, LengthType DEF RejectEntry
  <2>2. AccountsTypeOK' /\ UNCHANGED <<page, names, late, under>>
    BY <1>0, <1>11 DEF RejectEntry, AccountsTypeOK
  <2> QED
    BY <2>1, <2>2 DEF SetupTypeOK
<1>12. CASE SubmitLate
  <2>1. names["child"] \in Users /\ late \in Secrets
    BY <1>12
    DEF SubmitLate, SetupTypeOK, PinPage, AvatarPage, NamePage, Secrets
  <2>2. AccountsTypeOK'
    BY <1>0, <1>12, <2>1, SendType DEF SubmitLate, AccountsTypeOK, Roles
  <2> QED
    BY <1>12, <2>2 DEF SubmitLate, SetupTypeOK
<1> QED
  BY <1>1, <1>2, <1>3, <1>4, <1>5, <1>6, <1>7, <1>8, <1>9, <1>10, <1>11, <1>12
  DEF WizardStep, Welcome, Language, Avatar, Age, ParentConnect, ConnectPage

LEMMA NextType ==
  ASSUME SetupTypeOK, [SetupNext]_setupVars PROVE SetupTypeOK'
<1> USE DEF wizardVars, accountVars, hostVars
<1>0. AccountsTypeOK
  BY DEF SetupTypeOK
<1>1. CASE AccountsStep /\ UNCHANGED wizardVars
  BY <1>0, <1>1, ServiceType DEF SetupTypeOK
<1>2. CASE WizardStep
  BY <1>2, WizardType
<1>3. CASE ParentAnswered
  BY <1>0, <1>3
  DEF ParentAnswered, SetupTypeOK, AccountsTypeOK, AccountPage, PasswordPage,
      NamePage, FinishPage
<1>4. CASE ChildAnswered
  <2>1. AccountsTypeOK' /\ names' = names
    BY <1>0, <1>4 DEF ChildAnswered, AccountsTypeOK
  <2>2. /\ page \in 5 .. 7 /\ under' \in 5 .. 7
        /\ \/ page' = 8 /\ pin' = pin /\ late' = late
           \/ page' = page /\ pin' = FreshPin /\ late' = NoSecret
    BY <1>4 DEF ChildAnswered, AvatarPage, PinPage, ConnectPage, SetupTypeOK
  <2>3. pin' \in PinState /\ Len(pin'.first) <= PinLength /\ Len(pin'.entry) <= PinLength
    <3>1. CASE pin' = pin
      BY <3>1 DEF SetupTypeOK
    <3>2. CASE pin' = FreshPin
      BY <3>2, FreshPinType, LengthType
    <3> QED
      BY <2>2, <3>1, <3>2
  <2> QED
    BY <2>1, <2>2, <2>3
    DEF SetupTypeOK, AccountPage, NamePage, FinishPage, AvatarPage, PinPage
<1>5. ASSUME Forgotten, auth' \in {auth, Idle}, inbox' \in {inbox, <<>>},
             setupUp' \in BOOLEAN, budget' \in 0 .. MaxFaults, UNCHANGED hostVars
      PROVE  SetupTypeOK'
  <2>1. auth' \in Handler /\ WellFormed(auth'.call)
        /\ (auth' = auth \/ auth'.pc = "idle")
    BY <1>0, <1>5 DEF AccountsTypeOK, Idle, MarkCall, Handler, Call, Ops, WellFormed
  <2>2. inbox' \in Seq(Call) /\ \A k \in 1 .. Len(inbox') : WellFormed(inbox'[k])
    <3>1. CASE inbox' = inbox
      <4>1. inbox \in Seq(Call) /\ \A k \in 1 .. Len(inbox) : WellFormed(inbox[k])
        BY <1>0 DEF AccountsTypeOK
      <4> QED
        BY <3>1, <4>1
    <3>2. CASE inbox' = <<>>
      <4>1. inbox' \in Seq(Call) /\ Len(inbox') = 0
        BY <3>2, EmptySeq
      <4> QED
        BY <4>1
    <3> QED
      BY <1>5, <3>1, <3>2
  <2>3. AccountsTypeOK'
    BY <1>0, <1>5, <2>1, <2>2 DEF Forgotten, AccountsTypeOK
  <2>4. pin' \in PinState /\ Len(pin'.first) <= PinLength /\ Len(pin'.entry) <= PinLength
    BY <1>5, FreshPinType, LengthType DEF Forgotten
  <2>5. names' \in [Roles -> Users \union {NoUser}] /\ page' = 0
    BY <1>5 DEF Forgotten
  <2> QED
    BY <1>5, <2>3, <2>4, <2>5
    DEF Forgotten, SetupTypeOK, AccountPage, NamePage, FinishPage, AvatarPage, PinPage
<1>6. CASE Quit
  BY <1>0, <1>5, <1>6 DEF Quit, AccountsTypeOK
<1>7. CASE WizardCrash
  BY <1>0, <1>5, <1>7, SpendType DEF WizardCrash
<1>8. CASE Reboot
  <2>1. setupUp' \in BOOLEAN
    BY <1>0, <1>8 DEF Reboot, AccountsTypeOK
  <2> QED
    BY <1>0, <1>5, <1>8, <2>1, SpendType DEF Reboot
<1>9. CASE UNCHANGED setupVars
  BY <1>0, <1>9 DEF setupVars, SetupTypeOK, AccountsTypeOK
<1> QED
  BY <1>1, <1>2, <1>3, <1>4, <1>6, <1>7, <1>8, <1>9 DEF SetupNext, WizardReturns
----------------------------------------------------------------------------
(* What the service does to accounts.                                      *)

\* A handler at work has an account and a secret.
LEMMA HandlersCall ==
  ASSUME SetupTypeOK
  PROVE  /\ auth.call.op \in Roles \union {"pin", "mark"}
         /\ auth.call.op # "mark" => /\ auth.call.user \in Users
                                     /\ auth.call.secret \in Secrets
                                     /\ auth.call.secret # NoSecret
         /\ auth.pc \in {"useradd", "chown", "profile"} => auth.call.op \in Roles
         /\ auth.pc = "chpasswd" => auth.call.op # "mark"
BY NoneAssumption
DEF NoneAssumption, SetupTypeOK, AccountsTypeOK, Handler, Call, Ops, WellFormed

\* A step changes one account, secret or card, that of the handler's user.
LEMMA HostStep ==
  ASSUME SetupTypeOK, [SetupNext]_setupVars
  PROVE  \/ UNCHANGED <<linux, secret, profile>>
         \/ /\ auth.pc = "useradd"
            /\ linux' = [linux EXCEPT ![auth.call.user] =
                           IF @ = "none" THEN auth.call.op ELSE @]
            /\ UNCHANGED <<secret, profile>>
         \/ /\ auth.pc = "chpasswd"
            /\ linux[auth.call.user] # "none"
            /\ secret' = [secret EXCEPT ![auth.call.user] = auth.call.secret]
            /\ UNCHANGED <<linux, profile>>
         \/ /\ auth.pc = "profile"
            /\ profile' = [profile EXCEPT ![auth.call.user] = auth.call.op]
            /\ UNCHANGED <<linux, secret>>
<1> USE DEF hostVars
<1>1. CASE TakeCall \/ Proceed \/ Refuse \/ NameTaken \/ NobodyToChange
  BY <1>1 DEF TakeCall, Proceed, Refuse, NameTaken, NobodyToChange
<1>2. CASE SeedConfig \/ WriteFlag \/ RemoveAutologin
  BY <1>2 DEF SeedConfig, WriteFlag, RemoveAutologin
<1>3. CASE ProfileFails \/ FlagFails \/ RemoveFails \/ AuthCrash \/ GiveUp
           \/ ParentCalls \/ AnyoneMarks
  BY <1>3
  DEF ProfileFails, FlagFails, RemoveFails, AuthCrash, GiveUp, ParentCalls, AnyoneMarks
<1>4. CASE Useradd \/ UseraddFails
  <2>1. auth.pc = "useradd" /\ auth.call.user \in Users
    BY <1>4, HandlersCall DEF Useradd, UseraddFails, Roles
  <2>2. linux \in [Users -> Roles \union {"none"}]
    BY DEF SetupTypeOK, AccountsTypeOK
  <2>3. CASE Useradd
    BY <2>1, <2>2, <2>3 DEF Useradd, CanBeMade
  <2>4. CASE UseraddFails
    BY <2>1, <2>2, <2>4 DEF UseraddFails, CanBeMade
  <2> QED
    BY <1>4, <2>3, <2>4
<1>5. CASE Chpasswd
  BY <1>5 DEF Chpasswd
<1>6. CASE ChpasswdFails
  <2>1. auth.pc = "chpasswd" /\ auth.call.user \in Users
    BY <1>6, HandlersCall DEF ChpasswdFails
  <2>2. secret \in [Users -> Secrets \union {NoSecret}]
    BY DEF SetupTypeOK, AccountsTypeOK
  <2>3. CASE linux[auth.call.user] = "none"
    <3>1. secret' = secret
      BY <1>6, <2>1, <2>2, <2>3 DEF ChpasswdFails
    <3> QED
      BY <1>6, <3>1 DEF ChpasswdFails
  <2>4. CASE linux[auth.call.user] # "none"
    BY <1>6, <2>1, <2>4 DEF ChpasswdFails
  <2> QED
    BY <2>3, <2>4
<1>7. CASE WriteProfile
  BY <1>7 DEF WriteProfile
<1>8. CASE WizardStep \/ WizardReturns \/ WizardCrash \/ Reboot
  BY <1>8, Untouched
<1>9. CASE UNCHANGED setupVars
  BY <1>9 DEF setupVars, accountVars
<1> QED
  BY <1>1, <1>2, <1>3, <1>4, <1>5, <1>6, <1>7, <1>8, <1>9
  DEF SetupNext, AccountsStep, HandlerStep, CommandFails

\* Who can log in goes on to, in that role; only a PIN change replaces a
\* secret, and no handler of the setup session changes one.
LEMMA LoginsStay ==
  ASSUME SetupTypeOK, HandlerOK, [SetupNext]_setupVars,
         NEW u \in Users, NEW r \in Roles, LogsIn(u, r)
  PROVE  /\ LogsIn(u, r)'
         /\ (auth.pc = "idle" \/ auth.call.op # "pin") => secret'[u] = secret[u]
<1> DEFINE a == auth.call.user
<1>1. linux[u] = r /\ r # "none" /\ secret[u] # NoSecret
  BY DEF LogsIn, Roles
<1>2. linux \in [Users -> Roles \union {"none"}]
      /\ secret \in [Users -> Secrets \union {NoSecret}]
  BY DEF SetupTypeOK, AccountsTypeOK
<1>3. CASE UNCHANGED <<linux, secret>>
  BY <1>1, <1>3 DEF LogsIn
<1>4. CASE /\ auth.pc = "useradd"
           /\ linux' = [linux EXCEPT ![a] = IF @ = "none" THEN auth.call.op ELSE @]
           /\ secret' = secret
  BY <1>1, <1>2, <1>4 DEF LogsIn
<1>5. CASE /\ auth.pc = "chpasswd"
           /\ secret' = [secret EXCEPT ![a] = auth.call.secret]
           /\ linux' = linux
  <2>1. auth.call.secret # NoSecret
    BY <1>5, HandlersCall
  <2>2. secret'[u] = IF u = a THEN auth.call.secret ELSE secret[u]
    BY <1>2, <1>5
  <2>3. u = a /\ auth.call.op # "pin" => secret[u] = NoSecret
    BY <1>5 DEF HandlerOK
  <2> QED
    BY <1>1, <1>5, <2>1, <2>2, <2>3 DEF LogsIn
<1> QED
  BY <1>3, <1>4, <1>5, HostStep

LEMMA ClosableStays ==
  ASSUME SetupTypeOK, HandlerOK, [SetupNext]_setupVars, Closable
  PROVE  Closable'
<1>1. ASSUME NEW r \in Roles PROVE \E u \in Users : LogsIn(u, r)'
  BY <1>1, LoginsStay DEF Closable
<1> QED
  BY <1>1 DEF Closable

\* A card is written for an account that logs in by then.
LEMMA ProfilesInv ==
  ASSUME IInv, [SetupNext]_setupVars PROVE ProfilesTell'
<1> SUFFICES ASSUME NEW u \in Users, profile'[u] # "none"
             PROVE  LogsIn(u, profile[u])'
  BY DEF ProfilesTell
<1> USE DEF IInv
<1>1. profile \in [Users -> Roles \union {"none"}]
  BY DEF SetupTypeOK, AccountsTypeOK
<1>2. CASE profile'[u] = profile[u]
  <2>1. profile[u] \in Roles /\ LogsIn(u, profile[u])
    BY <1>1, <1>2 DEF ProfilesTell
  <2>2. linux'[u] = profile[u] /\ secret'[u] # NoSecret
    BY <2>1, LoginsStay DEF LogsIn
  <2> QED
    BY <1>2, <2>2 DEF LogsIn
<1>3. CASE /\ auth.pc = "profile"
           /\ profile' = [profile EXCEPT ![auth.call.user] = auth.call.op]
           /\ UNCHANGED <<linux, secret>>
           /\ profile'[u] # profile[u]
  <2>1. u = auth.call.user /\ profile'[u] = auth.call.op
    BY <1>1, <1>3
  <2>2. linux[u] = auth.call.op /\ secret[u] = auth.call.secret
    BY <1>3, <2>1 DEF HandlerOK
  <2>3. auth.call.op \in Roles /\ auth.call.op # "mark"
    BY <1>3, HandlersCall DEF Roles
  <2>4. auth.call.secret # NoSecret
    BY <2>3, HandlersCall
  <2> QED
    BY <1>3, <2>1, <2>2, <2>4 DEF LogsIn
<1> QED
  BY <1>2, <1>3, HostStep

LEMMA OnlyAccountsInv ==
  ASSUME IInv, [SetupNext]_setupVars PROVE OnlyAccounts'
<1> SUFFICES ASSUME NEW u \in Users, linux'[u] = "none"
             PROVE  secret'[u] = NoSecret /\ profile'[u] = "none"
  BY DEF OnlyAccounts
<1> DEFINE a == auth.call.user
<1> USE DEF IInv
<1>1. linux \in [Users -> Roles \union {"none"}]
      /\ secret \in [Users -> Secrets \union {NoSecret}]
      /\ profile \in [Users -> Roles \union {"none"}]
  BY DEF SetupTypeOK, AccountsTypeOK
<1>2. CASE UNCHANGED <<linux, secret, profile>>
  BY <1>2 DEF OnlyAccounts
<1>3. CASE /\ linux' = [linux EXCEPT ![a] = IF @ = "none" THEN auth.call.op ELSE @]
           /\ UNCHANGED <<secret, profile>>
  <2>1. linux[u] = "none"
    BY <1>1, <1>3
  <2> QED
    BY <1>3, <2>1 DEF OnlyAccounts
<1>4. CASE /\ linux[a] # "none"
           /\ secret' = [secret EXCEPT ![a] = auth.call.secret]
           /\ UNCHANGED <<linux, profile>>
  <2>1. linux[u] = "none" /\ u # a
    BY <1>4
  <2> QED
    BY <1>1, <1>4, <2>1 DEF OnlyAccounts
<1>5. CASE /\ auth.pc = "profile"
           /\ profile' = [profile EXCEPT ![a] = auth.call.op]
           /\ UNCHANGED <<linux, secret>>
  <2>1. linux[a] \in Roles
    BY <1>5, HandlersCall DEF HandlerOK
  <2>2. linux[u] = "none" /\ u # a
    BY <1>5, <2>1 DEF Roles
  <2> QED
    BY <1>1, <1>5, <2>2 DEF OnlyAccounts
<1> QED
  BY <1>2, <1>3, <1>4, <1>5, HostStep

----------------------------------------------------------------------------
(* Handlers.                                                               *)

\* How a step moves the handler in progress.
LEMMA HandlerMoves ==
  ASSUME SetupTypeOK, [SetupNext]_setupVars
  PROVE  \/ auth' = auth
         \/ auth'.pc = "idle"
         \/ TakeCall \/ ParentCalls \/ AnyoneMarks \/ Proceed
         \/ Useradd \/ Chpasswd \/ SeedConfig \/ WriteFlag
<1>1. ASSUME NEW b, Answer(b) PROVE auth'.pc = "idle"
  BY <1>1 DEF Answer, Idle
<1>2. CASE Refuse \/ NameTaken \/ NobodyToChange \/ WriteProfile \/ RemoveAutologin
  BY <1>1, <1>2 DEF Refuse, NameTaken, NobodyToChange, WriteProfile, RemoveAutologin
<1>3. CASE CommandFails
  BY <1>1, <1>3
  DEF CommandFails, UseraddFails, ChpasswdFails, ProfileFails, FlagFails, RemoveFails
<1>4. CASE AuthCrash \/ GiveUp
  BY <1>4 DEF AuthCrash, GiveUp, Idle
<1>5. CASE WizardStep \/ WizardReturns \/ WizardCrash \/ Reboot
  BY <1>5, Untouched DEF Idle
<1>6. CASE UNCHANGED setupVars
  BY <1>6 DEF setupVars, accountVars
<1> QED
  BY <1>2, <1>3, <1>4, <1>5, <1>6 DEF SetupNext, AccountsStep, HandlerStep

\* The host under a handler changes by its own steps.
LEMMA SameHandler ==
  ASSUME SetupTypeOK, [SetupNext]_setupVars, auth' = auth, auth.pc # "idle"
  PROVE  UNCHANGED <<linux, secret, profile>>
<1>1. CASE WizardStep \/ WizardReturns \/ WizardCrash \/ Reboot
  BY <1>1, Untouched DEF hostVars
<1>2. CASE UNCHANGED setupVars
  BY <1>2 DEF setupVars, accountVars, hostVars
<1>3. CASE AccountsStep
  <2>1. auth \in Handler
    BY DEF SetupTypeOK, AccountsTypeOK
  <2>2. ASSUME NEW b, Answer(b) PROVE FALSE
    BY <2>2 DEF Answer, Idle
  <2>3. ~(Useradd \/ Chpasswd)
    <3>1. ~Useradd
      BY <2>1 DEF Useradd, Handler
    <3>2. ~Chpasswd
      BY <2>1, <2>2 DEF Chpasswd, AfterChpasswd, Handler
    <3> QED
      BY <3>1, <3>2
  <2>4. ~(WriteProfile \/ UseraddFails \/ ChpasswdFails)
    BY <2>2 DEF WriteProfile, UseraddFails, ChpasswdFails
  <2>5. CASE TakeCall \/ Proceed \/ Refuse \/ NameTaken \/ NobodyToChange
             \/ SeedConfig \/ WriteFlag \/ RemoveAutologin
    BY <2>5 DEF TakeCall, Proceed, Refuse, NameTaken, NobodyToChange, SeedConfig,
                WriteFlag, RemoveAutologin, hostVars
  <2>6. CASE ProfileFails \/ FlagFails \/ RemoveFails \/ AuthCrash \/ GiveUp
             \/ ParentCalls \/ AnyoneMarks
    BY <2>6 DEF ProfileFails, FlagFails, RemoveFails, AuthCrash, GiveUp,
                ParentCalls, AnyoneMarks, hostVars
  <2> QED
    BY <1>3, <2>3, <2>4, <2>5, <2>6 DEF AccountsStep, HandlerStep, CommandFails
<1> QED
  BY <1>1, <1>2, <1>3 DEF SetupNext
LEMMA HandlerInv ==
  ASSUME IInv, [SetupNext]_setupVars PROVE HandlerOK'
<1> USE DEF IInv
<1>1. CASE auth' = auth
  <2>1. CASE auth.pc = "idle"
    BY <1>1, <2>1 DEF HandlerOK
  <2>2. CASE auth.pc # "idle"
    BY <1>1, <2>2, SameHandler DEF HandlerOK, ValidSecret
  <2> QED
    BY <2>1, <2>2
<1>2. CASE auth'.pc \in {"idle", "check"}
  BY <1>2 DEF HandlerOK
<1>3. CASE TakeCall \/ ParentCalls
  BY <1>2, <1>3 DEF TakeCall, ParentCalls
<1>10. CASE AnyoneMarks
  <2>1. auth'.pc = "flag" /\ auth'.call.op = "mark"
    BY <1>10 DEF AnyoneMarks, MarkCall
  <2> QED
    BY <2>1 DEF HandlerOK
<1>4. auth \in Handler
  BY DEF SetupTypeOK, AccountsTypeOK
<1>5. CASE Proceed
  <2>1. auth.call.op \in Roles \union {"pin", "mark"}
    BY HandlersCall
  <2>2. CASE auth.call.op \in Roles
    <3>1. auth'.pc = "useradd" /\ auth'.call = auth.call /\ ValidSecret(auth.call)
      BY <1>4, <1>5, <2>2 DEF Proceed, Handler, Roles
    <3> QED
      BY <3>1 DEF HandlerOK, ValidSecret
  <2>3. CASE auth.call.op = "pin"
    <3>1. auth'.pc = "chpasswd" /\ auth'.call = auth.call /\ ValidSecret(auth.call)
      BY <1>4, <1>5, <2>3 DEF Proceed, Handler, Roles
    <3> QED
      BY <2>3, <3>1 DEF HandlerOK, ValidSecret
  <2>4. CASE auth.call.op = "mark"
    <3>1. auth'.pc = "flag" /\ auth'.call = auth.call
      BY <1>4, <1>5, <2>4 DEF Proceed, Handler, Roles
    <3> QED
      BY <2>4, <3>1 DEF HandlerOK
  <2> QED
    BY <2>1, <2>2, <2>3, <2>4
<1>6. CASE Useradd
  <2> DEFINE u == auth.call.user
  <2>1. /\ auth.pc = "useradd" /\ auth'.pc = "chpasswd" /\ auth'.call = auth.call
        /\ UNCHANGED <<secret, profile>>
    BY <1>4, <1>6 DEF Useradd, Handler
  <2>2. u \in Users /\ ValidSecret(auth.call)
    BY <2>1, HandlersCall DEF HandlerOK, Roles
  <2>3. linux'[u] = auth.call.op /\ linux[u] = "none"
    BY <1>6, <2>2 DEF Useradd, CanBeMade, SetupTypeOK, AccountsTypeOK
  <2>4. secret[u] = NoSecret /\ profile[u] = "none"
    BY <2>2, <2>3 DEF OnlyAccounts
  <2> QED
    BY <2>1, <2>2, <2>3, <2>4 DEF HandlerOK, ValidSecret
<1>7. CASE Chpasswd
  <2> DEFINE u == auth.call.user
  <2>1. auth.pc = "chpasswd" /\ UNCHANGED <<linux, profile>>
    BY <1>7 DEF Chpasswd
  <2>2. u \in Users /\ ValidSecret(auth.call)
    BY <2>1, HandlersCall DEF HandlerOK
  <2>3. secret'[u] = auth.call.secret
    BY <1>7, <2>2 DEF Chpasswd, SetupTypeOK, AccountsTypeOK
  <2>4. CASE auth.call.op = "pin"
    BY <1>2, <1>7, <2>4 DEF Chpasswd, AfterChpasswd, Answer, Idle
  <2>5. CASE auth.call.op # "pin"
    <3>1. linux[u] = auth.call.op
      BY <2>1, <2>5 DEF HandlerOK
    <3>2. auth'.pc \in {"chown", "profile"} /\ auth'.call = auth.call
      BY <1>4, <1>7, <2>5 DEF Chpasswd, AfterChpasswd, Handler
    <3> QED
      BY <2>1, <2>2, <2>3, <3>1, <3>2 DEF HandlerOK, ValidSecret
  <2> QED
    BY <2>4, <2>5
<1>8. CASE SeedConfig
  <2>1. /\ auth.pc = "chown" /\ auth'.pc = "profile" /\ auth'.call = auth.call
        /\ UNCHANGED <<linux, secret>>
    BY <1>4, <1>8 DEF SeedConfig, Handler
  <2> QED
    BY <2>1 DEF HandlerOK, ValidSecret
<1>9. CASE WriteFlag
  <2>1. auth.pc = "flag" /\ auth'.pc = "rm" /\ auth'.call = auth.call
    BY <1>4, <1>9 DEF WriteFlag, Handler
  <2> QED
    BY <2>1 DEF HandlerOK
<1> QED
  BY <1>1, <1>2, <1>3, <1>5, <1>6, <1>7, <1>8, <1>9, <1>10, HandlerMoves

----------------------------------------------------------------------------
(* Calls.                                                                  *)

Submit == SubmitParent \/ SubmitChild \/ SubmitLate \/ CloseSetup

\* The wizard adds one call to those on the bus, the service takes the first.
LEMMA InboxMoves ==
  ASSUME [SetupNext]_setupVars
  PROVE  inbox' = inbox \/ inbox' = <<>> \/ TakeCall \/ Submit
<1> USE DEF accountVars
<1>1. CASE AccountsStep
  BY <1>1
  DEF AccountsStep, HandlerStep, CommandFails, Proceed, Refuse, Useradd, NameTaken,
      Chpasswd, NobodyToChange, SeedConfig, WriteProfile, WriteFlag,
      RemoveAutologin, UseraddFails, ChpasswdFails, ProfileFails, FlagFails,
      RemoveFails, AuthCrash, GiveUp, ParentCalls, AnyoneMarks
<1>2. ASSUME NEW at, LeadOn(at) PROVE inbox' = inbox
  BY <1>2 DEF LeadOn
<1>3. CASE WizardStep
  BY <1>2, <1>3
  DEF WizardStep, Welcome, Language, Avatar, Age, ParentConnect, ParentAccount,
      Name, EnterName, GoBack, DigitPressed, Backspace, RememberEntry,
      RejectEntry, Submit
<1>4. CASE WizardReturns \/ WizardCrash \/ Reboot
  BY <1>4 DEF WizardReturns, ParentAnswered, ChildAnswered, Quit, WizardCrash, Reboot
<1>5. CASE UNCHANGED setupVars
  BY <1>5 DEF setupVars
<1> QED
  BY <1>1, <1>3, <1>4, <1>5 DEF SetupNext

\* The session ends and does not start again but with the machine.
LEMMA SessionMoves ==
  ASSUME [SetupNext]_setupVars
  PROVE  setupUp' = setupUp \/ ~setupUp' \/ Reboot
<1> USE DEF accountVars
<1>1. CASE AccountsStep
  BY <1>1
  DEF AccountsStep, HandlerStep, CommandFails, TakeCall, Proceed, Refuse, Useradd,
      NameTaken, Chpasswd, NobodyToChange, SeedConfig, WriteProfile, WriteFlag,
      RemoveAutologin, UseraddFails, ChpasswdFails, ProfileFails, FlagFails,
      RemoveFails, AuthCrash, GiveUp, ParentCalls, AnyoneMarks
<1>2. ASSUME NEW at, LeadOn(at) PROVE setupUp' = setupUp
  BY <1>2 DEF LeadOn
<1>3. CASE WizardStep
  BY <1>2, <1>3
  DEF WizardStep, Welcome, Language, Avatar, Age, ParentConnect, ParentAccount,
      Name, EnterName, GoBack, DigitPressed, Backspace, RememberEntry,
      RejectEntry, SubmitParent, SubmitChild, SubmitLate, CloseSetup
<1>4. CASE WizardReturns \/ WizardCrash
  BY <1>4 DEF WizardReturns, ParentAnswered, ChildAnswered, Quit, WizardCrash
<1>5. CASE UNCHANGED setupVars
  BY <1>5 DEF setupVars
<1> QED
  BY <1>1, <1>3, <1>4, <1>5 DEF SetupNext

\* On the last screen a parent and a child can log in.
LEMMA LastPageClosable ==
  ASSUME SetupTypeOK, TypedLogsIn, page = FinishPage PROVE Closable
<1>1. ParentIn /\ ChildIn
  BY DEF TypedLogsIn, NamePage, ConnectPage, FinishPage
<1>2. names["parent"] \in Users /\ names["child"] \in Users
  BY DEF SetupTypeOK, AccountPage, NamePage, FinishPage
<1>3. NoSecret \notin Passwords /\ NoSecret \notin Entries
  BY NoneAssumption DEF NoneAssumption, Secrets
<1>4. ChildPin \in Entries
  BY DEF SetupTypeOK, PinState, ChildPin
<1>5. LogsIn(names["parent"], "parent") /\ LogsIn(names["child"], "child")
  BY <1>1, <1>3, <1>4 DEF LogsIn, ParentIn, ChildIn
<1> QED
  BY <1>2, <1>5 DEF Closable, Roles

LEMMA CallsInv ==
  ASSUME IInv, [SetupNext]_setupVars PROVE CallsOK'
<1> USE DEF IInv
<1>1. Closable => Closable'
  BY ClosableStays
<1>2. inbox \in Seq(Call) /\ Len(inbox) \in Nat
      /\ \A k \in 1 .. Len(inbox) : CallOK(inbox[k])
  BY DEF SetupTypeOK, AccountsTypeOK, CallsOK
<1>3. \A k \in 1 .. Len(inbox') : CallOK(inbox[k])'
  <2>1. CASE inbox' = inbox
    BY <1>1, <1>2, <2>1 DEF CallOK
  <2>2. CASE inbox' = <<>>
    BY <2>2, EmptySeq
  <2>3. CASE TakeCall
    <3>1. Len(inbox') = Len(inbox) - 1
          /\ \A k \in 1 .. Len(inbox') : inbox'[k] = inbox[k + 1]
      BY <1>2, <2>3 DEF TakeCall
    <3>2. \A k \in 1 .. Len(inbox') : k + 1 \in 1 .. Len(inbox)
      BY <1>2, <3>1
    <3> QED
      BY <1>1, <1>2, <3>1, <3>2 DEF CallOK
  <2>4. CASE Submit
    <3>1. PICK call : /\ inbox' = Append(inbox, call)
                      /\ call.op \in Roles \union {"mark"} /\ call.by = "setup"
                      /\ call.op = "mark" => Closable
      <4>1. CASE SubmitParent
        BY <4>1 DEF SubmitParent, Send, Roles
      <4>2. CASE SubmitChild
        BY <4>2 DEF SubmitChild, Send, Roles
      <4>5. CASE SubmitLate
        BY <4>5 DEF SubmitLate, Send, Roles
      <4>3. CASE CloseSetup
        BY <4>3, LastPageClosable DEF CloseSetup, Send
      <4> QED
        BY <2>4, <4>1, <4>2, <4>3, <4>5 DEF Submit
    <3>2. ASSUME NEW k \in 1 .. Len(inbox')
          PROVE  \/ k \in 1 .. Len(inbox) /\ inbox'[k] = inbox[k]
                 \/ inbox'[k] = call
      BY <1>2, <3>1
    <3> QED
      BY <1>1, <1>2, <3>1, <3>2 DEF CallOK
  <2> QED
    BY <2>1, <2>2, <2>3, <2>4, InboxMoves
<1>4. auth'.pc # "idle" =>
        \/ CallOK(auth.call)'
        \/ ~setupUp' /\ auth'.call.op # "mark" /\ auth'.call.by = "parent"
        \/ auth'.call.op = "mark" /\ auth'.call.by = "other"
  <2>1. CASE TakeCall
    <3>1. inbox # <<>> /\ auth'.call = inbox[1] /\ 1 \in 1 .. Len(inbox)
      BY <1>2, <2>1 DEF TakeCall
    <3> QED
      BY <1>1, <1>2, <3>1 DEF CallOK
  <2>2. CASE ParentCalls
    <3>1. PICK op \in Ops \ {"mark"}, u \in Users, s \in Secrets :
            auth' = [pc |-> "check",
                     call |-> [op |-> op, user |-> u, secret |-> s, by |-> "parent"]]
      BY <2>2 DEF ParentCalls
    <3> QED
      BY <2>2, <3>1 DEF ParentCalls
  <2>8. CASE AnyoneMarks
    BY <2>8 DEF AnyoneMarks, MarkCall
  <2>3. CASE auth.pc # "idle" /\ auth'.call = auth.call
             /\ (auth'.pc = "idle" \/ setupUp' = setupUp \/ ~setupUp')
    BY <1>1, <2>3 DEF CallsOK, CallOK
  <2>4. Reboot => auth'.pc = "idle"
    BY DEF Reboot, Idle
  <2>5. auth \in Handler
    BY DEF SetupTypeOK, AccountsTypeOK
  <2>6. CASE Proceed \/ Useradd \/ Chpasswd \/ SeedConfig \/ WriteFlag
    <3>1. auth.pc # "idle" /\ (auth'.pc = "idle" \/ auth'.call = auth.call)
      BY <2>5, <2>6
      DEF Proceed, Useradd, Chpasswd, SeedConfig, WriteFlag, AfterChpasswd, Answer,
          Idle, Handler
    <3> QED
      BY <2>3, <2>4, <3>1, SessionMoves
  <2>7. CASE auth' = auth
    BY <2>3, <2>4, <2>7, SessionMoves
  <2> QED
    BY <2>1, <2>2, <2>6, <2>7, <2>8, HandlerMoves
<1> QED
  BY <1>3, <1>4 DEF CallsOK

\* A PIN screen's timer starts when no screen that was left has one.
LEMMA LateInv ==
  ASSUME IInv, [SetupNext]_setupVars PROVE LateAlone'
<1> USE DEF IInv
<1>1. FreshPin.timer = FALSE
  BY DEF FreshPin
<1>2. pin \in PinState
  BY DEF SetupTypeOK
<1>3. CASE UNCHANGED <<late, pin>>
  BY <1>3 DEF LateAlone
<1>4. CASE pin' = FreshPin \/ late' = NoSecret
  BY <1>1, <1>4 DEF LateAlone
<1>5. ASSUME NEW at, GoOn(at) PROVE UNCHANGED <<late, pin>> \/ pin' = FreshPin
  BY <1>5 DEF GoOn
<1>6. CASE WizardStep
  <2>1. CASE Welcome \/ Language \/ Avatar \/ Age \/ ParentConnect \/ ParentAccount
             \/ Name
    BY <1>3, <1>4, <1>5, <2>1
    DEF Welcome, Language, Avatar, Age, ParentConnect, LeadOn, ParentAccount, Name,
        EnterName
  <2>2. CASE GoBack
    <3>1. CASE page = PinPage
      BY <1>4, <2>2, <3>1 DEF GoBack
    <3>2. CASE page # PinPage
      <4>1. pin' = pin /\ late' \in {late, NoSecret}
        BY <2>2, <3>2 DEF GoBack, Confirmed
      <4> QED
        BY <1>3, <1>4, <4>1
    <3> QED
      BY <3>1, <3>2
  <2>3. CASE DigitPressed
    BY <1>4, <2>3 DEF DigitPressed
  <2>4. CASE Backspace \/ SubmitChild
    <3>1. late' = late /\ (pin'.timer => pin.timer)
      BY <1>2, <2>4 DEF Backspace, SubmitChild, PinState
    <3> QED
      BY <3>1 DEF LateAlone
  <2>5. CASE RememberEntry
    <3>1. late' = late /\ ~pin'.timer
      BY <2>5 DEF RememberEntry, FreshPin
    <3> QED
      BY <3>1 DEF LateAlone
  <2>6. CASE RejectEntry
    BY <1>4, <2>6 DEF RejectEntry
  <2>7. CASE SubmitParent \/ SubmitLate \/ CloseSetup
    BY <1>3, <2>7 DEF SubmitParent, SubmitLate, CloseSetup, wizardVars
  <2> QED
    BY <1>6, <2>1, <2>2, <2>3, <2>4, <2>5, <2>6, <2>7 DEF WizardStep
<1>7. CASE ParentAnswered \/ ChildAnswered
  BY <1>3, <1>4, <1>7 DEF ParentAnswered, ChildAnswered
<1>8. CASE Quit \/ WizardCrash \/ Reboot
  BY <1>4, <1>8 DEF Quit, WizardCrash, Reboot, Forgotten
<1>9. CASE UNCHANGED wizardVars
  BY <1>3, <1>9 DEF wizardVars
<1> QED
  BY <1>6, <1>7, <1>8, <1>9 DEF SetupNext, WizardReturns, setupVars

----------------------------------------------------------------------------
(* What was typed.                                                         *)

\* While the setup session is up no handler changes a PIN.
LEMMA NoPinChange ==
  ASSUME IInv, setupUp PROVE auth.pc = "idle" \/ auth.call.op # "pin"
BY DEF IInv, CallsOK, CallOK, Roles

LEMMA ParentStays ==
  ASSUME IInv, [SetupNext]_setupVars, setupUp, names' = names, ParentIn,
         names["parent"] \in Users
  PROVE  ParentIn'
<1> DEFINE u == names["parent"]
<1>1. NoSecret \notin Passwords
  BY NoneAssumption DEF NoneAssumption, Secrets
<1>2. LogsIn(u, "parent")
  BY <1>1 DEF ParentIn, LogsIn
<1>3. SetupTypeOK /\ HandlerOK
  BY DEF IInv
<1>4. LogsIn(u, "parent")' /\ secret'[u] = secret[u]
  <2>1. "parent" \in Roles
    BY DEF Roles
  <2>2. linux'[u] = "parent" /\ secret'[u] = secret[u] /\ secret'[u] # NoSecret
    BY <1>2, <1>3, <2>1, LoginsStay, NoPinChange DEF LogsIn
  <2> QED
    BY <2>2 DEF LogsIn
<1> QED
  BY <1>4 DEF ParentIn, LogsIn

LEMMA ChildStays ==
  ASSUME IInv, [SetupNext]_setupVars, setupUp, names' = names,
         ChildPin' = ChildPin, ChildIn, names["child"] \in Users
  PROVE  ChildIn'
<1> DEFINE u == names["child"]
<1>1. SetupTypeOK /\ HandlerOK
  BY DEF IInv
<1>2. LogsIn(u, "child")
  <2>1. ChildPin \in Entries
    BY <1>1 DEF SetupTypeOK, PinState, ChildPin
  <2> QED
    BY <2>1, NoneAssumption DEF NoneAssumption, Secrets, ChildIn, LogsIn
<1>3. linux'[u] = "child" /\ secret'[u] = secret[u]
  <2>1. "child" \in Roles
    BY DEF Roles
  <2> QED
    BY <1>1, <1>2, <2>1, LoginsStay, NoPinChange DEF LogsIn
<1> QED
  BY <1>3 DEF ChildIn

\* The names of accounts made on earlier screens are known.
LEMMA NamesKnown ==
  ASSUME IInv
  PROVE  /\ page >= PasswordPage => names["parent"] \in Users
         /\ page >= AvatarPage => names["child"] \in Users
         /\ page # 0 => setupUp
BY DEF IInv, SetupTypeOK, Awaited, PasswordPage, AvatarPage, AccountPage, NamePage,
       FinishPage

LEMMA TypedInv ==
  ASSUME IInv, [SetupNext]_setupVars PROVE TypedLogsIn'
<1> USE DEF NamePage, ConnectPage, FinishPage
<1>0. page \in 0 .. 9 /\ TypedLogsIn
  BY DEF IInv, SetupTypeOK
<1>1. CASE UNCHANGED wizardVars
  <2>1. UNCHANGED <<page, names>> /\ ChildPin' = ChildPin
    BY <1>1 DEF wizardVars, ChildPin
  <2>2. page >= 4 => page # 0 /\ page >= PasswordPage
    BY <1>0 DEF PasswordPage
  <2>3. page >= 8 => page >= 4 /\ page >= AvatarPage
    BY <1>0 DEF AvatarPage
  <2>4. ASSUME page >= 4 PROVE ParentIn'
    BY <1>0, <2>1, <2>2, <2>4, NamesKnown, ParentStays DEF TypedLogsIn
  <2>5. ASSUME page >= 8 PROVE ChildIn'
    BY <1>0, <2>1, <2>2, <2>3, <2>5, NamesKnown, ChildStays DEF TypedLogsIn
  <2> QED
    BY <2>1, <2>4, <2>5 DEF TypedLogsIn
<1>2. CASE page' <= 3 /\ page' \in Nat
  BY <1>2 DEF TypedLogsIn
<1>3. ASSUME names'["parent"] = names["parent"], UNCHANGED hostVars,
             page >= 4, page' < 8, page' \in Nat
      PROVE  TypedLogsIn'
  BY <1>0, <1>3 DEF TypedLogsIn, ParentIn, hostVars
<1>4. ASSUME UNCHANGED <<names, hostVars>>, ChildPin' = ChildPin, page >= 8, page' \in Nat
      PROVE  TypedLogsIn'
  <2>1. page >= 4
    BY <1>0, <1>4
  <2> QED
    BY <1>0, <1>4, <2>1 DEF TypedLogsIn, ParentIn, ChildIn, hostVars
<1>5. CASE WizardStep
  <2>1. UNCHANGED hostVars
    BY <1>5, Untouched
  <2>2. ASSUME NEW at \in {0, 1, 5, 6}, LeadOn(at) PROVE TypedLogsIn'
    <3>1. page = at /\ page' = at + 1 /\ names' = names
      BY <2>2 DEF LeadOn, GoOn
    <3> QED
      BY <1>2, <1>3, <2>1, <2>2, <3>1
  <2>3. CASE LeadOn(8)
    <3>1. page = 8 /\ page' = 9 /\ names' = names /\ ChildPin' = ChildPin
      BY <2>3 DEF LeadOn, GoOn, PinPage, ChildPin
    <3> QED
      BY <1>4, <2>1, <3>1
  <2>4. CASE ParentAccount
    BY <1>2, <2>4 DEF ParentAccount, EnterName, GoOn, AccountPage
  <2>5. CASE Name
    <3>1. page = 4 /\ page' = 5
      BY <2>5 DEF Name, EnterName, GoOn
    <3>2. names'["parent"] = names["parent"]
      BY <2>5 DEF Name, EnterName, IInv, SetupTypeOK, Roles
    <3> QED
      BY <1>3, <2>1, <3>1, <3>2
  <2>6. CASE GoBack
    <3>1. page \in 1 .. 8 /\ names' = names
          /\ (page' = page - 1 \/ (page = 8 /\ page' \in 5 .. 7))
      BY <2>6 DEF GoBack, IInv, SetupTypeOK, AvatarPage, PinPage
    <3> QED
      BY <1>2, <1>3, <2>1, <3>1
  <2>7. CASE SubmitParent \/ SubmitLate \/ CloseSetup
    BY <1>1, <2>7 DEF SubmitParent, SubmitLate, CloseSetup
  <2>8. CASE SubmitChild \/ DigitPressed \/ Backspace \/ RememberEntry \/ RejectEntry
    <3>1. page = 7 /\ page' = 7 /\ names' = names
      BY <2>8
      DEF SubmitChild, Confirmed, DigitPressed, Backspace, RememberEntry, RejectEntry,
          PinPage
    <3> QED
      BY <1>3, <2>1, <3>1
  <2> QED
    BY <1>5, <2>2, <2>3, <2>4, <2>5, <2>6, <2>7, <2>8
    DEF WizardStep, Welcome, Language, Avatar, Age, ParentConnect
<1>6. CASE ParentAnswered
  <2>1. page = 3 /\ UNCHANGED <<hostVars, names>> /\ awaits \in {"true", "false"}
    BY <1>6 DEF ParentAnswered, PasswordPage
  <2>2. CASE awaits = "true"
    <3>1. ParentIn /\ page' = 4
      BY <1>6, <2>1, <2>2 DEF ParentAnswered, IInv, Awaited, PasswordPage
    <3> QED
      BY <2>1, <3>1 DEF TypedLogsIn, ParentIn, hostVars
  <2>3. CASE awaits # "true"
    <3>1. page' = 3
      BY <1>6, <2>1, <2>3 DEF ParentAnswered
    <3> QED
      BY <1>2, <3>1
  <2> QED
    BY <2>2, <2>3
<1>7. CASE ChildAnswered
  <2>1. page \in 5 .. 7 /\ UNCHANGED <<hostVars, names>> /\ awaits \in {"true", "false"}
    BY <1>7 DEF ChildAnswered, AvatarPage, PinPage
  <2>2. CASE awaits = "true"
    <3>1. page \in AvatarPage .. PinPage
      BY <1>7 DEF ChildAnswered
    <3>2. ChildIn /\ ParentIn
      BY <1>0, <2>1, <2>2, <3>1 DEF IInv, Awaited, TypedLogsIn
    <3>3. page' = 8 /\ ChildPin' = ChildPin
      BY <1>7, <2>2 DEF ChildAnswered, ChildPin
    <3> QED
      BY <2>1, <3>2, <3>3 DEF TypedLogsIn, ParentIn, ChildIn, hostVars
  <2>3. CASE awaits # "true"
    <3>1. page' = page
      BY <1>7, <2>1, <2>3 DEF ChildAnswered
    <3> QED
      BY <1>3, <2>1, <3>1
  <2> QED
    BY <2>2, <2>3
<1>8. CASE Quit \/ WizardCrash \/ Reboot
  BY <1>2, <1>8 DEF Quit, WizardCrash, Reboot, Forgotten
<1>9. CASE UNCHANGED setupVars
  BY <1>1, <1>9 DEF setupVars
<1> QED
  BY <1>1, <1>5, <1>6, <1>7, <1>8, <1>9 DEF SetupNext, WizardReturns

----------------------------------------------------------------------------
(* What the wizard waits for.                                              *)

\* The handler of the awaited call ends well: what was typed logs in.
LEMMA GoodAnswer ==
  ASSUME IInv, awaits = "running", auth.pc \in {"profile", "rm"}
  PROVE  /\ page = PasswordPage => ParentIn
         /\ page \in AvatarPage .. PinPage => ChildIn
<1> USE DEF IInv
<1>1. IsCallOf(auth.call)
  BY DEF Awaited
<1>2. auth.pc = "rm" => auth.call.op = "mark"
  BY DEF HandlerOK
<1>3. auth.pc = "profile" => /\ linux[auth.call.user] = auth.call.op
                             /\ secret[auth.call.user] = auth.call.secret
                             /\ ValidSecret(auth.call)
  BY DEF HandlerOK
<1>4. CASE page = PasswordPage
  <2>1. auth.call.op = "parent" /\ auth.call.user = names["parent"]
    BY <1>1, <1>4 DEF IsCallOf, PasswordPage, AvatarPage, PinPage, FinishPage
  <2> QED
    BY <1>2, <1>3, <1>4, <2>1
    DEF ParentIn, ValidSecret, PasswordPage, AvatarPage, PinPage
<1>5. CASE page \in AvatarPage .. PinPage
  <2>0. page # PasswordPage
    BY <1>5 DEF PasswordPage, AvatarPage, PinPage
  <2>1. auth.call.op = "child" /\ auth.call.user = names["child"]
        /\ auth.call.secret = ChildPin
    BY <1>1, <1>5 DEF IsCallOf, PasswordPage, AvatarPage, PinPage, FinishPage
  <2>2. auth.pc = "profile"
    BY <1>2, <2>1
  <2>3. ChildPin \in Entries /\ Len(ChildPin) \in MinPin .. MaxPin
    BY <1>3, <2>1, <2>2 DEF ValidSecret, ValidPin
  <2>4. Len(ChildPin) \in Nat /\ Len(ChildPin) <= PinLength
    BY <2>3, EntryIsSeq, LenProperties DEF SetupTypeOK, ChildPin
  <2>5. Len(ChildPin) = PinLength
    BY <2>3, <2>4, PinAssumption, LengthAssumption
    DEF PinAssumption, LengthAssumption
  <2> QED
    BY <1>3, <2>0, <2>1, <2>2, <2>5 DEF ChildIn
<1> QED
  BY <1>4, <1>5

\* An answer of the service, and what stays as it is.
LEMMA ServiceAwaits ==
  ASSUME IInv, AccountsStep, UNCHANGED wizardVars, ~TakeCall
  PROVE  /\ inbox' = inbox \/ awaits' \notin {"queued", "running"}
         /\ \/ awaits' = awaits
            \/ awaits' = "false" /\ awaits # "none"
            \/ awaits = "running" /\ auth.pc \in {"profile", "rm"} /\ awaits' = "true"
         /\ awaits' = "running" => auth'.pc # "idle" /\ auth'.call = auth.call
         /\ setupUp' = setupUp
<1> USE DEF IInv
<1>1. auth \in Handler
  BY DEF SetupTypeOK, AccountsTypeOK
<1>2. awaits = "running" => setupUp /\ auth.pc # "idle" /\ auth.call.op # "pin"
  BY NoPinChange DEF Awaited
<1>3. ASSUME NEW b \in {"true", "false"}, Answer(b) PROVE
        /\ awaits' = awaits \/ (awaits = "running" /\ awaits' = b)
        /\ awaits' # "running"
  BY <1>3 DEF Answer
<1>4. CASE Refuse \/ NameTaken \/ NobodyToChange \/ UseraddFails \/ ChpasswdFails
           \/ FlagFails
  BY <1>3, <1>4
  DEF Refuse, NameTaken, NobodyToChange, UseraddFails, ChpasswdFails, FlagFails
<1>5. CASE WriteProfile \/ ProfileFails \/ RemoveAutologin \/ RemoveFails
  BY <1>3, <1>5 DEF WriteProfile, ProfileFails, RemoveAutologin, RemoveFails
<1>6. CASE Chpasswd
  <2>1. CASE auth.call.op = "pin"
    BY <1>2, <1>3, <1>6, <2>1 DEF Chpasswd, AfterChpasswd, Answer
  <2>2. CASE auth.call.op # "pin"
    BY <1>1, <1>6, <2>2 DEF Chpasswd, AfterChpasswd, Handler
  <2> QED
    BY <2>1, <2>2
<1>7. CASE Proceed
  <2>1. auth'.pc # "idle" /\ auth'.call = auth.call
    BY <1>1, <1>7, HandlersCall DEF Proceed, Handler
  <2> QED
    BY <1>7, <2>1 DEF Proceed
<1>8. CASE Useradd \/ SeedConfig \/ WriteFlag
  BY <1>1, <1>8 DEF Useradd, SeedConfig, WriteFlag, Handler
<1>9. CASE AuthCrash
  BY <1>9 DEF AuthCrash
<1>10. CASE GiveUp
  BY <1>10 DEF GiveUp
<1>11. CASE ParentCalls \/ AnyoneMarks
  BY <1>2, <1>11 DEF ParentCalls, AnyoneMarks
<1> QED
  BY <1>4, <1>5, <1>6, <1>7, <1>8, <1>9, <1>10, <1>11
  DEF AccountsStep, HandlerStep, CommandFails

\* Taking the first of a queue leaves the last one last.
LEMMA TailOfQueue ==
  ASSUME NEW S, NEW q \in Seq(S), q # <<>>
  PROVE  /\ Head(q) = q[1]
         /\ Len(q) = 1 => Tail(q) = <<>>
         /\ Len(q) # 1 => Tail(q) # <<>> /\ Tail(q)[Len(Tail(q))] = q[Len(q)]
<1>1. Len(q) \in Nat /\ Len(q) # 0
  BY EmptySeq, LenProperties
<1>2. /\ Tail(q) \in Seq(S) /\ Len(Tail(q)) = Len(q) - 1
      /\ \A i \in 1 .. Len(Tail(q)) : Tail(q)[i] = q[i + 1]
  BY HeadTailProperties
<1>3. Head(q) = q[1]
  OBVIOUS
<1>4. ASSUME Len(q) = 1 PROVE Tail(q) = <<>>
  <2>1. Len(Tail(q)) = 0
    BY <1>2, <1>4
  <2> QED
    BY <1>2, <2>1, EmptySeq
<1>5. ASSUME Len(q) # 1 PROVE Tail(q) # <<>> /\ Tail(q)[Len(Tail(q))] = q[Len(q)]
  <2> DEFINE n == Len(Tail(q))
  <2>1. n \in Nat /\ n # 0 /\ n \in 1 .. n /\ n + 1 = Len(q)
    BY <1>1, <1>2, <1>5
  <2>2. Len(<<>>) = 0
    BY EmptySeq
  <2> QED
    BY <1>2, <2>1, <2>2
<1> QED
  BY <1>3, <1>4, <1>5

LEMMA AwaitedInv ==
  ASSUME IInv, [SetupNext]_setupVars PROVE Awaited'
<1> USE DEF IInv
<1>0. /\ inbox \in Seq(Call) /\ Len(inbox) \in Nat
      /\ awaits \in {"none", "queued", "running", "true", "false"}
      /\ page \in 0 .. FinishPage
  BY DEF SetupTypeOK, AccountsTypeOK
<1>1. CASE AccountsStep /\ UNCHANGED wizardVars
  <2>0. UNCHANGED <<page, names>> /\ ChildPin' = ChildPin
    BY <1>1 DEF wizardVars, ChildPin
  <2>1. \A c : IsCallOf(c)' <=> IsCallOf(c)
    BY <2>0 DEF IsCallOf
  <2>2. /\ page = PasswordPage /\ ParentIn => ParentIn'
        /\ page \in AvatarPage .. PinPage /\ ChildIn => ChildIn'
    <3>1. page = PasswordPage => page # 0 /\ page >= PasswordPage
      BY DEF PasswordPage
    <3>2. page \in AvatarPage .. PinPage => page # 0 /\ page >= AvatarPage
      BY DEF AvatarPage, PinPage
    <3> QED
      BY <2>0, <3>1, <3>2, NamesKnown, ParentStays, ChildStays
  <2>3. CASE TakeCall
    <3>1. /\ auth.pc = "idle" /\ inbox # <<>> /\ auth'.pc = "check"
          /\ auth'.call = Head(inbox) /\ inbox' = Tail(inbox) /\ setupUp' = setupUp
          /\ awaits' = IF awaits = "queued" /\ Len(inbox) = 1 THEN "running" ELSE awaits
      BY <2>3 DEF TakeCall
    <3>2. awaits # "running"
      BY <3>1 DEF Awaited
    <3>3. awaits' = "running" => inbox' = <<>> /\ IsCallOf(auth.call)'
      <4>1. SUFFICES ASSUME awaits' = "running" PROVE inbox' = <<>> /\ IsCallOf(auth.call)'
        OBVIOUS
      <4>2. awaits = "queued" /\ Len(inbox) = 1
        BY <3>1, <3>2, <4>1
      <4>3. IsCallOf(inbox[1])
        BY <4>2 DEF Awaited
      <4>4. Head(inbox) = inbox[1] /\ Tail(inbox) = <<>>
        BY <1>0, <3>1, <4>2, TailOfQueue
      <4> QED
        BY <2>0, <3>1, <4>3, <4>4 DEF IsCallOf
    <3>4. awaits' = "queued" => inbox' # <<>> /\ IsCallOf(inbox[Len(inbox)])'
      <4>1. SUFFICES ASSUME awaits' = "queued"
                     PROVE  inbox' # <<>> /\ IsCallOf(inbox[Len(inbox)])'
        OBVIOUS
      <4>2. awaits = "queued" /\ Len(inbox) # 1
        BY <3>1, <4>1
      <4>3. IsCallOf(inbox[Len(inbox)])
        BY <4>2 DEF Awaited
      <4>4. Tail(inbox) # <<>> /\ Tail(inbox)[Len(Tail(inbox))] = inbox[Len(inbox)]
        BY <1>0, <3>1, <4>2, TailOfQueue
      <4> QED
        BY <2>0, <3>1, <4>3, <4>4 DEF IsCallOf
    <3> QED
      BY <2>0, <2>2, <3>1, <3>2, <3>3, <3>4 DEF Awaited
  <2>4. CASE ~TakeCall
    <3>1. awaits' = "queued" => awaits = "queued" /\ inbox' = inbox
      BY <1>1, <2>4, ServiceAwaits
    <3>2. awaits' = "running" => awaits = "running" /\ inbox' = inbox
                                 /\ auth'.pc # "idle" /\ auth'.call = auth.call
      BY <1>1, <2>4, ServiceAwaits
    <3>3. awaits' = "true" => \/ awaits = "true"
                              \/ awaits = "running" /\ auth.pc \in {"profile", "rm"}
      BY <1>1, <2>4, ServiceAwaits
    <3>4. awaits' = "true" => /\ page = PasswordPage => ParentIn'
                              /\ page \in AvatarPage .. PinPage => ChildIn'
      BY <2>2, <3>3, GoodAnswer DEF Awaited
    <3>5. setupUp' = setupUp /\ (awaits' # "none" => awaits # "none")
      BY <1>1, <2>4, ServiceAwaits
    <3> QED
      BY <2>0, <2>1, <3>1, <3>2, <3>4, <3>5 DEF Awaited, IsCallOf
  <2> QED
    BY <2>3, <2>4
<1>2. CASE awaits' = "none" /\ (setupUp' \/ page' = 0)
  BY <1>2 DEF Awaited
<1>3. CASE WizardStep /\ ~Submit
  <2>1. ASSUME NEW at, LeadOn(at) PROVE awaits' = "none" /\ setupUp'
    BY <2>1 DEF LeadOn, GoOn, Responsive, accountVars
  <2>2. Welcome \/ Language \/ Avatar \/ Age \/ ParentConnect
          => awaits' = "none" /\ setupUp'
    BY <2>1 DEF Welcome, Language, Avatar, Age, ParentConnect
  <2>3. ParentAccount \/ Name => awaits' = "none" /\ setupUp'
    BY DEF ParentAccount, Name, EnterName, GoOn, Responsive, accountVars
  <2>4. GoBack => awaits' = "none" /\ setupUp'
    BY DEF GoBack, Responsive, accountVars
  <2>5. DigitPressed \/ Backspace \/ RememberEntry \/ RejectEntry
          => awaits' = "none" /\ setupUp'
    <3>1. Responsive /\ accountVars' = accountVars => awaits' = "none" /\ setupUp'
      BY DEF Responsive, accountVars
    <3>2. DigitPressed => Responsive /\ accountVars' = accountVars
      BY DEF DigitPressed
    <3>3. Backspace => Responsive /\ accountVars' = accountVars
      BY DEF Backspace
    <3>4. RememberEntry \/ RejectEntry => Responsive /\ accountVars' = accountVars
      BY DEF RememberEntry, RejectEntry
    <3> QED
      BY <3>1, <3>2, <3>3, <3>4
  <2>6. awaits' = "none" /\ setupUp'
    BY <1>3, <2>2, <2>3, <2>4, <2>5 DEF WizardStep, Submit
  <2> QED
    BY <1>2, <2>6
<1>4. CASE Submit
  <2>1. PICK call : /\ inbox' = Append(inbox, call) /\ IsCallOf(call)
                    /\ awaits' = "queued"
                    /\ page \in CallingPages
    <3>1. CASE SubmitParent
      BY <3>1 DEF SubmitParent, Send, IsCallOf, CallingPages
    <3>2. CASE SubmitChild
      <4>1. late = NoSecret /\ page \in AvatarPage .. PinPage
        BY <3>2 DEF SubmitChild, Confirmed, LateAlone, AvatarPage, PinPage
      <4> QED
        BY <3>2, <4>1 DEF SubmitChild, Send, IsCallOf, CallingPages, ChildPin
    <3>3. CASE CloseSetup
      BY <3>3 DEF CloseSetup, Send, IsCallOf, CallingPages
    <3>4. CASE SubmitLate
      BY <3>4 DEF SubmitLate, Send, IsCallOf, CallingPages, ChildPin
    <3> QED
      BY <1>4, <3>1, <3>2, <3>3, <3>4 DEF Submit
  <2>2. /\ setupUp /\ setupUp' /\ UNCHANGED <<page, names>>
        /\ ChildPin' = ChildPin
    BY <1>4 DEF Submit, SubmitParent, SubmitChild, SubmitLate, CloseSetup, Responsive,
                wizardVars, SetupTypeOK, PinState, ChildPin
  <2>3. inbox' # <<>> /\ inbox'[Len(inbox')] = call
    BY <1>0, <2>1
  <2> QED
    BY <2>1, <2>2, <2>3 DEF Awaited, IsCallOf
<1>5. CASE WizardReturns \/ WizardCrash \/ Reboot
  BY <1>2, <1>5
  DEF WizardReturns, ParentAnswered, ChildAnswered, Quit, WizardCrash, Reboot, Forgotten
<1>6. CASE UNCHANGED setupVars
  BY <1>6
  DEF setupVars, accountVars, wizardVars, hostVars, Awaited, IsCallOf, ParentIn,
      ChildIn, ChildPin
<1> QED
  BY <1>1, <1>3, <1>4, <1>5, <1>6 DEF SetupNext, Submit, WizardStep
----------------------------------------------------------------------------
(* Theorems.                                                               *)

LEMMA InitInv == SetupInit => IInv
<1> SUFFICES ASSUME SetupInit PROVE IInv
  OBVIOUS
<1>1. /\ linux = [u \in Users |-> "none"] /\ secret = [u \in Users |-> NoSecret]
      /\ profile = [u \in Users |-> "none"] /\ setupUp = TRUE /\ auth.pc = "idle"
      /\ inbox = <<>> /\ awaits = "none" /\ page = 0
  BY DEF SetupInit, AccountsInit, Idle
<1>2. SetupTypeOK
  BY InitType
<1>3. TypedLogsIn
  BY <1>1 DEF TypedLogsIn, NamePage, ConnectPage
<1>4. ProfilesTell /\ OnlyAccounts
  BY <1>1 DEF ProfilesTell, OnlyAccounts
<1>5. Len(inbox) = 0
  BY <1>1, EmptySeq
<1>6. CallsOK /\ HandlerOK /\ Awaited /\ LateAlone
  BY <1>1, <1>5 DEF CallsOK, HandlerOK, Awaited, LateAlone, SetupInit
<1> QED
  BY <1>2, <1>3, <1>4, <1>6 DEF IInv

LEMMA NextInv == IInv /\ [SetupNext]_setupVars => IInv'
BY NextType, TypedInv, ProfilesInv, OnlyAccountsInv, CallsInv, HandlerInv, AwaitedInv,
   LateInv
DEF IInv

\* Setup's inductive invariant: calls on the bus and handlers in progress are
\* of the setup session, know how far their account has got, and the wizard's
\* close setup only when it may be closed; and the wizard waits on the screen that called.
THEOREM Inductive == SetupSpec => []IInv
BY InitInv, NextInv, PTL DEF SetupSpec

\* Every variable of the wizard and the service keeps its type.
THEOREM TypeCorrect == SetupSpec => []SetupTypeOK
BY Inductive, PTL DEF IInv

\* Past the screens that ask for them, the account names and the secrets typed
\* last log in, whatever commands failed, calls were given up or processes
\* died on the way.
THEOREM TypedIsRight == SetupSpec => []TypedLogsIn
BY Inductive, PTL DEF IInv

\* A public profile, which the login screen shows on an account's card, gives
\* the role of an account that can log in.
THEOREM ProfilesAreTrue == SetupSpec => []ProfilesTell
BY Inductive, PTL DEF IInv

\* The login of one person, as Family sees it.
LoginOf(u) == IF linux[u] # "none" /\ secret[u] # NoSecret
              THEN [role |-> linux[u], secret |-> secret[u]] ELSE NoLogin

LEMMA LoginIsSome ==
  ASSUME NEW r \in Roles, NEW s \in Secrets
  PROVE  [role |-> r, secret |-> s] # NoLogin
BY NoLoginAssumption DEF NoLoginAssumption

\* Setup is closed by one handler, that of a call to close it.
LEMMA FlagMoves ==
  ASSUME [SetupNext]_setupVars
  PROVE  flag' = flag \/ (WriteFlag /\ auth.pc = "flag" /\ flag' = TRUE)
<1> USE DEF hostVars
<1>1. CASE AccountsStep /\ ~WriteFlag
  BY <1>1
  DEF AccountsStep, HandlerStep, CommandFails, TakeCall, Proceed, Refuse, Useradd,
      NameTaken, Chpasswd, NobodyToChange, SeedConfig, WriteProfile,
      RemoveAutologin, UseraddFails, ChpasswdFails, ProfileFails, FlagFails,
      RemoveFails, AuthCrash, GiveUp, ParentCalls, AnyoneMarks
<1>2. CASE WriteFlag
  BY <1>2 DEF WriteFlag
<1>3. CASE WizardStep \/ WizardReturns \/ WizardCrash \/ Reboot
  BY <1>3, Untouched
<1>4. CASE UNCHANGED setupVars
  BY <1>4 DEF setupVars, accountVars
<1> QED
  BY <1>1, <1>2, <1>3, <1>4 DEF SetupNext

\* Who asks to close setup: nobody at first, the wizard only when it may.
LEMMA AskerMoves ==
  ASSUME IInv, [SetupNext]_setupVars, Asker' # Asker
  PROVE  \/ Asker' = "nobody" /\ auth.pc = "flag"
         \/ Asker = "nobody" /\ Asker' = "wizard" /\ Closable /\ auth.pc = "check"
         \/ Asker = "nobody" /\ Asker' = "other" /\ auth.pc \in {"idle", "check"}
<1> USE DEF IInv
<1>1. auth \in Handler
  BY DEF SetupTypeOK, AccountsTypeOK
<1>2. Asker # "nobody" => auth.pc = "flag"
  BY DEF Asker
<1>3. CASE auth'.pc # "flag"
  BY <1>2, <1>3 DEF Asker
<1>4. CASE auth'.pc = "flag"
  <2>1. auth' # auth
    BY DEF Asker
  <2>2. Proceed \/ AnyoneMarks
    <3>1. TakeCall \/ ParentCalls => auth'.pc = "check"
      BY DEF TakeCall, ParentCalls
    <3>2. Useradd => auth'.pc = "chpasswd"
      BY <1>1 DEF Useradd, Handler
    <3>3. Chpasswd => auth'.pc \in {"idle", "chown", "profile"}
      BY <1>1 DEF Chpasswd, AfterChpasswd, Answer, Idle, Handler
    <3>4. SeedConfig \/ WriteFlag => auth'.pc \in {"profile", "rm"}
      BY <1>1 DEF SeedConfig, WriteFlag, Handler
    <3> QED
      BY <1>4, <2>1, <3>1, <3>2, <3>3, <3>4, HandlerMoves
  <2>3. CASE AnyoneMarks
    <3>1. auth.pc = "idle" /\ auth'.call.by = "other"
      BY <2>3 DEF AnyoneMarks, MarkCall
    <3> QED
      BY <1>4, <3>1 DEF Asker
  <2>4. CASE Proceed
    <3>1. auth.pc = "check" /\ auth'.call = auth.call
      BY <1>1, <2>4 DEF Proceed, Handler
    <3>2. auth.call.op = "mark"
      BY <1>1, <1>4, <2>4 DEF Proceed, Handler, Call, Ops
    <3>3. auth.call.by = "setup" => Closable
      BY <3>1, <3>2 DEF CallsOK, CallOK
    <3> QED
      BY <1>4, <3>1, <3>3 DEF Asker
  <2> QED
    BY <2>2, <2>3, <2>4
<1> QED
  BY <1>3, <1>4

\* A step of setup is a step of Family or none.
LEMMA FamilyStep ==
  ASSUME IInv, [SetupNext]_setupVars
  PROVE  Fam!FamilyNext \/ UNCHANGED Fam!familyVars
<1> DEFINE a == auth.call.user
<1> USE DEF IInv
<1>1. /\ linux \in [Users -> Roles \union {"none"}]
      /\ secret \in [Users -> Secrets \union {NoSecret}]
      /\ flag \in BOOLEAN
  BY DEF SetupTypeOK, AccountsTypeOK
<1>2. CASE UNCHANGED <<linux, secret>> /\ flag' = flag
  <2>1. CASE Asker' = Asker
    BY <1>2, <2>1 DEF Fam!familyVars, Asker
  <2>2. CASE Asker' # Asker /\ Asker' = "nobody"
    <3>1. Fam!GiveUpClosing
      BY <1>2, <2>2 DEF Fam!GiveUpClosing, Asker
    <3> QED
      BY <3>1 DEF Fam!FamilyNext
  <2>3. CASE Asker = "nobody" /\ Asker' = "other"
    <3>1. Fam!AnotherAsks
      BY <1>2, <2>3 DEF Fam!AnotherAsks, Asker
    <3> QED
      BY <3>1 DEF Fam!FamilyNext
  <2>4. CASE Asker = "nobody" /\ Asker' = "wizard" /\ Closable
    <3>1. ASSUME NEW r \in Roles PROVE Fam!CanLogIn(r)
      <4>1. PICK u \in Users : LogsIn(u, r)
        BY <2>4 DEF Closable
      <4>2. linux[u] = r /\ r # "none" /\ secret[u] \in Secrets /\ secret[u] # NoSecret
        BY <1>1, <4>1 DEF LogsIn, Roles
      <4>3. [role |-> linux[u], secret |-> secret[u]] # NoLogin
        BY <4>2, LoginIsSome
      <4> QED
        BY <4>2, <4>3 DEF Fam!CanLogIn
    <3>2. Fam!CanLogIn("parent") /\ Fam!CanLogIn("child")
      BY <3>1 DEF Roles
    <3>3. Fam!WizardAsks
      BY <1>2, <2>4, <3>2 DEF Fam!WizardAsks, Asker
    <3> QED
      BY <3>3 DEF Fam!FamilyNext
  <2> QED
    BY <2>1, <2>2, <2>3, <2>4, AskerMoves
<1>3. CASE UNCHANGED <<linux, secret>> /\ flag' # flag
  <2>1. WriteFlag /\ auth.pc = "flag" /\ flag' = TRUE
    BY <1>3, FlagMoves
  <2>2. auth'.pc = "rm"
    BY <2>1 DEF WriteFlag, SetupTypeOK, AccountsTypeOK, Handler
  <2>3. Asker # "nobody" /\ Asker' = "nobody"
    BY <2>1, <2>2 DEF Asker
  <2>4. Fam!Close
    BY <1>3, <2>1, <2>3 DEF Fam!Close, Asker
  <2> QED
    BY <2>4 DEF Fam!FamilyNext
<1>4. CASE /\ auth.pc = "useradd"
           /\ linux' = [linux EXCEPT ![a] = IF @ = "none" THEN auth.call.op ELSE @]
           /\ UNCHANGED <<secret, profile>>
  <2>1. flag' = flag /\ Asker' = Asker
    BY <1>4, FlagMoves, AskerMoves
  <2>2. ASSUME NEW u \in Users PROVE LoginOf(u)' = LoginOf(u)
    <3>1. CASE linux'[u] = linux[u]
      BY <1>4, <3>1 DEF LoginOf
    <3>2. CASE linux'[u] # linux[u]
      <4>1. linux[u] = "none"
        BY <1>1, <1>4, <3>2
      <4>2. secret[u] = NoSecret
        BY <4>1 DEF OnlyAccounts
      <4> QED
        BY <1>4, <4>2 DEF LoginOf
    <3> QED
      BY <3>1, <3>2
  <2> QED
    BY <2>1, <2>2 DEF LoginOf, Fam!familyVars, Asker
<1>5. CASE /\ auth.pc = "chpasswd"
           /\ linux[a] # "none"
           /\ secret' = [secret EXCEPT ![a] = auth.call.secret]
           /\ UNCHANGED <<linux, profile>>
  <2>1. flag' = flag /\ Asker' = Asker
    BY <1>5, FlagMoves, AskerMoves
  <2>2. PICK b \in Users, s \in Secrets : b = a /\ s = auth.call.secret /\ s # NoSecret
    BY <1>5, HandlersCall
  <2>3. PICK r \in Roles : r = linux[b] /\ r # "none"
    BY <1>1, <1>5, <2>2
  <2> DEFINE login == [role |-> r, secret |-> s]
  <2>4. linux' = linux /\ secret' = [secret EXCEPT ![b] = s]
    BY <1>5, <2>2
  <2>5. linux'[b] = r /\ secret'[b] = s
    BY <1>1, <2>2, <2>3, <2>4
  <2>6. LoginOf(b)' = login
    BY <2>2, <2>3, <2>5 DEF LoginOf
  <2>7. ASSUME NEW u \in Users, u # b PROVE LoginOf(u)' = LoginOf(u)
    <3>1. linux'[u] = linux[u] /\ secret'[u] = secret[u]
      BY <1>1, <2>4, <2>7
    <3> QED
      BY <3>1 DEF LoginOf
  <2>8. CASE secret[b] = NoSecret
    <3>1. LoginOf(b) = NoLogin
      BY <2>8 DEF LoginOf
    <3>2. login \in Fam!Login
      BY DEF Fam!Login, Roles
    <3>3. [u \in Users |-> LoginOf(u)]' = [[u \in Users |-> LoginOf(u)] EXCEPT ![b] = login]
      BY <2>6, <2>7
    <3>4. Fam!Provision(b)
      BY <2>1, <3>1, <3>2, <3>3 DEF LoginOf, Fam!Provision, Asker
    <3> QED
      BY <3>4 DEF Fam!FamilyNext
  <2>9. CASE secret[b] # NoSecret
    <3>1. LoginOf(b) = [role |-> r, secret |-> secret[b]] /\ secret[b] \in Secrets
      BY <1>1, <2>3, <2>9 DEF LoginOf
    <3>2. LoginOf(b) # NoLogin /\ [LoginOf(b) EXCEPT !.secret = s] = login
      BY <3>1, LoginIsSome
    <3>3. [u \in Users |-> LoginOf(u)]'
            = [[u \in Users |-> LoginOf(u)] EXCEPT ![b].secret = s]
      BY <2>6, <2>7, <3>2
    <3>4. Fam!ChangeSecret(b)
      BY <2>1, <3>2, <3>3 DEF LoginOf, Fam!ChangeSecret, Asker
    <3> QED
      BY <3>4 DEF Fam!FamilyNext
  <2> QED
    BY <2>8, <2>9
<1> QED
  BY <1>2, <1>3, <1>4, <1>5, HostStep DEF Fam!FamilyNext

\* Setup keeps Family's promise, for any accounts, PINs and faults: a login is
\* made once and keeps its role, setup is closed once, and the wizard has it
\* closed only when a parent and a child can log in.  Another process's call,
\* which MarkFirstBootComplete does not tell from it, may come at any time.
THEOREM RefinesFamily == SetupSpec => FamilySpec
<1>1. SetupInit => Fam!FamilyInit
  BY DEF SetupInit, AccountsInit, Idle, Asker, Fam!FamilyInit
<1>2. IInv /\ [SetupNext]_setupVars => [Fam!FamilyNext]_Fam!familyVars
  BY FamilyStep
<1> QED
  BY <1>1, <1>2, Inductive, PTL DEF SetupSpec, FamilySpec, Fam!FamilySpec

-----------------------------------------------------------------------------
(* The child's settings *)

\* Only a child's settings are seeded; useradd gave it no group of its name.
SeedsChild ==
  /\ auth.pc = "chown" => auth.call.op = "child"
  /\ \A u \in Users : config[u] = "user" => u \in GroupNames

LEMMA SeedsChildStep ==
  ASSUME IInv, SeedsChild, [SetupNext]_setupVars
  PROVE  SeedsChild'
<1> USE DEF hostVars
<1>0. auth \in Handler /\ config \in [Users -> {"none", "root", "user"}]
  BY DEF IInv, SetupTypeOK, AccountsTypeOK
<1>1. CASE SeedConfig
  <2>1. auth'.pc = "profile"
    BY <1>0, <1>1 DEF SeedConfig, Handler
  <2>2. linux[auth.call.user] = "child"
    BY <1>1 DEF SeedConfig, SeedsChild, IInv, HandlerOK
  <2>3. ASSUME NEW u \in Users, config'[u] = "user" PROVE u \in GroupNames
    BY <1>0, <1>1, <2>2, <2>3 DEF SeedConfig, HasOwnGroup, SeedsChild
  <2> QED
    BY <2>1, <2>3 DEF SeedsChild
<1>2. CASE Chpasswd \/ ChpasswdFails
  <2>1. auth' = Idle \/ AfterChpasswd
    BY <1>2 DEF Chpasswd, ChpasswdFails, Answer
  <2>2. CASE auth' = Idle
    BY <1>2, <2>2 DEF Idle, SeedsChild, Chpasswd, ChpasswdFails
  <2>3. CASE auth' = [auth EXCEPT !.pc = IF auth.call.op = "child" THEN "chown"
                                                                   ELSE "profile"]
    <3>1. auth'.pc = "chown" => auth'.call.op = "child"
      BY <1>0, <2>3 DEF Handler
    <3> QED
      BY <1>2, <3>1 DEF SeedsChild, Chpasswd, ChpasswdFails
  <2> QED
    BY <2>1, <2>2, <2>3 DEF AfterChpasswd, Answer
<1>3. CASE UNCHANGED config /\ (auth' = auth \/ auth'.pc \in {"idle", "check",
                                  "useradd", "chpasswd", "flag", "rm", "profile"})
  BY <1>3 DEF SeedsChild
<1>4. CASE Proceed
  <2>1. auth'.pc \in {"useradd", "chpasswd", "flag"}
    BY <1>0, <1>4 DEF Proceed, Handler, Call, Ops
  <2> QED
    BY <1>3, <1>4, <2>1 DEF Proceed
<1>5. CASE Useradd \/ WriteFlag
  <2>1. auth'.pc \in {"chpasswd", "rm"}
    BY <1>0, <1>5 DEF Useradd, WriteFlag, Handler
  <2> QED
    BY <1>3, <1>5, <2>1 DEF Useradd, WriteFlag
<1>6. CASE TakeCall \/ ParentCalls \/ AnyoneMarks
  <2>1. auth'.pc \in {"check", "flag"}
    BY <1>6 DEF TakeCall, ParentCalls, AnyoneMarks
  <2> QED
    BY <1>3, <1>6, <2>1 DEF TakeCall, ParentCalls, AnyoneMarks
<1>7. CASE \/ Refuse \/ NameTaken \/ NobodyToChange \/ WriteProfile
           \/ RemoveAutologin \/ UseraddFails \/ ProfileFails \/ FlagFails
           \/ RemoveFails \/ AuthCrash
  <2>1. auth' = Idle /\ UNCHANGED config
    BY <1>7
    DEF Refuse, NameTaken, NobodyToChange, WriteProfile, RemoveAutologin,
        UseraddFails, ProfileFails, FlagFails, RemoveFails, AuthCrash, Answer
  <2> QED
    BY <1>3, <2>1 DEF Idle
<1>8. CASE GiveUp
  BY <1>3, <1>8 DEF GiveUp
<1>9. CASE WizardStep \/ WizardReturns \/ WizardCrash \/ Reboot
  <2>1. UNCHANGED config /\ (auth' = auth \/ auth' = Idle)
    BY <1>9, Untouched
  <2> QED
    BY <1>3, <2>1 DEF Idle
<1>10. CASE UNCHANGED setupVars
  BY <1>3, <1>10 DEF setupVars, accountVars
<1> QED
  BY <1>1, <1>2, <1>4, <1>5, <1>6, <1>7, <1>8, <1>9, <1>10
  DEF SetupNext, AccountsStep, HandlerStep, CommandFails

\* That the child's settings are handed over to the child holds only for a name
\* that happens to be that of a group of the system: useradd gives a child no
\* group of its own, so `chown user:user` fails for every other name.
THEOREM SeldomHandedOver ==
  SetupSpec => [](\A u \in Users : config[u] = "user" => u \in GroupNames)
<1>1. SetupInit => SeedsChild
  BY DEF SetupInit, AccountsInit, Idle, SeedsChild
<1>2. IInv /\ SeedsChild /\ [SetupNext]_setupVars => SeedsChild'
  BY SeedsChildStep
<1>3. SeedsChild => \A u \in Users : config[u] = "user" => u \in GroupNames
  BY DEF SeedsChild
<1> QED
  BY <1>1, <1>2, <1>3, Inductive, PTL DEF SetupSpec
============================================================================
