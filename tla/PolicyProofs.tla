---------------------------- MODULE PolicyProofs ----------------------------
(***************************************************************************)
(* Proofs about kidsos-policy in a user's session, for any apps, settings, *)
(* clients and faults: a change of one entry disturbs no other, and the    *)
(* service implements the policy map.                                      *)
(***************************************************************************)
EXTENDS Desktop, TLAPS, SequenceTheorems

Calls == SetCall(Anyone) \union GetCall(Anyone)

\* What a parent may ask for, made to a document, gives a document.
LEMMA ChangedDocument ==
  ASSUME NEW base \in Document, NEW call \in SetCall(Anyone), Valid(call)
  PROVE  Changed(base, call) \in Document
<1>1. call.key \in Keys /\ call.value \in Values
  BY DEF SetCall, Valid, Keys, Values
<1>2. ASSUME call.key \in Apps PROVE call.value # "managed"
  <2>1. call.op = "SetAppPolicy"
    BY <1>2, KeysAssumption DEF SetCall, KeysAssumption
  <2> QED
    BY <2>1 DEF Valid, Policies
<1>3. Changed(base, call) \in [Keys -> Values]
  BY <1>1 DEF Changed, Document
<1>4. \A a \in Apps : Changed(base, call)[a] # "managed"
  BY <1>2, <1>3 DEF Changed, Document, Keys
<1> QED
  BY <1>3, <1>4 DEF Document

LEMMA NothingDocument == Nothing \in Document
BY DEF Nothing, Document, Keys, Values

\* A call that is given up is still the same call.
LEMMA DisownedCall ==
  ASSUME NEW c \in Clients
  PROVE  /\ \A call \in SetCall(Anyone) :
              /\ Disowned(call, c) \in SetCall(Anyone)
              /\ Disowned(call, c).key = call.key /\ Disowned(call, c).value = call.value
              /\ Disowned(call, c).op = call.op
         /\ \A call \in GetCall(Anyone) : Disowned(call, c) \in GetCall(Anyone)
BY DEF Disowned, SetCall, GetCall, Anyone

\* A handler waits, asks polkit or writes, and its parts have their types.
LEMMA HandlerCases ==
  ASSUME serv \in Handler
  PROVE  \/ serv = Resting /\ serv.pc = "idle"
         \/ /\ serv.pc = "polkit" /\ serv.call \in SetCall(Anyone)
            /\ serv = [pc |-> "polkit", call |-> serv.call] /\ serv # Resting
         \/ /\ serv.pc = "write" /\ serv.call \in SetCall(Anyone)
            /\ serv.before \in Document /\ serv.doc \in Document
            /\ serv = [pc |-> "write", call |-> serv.call, before |-> serv.before,
                       doc |-> serv.doc]
            /\ serv # Resting
BY DEF Handler, Resting

LEMMA InitPolicyInv == PolicyInit => PolicyInv
<1> SUFFICES ASSUME PolicyInit PROVE PolicyInv
  OBVIOUS
<1>1. queue \in Seq(Calls)
  BY EmptySeq DEF PolicyInit
<1>2. serv = Resting /\ serv.pc = "idle" /\ serv \in Handler
  BY DEF PolicyInit, Handler, Resting
<1>3. PolicyTypeOK
  BY <1>1, <1>2, NothingDocument, FaultAssumption
  DEF PolicyInit, PolicyTypeOK, Calls, Answers, FaultAssumption
<1> QED
  BY <1>2, <1>3 DEF PolicyInv, WriteIsCall, AnsweredStands, PolicyInit

\* A step of the policy service, its clients and its faults.
PolicyOrBudget ==
  \/ PolicyNext
  \/ UNCHANGED <<file, serv, queue, replies, told, intact>> /\ budget' \in 0 .. MaxFaults

LEMMA StepPolicyInv == PolicyInv /\ PolicyOrBudget => PolicyInv'
<1> SUFFICES ASSUME PolicyInv, PolicyOrBudget PROVE PolicyInv'
  OBVIOUS
<1>0. /\ file \in Document /\ serv \in Handler /\ queue \in Seq(Calls)
      /\ replies \in [Clients -> Answers] /\ told \in Document /\ intact \in BOOLEAN
      /\ budget \in 0 .. MaxFaults /\ MaxFaults \in Nat
  BY FaultAssumption DEF PolicyInv, PolicyTypeOK, Calls, FaultAssumption
<1>a. ASSUME NEW f, Spend(f) PROVE budget' \in 0 .. MaxFaults
  BY <1>0, <1>a DEF Spend
<1>b. ASSUME NEW from, NEW answer \in Answers, Answer(from, answer)
      PROVE  replies' \in [Clients -> Answers]
  BY <1>0, <1>b DEF Answer
<1>c. ASSUME queue # <<>> PROVE Head(queue) \in Calls /\ Tail(queue) \in Seq(Calls)
  BY <1>0, <1>c, HeadTailProperties
<1>1. CASE Read
  <2>0. Head(queue) \in GetCall(Anyone)
    BY <1>1 DEF Read
  <2>1. Result(Head(queue)) \in Answers
    <3>1. CASE Head(queue).op = "GetAppPolicy"
      <4>1. Head(queue).key \in Apps
        BY <2>0, <3>1 DEF GetCall
      <4>2. file[Head(queue).key] \in Values \ {"managed"}
        BY <1>0, <4>1 DEF Document, Keys
      <4> QED
        BY <3>1, <4>2 DEF Result, GetAppPolicy, Answers, Values, Policies
    <3>2. CASE Head(queue).op # "GetAppPolicy"
      BY <3>2 DEF Result, Answers
    <3> QED
      BY <3>1, <3>2
  <2>2. PolicyTypeOK'
    BY <1>0, <1>1, <1>b, <1>c, <2>1 DEF Read, PolicyTypeOK, Calls
  <2> QED
    BY <1>1, <2>2 DEF Read, PolicyInv, WriteIsCall, AnsweredStands
<1>2. CASE Take
  <2>1. serv' \in Handler /\ serv'.pc = "polkit" /\ serv.pc = "idle"
    BY <1>2 DEF Take, Handler, Resting
  <2>2. PolicyTypeOK'
    BY <1>0, <1>2, <1>c, <2>1 DEF Take, PolicyTypeOK, Calls
  <2> QED
    BY <1>2, <2>1, <2>2 DEF Take, PolicyInv, WriteIsCall, AnsweredStands
<1>3. CASE Decline
  <2>1. serv' \in Handler /\ serv'.pc = "idle" /\ serv.pc = "polkit"
    BY <1>3 DEF Decline, Handler, Resting
  <2>2. PolicyTypeOK'
    BY <1>0, <1>3, <1>b, <2>1 DEF Decline, PolicyTypeOK, Calls, Answers
  <2> QED
    BY <1>3, <2>1, <2>2 DEF Decline, PolicyInv, WriteIsCall, AnsweredStands
<1>4. CASE Open
  <2>1. serv.pc = "polkit" /\ serv.call \in SetCall(Anyone) /\ Valid(serv.call)
    BY <1>0, <1>4, HandlerCases DEF Open
  <2>2. PICK base \in {file, Nothing} :
          /\ serv' = [pc |-> "write", call |-> serv.call, before |-> file,
                      doc |-> Changed(base, serv.call)]
          /\ \/ base = file /\ UNCHANGED <<intact, budget>>
             \/ base = Nothing /\ Spend("readFail") /\ intact' = FALSE
    BY <1>4 DEF Open
  <2>3. Changed(base, serv.call) \in Document
    BY <1>0, <2>1, ChangedDocument, NothingDocument
  <2>4. /\ serv' \in Handler /\ serv'.pc = "write" /\ serv'.call = serv.call
        /\ serv'.before = file /\ serv'.doc = Changed(base, serv.call)
    BY <1>0, <2>1, <2>2, <2>3 DEF Handler
  <2>5. file' = Nothing /\ UNCHANGED <<queue, replies, told>>
    BY <1>4 DEF Open
  <2>6. intact' \in BOOLEAN /\ budget' \in 0 .. MaxFaults
    BY <1>0, <1>a, <2>2
  <2>7. PolicyTypeOK'
    BY <1>0, <2>4, <2>5, <2>6, NothingDocument DEF PolicyTypeOK, Calls
  <2>8. intact' => base = file /\ file = told
    BY <2>1, <2>2 DEF PolicyInv, AnsweredStands
  <2>9. Valid(serv'.call)
    BY <2>1, <2>4
  <2>10. \A x : Changed(x, serv'.call) = Changed(x, serv.call)
    BY <2>4
  <2>11. WriteIsCall'
    BY <2>2, <2>4, <2>5, <2>8, <2>9, <2>10 DEF WriteIsCall, Valid, Changed, Nothing
  <2> QED
    BY <2>4, <2>7, <2>11 DEF PolicyInv, AnsweredStands
<1>5. ASSUME Written, intact' => intact, intact' \in BOOLEAN, budget' \in 0 .. MaxFaults,
             file' \in Document, intact' => file' = serv.doc
      PROVE  PolicyInv'
  <2>1. serv.pc = "write" /\ serv.call \in SetCall(Anyone) /\ Valid(serv.call)
    BY <1>0, <1>5, HandlerCases DEF Written, PolicyInv, WriteIsCall
  <2>2. told' = Changed(told, serv.call)
    BY <1>5 DEF Written, Changed
  <2>3. told' \in Document
    BY <1>0, <2>1, <2>2, ChangedDocument
  <2>4. serv' \in Handler /\ serv'.pc = "idle"
    BY <1>5 DEF Written, Handler, Resting
  <2>5. PolicyTypeOK'
    BY <1>0, <1>5, <1>b, <2>3, <2>4 DEF Written, PolicyTypeOK, Calls, Answers
  <2>6. intact' => file' = told'
    BY <1>5, <2>1, <2>2 DEF PolicyInv, WriteIsCall
  <2> QED
    BY <2>4, <2>5, <2>6 DEF PolicyInv, WriteIsCall, AnsweredStands
<1>6. CASE Write
  <2>1. serv.doc \in Document
    BY <1>0, <1>6, HandlerCases DEF Write, Written
  <2> QED
    BY <1>0, <1>5, <1>6, <2>1 DEF Write
<1>7. CASE WriteFails
  BY <1>0, <1>5, <1>7, <1>a DEF WriteFails
<1>8. CASE Crash
  <2>1. file' \in Document
    BY <1>0, <1>8, HandlerCases DEF Crash
  <2>2. serv' \in Handler /\ serv'.pc = "idle" /\ queue' \in Seq(Calls)
    BY <1>8, EmptySeq DEF Crash, Handler, Resting
  <2>3. intact' \in BOOLEAN /\ budget' \in 0 .. MaxFaults
    BY <1>8, <1>a DEF Crash
  <2>4. replies' \in [Clients -> Answers]
    BY <1>0, <1>8 DEF Crash, Answers
  <2>5. PolicyTypeOK'
    BY <1>0, <1>8, <2>1, <2>2, <2>3, <2>4 DEF Crash, PolicyTypeOK, Calls
  <2>6. intact' => intact /\ serv.pc # "write" /\ file' = file /\ told' = told
    BY <1>0, <1>8 DEF Crash
  <2> QED
    BY <2>2, <2>5, <2>6 DEF PolicyInv, WriteIsCall, AnsweredStands
<1>9. ASSUME NEW c \in Clients, NEW call \in SetCall({c}) \union GetCall({c}),
             PlaceCall(c, call)
      PROVE  PolicyInv'
  <2>1. call \in Calls
    BY DEF Calls, SetCall, GetCall, Anyone
  <2>2. queue' \in Seq(Calls)
    BY <1>0, <1>9, <2>1, AppendProperties DEF PlaceCall
  <2>3. PolicyTypeOK'
    BY <1>0, <1>9, <2>2 DEF PlaceCall, PolicyTypeOK, Calls
  <2> QED
    BY <1>9, <2>3 DEF PlaceCall, PolicyInv, WriteIsCall, AnsweredStands
<1>10. ASSUME NEW c \in Clients, ReadReply(c) PROVE PolicyInv'
  <2>1. PolicyTypeOK'
    BY <1>0, <1>10 DEF ReadReply, PolicyTypeOK, Calls, Answers
  <2> QED
    BY <1>10, <2>1 DEF ReadReply, PolicyInv, WriteIsCall, AnsweredStands
<1>11. ASSUME NEW c \in Clients, GiveUp(c) PROVE PolicyInv'
  <2>1. queue' \in Seq(Calls)
    <3>1. \A i \in DOMAIN queue : queue[i] \in Calls
      BY <1>0
    <3>2. \A i \in DOMAIN queue : Disowned(queue[i], c) \in Calls
      BY <3>1, DisownedCall DEF Calls
    <3>3. DOMAIN queue = 1 .. Len(queue) /\ Len(queue) \in Nat
      BY <1>0
    <3> QED
      BY <1>11, <3>2, <3>3 DEF GiveUp
  <2>2. /\ serv' \in Handler /\ serv'.pc = serv.pc
        /\ serv.pc = "write" => /\ serv'.before = serv.before /\ serv'.doc = serv.doc
                                /\ serv'.call = Disowned(serv.call, c)
    <3>1. CASE serv = Resting
      BY <1>0, <1>11, <3>1 DEF GiveUp, Resting
    <3>2. CASE serv # Resting
      <4>1. serv' = [serv EXCEPT !.call = Disowned(serv.call, c)]
        BY <1>11, <3>2 DEF GiveUp
      <4>2. Disowned(serv.call, c) \in SetCall(Anyone)
        BY <1>0, <3>2, HandlerCases, DisownedCall
      <4>3. CASE serv.pc = "polkit"
        BY <1>0, <4>1, <4>2, <4>3, HandlerCases DEF Handler
      <4>4. CASE serv.pc = "write"
        BY <1>0, <4>1, <4>2, <4>4, HandlerCases DEF Handler
      <4> QED
        BY <1>0, <3>2, <4>3, <4>4, HandlerCases
    <3> QED
      BY <3>1, <3>2
  <2>3. PolicyTypeOK'
    BY <1>0, <1>11, <1>a, <2>1, <2>2 DEF GiveUp, PolicyTypeOK, Calls, Answers
  <2>4. UNCHANGED <<file, told, intact>>
    BY <1>11 DEF GiveUp
  <2>5. ASSUME serv.pc = "write"
        PROVE  /\ Valid(serv'.call) <=> Valid(serv.call)
               /\ \A x : Changed(x, serv'.call) = Changed(x, serv.call)
    <3>1. serv.call \in SetCall(Anyone)
      BY <1>0, <2>5, HandlerCases
    <3>2. /\ serv'.call.key = serv.call.key /\ serv'.call.value = serv.call.value
          /\ serv'.call.op = serv.call.op
      BY <2>2, <2>5, <3>1, DisownedCall
    <3> QED
      BY <3>2 DEF Valid, Changed
  <2>6. WriteIsCall'
    <3> SUFFICES ASSUME serv'.pc = "write" PROVE WriteIsCall'
      BY DEF WriteIsCall
    <3>1. serv.pc = "write" /\ serv'.before = serv.before /\ serv'.doc = serv.doc
      BY <2>2
    <3>2. /\ file = Nothing /\ Valid(serv.call)
          /\ \E base \in {serv.before, Nothing} : serv.doc = Changed(base, serv.call)
          /\ intact => serv.before = told /\ serv.doc = Changed(serv.before, serv.call)
      BY <3>1 DEF PolicyInv, WriteIsCall
    <3>3. \A x : Changed(x, serv'.call) = Changed(x, serv.call)
      BY <2>5, <3>1
    <3>4. Valid(serv'.call)
      BY <2>5, <3>1, <3>2
    <3> QED
      BY <2>4, <3>1, <3>2, <3>3, <3>4 DEF WriteIsCall, Nothing, Valid, Changed
  <2> QED
    BY <2>2, <2>3, <2>4, <2>6 DEF PolicyInv, AnsweredStands
<1>12. CASE UNCHANGED <<file, serv, queue, replies, told, intact>> /\ budget' \in 0 .. MaxFaults
  <2>1. PolicyTypeOK'
    BY <1>0, <1>12 DEF PolicyTypeOK, Calls
  <2> QED
    BY <1>12, <2>1 DEF PolicyInv, WriteIsCall, AnsweredStands
<1> QED
  BY <1>1, <1>2, <1>3, <1>4, <1>6, <1>7, <1>8, <1>9, <1>10, <1>11, <1>12
  DEF PolicyOrBudget, PolicyNext, ServiceStep

\* The other steps of a session leave kidsos-policy alone, but for the faults
\* that may still occur.
LEMMA SessionSteps ==
  ASSUME PolicyTypeOK, DesktopNext
  PROVE  PolicyOrBudget
<1>0. budget \in 0 .. MaxFaults /\ MaxFaults \in Nat
  BY FaultAssumption DEF PolicyTypeOK, FaultAssumption
<1>1. CASE Elsewhere(ServiceStep)
  BY <1>1 DEF Elsewhere, PolicyOrBudget, PolicyNext
<1>2. CASE Elsewhere(Environment)
  BY <1>2 DEF Elsewhere, Environment, Others, PolicyOrBudget, PolicyNext
<1>3. ASSUME NEW p, NEW mode, Save(p, mode) PROVE budget' \in 0 .. MaxFaults
  BY <1>0, <1>3 DEF Save, Spend
<1>9. ASSUME NEW p \in Processes, SaveEnds(p) PROVE PolicyOrBudget
  <2>1. budget' \in 0 .. MaxFaults
    BY <1>0, <1>9 DEF SaveEnds, Spend
  <2> QED
    BY <1>9, <2>1 DEF SaveEnds, PolicyOrBudget
<1>4. CASE QuickToggle
  BY <1>3, <1>4 DEF QuickToggle, PolicyOrBudget
<1>5. ASSUME NEW mode \in Modes, ChooseAppearance(mode) PROVE PolicyOrBudget
  BY <1>3, <1>5 DEF ChooseAppearance, PolicyOrBudget
<1>6. CASE LauncherStarts \/ WindowOpens \/ WindowCloses
  BY <1>0, <1>6 DEF LauncherStarts, WindowOpens, WindowCloses, policyVars, PolicyOrBudget
<1>7. CASE PageShown
  BY <1>7, WindowAssumption DEF PageShown, WindowAssumption, PolicyOrBudget, PolicyNext
<1>8. ASSUME NEW page \in Settings \union {NoPage}, ChoosePage(page) PROVE PolicyOrBudget
  <2>1. CASE UNCHANGED policyVars
    BY <1>0, <2>1 DEF policyVars, PolicyOrBudget
  <2>2. CASE page # NoPage /\ PlaceCall(Window, Question(page))
    <3>1. Question(page) \in GetCall({Window})
      BY <2>2 DEF GetCall, Question
    <3> QED
      BY <2>2, <3>1, WindowAssumption DEF WindowAssumption, PolicyOrBudget, PolicyNext
  <2> QED
    BY <1>8, <2>1, <2>2 DEF ChoosePage
<1> QED
  BY <1>1, <1>2, <1>4, <1>5, <1>6, <1>7, <1>8, <1>9 DEF DesktopNext

LEMMA StutterPolicyInv == PolicyInv /\ UNCHANGED policyVars => PolicyInv'
BY DEF policyVars, PolicyInv, PolicyTypeOK, WriteIsCall, AnsweredStands, Nothing, Valid, Changed

LEMMA NextPolicyInv == PolicyInv /\ [DesktopNext]_desktopVars => PolicyInv'
BY SessionSteps, StepPolicyInv, StutterPolicyInv DEF PolicyInv, desktopVars

\* The inductive invariant: while the file is truncated, what will be written
\* is one valid change to what readers had.
THEOREM PolicyInvariance == DesktopSpec => []PolicyInv
<1>1. DesktopInit => PolicyInv
  BY InitPolicyInv DEF DesktopInit
<1> QED
  BY <1>1, NextPolicyInv, PTL DEF DesktopSpec

\* Whatever is called, declined, given up or interrupted before the file is
\* opened, readers get exactly what the service last answered true to.
THEOREM AnswersStand == DesktopSpec => []AnsweredStands
BY PolicyInvariance, PTL DEF PolicyInv

----------------------------------------------------------------------------
(* The policy map.                                                         *)

LEMMA MapInit == PolicyInit => Map!PMInit
BY DEF PolicyInit, Resting, Map!PMInit, Map!Nothing, Map!NoDecision, Nothing

\* The service decides when it opens the file, and carries the decision out, or
\* forgets everything, when it has written or dies.
LEMMA MapStep ==
  ASSUME PolicyInv, PolicyOrBudget
  PROVE  [Map!PMNext]_(Map!pmVars)
<1> USE DEF Map!pmVars
<1>0. serv \in Handler /\ WriteIsCall
  BY DEF PolicyInv, PolicyTypeOK
<1>1. CASE Read \/ Take \/ Decline
  BY <1>0, <1>1 DEF Read, Take, Decline, Resting
<1>2. CASE Open
  <2>1. serv.pc = "polkit" /\ serv.call \in SetCall(Anyone) /\ Valid(serv.call)
    BY <1>0, <1>2, HandlerCases DEF Open
  <2>2. serv'.pc = "write" /\ serv'.call = serv.call /\ serv'.before = file
    BY <1>2 DEF Open
  <2>3. serv.call.key \in Keys /\ serv.call.value \in Values
    BY <2>1 DEF SetCall, Valid, Keys, Values
  <2>4. Map!Decide
    BY <2>1, <2>2, <2>3 DEF Map!Decide, Map!NoDecision
  <2> QED
    BY <2>4 DEF Map!PMNext
<1>3. CASE Write
  <2>1. serv.pc = "write" /\ serv'.pc = "idle" /\ file' = serv.doc
    BY <1>3 DEF Write, Written, Resting
  <2>2. PICK base \in {serv.before, Nothing} : serv.doc = Changed(base, serv.call)
    BY <1>0, <2>1 DEF WriteIsCall
  <2>3. <<serv.call.key, serv.call.value>> # <<>>
    OBVIOUS
  <2>4. Map!Put
    BY <2>1, <2>2, <2>3 DEF Map!Put, Map!NoDecision, Map!Nothing, Nothing, Changed
  <2> QED
    BY <2>4 DEF Map!PMNext
<1>4. CASE WriteFails
  <2>1. serv.pc = "write" /\ serv'.pc = "idle" /\ file' = Nothing
    BY <1>0, <1>4 DEF WriteFails, Written, WriteIsCall, Resting
  <2>2. Map!Forget
    BY <2>1 DEF Map!Forget, Map!NoDecision, Map!Nothing, Nothing
  <2> QED
    BY <2>2 DEF Map!PMNext
<1>5. CASE Crash
  <2>1. serv'.pc = "idle"
    BY <1>5 DEF Crash, Resting
  <2>2. CASE serv.pc # "write"
    BY <1>5, <2>1, <2>2 DEF Crash
  <2>3. CASE serv.pc = "write" /\ file' = file
    <3>1. Map!Forget
      BY <1>0, <2>1, <2>3 DEF WriteIsCall, Map!Forget, Map!NoDecision, Map!Nothing, Nothing
    <3> QED
      BY <3>1 DEF Map!PMNext
  <2>4. CASE serv.pc = "write" /\ file' = serv.doc
    <3>1. PICK base \in {serv.before, Nothing} : serv.doc = Changed(base, serv.call)
      BY <1>0, <2>4 DEF WriteIsCall
    <3>2. <<serv.call.key, serv.call.value>> # <<>>
      OBVIOUS
    <3>3. Map!Put
      BY <2>1, <2>4, <3>1, <3>2 DEF Map!Put, Map!NoDecision, Map!Nothing, Nothing, Changed
    <3> QED
      BY <3>3 DEF Map!PMNext
  <2> QED
    BY <1>5, <2>2, <2>3, <2>4 DEF Crash
<1>6. ASSUME NEW c \in Clients, NEW call, PlaceCall(c, call) \/ ReadReply(c)
      PROVE  UNCHANGED Map!pmVars
  BY <1>6 DEF PlaceCall, ReadReply
<1>7. ASSUME NEW c \in Clients, GiveUp(c) PROVE UNCHANGED Map!pmVars
  <2>1. CASE serv = Resting
    BY <1>7, <2>1 DEF GiveUp, Resting
  <2>2. CASE serv # Resting
    <3>1. serv.call \in SetCall(Anyone)
      BY <1>0, <2>2, HandlerCases
    <3>2. /\ Disowned(serv.call, c).key = serv.call.key
          /\ Disowned(serv.call, c).value = serv.call.value
      BY <3>1, DisownedCall
    <3>3. serv' = [serv EXCEPT !.call = Disowned(serv.call, c)] /\ file' = file
      BY <1>7, <2>2 DEF GiveUp
    <3>4. CASE serv.pc = "polkit"
      BY <1>0, <3>3, <3>4, HandlerCases
    <3>5. CASE serv.pc = "write"
      <4>1. serv'.pc = "write" /\ serv'.before = serv.before
            /\ serv'.call = Disowned(serv.call, c)
        BY <1>0, <3>3, <3>5, HandlerCases
      <4> QED
        BY <3>2, <3>5, <4>1
    <3> QED
      BY <1>0, <2>2, <3>4, <3>5, HandlerCases
  <2> QED
    BY <2>1, <2>2
<1>8. CASE UNCHANGED <<file, serv, queue, replies, told, intact>>
  BY <1>8
<1> QED
  BY <1>1, <1>2, <1>3, <1>4, <1>5, <1>6, <1>7, <1>8 DEF PolicyOrBudget, PolicyNext, ServiceStep

\* For any keys, clients and faults: each authorised decision takes effect at
\* most once and never after a later one, an entry takes no other value, and
\* whatever goes wrong leaves the other entries alone or loses them all.
THEOREM ImplementsMap == DesktopSpec => PolicySpec
<1>1. DesktopInit => Map!PMInit
  BY MapInit DEF DesktopInit
<1>2. PolicyInv /\ [DesktopNext]_desktopVars => [Map!PMNext]_(Map!pmVars)
  <2>1. CASE DesktopNext
    BY <2>1, SessionSteps, MapStep DEF PolicyInv
  <2>2. CASE UNCHANGED desktopVars
    BY <2>2 DEF desktopVars, policyVars, Map!pmVars
  <2> QED
    BY <2>1, <2>2
<1> QED
  BY <1>1, <1>2, PolicyInvariance, PTL DEF DesktopSpec, PolicySpec, Map!PMSpec

----------------------------------------------------------------------------
(* The settings window and the appearance.                                 *)

\* The session's own variables.
SessionTypeOK ==
  /\ child \in BOOLEAN /\ win \in WindowState
  /\ launcher \in Modes /\ saved \in Modes \union {NoMode}
  /\ saving \in [Processes -> Modes \union {NoMode}]
  /\ chosen \in Modes \union {NoMode}

LEMMA InitSession == DesktopInit => SessionTypeOK
BY ModesAssumption DEF DesktopInit, SessionTypeOK, WindowState, Closed, Default, ModesAssumption

LEMMA NextSession == SessionTypeOK /\ [DesktopNext]_desktopVars => SessionTypeOK'
<1> SUFFICES ASSUME SessionTypeOK, [DesktopNext]_desktopVars PROVE SessionTypeOK'
  OBVIOUS
<1> USE DEF SessionTypeOK
<1>0. Default \in Modes /\ {"light", "dark"} \subseteq Modes /\ Loaded(saved) \in Modes
  BY ModesAssumption DEF ModesAssumption, Default, Loaded
<1>1. CASE Elsewhere(ServiceStep) \/ Elsewhere(Environment)
  BY <1>1 DEF Elsewhere, lookVars, WindowState
<1>2. ASSUME NEW p \in Processes, NEW mode \in Modes, Save(p, mode)
      PROVE  /\ saved' \in Modes \union {NoMode} /\ chosen' \in Modes \union {NoMode}
             /\ saving' \in [Processes -> Modes \union {NoMode}]
  BY <1>2 DEF Save
<1>p. "launcher" \in Processes /\ "window" \in Processes
  BY DEF Processes
<1>e. ASSUME NEW p \in Processes, Ends(p)
      PROVE  /\ chosen' \in Modes \union {NoMode}
             /\ saving' \in [Processes -> Modes \union {NoMode}]
  BY <1>e DEF Ends
<1>3. CASE QuickToggle
  BY <1>0, <1>2, <1>3, <1>p DEF QuickToggle
<1>4. ASSUME NEW mode \in Modes, ChooseAppearance(mode) PROVE SessionTypeOK'
  BY <1>2, <1>4, <1>p DEF ChooseAppearance, WindowState
<1>5. CASE LauncherStarts
  BY <1>0, <1>5, <1>e, <1>p DEF LauncherStarts
<1>10. ASSUME NEW p \in Processes, SaveEnds(p) PROVE SessionTypeOK'
  BY <1>10 DEF SaveEnds
<1>6. CASE WindowOpens \/ WindowCloses
  <2>1. ASSUME NEW mode \in Modes PROVE [Closed EXCEPT !.pc = "open", !.mode = mode] \in WindowState
    BY <1>0 DEF Closed, WindowState
  <2>2. Closed \in WindowState
    BY <1>0 DEF Closed, WindowState
  <2>3. win' \in WindowState
    BY <1>0, <1>6, <2>1, <2>2 DEF WindowOpens, WindowCloses
  <2>4. CASE WindowCloses
    BY <1>e, <1>p, <2>3, <2>4 DEF WindowCloses
  <2> QED
    BY <1>6, <2>3, <2>4 DEF WindowOpens, lookVars
<1>7. CASE PageShown
  BY <1>7 DEF PageShown, WindowState, lookVars
<1>8. ASSUME NEW page \in Settings \union {NoPage}, ChoosePage(page) PROVE SessionTypeOK'
  <2>1. win' \in WindowState
    BY <1>8 DEF ChoosePage, WindowState
  <2> QED
    BY <1>8, <2>1 DEF ChoosePage, lookVars
<1>9. CASE UNCHANGED desktopVars
  BY <1>9 DEF desktopVars, lookVars
<1> QED
  BY <1>1, <1>3, <1>4, <1>5, <1>6, <1>7, <1>8, <1>9, <1>10 DEF DesktopNext

\* Every state of a session is of the stated types.
THEOREM DesktopTypes == DesktopSpec => []DesktopTypeOK
<1>1. PolicyInv /\ SessionTypeOK => DesktopTypeOK
  BY DEF PolicyInv, SessionTypeOK, DesktopTypeOK
<1> QED
  BY <1>1, InitSession, NextSession, PolicyInvariance, PTL DEF DesktopSpec

----------------------------------------------------------------------------
(* The banner.                                                             *)

BannerInv == AskInv /\ BannerMatches

LEMMA InitBanner == DesktopInit => BannerInv
<1> SUFFICES ASSUME DesktopInit PROVE BannerInv
  OBVIOUS
<1>1. queue = <<>> /\ serv = Resting /\ win = Closed /\ replies[Window] = "pending"
  BY WindowAssumption DEF DesktopInit, PolicyInit, WindowAssumption
<1>2. DOMAIN queue = {}
  BY <1>1
<1> QED
  BY <1>1, <1>2 DEF BannerInv, AskInv, OneQuestion, BannerMatches, Closed

\* A step that shows the window nothing new.
LEMMA NothingNew ==
  ASSUME BannerInv, UNCHANGED <<child, win, told>>, intact' => intact,
         replies'[Window] = replies[Window],
         serv' # Resting => serv'.call.from # Window, OneQuestion'
  PROVE  BannerInv'
BY DEF BannerInv, AskInv, BannerMatches

\* What is queued for the window stays, whatever else leaves the queue or joins.
LEMMA SameQuestion ==
  ASSUME OneQuestion, win' = win, replies'[Window] = replies[Window],
         NEW n \in Int, \A i \in DOMAIN queue' : queue'[i].from = Window =>
                           i + n \in DOMAIN queue /\ queue'[i] = queue[i + n],
         DOMAIN queue' \subseteq Int
  PROVE  OneQuestion'
<1> SUFFICES ASSUME NEW i \in DOMAIN queue', queue'[i].from = Window
             PROVE  /\ queue'[i] = Question(win'.page)
                    /\ win'.pc = "asking" /\ replies'[Window] = "pending"
                    /\ \A j \in DOMAIN queue' : queue'[j].from = Window => i = j
  BY DEF OneQuestion
<1>1. i + n \in DOMAIN queue /\ queue'[i] = queue[i + n]
  OBVIOUS
<1>2. /\ queue[i + n] = Question(win.page) /\ win.pc = "asking" /\ replies[Window] = "pending"
      /\ \A j \in DOMAIN queue : queue[j].from = Window => i + n = j
  BY <1>1 DEF OneQuestion
<1>3. Question(win'.page) = Question(win.page)
  OBVIOUS
<1>4. ASSUME NEW j \in DOMAIN queue', queue'[j].from = Window PROVE i = j
  <2>1. j + n \in DOMAIN queue /\ queue[j + n].from = Window
    BY <1>4
  <2>2. i + n = j + n
    BY <1>2, <2>1
  <2>3. i \in Int /\ j \in Int /\ n \in Int
    OBVIOUS
  <2>4. \A a, b, m \in Int : a + m = b + m => a = b
    OBVIOUS
  <2> QED
    BY <2>2, <2>3, <2>4
<1> QED
  BY <1>1, <1>2, <1>3, <1>4

LEMMA EmptyQueue ==
  ASSUME queue' = <<>>
  PROVE  OneQuestion'
<1>1. DOMAIN queue' = {}
  BY DOMAIN <<>> = {}
<1> QED
  BY <1>1 DEF OneQuestion

\* The steps of the service.
LEMMA ServiceBanner ==
  ASSUME PolicyInv, SessionTypeOK, BannerInv, Elsewhere(ServiceStep \/ WriteFails \/ Crash)
  PROVE  BannerInv'
<1>0. /\ serv \in Handler /\ queue \in Seq(Calls) /\ replies \in [Clients -> Answers]
      /\ told \in Document /\ intact \in BOOLEAN /\ win \in WindowState
      /\ Window \in Clients /\ OneQuestion /\ AskInv
  BY WindowAssumption DEF PolicyInv, PolicyTypeOK, SessionTypeOK, Calls, BannerInv, AskInv,
     WindowAssumption
<1>a. /\ child' = child
      /\ win' = IF Outdated THEN [win EXCEPT !.answer = "outdated"] ELSE win
  BY DEF Elsewhere
<1>b. told' = told => win' = win
  BY <1>a DEF Outdated
<1>c. Len(queue) \in Nat /\ DOMAIN queue = 1 .. Len(queue)
  BY <1>0
<1>d. ASSUME queue # <<>>
      PROVE  /\ 1 \in DOMAIN queue /\ Head(queue) = queue[1]
             /\ DOMAIN Tail(queue) \subseteq Int
             /\ \A i \in DOMAIN Tail(queue) :
                  i + 1 \in DOMAIN queue /\ Tail(queue)[i] = queue[i + 1] /\ i + 1 # 1
  BY <1>0, <1>c, <1>d, HeadTailProperties, EmptySeq
<1>1. CASE Read
  <2>1. queue # <<>> /\ Head(queue) \in GetCall(Anyone) /\ queue' = Tail(queue)
        /\ UNCHANGED <<file, serv, told, intact>> /\ serv = Resting /\ win' = win
    BY <1>1, <1>b DEF Read
  <2>2. replies' = [c \in Clients |-> IF c = Head(queue).from THEN Result(Head(queue))
                                                            ELSE replies[c]]
    BY <1>1 DEF Read, Answer
  <2>3. CASE Head(queue).from # Window
    <3>1. replies'[Window] = replies[Window]
      BY <1>0, <2>2, <2>3
    <3>2. OneQuestion'
      BY <1>0, <1>d, <2>1, <3>1, SameQuestion
    <3> QED
      BY <1>a, <2>1, <3>1, <3>2, NothingNew
  <2>4. CASE Head(queue).from = Window
    <3>1. queue[1] = Question(win.page) /\ win.pc = "asking"
      BY <1>0, <1>d, <2>1, <2>4 DEF OneQuestion
    <3>2. replies'[Window] = IF file[win.page] = "managed" THEN "true" ELSE "false"
      BY <1>0, <1>d, <2>1, <2>2, <2>4, <3>1
      DEF Question, Result, IsSettingParentManaged
    <3>3. intact => file = told
      BY <2>1 DEF Resting, PolicyInv, AnsweredStands
    <3>4. \A i \in DOMAIN queue' : queue'[i].from # Window
      BY <1>0, <1>d, <2>1, <2>4 DEF OneQuestion
    <3>5. OneQuestion'
      BY <3>4 DEF OneQuestion
    <3> QED
      BY <1>0, <1>a, <2>1, <3>1, <3>2, <3>3, <3>5 DEF BannerInv, AskInv, BannerMatches
  <2> QED
    BY <2>3, <2>4
<1>2. CASE Take
  <2>1. queue # <<>> /\ Head(queue) \in SetCall(Anyone) /\ queue' = Tail(queue)
        /\ UNCHANGED <<replies, told, intact>> /\ win' = win
        /\ serv' = [pc |-> "polkit", call |-> Head(queue)]
    BY <1>2, <1>b DEF Take
  <2>2. Head(queue).from # Window
    BY <1>0, <1>d, <2>1 DEF OneQuestion, Question, SetCall
  <2>3. OneQuestion'
    BY <1>0, <1>d, <2>1, SameQuestion
  <2> QED
    BY <1>a, <2>1, <2>2, <2>3, NothingNew
<1>3. CASE Decline
  <2>1. serv.pc = "polkit" /\ serv' = Resting /\ UNCHANGED <<queue, told, intact>> /\ win' = win
    BY <1>3, <1>b DEF Decline
  <2>2. serv.call.from # Window
    BY <1>0, <2>1 DEF AskInv, Resting
  <2>3. replies'[Window] = replies[Window]
    BY <1>0, <1>3, <2>2 DEF Decline, Answer
  <2>4. OneQuestion'
    BY <1>0, <2>1, <2>3 DEF OneQuestion, Question
  <2> QED
    BY <1>a, <2>1, <2>3, <2>4, NothingNew
<1>4. CASE Open
  <2>1. serv.pc = "polkit" /\ serv'.call = serv.call /\ UNCHANGED <<queue, replies, told>>
        /\ (intact' => intact) /\ win' = win
    BY <1>4, <1>b DEF Open
  <2>2. serv.call.from # Window
    BY <1>0, <2>1 DEF AskInv, Resting
  <2>4. OneQuestion'
    BY <1>0, <2>1 DEF OneQuestion, Question
  <2> QED
    BY <1>a, <2>1, <2>2, <2>4, NothingNew
<1>5. CASE Write \/ WriteFails
  <2>1. serv.pc = "write" /\ serv' = Resting /\ queue' = queue /\ (intact' => intact)
    BY <1>5 DEF Write, WriteFails, Written
  <2>2. serv.call.from # Window
    BY <1>0, <2>1 DEF AskInv, Resting
  <2>3. replies'[Window] = replies[Window]
    BY <1>0, <1>5, <2>2 DEF Write, WriteFails, Written, Answer
  <2>4. /\ win'.pc = win.pc /\ win'.page = win.page /\ win'.banner = win.banner
        /\ win'.answer = IF Outdated THEN "outdated" ELSE win.answer
    BY <1>0, <1>a DEF WindowState
  <2>5. OneQuestion'
    BY <1>0, <2>1, <2>3, <2>4 DEF OneQuestion, Question
  <2>6. ASSUME win'.answer = "current", win.page \in Settings,
               replies[Window] # "pending" \/ win.pc = "open"
        PROVE  told'[win.page] = told[win.page] /\ win.answer = "current"
    BY <2>4, <2>6 DEF Outdated
  <2>7. AskInv'
    BY <1>0, <1>a, <2>1, <2>3, <2>4, <2>5, <2>6 DEF AskInv
  <2>8. win'.answer = "none" => win.answer = "none"
    BY <2>4
  <2>9. BannerMatches'
    BY <1>a, <2>1, <2>4, <2>6, <2>8 DEF BannerInv, BannerMatches
  <2> QED
    BY <2>7, <2>9 DEF BannerInv
<1>6. CASE Crash
  <2>1. serv' = Resting /\ queue' = <<>> /\ (intact' => intact) /\ told' = told /\ win' = win
        /\ replies'[Window] = (IF Queued(Window) THEN "error" ELSE replies[Window])
    BY <1>0, <1>6, <1>b DEF Crash
  <2>2. OneQuestion'
    BY <2>1, EmptyQueue
  <2>3. CASE ~Queued(Window)
    BY <1>a, <2>1, <2>2, <2>3, NothingNew
  <2>4. CASE Queued(Window)
    <3>1. win.pc = "asking"
      BY <1>0, <2>4 DEF Queued, AskInv, OneQuestion
    <3> QED
      BY <1>0, <1>a, <2>1, <2>2, <2>4, <3>1 DEF BannerInv, AskInv, BannerMatches
  <2> QED
    BY <2>3, <2>4
<1> QED
  BY <1>1, <1>2, <1>3, <1>4, <1>5, <1>6 DEF Elsewhere, ServiceStep

\* The steps of the clients, the window's own calls excepted.
LEMMA ClientsBanner ==
  ASSUME PolicyInv, SessionTypeOK, BannerInv,
         Elsewhere(Others \/ (\E c \in Clients : GiveUp(c)))
  PROVE  BannerInv'
<1>0. /\ serv \in Handler /\ queue \in Seq(Calls) /\ replies \in [Clients -> Answers]
      /\ Window \in Clients /\ NoClient # Window /\ OneQuestion /\ AskInv
      /\ Len(queue) \in Nat /\ DOMAIN queue = 1 .. Len(queue)
  BY WindowAssumption, ClientAssumption
  DEF PolicyInv, PolicyTypeOK, SessionTypeOK, Calls, BannerInv, AskInv,
      WindowAssumption, ClientAssumption
<1>a. told' = told => child' = child /\ win' = win
  BY DEF Elsewhere, Outdated
<1>1. ASSUME NEW c \in Clients \ {Window}, NEW call \in SetCall({c}) \union GetCall({c}),
             PlaceCall(c, call)
      PROVE  BannerInv'
  <2>1. /\ queue' = Append(queue, call) /\ UNCHANGED <<serv, replies, told, intact>>
        /\ win' = win /\ child' = child
    BY <1>1, <1>a DEF PlaceCall
  <2>2. call.from # Window /\ call \in Calls
    BY <1>1 DEF SetCall, GetCall, Calls, Anyone
  <2>3. /\ DOMAIN queue' = 1 .. Len(queue) + 1 /\ queue'[Len(queue) + 1] = call
        /\ \A i \in 1 .. Len(queue) : queue'[i] = queue[i]
    BY <1>0, <2>1, <2>2, AppendProperties
  <2>4. \A i \in DOMAIN queue' : queue'[i].from = Window =>
          i + 0 \in DOMAIN queue /\ queue'[i] = queue[i + 0]
    <3> SUFFICES ASSUME NEW i \in DOMAIN queue', queue'[i].from = Window
                 PROVE  i + 0 \in DOMAIN queue /\ queue'[i] = queue[i + 0]
      OBVIOUS
    <3>1. i # Len(queue) + 1
      BY <2>2, <2>3
    <3> QED
      BY <1>0, <2>3, <3>1
  <2>5. DOMAIN queue' \subseteq Int
    BY <1>0, <2>3
  <2>6. OneQuestion'
    BY <1>0, <2>1, <2>4, <2>5, SameQuestion
  <2> QED
    BY <1>0, <2>1, <2>6, NothingNew DEF AskInv, Resting
<1>2. ASSUME NEW c \in Clients \ {Window}, ReadReply(c) PROVE BannerInv'
  <2>1. /\ UNCHANGED <<serv, queue, told, intact>> /\ win' = win /\ child' = child
        /\ replies'[Window] = replies[Window]
    BY <1>0, <1>2, <1>a DEF ReadReply
  <2>2. OneQuestion'
    BY <1>0, <2>1 DEF OneQuestion, Question
  <2> QED
    BY <1>0, <2>1, <2>2, NothingNew DEF AskInv, Resting
<1>3. ASSUME NEW c \in Clients, GiveUp(c) PROVE BannerInv'
  <2>1. /\ queue' = [i \in DOMAIN queue |-> Disowned(queue[i], c)]
        /\ UNCHANGED <<told, intact>> /\ win' = win /\ child' = child
        /\ replies' = [replies EXCEPT ![c] = "error"] /\ Queued(c)
        /\ serv' = IF serv = Resting THEN serv ELSE [serv EXCEPT !.call = Disowned(@, c)]
    BY <1>3, <1>a DEF GiveUp
  <2>2. \A call \in Calls : /\ Disowned(call, c).from = Window => call.from = Window /\ c # Window
                            /\ call.from # c => Disowned(call, c) = call
    BY <1>0 DEF Disowned, Calls, SetCall, GetCall
  <2>3. serv' # Resting => serv'.call.from # Window
    <3> SUFFICES ASSUME serv' # Resting PROVE serv'.call.from # Window
      OBVIOUS
    <3>1. serv # Resting /\ serv' = [serv EXCEPT !.call = Disowned(serv.call, c)]
      BY <2>1
    <3>2. serv.call.from # Window /\ serv.call \in Calls
      BY <1>0, <3>1, HandlerCases DEF AskInv, Calls
    <3>3. serv'.call = Disowned(serv.call, c)
      BY <1>0, <3>1, HandlerCases
    <3> QED
      BY <2>2, <3>2, <3>3
  <2>4. \A i \in DOMAIN queue : queue[i] \in Calls
    BY <1>0
  <2>5. \A i \in DOMAIN queue' : queue'[i].from = Window =>
          /\ queue[i].from = Window /\ c # Window /\ queue'[i] = queue[i]
    BY <2>1, <2>2, <2>4
  <2>6. CASE c # Window
    <3>1. replies'[Window] = replies[Window]
      BY <1>0, <2>1, <2>6
    <3>2. OneQuestion'
      BY <1>0, <2>1, <2>5, <3>1 DEF OneQuestion, Question
    <3> QED
      BY <2>1, <2>3, <3>1, <3>2, NothingNew
  <2>7. CASE c = Window
    <3>1. win.pc = "asking"
      BY <1>0, <2>1, <2>7 DEF Queued, AskInv, OneQuestion
    <3>2. replies'[Window] = "error"
      BY <1>0, <2>1, <2>7
    <3>3. OneQuestion'
      BY <2>5, <2>7 DEF OneQuestion
    <3> QED
      BY <1>0, <2>1, <2>3, <3>1, <3>2, <3>3 DEF BannerInv, AskInv, BannerMatches
  <2> QED
    BY <2>6, <2>7
<1> QED
  BY <1>1, <1>2, <1>3 DEF Elsewhere, Others

\* The steps of the window itself, and of whoever changes the appearance.
LEMMA WindowBanner ==
  ASSUME PolicyInv, SessionTypeOK, BannerInv, DesktopNext,
         ~Elsewhere(ServiceStep), ~Elsewhere(Environment)
  PROVE  BannerInv'
<1>0. /\ queue \in Seq(Calls) /\ replies \in [Clients -> Answers] /\ win \in WindowState
      /\ child \in BOOLEAN
      /\ Window \in Clients /\ OneQuestion /\ AskInv
      /\ Len(queue) \in Nat /\ DOMAIN queue = 1 .. Len(queue)
  BY WindowAssumption
  DEF PolicyInv, PolicyTypeOK, SessionTypeOK, Calls, BannerInv, AskInv, WindowAssumption
<1>1. ASSUME UNCHANGED <<child, serv, queue, replies, told, intact>>,
             win'.pc = win.pc, win'.page = win.page, win'.banner = win.banner,
             win'.answer = win.answer
      PROVE  BannerInv'
  <2>1. OneQuestion'
    BY <1>0, <1>1 DEF OneQuestion, Question
  <2> QED
    BY <1>1, <2>1 DEF BannerInv, AskInv, BannerMatches, Resting
<1>2. CASE QuickToggle \/ LauncherStarts \/ \E p \in Processes : SaveEnds(p)
  BY <1>1, <1>2 DEF QuickToggle, LauncherStarts, SaveEnds, policyVars
<1>3. ASSUME NEW mode \in Modes, ChooseAppearance(mode) PROVE BannerInv'
  <2>1. UNCHANGED <<child, serv, queue, replies, told, intact>>
        /\ win' = [win EXCEPT !.mode = mode]
    BY <1>3 DEF ChooseAppearance
  <2>2. /\ win'.pc = win.pc /\ win'.page = win.page /\ win'.banner = win.banner
        /\ win'.answer = win.answer
    BY <1>0, <2>1 DEF WindowState
  <2> QED
    BY <1>1, <2>1, <2>2
\* Before and after them nothing is asked, and no banner is shown.
<1>4. ASSUME UNCHANGED <<child, serv, queue, told, intact>>, replies'[Window] = "pending",
             replies[Window] = "pending", win.pc # "asking", win'.pc # "asking",
             win'.banner = FALSE,
             win'.pc = "open" /\ win'.answer = "current" =>
               win'.page \notin Settings \/ ~child
      PROVE  BannerInv'
  <2>1. \A i \in DOMAIN queue : queue[i].from # Window
    BY <1>0, <1>4 DEF OneQuestion
  <2>2. OneQuestion'
    BY <1>4, <2>1 DEF OneQuestion
  <2> QED
    BY <1>0, <1>4, <2>2 DEF BannerInv, AskInv, BannerMatches, Resting
<1>5. CASE WindowOpens
  <2>1. win'.pc = "open" /\ win'.banner = FALSE /\ win'.page = NoPage
    BY <1>5 DEF WindowOpens, Closed
  <2>2. NoPage \notin Settings
    BY PageAssumption DEF PageAssumption, Keys
  <2>3. UNCHANGED <<child, serv, queue, told, intact, replies>> /\ win.pc = "closed"
    BY <1>5 DEF WindowOpens, policyVars
  <2>4. replies[Window] = "pending"
    BY <1>0, <2>3 DEF AskInv
  <2> QED
    BY <1>4, <2>1, <2>2, <2>3, <2>4
<1>6. CASE WindowCloses
  <2>1. win'.pc = "closed" /\ win'.banner = FALSE
    BY <1>6 DEF WindowCloses, Closed
  <2>2. UNCHANGED <<child, serv, queue, told, intact, replies>> /\ win.pc = "open"
    BY <1>6 DEF WindowCloses, policyVars
  <2>3. replies[Window] = "pending"
    BY <1>0, <2>2 DEF AskInv
  <2> QED
    BY <1>4, <2>1, <2>2, <2>3
<1>7. CASE PageShown
  <2>1. /\ win.pc = "asking" /\ replies[Window] # "pending"
        /\ replies' = [replies EXCEPT ![Window] = "pending"]
        /\ UNCHANGED <<child, serv, queue, told, intact>>
        /\ win' = [win EXCEPT !.pc = "open", !.banner = replies[Window] = "true",
                              !.answer = IF replies[Window] = "error" THEN "none" ELSE @]
    BY <1>7 DEF PageShown, ReadReply
  <2>2. /\ win'.pc = "open" /\ win'.page = win.page
        /\ win'.answer = IF replies[Window] = "error" THEN "none" ELSE win.answer
    BY <1>0, <2>1 DEF WindowState
  <2>3. win'.banner <=> replies[Window] = "true"
    BY <1>0, <2>1 DEF WindowState
  <2>4. replies'[Window] = "pending"
    BY <1>0, <2>1
  <2>5. OneQuestion'
    BY <1>0, <2>1 DEF OneQuestion
  <2>6. child /\ win.page \in Settings /\ win.answer # "none"
    BY <1>0, <2>1 DEF AskInv
  <2>7. replies[Window] \in {"true", "false", "error"}
    BY <1>0, <2>1 DEF AskInv
  <2>8. AskInv'
    BY <1>0, <2>1, <2>2, <2>3, <2>4, <2>5, <2>6, <2>7 DEF AskInv, Resting
  <2>9. BannerMatches'
    BY <1>0, <2>1, <2>2, <2>3, <2>6, <2>7 DEF AskInv, BannerMatches
  <2> QED
    BY <2>8, <2>9 DEF BannerInv
<1>8. ASSUME NEW page \in Settings \union {NoPage}, ChoosePage(page) PROVE BannerInv'
  <2>1. win.pc = "open" /\ child' = child
    BY <1>8 DEF ChoosePage
  <2>2. replies[Window] = "pending"
    BY <1>0, <2>1 DEF AskInv
  <2>3. CASE child /\ page # NoPage
    <3>1. /\ queue' = Append(queue, Question(page)) /\ ~Queued(Window)
          /\ UNCHANGED <<serv, replies, told, intact>>
      BY <1>8, <2>3 DEF ChoosePage, PlaceCall, Free
    <3>2. /\ win'.pc = "asking" /\ win'.page = page /\ win'.banner = FALSE
          /\ win'.answer = "current"
      BY <1>0, <1>8, <2>3 DEF ChoosePage, WindowState
    <3>3. Question(page) \in Calls
      BY <1>0, <1>8, <2>3 DEF Question, Calls, GetCall, Anyone
    <3>4. /\ DOMAIN queue' = 1 .. Len(queue) + 1
          /\ queue'[Len(queue) + 1] = Question(page)
          /\ \A i \in 1 .. Len(queue) : queue'[i] = queue[i]
      BY <1>0, <3>1, <3>3, AppendProperties
    <3>5. \A i \in 1 .. Len(queue) : queue'[i].from # Window
      BY <1>0, <3>1, <3>4 DEF Queued
    <3>6. ASSUME NEW i \in DOMAIN queue', queue'[i].from = Window PROVE i = Len(queue) + 1
      BY <1>0, <3>4, <3>5, <3>6
    <3>7. Question(win'.page) = Question(page)
      BY <3>2
    <3>8. OneQuestion'
      BY <1>0, <2>2, <3>1, <3>2, <3>4, <3>6, <3>7 DEF OneQuestion, Question
    <3> QED
      BY <1>0, <1>8, <2>1, <2>2, <2>3, <3>1, <3>2, <3>8
      DEF BannerInv, AskInv, BannerMatches, Resting
  <2>4. CASE ~(child /\ page # NoPage)
    <3>1. UNCHANGED <<child, serv, queue, replies, told, intact>>
      BY <1>8, <2>4 DEF ChoosePage, policyVars
    <3>2. /\ win'.pc = "open" /\ win'.page = page /\ win'.banner = FALSE
          /\ win'.answer = "current"
      BY <1>0, <1>8, <2>1, <2>4 DEF ChoosePage, WindowState
    <3>3. NoPage \notin Settings
      BY PageAssumption DEF PageAssumption, Keys
    <3> QED
      BY <1>4, <2>1, <2>2, <2>4, <3>1, <3>2, <3>3
  <2> QED
    BY <2>3, <2>4
<1> QED
  BY <1>2, <1>3, <1>5, <1>6, <1>7, <1>8 DEF DesktopNext

LEMMA StutterBanner == BannerInv /\ UNCHANGED desktopVars => BannerInv'
BY DEF desktopVars, policyVars, BannerInv, AskInv, OneQuestion, BannerMatches, Question, Resting

\* A page shows the parent's banner exactly in a child's session and for a
\* setting whose parent was told that it is managed, however the question was
\* queued, given up or cut off by a crash.
THEOREM BannersMatch == DesktopSpec => []BannerMatches
<1>1. PolicyInv /\ SessionTypeOK /\ BannerInv /\ [DesktopNext]_desktopVars => BannerInv'
  <2> SUFFICES ASSUME PolicyInv, SessionTypeOK, BannerInv, [DesktopNext]_desktopVars
               PROVE  BannerInv'
    OBVIOUS
  <2>1. CASE Elsewhere(ServiceStep)
    <3>1. Elsewhere(ServiceStep \/ WriteFails \/ Crash)
      BY <2>1 DEF Elsewhere
    <3> QED
      BY <3>1, ServiceBanner
  <2>2. CASE Elsewhere(Environment)
    <3>1. \/ Elsewhere(ServiceStep \/ WriteFails \/ Crash)
          \/ Elsewhere(Others \/ (\E c \in Clients : GiveUp(c)))
      BY <2>2 DEF Elsewhere, Environment
    <3> QED
      BY <3>1, ServiceBanner, ClientsBanner
  <2>3. CASE UNCHANGED desktopVars
    BY <2>3, StutterBanner
  <2> QED
    BY <2>1, <2>2, <2>3, WindowBanner
<1>2. BannerInv => BannerMatches
  BY DEF BannerInv
<1> QED
  BY <1>1, <1>2, InitBanner, InitSession, NextSession, PolicyInvariance, PTL DEF DesktopSpec

----------------------------------------------------------------------------
(* The appearance.                                                         *)

\* The last choice, until it is lost, is in the file, or it is what the one
\* process that saves is about to write to the empty file.
ChoiceInv ==
  chosen # NoMode =>
    \/ (\A p \in Processes : Idle(p)) /\ Loaded(saved) = chosen
    \/ \E p \in Processes :
         /\ saving[p] = chosen /\ saved = NoMode
         /\ \A q \in Processes \ {p} : Idle(q)

LEMMA NextChoice == SessionTypeOK /\ ChoiceInv /\ [DesktopNext]_desktopVars => ChoiceInv'
<1> SUFFICES ASSUME SessionTypeOK, ChoiceInv, [DesktopNext]_desktopVars PROVE ChoiceInv'
  OBVIOUS
<1>0. /\ saving \in [Processes -> Modes \union {NoMode}] /\ NoMode \notin Modes
      /\ "launcher" \in Processes /\ "window" \in Processes
  BY ModesAssumption DEF SessionTypeOK, ModesAssumption, Processes
<1>1. ASSUME NEW p \in Processes, NEW mode \in Modes, Save(p, mode) PROVE ChoiceInv'
  <2>1. CASE \A q \in Processes : Idle(q)
    BY <1>0, <1>1, <2>1 DEF Save, ChoiceInv, Idle
  <2>2. CASE ~(\A q \in Processes : Idle(q))
    BY <1>1, <2>2 DEF Save, ChoiceInv
  <2> QED
    BY <2>1, <2>2
<1>2. ASSUME UNCHANGED <<saved, saving, chosen>> PROVE ChoiceInv'
  BY <1>2 DEF ChoiceInv, Loaded, Idle
<1>3. CASE QuickToggle
  BY <1>0, <1>1, <1>3, ModesAssumption DEF QuickToggle, ModesAssumption
<1>4. ASSUME NEW mode \in Modes, ChooseAppearance(mode) PROVE ChoiceInv'
  BY <1>0, <1>1, <1>4 DEF ChooseAppearance
<1>5. ASSUME NEW p \in Processes, SaveEnds(p) PROVE ChoiceInv'
  <2> SUFFICES ASSUME chosen' # NoMode PROVE ChoiceInv'
    BY DEF ChoiceInv
  <2>1. /\ chosen' = chosen /\ saving' = [saving EXCEPT ![p] = NoMode]
        /\ saved' = saving[p] \/ (saved # NoMode /\ saved' = NoMode)
    BY <1>5 DEF SaveEnds
  <2>2. saving[p] = chosen /\ saved = NoMode /\ \A q \in Processes \ {p} : Idle(q)
    BY <1>5, <2>1 DEF SaveEnds, ChoiceInv, Idle
  <2>3. \A q \in Processes : saving'[q] = NoMode
    BY <1>0, <2>1, <2>2 DEF Idle
  <2>4. saved' = chosen
    BY <2>1, <2>2
  <2> QED
    BY <2>1, <2>3, <2>4 DEF ChoiceInv, Idle, Loaded
<1>6. ASSUME NEW p \in Processes, Ends(p), saved' = saved PROVE ChoiceInv'
  <2>1. CASE Idle(p)
    <3>1. saving' = saving
      BY <1>0, <1>6, <2>1 DEF Ends, Idle
    <3> QED
      BY <1>2, <1>6, <2>1, <3>1 DEF Ends
  <2>2. CASE ~Idle(p)
    BY <1>6, <2>2 DEF Ends, ChoiceInv
  <2> QED
    BY <2>1, <2>2
<1>7. CASE LauncherStarts \/ WindowCloses
  BY <1>0, <1>6, <1>7 DEF LauncherStarts, WindowCloses
<1>8. CASE \/ Elsewhere(ServiceStep) \/ Elsewhere(Environment)
           \/ WindowOpens \/ PageShown
           \/ \E page \in Settings \union {NoPage} : ChoosePage(page)
  BY <1>2, <1>8 DEF Elsewhere, WindowOpens, PageShown, ChoosePage, lookVars
<1>9. CASE UNCHANGED desktopVars
  BY <1>2, <1>9 DEF desktopVars, lookVars
<1> QED
  BY <1>3, <1>4, <1>5, <1>7, <1>8, <1>9 DEF DesktopNext

\* A launcher or a settings window that starts while nobody saves shows the
\* appearance last chosen in either of them, unless that choice was lost: two
\* saves that meet, one cut short and one that fails lose a choice, nothing else.
THEOREM ChoicesShown == DesktopSpec => ChoiceShown
<1>1. DesktopInit => ChoiceInv
  BY DEF DesktopInit, ChoiceInv, Loaded, Idle
<1> DEFINE Quiet == chosen # NoMode /\ (\A p \in Processes : Idle(p))
           Shows == Quiet =>
                      /\ launcher' # launcher /\ chosen' = chosen => launcher' = chosen
                      /\ win.pc = "closed" /\ win'.pc = "open" => win'.mode = chosen
<1>2. ChoiceInv /\ SessionTypeOK /\ [DesktopNext]_desktopVars => [Shows]_desktopVars
  <2> SUFFICES ASSUME ChoiceInv, SessionTypeOK, DesktopNext, Quiet
               PROVE  Shows
    OBVIOUS
  <2>0. Loaded(saved) = chosen /\ win \in WindowState
    BY DEF ChoiceInv, SessionTypeOK, Idle
  <2>1. ASSUME launcher' = launcher, win.pc = "closed" => win'.pc # "open" PROVE Shows
    BY <2>1
  <2>2. CASE QuickToggle
    <3>1. chosen' = launcher' \/ chosen' = NoMode
      BY <2>2 DEF QuickToggle, Save
    <3>2. win' = win
      BY <2>2 DEF QuickToggle
    <3> QED
      BY <3>1, <3>2
  <2>3. CASE LauncherStarts
    BY <2>0, <2>3 DEF LauncherStarts
  <2>4. CASE WindowOpens
    BY <2>0, <2>4 DEF WindowOpens, Closed, lookVars
  <2>5. CASE Elsewhere(ServiceStep) \/ Elsewhere(Environment)
    <3>1. launcher' = launcher /\ win'.pc = win.pc
      BY <2>0, <2>5 DEF Elsewhere, lookVars, WindowState
    <3> QED
      BY <2>1, <3>1
  <2>6. CASE \/ WindowCloses \/ PageShown
             \/ \E page \in Settings \union {NoPage} : ChoosePage(page)
             \/ \E mode \in Modes : ChooseAppearance(mode)
             \/ \E p \in Processes : SaveEnds(p)
    BY <2>1, <2>6 DEF WindowCloses, PageShown, ChoosePage, ChooseAppearance, SaveEnds, lookVars
  <2> QED
    BY <2>2, <2>3, <2>4, <2>5, <2>6 DEF DesktopNext
<1> QED
  BY <1>1, <1>2, NextChoice, InitSession, NextSession, PTL DEF DesktopSpec, ChoiceShown
=============================================================================
