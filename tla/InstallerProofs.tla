-------------------------- MODULE InstallerProofs --------------------------
(***************************************************************************)
(* Theorems about Installer, for every set of paths, contents, ids and     *)
(* clients and any number of faults.                                       *)
(***************************************************************************)
EXTENDS Installer, TLAPS, SequenceTheorems

----------------------------------------------------------------------------
(* Type correctness.                                                       *)

\* The initial state has the types of every variable.
LEMMA InitTypeOK == Init => TypeOK
<1> SUFFICES ASSUME Init PROVE TypeOK
  OBVIOUS
<1>1. GuardTypeOK
  <2>1. disk \in [Paths -> Contents \union {NoFile}]
    BY DEF Init, GuardInit
  <2>2. guard \in GuardState
    BY DEF Init, GuardInit, GuardState, Idle
  <2>3. budget \in 0 .. MaxFaults
    BY FaultAssumption DEF FaultAssumption, Init, GuardInit
  <2>4. <<>> \in Seq(GuardCall) /\ Len(<<>>) = 0
    BY EmptySeq
  <2>5. inbox \in Seq(GuardCall) /\ \A i \in 1 .. Len(inbox) : FALSE
    BY <2>4 DEF Init, GuardInit
  <2>6. QED
    BY <2>1, <2>2, <2>3, <2>5 DEF Init, GuardInit, GuardTypeOK
<1>2. requests \in [Ids -> Request]
  BY DEF Init, NoRequest, Request, Status
<1>3. inst \in Handler
  BY DEF Init, Resting, Handler
<1>4. QED
  BY <1>1, <1>2, <1>3 DEF Init, TypeOK, Resting, NoRequest

\* The lines a handler of file-guard is about to write are lines.
LEMMA NewLineType ==
  ASSUME TypeOK, NEW call \in GuardCall, call.path \in Paths,
         disk[call.path] # NoFile,
         NEW kept \in {Without(trustFile, call.hash), {}}
  PROVE  kept \union LinesOf(call.path, SizeOf[disk[call.path]], call.hash)
           \in SUBSET Line
<1>1. disk[call.path] \in Contents
  BY DEF TypeOK, GuardTypeOK
<1>2. SizeOf[disk[call.path]] \in Nat
  BY <1>1, SizeAssumption DEF SizeAssumption
<1>3. Text[call.path] \in PathText
  BY TextAssumption DEF TextAssumption
<1>4. Text[call.path].brought \subseteq Line /\ Text[call.path].entry \in Paths
  BY <1>3 DEF PathText
<1>5. [path |-> Text[call.path].entry, size |-> SizeOf[disk[call.path]],
       hash |-> call.hash] \in Line
  BY <1>2, <1>4 DEF GuardCall, Line
<1>6. kept \subseteq Line
  BY DEF TypeOK, GuardTypeOK, Without
<1>7. QED
  BY <1>4, <1>5, <1>6 DEF LinesOf

\* Every step of file-guard and of the world around it keeps its types.
LEMMA GuardStepType ==
  ASSUME TypeOK, GuardNext \/ EditFile
  PROVE  GuardTypeOK'
<1> USE FaultAssumption DEF FaultAssumption, TypeOK, GuardTypeOK
<1>1. CASE TakeTrust
  <2> DEFINE call == Head(inbox)
  <2>1. call \in GuardCall /\ call.path \in Paths /\ inbox' \in Seq(GuardCall)
    BY <1>1 DEF TakeTrust, Take
  <2>2. \A i \in 1 .. Len(inbox') :
           inbox'[i].op = "TrustFile" => inbox'[i].path \in Paths
    BY <1>1 DEF TakeTrust, Take
  <2>3. guard' \in GuardState
    <3>1. CASE UNCHANGED guard
      BY <3>1
    <3>2. CASE /\ disk[call.path] # NoFile
               /\ \E kept \in {Without(trustFile, call.hash), {}} :
                    guard' = [pc |-> "truncate",
                              lines |-> kept \union
                                        LinesOf(call.path, SizeOf[disk[call.path]],
                                                call.hash)]
      BY <2>1, <3>2, NewLineType DEF GuardState
    <3>3. QED
      BY <1>1, <3>1, <3>2 DEF TakeTrust
  <2>4. budget' \in 0 .. MaxFaults
    BY <1>1 DEF TakeTrust, ReadsBack, Spend
  <2>5. QED
    BY <1>1, <2>1, <2>2, <2>3, <2>4 DEF TakeTrust, Take, Answer
<1>2. CASE TakeRevoke
  <2>1. inbox' \in Seq(GuardCall) /\ \A i \in 1 .. Len(inbox') :
           inbox'[i].op = "TrustFile" => inbox'[i].path \in Paths
    BY <1>2 DEF TakeRevoke, Take
  <2>2. guard' \in GuardState
    BY <1>2 DEF TakeRevoke, Take, GuardState, Without
  <2>3. budget' \in 0 .. MaxFaults
    BY <1>2 DEF TakeRevoke, Spend
  <2>4. QED
    BY <1>2, <2>1, <2>2, <2>3 DEF TakeRevoke, Take, Answer
<1>3. CASE Truncate
  BY <1>3 DEF Truncate, GuardState
<1>4. CASE OpenFails
  BY <1>4 DEF OpenFails, GuardState, Idle, Answer, Spend
<1>5. CASE Write
  BY <1>5 DEF Write, GuardState
<1>6. CASE WriteFails
  BY <1>6 DEF WriteFails, GuardState, Spend
<1>7. CASE Reload
  BY <1>7 DEF Reload, GuardState, Idle, Answer
<1>8. CASE ReloadFails
  BY <1>8 DEF ReloadFails, GuardState, Idle, Answer, Spend
<1>9. CASE GuardCrash
  BY <1>9 DEF GuardCrash, GuardState, Idle, Spend
<1>10. CASE FapolicydRestart
  BY <1>10 DEF FapolicydRestart, Spend
<1>11. CASE EditFile
  BY <1>11 DEF EditFile, guardVars
<1>12. QED
  BY <1>1, <1>2, <1>3, <1>4, <1>5, <1>6, <1>7, <1>8, <1>9, <1>10, <1>11
  DEF GuardNext

\* A change of status leaves the rest of the table as it was.
LEMMA UpdateStatusType ==
  ASSUME TypeOK, NEW i \in Ids, NEW s \in Status, UpdateStatus(i, s)
  PROVE  /\ requests' \in [Ids -> Request]
         /\ \A j \in Ids : /\ requests'[j].kind = requests[j].kind
                           /\ requests'[j].path = requests[j].path
                           /\ requests'[j].hash = requests[j].hash
                           /\ j # i => requests'[j] = requests[j]
         /\ requests'[i].status = s
BY DEF TypeOK, UpdateStatus, Request

\* A new row fills an unused id and leaves the other rows as they were.
LEMMA InsertType ==
  ASSUME TypeOK, NEW row \in Request, Insert(row),
         row.kind = "external" => row.path \in Paths /\ row.hash \in Contents
  PROVE  /\ requests' \in [Ids -> Request]
         /\ \A i \in Ids : requests'[i].kind = "external" =>
              requests'[i].path \in Paths /\ requests'[i].hash \in Contents
BY DEF TypeOK, Insert, Exists

\* A call the installer sends has the type file-guard expects.
LEMMA SendType ==
  ASSUME TypeOK, NEW op \in {"TrustFile", "RevokeFile"},
         NEW hash \in Contents, NEW path \in Paths \union {NoPath},
         op = "TrustFile" => path \in Paths,
         Send(op, hash, path)
  PROVE  /\ inbox' \in Seq(GuardCall)
         /\ \A i \in 1 .. Len(inbox') :
              inbox'[i].op = "TrustFile" => inbox'[i].path \in Paths
         /\ reply' \in {"none", "true", "false"}
<1> DEFINE call == [op |-> op, hash |-> hash, path |-> path]
<1>1. call \in GuardCall
  BY DEF GuardCall
<1>2. inbox' = Append(inbox, call) /\ inbox \in Seq(GuardCall)
  BY DEF Send, TypeOK, GuardTypeOK
<1>3. \A i \in 1 .. Len(inbox') :
         \/ i \in 1 .. Len(inbox) /\ inbox'[i] = inbox[i]
         \/ inbox'[i] = call
  BY <1>1, <1>2
<1>4. QED
  BY <1>1, <1>2, <1>3 DEF Send, TypeOK, GuardTypeOK

\* Every step of the installer and its clients keeps the types.
LEMMA InstallerStepType ==
  ASSUME TypeOK,
         \/ HandlerStep \/ SubmitStore \/ SubmitClassify \/ PolkitRefuses
         \/ GuardAbsent \/ GuardTimeout \/ InstallerCrash
         \/ ClientGivesUp \/ \E c \in Clients : ClientCalls(c)
  PROVE  TypeOK'
<1> USE FaultAssumption DEF FaultAssumption, guardVars, storeVars
<1>1. CASE SubmitStore
  <2>1. [NoRequest EXCEPT !.status = "pending"] \in Request
    BY DEF NoRequest, Request, Status
  <2>2. [NoRequest EXCEPT !.status = "pending"].kind = "store"
    BY DEF NoRequest
  <2>3. requests' \in [Ids -> Request] /\ \A i \in Ids :
          requests'[i].kind = "external" =>
            requests'[i].path \in Paths /\ requests'[i].hash \in Contents
    BY <1>1, <2>1, <2>2, InsertType DEF SubmitStore
  <2>4. QED
    BY <1>1, <2>3 DEF SubmitStore, TypeOK, GuardTypeOK
<1>2. CASE SubmitClassify
  BY <1>2 DEF SubmitClassify, TypeOK, GuardTypeOK, Resting, Handler
<1>3. CASE SubmitHash
  <2>1. requests' \in [Ids -> Request] /\ \A i \in Ids :
          requests'[i].kind = "external" =>
            requests'[i].path \in Paths /\ requests'[i].hash \in Contents
    <3>1. CASE UNCHANGED requests
      BY <3>1 DEF TypeOK
    <3>2. CASE /\ disk[inst.path] # NoFile
               /\ Insert([status |-> "pending", kind |-> "external",
                          path |-> inst.path, hash |-> disk[inst.path]])
      <4> DEFINE row == [status |-> "pending", kind |-> "external",
                         path |-> inst.path, hash |-> disk[inst.path]]
      <4>1. inst.path \in Paths /\ disk[inst.path] \in Contents
        BY <1>3, <3>2 DEF SubmitHash, TypeOK, GuardTypeOK
      <4>2. row \in Request /\ row.path \in Paths /\ row.hash \in Contents
        BY <4>1 DEF Request, Status
      <4>3. QED
        BY <3>2, <4>2, InsertType
    <3>3. QED
      BY <1>3, <3>1, <3>2 DEF SubmitHash
  <2>2. QED
    BY <1>3, <2>1 DEF SubmitHash, TypeOK, GuardTypeOK, Resting, Handler
<1>4. CASE \E c \in Clients : TakeCall(c)
  <2>1. PICK c \in Clients : TakeCall(c)
    BY <1>4
  <2>2. calls[c] \in ClientCall
    BY <2>1 DEF TakeCall, TypeOK
  <2>3. inst' \in Handler /\ inst'.id \in Ids /\ inst'.pc = "polkit"
    BY <2>1, <2>2 DEF TakeCall, ClientCall, Resting, Handler
  <2>4. QED
    BY <2>1, <2>3 DEF TakeCall, TypeOK, GuardTypeOK
<1>5. CASE PolkitRefuses
  BY <1>5 DEF PolkitRefuses, TypeOK, GuardTypeOK, Resting, Handler
<1>6. CASE Approve
  <2>1. inst.id \in Ids
    BY <1>6 DEF Approve, TypeOK
  <2>2. CASE inst' = Resting /\ UNCHANGED <<requests, grants>>
    BY <1>6, <2>2 DEF Approve, TypeOK, GuardTypeOK, Resting, Handler
  <2>3. CASE /\ UpdateStatus(inst.id, "approved") \/ UpdateStatus(inst.id, "failed")
             /\ inst' = Resting
             /\ UNCHANGED grants
    <3>1. /\ requests' \in [Ids -> Request]
          /\ \A j \in Ids : /\ requests'[j].kind = requests[j].kind
                            /\ requests'[j].path = requests[j].path
                            /\ requests'[j].hash = requests[j].hash
      BY <2>1, <2>3, UpdateStatusType DEF Status
    <3>2. QED
      BY <1>6, <2>3, <3>1
      DEF Approve, TypeOK, GuardTypeOK, Resting, Handler
  <2>4. CASE /\ External(inst.id)
             /\ inst' = [inst EXCEPT !.pc = "trust"]
             /\ grants' = grants \union {requests[inst.id].hash}
             /\ UNCHANGED requests
    BY <1>6, <2>1, <2>4
    DEF Approve, TypeOK, GuardTypeOK, Handler, External
  <2>5. QED
    BY <1>6, <2>2, <2>3, <2>4 DEF Approve
<1>7. CASE CallTrust
  <2>1. inst.id \in Ids /\ requests[inst.id].kind = "external"
    BY <1>7 DEF CallTrust, TypeOK
  <2>2. requests[inst.id].hash \in Contents /\ requests[inst.id].path \in Paths
    BY <2>1 DEF TypeOK
  <2>3. /\ inbox' \in Seq(GuardCall)
        /\ \A i \in 1 .. Len(inbox') :
              inbox'[i].op = "TrustFile" => inbox'[i].path \in Paths
        /\ reply' \in {"none", "true", "false"}
    BY <1>7, <2>2, SendType DEF CallTrust
  <2>4. QED
    BY <1>7, <2>1, <2>3 DEF CallTrust, TypeOK, GuardTypeOK, Handler
<1>8. CASE Deny
  <2>1. inst.id \in Ids
    BY <1>8 DEF Deny, TypeOK
  <2>2. /\ requests' \in [Ids -> Request]
        /\ \A j \in Ids : /\ requests'[j].kind = requests[j].kind
                          /\ requests'[j].path = requests[j].path
                          /\ requests'[j].hash = requests[j].hash
    BY <1>8, <2>1, UpdateStatusType DEF Deny, Status, TypeOK
  <2>3. QED
    BY <1>8, <2>2 DEF Deny, TypeOK, GuardTypeOK, Resting, Handler
<1>9. CASE Revoke
  <2>1. CASE inst' = Resting /\ UNCHANGED <<inbox, reply>>
    BY <1>9, <2>1 DEF Revoke, TypeOK, GuardTypeOK, Resting, Handler
  <2>2. CASE /\ External(inst.id)
             /\ Send("RevokeFile", requests[inst.id].hash, NoPath)
             /\ inst' = [inst EXCEPT !.pc = "guard"]
    <3>1. inst.id \in Ids /\ requests[inst.id].kind = "external"
      BY <1>9, <2>2 DEF Revoke, TypeOK, External
    <3>2. requests[inst.id].hash \in Contents
      BY <3>1 DEF TypeOK
    <3>3. /\ inbox' \in Seq(GuardCall)
          /\ \A i \in 1 .. Len(inbox') :
                inbox'[i].op = "TrustFile" => inbox'[i].path \in Paths
          /\ reply' \in {"none", "true", "false"}
      BY <2>2, <3>2, SendType
    <3>4. QED
      BY <1>9, <2>2, <3>1, <3>3 DEF Revoke, TypeOK, GuardTypeOK, Handler
  <2>3. QED
    BY <1>9, <2>1, <2>2 DEF Revoke
<1>10. CASE GuardAccepts
  BY <1>10 DEF GuardAccepts, TypeOK, GuardTypeOK, Handler
<1>11. CASE GuardRefuses \/ GuardTimeout
  <2>1. GiveUp /\ inst.pc = "guard" /\ budget' \in 0 .. MaxFaults
    BY <1>11 DEF GuardRefuses, GuardTimeout, Spend, TypeOK, GuardTypeOK
  <2>2. inst.id \in Ids
    BY <2>1 DEF TypeOK
  <2>3. /\ requests' \in [Ids -> Request]
        /\ \A j \in Ids : /\ requests'[j].kind = requests[j].kind
                          /\ requests'[j].path = requests[j].path
                          /\ requests'[j].hash = requests[j].hash
    BY <2>1, <2>2, UpdateStatusType DEF GiveUp, Status, TypeOK
  <2>4. QED
    BY <2>1, <2>3 DEF GiveUp, TypeOK, GuardTypeOK, Resting, Handler
<1>12. CASE GuardAbsent
  <2>1. inst.id \in Ids /\ budget' \in 0 .. MaxFaults
    BY <1>12 DEF GuardAbsent, Spend, TypeOK, GuardTypeOK
  <2>2. /\ requests' \in [Ids -> Request]
        /\ \A j \in Ids : /\ requests'[j].kind = requests[j].kind
                          /\ requests'[j].path = requests[j].path
                          /\ requests'[j].hash = requests[j].hash
    BY <1>12, <2>1, UpdateStatusType DEF GuardAbsent, Status
  <2>3. QED
    BY <1>12, <2>1, <2>2
    DEF GuardAbsent, TypeOK, GuardTypeOK, Resting, Handler
<1>13. CASE Record
  <2>1. inst.id \in Ids /\ requests[inst.id].kind = "external"
    BY <1>13 DEF Record, TypeOK
  <2>2. budget' \in 0 .. MaxFaults
    BY <1>13 DEF Record, Spend, TypeOK, GuardTypeOK
  <2>3. trustedApps' \in SUBSET TrustedApp
    BY <1>13, <2>1
    DEF Record, RecordTrust, RemoveTrust, TrustedApp, TypeOK
  <2>4. QED
    BY <1>13, <2>1, <2>2, <2>3 DEF Record, TypeOK, GuardTypeOK, Handler
<1>14. CASE Finish
  <2>1. inst.id \in Ids /\ budget' \in 0 .. MaxFaults
    BY <1>14 DEF Finish, Spend, TypeOK, GuardTypeOK
  <2>2. /\ requests' \in [Ids -> Request]
        /\ \A j \in Ids : /\ requests'[j].kind = requests[j].kind
                          /\ requests'[j].path = requests[j].path
                          /\ requests'[j].hash = requests[j].hash
    <3>1. CASE UpdateStatus(inst.id, IF inst.op = "approve" THEN "approved"
                                                            ELSE "denied")
      BY <2>1, <3>1, UpdateStatusType DEF Status
    <3>2. QED
      BY <1>14, <3>1 DEF Finish, TypeOK
  <2>3. QED
    BY <1>14, <2>1, <2>2 DEF Finish, TypeOK, GuardTypeOK, Resting, Handler
<1>15. CASE InstallerCrash
  BY <1>15
  DEF InstallerCrash, Spend, TypeOK, GuardTypeOK, Resting, Handler
<1>16. CASE \E c \in Clients : ClientCalls(c)
  BY <1>16 DEF ClientCalls, PlaceCall, ClientCall, TypeOK, GuardTypeOK
<1>17. CASE ClientGivesUp
  BY <1>17 DEF ClientGivesUp, Spend, TypeOK, GuardTypeOK
<1>18. QED
  BY <1>17, <1>1, <1>2, <1>3, <1>4, <1>5, <1>6, <1>7, <1>8, <1>9, <1>10, <1>11,
     <1>12, <1>13, <1>14, <1>15, <1>16 DEF HandlerStep

\* Types are kept by every step.
LEMMA TypeStep == TypeOK /\ [Next]_vars => TypeOK'
<1> SUFFICES ASSUME TypeOK, [Next]_vars PROVE TypeOK'
  OBVIOUS
<1>1. CASE (GuardNext \/ EditFile) /\ UNCHANGED <<storeVars, inst, calls, grants>>
  BY <1>1, GuardStepType DEF TypeOK, storeVars
<1>2. CASE UNCHANGED vars
  BY <1>2 DEF vars, guardVars, storeVars, TypeOK, GuardTypeOK
<1>3. QED
  BY <1>1, <1>2, InstallerStepType DEF Next, ServiceNext

\* In every reachable state of the two services each variable has its type.
THEOREM TypeCorrect == Spec => []TypeOK
<1>1. QED
  BY InitTypeOK, TypeStep, PTL DEF Spec

----------------------------------------------------------------------------
(* What is trusted was granted.                                            *)

\* A request keeps its kind, its path and its hash, and so does the file keep
\* the lines that the requested paths may bring.
LEMMA RequestsKept ==
  ASSUME TypeOK, ExternalExists, [Next]_vars
  PROVE  /\ ExternalExists'
         /\ \A i \in Ids : External(i) =>
              External(i)' /\ requests'[i].path = requests[i].path
         /\ BroughtLines \subseteq BroughtLines'
<1> USE DEF storeVars
<1>t. requests \in [Ids -> Request]
  BY DEF TypeOK
<1>s. \/ UNCHANGED requests
      \/ \E row : row.status = "pending" /\ Insert(row)
      \/ inst.id \in Ids /\ \E status \in {"approved", "failed", "denied"} :
                                UpdateStatus(inst.id, status)
  <2>1. CASE SubmitStore
    <3>1. [NoRequest EXCEPT !.status = "pending"].status = "pending"
      BY DEF NoRequest
    <3>2. QED
      BY <2>1, <3>1 DEF SubmitStore
  <2>2. CASE SubmitHash
    BY <2>2 DEF SubmitHash
  <2>3. CASE Approve \/ GuardAbsent \/ Deny \/ Finish
    BY <2>3 DEF Approve, GuardAbsent, Deny, Finish, TypeOK
  <2>4. CASE GuardRefuses \/ GuardTimeout
    BY <2>4 DEF GuardRefuses, GuardTimeout, GiveUp, TypeOK
  <2>5. CASE ~\/ SubmitStore \/ SubmitHash \/ Approve \/ GuardAbsent \/ Deny
              \/ Finish \/ GuardRefuses \/ GuardTimeout
    BY <2>5
    DEF Next, ServiceNext, HandlerStep, vars, SubmitClassify, TakeCall,
        PolkitRefuses, CallTrust, Revoke, GuardAccepts, Record, InstallerCrash,
        ClientCalls, ClientGivesUp
  <2>6. QED
    BY <2>1, <2>2, <2>3, <2>4, <2>5
<1>1. /\ ExternalExists'
      /\ \A i \in Ids : External(i) =>
           External(i)' /\ requests'[i].path = requests[i].path
  <2> USE DEF ExternalExists, External, Exists
  <2>1. CASE UNCHANGED requests
    BY <2>1
  <2>2. CASE \E row : row.status = "pending" /\ Insert(row)
    BY <1>t, <2>2 DEF Insert
  <2>3. CASE inst.id \in Ids /\ \E status \in {"approved", "failed", "denied"} :
                                    UpdateStatus(inst.id, status)
    BY <1>t, <2>3 DEF UpdateStatus, Request
  <2>4. QED
    BY <1>s, <2>1, <2>2, <2>3
<1>2. QED
  BY <1>1 DEF BroughtLines

\* Nothing is trusted, granted or under way at the start.
LEMMA InitIInv == Init => IInv
<1> SUFFICES ASSUME Init PROVE IInv
  OBVIOUS
<1>1. TypeOK
  BY InitTypeOK
<1>2. inbox = <<>> /\ guard.lines = {} /\ guard.pc = "idle" /\ inst.pc = "idle"
  BY DEF Init, GuardInit, Idle, Resting
<1>3. \A k \in 1 .. Len(inbox) : FALSE
  BY <1>2
<1>4. ExternalExists
  BY DEF Init, NoRequest, ExternalExists, External
<1>5. QED
  BY <1>1, <1>2, <1>3, <1>4
  DEF Init, GuardInit, IInv, OnlyGrantedTrusted, HashesOf, WorkGranted,
      HandlerMatches, GuardProgress, AwaitedCall

\* Taking a call leaves the later ones in place.
LEMMA TakeKeepsRest ==
  ASSUME TypeOK, NEW op, Take(op)
  PROVE  /\ Head(inbox) \in GuardCall
         /\ Head(inbox) = inbox[1] /\ 1 \in 1 .. Len(inbox)
         /\ inbox' \in Seq(GuardCall)
         /\ \A k \in 1 .. Len(inbox') :
              k + 1 \in 1 .. Len(inbox) /\ inbox'[k] = inbox[k + 1]
         /\ inbox' # <<>> => Len(inbox') \in 1 .. Len(inbox')
                            /\ inbox'[Len(inbox')] = inbox[Len(inbox)]
         /\ inbox' = <<>> => Len(inbox) = 1
<1>1. inbox \in Seq(GuardCall) /\ inbox # <<>> /\ inbox' = Tail(inbox)
  BY DEF Take, TypeOK, GuardTypeOK
<1>2. Len(inbox) \in Nat \ {0}
  BY <1>1, EmptySeq
<1>3. Head(inbox) \in GuardCall /\ Head(inbox) = inbox[1]
  BY <1>1, <1>2
<1>4. inbox' \in Seq(GuardCall) /\ Len(inbox') = Len(inbox) - 1
  BY <1>1, <1>2
<1>5. \A k \in 1 .. Len(inbox') :
         k + 1 \in 1 .. Len(inbox) /\ inbox'[k] = inbox[k + 1]
  BY <1>1, <1>2, <1>4
<1>6. inbox' # <<>> => Len(inbox') \in Nat \ {0}
  BY <1>4, EmptySeq
<1>7. inbox' = <<>> => Len(inbox') = 0
  BY EmptySeq
<1>8. QED
  BY <1>2, <1>3, <1>4, <1>5, <1>6, <1>7

\* Every step of file-guard, under every fault, keeps the invariant.
LEMMA GuardStepIInv ==
  ASSUME IInv, GuardNext, UNCHANGED <<storeVars, inst, calls, grants>>, TypeOK'
  PROVE  IInv'
<1> USE DEF IInv, OnlyGrantedTrusted, HashesOf, WorkGranted, HandlerMatches,
            GuardProgress, AwaitedCall, CarriesOut, storeVars
<1> HIDE DEF TypeOK
<1>t. guard.pc \in {"idle", "truncate", "write", "reload"}
  BY DEF TypeOK, GuardTypeOK, GuardState
<1>b. BroughtLines' = BroughtLines /\ ExternalExists'
  BY DEF BroughtLines, ExternalExists, External, Exists
<1>1. CASE TakeTrust
  <2> DEFINE call == Head(inbox)
  <2>1. Take("TrustFile") /\ call.op = "TrustFile"
    BY <1>1 DEF TakeTrust, Take
  <2>2. call.hash \in grants /\ Text[call.path].brought \subseteq BroughtLines
    BY <2>1, TakeKeepsRest
  <2>3. \A k \in 1 .. Len(inbox') : inbox'[k].op = "TrustFile" =>
           inbox'[k].hash \in grants /\ Text[inbox'[k].path].brought \subseteq BroughtLines
    BY <2>1, TakeKeepsRest
  <2>4. CASE UNCHANGED <<guard, trustFile, loaded>> /\ Answer("false", Tail(inbox))
    <3>1. guard.pc = "idle" /\ inbox # <<>> /\ inbox' = Tail(inbox)
      BY <2>1 DEF Take
    <3>2. AwaitedCall'
      BY <2>1, <2>4, <3>1, TakeKeepsRest DEF Answer
    <3>3. QED
      BY <1>b, <2>3, <2>4, <3>2
  <2>5. CASE /\ \E kept \in {Without(trustFile, call.hash), {}} :
                  guard' = [pc |-> "truncate",
                            lines |-> kept \union
                                      LinesOf(call.path, SizeOf[disk[call.path]],
                                              call.hash)]
             /\ UNCHANGED <<reply, trustFile, loaded>>
    <3>0. guard'.pc = "truncate"
      BY <2>5
    <3>1. \A l \in guard'.lines \ BroughtLines : l.hash \in grants
      BY <2>2, <2>5 DEF Without, LinesOf
    <3>2. AwaitedCall'
      BY <2>1, <2>5, <3>0, TakeKeepsRest DEF Take
    <3>3. QED
      BY <1>b, <2>3, <2>5, <3>0, <3>1, <3>2
  <2>6. QED
    BY <1>1, <2>4, <2>5 DEF TakeTrust
<1>2. CASE TakeRevoke
  <2>1. Take("RevokeFile") /\ Head(inbox).op = "RevokeFile"
    BY <1>2 DEF TakeRevoke, Take
  <2>2. \A k \in 1 .. Len(inbox') : inbox'[k].op = "TrustFile" =>
           inbox'[k].hash \in grants /\ Text[inbox'[k].path].brought \subseteq BroughtLines
    BY <2>1, TakeKeepsRest
  <2>3. CASE /\ UNCHANGED <<guard, trustFile, loaded>>
             /\ Answer("false", Tail(inbox))
    <3>1. guard.pc = "idle" /\ inbox # <<>> /\ inbox' = Tail(inbox)
      BY <2>1 DEF Take
    <3>2. AwaitedCall'
      BY <2>1, <2>3, <3>1, TakeKeepsRest DEF Answer
    <3>3. QED
      BY <1>b, <2>2, <2>3, <3>2
  <2>4. CASE /\ guard' = [pc |-> "truncate",
                          lines |-> Without(trustFile, Head(inbox).hash)]
             /\ UNCHANGED <<reply, trustFile, loaded>>
    <3>1. \A l \in guard'.lines :
             /\ l \notin BroughtLines => l.hash \in grants
             /\ l.hash # Head(inbox).hash
      BY <2>4 DEF Without, Mentions
    <3>2. AwaitedCall'
      BY <2>1, <2>4, <3>1, TakeKeepsRest DEF Take
    <3>3. QED
      BY <1>b, <2>2, <2>4, <3>1, <3>2
  <2>5. QED
    BY <1>2, <2>3, <2>4 DEF TakeRevoke
<1>3. CASE Truncate
  BY <1>b, <1>3 DEF Truncate, TypeOK, GuardTypeOK, GuardState
<1>4. CASE OpenFails
  BY <1>b, <1>4 DEF OpenFails, Idle, Answer
<1>5. CASE Write
  BY <1>b, <1>5 DEF Write, TypeOK, GuardTypeOK, GuardState
<1>6. CASE WriteFails
  BY <1>b, <1>6 DEF WriteFails, TypeOK, GuardTypeOK, GuardState
<1>7. CASE Reload
  BY <1>b, <1>7 DEF Reload, Idle, Answer
<1>8. CASE ReloadFails
  BY <1>b, <1>8 DEF ReloadFails, Idle, Answer
<1>9. CASE GuardCrash
  <2>1. inbox' = <<>> /\ Len(<<>>) = 0
    BY <1>9, EmptySeq DEF GuardCrash
  <2>2. QED
    BY <1>b, <1>9, <2>1 DEF GuardCrash, Idle
<1>10. CASE FapolicydRestart
  BY <1>b, <1>10 DEF FapolicydRestart
<1>11. QED
  BY <1>1, <1>2, <1>3, <1>4, <1>5, <1>6, <1>7, <1>8, <1>9, <1>10
  DEF GuardNext

\* A call sent is the last one in the inbox, and the others are unchanged.
LEMMA SendKeepsRest ==
  ASSUME TypeOK, NEW op \in {"TrustFile", "RevokeFile"},
         NEW hash \in Contents, NEW path \in Paths \union {NoPath},
         Send(op, hash, path)
  PROVE  /\ inbox' # <<>>
         /\ inbox'[Len(inbox')] = [op |-> op, hash |-> hash, path |-> path]
         /\ \A k \in 1 .. Len(inbox') :
              \/ k \in 1 .. Len(inbox) /\ inbox'[k] = inbox[k]
              \/ inbox'[k] = [op |-> op, hash |-> hash, path |-> path]
         /\ reply' = "none"
<1> DEFINE call == [op |-> op, hash |-> hash, path |-> path]
<1>1. call \in GuardCall /\ inbox \in Seq(GuardCall)
  BY DEF GuardCall, TypeOK, GuardTypeOK
<1>2. inbox' = Append(inbox, call) /\ reply' = "none"
  BY DEF Send
<1>3. Len(inbox') = Len(inbox) + 1 /\ Len(inbox) \in Nat
  BY <1>1, <1>2
<1>4. inbox' # <<>>
  BY <1>3, EmptySeq
<1>5. \A k \in 1 .. Len(inbox) : inbox'[k] = inbox[k]
  BY <1>1, <1>2
<1>6. inbox'[Len(inbox')] = call
  BY <1>1, <1>2, <1>3
<1>7. QED
  BY <1>2, <1>3, <1>4, <1>5, <1>6

\* A step that leaves file-guard alone, grants no less, and ends neither in
\* "trust" nor in "guard" keeps the invariant.
LEMMA QuietStepIInv ==
  ASSUME IInv, TypeOK',
         UNCHANGED <<trustFile, loaded, guard, inbox>>, grants \subseteq grants',
         ExternalExists', BroughtLines \subseteq BroughtLines',
         inst'.pc \notin {"trust", "guard"},
         inst'.pc \in {"record", "status"} => inst'.op \in {"approve", "revoke"}
  PROVE  IInv'
BY DEF IInv, OnlyGrantedTrusted, HashesOf, WorkGranted, HandlerMatches,
       GuardProgress, AwaitedCall

\* Every step of the installer and of its clients keeps the invariant.
LEMMA InstallerStepIInv ==
  ASSUME IInv, TypeOK',
         \/ HandlerStep \/ SubmitStore \/ SubmitClassify \/ PolkitRefuses
         \/ GuardAbsent \/ GuardTimeout \/ InstallerCrash
         \/ ClientGivesUp \/ \E c \in Clients : ClientCalls(c)
         \/ EditFile /\ UNCHANGED <<storeVars, inst, calls, grants>>
  PROVE  IInv'
<1> USE DEF guardVars, storeVars
<1>t. TypeOK /\ inst.pc \in {"idle", "polkit", "hash", "trust", "guard",
                             "record", "status"}
  BY DEF IInv, TypeOK, Handler
<1>b. ExternalExists' /\ BroughtLines \subseteq BroughtLines'
  BY RequestsKept DEF IInv, Next, ServiceNext
<1>1. CASE SubmitClassify \/ SubmitHash \/ PolkitRefuses \/ Deny
           \/ GuardRefuses \/ GuardTimeout \/ GuardAbsent \/ Finish
           \/ InstallerCrash
  <2>1. UNCHANGED <<trustFile, loaded, guard, inbox, grants>>
    BY <1>1
    DEF SubmitClassify, SubmitHash, PolkitRefuses, Deny, GuardRefuses,
        GuardTimeout, GiveUp, GuardAbsent, Finish, InstallerCrash
  <2>2. inst' = Resting \/ SubmitClassify
    BY <1>1
    DEF SubmitHash, PolkitRefuses, Deny, GuardRefuses, GuardTimeout, GiveUp,
        GuardAbsent, Finish, InstallerCrash
  <2>3. inst'.pc \in {"idle", "hash"}
    <3>1. CASE inst' = Resting
      BY <3>1 DEF Resting
    <3>2. CASE SubmitClassify
      BY <3>2 DEF SubmitClassify, Resting
    <3>3. QED
      BY <2>2, <3>1, <3>2
  <2>4. QED
    BY <1>b, <1>t, <2>1, <2>3, QuietStepIInv
<1>2. CASE \E c \in Clients : TakeCall(c)
  BY <1>b, <1>2, QuietStepIInv DEF TakeCall, Resting
<1>3. CASE Record
  <2>1. inst'.pc = "status" /\ inst'.op = inst.op
    BY <1>3, <1>t DEF Record, TypeOK, Handler
  <2>2. QED
    BY <1>b, <1>3, <2>1, QuietStepIInv DEF Record, IInv, HandlerMatches
<1>4. CASE Approve
  <2>1. CASE inst' = Resting /\ UNCHANGED grants
    BY <1>b, <1>4, <2>1, QuietStepIInv DEF Approve, Resting
  <2>2. CASE /\ inst' = [inst EXCEPT !.pc = "trust"]
             /\ grants' = grants \union {requests[inst.id].hash}
             /\ UNCHANGED requests
    <3>1. inst'.pc = "trust" /\ inst'.op = "approve" /\ inst'.id = inst.id
      BY <1>4, <2>2, <1>t DEF Approve, TypeOK, Handler
    <3>2. UNCHANGED <<trustFile, loaded, guard, inbox>>
      BY <1>4 DEF Approve
    <3>3. QED
      BY <1>b, <2>2, <3>1, <3>2
      DEF IInv, OnlyGrantedTrusted, HashesOf, WorkGranted, HandlerMatches,
          GuardProgress, AwaitedCall
  <2>3. QED
    BY <1>4, <2>1, <2>2 DEF Approve
<1>5. CASE CallTrust
  <2> DEFINE hash == requests[inst.id].hash
             path == requests[inst.id].path
  <2>1. /\ inst.op = "approve" /\ hash \in grants
        /\ hash \in Contents /\ path \in Paths
    BY <1>5 DEF CallTrust, IInv, HandlerMatches, WorkGranted, TypeOK
  <2>2. inst'.pc = "guard" /\ inst'.op = inst.op /\ inst'.id = inst.id
    BY <1>5, <1>t DEF CallTrust, TypeOK, Handler
  <2>3. /\ inbox' # <<>> /\ reply' = "none"
        /\ inbox'[Len(inbox')] = [op |-> "TrustFile", hash |-> hash,
                                  path |-> path]
        /\ \A k \in 1 .. Len(inbox') :
             \/ k \in 1 .. Len(inbox) /\ inbox'[k] = inbox[k]
             \/ inbox'[k] = [op |-> "TrustFile", hash |-> hash, path |-> path]
    BY <1>5, <1>t, <2>1, SendKeepsRest DEF CallTrust
  <2>b. UNCHANGED <<trustFile, loaded, guard, grants>>
        /\ Text[path].brought \subseteq BroughtLines'
    <3>1. External(inst.id) /\ inst.id \in Ids
      BY <1>5, <1>t DEF CallTrust, TypeOK, External
    <3>2. Text[path].brought \subseteq BroughtLines
      BY <3>1 DEF BroughtLines
    <3>3. QED
      BY <1>b, <1>5, <3>2 DEF CallTrust
  <2>4. WorkGranted'
    <3>1. \A k \in 1 .. Len(inbox') : inbox'[k].op = "TrustFile" =>
             inbox'[k].hash \in grants /\ Text[inbox'[k].path].brought \subseteq BroughtLines'
      BY <1>b, <2>1, <2>3, <2>b DEF IInv, WorkGranted
    <3>2. QED
      BY <1>b, <2>2, <2>b, <3>1 DEF IInv, WorkGranted, HashesOf
  <2>5. AwaitedCall'
    BY <1>5, <2>1, <2>2, <2>3 DEF CallTrust, AwaitedCall
  <2>6. QED
    BY <1>b, <1>5, <2>1, <2>2, <2>4, <2>5
    DEF CallTrust, IInv, OnlyGrantedTrusted, HashesOf, HandlerMatches, GuardProgress
<1>6. CASE Revoke
  <2>1. CASE inst' = Resting /\ UNCHANGED <<inbox, reply>>
    BY <1>b, <1>6, <2>1, QuietStepIInv DEF Revoke, Resting
  <2>2. CASE /\ External(inst.id)
             /\ Send("RevokeFile", requests[inst.id].hash, NoPath)
             /\ inst' = [inst EXCEPT !.pc = "guard"]
    <3> DEFINE hash == requests[inst.id].hash
    <3>1. hash \in Contents /\ inst.op = "revoke"
      BY <1>6, <1>t, <2>2 DEF Revoke, External, TypeOK
    <3>2. inst'.pc = "guard" /\ inst'.op = inst.op /\ inst'.id = inst.id
      BY <2>2, <1>t DEF TypeOK, Handler
    <3>3. /\ inbox' # <<>> /\ reply' = "none"
          /\ inbox'[Len(inbox')] = [op |-> "RevokeFile", hash |-> hash,
                                    path |-> NoPath]
          /\ \A k \in 1 .. Len(inbox') :
               \/ k \in 1 .. Len(inbox) /\ inbox'[k] = inbox[k]
               \/ inbox'[k] = [op |-> "RevokeFile", hash |-> hash,
                               path |-> NoPath]
      BY <1>t, <2>2, <3>1, SendKeepsRest
    <3>4. WorkGranted'
      BY <1>b, <1>6, <3>2, <3>3 DEF Revoke, IInv, WorkGranted, HashesOf
    <3>5. AwaitedCall'
      BY <1>6, <3>1, <3>2, <3>3 DEF Revoke, AwaitedCall
    <3>6. QED
      BY <1>b, <1>6, <3>1, <3>2, <3>4, <3>5
      DEF Revoke, IInv, OnlyGrantedTrusted, HashesOf, HandlerMatches, GuardProgress
  <2>3. QED
    BY <1>6, <2>1, <2>2 DEF Revoke
<1>7. CASE GuardAccepts
  <2> DEFINE hash == requests[inst.id].hash
  <2>1. inst'.pc = "record" /\ inst'.op = inst.op
    BY <1>7, <1>t DEF GuardAccepts, TypeOK, Handler
  <2>2. inbox = <<>> /\ guard.pc = "idle" /\ guard.lines = {}
    BY <1>7 DEF GuardAccepts, IInv, AwaitedCall, GuardProgress
  <2>3. \A k \in 1 .. Len(inbox) : FALSE
    BY <2>2, EmptySeq
  <2>4. inst.op = "revoke" => hash \notin HashesOf(trustFile \union loaded)
    BY <1>7 DEF GuardAccepts, IInv, AwaitedCall, CarriesOut
  <2>5. OnlyGrantedTrusted'
    BY <1>b, <1>7, <2>4 DEF GuardAccepts, IInv, OnlyGrantedTrusted, HashesOf
  <2>6. QED
    BY <1>b, <1>7, <2>1, <2>2, <2>3, <2>5
    DEF GuardAccepts, IInv, WorkGranted, HashesOf, HandlerMatches,
        GuardProgress, AwaitedCall
<1>8. CASE \/ SubmitStore \/ ClientGivesUp
           \/ \E c \in Clients : ClientCalls(c)
           \/ EditFile /\ UNCHANGED <<storeVars, inst, calls, grants>>
  <2>1. UNCHANGED <<trustFile, loaded, guard, inbox, reply, inst, grants>>
    BY <1>8 DEF SubmitStore, ClientGivesUp, ClientCalls, EditFile
  <2>2. inst.pc \in {"trust", "guard"} => UNCHANGED requests
    BY <1>8 DEF SubmitStore, ClientGivesUp, ClientCalls, EditFile
  <2>3. QED
    BY <1>b, <2>1, <2>2
    DEF IInv, OnlyGrantedTrusted, HashesOf, WorkGranted, HandlerMatches,
        GuardProgress, AwaitedCall, CarriesOut
<1>9. QED
  BY <1>1, <1>2, <1>3, <1>4, <1>5, <1>6, <1>7, <1>8 DEF HandlerStep

\* The invariant is inductive.
LEMMA IInvStep == IInv /\ [Next]_vars => IInv'
<1> SUFFICES ASSUME IInv, [Next]_vars PROVE IInv'
  OBVIOUS
<1>1. TypeOK'
  BY TypeStep DEF IInv
<1>2. CASE GuardNext /\ UNCHANGED <<storeVars, inst, calls, grants>>
  BY <1>1, <1>2, GuardStepIInv
<1>3. CASE UNCHANGED vars
  BY <1>1, <1>3
  DEF vars, guardVars, storeVars, IInv, ExternalExists, External, Exists, BroughtLines, OnlyGrantedTrusted, HashesOf,
      WorkGranted, HandlerMatches, GuardProgress, AwaitedCall, CarriesOut
<1>4. QED
  BY <1>1, <1>2, <1>3, InstallerStepIInv DEF Next, ServiceNext

\* The strengthened invariant holds throughout.
LEMMA Invariance == Spec => []IInv
BY InitIInv, IInvStep, PTL DEF Spec

\* However calls, edits, crashes, lost answers, unread trust files and half-done
\* rewrites interleave, nothing is trusted that a parent has not authorised, or
\* has revoked with success, but by a line that the text of a requested path
\* spells out.
THEOREM GrantedOnly == Spec => []OnlyGrantedTrusted
<1>1. IInv => OnlyGrantedTrusted
  BY DEF IInv
<1>2. QED
  BY <1>1, Invariance, PTL

\* So where no path's text breaks its line, nothing is trusted but what parents
\* authorised.
THEOREM PlainGrantedOnly ==
  ASSUME \A p \in Paths : Text[p].brought = {}
  PROVE  Spec => [](HashesOf(trustFile) \union HashesOf(loaded) \subseteq grants)
<1>1. IInv => HashesOf(trustFile) \union HashesOf(loaded) \subseteq grants
  <2> SUFFICES ASSUME IInv
               PROVE  HashesOf(trustFile) \union HashesOf(loaded) \subseteq grants
    OBVIOUS
  <2>1. BroughtLines = {}
    BY DEF IInv, TypeOK, BroughtLines, External
  <2>2. QED
    BY <2>1 DEF IInv, OnlyGrantedTrusted, HashesOf
<1>2. QED
  BY <1>1, Invariance, PTL
============================================================================
