--------------------------- MODULE DecisionProofs ---------------------------
(***************************************************************************)
(* Theorems about the decisions Installer records and about what it        *)
(* implements, for every set of paths, contents, ids and clients.          *)
(***************************************************************************)
EXTENDS InstallerProofs

----------------------------------------------------------------------------
(* Decisions stand.                                                        *)

\* No request exists at the start.
LEMMA DecisionOpenInit == Init => DecisionOpen
BY DEF Init, Resting, DecisionOpen

\* What happens to the table in one step: one row is inserted, or a status
\* is written by a handler that then rests, or nothing.
LEMMA TableStep ==
  ASSUME IInv, DecisionOpen, [Next]_vars
  PROVE  \/ UNCHANGED requests
         \/ /\ inst.pc \in {"idle", "hash"}
            /\ inst'.pc = "idle"
            /\ \E row : row.status = "pending" /\ Insert(row)
         \/ /\ inst' = Resting /\ inst.id \in Ids
            /\ inst.pc \notin {"idle", "hash"} /\ UNCHANGED <<calls, grants>>
            /\ \E s \in {"approved", "failed", "denied"} :
                 /\ UpdateStatus(inst.id, s)
                 /\ s = "denied" => Exists(inst.id)
                 /\ s # "denied" => Pending(inst.id)
                 /\ s = "approved" /\ External(inst.id) =>
                      /\ inst.op = "approve" /\ inst.pc = "status"
                      /\ UNCHANGED <<trustFile, loaded>>
<1> USE DEF guardVars, storeVars
<1>t. /\ TypeOK
      /\ inst.pc \notin {"idle", "hash"} => inst.id \in Ids
      /\ inst.pc \in {"trust", "guard", "record", "status"} =>
           External(inst.id) /\ inst.op \in {"approve", "revoke"}
  BY DEF IInv, TypeOK, HandlerMatches, External
<1>1. CASE SubmitStore
  <2>1. [NoRequest EXCEPT !.status = "pending"].status = "pending"
    BY DEF NoRequest
  <2>2. QED
    BY <1>1, <2>1 DEF SubmitStore
<1>2. CASE SubmitHash
  BY <1>2 DEF SubmitHash, Resting
<1>3. CASE Approve
  BY <1>3, <1>t DEF Approve, Pending
<1>4. CASE GuardAbsent
  BY <1>4, <1>t DEF GuardAbsent, IInv, HandlerMatches, DecisionOpen
<1>5. CASE Deny
  BY <1>5, <1>t DEF Deny
<1>6. CASE GuardRefuses \/ GuardTimeout
  BY <1>6, <1>t DEF GuardRefuses, GuardTimeout, GiveUp, DecisionOpen
<1>7. CASE Finish
  <2>1. CASE UNCHANGED requests
    BY <2>1
  <2>2. CASE UpdateStatus(inst.id, "approved") /\ inst.op = "approve"
    BY <1>7, <1>t, <2>2 DEF Finish, DecisionOpen
  <2>3. CASE UpdateStatus(inst.id, "denied") /\ inst.op # "approve"
    BY <1>7, <1>t, <2>3 DEF Finish, IInv, ExternalExists
  <2>4. QED
    BY <1>7, <2>1, <2>2, <2>3 DEF Finish
<1>8. CASE ~\/ SubmitStore \/ SubmitHash \/ Approve \/ GuardAbsent \/ Deny
            \/ GuardRefuses \/ GuardTimeout \/ Finish
  BY <1>8
  DEF Next, ServiceNext, HandlerStep, vars, SubmitClassify, TakeCall,
      PolkitRefuses, CallTrust, Revoke, GuardAccepts, Record, InstallerCrash,
      ClientCalls, ClientGivesUp
<1>9. QED
  BY <1>1, <1>2, <1>3, <1>4, <1>5, <1>6, <1>7, <1>8

\* A request under approval stays pending until its handler decides it.
LEMMA DecisionOpenStep ==
  ASSUME IInv, DecisionOpen, [Next]_vars
  PROVE  DecisionOpen'
<1> USE DEF guardVars, storeVars
<1>t. TypeOK
  BY DEF IInv
<1>2. ASSUME inst'.op = "approve",
             inst'.pc \in {"trust", "guard", "record", "status"}
      PROVE  Pending(inst.id)' /\ UNCHANGED requests /\ inst'.id = inst.id
  <2>1. inst' # Resting /\ inst'.pc # "idle"
    BY <1>2 DEF Resting
  <2>2. UNCHANGED requests
    BY <2>1, TableStep
  <2>3. \/ UNCHANGED inst
        \/ Approve /\ Pending(inst.id) /\ inst' = [inst EXCEPT !.pc = "trust"]
        \/ /\ inst.op = "approve"
           /\ inst.pc \in {"trust", "guard", "record", "status"}
           /\ inst'.id = inst.id
    <3>0. inst \in Handler
      BY <1>t DEF TypeOK
    <3>1. CASE Approve
      BY <1>2, <2>1, <3>1 DEF Approve
    <3>2. CASE \E c \in Clients : TakeCall(c)
      BY <1>2, <3>2 DEF TakeCall, Resting
    <3>3. CASE Revoke
      BY <1>2, <2>1, <3>0, <3>3 DEF Revoke, Handler
    <3>4. CASE CallTrust
      BY <1>2, <3>0, <3>4 DEF CallTrust, Handler
    <3>5. CASE GuardAccepts
      BY <1>2, <3>0, <3>5 DEF GuardAccepts, Handler
    <3>6. CASE Record
      BY <1>2, <3>0, <3>6 DEF Record, Handler
    <3>7. CASE SubmitClassify
      BY <1>2, <3>7 DEF SubmitClassify, Resting
    <3>8. CASE ~\/ Approve \/ \E c \in Clients : TakeCall(c)
                \/ Revoke \/ CallTrust \/ GuardAccepts \/ Record
                \/ SubmitClassify
      BY <2>1, <3>8
      DEF Next, ServiceNext, HandlerStep, vars, SubmitStore, SubmitHash,
          PolkitRefuses, GuardAbsent, Deny, GuardRefuses, GuardTimeout,
          GiveUp, Finish, InstallerCrash, ClientCalls, ClientGivesUp
    <3>9. QED
      BY <3>1, <3>2, <3>3, <3>4, <3>5, <3>6, <3>7, <3>8
  <2>4. Pending(inst.id) /\ inst'.id = inst.id
    <3>1. CASE Approve /\ Pending(inst.id) /\ inst' = [inst EXCEPT !.pc = "trust"]
      BY <1>t, <3>1 DEF TypeOK, Handler
    <3>2. QED
      BY <1>2, <2>3, <3>1 DEF DecisionOpen
  <2>5. QED
    BY <2>2, <2>4 DEF Pending
<1>3. QED
  BY <1>2 DEF DecisionOpen, Pending

\* It is so in every reachable state.
LEMMA DecisionsOpen == Spec => []DecisionOpen
<1>1. IInv /\ DecisionOpen /\ [Next]_vars => DecisionOpen'
  BY DecisionOpenStep
<1>2. QED
  BY <1>1, DecisionOpenInit, Invariance, PTL DEF Spec

\* A decided request is never pending again, and a denied or failed one is
\* never approved, whatever calls on it are queued or in progress.
THEOREM Decisions == Spec => DecisionsStand
<1> DEFINE Stand ==
      \A i \in Ids :
        requests'[i].status # requests[i].status =>
          <<requests[i].status, requests'[i].status>> \in
             {<<"none", "pending">>, <<"pending", "approved">>,
              <<"pending", "failed">>, <<"pending", "denied">>,
              <<"approved", "denied">>, <<"failed", "denied">>}
<1>1. ASSUME IInv, DecisionOpen, [Next]_vars PROVE Stand
  <2>1. requests \in [Ids -> Request]
    BY <1>1 DEF IInv, TypeOK
  <2>2. CASE UNCHANGED requests
    BY <2>2
  <2>3. CASE \E row : row.status = "pending" /\ Insert(row)
    BY <2>1, <2>3 DEF Insert, Exists
  <2>4. CASE /\ inst.id \in Ids
             /\ \E s \in {"approved", "failed", "denied"} :
                  /\ UpdateStatus(inst.id, s)
                  /\ s = "denied" => Exists(inst.id)
                  /\ s # "denied" => Pending(inst.id)
    <3>1. PICK s \in {"approved", "failed", "denied"} :
             /\ UpdateStatus(inst.id, s)
             /\ s = "denied" => Exists(inst.id)
             /\ s # "denied" => Pending(inst.id)
      BY <2>4
    <3>2. TypeOK /\ s \in Status
      BY <1>1 DEF IInv, Status
    <3>3. /\ requests'[inst.id].status = s
          /\ \A j \in Ids \ {inst.id} : requests'[j] = requests[j]
      BY <2>4, <3>1, <3>2, UpdateStatusType
    <3>4. requests[inst.id].status \in Status
      BY <2>1, <2>4 DEF Request
    <3>5. QED
      BY <3>1, <3>3, <3>4 DEF Exists, Pending, Status
  <2>5. QED
    BY <1>1, <2>2, <2>3, <2>4, TableStep
<1>2. IInv /\ DecisionOpen /\ [Next]_vars => DecisionOpen'
  BY DecisionOpenStep
<1>3. IInv /\ DecisionOpen /\ [Next]_vars => [Stand]_vars
  BY <1>1
<1>4. QED
  BY <1>2, <1>3, DecisionOpenInit, Invariance, PTL DEF Spec, DecisionsStand

----------------------------------------------------------------------------
(* The services implement the trust model.                                 *)

\* At the start nothing is asked for, trusted or authorised.
LEMMA RefinesInit == Init => Trust!TMInit
BY DEF Init, GuardInit, NoRequest, HashesOf, OwnLines, Asked, External, Trust!TMInit

\* No step writes the table and the trust file at once, and none that inserts a
\* row grants anything.
LEMMA FilesOrTable ==
  ASSUME [Next]_vars
  PROVE  /\ UNCHANGED <<trustFile, loaded>> \/ UNCHANGED requests
         /\ inst.pc \in {"idle", "hash"} => UNCHANGED grants
<1> USE DEF storeVars, guardVars
<1>1. CASE GuardNext /\ UNCHANGED <<storeVars, inst, calls, grants>>
  BY <1>1
<1>2. CASE ~(GuardNext /\ UNCHANGED <<storeVars, inst, calls, grants>>)
  <2>1. UNCHANGED <<trustFile, loaded>>
    BY <1>2
    DEF Next, ServiceNext, HandlerStep, vars, SubmitStore,
        SubmitClassify, SubmitHash, TakeCall, PolkitRefuses, Approve, CallTrust,
        GuardAbsent, Deny, Revoke, GuardAccepts, GuardRefuses, GuardTimeout,
        GiveUp, Record, Finish, InstallerCrash, ClientCalls, ClientGivesUp, EditFile
  <2>2. inst.pc \in {"idle", "hash"} => UNCHANGED grants
    BY <1>2
    DEF Next, ServiceNext, HandlerStep, vars, SubmitStore,
        SubmitClassify, SubmitHash, TakeCall, PolkitRefuses, Approve, CallTrust,
        GuardAbsent, Deny, Revoke, GuardAccepts, GuardRefuses, GuardTimeout,
        GiveUp, Record, Finish, InstallerCrash, ClientCalls, ClientGivesUp
  <2>3. QED
    BY <2>1, <2>2
<1>3. QED
  BY <1>1, <1>2

\* What a step makes of the open requests: one more is inserted, one is
\* decided, or they stay as they are; an insertion and a decision leave what is
\* trusted and granted alone.
LEMMA AskedStep ==
  ASSUME IInv, DecisionOpen, [Next]_vars
  PROVE  \/ Asked' = Asked
         \/ /\ UNCHANGED <<trustFile, loaded, grants>>
            /\ \/ \E h \in Contents : Asked' = Asked \union {h}
               \/ \E h \in Asked : Asked' = Asked \ {h}
<1>t. TypeOK /\ requests \in [Ids -> Request]
  BY DEF IInv, TypeOK
<1>1. CASE UNCHANGED requests
  BY <1>1 DEF Asked, External, Pending
<1>2. CASE /\ inst.pc \in {"idle", "hash"} /\ inst'.pc = "idle"
           /\ \E row : row.status = "pending" /\ Insert(row)
  <2>0. PICK row : row.status = "pending" /\ Insert(row)
    BY <1>2
  <2>1. PICK i \in Ids : ~Exists(i) /\ requests' = [requests EXCEPT ![i] = row]
    BY <2>0 DEF Insert
  <2>2. ~External(i)
    BY <2>1 DEF IInv, ExternalExists
  <2>3. UNCHANGED <<trustFile, loaded, grants>> \/ UNCHANGED requests
    BY <1>2, FilesOrTable
  <2>4. /\ requests' \in [Ids -> Request] /\ requests'[i] = row
        /\ External(i)' => requests'[i].hash \in Contents
        /\ \A j \in Ids \ {i} : requests'[j] = requests[j]
    <3>1. TypeOK'
      BY <1>t, TypeStep
    <3>2. QED
      BY <1>t, <2>1, <3>1 DEF TypeOK, External
  <2>5. CASE External(i)'
    <3>1. Asked' = Asked \union {requests'[i].hash}
      <4>1. Asked' \subseteq Asked \union {requests'[i].hash}
        BY <2>4 DEF Asked, External, Pending
      <4>2. Asked \subseteq Asked'
        BY <2>2, <2>4 DEF Asked, External, Pending
      <4>3. requests'[i].hash \in Asked'
        BY <2>0, <2>4, <2>5 DEF Asked, External, Pending
      <4>4. QED
        BY <4>1, <4>2, <4>3
    <3>2. QED
      BY <1>1, <2>3, <2>4, <2>5, <3>1
  <2>6. CASE ~External(i)'
    <3>1. Asked' = Asked
      BY <2>1, <2>2, <2>4, <2>6 DEF Asked, External, Pending
    <3>2. QED
      BY <3>1
  <2>7. QED
    BY <2>5, <2>6
<1>3. ASSUME NEW i \in Ids, UNCHANGED grants,
             \E s \in {"approved", "failed", "denied"} : UpdateStatus(i, s)
      PROVE  \/ Asked' = Asked
             \/ /\ UNCHANGED <<trustFile, loaded, grants>>
                /\ \E h \in Asked : Asked' = Asked \ {h}
  <2>1. /\ ~Pending(i)'
        /\ \A j \in Ids : /\ requests'[j].kind = requests[j].kind
                          /\ requests'[j].hash = requests[j].hash
                          /\ j # i => requests'[j] = requests[j]
    BY <1>t, <1>3, UpdateStatusType DEF Status, Pending
  <2>2. UNCHANGED <<trustFile, loaded>> \/ UNCHANGED requests
    BY FilesOrTable
  <2>3. Asked' = Asked \/ (requests[i].hash \in Asked
                            /\ Asked' = Asked \ {requests[i].hash})
    <3>1. Asked \ {requests[i].hash} \subseteq Asked'
      BY <2>1 DEF Asked, External, Pending
    <3>2. Asked' \subseteq Asked
      BY <2>1 DEF Asked, External, Pending
    <3>3. CASE requests[i].hash \in Asked'
      BY <3>1, <3>2, <3>3
    <3>4. CASE requests[i].hash \notin Asked'
      BY <3>1, <3>2, <3>4
    <3>5. QED
      BY <3>3, <3>4
  <2>4. QED
    BY <1>1, <1>3, <2>2, <2>3
<1>4. QED
  BY <1>1, <1>2, <1>3, TableStep

\* Only an approval that got past the re-hash authorises, and it is one of a
\* pending request; only an accepted revocation withdraws, and every other step
\* stays within what is granted.
LEMMA RefinesStep ==
  ASSUME IInv, IInv', DecisionOpen, [Next]_vars
  PROVE  [Trust!TMNext]_(Trust!tmVars)
<1> DEFINE trusted == HashesOf(OwnLines(trustFile \union loaded))
<1> USE DEF Trust!tmVars
<1>1. UNCHANGED <<grants, Asked>> => Trust!Adjust
  <2>1. trusted' \subseteq grants'
    <3>1. BroughtLines' \subseteq AnyBrought
      BY DEF IInv, TypeOK, BroughtLines, AnyBrought, External
    <3>2. QED
      BY <3>1 DEF IInv, OnlyGrantedTrusted, HashesOf, OwnLines
  <2>2. QED
    BY <2>1 DEF Trust!Adjust
<1>2. UNCHANGED <<trustFile, loaded>> => UNCHANGED trusted
  BY DEF HashesOf, OwnLines
<1>3. CASE Approve /\ ~UNCHANGED grants
  <2>1. /\ Pending(inst.id) /\ External(inst.id) /\ inst.id \in Ids
        /\ grants' = grants \union {requests[inst.id].hash}
        /\ UNCHANGED requests
    BY <1>3 DEF Approve, IInv, TypeOK
  <2>2. requests[inst.id].hash \in Asked /\ UNCHANGED Asked
    BY <2>1 DEF Asked, External, Pending
  <2>3. UNCHANGED trusted
    BY <1>2, <1>3 DEF Approve, guardVars
  <2>4. Trust!Authorise
    BY <2>1, <2>2, <2>3 DEF Trust!Authorise
  <2>5. QED
    BY <2>4 DEF Trust!TMNext
<1>4. CASE GuardAccepts /\ ~UNCHANGED grants
  <2> DEFINE h == requests[inst.id].hash
  <2>1. inst.op = "revoke" /\ grants' = grants \ {h} /\ h \in grants
    BY <1>4 DEF GuardAccepts
  <2>2. h \notin trusted
    BY <1>4, <2>1
    DEF GuardAccepts, IInv, AwaitedCall, CarriesOut, HashesOf, OwnLines
  <2>3. UNCHANGED <<trusted, Asked>>
    BY <1>2, <1>4 DEF GuardAccepts, storeVars, Asked, External, Pending
  <2>4. Trust!Withdraw
    BY <2>1, <2>2, <2>3 DEF Trust!Withdraw
  <2>5. QED
    BY <2>4 DEF Trust!TMNext
<1>5. CASE UNCHANGED grants
  <2>1. CASE Asked' = Asked
    BY <1>1, <1>5, <2>1 DEF Trust!TMNext
  <2>2. CASE UNCHANGED <<trustFile, loaded>> /\ \E h \in Contents : Asked' = Asked \union {h}
    BY <1>2, <1>5, <2>2 DEF Trust!TMNext, Trust!Ask
  <2>3. CASE UNCHANGED <<trustFile, loaded>> /\ \E h \in Asked : Asked' = Asked \ {h}
    BY <1>2, <1>5, <2>3 DEF Trust!TMNext, Trust!Decide
  <2>4. QED
    BY <2>1, <2>2, <2>3, AskedStep
<1>6. CASE ~Approve /\ ~GuardAccepts
  <2>1. UNCHANGED grants
    BY <1>6
    DEF Next, ServiceNext, HandlerStep, vars, SubmitStore, SubmitClassify,
        SubmitHash, TakeCall, PolkitRefuses, CallTrust, GuardAbsent, Deny,
        Revoke, GuardRefuses, GuardTimeout, GiveUp, Record, Finish,
        InstallerCrash, ClientCalls, ClientGivesUp
  <2>2. QED
    BY <1>5, <2>1
<1>7. QED
  BY <1>3, <1>4, <1>5, <1>6

\* Every behaviour of the two services is one the trust model allows: a
\* content goes from blocked to trusted only after a parent authorised it while
\* it was asked for, and a completed revocation is never outlived by a line of
\* its own in the trust file or in fapolicyd.
THEOREM RefinesTrustModel == Spec => TrustSpec
<1>1. IInv /\ DecisionOpen /\ [Next]_vars /\ IInv' => [Trust!TMNext]_(Trust!tmVars)
  BY RefinesStep
<1>2. QED
  BY <1>1, RefinesInit, Invariance, DecisionsOpen, PTL
  DEF Spec, TrustSpec, Trust!TMSpec

----------------------------------------------------------------------------
(* What is approved is trusted, when writes to the trust file succeed.     *)

\* Nothing is under approval at the start.
LEMMA DeliveryInit == Init => Delivery
BY DEF Init, GuardInit, Idle, Resting, Delivery

\* Every step of file-guard carries the line on its way to fapolicyd on.
LEMMA GuardStepDelivery ==
  ASSUME IInv, Delivery, "writeFail" \notin Faults, GuardNext,
         UNCHANGED <<storeVars, inst, calls, grants>>
  PROVE  Delivery'
<1> USE DEF storeVars, Delivery, HoldsRequest
<1>t. TypeOK /\ guard \in GuardState
  BY DEF IInv, TypeOK, GuardTypeOK
<1>1. CASE TakeTrust
  <2> DEFINE call == Head(inbox)
  <2>1. /\ Take("TrustFile") /\ inbox # <<>> /\ guard.pc = "idle"
        /\ inbox' = Tail(inbox)
    BY <1>1 DEF TakeTrust, Take
  <2>2. /\ inbox' # <<>> => inbox'[Len(inbox')] = inbox[Len(inbox)]
        /\ inbox' = <<>> => call = inbox[Len(inbox)]
    <3>1. Take("TrustFile")
      BY <2>1
    <3>2. inbox' = <<>> => Len(inbox) = 1 /\ call = inbox[1]
      BY <1>t, <3>1, TakeKeepsRest
    <3>3. QED
      BY <1>t, <3>1, <3>2, TakeKeepsRest
  <2>3. inst.pc = "guard" =>
           /\ reply = "none"
           /\ inbox[Len(inbox)].hash = requests[inst.id].hash
    BY <2>1 DEF IInv, AwaitedCall
  <2>4. CASE UNCHANGED <<guard, trustFile, loaded>> /\ Answer("false", Tail(inbox))
    BY <2>1, <2>2, <2>3, <2>4 DEF Answer
  <2>5. CASE /\ \E kept \in {Without(trustFile, call.hash), {}} :
                  guard' = [pc |-> "truncate",
                            lines |-> kept \union
                                      LinesOf(call.path, SizeOf[disk[call.path]],
                                              call.hash)]
             /\ UNCHANGED <<reply, trustFile, loaded>>
    <3> DEFINE line == [path |-> Text[call.path].entry,
                        size |-> SizeOf[disk[call.path]], hash |-> call.hash]
    <3>0. guard'.pc = "truncate"
      BY <2>5
    <3>1. \E l \in guard'.lines : l.path = Text[call.path].entry /\ l.hash = call.hash
      <4>1. line \in guard'.lines
        BY <2>5 DEF LinesOf
      <4>2. line.path = Text[call.path].entry /\ line.hash = call.hash
        OBVIOUS
      <4>3. QED
        BY <4>1, <4>2
    <3>2. QED
      BY <2>1, <2>2, <2>3, <2>5, <3>0, <3>1
  <2>6. QED
    BY <1>1, <2>4, <2>5 DEF TakeTrust
<1>2. CASE TakeRevoke
  <2>1. /\ Take("RevokeFile") /\ inbox # <<>> /\ guard.pc = "idle"
        /\ Head(inbox).op = "RevokeFile"
    BY <1>2 DEF TakeRevoke, Take
  <2>2. /\ inbox' # <<>> => inbox'[Len(inbox')] = inbox[Len(inbox)]
        /\ inbox' = <<>> => Head(inbox) = inbox[Len(inbox)]
    <3>1. inbox' = <<>> => Len(inbox) = 1 /\ Head(inbox) = inbox[1]
      BY <1>t, <2>1, TakeKeepsRest
    <3>2. QED
      BY <1>t, <2>1, <3>1, TakeKeepsRest
  <2>3. inst.pc = "guard" =>
           /\ reply = "none"
           /\ inst.op = "approve" => inbox[Len(inbox)].op = "TrustFile"
    BY <2>1 DEF IInv, AwaitedCall
  <2>4. inst.op = "approve" /\ inst.pc = "guard" => inbox' # <<>>
    BY <2>1, <2>2, <2>3
  <2>5. reply' = "true" => reply = "true"
    BY <1>2 DEF TakeRevoke, Answer
  <2>6. guard'.pc # "reload" /\ UNCHANGED <<trustFile, loaded>>
    BY <1>2, <2>1 DEF TakeRevoke
  <2>7. QED
    BY <2>1, <2>2, <2>3, <2>4, <2>5, <2>6
<1>3. CASE Truncate \/ Write
  <2>1. /\ guard.pc # "idle" /\ guard'.lines = guard.lines
        /\ guard'.pc \in {"write", "reload"}
        /\ guard'.pc = "reload" => trustFile' = guard.lines
        /\ UNCHANGED <<inbox, reply>>
    BY <1>3, <1>t DEF Truncate, Write, GuardState
  <2>2. inst.pc = "guard" => reply # "true"
    BY <2>1 DEF IInv, AwaitedCall
  <2>3. QED
    BY <2>1, <2>2
<1>4. CASE WriteFails
  BY <1>4 DEF WriteFails, Spend
<1>5. CASE Reload
  BY <1>5 DEF Reload, Idle, Answer, IInv, AwaitedCall
<1>6. CASE OpenFails \/ ReloadFails
  BY <1>6 DEF OpenFails, ReloadFails, Idle, Answer, IInv, AwaitedCall
<1>7. CASE GuardCrash
  BY <1>7 DEF GuardCrash, Idle
<1>8. CASE FapolicydRestart
  BY <1>8 DEF FapolicydRestart
<1>9. QED
  BY <1>1, <1>2, <1>3, <1>4, <1>5, <1>6, <1>7, <1>8 DEF GuardNext

\* Every other step leaves the line where it is until the handler rests.
LEMMA InstallerStepDelivery ==
  ASSUME IInv, Delivery,
         \/ HandlerStep \/ SubmitStore \/ SubmitClassify \/ PolkitRefuses
         \/ GuardAbsent \/ GuardTimeout \/ InstallerCrash
         \/ ClientGivesUp \/ \E c \in Clients : ClientCalls(c)
         \/ EditFile /\ UNCHANGED <<storeVars, inst, calls, grants>>
         \/ UNCHANGED vars
  PROVE  Delivery'
<1> USE DEF guardVars, storeVars
<1>t. TypeOK /\ inst \in Handler
  BY DEF IInv, TypeOK
<1>1. UNCHANGED <<trustFile, loaded, guard>>
  BY DEF HandlerStep, vars, SubmitStore, SubmitClassify,
         SubmitHash, TakeCall, PolkitRefuses, Approve, CallTrust, GuardAbsent,
         Deny, Revoke, GuardAccepts, GuardRefuses, GuardTimeout, GiveUp,
         Record, Finish, InstallerCrash, ClientCalls, ClientGivesUp, EditFile
<1>2. CASE CallTrust
  <2> DEFINE hash == requests[inst.id].hash
             path == requests[inst.id].path
  <2>1. inst.id \in Ids /\ requests[inst.id].kind = "external"
    BY <1>2, <1>t DEF CallTrust, TypeOK
  <2>2. hash \in Contents /\ path \in Paths
    BY <1>t, <2>1 DEF TypeOK
  <2>3. /\ inbox' # <<>> /\ reply' = "none"
        /\ inbox'[Len(inbox')] = [op |-> "TrustFile", hash |-> hash,
                                  path |-> path]
    BY <1>2, <1>t, <2>2, SendKeepsRest DEF CallTrust
  <2>4. inst'.pc = "guard" /\ inst'.id = inst.id /\ UNCHANGED requests
    BY <1>2, <1>t DEF CallTrust, Handler
  <2>5. QED
    BY <1>1, <2>3, <2>4 DEF Delivery
<1>3. CASE GuardAccepts
  <2>1. /\ inst'.pc = "record" /\ inst'.id = inst.id /\ inst'.op = inst.op
        /\ inst.pc = "guard" /\ reply = "true" /\ UNCHANGED <<requests, inbox>>
    BY <1>3, <1>t DEF GuardAccepts, Handler
  <2>2. inbox = <<>> /\ guard.pc = "idle"
    BY <2>1 DEF IInv, AwaitedCall
  <2>3. QED
    BY <1>1, <2>1, <2>2 DEF Delivery, HoldsRequest
<1>4. CASE Record
  <2>1. /\ inst'.pc = "status" /\ inst'.id = inst.id /\ inst'.op = inst.op
        /\ inst.pc = "record" /\ UNCHANGED <<requests, inbox>>
    BY <1>4, <1>t DEF Record, Handler
  <2>2. QED
    BY <1>1, <2>1 DEF Delivery, HoldsRequest
<1>5. CASE Approve
  BY <1>1, <1>5, <1>t DEF Approve, Resting, Handler, Delivery
<1>6. CASE Revoke
  <2>1. inst'.op = "revoke" \/ inst' = Resting
    BY <1>6, <1>t DEF Revoke, Handler
  <2>2. QED
    BY <1>1, <2>1 DEF Delivery, Resting
<1>7. CASE \/ SubmitStore \/ ClientGivesUp
           \/ \E c \in Clients : ClientCalls(c)
           \/ EditFile /\ UNCHANGED <<storeVars, inst, calls, grants>>
           \/ UNCHANGED vars
  <2>1. UNCHANGED <<inbox, reply, inst>>
    BY <1>7
    DEF SubmitStore, ClientGivesUp, ClientCalls, EditFile, vars
  <2>2. inst.pc \in {"guard", "record", "status"} => UNCHANGED requests
    BY <1>7
    DEF SubmitStore, ClientGivesUp, ClientCalls, EditFile, vars
  <2>3. QED
    BY <1>1, <2>1, <2>2 DEF Delivery, HoldsRequest
<1>8. CASE ~\/ CallTrust \/ GuardAccepts \/ Record \/ Approve \/ Revoke
            \/ SubmitStore \/ ClientGivesUp
            \/ \E c \in Clients : ClientCalls(c)
            \/ EditFile /\ UNCHANGED <<storeVars, inst, calls, grants>>
            \/ UNCHANGED vars
  <2>1. inst' = Resting \/ SubmitClassify \/ \E c \in Clients : TakeCall(c)
    BY <1>8
    DEF HandlerStep, vars, SubmitHash, PolkitRefuses,
        GuardAbsent, Deny, GuardRefuses, GuardTimeout, GiveUp, Finish,
        InstallerCrash
  <2>2. inst'.pc \in {"idle", "hash", "polkit"}
    <3>1. CASE inst' = Resting
      BY <3>1 DEF Resting
    <3>2. CASE SubmitClassify
      BY <3>2 DEF SubmitClassify, Resting
    <3>3. CASE \E c \in Clients : TakeCall(c)
      BY <3>3 DEF TakeCall, Resting
    <3>4. QED
      BY <2>1, <3>1, <3>2, <3>3
  <2>3. QED
    BY <1>1, <2>2 DEF Delivery
<1>9. QED
  BY <1>2, <1>3, <1>4, <1>5, <1>6, <1>7, <1>8

\* The line of the request under approval is never lost on its way.
LEMMA Deliveries ==
  ASSUME "writeFail" \notin Faults
  PROVE  Spec => []Delivery
<1>1. IInv /\ Delivery /\ [Next]_vars => Delivery'
  <2>1. IInv /\ Delivery /\ GuardNext
          /\ UNCHANGED <<storeVars, inst, calls, grants>> => Delivery'
    BY GuardStepDelivery
  <2>2. QED
    BY <2>1, InstallerStepDelivery DEF Next, ServiceNext
<1>2. QED
  BY <1>1, DeliveryInit, Invariance, PTL DEF Spec

\* Unless a write to the trust file fails unseen, a request is recorded as
\* approved only when the trust file and fapolicyd both hold its line, under
\* every other fault and however late the answers come.
THEOREM ApprovedIsTrusted ==
  ASSUME "writeFail" \notin Faults
  PROVE  Spec => ApprovedMeansTrusted
<1> DEFINE Held ==
      \A i \in Ids :
        External(i) /\ ~(requests[i].status = "approved")
                    /\ requests'[i].status = "approved" =>
          \E l \in trustFile' \intersect loaded' :
             l.path = Text[requests[i].path].entry /\ l.hash = requests[i].hash
<1>2. ASSUME IInv, DecisionOpen, Delivery, [Next]_vars PROVE Held
  <2> SUFFICES ASSUME NEW i \in Ids, External(i),
                      requests[i].status # "approved",
                      requests'[i].status = "approved"
               PROVE  \E l \in trustFile' \intersect loaded' :
                        /\ l.path = Text[requests[i].path].entry
                        /\ l.hash = requests[i].hash
    OBVIOUS
  <2>1. PICK s \in {"approved", "failed", "denied"} :
           /\ UpdateStatus(inst.id, s) /\ inst.id \in Ids
           /\ s = "approved" /\ External(inst.id) =>
                /\ inst.op = "approve" /\ inst.pc = "status"
                /\ UNCHANGED <<trustFile, loaded>>
    <3>1. requests \in [Ids -> Request]
      BY <1>2 DEF IInv, TypeOK
    <3>2. CASE \E row : row.status = "pending" /\ Insert(row)
      BY <3>1, <3>2 DEF Insert
    <3>3. QED
      BY <1>2, <3>2, TableStep
  <2>2. i = inst.id /\ s = "approved"
    BY <1>2, <2>1, UpdateStatusType DEF IInv, Status
  <2>3. QED
    BY <1>2, <2>1, <2>2 DEF Delivery, HoldsRequest
<1>4. IInv /\ DecisionOpen /\ Delivery /\ [Next]_vars => [Held]_vars
  BY <1>2
<1>5. QED
  BY <1>4, Deliveries, DecisionsOpen, Invariance, PTL
  DEF Spec, ApprovedMeansTrusted

----------------------------------------------------------------------------
(* One call at a time, when no call is given up and no installer dies.     *)

\* The calls of an installer that waits for every answer.
LEMMA HandlerStepKinds ==
  ASSUME IInv, "timeout" \notin Faults, "installerCrash" \notin Faults,
         \/ HandlerStep \/ SubmitStore \/ SubmitClassify \/ PolkitRefuses
         \/ GuardAbsent \/ GuardTimeout \/ InstallerCrash
         \/ ClientGivesUp \/ \E c \in Clients : ClientCalls(c)
         \/ EditFile /\ UNCHANGED <<storeVars, inst, calls, grants>>
         \/ UNCHANGED vars
  PROVE  /\ UNCHANGED <<trustFile, loaded, guard>>
         /\ \/ /\ CallTrust \/ Revoke
               /\ inst.pc \in {"polkit", "trust"} /\ inst'.pc = "guard"
               /\ Len(inbox') = Len(inbox) + 1 /\ inbox' # <<>>
               /\ reply' = "none" /\ UNCHANGED trustedApps
            \/ /\ inst.pc = "guard" /\ inst'.pc # "guard"
               /\ reply' = "none" /\ UNCHANGED <<inbox, trustedApps>>
               /\ \/ /\ reply = "true" /\ inst'.pc = "record"
                     /\ inst'.op = inst.op /\ inst'.id = inst.id
                     /\ UNCHANGED requests
                  \/ reply = "false" /\ inst'.pc = "idle"
            \/ Record /\ inst'.pc = "status"
            \/ /\ UNCHANGED <<inbox, reply, trustedApps>>
               /\ \/ UNCHANGED inst /\ (inst.pc # "idle" => UNCHANGED requests)
                  \/ /\ inst.pc \notin {"guard", "record"}
                     /\ inst'.pc \notin {"guard", "record"}
<1> USE DEF guardVars, storeVars
<1>t. TypeOK /\ inst \in Handler
  BY DEF IInv, TypeOK
<1>1. UNCHANGED <<trustFile, loaded, guard>>
  BY DEF HandlerStep, vars, SubmitStore, SubmitClassify,
         SubmitHash, TakeCall, PolkitRefuses, Approve, CallTrust, GuardAbsent,
         Deny, Revoke, GuardAccepts, GuardRefuses, GuardTimeout, GiveUp,
         Record, Finish, InstallerCrash, ClientCalls, ClientGivesUp, EditFile
<1>2. ASSUME NEW op \in {"TrustFile", "RevokeFile"}, NEW path \in Paths \union {NoPath},
             requests[inst.id].hash \in Contents,
             Send(op, requests[inst.id].hash, path)
      PROVE  Len(inbox') = Len(inbox) + 1 /\ inbox' # <<>> /\ reply' = "none"
  <2> DEFINE call == [op |-> op, hash |-> requests[inst.id].hash, path |-> path]
  <2>1. call \in GuardCall /\ inbox \in Seq(GuardCall)
    BY <1>2, <1>t DEF GuardCall, TypeOK, GuardTypeOK
  <2>2. inbox' = Append(inbox, call)
    BY <1>2 DEF Send
  <2>3. QED
    BY <1>2, <1>t, <2>1, <2>2, SendKeepsRest
<1>3. CASE CallTrust
  <2>1. inst.id \in Ids /\ requests[inst.id].kind = "external"
    BY <1>3, <1>t DEF CallTrust, TypeOK
  <2>2. requests[inst.id].hash \in Contents /\ requests[inst.id].path \in Paths
    BY <1>t, <2>1 DEF TypeOK
  <2>3. Len(inbox') = Len(inbox) + 1 /\ inbox' # <<>> /\ reply' = "none"
    BY <1>2, <1>3, <2>2 DEF CallTrust
  <2>4. inst.pc = "trust" /\ inst'.pc = "guard" /\ UNCHANGED trustedApps
    BY <1>3, <1>t DEF CallTrust, Handler
  <2>5. QED
    BY <1>1, <1>3, <2>3, <2>4
<1>4. CASE Revoke
  <2>0. inst.pc = "polkit" /\ inst.id \in Ids /\ UNCHANGED trustedApps
    BY <1>4, <1>t DEF Revoke, TypeOK
  <2>1. CASE inst' = Resting /\ UNCHANGED <<inbox, reply>>
    BY <1>1, <2>0, <2>1 DEF Resting
  <2>2. CASE /\ External(inst.id)
             /\ Send("RevokeFile", requests[inst.id].hash, NoPath)
             /\ inst' = [inst EXCEPT !.pc = "guard"]
    <3>1. requests[inst.id].hash \in Contents
      BY <1>t, <2>0, <2>2 DEF External, TypeOK
    <3>2. Len(inbox') = Len(inbox) + 1 /\ inbox' # <<>> /\ reply' = "none"
      BY <1>2, <2>2, <3>1
    <3>3. inst'.pc = "guard"
      BY <1>t, <2>2 DEF Handler
    <3>4. QED
      BY <1>1, <1>4, <2>0, <3>2, <3>3
  <2>3. QED
    BY <1>4, <2>1, <2>2 DEF Revoke
<1>5. CASE GuardAccepts
  BY <1>1, <1>5, <1>t DEF GuardAccepts, Handler
<1>6. CASE GuardRefuses
  BY <1>1, <1>6 DEF GuardRefuses, GiveUp, Resting
<1>7. CASE Record
  BY <1>1, <1>7, <1>t DEF Record, Handler
<1>8. CASE GuardTimeout \/ InstallerCrash \/ ClientGivesUp
  BY <1>8 DEF GuardTimeout, InstallerCrash, ClientGivesUp, Spend
<1>9. CASE Approve
  <2>1. inst.pc = "polkit" /\ UNCHANGED <<inbox, reply, trustedApps>>
    BY <1>9 DEF Approve
  <2>2. inst'.pc \in {"idle", "trust"}
    BY <1>9, <1>t DEF Approve, Resting, Handler
  <2>3. QED
    BY <1>1, <2>1, <2>2
<1>10. CASE SubmitClassify \/ \E c \in Clients : TakeCall(c)
  <2>1. inst.pc = "idle" /\ UNCHANGED <<inbox, reply, trustedApps>>
    BY <1>10 DEF SubmitClassify, TakeCall
  <2>2. inst'.pc \in {"hash", "polkit"}
    BY <1>10 DEF SubmitClassify, TakeCall, Resting
  <2>3. QED
    BY <1>1, <2>1, <2>2
<1>11. CASE SubmitHash \/ PolkitRefuses \/ GuardAbsent \/ Deny \/ Finish
  <2>1. /\ inst.pc \in {"hash", "polkit", "trust", "status"} /\ inst' = Resting
        /\ UNCHANGED <<inbox, reply, trustedApps>>
    BY <1>11 DEF SubmitHash, PolkitRefuses, GuardAbsent, Deny, Finish
  <2>2. QED
    BY <1>1, <2>1 DEF Resting
<1>12. CASE \/ SubmitStore \/ \E c \in Clients : ClientCalls(c)
            \/ EditFile /\ UNCHANGED <<storeVars, inst, calls, grants>>
            \/ UNCHANGED vars
  BY <1>1, <1>12 DEF SubmitStore, ClientCalls, EditFile, vars
<1>13. QED
  BY <1>3, <1>4, <1>5, <1>6, <1>7, <1>8, <1>9, <1>10, <1>11, <1>12
  DEF HandlerStep

\* While the installer waits, the one call it sent is in the inbox or being
\* handled, and it waits as long as there is one.
LEMMA OneCallStep ==
  ASSUME IInv, OneCall, [Next]_vars,
         "timeout" \notin Faults, "installerCrash" \notin Faults
  PROVE  OneCall'
<1>t. TypeOK /\ inbox \in Seq(GuardCall) /\ guard \in GuardState
  BY DEF IInv, TypeOK, GuardTypeOK
<1>e. Len(<<>>) = 0
  BY EmptySeq
<1>1. CASE GuardNext /\ UNCHANGED <<storeVars, inst, calls, grants>>
  <2>1. CASE TakeTrust \/ TakeRevoke
    <3>1. inbox # <<>> /\ inbox' = Tail(inbox)
      BY <2>1 DEF TakeTrust, TakeRevoke, Take
    <3>2. inbox' = <<>>
      <4>1. inbox' \in Seq(GuardCall) /\ Len(inbox') = Len(inbox) - 1
        BY <1>t, <3>1
      <4>2. QED
        BY <3>1, <4>1, EmptySeq DEF OneCall
    <3>3. inst'.pc = "guard" /\ reply = "none" /\ guard.pc = "idle"
      BY <1>1, <3>1 DEF OneCall
    <3>4. UNCHANGED reply \/ UNCHANGED guard
      BY <2>1 DEF TakeTrust, TakeRevoke
    <3>5. QED
      BY <3>2, <3>3, <3>4 DEF OneCall
  <2>2. CASE Truncate \/ Write \/ WriteFails \/ FapolicydRestart
    <3>1. /\ UNCHANGED <<inbox, reply>>
          /\ guard.pc = "idle" => guard'.pc = "idle"
      BY <2>2 DEF Truncate, Write, WriteFails, FapolicydRestart
    <3>2. QED
      BY <1>1, <2>2, <3>1
      DEF OneCall, Truncate, Write, WriteFails, FapolicydRestart
  <2>3. CASE OpenFails \/ Reload \/ ReloadFails \/ GuardCrash
    <3>1. guard'.pc = "idle" /\ inbox' = <<>>
      BY <2>3
      DEF OpenFails, Reload, ReloadFails, GuardCrash, Idle, OneCall
    <3>2. QED
      BY <3>1 DEF OneCall
  <2>4. QED
    BY <1>1, <2>1, <2>2, <2>3 DEF GuardNext
<1>2. CASE ~(GuardNext /\ UNCHANGED <<storeVars, inst, calls, grants>>)
  <2>1. \/ HandlerStep \/ SubmitStore \/ SubmitClassify \/ PolkitRefuses
        \/ GuardAbsent \/ GuardTimeout \/ InstallerCrash
        \/ ClientGivesUp \/ \E c \in Clients : ClientCalls(c)
        \/ EditFile /\ UNCHANGED <<storeVars, inst, calls, grants>>
        \/ UNCHANGED vars
    BY <1>2 DEF Next, ServiceNext
  <2>2. UNCHANGED guard
    BY <2>1, HandlerStepKinds
  <2>3. CASE /\ inst.pc \in {"polkit", "trust"} /\ inst'.pc = "guard"
             /\ Len(inbox') = Len(inbox) + 1 /\ inbox' # <<>>
             /\ reply' = "none"
    BY <1>e, <2>2, <2>3 DEF OneCall
  <2>4. CASE /\ inst.pc = "guard" /\ UNCHANGED inbox
             /\ reply \in {"true", "false"} /\ reply' = "none"
    BY <2>2, <2>4 DEF OneCall
  <2>5. CASE /\ UNCHANGED <<inbox, reply>>
             /\ inst.pc = inst'.pc \/ inst.pc # "guard"
    BY <2>2, <2>5 DEF OneCall
  <2>6. Record => inst.pc = "record" /\ UNCHANGED <<inbox, reply>>
    BY DEF Record, guardVars
  <2>7. QED
    BY <2>1, <2>3, <2>4, <2>5, <2>6, HandlerStepKinds
<1>3. QED
  BY <1>1, <1>2

\* It is so in every reachable state.
LEMMA OneCallAtATime ==
  ASSUME "timeout" \notin Faults, "installerCrash" \notin Faults
  PROVE  Spec => []OneCall
<1>1. Init => OneCall
  BY DEF Init, GuardInit, Idle, OneCall
<1>2. IInv /\ OneCall /\ [Next]_vars => OneCall'
  BY OneCallStep
<1>3. QED
  BY <1>1, <1>2, Invariance, PTL DEF Spec

----------------------------------------------------------------------------
(* The registry, when every write and reload takes effect.                 *)

\* What the lines of a rewrite are, by hash and path, where no path is read for
\* a hash.
LEMMA RewriteEntries ==
  ASSUME NEW lines, NEW hash, \A l \in lines : Text[l.path].quotes = {}
  PROVE  /\ Entries(Without(lines, hash)) = {e \in Entries(lines) : e[1] # hash}
         /\ \A line : Entries(Without(lines, hash) \union {line}) =
              {e \in Entries(lines) : e[1] # hash} \union {<<line.hash, line.path>>}
<1>1. Without(lines, hash) = {l \in lines : l.hash # hash}
  BY DEF Without, Mentions
<1>2. QED
  BY <1>1 DEF Entries

\* The rows stay those of requests, and a path once requested stays requested.
LEMMA RowsStayRequested ==
  ASSUME IInv, RowsRequested, [Next]_vars
  PROVE  RowsRequested' /\ (AllPlain' => AllPlain)
<1>t. TypeOK
  BY DEF IInv
<1>k. \A i \in Ids : External(i) =>
        External(i)' /\ requests'[i].path = requests[i].path
  BY RequestsKept DEF IInv
<1>1. AllPlain' => AllPlain
  BY <1>k DEF AllPlain, Plain
<1>2. CASE Record
  <2>1. inst.id \in Ids /\ External(inst.id)
    BY <1>2, <1>t DEF Record, TypeOK, External
  <2>2. \A a \in trustedApps' : a \in trustedApps \/ a.path = requests[inst.id].path
    BY <1>2 DEF Record, RecordTrust, RemoveTrust
  <2>3. QED
    BY <1>1, <1>k, <2>1, <2>2 DEF RowsRequested
<1>3. CASE UNCHANGED trustedApps
  BY <1>1, <1>3, <1>k DEF RowsRequested
<1>4. QED
  BY <1>2, <1>3
  DEF Next, ServiceNext, HandlerStep, SubmitStore, SubmitClassify, SubmitHash,
      TakeCall, PolkitRefuses, Approve, CallTrust, GuardAbsent, Deny, Revoke,
      GuardAccepts, GuardRefuses, GuardTimeout, GiveUp, UpdateStatus, Finish,
      InstallerCrash, ClientCalls, ClientGivesUp, storeVars, vars

\* The call file-guard takes is the one the installer waits for.
LEMMA TakenIsAwaited ==
  ASSUME IInv, OneCall, NEW op, Take(op)
  PROVE  /\ inst.pc = "guard" /\ reply = "none" /\ inbox' = <<>>
         /\ Head(inbox) = inbox[Len(inbox)]
         /\ Head(inbox).hash = requests[inst.id].hash
         /\ op = IF inst.op = "approve" THEN "TrustFile" ELSE "RevokeFile"
<1>1. inbox # <<>> /\ guard.pc = "idle" /\ Head(inbox).op = op
  BY DEF Take
<1>2. inst.pc = "guard" /\ reply = "none" /\ Len(inbox) = 1
  BY <1>1 DEF OneCall
<1>3. Head(inbox) = inbox[1] /\ inbox' \in Seq(GuardCall)
  BY TakeKeepsRest DEF IInv
<1>4. inbox' = <<>>
  <2>1. inbox' # <<>> => Len(inbox') \in 1 .. Len(inbox')
    BY TakeKeepsRest DEF IInv
  <2>2. \A k \in 1 .. Len(inbox') : k + 1 \in 1 .. Len(inbox)
    BY TakeKeepsRest DEF IInv
  <2>3. Len(inbox') \in Nat
    BY <1>3
  <2>4. QED
    BY <1>2, <2>1, <2>2, <2>3
<1>5. QED
  BY <1>1, <1>2, <1>3, <1>4 DEF IInv, AwaitedCall

\* A step of file-guard carries the outcome of the one call on.
LEMMA GuardStepRegistry ==
  ASSUME IInv, Delivery, OneCall, RegistryInv, RowsRequested, AllPlain, GuardNext,
         UNCHANGED <<storeVars, inst, calls, grants>>,
         Faults \subseteq {"openFail", "fapolicydRestart"}
  PROVE  RegistryInv'
<1> USE DEF storeVars
<1>t. TypeOK /\ guard \in GuardState
  BY DEF IInv, TypeOK, GuardTypeOK
<1>r. Rows' = Rows
  BY DEF Rows
<1>o. \A entries : Outcome(entries)' = Outcome(entries)
  BY DEF Outcome
<1>1. CASE TakeTrust \/ TakeRevoke
  <2>1. PICK op \in {"TrustFile", "RevokeFile"} :
           /\ op = "TrustFile" => TakeTrust
           /\ op = "RevokeFile" => TakeRevoke
           /\ Take(op)
    BY <1>1 DEF TakeTrust, TakeRevoke
  <2>2. /\ inst.pc = "guard" /\ reply = "none"
        /\ Head(inbox).hash = requests[inst.id].hash
        /\ Head(inbox) = inbox[Len(inbox)]
        /\ op = IF inst.op = "approve" THEN "TrustFile" ELSE "RevokeFile"
    BY <2>1, TakenIsAwaited
  <2>3. guard.pc = "idle" /\ inbox # <<>> /\ UNCHANGED <<trustFile, loaded>>
    BY <2>1 DEF Take, TakeTrust, TakeRevoke
  <2>4. Entries(trustFile) = Rows /\ loaded = trustFile
    BY <2>2, <2>3 DEF RegistryInv, Ahead
  <2>p. \A l \in trustFile : Text[l.path].quotes = {}
    <3> SUFFICES ASSUME NEW l \in trustFile PROVE Text[l.path].quotes = {}
      OBVIOUS
    <3>1. <<l.hash, l.path>> \in Rows
      BY <2>4 DEF Entries
    <3>2. PICK a \in trustedApps : <<l.hash, l.path>> = <<a.hash, a.path>>
      BY <3>1 DEF Rows
    <3>3. PICK i \in Ids : External(i) /\ requests[i].path = a.path
      BY DEF RowsRequested
    <3>4. l.path = requests[i].path
      BY <3>2, <3>3
    <3>5. Plain(l.path)
      BY <3>3, <3>4 DEF AllPlain
    <3>6. QED
      BY <3>5 DEF Plain
  <2>5. CASE UNCHANGED guard /\ reply' \in {"none", "false"}
    BY <1>r, <2>2, <2>3, <2>4, <2>5 DEF RegistryInv, Ahead, Entries
  <2>6. CASE guard'.pc = "truncate" /\ UNCHANGED reply
    <3>1. CASE TakeTrust /\ op = "TrustFile"
      <4> DEFINE call == Head(inbox)
                 line == [path |-> call.path, size |-> SizeOf[disk[call.path]],
                          hash |-> call.hash]
      <4>0. call.path = requests[inst.id].path /\ Plain(call.path)
        <5>1. inst.id \in Ids /\ External(inst.id)
          BY <1>t, <2>2 DEF TypeOK, External
        <5>2. call.path = requests[inst.id].path
          BY <2>2, <2>3, <3>1 DEF Delivery
        <5>3. QED
          BY <5>1, <5>2 DEF AllPlain
      <4>1. guard'.lines = Without(trustFile, call.hash) \union {line}
        <5>1. LinesOf(call.path, SizeOf[disk[call.path]], call.hash) = {line}
          BY <4>0 DEF LinesOf, Plain
        <5>2. PICK kept :
                 /\ ReadsBack(kept, call.hash)
                 /\ guard'.lines = kept \union
                      LinesOf(call.path, SizeOf[disk[call.path]], call.hash)
          BY <2>3, <2>6, <3>1 DEF TakeTrust
        <5>3. kept = Without(trustFile, call.hash)
          BY <5>2 DEF ReadsBack, Spend
        <5>4. QED
          BY <5>1, <5>2, <5>3
      <4>2. line.hash = requests[inst.id].hash /\ line.path = requests[inst.id].path
        BY <2>2, <4>0
      <4> HIDE DEF line
      <4>3. Entries(guard'.lines) =
              {e \in Rows : e[1] # requests[inst.id].hash} \union
                {<<requests[inst.id].hash, requests[inst.id].path>>}
        <5>1. Entries(Without(trustFile, call.hash) \union {line}) =
                {e \in Entries(trustFile) : e[1] # call.hash} \union
                  {<<line.hash, line.path>>}
          <6>1. Without(trustFile, call.hash) = {l \in trustFile : l.hash # call.hash}
            BY <2>p DEF Without, Mentions
          <6>2. QED
            BY <6>1 DEF Entries
        <5>2. call.hash = requests[inst.id].hash
          BY <2>2
        <5>3. QED
          BY <2>4, <4>1, <4>2, <5>1, <5>2
      <4>4. Entries(guard'.lines) = Outcome(Rows)
        BY <2>2, <3>1, <4>3 DEF Outcome
      <4>5. QED
        BY <1>r, <1>o, <2>2, <2>3, <2>4, <2>6, <4>4
        DEF RegistryInv, Ahead, Entries
    <3>2. CASE TakeRevoke /\ op = "RevokeFile"
      <4>1. guard'.lines = Without(trustFile, requests[inst.id].hash)
        BY <2>2, <2>3, <2>6, <3>2 DEF TakeRevoke
      <4>2. Entries(guard'.lines) = {e \in Rows : e[1] # requests[inst.id].hash}
        BY <2>4, <2>p, <4>1, RewriteEntries
      <4>3. Entries(guard'.lines) = Outcome(Rows)
        BY <2>2, <3>2, <4>2 DEF Outcome
      <4>4. QED
        BY <1>r, <1>o, <2>2, <2>3, <2>4, <2>6, <4>3
        DEF RegistryInv, Ahead, Entries
    <3>3. QED
      BY <2>1, <3>1, <3>2
  <2>7. QED
    BY <1>1, <2>2, <2>3, <2>5, <2>6 DEF TakeTrust, TakeRevoke, Answer
<1>2. CASE Truncate
  <2>1. /\ guard.pc = "truncate" /\ guard'.pc = "write"
        /\ guard'.lines = guard.lines /\ UNCHANGED reply
    BY <1>2, <1>t DEF Truncate, GuardState
  <2>2. inst.pc = "guard"
    BY <2>1 DEF OneCall
  <2>3. QED
    BY <1>r, <1>o, <2>1, <2>2 DEF RegistryInv, Ahead, Entries
<1>3. CASE Write
  <2>1. /\ guard.pc = "write" /\ guard'.pc = "reload"
        /\ guard'.lines = guard.lines /\ trustFile' = guard.lines
    BY <1>3, <1>t DEF Write, GuardState
  <2>2. inst.pc = "guard"
    BY <2>1 DEF OneCall
  <2>3. QED
    BY <1>r, <1>o, <2>1, <2>2 DEF RegistryInv, Ahead, Entries
<1>4. CASE OpenFails
  <2>1. /\ guard.pc = "truncate" /\ guard'.pc = "idle" /\ reply' # "true"
        /\ UNCHANGED <<trustFile, loaded>>
    BY <1>4 DEF OpenFails, Idle, Answer, OneCall
  <2>2. inst.pc = "guard" /\ reply = "none"
    BY <2>1 DEF OneCall
  <2>3. Entries(trustFile) = Rows /\ loaded = trustFile
    BY <2>1, <2>2 DEF RegistryInv, Ahead
  <2>4. QED
    BY <1>r, <2>1, <2>2, <2>3 DEF RegistryInv, Ahead, Entries
<1>5. CASE Reload
  <2>1. /\ guard.pc = "reload" /\ guard'.pc = "idle" /\ loaded' = trustFile
        /\ UNCHANGED <<trustFile, inbox>> /\ Answer("true", inbox)
    BY <1>5 DEF Reload, Idle
  <2>2. inst.pc = "guard" /\ inbox = <<>>
    BY <2>1 DEF OneCall
  <2>3. Entries(trustFile) = Outcome(Rows) /\ reply' = "true"
    BY <2>1, <2>2 DEF RegistryInv, Ahead, Answer
  <2>4. QED
    BY <1>r, <1>o, <2>1, <2>2, <2>3 DEF RegistryInv, Ahead, Entries
<1>6. CASE FapolicydRestart
  BY <1>6, <1>r, <1>o DEF FapolicydRestart, RegistryInv, Ahead, Entries
<1>7. CASE WriteFails \/ ReloadFails \/ GuardCrash
  BY <1>7 DEF WriteFails, ReloadFails, GuardCrash, Spend
<1>8. QED
  BY <1>1, <1>2, <1>3, <1>4, <1>5, <1>6, <1>7 DEF GuardNext

\* A step of the installer records exactly what file-guard has done.
LEMMA InstallerStepRegistry ==
  ASSUME IInv, OneCall, RegistryInv,
         \/ HandlerStep \/ SubmitStore \/ SubmitClassify \/ PolkitRefuses
         \/ GuardAbsent \/ GuardTimeout \/ InstallerCrash
         \/ ClientGivesUp \/ \E c \in Clients : ClientCalls(c)
         \/ EditFile /\ UNCHANGED <<storeVars, inst, calls, grants>>
         \/ UNCHANGED vars,
         Faults \subseteq {"openFail", "fapolicydRestart"}
  PROVE  RegistryInv'
<1>f. "timeout" \notin Faults /\ "installerCrash" \notin Faults
  OBVIOUS
<1>1. UNCHANGED <<trustFile, loaded, guard>>
  BY <1>f, HandlerStepKinds
<1>2. CASE /\ inst.pc \in {"polkit", "trust"} /\ inst'.pc = "guard"
           /\ reply' = "none" /\ UNCHANGED trustedApps
  BY <1>1, <1>2 DEF OneCall, RegistryInv, Ahead, Entries, Rows
<1>3. CASE /\ inst.pc = "guard" /\ reply = "true" /\ inst'.pc = "record"
           /\ inst'.op = inst.op /\ inst'.id = inst.id
           /\ UNCHANGED <<requests, trustedApps>>
  <2>1. Rows' = Rows /\ Outcome(Rows)' = Outcome(Rows)
    BY <1>3 DEF Rows, Outcome
  <2>2. guard.pc = "idle"
    BY <1>3 DEF IInv, AwaitedCall, OneCall
  <2>3. QED
    BY <1>1, <1>3, <2>1, <2>2 DEF RegistryInv, Ahead, Entries
<1>4. CASE /\ inst.pc = "guard" /\ reply = "false" /\ inst'.pc = "idle"
           /\ UNCHANGED trustedApps
  <2>1. guard.pc = "idle"
    BY <1>4 DEF OneCall
  <2>2. Entries(trustFile) = Rows
    BY <1>4, <2>1 DEF RegistryInv, Ahead
  <2>3. QED
    BY <1>1, <1>4, <2>1, <2>2 DEF RegistryInv, Ahead, Entries, Rows
<1>5. CASE Record /\ inst'.pc = "status"
  <2>1. inst.pc = "record" /\ guard.pc = "idle"
    BY <1>5 DEF Record, OneCall
  <2>2. Entries(trustFile) = Outcome(Rows)
    BY <2>1 DEF RegistryInv, Ahead
  <2>3. Rows' = Outcome(Rows)
    <3>1. /\ inst.op = "approve" => RecordTrust(inst.id)
          /\ inst.op # "approve" => RemoveTrust(requests[inst.id].hash)
      BY <1>5 DEF Record, Spend
    <3>2. CASE inst.op = "approve"
      <4> DEFINE row == [hash |-> requests[inst.id].hash,
                         path |-> requests[inst.id].path, request |-> inst.id]
      <4>1. trustedApps' = {a \in trustedApps : a.hash # requests[inst.id].hash}
                             \union {row}
        BY <3>1, <3>2 DEF RecordTrust
      <4>2. row.hash = requests[inst.id].hash /\ row.path = requests[inst.id].path
        OBVIOUS
      <4> HIDE DEF row
      <4>3. QED
        BY <3>2, <4>1, <4>2 DEF Rows, Outcome
    <3>3. CASE inst.op # "approve"
      BY <3>1, <3>3 DEF RemoveTrust, Rows, Outcome
    <3>4. QED
      BY <3>2, <3>3
  <2>4. QED
    BY <1>1, <1>5, <2>1, <2>2, <2>3 DEF RegistryInv, Ahead, Entries
<1>6. CASE /\ UNCHANGED <<inbox, reply, trustedApps, inst>>
           /\ inst.pc # "idle" => UNCHANGED requests
  <2>1. Rows' = Rows
    BY <1>6 DEF Rows
  <2>2. inst.pc # "idle" => Outcome(Rows)' = Outcome(Rows)
    BY <1>6, <2>1 DEF Outcome
  <2>3. inst.pc = "idle" => guard.pc = "idle"
    BY DEF OneCall
  <2>4. QED
    BY <1>1, <1>6, <2>1, <2>2, <2>3 DEF RegistryInv, Ahead, Entries
<1>7. CASE /\ UNCHANGED <<inbox, reply, trustedApps>>
           /\ inst.pc \notin {"guard", "record"}
           /\ inst'.pc \notin {"guard", "record"}
  BY <1>1, <1>7 DEF OneCall, RegistryInv, Ahead, Entries, Rows
<1>8. QED
  BY <1>f, <1>2, <1>3, <1>4, <1>5, <1>6, <1>7, HandlerStepKinds

\* When the trust file can always be read, no write of it or of the registry and no
\* reload fails unnoticed or half way, no answer is given up, no service dies and
\* every requested path is plain, whatever is submitted, edited, refused and
\* restarted: at rest the Trusted Apps tab shows what the trust file holds and
\* fapolicyd enforces.  Every fault the hypothesis excludes breaks it.
THEOREM RegistryFollows ==
  ASSUME Faults \subseteq {"openFail", "fapolicydRestart"}
  PROVE  Spec => []RegistryAgrees
<1> DEFINE Follows == RowsRequested /\ (AllPlain => RegistryInv)
<1>f. /\ "timeout" \notin Faults /\ "installerCrash" \notin Faults
      /\ "writeFail" \notin Faults
  OBVIOUS
<1>1. Init => Follows
  BY DEF Init, GuardInit, Idle, Resting, RegistryInv, Ahead, Entries, Rows,
         RowsRequested
<1>2. IInv /\ Delivery /\ OneCall /\ Follows /\ [Next]_vars => Follows'
  <2> SUFFICES ASSUME IInv, Delivery, OneCall, Follows, [Next]_vars, AllPlain'
               PROVE  RegistryInv'
    BY RowsStayRequested
  <2>1. AllPlain
    BY RowsStayRequested
  <2>2. QED
    BY <2>1, GuardStepRegistry, InstallerStepRegistry DEF Next, ServiceNext
<1>3. Follows => RegistryAgrees
  BY DEF RegistryInv, RegistryAgrees, Settled, Ahead, Entries, Rows
<1>4. Spec => []OneCall
  BY <1>f, OneCallAtATime
<1>5. Spec => []Delivery
  BY <1>f, Deliveries
<1>6. QED
  BY <1>1, <1>2, <1>3, <1>4, <1>5, Invariance, PTL DEF Spec

----------------------------------------------------------------------------
(* What a rewrite does to the other files' trust.                          *)

\* A content that may be dropped by the decision the installer waits for.
Droppable(h) ==
  \/ inst.op = "revoke" /\ requests[inst.id].hash = h
  \/ \E l \in loaded : l.hash = h /\ requests[inst.id].hash \in Text[l.path].quotes

\* A step of file-guard drops no other content.
LEMMA GuardStepKeeps ==
  ASSUME IInv, Delivery, OneCall, RewriteKeeps, GuardNext,
         UNCHANGED <<storeVars, inst, calls, grants>>,
         Faults \subseteq {"openFail", "dbFail"}
  PROVE  /\ RewriteKeeps'
         /\ \A h \in HashesOf(loaded) \ HashesOf(loaded') :
              inst.pc = "guard" /\ Droppable(h)
<1> USE DEF storeVars
<1>t. TypeOK /\ guard \in GuardState
  BY DEF IInv, TypeOK, GuardTypeOK
<1>1. CASE TakeTrust \/ TakeRevoke
  <2>1. PICK op \in {"TrustFile", "RevokeFile"} :
           /\ op = "TrustFile" => TakeTrust
           /\ op = "RevokeFile" => TakeRevoke
           /\ Take(op)
    BY <1>1 DEF TakeTrust, TakeRevoke
  <2>2. /\ inst.pc = "guard"
        /\ Head(inbox).hash = requests[inst.id].hash
        /\ op = IF inst.op = "approve" THEN "TrustFile" ELSE "RevokeFile"
    BY <2>1, TakenIsAwaited
  <2>3. guard.pc = "idle" /\ UNCHANGED <<trustFile, loaded>>
    BY <2>1 DEF Take, TakeTrust, TakeRevoke
  <2>4. loaded = trustFile
    BY <2>3 DEF RewriteKeeps
  <2>5. CASE UNCHANGED guard
    BY <2>3, <2>4, <2>5 DEF RewriteKeeps
  <2>6. CASE guard'.pc = "truncate"
    <3>1. Without(trustFile, requests[inst.id].hash) \subseteq guard'.lines
      BY <2>1, <2>2, <2>3, <2>6 DEF TakeTrust, TakeRevoke, ReadsBack, Spend
    <3>2. \A h \in HashesOf(loaded) \ HashesOf(guard'.lines) : Droppable(h)
      <4> SUFFICES ASSUME NEW l \in trustFile, l.hash \notin HashesOf(guard'.lines)
                   PROVE  Droppable(l.hash)
        BY <2>4 DEF HashesOf
      <4>1. Mentions(l, requests[inst.id].hash)
        BY <3>1 DEF Without, HashesOf
      <4>2. CASE TakeTrust /\ op = "TrustFile"
        <5>1. requests[inst.id].hash \in HashesOf(guard'.lines)
          <6> DEFINE line == [path |-> Text[Head(inbox).path].entry,
                              size |-> SizeOf[disk[Head(inbox).path]],
                              hash |-> Head(inbox).hash]
          <6>1. line \in guard'.lines
            BY <2>3, <2>6, <4>2 DEF TakeTrust, LinesOf
          <6>2. line.hash = requests[inst.id].hash
            BY <2>2
          <6> HIDE DEF line
          <6>3. QED
            BY <6>1, <6>2 DEF HashesOf
        <5>2. QED
          BY <2>4, <4>1, <5>1 DEF Mentions, Droppable
      <4>3. CASE TakeRevoke /\ op = "RevokeFile"
        BY <2>2, <2>4, <4>1, <4>3 DEF Mentions, Droppable, IInv, HandlerMatches
      <4>4. QED
        BY <2>1, <4>2, <4>3
    <3>3. QED
      BY <2>3, <2>4, <2>6, <3>2 DEF RewriteKeeps, Droppable
  <2>7. QED
    BY <1>1, <2>3, <2>5, <2>6 DEF TakeTrust, TakeRevoke
<1>2. CASE Truncate \/ Write
  <2>1. /\ guard.pc \in {"truncate", "write"} /\ guard'.pc \in {"write", "reload"}
        /\ guard'.lines = guard.lines /\ UNCHANGED loaded
    BY <1>2, <1>t DEF Truncate, Write, GuardState
  <2>2. QED
    BY <2>1 DEF RewriteKeeps
<1>3. CASE OpenFails
  BY <1>3 DEF OpenFails, Idle, RewriteKeeps
<1>4. CASE Reload
  <2>1. /\ guard.pc = "reload" /\ guard'.pc = "idle" /\ loaded' = trustFile
        /\ UNCHANGED trustFile
    BY <1>4 DEF Reload, Idle
  <2>2. inst.pc = "guard" /\ trustFile = guard.lines
    BY <2>1 DEF OneCall, Delivery
  <2>3. QED
    BY <2>1, <2>2 DEF RewriteKeeps, Droppable
<1>5. CASE WriteFails \/ ReloadFails \/ GuardCrash \/ FapolicydRestart
  BY <1>5 DEF WriteFails, ReloadFails, GuardCrash, FapolicydRestart, Spend
<1>6. QED
  BY <1>1, <1>2, <1>3, <1>4, <1>5 DEF GuardNext

\* A step of the installer leaves the rewrite it waits for alone.
LEMMA InstallerStepKeeps ==
  ASSUME IInv, OneCall, RewriteKeeps,
         \/ HandlerStep \/ SubmitStore \/ SubmitClassify \/ PolkitRefuses
         \/ GuardAbsent \/ GuardTimeout \/ InstallerCrash
         \/ ClientGivesUp \/ \E c \in Clients : ClientCalls(c)
         \/ EditFile /\ UNCHANGED <<storeVars, inst, calls, grants>>
         \/ UNCHANGED vars,
         Faults \subseteq {"openFail", "dbFail"}
  PROVE  RewriteKeeps' /\ UNCHANGED loaded
<1>f. "timeout" \notin Faults /\ "installerCrash" \notin Faults
  OBVIOUS
<1>1. UNCHANGED <<trustFile, loaded, guard>>
  BY <1>f, HandlerStepKinds
<1>2. guard.pc # "idle" => inst.pc = "guard" /\ reply = "none"
  BY DEF OneCall
<1>3. guard.pc # "idle" => UNCHANGED <<inst, requests>>
  <2>1. Record => inst.pc = "record"
    BY DEF Record
  <2>2. QED
    BY <1>f, <1>2, <2>1, HandlerStepKinds
<1>4. QED
  BY <1>1, <1>3 DEF RewriteKeeps

\* A trusted content stops being enforced only while its own revocation is in
\* progress (or a decision on a content whose hash its path quotes), when the trust
\* file can be read, no rewrite or reload is left half way and fapolicyd does not
\* restart in the middle of one: whichever file the guard rewrites the whole trust
\* file for, every other line is read back and written again.
THEOREM OthersStay ==
  ASSUME Faults \subseteq {"openFail", "dbFail"}
  PROVE  Spec => OthersKeepTrust
<1> DEFINE Keeps == \A h \in HashesOf(loaded) \ HashesOf(loaded') :
              /\ inst.pc = "guard"
              /\ \/ inst.op = "revoke" /\ requests[inst.id].hash = h
                 \/ \E l \in loaded : /\ l.hash = h
                                      /\ requests[inst.id].hash \in Text[l.path].quotes
<1>f. /\ "timeout" \notin Faults /\ "installerCrash" \notin Faults
      /\ "writeFail" \notin Faults
  OBVIOUS
<1>1. Init => RewriteKeeps
  BY DEF Init, GuardInit, Idle, RewriteKeeps
<1>2. IInv /\ Delivery /\ OneCall /\ RewriteKeeps /\ [Next]_vars
        => RewriteKeeps' /\ Keeps
  <2> SUFFICES ASSUME IInv, Delivery, OneCall, RewriteKeeps, [Next]_vars
               PROVE  RewriteKeeps' /\ Keeps
    OBVIOUS
  <2>1. CASE GuardNext /\ UNCHANGED <<storeVars, inst, calls, grants>>
    BY <2>1, GuardStepKeeps DEF Droppable
  <2>2. CASE UNCHANGED loaded /\ RewriteKeeps'
    BY <2>2
  <2>3. QED
    BY <2>1, <2>2, InstallerStepKeeps DEF Next, ServiceNext
<1>3. IInv /\ Delivery /\ OneCall /\ RewriteKeeps /\ [Next]_vars => [Keeps]_vars
  BY <1>2
<1>4. Spec => []OneCall
  BY <1>f, OneCallAtATime
<1>5. Spec => []Delivery
  BY <1>f, Deliveries
<1>6. QED
  BY <1>1, <1>2, <1>3, <1>4, <1>5, Invariance, PTL DEF Spec, OthersKeepTrust
=============================================================================
