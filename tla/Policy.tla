------------------------------- MODULE Policy -------------------------------
(***************************************************************************)
(* kidsos-policy: app policies and managed settings in                     *)
(* /etc/kidsos/policy.json.  The service has one thread and takes its      *)
(* calls in the order of the bus; a handler is cut where it waits for      *)
(* polkit and where the file is truncated and not yet written, since a     *)
(* crash there leaves it so.                                               *)
(*                                                                         *)
(* The two objects of the file are one function: an app's entry is its     *)
(* policy, a setting's entry "managed" or none.  A missing, an empty and a *)
(* malformed file read alike, as no entries.                               *)
(***************************************************************************)
EXTENDS Naturals, Sequences

CONSTANTS
  Apps, Settings,  \* the ids that are looked up
  Clients,         \* connections that call the service
  NoClient,        \* the sender of a call whose client has given up
  Faults,          \* the kinds of fault that may occur
  MaxFaults        \* how many of them may occur in a behaviour

ASSUME KeysAssumption == Apps \intersect Settings = {}
ASSUME ClientAssumption == NoClient \notin Clients
ASSUME FaultAssumption ==
  Faults \subseteq {"timeout", "crash", "readFail", "writeFail"} /\ MaxFaults \in Nat

VARIABLES
  file,     \* the entries policy.json holds
  serv,     \* the handler in progress: its call, the old entries and the new
  queue,    \* calls the service has not taken, in order
  replies,  \* the answer each client has not read
  told,     \* history: the entries as the last answers of true give them
  intact,   \* history: no change was cut short, unwritten or made unread
  budget    \* faults that may still occur

policyVars == <<file, serv, queue, replies, told, intact, budget>>

Keys == Apps \union Settings
Policies == {"auto", "ask_parent", "blocked"}
Values == Policies \union {"managed", "none"}
Document == {doc \in [Keys -> Values] : \A a \in Apps : doc[a] # "managed"}
Nothing == [k \in Keys |-> "none"]

SetCall(clients) ==
  [op : {"SetAppPolicy"}, key : Apps, value : Policies \union {"unlisted"}, from : clients]
    \union
  [op : {"SetSettingManaged"}, key : Settings, value : {"managed", "none"}, from : clients]
GetCall(clients) ==
  [op : {"GetAppPolicy"}, key : Apps, value : {"none"}, from : clients] \union
  [op : {"IsSettingParentManaged"}, key : Settings, value : {"none"}, from : clients]

Answers == Policies \union {"true", "false", "error", "pending"}

Resting == [pc |-> "idle"]
Anyone == Clients \union {NoClient}
Handler ==
  {Resting} \union [pc : {"polkit"}, call : SetCall(Anyone)] \union
  [pc : {"write"}, call : SetCall(Anyone), before : Document, doc : Document]

\* Type correctness; an app has a policy of the list or none.
PolicyTypeOK ==
  /\ file \in Document
  /\ serv \in Handler
  /\ queue \in Seq(SetCall(Anyone) \union GetCall(Anyone))
  /\ replies \in [Clients -> Answers]
  /\ told \in Document
  /\ intact \in BOOLEAN
  /\ budget \in 0 .. MaxFaults

PolicyInit ==
  /\ file = Nothing
  /\ serv = Resting
  /\ queue = <<>>
  /\ replies = [c \in Clients |-> "pending"]
  /\ told = Nothing
  /\ intact = TRUE
  /\ budget = MaxFaults

Spend(fault) ==
  /\ fault \in Faults
  /\ budget > 0
  /\ budget' = budget - 1

----------------------------------------------------------------------------
(* The readers.                                                            *)

\* An unknown app is never silently "auto".
GetAppPolicy(doc, app) == IF doc[app] = "none" THEN "ask_parent" ELSE doc[app]

IsSettingParentManaged(doc, setting) == doc[setting] = "managed"

Result(call) ==
  IF call.op = "GetAppPolicy" THEN GetAppPolicy(file, call.key)
  ELSE IF IsSettingParentManaged(file, call.key) THEN "true" ELSE "false"

\* The bus knows which call an answer belongs to: nobody reads the answer to a
\* call that was given up.
Answer(from, answer) ==
  replies' = [c \in Clients |-> IF c = from THEN answer ELSE replies[c]]

Read ==
  /\ serv = Resting
  /\ queue # <<>>
  /\ Head(queue) \in GetCall(Anyone)
  /\ Answer(Head(queue).from, Result(Head(queue)))
  /\ queue' = Tail(queue)
  /\ UNCHANGED <<file, serv, told, intact, budget>>

----------------------------------------------------------------------------
(* The setters.                                                            *)

\* polkit is asked, and asks the parent.
Take ==
  /\ serv = Resting
  /\ queue # <<>>
  /\ Head(queue) \in SetCall(Anyone)
  /\ serv' = [pc |-> "polkit", call |-> Head(queue)]
  /\ queue' = Tail(queue)
  /\ UNCHANGED <<file, replies, told, intact, budget>>

\* polkit refuses, the policy is not in the list, or the file cannot be opened
\* for writing: the file stays as it is.
Decline ==
  /\ serv.pc = "polkit"
  /\ serv' = Resting
  /\ Answer(serv.call.from, "false")
  /\ UNCHANGED <<file, queue, told, intact, budget>>

\* Mutant of Valid: the policy is not looked up in the list.
Any(call) == TRUE
Valid(call) == call.op = "SetAppPolicy" => call.value \in Policies

\* Mutant of Changed: the object is written without what was read.
ChangedAlone(base, call) == [Nothing EXCEPT ![call.key] = call.value]

\* Mutant of Changed: the loop that removes a setting ends before the first one.
ChangedButFirst(base, call) ==
  IF call.value = "none" THEN base ELSE [base EXCEPT ![call.key] = call.value]

\* The entries with the call's change made to them.
Changed(base, call) == [base EXCEPT ![call.key] = call.value]

\* The parent authorises the call: the file is read, unless that fails, and
\* opened with Truncate.
Open ==
  /\ serv.pc = "polkit"
  /\ Valid(serv.call)
  /\ \E base \in {file, Nothing} :
       /\ serv' = [pc |-> "write", call |-> serv.call, before |-> file,
                   doc |-> Changed(base, serv.call)]
       /\ \/ base = file /\ UNCHANGED <<intact, budget>>
          \/ base = Nothing /\ Spend("readFail") /\ intact' = FALSE
  /\ file' = Nothing
  /\ UNCHANGED <<queue, replies, told>>

\* Nothing looks at what write returns: the answer is true.
Written ==
  /\ serv.pc = "write"
  /\ serv' = Resting
  /\ told' = [told EXCEPT ![serv.call.key] = serv.call.value]
  /\ Answer(serv.call.from, "true")
  /\ UNCHANGED queue

Write ==
  /\ Written
  /\ file' = serv.doc
  /\ UNCHANGED <<intact, budget>>

WriteFails ==
  /\ Written
  /\ Spend("writeFail")
  /\ intact' = FALSE
  /\ UNCHANGED file

----------------------------------------------------------------------------
(* Clients and crashes.                                                    *)

Queued(c) ==
  \/ \E i \in DOMAIN queue : queue[i].from = c
  \/ serv # Resting /\ serv.call.from = c

Free(c) == ~Queued(c) /\ replies[c] = "pending"

PlaceCall(c, call) ==
  /\ Free(c)
  /\ queue' = Append(queue, call)
  /\ UNCHANGED <<file, serv, replies, told, intact, budget>>

ReadReply(c) ==
  /\ replies[c] # "pending"
  /\ replies' = [replies EXCEPT ![c] = "pending"]
  /\ UNCHANGED <<file, serv, queue, told, intact, budget>>

\* A client gives up after 25 seconds; the service handles the call all the same.
Disowned(call, c) == IF call.from = c THEN [call EXCEPT !.from = NoClient] ELSE call

GiveUp(c) ==
  /\ Queued(c)
  /\ Spend("timeout")
  /\ queue' = [i \in DOMAIN queue |-> Disowned(queue[i], c)]
  /\ serv' = IF serv = Resting THEN serv ELSE [serv EXCEPT !.call = Disowned(@, c)]
  /\ replies' = [replies EXCEPT ![c] = "error"]
  /\ UNCHANGED <<file, told, intact>>

\* Mutant of Crash: the clients of the dead service are not told.
CrashSilently ==
  /\ Spend("crash")
  /\ file' \in {file} \union (IF serv.pc = "write" THEN {serv.doc} ELSE {})
  /\ intact' = (intact /\ serv.pc # "write")
  /\ serv' = Resting
  /\ queue' = <<>>
  /\ UNCHANGED <<replies, told>>

\* The process dies, perhaps with the file written and no answer sent.  The
\* bus ends the calls that have no answer with an error.
Crash ==
  /\ Spend("crash")
  /\ file' \in {file} \union (IF serv.pc = "write" THEN {serv.doc} ELSE {})
  /\ intact' = (intact /\ serv.pc # "write")
  /\ serv' = Resting
  /\ queue' = <<>>
  /\ replies' = [c \in Clients |-> IF Queued(c) THEN "error" ELSE replies[c]]
  /\ UNCHANGED told

ServiceStep == Read \/ Take \/ Decline \/ Open \/ Write

PolicyNext ==
  \/ ServiceStep \/ WriteFails \/ Crash
  \/ \E c \in Clients :
       \/ \E call \in SetCall({c}) \union GetCall({c}) : PlaceCall(c, call)
       \/ ReadReply(c) \/ GiveUp(c)
----------------------------------------------------------------------------
(* Properties.                                                             *)

\* Readers get exactly what the service last answered true to: a change of one
\* key never disturbs another, nor does a call that is declined, given up or
\* interrupted before the file is opened.  Only a lost write, a failed read
\* before one, or a crash during one is excepted.
AnsweredStands == intact /\ serv.pc # "write" => file = told

\* While the file is truncated, a valid change is on its way: to the entries
\* readers had, or to none if they could not be read.
WriteIsCall ==
  serv.pc = "write" =>
    /\ file = Nothing
    /\ Valid(serv.call)
    /\ \E base \in {serv.before, Nothing} : serv.doc = Changed(base, serv.call)
    /\ intact => serv.before = told /\ serv.doc = Changed(serv.before, serv.call)

PolicyInv == PolicyTypeOK /\ WriteIsCall /\ AnsweredStands

\* The service implements the policy map, with the entries readers can get:
\* while the file is truncated, those it held.
Map == INSTANCE PolicyMap
         WITH None <- "none",
              entries <- IF serv.pc = "write" THEN serv.before ELSE file,
              decision <- IF serv.pc = "write" THEN <<serv.call.key, serv.call.value>>
                                               ELSE <<>>

PolicySpec == Map!PMSpec
=============================================================================
